---------------------------- MODULE ScopesProofs ----------------------------
(***************************************************************************)
(* The walks of Scopes and its symbol tables, for programs of any number   *)
(* of modules and trees of any depth.  First the walks: the list of        *)
(* parents is the way to the node, no node is missed, and what the         *)
(* analysis answers is what it has said.  Then the tables: the current one *)
(* is that of the scope around the node, tables hang under each other as   *)
(* scopes lie in each other, and a return statement finds the function it  *)
(* is in.                                                                  *)
(***************************************************************************)
EXTENDS Scopes, FiniteSetTheorems, WellFoundedInduction, TLAPS

-----------------------------------------------------------------------------
(* The order of the walk.  A path is to the left of another one if it      *)
(* branches off before it, and within it if it goes on below it.           *)
LeftOf(p, q) ==
    \E i \in 1..Len(p) :
        /\ i <= Len(q) /\ p[i] < q[i]
        /\ \A j \in 1..(i - 1) : p[j] = q[j]
Within(p, q) == Len(q) < Len(p) /\ \A j \in 1..Len(q) : p[j] = q[j]

(* What the walk is done with: the nodes to the left, and on the way up    *)
(* those below.                                                            *)
Behind(p) == LeftOf(p, at) \/ (dir = "up" /\ Within(p, at))

(* The inductive invariant.  The walk is at a node of the program.         *)
PlaceInv ==
    /\ prog \in Programs /\ m \in DOMAIN prog /\ at \in Paths(m)
    /\ dir \in {"down", "up"}
    /\ stage \in {"declare", "check", "analyzed", "failed", "asserted",
                  "crashed"}

(* What failed on the way down lies behind, in this module and walk, and   *)
(* an error tells of it.                                                   *)
LostInv ==
    Walking =>
        /\ IsFiniteSet(lost)
        /\ \A w \in lost :
            /\ stage = "check" /\ w = <<m, w[2]>> /\ w[2] \in Paths(m)
            /\ Behind(w[2])
            /\ \E e \in errors : e.node = w

(* The parents are the way to the node and one node for each that failed.  *)
WayHere == IF dir = "up" THEN WayTo(at) ELSE Front(WayTo(at))
ParentsInv ==
    Walking =>
        /\ IsSeq(parents)
        /\ Len(parents) = Len(WayHere) + Cardinality(lost)
        /\ lost = {} => parents = WayHere

(* The errors are of the module that is checked.                           *)
ErrorsInv ==
    /\ Walking => \A e \in errors : stage = "check" /\ e.node[1] = m
    /\ stage = "failed" => \E e \in errors : e.node[1] = m
    /\ stage = "analyzed" => errors = {}

(* Without an error all that lies behind was looked at, in this module and *)
(* in those before it.                                                     *)
Checked(n) == \A p \in Paths(n) : IsLookedAt(n, p) => <<n, p>> \in DOMAIN found
SeenInv ==
    /\ Walking /\ errors = {} =>
        /\ \A n \in 1..(m - 1) : Checked(n)
        /\ stage = "check" =>
            \A p \in Paths(m) : IsLookedAt(m, p) /\ Behind(p)
                                => <<m, p>> \in DOMAIN found
    /\ stage = "analyzed" => \A n \in DOMAIN prog : Checked(n)

ScopesIInv == PlaceInv /\ LostInv /\ ParentsInv /\ ErrorsInv /\ SeenInv

-----------------------------------------------------------------------------
(* Numbers and sequences.                                                  *)

(* A set of numbers that is not empty has a least one: in its initial      *)
(* segments, which are finite sets, there is one with none inside of it.   *)
LEMMA LeastNumber ==
    ASSUME NEW S \in SUBSET Nat, S # {}
    PROVE  \E n \in S : \A k \in S : n <= k
<1> DEFINE Segments == {1..n : n \in S}
<1>1. Segments \subseteq FiniteSubsetsOf(Nat)
  <2> SUFFICES ASSUME NEW n \in S PROVE 1..n \in FiniteSubsetsOf(Nat)
    OBVIOUS
  <2>1. IsFiniteSet(1..n)
    BY FS_Interval
  <2> QED
    BY <2>1 DEF FiniteSubsetsOf
<1>2. Segments # {}
  OBVIOUS
<1>3. PICK x \in Segments :
        \A y \in Segments : ~(<<y, x>> \in StrictSubsetOrdering(Nat))
  BY <1>1, <1>2, FS_StrictSubsetOrderingWellFounded, WFMin
<1>4. PICK n \in S : x = 1..n
  OBVIOUS
<1>5. ASSUME NEW k \in S, ~(n <= k) PROVE FALSE
  <2>1. k < n /\ k \in Nat /\ n \in Nat
    BY <1>5
  <2>2. 1..k \subseteq 1..n /\ n \in 1..n /\ n \notin 1..k
    BY <2>1
  <2>3. <<1..k, 1..n>> \in StrictSubsetOrdering(Nat)
    BY <2>2 DEF StrictSubsetOrdering
  <2> QED
    BY <1>3, <1>4, <2>3
<1> QED
  BY <1>5

-----------------------------------------------------------------------------
(* The paths of a tree.                                                    *)

Kids(tree, p) == 1..Len(NodeOf(tree, p).ch)

(* What is reached from a place by steps to children.                      *)
Reached(tree, p) ==
    {q \in Seq(Nat) :
        /\ Len(p) <= Len(q) /\ \A j \in 1..Len(p) : q[j] = p[j]
        /\ Len(p) < Len(q) => Len(q) <= MaxDepth
        /\ \A k \in Len(p)..(Len(q) - 1) : q[k + 1] \in Kids(tree, SubSeq(q, 1, k))}

ReachedBy(tree, p) ==
    {p} \cup (IF Len(p) < MaxDepth
             THEN UNION {Reached(tree, Append(p, i)) : i \in Kids(tree, p)}
             ELSE {})

(* A child has a number.                                                   *)
LEMMA KidsAreNumbers ==
    ASSUME NEW tree, NEW p, NEW i \in Kids(tree, p)
    PROVE  i \in Nat \ {0}
BY DEF Kids

(* Two paths are the same if they have the same steps.                     *)
LEMMA SamePath ==
    ASSUME NEW p \in Seq(Nat), NEW q \in Seq(Nat), Len(p) = Len(q),
           \A j \in 1..Len(p) : p[j] = q[j]
    PROVE  p = q
OBVIOUS

(* The beginning of a path.                                                *)
LEMMA Beginning ==
    ASSUME NEW q \in Seq(Nat), NEW k \in 0..Len(q)
    PROVE  /\ SubSeq(q, 1, k) \in Seq(Nat) /\ Len(SubSeq(q, 1, k)) = k
           /\ \A j \in 1..k : SubSeq(q, 1, k)[j] = q[j]
OBVIOUS

(* A path, gone one step on.                                               *)
LEMMA OneStepOn ==
    ASSUME NEW p \in Seq(Nat), NEW i \in Nat
    PROVE  \E a \in Seq(Nat) :
            /\ a = Append(p, i) /\ Len(a) = Len(p) + 1 /\ a[Len(p) + 1] = i
            /\ \A j \in 1..Len(p) : a[j] = p[j]
<1>1. Append(p, i) \in Seq(Nat)
  OBVIOUS
<1> WITNESS Append(p, i) \in Seq(Nat)
<1> QED
  OBVIOUS

(* A place reaches itself, and what its children reach.                    *)
LEMMA ReachedInSteps ==
    ASSUME NEW tree, NEW p \in Seq(Nat), MaxDepth \in Nat
    PROVE  Reached(tree, p) = ReachedBy(tree, p)
<1>1. ASSUME NEW q \in Reached(tree, p), q # p PROVE q \in ReachedBy(tree, p)
  <2>1. /\ q \in Seq(Nat) /\ Len(p) <= Len(q) /\ Len(q) \in Nat /\ Len(p) \in Nat
        /\ \A j \in 1..Len(p) : q[j] = p[j]
        /\ \A k \in Len(p)..(Len(q) - 1) : q[k + 1] \in Kids(tree, SubSeq(q, 1, k))
        /\ Len(p) < Len(q) => Len(q) <= MaxDepth
    BY <1>1 DEF Reached
  <2>2. Len(p) # Len(q)
    BY <1>1, <2>1, SamePath
  <2>3. Len(p) < Len(q) /\ Len(p) < MaxDepth
    BY <2>1, <2>2
  <2>4. SubSeq(q, 1, Len(p)) = p
    <3> DEFINE b == SubSeq(q, 1, Len(p))
    <3>1. Len(p) \in 0..Len(q)
      BY <2>1
    <3>2. b \in Seq(Nat) /\ Len(b) = Len(p) /\ \A j \in 1..Len(p) : b[j] = q[j]
      BY <2>1, <3>1, Beginning
    <3> HIDE DEF b
    <3>3. b = p
      BY <2>1, <3>2, SamePath
    <3> QED
      BY <3>3 DEF b
  <2>5. PICK i \in Kids(tree, p) : i = q[Len(p) + 1]
    <3>1. Len(p) \in Len(p)..(Len(q) - 1)
      BY <2>1, <2>3
    <3> QED
      BY <2>1, <2>4, <3>1
  <2>6. i \in Nat
    BY KidsAreNumbers
  <2>7. PICK a \in Seq(Nat) :
            /\ a = Append(p, i) /\ Len(a) = Len(p) + 1 /\ a[Len(p) + 1] = i
            /\ \A j \in 1..Len(p) : a[j] = p[j]
    BY <2>6, OneStepOn
  <2>8. \A j \in 1..Len(a) : j \in 1..Len(p) \/ j = Len(p) + 1
    BY <2>1, <2>7
  <2>9. \A j \in 1..Len(a) : q[j] = a[j]
    BY <2>1, <2>5, <2>7, <2>8
  <2>10. q \in Reached(tree, a)
    BY <2>1, <2>3, <2>7, <2>9 DEF Reached
  <2> QED
    BY <2>3, <2>7, <2>10 DEF ReachedBy
<1>2. ASSUME NEW q \in ReachedBy(tree, p), q # p PROVE q \in Reached(tree, p)
  <2>1. PICK i \in Kids(tree, p) : q \in Reached(tree, Append(p, i))
    BY <1>2 DEF ReachedBy
  <2>2. i \in Nat /\ Len(p) < MaxDepth
    BY <1>2, KidsAreNumbers DEF ReachedBy
  <2>3. PICK a \in Seq(Nat) :
            /\ a = Append(p, i) /\ Len(a) = Len(p) + 1 /\ a[Len(p) + 1] = i
            /\ \A j \in 1..Len(p) : a[j] = p[j]
    BY <2>2, OneStepOn
  <2>4. /\ Len(a) = Len(p) + 1 /\ a[Len(p) + 1] = i /\ Len(p) \in Nat
        /\ \A j \in 1..Len(p) : a[j] = p[j]
    BY <2>3
  <2>5. /\ q \in Seq(Nat) /\ Len(a) <= Len(q) /\ Len(q) \in Nat
        /\ \A j \in 1..Len(a) : q[j] = a[j]
        /\ \A k \in Len(a)..(Len(q) - 1) : q[k + 1] \in Kids(tree, SubSeq(q, 1, k))
        /\ Len(a) < Len(q) => Len(q) <= MaxDepth
    BY <2>1, <2>3 DEF Reached
  <2>6. \A j \in 1..Len(p) : q[j] = p[j]
    BY <2>4, <2>5
  <2>7. SubSeq(q, 1, Len(p)) = p
    <3> DEFINE b == SubSeq(q, 1, Len(p))
    <3>1. Len(p) \in 0..Len(q)
      BY <2>4, <2>5
    <3>2. b \in Seq(Nat) /\ Len(b) = Len(p) /\ \A j \in 1..Len(p) : b[j] = q[j]
      BY <2>5, <3>1, Beginning
    <3> HIDE DEF b
    <3>3. b = p
      BY <2>4, <2>6, <3>2, SamePath
    <3> QED
      BY <3>3 DEF b
  <2>8. q[Len(p) + 1] = i
    BY <2>4, <2>5
  <2>9. ASSUME NEW k \in Len(p)..(Len(q) - 1)
        PROVE  q[k + 1] \in Kids(tree, SubSeq(q, 1, k))
    <3>1. CASE k = Len(p)
      BY <2>7, <2>8, <3>1
    <3>2. CASE k # Len(p)
      BY <2>4, <2>5, <2>9, <3>2
    <3> QED
      BY <3>1, <3>2
  <2> QED
    BY <2>2, <2>4, <2>5, <2>6, <2>9, MaxDepth \in Nat DEF Reached
<1>3. p \in Reached(tree, p)
  BY DEF Reached
<1>4. p \in ReachedBy(tree, p)
  BY DEF ReachedBy
<1>5. \A q : q \in Reached(tree, p) <=> q \in ReachedBy(tree, p)
  BY <1>1, <1>2, <1>3, <1>4
<1> QED
  BY <1>5

(* The paths of a tree are what its root reaches.                          *)
LEMMA PathsAreReached ==
    ASSUME NEW tree, MaxDepth \in Nat
    PROVE  PathsOf(tree) = Reached(tree, <<>>)
<1> DEFINE Down(f) ==
        [p \in Seq(Nat) |->
            {p} \cup (IF Len(p) < MaxDepth
                     THEN UNION {f[Append(p, i)] : i \in Kids(tree, p)}
                     ELSE {})]
           below == CHOOSE f : f = Down(f)
           g == [p \in Seq(Nat) |-> Reached(tree, p)]
<1>1. PathsOf(tree) = below[<<>>]
  BY DEF PathsOf, Kids
<1>2. g = Down(g)
  <2> SUFFICES ASSUME NEW p \in Seq(Nat) PROVE g[p] = Down(g)[p]
    OBVIOUS
  <2>1. \A i \in Kids(tree, p) : Append(p, i) \in Seq(Nat)
    BY KidsAreNumbers
  <2>2. \A i \in Kids(tree, p) : g[Append(p, i)] = Reached(tree, Append(p, i))
    BY <2>1
  <2>3. {g[Append(p, i)] : i \in Kids(tree, p)}
        = {Reached(tree, Append(p, i)) : i \in Kids(tree, p)}
    BY <2>2
  <2>4. g[p] = ReachedBy(tree, p)
    BY ReachedInSteps
  <2> QED
    BY <2>3, <2>4 DEF ReachedBy
<1>3. below = Down(below)
  <2> HIDE DEF g, Down
  <2> QED
    BY <1>2
<1> HIDE DEF below
<1>4. ASSUME NEW p \in Seq(Nat), below[p] # Reached(tree, p) PROVE FALSE
  <2> DEFINE Wrong == {q \in Seq(Nat) : below[q] # Reached(tree, q)}
             Heights == {h \in Nat : \E q \in Wrong : h = MaxDepth - Len(q)}
  <2>1. ASSUME NEW q \in Wrong PROVE MaxDepth - Len(q) \in Heights
    <3>1. CASE ~(Len(q) < MaxDepth)
      <4>1. below[q] = {q} /\ Reached(tree, q) = {q}
        BY <1>3, <3>1, ReachedInSteps DEF ReachedBy
      <4> QED
        BY <4>1
    <3>2. CASE Len(q) < MaxDepth
      BY <3>2
    <3> QED
      BY <3>1, <3>2
  <2>2. Heights # {}
    BY <1>4, <2>1
  <2>3. PICK h \in Heights : \A k \in Heights : h <= k
    BY <2>2, LeastNumber
  <2>4. PICK q \in Wrong : h = MaxDepth - Len(q)
    OBVIOUS
  <2>5. ASSUME NEW i \in Kids(tree, q)
        PROVE  below[Append(q, i)] = Reached(tree, Append(q, i))
    <3>1. i \in Nat
      BY KidsAreNumbers
    <3>2. PICK a \in Seq(Nat) : a = Append(q, i) /\ Len(a) = Len(q) + 1
      BY <3>1, OneStepOn
    <3>3. Len(a) = Len(q) + 1 /\ Len(q) \in Nat
      BY <3>2
    <3>4. a \notin Wrong
      <4> SUFFICES ASSUME a \in Wrong PROVE FALSE
        OBVIOUS
      <4>1. MaxDepth - Len(a) \in Heights
        BY <2>1
      <4> HIDE DEF Heights
      <4> QED
        BY <2>3, <2>4, <3>3, <4>1
    <3> QED
      BY <3>2, <3>4
  <2>6. {below[Append(q, i)] : i \in Kids(tree, q)}
        = {Reached(tree, Append(q, i)) : i \in Kids(tree, q)}
    BY <2>5
  <2>7. below[q] = ReachedBy(tree, q)
    BY <1>3, <2>6 DEF ReachedBy
  <2> QED
    BY <2>7, ReachedInSteps
<1>5. <<>> \in Seq(Nat)
  OBVIOUS
<1> QED
  BY <1>1, <1>4, <1>5

(* The steps of a path of a tree.                                          *)
LEMMA StepsOfAPath ==
    ASSUME NEW tree, MaxDepth \in Nat, NEW q \in PathsOf(tree)
    PROVE  /\ q \in Seq(Nat) /\ Len(q) \in Nat
           /\ \A k \in 1..Len(q) : q[k] \in Nat \ {0}
           /\ \A k \in 0..(Len(q) - 1) : q[k + 1] \in Kids(tree, SubSeq(q, 1, k))
<1>1. q \in Reached(tree, <<>>)
  BY PathsAreReached
<1>2. /\ q \in Seq(Nat) /\ Len(q) \in Nat
      /\ \A k \in 0..(Len(q) - 1) : q[k + 1] \in Kids(tree, SubSeq(q, 1, k))
  BY <1>1 DEF Reached
<1>3. ASSUME NEW k \in 1..Len(q) PROVE q[k] \in Nat \ {0}
  <2>1. k - 1 \in 0..(Len(q) - 1) /\ (k - 1) + 1 = k
    BY <1>2
  <2>2. q[k] \in Kids(tree, SubSeq(q, 1, k - 1))
    BY <1>2, <2>1
  <2> QED
    BY <2>2, KidsAreNumbers
<1> QED
  BY <1>2, <1>3

(* What makes a sequence of numbers a path of a tree.                      *)
LEMMA MadePath ==
    ASSUME NEW tree, MaxDepth \in Nat, NEW q \in Seq(Nat), Len(q) <= MaxDepth,
           \A k \in 0..(Len(q) - 1) : q[k + 1] \in Kids(tree, SubSeq(q, 1, k))
    PROVE  q \in PathsOf(tree)
<1>1. q \in Reached(tree, <<>>)
  BY DEF Reached
<1> QED
  BY <1>1, PathsAreReached

(* The children of a node of a tree.                                       *)
LEMMA ChildrenOfANode ==
    ASSUME NEW tree, IsTree(tree), MaxDepth \in Nat, NEW q \in PathsOf(tree)
    PROVE  LET ch == NodeOf(tree, q).ch
           IN  /\ Len(ch) \in Nat /\ DOMAIN ch = 1..Len(ch)
               /\ ch = <<>> <=> Len(ch) = 0
               /\ Len(q) < MaxDepth
<1> DEFINE ch == NodeOf(tree, q).ch
<1>1. Len(q) < MaxDepth /\ ch \in Seq(Range(ch))
  BY DEF IsTree, IsSeq
<1> HIDE DEF ch
<1>2. Len(ch) \in Nat /\ DOMAIN ch = 1..Len(ch) /\ (ch = <<>> <=> Len(ch) = 0)
  BY <1>1
<1> QED
  BY <1>1, <1>2 DEF ch

(* The root of a tree is at a path, and so are the children of a node, and *)
(* what a path begins with.                                                *)
LEMMA RootIsAPath ==
    ASSUME NEW tree, MaxDepth \in Nat
    PROVE  <<>> \in PathsOf(tree)
<1>1. PICK q \in Seq(Nat) : q = <<>> /\ Len(q) = 0
  <2>1. <<>> \in Seq(Nat) /\ Len(<<>>) = 0
    OBVIOUS
  <2> QED
    BY <2>1
<1>2. Len(q) <= MaxDepth /\ 0..(Len(q) - 1) = {}
  BY <1>1
<1>3. q \in PathsOf(tree)
  BY <1>2, MadePath
<1> QED
  BY <1>1, <1>3

LEMMA ChildIsAPath ==
    ASSUME NEW tree, IsTree(tree), MaxDepth \in Nat, NEW q \in PathsOf(tree),
           NEW i \in Kids(tree, q)
    PROVE  Append(q, i) \in PathsOf(tree)
<1>1. /\ q \in Seq(Nat) /\ Len(q) \in Nat
      /\ \A k \in 0..(Len(q) - 1) : q[k + 1] \in Kids(tree, SubSeq(q, 1, k))
  BY StepsOfAPath
<1>2. i \in Nat /\ Len(q) < MaxDepth
  BY KidsAreNumbers, ChildrenOfANode
<1>3. PICK a \in Seq(Nat) :
        /\ a = Append(q, i) /\ Len(a) = Len(q) + 1 /\ a[Len(q) + 1] = i
        /\ \A j \in 1..Len(q) : a[j] = q[j]
  BY <1>1, <1>2, OneStepOn
<1>4. ASSUME NEW k \in 0..(Len(a) - 1)
      PROVE  a[k + 1] \in Kids(tree, SubSeq(a, 1, k))
  <2>1. k \in 0..Len(q) /\ k \in 0..Len(a)
    BY <1>1, <1>3
  <2> DEFINE b == SubSeq(a, 1, k)
             c == SubSeq(q, 1, k)
  <2>2. b \in Seq(Nat) /\ Len(b) = k /\ \A j \in 1..k : b[j] = a[j]
    BY <2>1, Beginning
  <2>3. c \in Seq(Nat) /\ Len(c) = k /\ \A j \in 1..k : c[j] = q[j]
    BY <1>1, <2>1, Beginning
  <2> HIDE DEF b, c
  <2>4. b = c
    BY <1>1, <1>3, <2>1, <2>2, <2>3, SamePath
  <2>5. CASE k < Len(q)
    <3>1. k \in 0..(Len(q) - 1) /\ k + 1 \in 1..Len(q)
      BY <1>1, <2>1, <2>5
    <3>2. a[k + 1] = q[k + 1] /\ q[k + 1] \in Kids(tree, SubSeq(q, 1, k))
      BY <1>1, <1>3, <3>1
    <3> QED
      BY <2>4, <3>2 DEF b, c
  <2>6. CASE k = Len(q)
    <3>1. c = q
      BY <1>1, <2>3, <2>6, SamePath
    <3> QED
      BY <1>3, <2>4, <2>6, <3>1 DEF b
  <2> QED
    BY <1>1, <2>1, <2>5, <2>6
<1>5. Len(a) <= MaxDepth
  BY <1>1, <1>2, <1>3
<1>6. a \in PathsOf(tree)
  BY <1>4, <1>5, MadePath
<1> QED
  BY <1>3, <1>6

LEMMA BeginningIsAPath ==
    ASSUME NEW tree, MaxDepth \in Nat, NEW q \in PathsOf(tree),
           NEW n \in 0..Len(q)
    PROVE  SubSeq(q, 1, n) \in PathsOf(tree)
<1> DEFINE a == SubSeq(q, 1, n)
<1>1. /\ q \in Seq(Nat) /\ Len(q) \in Nat
      /\ \A k \in 0..(Len(q) - 1) : q[k + 1] \in Kids(tree, SubSeq(q, 1, k))
  BY StepsOfAPath
<1>2. a \in Seq(Nat) /\ Len(a) = n /\ \A j \in 1..n : a[j] = q[j]
  BY <1>1, Beginning
<1> HIDE DEF a
<1>3. ASSUME NEW k \in 0..(Len(a) - 1)
      PROVE  a[k + 1] \in Kids(tree, SubSeq(a, 1, k))
  <2> DEFINE b == SubSeq(a, 1, k)
             c == SubSeq(q, 1, k)
  <2>1. k \in 0..Len(a) /\ k \in 0..Len(q) /\ k + 1 \in 1..n
    BY <1>1, <1>2
  <2>2. b \in Seq(Nat) /\ Len(b) = k /\ \A j \in 1..k : b[j] = a[j]
    BY <1>2, <2>1, Beginning
  <2>3. c \in Seq(Nat) /\ Len(c) = k /\ \A j \in 1..k : c[j] = q[j]
    BY <1>1, <2>1, Beginning
  <2> HIDE DEF b, c
  <2>4. b = c
    BY <1>2, <2>1, <2>2, <2>3, SamePath
  <2>5. q[k + 1] \in Kids(tree, c)
    BY <1>1, <2>1 DEF c
  <2> QED
    BY <1>2, <2>1, <2>4, <2>5 DEF b
<1>4. Len(q) <= MaxDepth
  <2>1. q \in Reached(tree, <<>>)
    BY PathsAreReached
  <2> QED
    BY <1>1, <2>1 DEF Reached
<1>5. Len(a) <= MaxDepth
  BY <1>1, <1>2, <1>4
<1>6. a \in PathsOf(tree)
  BY <1>2, <1>3, <1>5, MadePath
<1> QED
  BY <1>6 DEF a

(* A path but for the root's is one step from another one.                 *)
LEMMA PathAbove ==
    ASSUME NEW tree, MaxDepth \in Nat, NEW q \in PathsOf(tree), q # <<>>
    PROVE  /\ Front(q) \in PathsOf(tree) /\ Len(Front(q)) = Len(q) - 1
           /\ Last(q) \in Kids(tree, Front(q)) /\ Last(q) \in Nat \ {0}
           /\ q = Append(Front(q), Last(q))
<1>1. /\ q \in Seq(Nat) /\ Len(q) \in Nat /\ Len(q) # 0
      /\ \A k \in 0..(Len(q) - 1) : q[k + 1] \in Kids(tree, SubSeq(q, 1, k))
  BY StepsOfAPath
<1>2. Len(q) - 1 \in 0..(Len(q) - 1) /\ Len(q) - 1 \in 0..Len(q)
  BY <1>1
<1>3. Front(q) = SubSeq(q, 1, Len(q) - 1) /\ Last(q) = q[Len(q)]
  BY DEF Front, Last
<1>4. Front(q) \in PathsOf(tree)
  BY <1>2, <1>3, BeginningIsAPath
<1>5. Last(q) \in Kids(tree, Front(q))
  BY <1>1, <1>2, <1>3
<1>6. Last(q) \in Nat \ {0}
  BY <1>5, KidsAreNumbers
<1> DEFINE a == SubSeq(q, 1, Len(q) - 1)
<1>7. a \in Seq(Nat) /\ Len(a) = Len(q) - 1 /\ \A j \in 1..(Len(q) - 1) : a[j] = q[j]
  BY <1>1, <1>2, Beginning
<1>8. q = Append(a, q[Len(q)])
  <2> HIDE DEF a
  <2>1. q[Len(q)] \in Nat
    BY <1>1
  <2>2. PICK b \in Seq(Nat) :
            /\ b = Append(a, q[Len(q)]) /\ Len(b) = Len(a) + 1
            /\ b[Len(a) + 1] = q[Len(q)] /\ \A j \in 1..Len(a) : b[j] = a[j]
    BY <1>7, <2>1, OneStepOn
  <2>3. \A j \in 1..Len(q) : j \in 1..(Len(q) - 1) \/ j = Len(q)
    BY <1>1
  <2>4. Len(b) = Len(q) /\ \A j \in 1..Len(q) : b[j] = q[j]
    BY <1>1, <1>7, <2>2, <2>3
  <2>5. b = q
    BY <1>1, <2>4, SamePath
  <2> QED
    BY <2>2, <2>5
<1> QED
  BY <1>3, <1>4, <1>5, <1>6, <1>7, <1>8

-----------------------------------------------------------------------------
(* The order of the walk.                                                  *)

(* On the way to the first child nothing is left behind.                   *)
LEMMA ToTheFirstChild ==
    ASSUME NEW p \in Seq(Nat \ {0}), NEW q \in Seq(Nat)
    PROVE  LeftOf(p, Append(q, 1)) <=> LeftOf(p, q)
<1>1. PICK a \in Seq(Nat) :
        /\ a = Append(q, 1) /\ Len(a) = Len(q) + 1 /\ a[Len(q) + 1] = 1
        /\ \A j \in 1..Len(q) : a[j] = q[j]
  BY OneStepOn
<1>2. Len(p) \in Nat /\ Len(q) \in Nat /\ \A j \in 1..Len(p) : p[j] \in Nat \ {0}
  OBVIOUS
<1>3. ASSUME LeftOf(p, a) PROVE LeftOf(p, q)
  <2>1. PICK i \in 1..Len(p) : /\ i <= Len(a) /\ p[i] < a[i]
                               /\ \A j \in 1..(i - 1) : p[j] = a[j]
    BY <1>3 DEF LeftOf
  <2>2. i # Len(q) + 1
    BY <1>1, <1>2, <2>1
  <2>3. i <= Len(q) /\ p[i] < q[i] /\ \A j \in 1..(i - 1) : p[j] = q[j]
    BY <1>1, <1>2, <2>1, <2>2
  <2> QED
    BY <2>3 DEF LeftOf
<1>4. ASSUME LeftOf(p, q) PROVE LeftOf(p, a)
  <2>1. PICK i \in 1..Len(p) : /\ i <= Len(q) /\ p[i] < q[i]
                               /\ \A j \in 1..(i - 1) : p[j] = q[j]
    BY <1>4 DEF LeftOf
  <2>2. i <= Len(a) /\ p[i] < a[i] /\ \A j \in 1..(i - 1) : p[j] = a[j]
    BY <1>1, <1>2, <2>1
  <2> QED
    BY <2>2 DEF LeftOf
<1> QED
  BY <1>1, <1>3, <1>4

(* To the left of the next sibling are, beside what was to the left of the *)
(* one before, that one and what is within it.                             *)
LEMMA ToTheNextSibling ==
    ASSUME NEW p \in Seq(Nat), NEW r \in Seq(Nat), NEW i \in Nat
    PROVE  LeftOf(p, Append(r, i + 1))
           <=> LeftOf(p, Append(r, i)) \/ p = Append(r, i) \/ Within(p, Append(r, i))
<1>1. PICK a \in Seq(Nat) :
        /\ a = Append(r, i) /\ Len(a) = Len(r) + 1 /\ a[Len(r) + 1] = i
        /\ \A j \in 1..Len(r) : a[j] = r[j]
  BY OneStepOn
<1>2. PICK b \in Seq(Nat) :
        /\ b = Append(r, i + 1) /\ Len(b) = Len(r) + 1 /\ b[Len(r) + 1] = i + 1
        /\ \A j \in 1..Len(r) : b[j] = r[j]
  <2>1. i + 1 \in Nat
    OBVIOUS
  <2> QED
    BY <2>1, OneStepOn
<1>3. Len(p) \in Nat /\ Len(r) \in Nat /\ \A j \in 1..Len(p) : p[j] \in Nat
  OBVIOUS
<1>4. ASSUME LeftOf(p, b) PROVE LeftOf(p, a) \/ p = a \/ Within(p, a)
  <2>1. PICK k \in 1..Len(p) : /\ k <= Len(b) /\ p[k] < b[k]
                               /\ \A j \in 1..(k - 1) : p[j] = b[j]
    BY <1>4 DEF LeftOf
  <2>2. CASE k <= Len(r)
    <3>1. k <= Len(a) /\ p[k] < a[k] /\ \A j \in 1..(k - 1) : p[j] = a[j]
      BY <1>1, <1>2, <1>3, <2>1, <2>2
    <3> QED
      BY <3>1 DEF LeftOf
  <2>3. CASE k = Len(r) + 1 /\ p[k] < i
    <3>1. k <= Len(a) /\ p[k] < a[k] /\ \A j \in 1..(k - 1) : p[j] = a[j]
      BY <1>1, <1>2, <1>3, <2>1, <2>3
    <3> QED
      BY <3>1 DEF LeftOf
  <2>4. CASE k = Len(r) + 1 /\ ~(p[k] < i)
    <3>1. p[k] = i /\ \A j \in 1..Len(r) : p[j] = a[j]
      BY <1>1, <1>2, <1>3, <2>1, <2>4
    <3>2. \A j \in 1..Len(a) : j \in 1..Len(r) \/ j = k
      BY <1>1, <1>3, <2>4
    <3>3. \A j \in 1..Len(a) : p[j] = a[j]
      BY <1>1, <2>4, <3>1, <3>2
    <3>4. CASE Len(p) = Len(a)
      BY <3>3, <3>4, SamePath
    <3>5. CASE Len(p) # Len(a)
      BY <1>1, <1>3, <2>1, <2>4, <3>3, <3>5 DEF Within
    <3> QED
      BY <3>4, <3>5
  <2> QED
    BY <1>2, <1>3, <2>1, <2>2, <2>3, <2>4
<1>5. ASSUME LeftOf(p, a) PROVE LeftOf(p, b)
  <2>1. PICK k \in 1..Len(p) : /\ k <= Len(a) /\ p[k] < a[k]
                               /\ \A j \in 1..(k - 1) : p[j] = a[j]
    BY <1>5 DEF LeftOf
  <2>2. CASE k <= Len(r)
    <3>1. k <= Len(b) /\ p[k] < b[k] /\ \A j \in 1..(k - 1) : p[j] = b[j]
      BY <1>1, <1>2, <1>3, <2>1, <2>2
    <3> QED
      BY <3>1 DEF LeftOf
  <2>3. CASE k = Len(r) + 1
    <3>1. k <= Len(b) /\ p[k] < b[k] /\ \A j \in 1..(k - 1) : p[j] = b[j]
      BY <1>1, <1>2, <1>3, <2>1, <2>3
    <3> QED
      BY <3>1 DEF LeftOf
  <2> QED
    BY <1>1, <1>3, <2>1, <2>2, <2>3
<1>6. ASSUME p = a \/ Within(p, a) PROVE LeftOf(p, b)
  <2>1. Len(r) + 1 \in 1..Len(p) /\ \A j \in 1..(Len(r) + 1) : p[j] = a[j]
    <3>1. Len(r) + 1 <= Len(p)
      BY <1>1, <1>3, <1>6 DEF Within
    <3>2. \A j \in 1..Len(a) : p[j] = a[j]
      BY <1>1, <1>3, <1>6 DEF Within
    <3> QED
      BY <1>1, <1>3, <3>1, <3>2
  <2>2. Len(r) + 1 \in 1..(Len(r) + 1)
    BY <1>3
  <2>3. p[Len(r) + 1] < b[Len(r) + 1]
    BY <1>1, <1>2, <2>1, <2>2
  <2>4. \A j \in 1..((Len(r) + 1) - 1) : p[j] = b[j]
    BY SMTT(30), <1>1, <1>2, <1>3, <2>1
  <2> QED
    BY <1>2, <2>1, <2>3, <2>4 DEF LeftOf
<1> QED
  BY <1>1, <1>2, <1>4, <1>5, <1>6

(* On the way up from the last child nothing is passed by: what is within  *)
(* the parent is that child, or within it, or to the left of it.           *)
LEMMA ToTheParent ==
    ASSUME NEW p \in Seq(Nat), NEW r \in Seq(Nat), NEW i \in Nat,
           Within(p, r) => p[Len(r) + 1] <= i
    PROVE  LeftOf(p, r) \/ Within(p, r)
           <=> LeftOf(p, Append(r, i)) \/ p = Append(r, i) \/ Within(p, Append(r, i))
<1>1. PICK a \in Seq(Nat) :
        /\ a = Append(r, i) /\ Len(a) = Len(r) + 1 /\ a[Len(r) + 1] = i
        /\ \A j \in 1..Len(r) : a[j] = r[j]
  BY OneStepOn
<1>2. Len(p) \in Nat /\ Len(r) \in Nat /\ \A j \in 1..Len(p) : p[j] \in Nat
  OBVIOUS
<1>3. ASSUME LeftOf(p, r) PROVE LeftOf(p, a)
  <2>1. PICK k \in 1..Len(p) : /\ k <= Len(r) /\ p[k] < r[k]
                               /\ \A j \in 1..(k - 1) : p[j] = r[j]
    BY <1>3 DEF LeftOf
  <2>2. k <= Len(a) /\ p[k] < a[k] /\ \A j \in 1..(k - 1) : p[j] = a[j]
    BY <1>1, <1>2, <2>1
  <2> QED
    BY <2>2 DEF LeftOf
<1>4. ASSUME Within(p, r) PROVE LeftOf(p, a) \/ p = a \/ Within(p, a)
  <2>1. /\ Len(r) + 1 \in 1..Len(p) /\ p[Len(r) + 1] <= i
        /\ \A j \in 1..Len(r) : p[j] = a[j]
    BY <1>1, <1>2, <1>4 DEF Within
  <2>2. CASE p[Len(r) + 1] < i
    <3>1. \A j \in 1..((Len(r) + 1) - 1) : p[j] = a[j]
      BY <1>2, <2>1
    <3>2. Len(r) + 1 <= Len(a) /\ p[Len(r) + 1] < a[Len(r) + 1]
      BY <1>1, <1>2, <2>2
    <3> QED
      BY <2>1, <3>1, <3>2 DEF LeftOf
  <2>3. CASE p[Len(r) + 1] = i
    <3>1. \A j \in 1..Len(a) : j \in 1..Len(r) \/ j = Len(r) + 1
      BY <1>1, <1>2
    <3>2. \A j \in 1..Len(a) : p[j] = a[j]
      BY <1>1, <2>1, <2>3, <3>1
    <3>3. CASE Len(p) = Len(a)
      BY <3>2, <3>3, SamePath
    <3>4. CASE Len(p) # Len(a)
      BY <1>1, <1>2, <2>1, <3>2, <3>4 DEF Within
    <3> QED
      BY <3>3, <3>4
  <2>4. p[Len(r) + 1] \in Nat
    BY <1>2, <2>1
  <2> QED
    BY <2>1, <2>2, <2>3, <2>4
<1>5. ASSUME LeftOf(p, a) PROVE LeftOf(p, r) \/ Within(p, r)
  <2>1. PICK k \in 1..Len(p) : /\ k <= Len(a) /\ p[k] < a[k]
                               /\ \A j \in 1..(k - 1) : p[j] = a[j]
    BY <1>5 DEF LeftOf
  <2>2. CASE k <= Len(r)
    <3>1. p[k] < r[k] /\ \A j \in 1..(k - 1) : p[j] = r[j]
      BY <1>1, <1>2, <2>1, <2>2
    <3> QED
      BY <2>2, <3>1 DEF LeftOf
  <2>3. CASE k = Len(r) + 1
    <3>1. Len(r) < Len(p) /\ \A j \in 1..Len(r) : p[j] = r[j]
      BY <1>1, <1>2, <2>1, <2>3
    <3> QED
      BY <3>1 DEF Within
  <2> QED
    BY <1>1, <1>2, <2>1, <2>2, <2>3
<1>6. ASSUME p = a \/ Within(p, a) PROVE Within(p, r)
  <2>1. Len(r) < Len(p)
    BY <1>1, <1>2, <1>6 DEF Within
  <2>2. \A j \in 1..Len(a) : p[j] = a[j]
    BY <1>1, <1>2, <1>6 DEF Within
  <2>3. \A j \in 1..Len(r) : j \in 1..Len(a)
    BY <1>1, <1>2
  <2>4. \A j \in 1..Len(r) : p[j] = r[j]
    BY <1>1, <2>2, <2>3
  <2> QED
    BY <2>1, <2>4 DEF Within
<1> QED
  BY <1>1, <1>3, <1>4, <1>5, <1>6

-----------------------------------------------------------------------------
(* The moves of the walk.                                                  *)

(* Down to the first child or, from a leaf, up at the same place; on to    *)
(* the next place; past a node that failed; or to a halt.                  *)
GoesDown ==
    /\ Walking /\ dir = "down" /\ Descend
    /\ parents' = Append(parents, at)
    /\ UNCHANGED <<prog, stage, m, errors, found, lost>>
SaidHere(errs) == \A e \in errs : e.node[1] = m
Leaves ==
    /\ Walking /\ dir = "up"
    /\ \E errs : /\ errors' = errors \cup errs /\ SaidHere(errs)
                 /\ stage = "declare" => errs = {}
    /\ GoOn(errors', Restored)
    /\ parents' = Popped
    /\ DOMAIN found \subseteq DOMAIN found'
    /\ stage = "check" /\ IsLookedAt(m, at) => <<m, at>> \in DOMAIN found'
    /\ UNCHANGED <<prog, lost>>
GivesUp ==
    /\ stage = "check" /\ dir = "down"
    /\ \E what : GiveUp(what)
    /\ parents' = Append(parents, at)
Halts ==
    /\ Walking /\ stage' \in {"failed", "asserted", "crashed"}
    /\ stage' = "failed" => \E e \in errors' : e.node[1] = m
    /\ UNCHANGED <<prog, m, at, dir>>

(* Every step of the analyzer is such a move.                              *)
LEMMA DeclaringIsAMove ==
    ASSUME \/ DeclareScope \/ DeclareModule \/ DeclareFunction
           \/ DeclareDescription \/ DeclareVariable \/ DeclareType \/ DeclareOther
    PROVE  GoesDown \/ Halts
<1>1. ASSUME NEW kinds, NEW how \in {"failed", "asserted", "crashed"}, NEW errs,
             Declaring(kinds), Fail(how, errs),
             how = "failed" => \E what : errs = Said(what)
      PROVE  Halts
  <2>1. ASSUME stage' = "failed" PROVE \E e \in errors' : e.node[1] = m
    <3>1. PICK what : errs = Said(what)
      BY <1>1, <2>1 DEF Fail
    <3> DEFINE e == [node |-> Where, what |-> what]
    <3>2. e \in errors' /\ e.node[1] = m
      BY <1>1, <3>1 DEF Fail, Said, Where
    <3> QED
      BY <3>2
  <2>2. UNCHANGED <<prog, m, at, dir>> /\ stage' = how /\ Walking
    BY <1>1 DEF Declaring, Fail, Walking
  <2> QED
    BY <2>1, <2>2 DEF Halts
<1>2. CASE DeclareScope
  BY <1>2 DEF DeclareScope, Declaring, GoesDown, Walking
<1>3. CASE DeclareModule
  <2>1. CASE Has(tables, cur, Here.name)
    <3>1. Declaring({"module"}) /\ Fail("failed", Said("used"))
      BY <1>3, <2>1 DEF DeclareModule
    <3> QED
      BY <1>1, <3>1
  <2>2. CASE ~Has(tables, cur, Here.name)
    BY <1>3, <2>2 DEF DeclareModule, Declaring, GoesDown, Walking
  <2> QED
    BY <2>1, <2>2
<1>4. CASE DeclareFunction
  <2>1. PICK known : \/ Fail("failed", Said("function exists"))
                     \/ Fail("asserted", {})
                     \/ Fail("failed", Said("no type, or an argument twice"))
                     \/ Descend /\ UNCHANGED <<prog, stage, m, errors, found, lost>>
    BY <1>4 DEF DeclareFunction
  <2>2. Declaring({"fndecl"})
    BY <1>4 DEF DeclareFunction
  <2>3. CASE Fail("failed", Said("function exists"))
    BY <1>1, <2>2, <2>3
  <2>4. CASE Fail("asserted", {})
    BY <1>1, <2>2, <2>4
  <2>5. CASE Fail("failed", Said("no type, or an argument twice"))
    BY <1>1, <2>2, <2>5
  <2>6. CASE Descend /\ UNCHANGED <<prog, stage, m, errors, found, lost>>
    BY <2>2, <2>6 DEF Declaring, GoesDown, Walking
  <2> QED
    BY <2>1, <2>3, <2>4, <2>5, <2>6
<1>5. CASE DeclareDescription
  <2>1. /\ Declaring({"typedesc"})
        /\ \/ \E what : Fail("failed", Said(what))
           \/ Descend /\ UNCHANGED <<prog, stage, m, errors, found, lost>>
    BY <1>5 DEF DeclareDescription
  <2>2. CASE \E what : Fail("failed", Said(what))
    BY <1>1, <2>1, <2>2
  <2>3. CASE Descend /\ UNCHANGED <<prog, stage, m, errors, found, lost>>
    BY <2>1, <2>3 DEF Declaring, GoesDown, Walking
  <2> QED
    BY <2>1, <2>2, <2>3
<1>6. CASE DeclareVariable
  <2>1. /\ Declaring({"vardecl"})
        /\ \/ \E what : Fail("failed", Said(what))
           \/ Descend /\ UNCHANGED <<prog, stage, m, errors, found, lost>>
    BY <1>6 DEF DeclareVariable
  <2>2. CASE \E what : Fail("failed", Said(what))
    BY <1>1, <2>1, <2>2
  <2>3. CASE Descend /\ UNCHANGED <<prog, stage, m, errors, found, lost>>
    BY <2>1, <2>3 DEF Declaring, GoesDown, Walking
  <2> QED
    BY <2>1, <2>2, <2>3
<1>7. CASE DeclareType
  <2>1. /\ Declaring({"typedecl"})
        /\ \/ \E what : Fail("failed", Said(what))
           \/ Descend /\ UNCHANGED <<prog, stage, m, errors, found, lost>>
    BY <1>7 DEF DeclareType
  <2>2. CASE \E what : Fail("failed", Said(what))
    BY <1>1, <2>1, <2>2
  <2>3. CASE Descend /\ UNCHANGED <<prog, stage, m, errors, found, lost>>
    BY <2>1, <2>3 DEF Declaring, GoesDown, Walking
  <2> QED
    BY <2>1, <2>2, <2>3
<1>8. CASE DeclareOther
  BY <1>8 DEF DeclareOther, Declaring, GoesDown, Walking
<1> QED
  BY <1>2, <1>3, <1>4, <1>5, <1>6, <1>7, <1>8

LEMMA LeavingIsAMove ==
    ASSUME LeaveDeclared \/ CheckUse \/ CheckReturn \/ LeaveOther
    PROVE  Leaves
<1>1. ASSUME NEW what PROVE SaidHere(Said(what)) /\ SaidHere({})
  BY DEF SaidHere, Said, Where
<1>2. ASSUME NEW what, Finding(what)
      PROVE  DOMAIN found' = DOMAIN found \cup {<<m, at>>}
  BY <1>2 DEF Finding, Extended, Where
<1>3. CASE LeaveDeclared
  <2>1. errors' = errors \cup {} /\ SaidHere({})
    BY <1>1, <1>3 DEF LeaveDeclared
  <2> QED
    BY <1>3, <2>1 DEF LeaveDeclared, Leaves, Walking
<1>4. ASSUME NEW kinds, NEW errs, LeaveChecked(kinds, errs), SaidHere(errs),
             DOMAIN found \subseteq DOMAIN found',
             IsLookedAt(m, at) => <<m, at>> \in DOMAIN found'
      PROVE  Leaves
  BY <1>4 DEF LeaveChecked, Leaves, Walking
<1>5. CASE CheckUse
  <2>1. PICK record :
            /\ LeaveChecked({"use", "iter", "leaf", "xid"},
                    IF record = NoRecord THEN Said("undeclared") ELSE {})
            /\ Finding(record)
    BY <1>5 DEF CheckUse
  <2>2. SaidHere(IF record = NoRecord THEN Said("undeclared") ELSE {})
    BY <1>1
  <2>3. DOMAIN found' = DOMAIN found \cup {<<m, at>>}
    BY <1>2, <2>1
  <2> QED
    BY <1>4, <2>1, <2>2, <2>3
<1>6. CASE CheckReturn
  <2> DEFINE errs == IF tables[cur].fndecl = NoWhere THEN Said("no function") ELSE {}
  <2>1. LeaveChecked({"return"}, errs) /\ SaidHere(errs)
    BY <1>1, <1>6 DEF CheckReturn
  <2>2. DOMAIN found' = DOMAIN found \cup {<<m, at>>}
    BY <1>2, <1>6 DEF CheckReturn
  <2> HIDE DEF errs
  <2> QED
    BY <1>4, <2>1, <2>2
<1>7. CASE LeaveOther
  <2>1. LeaveChecked({Here.k}, {}) /\ SaidHere({}) /\ found' = found
    BY <1>1, <1>7 DEF LeaveOther
  <2>2. ~IsLookedAt(m, at)
    BY <1>7 DEF LeaveOther, IsLookedAt, Mentioned, Here, Kind
  <2> QED
    BY <1>4, <2>1, <2>2
<1> QED
  BY <1>3, <1>5, <1>6, <1>7

LEMMA CheckingIsAMove ==
    ASSUME CheckScope \/ CheckOther \/ CheckMatch \/ CheckFor
    PROVE  GoesDown \/ GivesUp \/ Halts
<1>1. CASE CheckScope
  BY <1>1 DEF CheckScope, Checking, GoesDown, Walking
<1>2. CASE CheckOther
  BY <1>2 DEF CheckOther, Checking, GoesDown, Walking
<1>3. CASE CheckMatch
  <2>1. /\ Checking({"match"})
        /\ \/ Fail("crashed", {})
           \/ Descend /\ UNCHANGED <<prog, stage, m, errors, found, lost>>
    BY <1>3 DEF CheckMatch
  <2>2. CASE Fail("crashed", {})
    BY <2>1, <2>2 DEF Checking, Fail, Halts, Walking
  <2>3. CASE Descend /\ UNCHANGED <<prog, stage, m, errors, found, lost>>
    BY <2>1, <2>3 DEF Checking, GoesDown, Walking
  <2> QED
    BY <2>1, <2>2, <2>3
<1>4. CASE CheckFor
  <2>1. /\ Checking({"for"})
        /\ \/ \E what : GiveUp(what)
           \/ Descend /\ UNCHANGED <<prog, stage, m, errors, found, lost>>
    BY <1>4 DEF CheckFor
  <2>2. CASE \E what : GiveUp(what)
    BY <2>1, <2>2 DEF Checking, GivesUp
  <2>3. CASE Descend /\ UNCHANGED <<prog, stage, m, errors, found, lost>>
    BY <2>1, <2>3 DEF Checking, GoesDown, Walking
  <2> QED
    BY <2>1, <2>2, <2>3
<1> QED
  BY <1>1, <1>2, <1>3, <1>4

LEMMA StepIsAMove ==
    ASSUME [SNext]_svars
    PROVE  GoesDown \/ Leaves \/ GivesUp \/ Halts \/ UNCHANGED svars
BY DeclaringIsAMove, LeavingIsAMove, CheckingIsAMove DEF SNext, Done

(* What the invariant says of the tree the walk is in.                     *)
LEMMA TreeHere ==
    ASSUME PlaceInv
    PROVE  /\ IsTree(prog[m].tree) /\ MaxDepth \in Nat
           /\ at \in PathsOf(prog[m].tree) /\ at \in Seq(Nat) /\ Len(at) \in Nat
           /\ Len(prog) \in Nat /\ DOMAIN prog = 1..Len(prog) /\ m \in 1..Len(prog)
<1>1. prog \in Programs /\ m \in DOMAIN prog /\ at \in PathsOf(prog[m].tree)
  BY DEF PlaceInv, Paths
<1>2. MaxDepth \in Nat /\ IsSeq(prog) /\ IsTree(prog[m].tree)
  BY <1>1, ProgramsAreTrees
<1>3. Len(prog) \in Nat /\ DOMAIN prog = 1..Len(prog)
  BY <1>2 DEF IsSeq
<1>4. at \in Seq(Nat) /\ Len(at) \in Nat
  BY <1>1, <1>2, StepsOfAPath
<1> QED
  BY <1>1, <1>2, <1>3, <1>4

(* The way to a place ends there; before that it is the way to the place   *)
(* above.                                                                  *)
LEMMA WayGoesOn ==
    ASSUME NEW q \in Seq(Nat)
    PROVE  /\ WayTo(q) \in Seq(Seq(Nat)) /\ Len(WayTo(q)) = Len(q) + 1
           /\ Front(WayTo(q)) \in Seq(Seq(Nat)) /\ Len(Front(WayTo(q))) = Len(q)
           /\ WayTo(q) = Append(Front(WayTo(q)), q)
<1> DEFINE w == WayTo(q)
<1>1. ASSUME NEW i \in 1..(Len(q) + 1)
      PROVE  SubSeq(q, 1, i - 1) \in Seq(Nat) /\ w[i] = SubSeq(q, 1, i - 1)
  <2>1. i - 1 \in 0..Len(q)
    OBVIOUS
  <2> QED
    BY <2>1, Beginning DEF WayTo
<1>2. DOMAIN w = 1..(Len(q) + 1) /\ w = [i \in DOMAIN w |-> w[i]]
  BY DEF WayTo
<1>3. \A i \in 1..(Len(q) + 1) : w[i] \in Seq(Nat)
  BY <1>1
<1>4. w[Len(q) + 1] = q
  <2> DEFINE b == SubSeq(q, 1, Len(q))
  <2>1. b \in Seq(Nat) /\ Len(b) = Len(q) /\ \A j \in 1..Len(q) : b[j] = q[j]
    BY Beginning
  <2> HIDE DEF b
  <2>2. b = q
    BY <2>1, SamePath
  <2>3. Len(q) + 1 \in 1..(Len(q) + 1) /\ (Len(q) + 1) - 1 = Len(q)
    OBVIOUS
  <2>4. w[Len(q) + 1] = SubSeq(q, 1, Len(q))
    BY <1>1, <2>3
  <2> QED
    BY <2>2, <2>4 DEF b
<1> HIDE DEF w
<1>5. w \in Seq(Seq(Nat)) /\ Len(w) = Len(q) + 1
  BY <1>2, <1>3
<1>6. Front(w) \in Seq(Seq(Nat)) /\ Len(Front(w)) = Len(q)
  BY <1>5 DEF Front
<1>7. w = Append(Front(w), w[Len(q) + 1])
  BY <1>5, <1>6 DEF Front
<1> QED
  BY <1>4, <1>5, <1>6, <1>7 DEF w

LEMMA WayToAChild ==
    ASSUME NEW q \in Seq(Nat), NEW i \in Nat
    PROVE  Front(WayTo(Append(q, i))) = WayTo(q)
<1>1. PICK a \in Seq(Nat) :
        /\ a = Append(q, i) /\ Len(a) = Len(q) + 1 /\ a[Len(q) + 1] = i
        /\ \A j \in 1..Len(q) : a[j] = q[j]
  BY OneStepOn
<1> DEFINE f == Front(WayTo(a))
           w == WayTo(q)
<1>2. f \in Seq(Seq(Nat)) /\ Len(f) = Len(q) + 1 /\ w \in Seq(Seq(Nat)) /\ Len(w) = Len(q) + 1
  BY <1>1, WayGoesOn
<1>3. ASSUME NEW k \in 1..(Len(q) + 1) PROVE f[k] = w[k]
  <2>1. k \in 1..(Len(a) + 1) /\ k - 1 \in 0..Len(a) /\ k - 1 \in 0..Len(q)
    BY <1>1
  <2>2. Len(WayTo(a)) = Len(a) + 1 /\ WayTo(a) \in Seq(Seq(Nat))
    BY WayGoesOn
  <2>3. f[k] = WayTo(a)[k]
    BY <1>1, <2>1, <2>2 DEF Front
  <2>4. WayTo(a)[k] = SubSeq(a, 1, k - 1) /\ w[k] = SubSeq(q, 1, k - 1)
    BY <2>1 DEF WayTo
  <2> DEFINE b == SubSeq(a, 1, k - 1)
             c == SubSeq(q, 1, k - 1)
  <2>5. b \in Seq(Nat) /\ Len(b) = k - 1 /\ \A j \in 1..(k - 1) : b[j] = a[j]
    BY <1>1, <2>1, Beginning
  <2>6. c \in Seq(Nat) /\ Len(c) = k - 1 /\ \A j \in 1..(k - 1) : c[j] = q[j]
    BY <2>1, Beginning
  <2>7. \A j \in 1..(k - 1) : j \in 1..Len(q)
    BY <2>1
  <2> HIDE DEF b, c, f, w
  <2>8. b = c
    BY <1>1, <2>1, <2>5, <2>6, <2>7, SamePath
  <2> QED
    BY <2>3, <2>4, <2>8 DEF b, c
<1> HIDE DEF f, w
<1>4. f = w
  BY <1>2, <1>3
<1> QED
  BY <1>1, <1>4 DEF f, w

(* The way down: what lies behind stays the same.                          *)
LEMMA DownAStep ==
    ASSUME PlaceInv, dir = "down", Descend, prog' = prog, m' = m
    PROVE  /\ at' \in Paths(m) /\ dir' \in {"down", "up"}
           /\ \A p \in Paths(m) : Behind(p)' <=> Behind(p)
           /\ WayHere' = Append(WayHere, at)
<1> DEFINE tree == prog[m].tree
           ch == NodeOf(tree, at).ch
<1>1. IsTree(tree) /\ MaxDepth \in Nat /\ at \in PathsOf(tree) /\ at \in Seq(Nat)
  BY TreeHere
<1>2. Len(ch) \in Nat /\ DOMAIN ch = 1..Len(ch) /\ (ch = <<>> <=> Len(ch) = 0)
  BY <1>1, ChildrenOfANode
<1>3. Here.ch = ch /\ Paths(m) = PathsOf(tree) /\ Kids(tree, at) = 1..Len(ch)
  BY DEF Here, Node, Paths, Kids
<1>4. WayHere = Front(WayTo(at)) /\ WayTo(at) = Append(WayHere, at)
  BY <1>1, WayGoesOn DEF WayHere
<1> HIDE DEF tree, ch
<1>5. CASE ch = <<>>
  <2>1. at' = at /\ dir' = "up"
    BY <1>3, <1>5 DEF Descend
  <2>2. ASSUME NEW p \in Paths(m) PROVE ~Within(p, at)
    <3> SUFFICES ASSUME Within(p, at) PROVE FALSE
      OBVIOUS
    <3>1. /\ p \in Seq(Nat) /\ Len(p) \in Nat
          /\ \A k \in 0..(Len(p) - 1) : p[k + 1] \in Kids(tree, SubSeq(p, 1, k))
      BY <1>1, <1>3, StepsOfAPath
    <3>2. Len(at) \in 0..(Len(p) - 1) /\ Len(at) \in 0..Len(p) /\ Len(at) \in Nat
      BY <1>1, <3>1 DEF Within
    <3> DEFINE b == SubSeq(p, 1, Len(at))
    <3>3. b \in Seq(Nat) /\ Len(b) = Len(at) /\ \A j \in 1..Len(at) : b[j] = p[j]
      BY <3>1, <3>2, Beginning
    <3> HIDE DEF b
    <3>4. b = at
      BY <1>1, <3>3, SamePath DEF Within
    <3>5. p[Len(at) + 1] \in 1..Len(ch)
      BY <1>3, <3>1, <3>2, <3>4 DEF b
    <3> QED
      BY <1>2, <1>5, <3>5
  <2>3. \A p \in Paths(m) : Behind(p)' <=> Behind(p)
    BY <2>1, <2>2, dir = "down" DEF Behind
  <2>4. WayHere' = WayTo(at)
    BY <2>1 DEF WayHere
  <2> QED
    BY <1>1, <1>3, <1>4, <2>1, <2>3, <2>4
<1>6. CASE ch # <<>>
  <2>1. at' = Append(at, 1) /\ dir' = "down"
    BY <1>3, <1>6 DEF Descend
  <2>2. 1 \in Kids(tree, at)
    BY <1>2, <1>3, <1>6
  <2>3. at' \in PathsOf(tree)
    BY <1>1, <2>1, <2>2, ChildIsAPath
  <2>4. ASSUME NEW p \in Paths(m) PROVE LeftOf(p, at') <=> LeftOf(p, at)
    <3>1. p \in Seq(Nat) /\ \A k \in 1..Len(p) : p[k] \in Nat \ {0}
      BY <1>1, <1>3, StepsOfAPath
    <3>2. p \in Seq(Nat \ {0})
      BY <3>1
    <3> QED
      BY <1>1, <2>1, <3>2, ToTheFirstChild
  <2>5. \A p \in Paths(m) : Behind(p)' <=> Behind(p)
    BY <2>1, <2>4, dir = "down" DEF Behind
  <2>6. WayHere' = Front(WayTo(at'))
    BY <2>1 DEF WayHere
  <2>7. Front(WayTo(at')) = WayTo(at)
    BY <1>1, <2>1, WayToAChild
  <2> QED
    BY <1>3, <1>4, <2>1, <2>3, <2>5, <2>6, <2>7
<1> QED
  BY <1>5, <1>6

(* The way on: the place that was left, and all below it, lies behind.     *)
LEMMA OnAStep ==
    ASSUME PlaceInv, at # <<>>, at' = NextPlace, prog' = prog, m' = m,
           dir' = IF NextPlace = Above(at) THEN "up" ELSE "down"
    PROVE  /\ at' \in Paths(m) /\ dir' \in {"down", "up"}
           /\ \A p \in Paths(m) :
                Behind(p)' <=> LeftOf(p, at) \/ p = at \/ Within(p, at)
           /\ WayHere' = Front(WayTo(at))
<1> DEFINE tree == prog[m].tree
           r == Front(at)
           i == Last(at)
           ch == NodeOf(tree, r).ch
<1>1. IsTree(tree) /\ MaxDepth \in Nat /\ at \in PathsOf(tree) /\ at \in Seq(Nat)
  BY TreeHere
<1>2. /\ r \in PathsOf(tree) /\ Len(r) = Len(at) - 1 /\ i \in Kids(tree, r)
      /\ i \in Nat \ {0} /\ at = Append(r, i)
  BY <1>1, PathAbove
<1>3. Len(ch) \in Nat /\ Kids(tree, r) = 1..Len(ch)
  BY <1>1, <1>2, ChildrenOfANode DEF Kids
<1>4. r \in Seq(Nat) /\ Len(r) \in Nat
  BY <1>1, <1>2, StepsOfAPath
<1>5. /\ Paths(m) = PathsOf(tree) /\ Above(at) = r /\ Children(m, Above(at)) = ch
  BY DEF Paths, Above, Children, Node
<1>6. Front(WayTo(at)) = WayTo(r)
  BY <1>2, <1>4, WayToAChild
<1> HIDE DEF tree, r, i, ch
<1>7. CASE i < Len(ch)
  <2>1. NextPlace = Append(r, i + 1)
    BY <1>5, <1>7 DEF NextPlace, i
  <2>2. i + 1 \in Kids(tree, r) /\ i + 1 \in Nat
    BY <1>2, <1>3, <1>7
  <2>3. PICK a \in Seq(Nat) : a = Append(r, i + 1) /\ Len(a) = Len(r) + 1
    BY <1>4, <2>2, OneStepOn
  <2>4. NextPlace # r
    BY <1>4, <2>1, <2>3
  <2>5. at' = Append(r, i + 1) /\ dir' = "down"
    BY <1>5, <2>1, <2>4
  <2>6. at' \in PathsOf(tree)
    BY <1>1, <1>2, <2>2, <2>5, ChildIsAPath
  <2>7. ASSUME NEW p \in Paths(m)
        PROVE  Behind(p)' <=> LeftOf(p, at) \/ p = at \/ Within(p, at)
    <3>1. p \in Seq(Nat)
      BY <1>1, <1>5, StepsOfAPath
    <3>2. LeftOf(p, at') <=> LeftOf(p, at) \/ p = at \/ Within(p, at)
      BY <1>2, <1>4, <2>5, <3>1, ToTheNextSibling
    <3> QED
      BY <2>5, <3>2 DEF Behind
  <2>8. WayHere' = Front(WayTo(at'))
    BY <2>5 DEF WayHere
  <2>9. Front(WayTo(at')) = WayTo(r)
    BY <1>4, <2>2, <2>5, WayToAChild
  <2> QED
    BY <1>5, <1>6, <2>5, <2>6, <2>7, <2>8, <2>9
<1>8. CASE ~(i < Len(ch))
  <2>1. NextPlace = r
    BY <1>5, <1>8 DEF NextPlace, i
  <2>2. at' = r /\ dir' = "up"
    BY <1>5, <2>1
  <2>3. ASSUME NEW p \in Paths(m)
        PROVE  Behind(p)' <=> LeftOf(p, at) \/ p = at \/ Within(p, at)
    <3>1. /\ p \in Seq(Nat) /\ Len(p) \in Nat
          /\ \A k \in 0..(Len(p) - 1) : p[k + 1] \in Kids(tree, SubSeq(p, 1, k))
      BY <1>1, <1>5, StepsOfAPath
    <3>2. ASSUME Within(p, r) PROVE p[Len(r) + 1] <= i
      <4>1. Len(r) \in 0..(Len(p) - 1) /\ Len(r) \in 0..Len(p)
        BY <1>4, <3>1, <3>2 DEF Within
      <4> DEFINE b == SubSeq(p, 1, Len(r))
      <4>2. b \in Seq(Nat) /\ Len(b) = Len(r) /\ \A j \in 1..Len(r) : b[j] = p[j]
        BY <3>1, <4>1, Beginning
      <4> HIDE DEF b
      <4>3. b = r
        BY <1>4, <3>2, <4>2, SamePath DEF Within
      <4>4. p[Len(r) + 1] \in 1..Len(ch)
        BY <1>3, <3>1, <4>1, <4>3 DEF b
      <4> QED
        BY <1>2, <1>3, <1>8, <4>4
    <3>3. LeftOf(p, r) \/ Within(p, r)
          <=> LeftOf(p, at) \/ p = at \/ Within(p, at)
      BY <1>2, <1>4, <3>1, <3>2, ToTheParent
    <3> QED
      BY <2>2, <3>3 DEF Behind
  <2>4. WayHere' = WayTo(r)
    BY <2>2 DEF WayHere
  <2> QED
    BY <1>2, <1>5, <1>6, <2>2, <2>3, <2>4
<1> QED
  BY <1>7, <1>8

-----------------------------------------------------------------------------
(* The invariant.                                                          *)

(* The trees of a program are the same at all times.                       *)
LEMMA TreesStay ==
    ASSUME prog' = prog
    PROVE  /\ \A n : Paths(n)' = Paths(n)
           /\ \A n, p : IsLookedAt(n, p)' <=> IsLookedAt(n, p)
BY DEF Paths, IsLookedAt, Mentions, Kind, Node

(* A module that was checked stays so when more is found.                  *)
LEMMA CheckedStays ==
    ASSUME prog' = prog, DOMAIN found \subseteq DOMAIN found'
    PROVE  \A n : Checked(n) => Checked(n)'
<1> SUFFICES ASSUME NEW n, Checked(n) PROVE Checked(n)'
  OBVIOUS
<1>1. Paths(n)' = Paths(n) /\ \A p : IsLookedAt(n, p)' <=> IsLookedAt(n, p)
  BY TreesStay
<1>2. \A p \in Paths(n) : IsLookedAt(n, p)' => <<n, p>> \in DOMAIN found'
  BY <1>1 DEF Checked
<1> QED
  BY <1>1, <1>2 DEF Checked

(* Nothing lies behind where a walk begins.                                *)
LEMMA NothingBehindTheStart ==
    ASSUME at = <<>>, dir = "down"
    PROVE  \A p : ~Behind(p)
<1>1. ASSUME NEW p, LeftOf(p, <<>>) PROVE FALSE
  <2>1. PICK i \in 1..Len(p) : i <= Len(<<>>)
    BY <1>1 DEF LeftOf
  <2>2. i \in Int /\ 1 <= i /\ Len(<<>>) = 0
    OBVIOUS
  <2> QED
    BY <2>1, <2>2
<1> QED
  BY <1>1 DEF Behind

(* The way to where it begins.                                             *)
LEMMA WayAtTheStart ==
    ASSUME at = <<>>, dir = "down"
    PROVE  WayHere = <<>> /\ Len(WayHere) = 0
<1>1. PICK q \in Seq(Nat) : q = <<>> /\ Len(q) = 0
  <2>1. <<>> \in Seq(Nat) /\ Len(<<>>) = 0
    OBVIOUS
  <2> QED
    BY <2>1
<1> DEFINE f == Front(WayTo(q))
<1>2. f \in Seq(Seq(Nat)) /\ Len(f) = 0
  BY <1>1, WayGoesOn
<1> HIDE DEF f
<1>3. f = <<>>
  BY <1>2
<1> QED
  BY <1>1, <1>2, <1>3 DEF WayHere, f

LEMMA StartIsSound == SInit => ScopesIInv
<1> SUFFICES ASSUME SInit PROVE ScopesIInv
  OBVIOUS
<1>1. prog \in Programs /\ stage = "declare" /\ m = 1 /\ at = <<>> /\ dir = "down"
      /\ parents = <<>> /\ errors = {} /\ lost = {}
  BY DEF SInit
<1>2. PlaceInv
  <2>1. MaxDepth \in Nat /\ prog # <<>> /\ IsSeq(prog)
    BY <1>1, ProgramsAreTrees
  <2>2. 1 \in DOMAIN prog
    BY <2>1 DEF IsSeq
  <2>3. <<>> \in PathsOf(prog[1].tree)
    BY <2>1, RootIsAPath
  <2> QED
    BY <1>1, <2>2, <2>3 DEF PlaceInv, Paths
<1>3. LostInv
  BY <1>1, FS_EmptySet DEF LostInv
<1>4. ParentsInv
  <2>1. WayHere = <<>> /\ Len(WayHere) = 0
    BY <1>1, WayAtTheStart
  <2>2. Cardinality(lost) = 0
    BY <1>1, FS_EmptySet
  <2>3. IsSeq(parents) /\ Len(parents) = 0
    BY <1>1 DEF IsSeq
  <2> QED
    BY <1>1, <2>1, <2>2, <2>3 DEF ParentsInv
<1>5. ErrorsInv
  BY <1>1 DEF ErrorsInv
<1>6. SeenInv
  BY <1>1 DEF SeenInv
<1> QED
  BY <1>2, <1>3, <1>4, <1>5, <1>6 DEF ScopesIInv

(* A list of parents that is a sequence, with one more or one less.        *)
LEMMA ParentsGrow ==
    ASSUME NEW s, IsSeq(s), NEW x
    PROVE  /\ IsSeq(Append(s, x)) /\ Len(Append(s, x)) = Len(s) + 1
           /\ Len(s) \in Nat /\ Append(s, x) # <<>>
<1>1. s \in Seq(Range(s) \cup {x}) /\ Len(s) \in Nat
  BY DEF IsSeq
<1>2. PICK a \in Seq(Range(s) \cup {x}) : a = Append(s, x) /\ Len(a) = Len(s) + 1
  <2>1. Append(s, x) \in Seq(Range(s) \cup {x}) /\ Len(Append(s, x)) = Len(s) + 1
    BY <1>1
  <2> QED
    BY <2>1
<1>3. DOMAIN a = 1..Len(a) /\ \A k \in 1..Len(a) : a[k] \in Range(a)
  BY DEF Range
<1>4. a = [k \in 1..Len(a) |-> a[k]]
  BY <1>3
<1>5. a \in Seq(Range(a))
  BY <1>1, <1>2, <1>3, <1>4
<1>6. a # <<>>
  BY <1>1, <1>2
<1> QED
  BY <1>1, <1>2, <1>5, <1>6 DEF IsSeq

LEMMA FrontOfASeq ==
    ASSUME NEW T, NEW s \in Seq(T), Len(s) # 0
    PROVE  Front(s) \in Seq(T) /\ Len(Front(s)) = Len(s) - 1
BY DEF Front

LEMMA ParentsShrink ==
    ASSUME NEW s, IsSeq(s), Len(s) # 0
    PROVE  IsSeq(Front(s)) /\ Len(Front(s)) = Len(s) - 1
<1>1. s \in Seq(Range(s)) /\ Len(s) \in Nat
  BY DEF IsSeq
<1>2. PICK a \in Seq(Range(s)) : a = Front(s) /\ Len(a) = Len(s) - 1
  <2>1. Front(s) \in Seq(Range(s)) /\ Len(Front(s)) = Len(s) - 1
    BY <1>1, FrontOfASeq
  <2> QED
    BY <2>1
<1>3. DOMAIN a = 1..Len(a) /\ \A k \in 1..Len(a) : a[k] \in Range(a)
  BY DEF Range
<1>4. a = [k \in 1..Len(a) |-> a[k]]
  BY <1>3
<1>5. a \in Seq(Range(a))
  BY <1>1, <1>2, <1>3, <1>4
<1> QED
  BY <1>2, <1>5 DEF IsSeq

(* Down: the way and the list of parents grow by the same node.            *)
LEMMA DownIsSound ==
    ASSUME ScopesIInv, GoesDown
    PROVE  ScopesIInv'
<1>1. PlaceInv /\ LostInv /\ ParentsInv /\ ErrorsInv /\ SeenInv
  BY DEF ScopesIInv
<1>2. /\ Walking /\ dir = "down" /\ Descend /\ parents' = Append(parents, at)
      /\ prog' = prog /\ stage' = stage /\ m' = m /\ errors' = errors
      /\ found' = found /\ lost' = lost
  BY DEF GoesDown
<1>3. /\ at' \in Paths(m) /\ dir' \in {"down", "up"}
      /\ \A p \in Paths(m) : Behind(p)' <=> Behind(p)
      /\ WayHere' = Append(WayHere, at)
  BY <1>1, <1>2, DownAStep
<1>4. /\ Paths(m)' = Paths(m)
      /\ \A n, p : IsLookedAt(n, p)' <=> IsLookedAt(n, p)
      /\ Walking' = Walking
  BY <1>2, TreesStay DEF Paths, Walking
<1>5. PlaceInv'
  BY <1>1, <1>2, <1>3, <1>4 DEF PlaceInv
<1>6. LostInv'
  BY <1>1, <1>2, <1>3, <1>4 DEF LostInv
<1>7. ParentsInv'
  <2>1. at \in Seq(Nat)
    BY <1>1, TreeHere
  <2>2. WayHere = Front(WayTo(at))
    BY <1>2 DEF WayHere
  <2>3. WayHere \in Seq(Seq(Nat)) /\ Len(WayHere) \in Nat
    BY <2>1, <2>2, WayGoesOn
  <2>4. Len(WayHere') = Len(WayHere) + 1
    BY <1>3, <2>1, <2>3
  <2>5. /\ IsSeq(parents) /\ Len(parents) = Len(WayHere) + Cardinality(lost)
        /\ lost = {} => parents = WayHere
    BY <1>1, <1>2 DEF ParentsInv
  <2>6. IsSeq(parents') /\ Len(parents') = Len(parents) + 1
    BY <1>2, <2>5, ParentsGrow
  <2>7. Cardinality(lost) \in Nat
    BY <1>1, <1>2, FS_CardinalityType DEF LostInv
  <2>8. Len(parents') = Len(WayHere') + Cardinality(lost)
    BY <2>3, <2>4, <2>5, <2>6, <2>7
  <2> QED
    BY <1>2, <1>3, <2>5, <2>6, <2>8 DEF ParentsInv
<1>8. ErrorsInv'
  BY <1>1, <1>2, <1>4 DEF ErrorsInv, Walking
<1>9. SeenInv'
  <2>1. \A n : Checked(n) => Checked(n)'
    BY <1>2, CheckedStays
  <2>2. stage' # "analyzed"
    BY <1>2 DEF Walking
  <2> SUFFICES ASSUME errors = {}
      PROVE  /\ \A n \in 1..(m - 1) : Checked(n)'
             /\ stage = "check" =>
                    \A p \in Paths(m) : IsLookedAt(m, p) /\ Behind(p)
                                        => <<m, p>> \in DOMAIN found
    BY <1>2, <1>3, <1>4, <2>2 DEF SeenInv
  <2> QED
    BY <1>1, <1>2, <2>1 DEF SeenInv
<1> QED
  BY <1>5, <1>6, <1>7, <1>8, <1>9 DEF ScopesIInv

(* A way but for the shortest has one node less.                           *)
LEMMA WayHereIsASeq ==
    ASSUME PlaceInv
    PROVE  /\ WayHere \in Seq(Seq(Nat))
           /\ dir = "up" => WayHere = WayTo(at) /\ Len(WayHere) = Len(at) + 1
           /\ dir = "down" => WayHere = Front(WayTo(at)) /\ Len(WayHere) = Len(at)
           /\ Len(Front(WayTo(at))) = Len(at) /\ Len(at) \in Nat
           /\ WayTo(at) = Append(Front(WayTo(at)), at)
BY TreeHere, WayGoesOn DEF WayHere, PlaceInv

(* On to the next place: the way and the list lose the node that is left.  *)
LEMMA LeavingIsSound ==
    ASSUME ScopesIInv, Leaves, at # <<>>
    PROVE  ScopesIInv'
<1>1. PlaceInv /\ LostInv /\ ParentsInv /\ ErrorsInv /\ SeenInv
  BY DEF ScopesIInv
<1>2. PICK errs : /\ errors' = errors \cup errs /\ SaidHere(errs)
                  /\ stage = "declare" => errs = {}
  BY DEF Leaves
<1>3. /\ Walking /\ dir = "up" /\ parents' = Front(parents)
      /\ DOMAIN found \subseteq DOMAIN found'
      /\ stage = "check" /\ IsLookedAt(m, at) => <<m, at>> \in DOMAIN found'
      /\ prog' = prog /\ lost' = lost
  BY DEF Leaves, Popped
<1>4. /\ at' = NextPlace /\ stage' = stage /\ m' = m
      /\ dir' = IF NextPlace = Above(at) THEN "up" ELSE "down"
  BY DEF Leaves, GoOn
<1>5. /\ at' \in Paths(m) /\ dir' \in {"down", "up"}
      /\ \A p \in Paths(m) : Behind(p)' <=> LeftOf(p, at) \/ p = at \/ Within(p, at)
      /\ WayHere' = Front(WayTo(at))
  BY <1>1, <1>3, <1>4, OnAStep
<1>6. /\ Paths(m)' = Paths(m)
      /\ \A n, p : IsLookedAt(n, p)' <=> IsLookedAt(n, p)
      /\ Walking' = Walking
  BY <1>3, <1>4, TreesStay DEF Paths, Walking
<1>7. \A p : Behind(p) <=> LeftOf(p, at) \/ Within(p, at)
  BY <1>3 DEF Behind
<1>8. PlaceInv'
  BY <1>1, <1>3, <1>4, <1>5, <1>6 DEF PlaceInv
<1>9. LostInv'
  BY <1>1, <1>2, <1>3, <1>4, <1>5, <1>6, <1>7 DEF LostInv
<1>10. ParentsInv'
  <2>1. /\ WayHere = WayTo(at) /\ Len(WayHere) = Len(at) + 1 /\ Len(at) \in Nat
        /\ Len(WayHere') = Len(at)
    BY <1>1, <1>3, <1>5, WayHereIsASeq
  <2>2. /\ IsSeq(parents) /\ Len(parents) = Len(WayHere) + Cardinality(lost)
        /\ lost = {} => parents = WayHere
    BY <1>1, <1>3 DEF ParentsInv
  <2>3. Cardinality(lost) \in Nat
    BY <1>1, <1>3, FS_CardinalityType DEF LostInv
  <2>4. Len(parents) # 0
    BY <2>1, <2>2, <2>3
  <2>5. IsSeq(parents') /\ Len(parents') = Len(parents) - 1
    BY <1>3, <2>2, <2>4, ParentsShrink
  <2>6. Len(parents') = Len(WayHere') + Cardinality(lost)
    BY <2>1, <2>2, <2>3, <2>5
  <2> QED
    BY <1>3, <1>5, <2>1, <2>2, <2>5, <2>6 DEF ParentsInv
<1>11. ErrorsInv'
  <2>1. stage \in {"declare", "check"}
    BY <1>3 DEF Walking
  <2> QED
    BY <1>1, <1>2, <1>3, <1>4, <1>6, <2>1 DEF ErrorsInv, SaidHere
<1>12. SeenInv'
  <2>1. \A n : Checked(n) => Checked(n)'
    BY <1>3, CheckedStays
  <2>2. stage' # "analyzed"
    BY <1>3, <1>4 DEF Walking
  <2> SUFFICES ASSUME errors' = {}
      PROVE  /\ \A n \in 1..(m - 1) : Checked(n)'
             /\ stage = "check" =>
                    \A p \in Paths(m) : IsLookedAt(m, p) /\ Behind(p)'
                                        => <<m, p>> \in DOMAIN found'
    BY <1>3, <1>4, <1>6, <2>2 DEF SeenInv
  <2>3. errors = {}
    BY <1>2
  <2> QED
    BY <1>1, <1>3, <1>5, <1>7, <2>1, <2>3 DEF SeenInv
<1> QED
  BY <1>8, <1>9, <1>10, <1>11, <1>12 DEF ScopesIInv

(* What the end of a walk comes to: the second walk of the module, a       *)
(* failure that was told of, the next module, or the end.                  *)
LEMMA EndingIsSound ==
    ASSUME ScopesIInv, Leaves, at = <<>>
    PROVE  ScopesIInv'
<1>1. PlaceInv /\ LostInv /\ ParentsInv /\ ErrorsInv /\ SeenInv
  BY DEF ScopesIInv
<1>2. PICK errs : /\ errors' = errors \cup errs /\ SaidHere(errs)
                  /\ stage = "declare" => errs = {}
  BY DEF Leaves
<1>3. /\ Walking /\ dir = "up"
      /\ DOMAIN found \subseteq DOMAIN found'
      /\ stage = "check" /\ IsLookedAt(m, at) => <<m, at>> \in DOMAIN found'
      /\ prog' = prog /\ lost' = lost
  BY DEF Leaves
<1>4. FinishWalk(errors')
  BY DEF Leaves, GoOn
<1>5. at' = <<>> /\ dir' = "down" /\ parents' = <<>>
  BY <1>4 DEF FinishWalk, Restart
<1>6. /\ MaxDepth \in Nat /\ Len(prog) \in Nat /\ DOMAIN prog = 1..Len(prog)
      /\ m \in 1..Len(prog)
  BY <1>1, TreeHere
<1>7. /\ \A n : Paths(n)' = Paths(n)
      /\ \A n, p : IsLookedAt(n, p)' <=> IsLookedAt(n, p)
      /\ \A n : Checked(n) => Checked(n)'
  BY <1>3, TreesStay, CheckedStays
<1>8. (at = <<>> /\ dir = "down" => \A p : ~Behind(p))'
  BY NothingBehindTheStart, PTL
<1>9. (at = <<>> /\ dir = "down" => WayHere = <<>> /\ Len(WayHere) = 0)'
  BY WayAtTheStart, PTL
<1>10. Cardinality({}) = 0 /\ IsFiniteSet({})
  BY FS_EmptySet
<1>11. IsSeq(<<>>) /\ Len(<<>>) = 0
  BY DEF IsSeq
<1>12. ASSUME errors' = {} PROVE lost = {} /\ errors = {}
  BY <1>1, <1>2, <1>3, <1>12 DEF LostInv
<1>13. ASSUME lost' = {}
       PROVE  ParentsInv' /\ LostInv'
  BY <1>5, <1>9, <1>10, <1>11, <1>13 DEF ParentsInv, LostInv
<1>14. ASSUME NEW n \in 1..Len(prog), m' = n,
              stage' \in {"declare", "check", "analyzed", "failed"}
       PROVE  PlaceInv'
  <2>1. at' \in PathsOf(prog[n].tree)
    BY <1>5, <1>6, RootIsAPath
  <2>2. at' \in Paths(m)'
    BY <1>3, <1>14, <2>1 DEF Paths
  <2> QED
    BY <1>1, <1>3, <1>5, <1>6, <1>14, <2>2 DEF PlaceInv
<1>15. CASE stage = "declare"
  <2>1. stage' = "check" /\ m' = m
    BY <1>4, <1>15 DEF FinishWalk, Restart
  <2>2. lost' = {} /\ errors' = {} /\ errors = {}
    BY <1>1, <1>2, <1>3, <1>15 DEF LostInv, ErrorsInv
  <2>3. ErrorsInv'
    BY <2>1, <2>2 DEF ErrorsInv
  <2>4. \A n \in 1..(m - 1) : Checked(n)'
    BY <1>1, <1>3, <1>7, <2>2 DEF SeenInv
  <2>5. SeenInv'
    BY <1>5, <1>8, <2>1, <2>4 DEF SeenInv
  <2> QED
    BY <1>6, <1>13, <1>14, <2>1, <2>2, <2>3, <2>5 DEF ScopesIInv
<1>16. CASE stage # "declare" /\ \E e \in errors' : e.node[1] = m
  <2>1. stage' = "failed" /\ m' = m
    BY <1>4, <1>16 DEF FinishWalk, Restart
  <2>2. ~Walking'
    BY <2>1 DEF Walking
  <2>3. LostInv' /\ ParentsInv' /\ SeenInv'
    BY <2>1, <2>2 DEF LostInv, ParentsInv, SeenInv
  <2>4. ErrorsInv'
    BY <1>16, <2>1, <2>2 DEF ErrorsInv
  <2> QED
    BY <1>6, <1>14, <2>1, <2>3, <2>4 DEF ScopesIInv
<1>17. CASE stage # "declare" /\ ~\E e \in errors' : e.node[1] = m
  <2>1. stage = "check"
    BY <1>3, <1>17 DEF Walking
  <2>2. errors' = {}
    BY <1>1, <1>2, <1>3, <1>17 DEF ErrorsInv, SaidHere
  <2>3. lost' = {} /\ errors = {}
    BY <1>3, <1>12, <2>2
  <2> PICK k \in 1..Len(prog) : k = m
    BY <1>6
  <2>4. Checked(k)'
    <3> SUFFICES ASSUME NEW p \in Paths(k), IsLookedAt(k, p)
                 PROVE  <<m, p>> \in DOMAIN found'
      BY <1>7 DEF Checked
    <3>1. p \in Seq(Nat) /\ Len(p) \in Nat
      BY <1>6, StepsOfAPath DEF Paths
    <3>2. CASE p = <<>>
      BY <1>3, <2>1, <3>2
    <3>3. CASE p # <<>>
      <4>1. Within(p, at)
        BY <3>1, <3>3 DEF Within
      <4>2. Behind(p)
        BY <1>3, <4>1 DEF Behind
      <4> QED
        BY <1>1, <1>3, <2>1, <2>3, <4>2 DEF SeenInv
    <3> QED
      BY <3>2, <3>3
  <2>5. \A n \in 1..m : Checked(n)'
    <3>1. \A n \in 1..(m - 1) : Checked(n)'
      BY <1>1, <1>3, <1>7, <2>3 DEF SeenInv
    <3>2. \A n \in 1..m : n \in 1..(m - 1) \/ n = k
      BY <1>6
    <3> QED
      BY <2>4, <3>1, <3>2
  <2>6. CASE m < Len(prog)
    <3>1. stage' = "declare" /\ m' = m + 1
      BY <1>4, <1>17, <2>6 DEF FinishWalk, Restart
    <3>2. m + 1 \in 1..Len(prog) /\ (m + 1) - 1 = m
      BY <1>6, <2>6
    <3>3. PlaceInv'
      BY <1>14, <3>1, <3>2
    <3>4. ErrorsInv'
      BY <2>2, <3>1 DEF ErrorsInv
    <3>5. SeenInv'
      BY <2>5, <3>1, <3>2 DEF SeenInv
    <3> QED
      BY <1>13, <2>3, <3>3, <3>4, <3>5 DEF ScopesIInv
  <2>7. CASE ~(m < Len(prog))
    <3>1. stage' = "analyzed" /\ m' = m
      BY <1>4, <1>17, <2>7 DEF FinishWalk, Restart
    <3>2. PlaceInv'
      BY <1>6, <1>14, <3>1
    <3>3. ErrorsInv'
      BY <2>2, <3>1 DEF ErrorsInv, Walking
    <3>4. 1..m = DOMAIN prog
      <4>1. k \in Nat /\ k <= Len(prog) /\ Len(prog) \in Nat
        BY <1>6
      <4>2. ~(k < Len(prog))
        BY <2>7
      <4>3. k = Len(prog)
        BY <4>1, <4>2
      <4> QED
        BY <1>6, <4>3
    <3>5. SeenInv'
      BY <1>3, <2>5, <3>1, <3>4 DEF SeenInv, Walking
    <3> QED
      BY <1>13, <2>3, <3>2, <3>3, <3>5 DEF ScopesIInv
  <2> QED
    BY <2>6, <2>7
<1> QED
  BY <1>15, <1>16, <1>17

(* Past a node that failed: the list of parents keeps it, and it is lost.  *)
LEMMA GivingUpIsSound ==
    ASSUME ScopesIInv, GivesUp
    PROVE  ScopesIInv'
<1>1. PlaceInv /\ LostInv /\ ParentsInv /\ ErrorsInv /\ SeenInv
  BY DEF ScopesIInv
<1>2. PICK what : GiveUp(what)
  BY DEF GivesUp
<1>3. /\ stage = "check" /\ dir = "down" /\ parents' = Append(parents, at)
      /\ errors' = errors \cup Said(what) /\ lost' = lost \cup {<<m, at>>}
      /\ prog' = prog /\ GoOn(errors', cur) /\ Walking
  BY <1>2 DEF GivesUp, GiveUp, Where, Walking
<1>4. /\ IsSeq(parents) /\ Len(parents) = Len(WayHere) + Cardinality(lost)
      /\ lost = {} => parents = WayHere
  BY <1>1, <1>3 DEF ParentsInv
<1>5. at # <<>>
  <2> SUFFICES ASSUME at = <<>> PROVE FALSE
    OBVIOUS
  <2>1. parents' = <<>>
    BY <1>3 DEF GoOn, FinishWalk, Restart
  <2> QED
    BY <1>3, <1>4, <2>1, ParentsGrow
<1>6. /\ at' = NextPlace /\ stage' = stage /\ m' = m
      /\ dir' = IF NextPlace = Above(at) THEN "up" ELSE "down"
  BY <1>3, <1>5 DEF GoOn
<1>7. /\ at' \in Paths(m) /\ dir' \in {"down", "up"}
      /\ \A p \in Paths(m) : Behind(p)' <=> LeftOf(p, at) \/ p = at \/ Within(p, at)
      /\ WayHere' = Front(WayTo(at))
  BY <1>1, <1>3, <1>5, <1>6, OnAStep
<1>8. Paths(m)' = Paths(m) /\ Walking' /\ stage' = "check" /\ m' = m
  BY <1>3, <1>6 DEF Paths, Walking
<1>9. PlaceInv'
  BY <1>1, <1>3, <1>6, <1>7, <1>8 DEF PlaceInv
<1>10. \A p : Behind(p) <=> LeftOf(p, at)
  BY <1>3 DEF Behind
<1>11. \E e \in errors' : e.node = <<m, at>>
  <2> DEFINE e == [node |-> Where, what |-> what]
  <2>1. e \in errors' /\ e.node = <<m, at>>
    BY <1>3 DEF Said, Where
  <2> QED
    BY <2>1
<1>12. at \in Paths(m)
  BY <1>1 DEF PlaceInv
<1>13. LostInv'
  <2>1. IsFiniteSet(lost')
    BY <1>1, <1>3, FS_AddElement DEF LostInv
  <2>2. ASSUME NEW w \in lost'
        PROVE  /\ w = <<m, w[2]>> /\ w[2] \in Paths(m) /\ Behind(w[2])'
               /\ \E e \in errors' : e.node = w
    <3>1. CASE w \in lost
      BY <1>1, <1>3, <1>7, <1>10, <3>1 DEF LostInv
    <3>2. CASE w = <<m, at>>
      <4>1. w[2] = at /\ w = <<m, w[2]>> /\ w[2] \in Paths(m)
        BY <1>12, <3>2
      <4>2. Behind(w[2])'
        BY <1>7, <4>1
      <4> QED
        BY <1>11, <3>2, <4>1, <4>2
    <3> QED
      BY <1>3, <3>1, <3>2
  <2> QED
    BY <1>8, <2>1, <2>2 DEF LostInv
<1>14. ParentsInv'
  <2>1. <<m, at>> \notin lost
    <3> SUFFICES ASSUME <<m, at>> \in lost PROVE FALSE
      OBVIOUS
    <3>1. <<m, at>>[2] = at
      OBVIOUS
    <3>2. Behind(at)
      BY <1>1, <1>3, <3>1 DEF LostInv
    <3>3. PICK i \in 1..Len(at) : at[i] < at[i]
      BY <1>10, <3>2 DEF LeftOf
    <3>4. at[i] \in Nat
      BY <1>1, TreeHere
    <3> QED
      BY <3>3, <3>4
  <2>2. Cardinality(lost') = Cardinality(lost) + 1 /\ Cardinality(lost) \in Nat
    BY <1>1, <1>3, <2>1, FS_AddElement, FS_CardinalityType DEF LostInv
  <2>3. Len(WayHere) = Len(at) /\ Len(WayHere') = Len(at) /\ Len(at) \in Nat
    BY <1>1, <1>3, <1>7, WayHereIsASeq
  <2>4. IsSeq(parents') /\ Len(parents') = Len(parents) + 1
    BY <1>3, <1>4, ParentsGrow
  <2>5. Len(parents') = Len(WayHere') + Cardinality(lost')
    BY <1>4, <2>2, <2>3, <2>4
  <2> QED
    BY <1>3, <2>4, <2>5 DEF ParentsInv
<1>15. ErrorsInv'
  <2>1. \A e \in Said(what) : e.node[1] = m
    BY DEF Said, Where
  <2> QED
    BY <1>1, <1>3, <1>8, <2>1 DEF ErrorsInv
<1>16. SeenInv'
  BY <1>8, <1>11 DEF SeenInv
<1> QED
  BY <1>9, <1>13, <1>14, <1>15, <1>16 DEF ScopesIInv

(* A halt stands where the walk was.                                       *)
LEMMA HaltingIsSound ==
    ASSUME ScopesIInv, Halts
    PROVE  ScopesIInv'
<1>1. /\ stage' \in {"failed", "asserted", "crashed"}
      /\ stage' = "failed" => \E e \in errors' : e.node[1] = m'
      /\ prog' = prog /\ m' = m /\ at' = at /\ dir' = dir
  BY DEF Halts
<1>2. ~Walking'
  BY <1>1 DEF Walking
<1>3. Paths(m)' = Paths(m)
  BY <1>1 DEF Paths
<1>4. PlaceInv'
  BY <1>1, <1>3 DEF PlaceInv, ScopesIInv
<1> QED
  BY <1>1, <1>2, <1>4 DEF ScopesIInv, LostInv, ParentsInv, ErrorsInv, SeenInv

LEMMA StutteringIsSound ==
    ASSUME ScopesIInv, UNCHANGED svars
    PROVE  ScopesIInv'
<1>1. /\ prog' = prog /\ stage' = stage /\ m' = m /\ at' = at /\ dir' = dir
      /\ parents' = parents /\ errors' = errors /\ found' = found /\ lost' = lost
  BY DEF svars
<1>2. /\ Paths(m)' = Paths(m) /\ Walking' = Walking /\ WayHere' = WayHere
      /\ \A p : Behind(p)' <=> Behind(p)
      /\ \A n, p : IsLookedAt(n, p)' <=> IsLookedAt(n, p)
  BY <1>1, TreesStay DEF Paths, Walking, WayHere, Behind
<1>3. \A n : Checked(n) => Checked(n)'
  BY <1>1, CheckedStays
<1>4. PlaceInv' /\ LostInv' /\ ParentsInv' /\ ErrorsInv'
  BY <1>1, <1>2 DEF ScopesIInv, PlaceInv, LostInv, ParentsInv, ErrorsInv
<1>5. SeenInv'
  BY <1>1, <1>2, <1>3 DEF ScopesIInv, SeenInv
<1> QED
  BY <1>4, <1>5 DEF ScopesIInv

-----------------------------------------------------------------------------
(* The theorems.                                                           *)

LEMMA ScopesInductive == ScopesIInv /\ [SNext]_svars => ScopesIInv'
BY StepIsAMove, DownIsSound, LeavingIsSound, EndingIsSound, GivingUpIsSound,
   HaltingIsSound, StutteringIsSound

LEMMA ParentsAreTheWay == ScopesIInv => ParentsFollowPath
<1> SUFFICES ASSUME ScopesIInv, Walking PROVE ParentsFollowPath
  BY DEF ParentsFollowPath
<1>1. \A w \in lost : w[1] = m /\ stage = "check"
  BY DEF ScopesIInv, LostInv
<1>2. {w \in lost : w[1] = m /\ stage = "check"} = lost
  BY <1>1
<1> QED
  BY <1>2 DEF ScopesIInv, ParentsInv, ParentsFollowPath, WayHere

LEMMA VerdictsAreRight == ScopesIInv => AnalysisVerdictIsRight
BY DEF ScopesIInv, SeenInv, ErrorsInv, Checked, AnalysisVerdictIsRight,
       AcceptedIsChecked, AnalysisFailureIsReported

(* The list of parents, which a case asks for its match expression and the *)
(* pattern of a case for the case, is the way to the node: analyzer.c      *)
(* pushes and pops it in callbacks of two walks, one of which goes on      *)
(* after a failure without the pop.                                        *)
THEOREM ParentsAreRight == SSpec => []ParentsFollowPath
<1>1. SInit => ScopesIInv
  BY StartIsSound
<1>2. ScopesIInv /\ [SNext]_svars => ScopesIInv'
  BY ScopesInductive
<1>3. ScopesIInv => ParentsFollowPath
  BY ParentsAreTheWay
<1> QED
  BY <1>1, <1>2, <1>3, PTL DEF SSpec

(* In a program that was accepted every name and every return statement of *)
(* every module was looked at, and no error is known; one that is refused  *)
(* has an error of the module it was refused at.                           *)
THEOREM VerdictIsSound == SSpec => []AnalysisVerdictIsRight
<1>1. SInit => ScopesIInv
  BY StartIsSound
<1>2. ScopesIInv /\ [SNext]_svars => ScopesIInv'
  BY ScopesInductive
<1>3. ScopesIInv => AnalysisVerdictIsRight
  BY VerdictsAreRight
<1> QED
  BY <1>1, <1>2, <1>3, PTL DEF SSpec

-----------------------------------------------------------------------------
(* The tables.                                                             *)

(* The nodes with a table of their own, those with the table of their      *)
(* first child, and those whose table is the current one in their child i. *)
Own == {"module", "block", "for", "typedesc", "fndecl"}
Lent == {"fnimpl", "case"}
Holds(n, q, i) ==
    \/ Kind(n, q) \in Own \cup {"root"}
    \/ Kind(n, q) \in Lent /\ i # 1

(* The table that is current where the walk comes to a place, and the      *)
(* function that table belongs to.                                         *)
NextStep(p, q) == p[Len(q) + 1]
Holders(n, p) == {q \in Beginnings(p) \ {p} : Holds(n, q, NextStep(p, q))}
Outer(n, p) ==
    IF p = <<>> THEN FileTable(n) ELSE TableOf(n, Longest(Holders(n, p)))

HoldsFn(n, q, i) ==
    \/ Kind(n, q) = "fndecl"
    \/ Kind(n, q) = "fnimpl" /\ i # 1
FnHolders(n, p) == {q \in Beginnings(p) \ {p} : HoldsFn(n, q, NextStep(p, q))}
FnAt(n, q) == IF Kind(n, q) = "fndecl" THEN <<n, q>> ELSE <<n, Append(q, 1)>>
FnSeen(n, p) ==
    IF FnHolders(n, p) = {} THEN NoWhere
    ELSE FnAt(n, Longest(FnHolders(n, p)))

(* The table that is current where the walk leaves a place.                *)
Inner(n, p) ==
    IF Kind(n, p) \in Own \cup Lent \cup {"root"} THEN TableOf(n, p)
    ELSE Outer(n, p)

(* The places whose table was made: all of the module in the second walk,  *)
(* in the first one those behind and those around.                         *)
Entered(p) ==
    \/ stage = "check"
    \/ Behind(p)
    \/ p \in Beginnings(at) /\ (p # at \/ dir = "up")

(* The tables are tables, each of the module of its node, and those of     *)
(* each file and module are there.                                         *)
IsTable(t) == t = [parent |-> t.parent, mod |-> t.mod, fndecl |-> t.fndecl,
                   recs |-> t.recs]
AreTables(ts) ==
    /\ ts = [t \in DOMAIN ts |-> ts[t]]
    /\ \A t \in DOMAIN ts : IsTable(ts[t])
    /\ \A t \in DOMAIN ts : ts[t].mod = t[1]

(* Each record is of a declaration of its name.                            *)
AreNamed(ts) ==
    \A t \in DOMAIN ts : \A name \in DOMAIN ts[t].recs :
        LET by == ts[t].recs[name].by
        IN  Node(by[1], by[2]).name = name

StoreInv ==
    /\ AreTables(tables) /\ AreNamed(tables)
    /\ \A n \in DOMAIN prog :
        /\ {FileTable(n), ModuleTable(n)} \subseteq DOMAIN tables
        /\ tables[FileTable(n)].parent = NoTable
        /\ tables[FileTable(n)].fndecl = NoWhere

(* A table hangs under the one that was current where it was made.         *)
HungInv ==
    Walking =>
        \A q \in Paths(m) : Kind(m, q) \in Own /\ Entered(q) =>
            /\ <<m, q>> \in DOMAIN tables
            /\ tables[<<m, q>>].parent = Outer(m, q)
            /\ tables[<<m, q>>].fndecl =
                    IF Kind(m, q) = "fndecl" THEN <<m, q>> ELSE FnSeen(m, q)

(* The current table.                                                      *)
CurInv ==
    /\ cur \in DOMAIN tables \cup {NoTable}
    /\ Walking /\ dir = "up" => cur = Inner(m, at)
    /\ stage = "declare" /\ dir = "down" => cur = Outer(m, at)
    /\ stage = "check" /\ dir = "down" =>
        cur = Outer(m, at) \/ at = <<>> \/ Kind(m, at) \in {"fndecl", "typedesc"}

(* A pattern and its names find the case in the list of parents.           *)
PatternInv ==
    Walking =>
        LET own == IF dir = "up" THEN 1 ELSE 0
        IN  /\ Kind(m, at) = "typedesc" =>
                parents[Len(parents) - own] = Above(at)
            /\ at # <<>> /\ Kind(m, Above(at)) = "typedesc" =>
                parents[Len(parents) - own - 1] = Above(Above(at))

(* What a return statement found.                                          *)
ReturnInv ==
    \A w \in DOMAIN found :
        Kind(w[1], w[2]) = "return" => found[w].by = FunctionAround(w[1], w[2])

TablesIInv == StoreInv /\ HungInv /\ CurInv /\ PatternInv /\ ReturnInv

-----------------------------------------------------------------------------
(* Numbers.                                                                *)

LEMMA EveryNumber ==
    ASSUME NEW S \in SUBSET Nat, 0 \in S, \A n \in S : n + 1 \in S
    PROVE  S = Nat
<1> SUFFICES ASSUME S # Nat PROVE FALSE
  OBVIOUS
<1> DEFINE T == Nat \ S
<1>1. T \in SUBSET Nat /\ T # {}
  OBVIOUS
<1>2. PICK n \in T : \A k \in T : n <= k
  BY <1>1, LeastNumber
<1>3. n \in Nat /\ n # 0
  OBVIOUS
<1>4. n - 1 \in Nat /\ ~(n <= n - 1) /\ (n - 1) + 1 = n
  BY <1>3
<1>5. n - 1 \in S
  BY <1>2, <1>4
<1> QED
  BY <1>4, <1>5

-----------------------------------------------------------------------------
(* The node at a path is reached by a run over its steps.                  *)

IsRun(f, tree, p) ==
    f = [k \in 0..Len(p) |-> IF k = 0 THEN tree ELSE f[k - 1].ch[p[k]]]

LEMMA RunIs ==
    ASSUME NEW f, NEW tree, NEW p \in Seq(Nat), IsRun(f, tree, p)
    PROVE  /\ f[0] = tree
           /\ \A k \in 1..Len(p) : f[k] = f[k - 1].ch[p[k]]
<1>1. Len(p) \in Nat /\ 0 \in 0..Len(p)
  OBVIOUS
<1> DEFINE g == [k \in 0..Len(p) |-> IF k = 0 THEN tree ELSE f[k - 1].ch[p[k]]]
<1>2. f = g
  BY DEF IsRun
<1>3. g[0] = tree
  BY <1>1
<1>4. \A k \in 1..Len(p) : g[k] = f[k - 1].ch[p[k]]
  BY <1>1
<1> HIDE DEF g
<1> QED
  BY <1>2, <1>3, <1>4

LEMMA RunsExist ==
    ASSUME NEW tree, NEW p \in Seq(Nat)
    PROVE  \E f : IsRun(f, tree, p)
<1> DEFINE To(n) == \A q \in Seq(Nat) : Len(q) = n => \E f : IsRun(f, tree, q)
           S == {n \in Nat : To(n)}
<1>1. 0 \in S
  <2> SUFFICES ASSUME NEW q \in Seq(Nat), Len(q) = 0 PROVE \E f : IsRun(f, tree, q)
    OBVIOUS
  <2> DEFINE f == [k \in 0..0 |-> tree]
  <2>1. f = [k \in 0..0 |-> IF k = 0 THEN tree ELSE f[k - 1].ch[q[k]]]
    OBVIOUS
  <2>2. IsRun(f, tree, q)
    BY <2>1 DEF IsRun
  <2> QED
    BY <2>2
<1>2. ASSUME NEW n \in S PROVE n + 1 \in S
  <2> SUFFICES ASSUME NEW q \in Seq(Nat), Len(q) = n + 1
               PROVE  \E f : IsRun(f, tree, q)
    OBVIOUS
  <2> DEFINE b == SubSeq(q, 1, n)
  <2>1. n \in 0..Len(q) /\ n \in Nat
    OBVIOUS
  <2>2. b \in Seq(Nat) /\ Len(b) = n /\ \A j \in 1..n : b[j] = q[j]
    BY <2>1, Beginning
  <2> HIDE DEF b
  <2>3. PICK f : IsRun(f, tree, b)
    BY <2>2
  <2>4. f[0] = tree /\ \A k \in 1..n : f[k] = f[k - 1].ch[q[k]]
    <3>1. f[0] = tree /\ \A k \in 1..Len(b) : f[k] = f[k - 1].ch[b[k]]
      <4>1. IsRun(f, tree, b)
        BY <2>3
      <4>2. b \in Seq(Nat)
        BY <2>2
      <4>3. f[0] = tree
        BY <4>1, <4>2, RunIs, Zenon
      <4>4. \A k \in 1..Len(b) : f[k] = f[k - 1].ch[b[k]]
        BY <4>1, <4>2, RunIs, ZenonT(40)
      <4> QED
        BY <4>3, <4>4
    <3> QED
      BY <2>2, <3>1
  <2> DEFINE g == [k \in 0..n + 1 |->
                     IF k = n + 1 THEN f[n].ch[q[n + 1]] ELSE f[k]]
             h == [k \in 0..n + 1 |->
                     IF k = 0 THEN tree ELSE g[k - 1].ch[q[k]]]
  <2>5. ASSUME NEW k \in 0..n + 1 PROVE g[k] = h[k]
    <3>1. CASE k = n + 1
      <4>1. k - 1 = n /\ k # 0 /\ n \in 0..n + 1 /\ n # n + 1
        BY <2>1, <3>1
      <4> QED
        BY <3>1, <4>1
    <3>2. CASE k # n + 1 /\ k # 0
      <4>1. k \in 1..n /\ k - 1 \in 0..n + 1 /\ k - 1 # n + 1
        BY <2>1, <3>2
      <4>2. f[k] = f[k - 1].ch[q[k]]
        BY <2>4, <4>1
      <4> QED
        BY <3>2, <4>1, <4>2
    <3>3. CASE k = 0
      <4>1. k # n + 1
        BY <2>1, <3>3
      <4> QED
        BY <2>4, <3>3, <4>1
    <3> QED
      BY <3>1, <3>2, <3>3
  <2>6. g = h
    BY <2>5
  <2>7. IsRun(g, tree, q)
    BY <2>6 DEF IsRun
  <2> QED
    BY <2>7
<1>3. S = Nat
  <2> HIDE DEF To
  <2> QED
    BY <1>1, <1>2, EveryNumber
<1> QED
  BY <1>3

AgreeTo(p, q, n) == n <= Len(p) /\ n <= Len(q) /\ \A j \in 1..n : p[j] = q[j]

LEMMA RunsAgree ==
    ASSUME NEW tree, NEW p \in Seq(Nat), NEW q \in Seq(Nat), NEW f, NEW g,
           NEW n \in Nat, IsRun(f, tree, p), IsRun(g, tree, q), AgreeTo(p, q, n)
    PROVE  f[n] = g[n]
<1>0. n <= Len(p) /\ n <= Len(q) /\ \A j \in 1..n : p[j] = q[j]
  BY DEF AgreeTo
<1> DEFINE S == {k \in Nat : k <= n => f[k] = g[k]}
<1>1. 0 \in S
  BY RunIs
<1>2. ASSUME NEW k \in S PROVE k + 1 \in S
  <2> SUFFICES ASSUME k + 1 <= n PROVE f[k + 1] = g[k + 1]
    OBVIOUS
  <2>1. f[k] = g[k] /\ k + 1 \in 1..Len(p) /\ k + 1 \in 1..Len(q)
        /\ k + 1 \in 1..n /\ (k + 1) - 1 = k
    BY <1>0
  <2>2. f[k + 1] = f[(k + 1) - 1].ch[p[k + 1]] /\ g[k + 1] = g[(k + 1) - 1].ch[q[k + 1]]
    BY <2>1, RunIs
  <2> QED
    BY <1>0, <2>1, <2>2
<1>3. S = Nat
  BY <1>1, <1>2, EveryNumber
<1> QED
  BY <1>3

LEMMA NodeIsRun ==
    ASSUME NEW tree, NEW p \in Seq(Nat)
    PROVE  \E f : IsRun(f, tree, p) /\ NodeOf(tree, p) = f[Len(p)]
<1> DEFINE node == CHOOSE f : IsRun(f, tree, p)
<1>1. NodeOf(tree, p) = node[Len(p)]
  BY DEF NodeOf, IsRun
<1>2. IsRun(node, tree, p)
  BY RunsExist
<1> QED
  BY <1>1, <1>2

(* A child of a node is what stands in its list of children.               *)
LEMMA NodeBelow ==
    ASSUME NEW tree, NEW p \in Seq(Nat), NEW i \in Nat
    PROVE  NodeOf(tree, Append(p, i)) = NodeOf(tree, p).ch[i]
<1>1. PICK a \in Seq(Nat) :
        /\ a = Append(p, i) /\ Len(a) = Len(p) + 1 /\ a[Len(p) + 1] = i
        /\ \A j \in 1..Len(p) : a[j] = p[j]
  BY OneStepOn
<1>2. PICK f : IsRun(f, tree, p) /\ NodeOf(tree, p) = f[Len(p)]
  BY NodeIsRun
<1>3. PICK g : IsRun(g, tree, a) /\ NodeOf(tree, a) = g[Len(a)]
  BY NodeIsRun
<1>4. Len(p) \in Nat /\ Len(p) <= Len(a)
  BY <1>1
<1>5. f[Len(p)] = g[Len(p)]
  <2>1. PICK n \in Nat : n = Len(p)
    BY <1>4
  <2>2. AgreeTo(p, a, n)
    BY <1>1, <1>4, <2>1 DEF AgreeTo
  <2>3. IsRun(f, tree, p)
    BY <1>2
  <2>4. IsRun(g, tree, a)
    BY <1>3
  <2>5. f[n] = g[n]
    BY <2>2, <2>3, <2>4, RunsAgree
  <2> QED
    BY <2>1, <2>5
<1>6. Len(a) \in 1..Len(a) /\ Len(a) - 1 = Len(p)
  BY <1>1, <1>4
<1>7. g[Len(a)] = g[Len(a) - 1].ch[a[Len(a)]]
  BY <1>3, <1>6, RunIs
<1> QED
  BY <1>1, <1>2, <1>3, <1>5, <1>6, <1>7

-----------------------------------------------------------------------------
(* The beginnings of a path.                                               *)

LEMMA BeginningsAre ==
    ASSUME NEW p \in Seq(Nat), NEW q
    PROVE  q \in Beginnings(p) <=>
            q \in Seq(Nat) /\ Len(q) <= Len(p) /\ \A j \in 1..Len(q) : q[j] = p[j]
<1>1. ASSUME q \in Beginnings(p)
      PROVE  q \in Seq(Nat) /\ Len(q) <= Len(p) /\ \A j \in 1..Len(q) : q[j] = p[j]
  <2>1. PICK k \in 0..Len(p) : q = SubSeq(p, 1, k)
    BY <1>1 DEF Beginnings
  <2>2. q \in Seq(Nat) /\ Len(q) = k /\ \A j \in 1..k : q[j] = p[j]
    BY <2>1, Beginning
  <2> QED
    BY <2>2
<1>2. ASSUME q \in Seq(Nat), Len(q) <= Len(p), \A j \in 1..Len(q) : q[j] = p[j]
      PROVE  q \in Beginnings(p)
  <2> DEFINE b == SubSeq(p, 1, Len(q))
  <2>1. Len(q) \in 0..Len(p)
    BY <1>2
  <2>2. b \in Seq(Nat) /\ Len(b) = Len(q) /\ \A j \in 1..Len(q) : b[j] = p[j]
    BY <2>1, Beginning
  <2>3. b \in Beginnings(p)
    BY <2>1 DEF Beginnings
  <2> HIDE DEF b
  <2>4. b = q
    BY <1>2, <2>2, SamePath
  <2> QED
    BY <2>3, <2>4
<1> QED
  BY <1>1, <1>2

LEMMA BeginningsNest ==
    ASSUME NEW p \in Seq(Nat)
    PROVE  /\ p \in Beginnings(p) /\ <<>> \in Beginnings(p)
           /\ \A q \in Beginnings(p) :
                /\ q \in Seq(Nat) /\ Len(q) \in Nat /\ Len(q) <= Len(p)
                /\ q # p => Len(q) < Len(p)
                /\ \A r \in Beginnings(p) :
                    /\ Len(r) <= Len(q) => r \in Beginnings(q)
                    /\ Len(r) = Len(q) => r = q
                /\ Beginnings(q) \subseteq Beginnings(p)
<1>1. p \in Beginnings(p)
  BY BeginningsAre
<1>2. PICK e \in Seq(Nat) : e = <<>> /\ Len(e) = 0
  <2>1. <<>> \in Seq(Nat) /\ Len(<<>>) = 0
    OBVIOUS
  <2> QED
    BY <2>1
<1>3. e \in Beginnings(p)
  <2>1. Len(e) <= Len(p)
    BY <1>2
  <2>2. \A j \in 1..Len(e) : e[j] = p[j]
    <3>1. 1..Len(e) = {}
      BY <1>2
    <3> QED
      BY <3>1
  <2> QED
    BY <2>1, <2>2, BeginningsAre
<1>4. ASSUME NEW q \in Beginnings(p)
      PROVE  /\ q \in Seq(Nat) /\ Len(q) \in Nat /\ Len(q) <= Len(p)
             /\ q # p => Len(q) < Len(p)
             /\ \A r \in Beginnings(p) :
                  /\ Len(r) <= Len(q) => r \in Beginnings(q)
                  /\ Len(r) = Len(q) => r = q
             /\ Beginnings(q) \subseteq Beginnings(p)
  <2>1. q \in Seq(Nat) /\ Len(q) <= Len(p) /\ \A j \in 1..Len(q) : q[j] = p[j]
    BY BeginningsAre
  <2>2. Len(q) \in Nat /\ Len(p) \in Nat
    BY <2>1
  <2>3. ASSUME q # p PROVE Len(q) < Len(p)
    <3>1. Len(q) # Len(p)
      BY <2>1, <2>3, SamePath
    <3> QED
      BY <2>1, <2>2, <3>1
  <2>4. ASSUME NEW r \in Beginnings(p)
        PROVE  /\ Len(r) <= Len(q) => r \in Beginnings(q)
               /\ Len(r) = Len(q) => r = q
    <3>1. r \in Seq(Nat) /\ Len(r) <= Len(p) /\ \A j \in 1..Len(r) : r[j] = p[j]
      BY BeginningsAre
    <3>2. Len(r) \in Nat
      BY <3>1
    <3>3. ASSUME Len(r) <= Len(q) PROVE \A j \in 1..Len(r) : r[j] = q[j]
      BY <2>1, <2>2, <3>1, <3>2, <3>3
    <3>4. ASSUME Len(r) <= Len(q) PROVE r \in Beginnings(q)
      BY <2>1, <3>1, <3>3, <3>4, BeginningsAre
    <3>5. ASSUME Len(r) = Len(q) PROVE r = q
      BY <2>1, <2>2, <3>1, <3>3, <3>5, SamePath
    <3> QED
      BY <3>4, <3>5
  <2>5. ASSUME NEW r \in Beginnings(q) PROVE r \in Beginnings(p)
    <3>1. r \in Seq(Nat) /\ Len(r) <= Len(q) /\ \A j \in 1..Len(r) : r[j] = q[j]
      BY <2>1, BeginningsAre
    <3>2. Len(r) \in Nat
      BY <3>1
    <3>3. Len(r) <= Len(p) /\ \A j \in 1..Len(r) : r[j] = p[j]
      BY <2>1, <2>2, <3>1, <3>2
    <3> QED
      BY <3>1, <3>3, BeginningsAre
  <2> QED
    BY <2>1, <2>2, <2>3, <2>4, <2>5
<1> QED
  BY <1>1, <1>2, <1>3, <1>4

(* Of some beginnings of a path one is the longest.                        *)
LEMMA LongestIs ==
    ASSUME NEW p \in Seq(Nat), NEW S \in SUBSET Beginnings(p), S # {}
    PROVE  Longest(S) \in S /\ \A r \in S : Len(r) <= Len(Longest(S))
<1> DEFINE T == {n \in Nat : \E r \in S : n = Len(p) - Len(r)}
<1>1. ASSUME NEW r \in S PROVE Len(r) \in Nat /\ Len(p) - Len(r) \in T
  <2>1. Len(r) \in Nat /\ Len(r) <= Len(p) /\ Len(p) \in Nat
    BY BeginningsNest
  <2>2. Len(p) - Len(r) \in Nat
    BY <2>1
  <2> QED
    BY <2>1, <2>2
<1>2. T # {}
  BY <1>1
<1>3. PICK n \in T : \A k \in T : n <= k
  BY <1>2, LeastNumber
<1>4. PICK q \in S : n = Len(p) - Len(q)
  OBVIOUS
<1>5. ASSUME NEW r \in S PROVE Len(r) <= Len(q)
  <2>1. n <= Len(p) - Len(r)
    BY <1>1, <1>3
  <2>2. Len(r) \in Nat /\ Len(q) \in Nat /\ Len(p) \in Nat
    BY <1>1
  <2> HIDE DEF T
  <2> QED
    BY <1>4, <2>1, <2>2
<1>6. \E x \in S : \A r \in S : Len(r) <= Len(x)
  BY <1>5
<1> QED
  BY <1>6 DEF Longest

LEMMA LongestOf ==
    ASSUME NEW p \in Seq(Nat), NEW S \in SUBSET Beginnings(p), NEW q \in S,
           \A r \in S : Len(r) <= Len(q)
    PROVE  Longest(S) = q
<1>1. Longest(S) \in S /\ Len(q) <= Len(Longest(S))
  BY LongestIs
<1>2. Len(Longest(S)) <= Len(q)
  BY <1>1
<1>3. Longest(S) \in Beginnings(p) /\ q \in Beginnings(p)
  BY <1>1
<1>4. Len(Longest(S)) \in Nat /\ Len(q) \in Nat
  BY <1>3, BeginningsNest
<1>5. Len(Longest(S)) = Len(q)
  BY <1>1, <1>2, <1>4
<1> QED
  BY <1>3, <1>5, BeginningsNest

(* A path that was gone one step on.                                       *)
LEMMA BeginningsOfChild ==
    ASSUME NEW p \in Seq(Nat), NEW i \in Nat
    PROVE  /\ Append(p, i) \in Seq(Nat) /\ Append(p, i) # <<>>
           /\ Front(Append(p, i)) = p /\ Last(Append(p, i)) = i
           /\ Append(p, i) \notin Beginnings(p)
           /\ Beginnings(Append(p, i)) = Beginnings(p) \cup {Append(p, i)}
           /\ NextStep(Append(p, i), p) = i
           /\ \A q \in Beginnings(p) \ {p} :
                NextStep(Append(p, i), q) = NextStep(p, q)
<1>1. PICK a \in Seq(Nat) :
        /\ a = Append(p, i) /\ Len(a) = Len(p) + 1 /\ a[Len(p) + 1] = i
        /\ \A j \in 1..Len(p) : a[j] = p[j]
  BY OneStepOn
<1>2. Len(p) \in Nat /\ a # <<>>
  BY <1>1
<1>3. Front(a) = p /\ Last(a) = i
  <2>0. Len(a) # 0
    BY <1>1, <1>2
  <2>1. Front(a) \in Seq(Nat) /\ Len(Front(a)) = Len(a) - 1
    BY <2>0, FrontOfASeq
  <2>2. \A j \in 1..Len(p) : Front(a)[j] = p[j]
    BY <1>1, <1>2 DEF Front
  <2>3. Len(Front(a)) = Len(p)
    BY <1>1, <1>2, <2>1
  <2>4. Front(a) = p
    BY <2>1, <2>2, <2>3, SamePath
  <2> QED
    BY <1>1, <2>4 DEF Last
<1>4. ASSUME NEW q \in Beginnings(p) PROVE Len(q) \in Nat /\ Len(q) <= Len(p)
  BY BeginningsNest
<1>5. a \notin Beginnings(p)
  <2> SUFFICES ASSUME a \in Beginnings(p) PROVE FALSE
    OBVIOUS
  <2>1. Len(a) <= Len(p)
    BY <1>4
  <2> QED
    BY <1>1, <1>2, <2>1
<1>6. ASSUME NEW q \in Beginnings(a), q # a PROVE q \in Beginnings(p)
  <2>1. q \in Seq(Nat) /\ Len(q) \in Nat /\ Len(q) < Len(a)
    BY <1>6, BeginningsNest
  <2>2. \A j \in 1..Len(q) : q[j] = a[j]
    BY BeginningsAre
  <2>3. Len(q) <= Len(p) /\ \A j \in 1..Len(q) : q[j] = p[j]
    BY <1>1, <1>2, <2>1, <2>2
  <2> QED
    BY <2>1, <2>3, BeginningsAre
<1>7. p \in Beginnings(a)
  <2>1. Len(p) <= Len(a) /\ \A j \in 1..Len(p) : p[j] = a[j]
    BY <1>1, <1>2
  <2> QED
    BY <2>1, BeginningsAre
<1>8. Beginnings(p) \subseteq Beginnings(a) /\ a \in Beginnings(a)
  BY <1>7, BeginningsNest
<1>9. Beginnings(a) = Beginnings(p) \cup {a}
  BY <1>6, <1>8
<1>10. ASSUME NEW q \in Beginnings(p) \ {p} PROVE NextStep(a, q) = NextStep(p, q)
  <2>1. Len(q) \in Nat /\ Len(q) < Len(p)
    BY BeginningsNest
  <2>2. Len(q) + 1 \in 1..Len(p)
    BY <1>2, <2>1
  <2> QED
    BY <1>1, <2>2 DEF NextStep
<1>11. NextStep(a, p) = i
  BY <1>1 DEF NextStep
<1> QED
  BY <1>1, <1>2, <1>3, <1>5, <1>9, <1>10, <1>11

-----------------------------------------------------------------------------
(* What is current one step on.                                            *)

LEMMA HoldersOfChild ==
    ASSUME NEW n, NEW p \in Seq(Nat), NEW i \in Nat
    PROVE  /\ \A q : q \in Holders(n, Append(p, i)) <=>
                    q \in Holders(n, p) \/ (q = p /\ Holds(n, p, i))
           /\ \A q : q \in FnHolders(n, Append(p, i)) <=>
                    q \in FnHolders(n, p) \/ (q = p /\ HoldsFn(n, p, i))
           /\ Holders(n, p) \subseteq Beginnings(p) \ {p}
           /\ FnHolders(n, p) \subseteq Beginnings(p) \ {p}
<1> DEFINE a == Append(p, i)
<1>1. /\ a \notin Beginnings(p) /\ Beginnings(a) = Beginnings(p) \cup {a}
      /\ NextStep(a, p) = i
      /\ \A q \in Beginnings(p) \ {p} : NextStep(a, q) = NextStep(p, q)
  BY BeginningsOfChild
<1>2. p \in Beginnings(p)
  BY BeginningsNest
<1> HIDE DEF a
<1>3. ASSUME NEW q
      PROVE  /\ q \in Holders(n, a) <=>
                    q \in Holders(n, p) \/ (q = p /\ Holds(n, p, i))
             /\ q \in FnHolders(n, a) <=>
                    q \in FnHolders(n, p) \/ (q = p /\ HoldsFn(n, p, i))
  <2>1. q \in Beginnings(a) \ {a} <=> q \in Beginnings(p)
    BY <1>1
  <2>2. CASE q = p
    BY <1>1, <1>2, <2>1, <2>2 DEF Holders, FnHolders
  <2>3. CASE q # p
    BY <1>1, <2>1, <2>3 DEF Holders, FnHolders
  <2> QED
    BY <2>2, <2>3
<1>4. /\ Holders(n, p) \subseteq Beginnings(p) \ {p}
      /\ FnHolders(n, p) \subseteq Beginnings(p) \ {p}
  BY DEF Holders, FnHolders
<1> QED
  BY <1>3, <1>4 DEF a

(* The longest of some beginnings and of the path itself.                  *)
LEMMA LongestWithPath ==
    ASSUME NEW p \in Seq(Nat), NEW S, NEW T, S \subseteq Beginnings(p),
           \A q : q \in T <=> q \in S \/ q = p
    PROVE  T # {} /\ Longest(T) = p
<1>1. p \in Beginnings(p) /\ \A q \in Beginnings(p) : Len(q) <= Len(p)
  BY BeginningsNest
<1>2. T \in SUBSET Beginnings(p) /\ p \in T
  BY <1>1
<1>3. \A r \in T : Len(r) <= Len(p)
  BY <1>1, <1>2
<1> QED
  BY <1>2, <1>3, LongestOf

LEMMA OuterOfChild ==
    ASSUME NEW n, NEW p \in Seq(Nat), NEW i \in Nat,
           Kind(n, <<>>) \in {"root", "module"}
    PROVE  Outer(n, Append(p, i)) =
                IF Holds(n, p, i) THEN TableOf(n, p) ELSE Outer(n, p)
<1> DEFINE a == Append(p, i)
<1>1. a # <<>>
  BY BeginningsOfChild
<1>2. /\ \A q : q \in Holders(n, a) <=>
                    q \in Holders(n, p) \/ (q = p /\ Holds(n, p, i))
      /\ Holders(n, p) \subseteq Beginnings(p)
  BY HoldersOfChild
<1> HIDE DEF a
<1>3. Outer(n, a) = TableOf(n, Longest(Holders(n, a)))
  BY <1>1 DEF Outer
<1>4. CASE Holds(n, p, i)
  <2>1. \A q : q \in Holders(n, a) <=> q \in Holders(n, p) \/ q = p
    BY <1>2, <1>4
  <2>2. Longest(Holders(n, a)) = p
    BY <1>2, <2>1, LongestWithPath
  <2> QED
    BY <1>3, <1>4, <2>2 DEF a
<1>5. CASE ~Holds(n, p, i)
  <2>1. p # <<>>
    BY <1>5 DEF Holds, Own
  <2>2. Holders(n, a) = Holders(n, p)
    BY <1>2, <1>5
  <2>3. Outer(n, p) = TableOf(n, Longest(Holders(n, p)))
    BY <2>1 DEF Outer
  <2> QED
    BY <1>3, <1>5, <2>2, <2>3 DEF a
<1> QED
  BY <1>4, <1>5

LEMMA FnSeenOfChild ==
    ASSUME NEW n, NEW p \in Seq(Nat), NEW i \in Nat
    PROVE  FnSeen(n, Append(p, i)) =
                IF HoldsFn(n, p, i) THEN FnAt(n, p) ELSE FnSeen(n, p)
<1> DEFINE a == Append(p, i)
<1>1. /\ \A q : q \in FnHolders(n, a) <=>
                    q \in FnHolders(n, p) \/ (q = p /\ HoldsFn(n, p, i))
      /\ FnHolders(n, p) \subseteq Beginnings(p)
  BY HoldersOfChild
<1> HIDE DEF a
<1>2. CASE HoldsFn(n, p, i)
  <2>1. \A q : q \in FnHolders(n, a) <=> q \in FnHolders(n, p) \/ q = p
    BY <1>1, <1>2
  <2>2. FnHolders(n, a) # {} /\ Longest(FnHolders(n, a)) = p
    BY <1>1, <2>1, LongestWithPath
  <2> QED
    BY <1>2, <2>2 DEF FnSeen, a
<1>3. CASE ~HoldsFn(n, p, i)
  <2>1. FnHolders(n, a) = FnHolders(n, p)
    BY <1>1, <1>3
  <2> QED
    BY <1>3, <2>1 DEF FnSeen, a
<1> QED
  BY <1>2, <1>3

(* At the root: the table of the file, and no function.                    *)
LEMMA BeginningsOfRoot == Beginnings(<<>>) = {<<>>}
<1>1. PICK e \in Seq(Nat) : e = <<>> /\ Len(e) = 0
  <2>1. <<>> \in Seq(Nat) /\ Len(<<>>) = 0
    OBVIOUS
  <2> QED
    BY <2>1
<1>2. e \in Beginnings(e)
  BY BeginningsNest
<1>3. ASSUME NEW q \in Beginnings(e) PROVE q = e
  <2>1. Len(q) \in Nat /\ Len(q) <= Len(e) /\ (q # e => Len(q) < Len(e))
    BY BeginningsNest
  <2> QED
    BY <1>1, <2>1
<1> QED
  BY <1>1, <1>2, <1>3

LEMMA NothingAboveRoot ==
    ASSUME NEW n
    PROVE  Outer(n, <<>>) = FileTable(n) /\ FnSeen(n, <<>>) = NoWhere
<1>1. FnHolders(n, <<>>) = {}
  BY BeginningsOfRoot DEF FnHolders
<1> QED
  BY <1>1 DEF Outer, FnSeen

(* A beginning that is not the whole path goes on to a longer one.         *)
LEMMA StepOn ==
    ASSUME NEW tree, MaxDepth \in Nat, NEW p \in PathsOf(tree),
           NEW q \in Beginnings(p), q # p
    PROVE  /\ q \in PathsOf(tree) /\ q \in Seq(Nat)
           /\ NextStep(p, q) \in Kids(tree, q) /\ NextStep(p, q) \in Nat \ {0}
           /\ Append(q, NextStep(p, q)) \in Beginnings(p)
<1>1. /\ p \in Seq(Nat) /\ Len(p) \in Nat
      /\ \A k \in 0..(Len(p) - 1) : p[k + 1] \in Kids(tree, SubSeq(p, 1, k))
      /\ \A k \in 1..Len(p) : p[k] \in Nat \ {0}
  BY StepsOfAPath
<1>2. q \in Seq(Nat) /\ Len(q) \in Nat /\ Len(q) < Len(p)
  BY <1>1, BeginningsNest
<1>3. \A j \in 1..Len(q) : q[j] = p[j]
  BY <1>1, BeginningsAre
<1>4. PICK k \in 0..Len(p) : q = SubSeq(p, 1, k)
  BY DEF Beginnings
<1>5. Len(q) = k
  <2>1. Len(SubSeq(p, 1, k)) = k
    BY <1>1, Beginning
  <2> QED
    BY <1>4, <2>1
<1>6. q \in PathsOf(tree)
  BY <1>4, BeginningIsAPath
<1>7. k \in 0..(Len(p) - 1) /\ k + 1 \in 1..Len(p)
  BY <1>1, <1>2, <1>5
<1>8. NextStep(p, q) = p[k + 1]
  BY <1>5 DEF NextStep
<1>9. NextStep(p, q) \in Kids(tree, q) /\ NextStep(p, q) \in Nat \ {0}
  BY <1>1, <1>4, <1>7, <1>8
<1>10. PICK a \in Seq(Nat) :
        /\ a = Append(q, NextStep(p, q)) /\ Len(a) = Len(q) + 1
        /\ a[Len(q) + 1] = NextStep(p, q) /\ \A j \in 1..Len(q) : a[j] = q[j]
  BY <1>2, <1>9, OneStepOn
<1>11. Len(a) <= Len(p)
  BY <1>1, <1>2, <1>10
<1>12. \A j \in 1..Len(a) : j \in 1..Len(q) \/ j = Len(q) + 1
  BY <1>2, <1>10
<1>13. \A j \in 1..Len(a) : a[j] = p[j]
  BY <1>3, <1>5, <1>8, <1>10, <1>12
<1>14. a \in Beginnings(p)
  BY <1>1, <1>11, <1>13, BeginningsAre
<1> QED
  BY <1>2, <1>6, <1>9, <1>10, <1>14

-----------------------------------------------------------------------------
(* The trees of a program are what the parser hands over.                  *)

LEMMA SourceTree ==
    ASSUME prog \in Programs, NEW n \in DOMAIN prog
    PROVE  /\ MaxDepth \in Nat /\ IsTree(prog[n].tree) /\ IsSource(prog[n].tree)
           /\ <<>> \in Paths(n) /\ Kind(n, <<>>) \in {"root", "module"}
           /\ Paths(n) = PathsOf(prog[n].tree)
<1>1. MaxDepth \in Nat /\ IsTree(prog[n].tree) /\ IsSource(prog[n].tree)
  BY ProgramsAreTrees
<1>2. <<>> \in PathsOf(prog[n].tree)
  BY <1>1, RootIsAPath
<1>3. NodeOf(prog[n].tree, <<>>).k \in {"root", "module"}
  BY <1>1, <1>2 DEF IsSource
<1> QED
  BY <1>1, <1>2, <1>3 DEF Paths, Kind, Node

LEMMA NodeHere ==
    ASSUME prog \in Programs, NEW n \in DOMAIN prog, NEW p \in Paths(n)
    PROVE  /\ p \in Seq(Nat) /\ Len(p) \in Nat
           /\ Kind(n, p) \in {"root", "module"} <=> p = <<>>
           /\ Kind(n, p) \in {"fnimpl", "fndecl", "case", "vardecl", "for"}
                => 1 \in Kids(prog[n].tree, p)
           /\ Kind(n, p) \in {"leaf", "xid", "loopvar", "iter"}
                => Kids(prog[n].tree, p) = {}
           /\ Kind(n, p) = "fndecl" => Node(n, p).ty \in {"impl", "foreign"}
<1> DEFINE tree == prog[n].tree
<1>1. MaxDepth \in Nat /\ IsTree(tree) /\ IsSource(tree) /\ p \in PathsOf(tree)
  BY SourceTree
<1>2. p \in Seq(Nat) /\ Len(p) \in Nat
  BY <1>1, StepsOfAPath
<1> DEFINE ch == NodeOf(tree, p).ch
<1>3. Len(ch) \in Nat /\ (ch = <<>> <=> Len(ch) = 0)
  BY <1>1, ChildrenOfANode
<1>4. /\ NodeOf(tree, p).k \in {"root", "module"} <=> p = <<>>
      /\ NodeOf(tree, p).k \in {"fnimpl", "fndecl", "case", "vardecl", "for"}
            => ch # <<>>
      /\ NodeOf(tree, p).k \in {"leaf", "xid", "loopvar", "iter"} => ch = <<>>
      /\ NodeOf(tree, p).k = "fndecl" => NodeOf(tree, p).ty \in {"impl", "foreign"}
  BY <1>1 DEF IsSource
<1>5. /\ Kind(n, p) = NodeOf(tree, p).k /\ Node(n, p).ty = NodeOf(tree, p).ty
      /\ Kids(tree, p) = 1..Len(ch)
  BY DEF Kind, Node, Kids
<1> HIDE DEF ch, tree
<1>6. ch # <<>> => 1 \in 1..Len(ch)
  BY <1>3
<1>7. ch = <<>> => 1..Len(ch) = {}
  BY <1>3
<1> QED
  BY <1>2, <1>4, <1>5, <1>6, <1>7 DEF tree

(* What stands below what.                                                 *)
LEMMA NodeBelowHere ==
    ASSUME prog \in Programs, NEW n \in DOMAIN prog, NEW p \in Paths(n),
           NEW i \in Kids(prog[n].tree, p)
    PROVE  /\ Append(p, i) \in Paths(n) /\ i \in Nat \ {0}
           /\ Kind(n, p) = "fnimpl" /\ i = 1 <=>
                Kind(n, Append(p, i)) = "fndecl" /\ Node(n, Append(p, i)).ty = "impl"
           /\ Kind(n, Append(p, i)) = "typedesc" => i = 1
           /\ Kind(n, p) = "case" /\ i = 1 => Kind(n, Append(p, i)) = "typedesc"
           /\ Kind(n, p) = "fndecl" => Kind(n, Append(p, i)) \in {"typedesc", "xid"}
           /\ Kind(n, Append(p, i)) = "leaf" <=> Kind(n, p) \in {"typedesc", "vardecl"}
           /\ Kind(n, p) = "vardecl" => i = 1
           /\ Kind(n, Append(p, i)) = "loopvar" <=> Kind(n, p) = "for" /\ i = 1
           /\ Kind(n, p) = "for" => Kind(n, Append(p, i)) \in {"loopvar", "iter", "block"}
<1> DEFINE tree == prog[n].tree
           ch == NodeOf(tree, p).ch
<1>1. MaxDepth \in Nat /\ IsTree(tree) /\ IsSource(tree) /\ p \in PathsOf(tree)
  BY SourceTree
<1>2. p \in Seq(Nat) /\ i \in Nat \ {0}
  BY <1>1, StepsOfAPath, KidsAreNumbers
<1>3. DOMAIN ch = 1..Len(ch)
  BY <1>1, ChildrenOfANode
<1>4. i \in DOMAIN ch
  BY <1>3 DEF Kids
<1>5. Append(p, i) \in PathsOf(tree)
  BY <1>1, ChildIsAPath
<1>6. NodeOf(tree, Append(p, i)) = ch[i]
  BY <1>2, NodeBelow
<1>7. /\ IsHead(ch[i]) <=> NodeOf(tree, p).k = "fnimpl" /\ i = 1
      /\ ch[i].k = "typedesc" => i = 1
      /\ NodeOf(tree, p).k = "case" /\ i = 1 => ch[i].k = "typedesc"
      /\ NodeOf(tree, p).k = "fndecl" => ch[i].k \in {"typedesc", "xid"}
      /\ ch[i].k = "leaf" <=> NodeOf(tree, p).k \in {"typedesc", "vardecl"}
      /\ NodeOf(tree, p).k = "vardecl" => i = 1
      /\ ch[i].k = "loopvar" <=> NodeOf(tree, p).k = "for" /\ i = 1
      /\ NodeOf(tree, p).k = "for" => ch[i].k \in {"loopvar", "iter", "block"}
  BY <1>1, <1>4 DEF IsSource
<1>8. /\ Kind(n, p) = NodeOf(tree, p).k /\ Kind(n, Append(p, i)) = ch[i].k
      /\ Node(n, Append(p, i)).ty = ch[i].ty /\ Paths(n) = PathsOf(tree)
  BY <1>6 DEF Kind, Node, Paths
<1> HIDE DEF ch, tree
<1> QED
  BY <1>2, <1>5, <1>7, <1>8 DEF IsHead

(* The way to a statement leads through no head of a function, no pattern  *)
(* and nothing in them.                                                    *)
LEMMA NotInHeads ==
    ASSUME prog \in Programs, NEW n \in DOMAIN prog, NEW p \in Paths(n),
           Kind(n, p) \notin {"fndecl", "typedesc", "leaf", "xid"},
           NEW q \in Beginnings(p), q # p
    PROVE  /\ Kind(n, q) \notin {"fndecl", "typedesc", "leaf", "xid"}
           /\ Kind(n, q) \in Lent => NextStep(p, q) # 1
           /\ q \in Paths(n)
<1> DEFINE tree == prog[n].tree
<1>1. MaxDepth \in Nat /\ p \in PathsOf(tree) /\ Paths(n) = PathsOf(tree)
      /\ p \in Seq(Nat)
  BY SourceTree, NodeHere
<1>2. ASSUME NEW r \in Beginnings(p), r # p
      PROVE  \E i \in Kids(tree, r) : /\ i = NextStep(p, r) /\ r \in Paths(n)
                                      /\ Append(r, i) \in Beginnings(p)
  BY <1>1, <1>2, StepOn
<1> HIDE DEF tree
<1>3. ASSUME NEW r \in Beginnings(p), Kind(n, r) \in {"leaf", "xid"} PROVE FALSE
  <2>1. r # p
    BY <1>3
  <2>2. PICK i \in Kids(tree, r) : r \in Paths(n)
    BY <1>2, <2>1
  <2>3. Kids(tree, r) = {}
    BY <1>3, <2>2, NodeHere DEF tree
  <2> QED
    BY <2>2, <2>3
<1>4. ASSUME NEW r \in Beginnings(p), Kind(n, r) = "typedesc" PROVE FALSE
  <2>1. r # p
    BY <1>4
  <2>2. PICK i \in Kids(tree, r) : r \in Paths(n) /\ Append(r, i) \in Beginnings(p)
    BY <1>2, <2>1
  <2>3. Kind(n, Append(r, i)) = "leaf"
    BY <1>4, <2>2, NodeBelowHere DEF tree
  <2> QED
    BY <1>3, <2>2, <2>3
<1>5. ASSUME NEW r \in Beginnings(p), Kind(n, r) = "fndecl" PROVE FALSE
  <2>1. r # p
    BY <1>5
  <2>2. PICK i \in Kids(tree, r) : r \in Paths(n) /\ Append(r, i) \in Beginnings(p)
    BY <1>2, <2>1
  <2>3. Kind(n, Append(r, i)) \in {"typedesc", "xid"}
    BY <1>5, <2>2, NodeBelowHere DEF tree
  <2> QED
    BY <1>3, <1>4, <2>2, <2>3
<1>6. PICK i \in Kids(tree, q) :
        i = NextStep(p, q) /\ q \in Paths(n) /\ Append(q, i) \in Beginnings(p)
  BY <1>2, q # p
<1>7. ASSUME Kind(n, q) \in Lent, i = 1 PROVE FALSE
  <2>1. Kind(n, Append(q, i)) \in {"fndecl", "typedesc"}
    BY <1>6, <1>7, NodeBelowHere DEF tree, Lent
  <2> QED
    BY <1>4, <1>5, <1>6, <2>1
<1> QED
  BY <1>3, <1>4, <1>5, <1>6, <1>7

-----------------------------------------------------------------------------
(* At a statement, the scopes of the source are the nodes with the tables. *)

Statement(n, p) == Kind(n, p) \notin {"fndecl", "typedesc", "leaf", "xid"}

LEMMA ScopesAreHolders ==
    ASSUME prog \in Programs, NEW n \in DOMAIN prog, NEW p \in Paths(n),
           p # <<>>, Statement(n, p)
    PROVE  /\ Holders(n, p) = ScopesAround(n, Above(p))
           /\ Above(p) \in Seq(Nat) /\ Beginnings(p) = Beginnings(Above(p)) \cup {p}
           /\ p \notin Beginnings(Above(p))
           /\ p \in Seq(Nat)
<1> DEFINE r == Front(p)
<1>1. MaxDepth \in Nat /\ p \in PathsOf(prog[n].tree) /\ p \in Seq(Nat)
  BY SourceTree, NodeHere
<1>2. r \in PathsOf(prog[n].tree) /\ Last(p) \in Nat \ {0} /\ p = Append(r, Last(p))
  BY <1>1, PathAbove
<1>3. r \in Seq(Nat)
  BY <1>1, <1>2, StepsOfAPath
<1>4. p \notin Beginnings(r) /\ Beginnings(p) = Beginnings(r) \cup {p}
  <2>1. PICK i \in Nat : p = Append(r, i)
    BY <1>2
  <2>2. /\ Append(r, i) \notin Beginnings(r)
        /\ Beginnings(Append(r, i)) = Beginnings(r) \cup {Append(r, i)}
    BY <1>3, BeginningsOfChild
  <2> QED
    BY <2>1, <2>2
<1>5. Above(p) = r
  BY DEF Above
<1> HIDE DEF r
<1>6. ASSUME NEW q \in Beginnings(r)
      PROVE  Holds(n, q, NextStep(p, q)) <=> IsScope(n, q)
  <2>1. q \in Beginnings(p) /\ q # p
    BY <1>4
  <2>2. Kind(n, p) \notin {"fndecl", "typedesc", "leaf", "xid"}
    BY DEF Statement
  <2>3. /\ Kind(n, q) \notin {"fndecl", "typedesc", "leaf", "xid"}
        /\ Kind(n, q) \in Lent => NextStep(p, q) # 1
    BY <2>1, <2>2, NotInHeads
  <2> QED
    BY <2>3 DEF Holds, IsScope, Own, Lent, OpensScope
<1>7. Holders(n, p) = ScopesAround(n, r)
  BY <1>4, <1>6 DEF Holders, ScopesAround
<1> QED
  BY <1>1, <1>3, <1>4, <1>5, <1>7

LEMMA OuterIsScopeAround ==
    ASSUME prog \in Programs, NEW n \in DOMAIN prog, NEW p \in Paths(n),
           p # <<>>, Statement(n, p)
    PROVE  Outer(n, p) = TableOf(n, ScopeAround(n, Above(p)))
BY ScopesAreHolders DEF Outer, ScopeAround

LEMMA InnerIsScopeAround ==
    ASSUME prog \in Programs, NEW n \in DOMAIN prog, NEW p \in Paths(n),
           p # <<>>, Statement(n, p)
    PROVE  Inner(n, p) = TableOf(n, ScopeAround(n, p))
<1> DEFINE r == Above(p)
<1>1. r \in Seq(Nat) /\ p \in Seq(Nat) /\ Beginnings(p) = Beginnings(r) \cup {p}
  BY ScopesAreHolders
<1>2. Outer(n, p) = TableOf(n, ScopeAround(n, r))
  BY OuterIsScopeAround
<1> HIDE DEF r
<1>3. IsScope(n, p) <=> Kind(n, p) \in Own \cup Lent \cup {"root"}
  BY DEF IsScope, Own, Lent, OpensScope, Statement
<1>4. \A q : q \in ScopesAround(n, p)
             <=> q \in ScopesAround(n, r) \/ (q = p /\ IsScope(n, p))
  BY <1>1 DEF ScopesAround
<1>5. CASE IsScope(n, p)
  <2>1. \A q : q \in ScopesAround(n, p) <=> q \in ScopesAround(n, r) \/ q = p
    BY <1>4, <1>5
  <2>2. ScopesAround(n, r) \subseteq Beginnings(p)
    BY <1>1 DEF ScopesAround
  <2>3. Longest(ScopesAround(n, p)) = p
    <3> DEFINE S == ScopesAround(n, r)
               T == ScopesAround(n, p)
    <3>1. S \subseteq Beginnings(p)
      BY <2>2
    <3>2. \A q : q \in T <=> q \in S \/ q = p
      BY <2>1
    <3>3. p \in Seq(Nat)
      BY <1>1
    <3> HIDE DEF S, T
    <3>4. Longest(T) = p
      BY <3>1, <3>2, <3>3, LongestWithPath
    <3> QED
      BY <3>4 DEF T
  <2> QED
    BY <1>3, <1>5, <2>3 DEF Inner, ScopeAround
<1>6. CASE ~IsScope(n, p)
  <2>1. ScopesAround(n, p) = ScopesAround(n, r)
    BY <1>4, <1>6
  <2> QED
    BY <1>2, <1>3, <1>6, <2>1 DEF Inner, ScopeAround
<1> QED
  BY <1>5, <1>6

(* The function of the current table is the one around the statement.      *)
LEMMA FunctionSeen ==
    ASSUME prog \in Programs, NEW n \in DOMAIN prog, NEW p \in Paths(n),
           Statement(n, p), Kind(n, p) # "fnimpl"
    PROVE  FnSeen(n, p) = FunctionAround(n, p)
<1> DEFINE around == {q \in ScopesAround(n, p) : Kind(n, q) = "fnimpl"}
<1>1. p \in Seq(Nat)
  BY NodeHere
<1>2. ASSUME NEW q
      PROVE  q \in FnHolders(n, p) <=> q \in around
  <2>1. CASE q \in Beginnings(p) /\ q # p
    <3>1. Kind(n, p) \notin {"fndecl", "typedesc", "leaf", "xid"}
      BY DEF Statement
    <3>2. /\ Kind(n, q) \notin {"fndecl", "typedesc", "leaf", "xid"}
          /\ Kind(n, q) \in Lent => NextStep(p, q) # 1
      BY <2>1, <3>1, NotInHeads
    <3> QED
      BY <2>1, <3>2 DEF FnHolders, HoldsFn, ScopesAround, IsScope, OpensScope, Lent
  <2>2. CASE q \notin Beginnings(p) \/ q = p
    BY <2>2, Kind(n, p) # "fnimpl" DEF FnHolders, ScopesAround
  <2> QED
    BY <2>1, <2>2
<1>3. FnHolders(n, p) = around
  BY <1>2
<1>4. ASSUME around # {} PROVE Kind(n, Longest(around)) = "fnimpl"
  <2>1. around \in SUBSET Beginnings(p)
    BY DEF ScopesAround
  <2>2. Longest(around) \in around
    BY <1>1, <1>4, <2>1, LongestIs
  <2> QED
    BY <2>2
<1>5. FunctionAround(n, p) = IF around = {} THEN NoWhere
                             ELSE <<n, Append(Longest(around), 1)>>
  BY DEF FunctionAround
<1> HIDE DEF around
<1> QED
  BY <1>3, <1>4, <1>5 DEF FnSeen, FnAt

-----------------------------------------------------------------------------
(* Tables.                                                                 *)

(* More records, and nothing else.                                         *)
Alike(ts, us) ==
    /\ AreTables(us) /\ AreNamed(us) /\ DOMAIN us = DOMAIN ts
    /\ \A t \in DOMAIN ts : us[t].parent = ts[t].parent /\ us[t].fndecl = ts[t].fndecl

Named(name, record) == Node(record.by[1], record.by[2]).name = name

LEMMA RecordedIsAlike ==
    ASSUME NEW ts, NEW t \in DOMAIN ts, NEW name, NEW record,
           AreTables(ts), AreNamed(ts), Named(name, record)
    PROVE  Alike(ts, Recorded(ts, t, name, record))
<1> DEFINE us == Recorded(ts, t, name, record)
           recs == Extended(ts[t].recs, name, record)
<1>1. /\ ts = [u \in DOMAIN ts |-> ts[u]] /\ \A u \in DOMAIN ts : IsTable(ts[u])
      /\ \A u \in DOMAIN ts : ts[u].mod = u[1]
  BY DEF AreTables
<1>2. ts[t] = [parent |-> ts[t].parent, mod |-> ts[t].mod, fndecl |-> ts[t].fndecl,
               recs |-> ts[t].recs]
  BY <1>1 DEF IsTable
<1>3. us = [u \in DOMAIN ts |-> IF u = t THEN [ts[t] EXCEPT !.recs = recs] ELSE ts[u]]
  BY DEF Recorded
<1>4. [ts[t] EXCEPT !.recs = recs]
      = [parent |-> ts[t].parent, mod |-> ts[t].mod, fndecl |-> ts[t].fndecl,
         recs |-> recs]
  <2> HIDE DEF recs
  <2> QED
    BY <1>2
<1> HIDE DEF us
<1>5. /\ DOMAIN us = DOMAIN ts /\ us = [u \in DOMAIN us |-> us[u]]
      /\ us[t] = [parent |-> ts[t].parent, mod |-> ts[t].mod, fndecl |-> ts[t].fndecl,
                  recs |-> recs]
      /\ \A u \in DOMAIN ts : u # t => us[u] = ts[u]
  BY <1>3, <1>4
<1>6. DOMAIN recs = DOMAIN ts[t].recs \cup {name}
      /\ \A x \in DOMAIN recs : recs[x] = IF x = name THEN record ELSE ts[t].recs[x]
  BY DEF Extended
<1> HIDE DEF recs
<1>7. us[t].recs = recs /\ us[t].parent = ts[t].parent /\ us[t].fndecl = ts[t].fndecl
      /\ us[t].mod = ts[t].mod
  BY <1>5
<1>8. IsTable(us[t])
  BY <1>5, <1>7 DEF IsTable
<1>13. \A u \in DOMAIN us : us[u].mod = u[1]
  BY <1>1, <1>5, <1>7
<1>9. AreTables(us)
  BY <1>1, <1>5, <1>8, <1>13 DEF AreTables
<1>10. ASSUME NEW u \in DOMAIN us, NEW x \in DOMAIN us[u].recs
       PROVE  Named(x, us[u].recs[x])
  <2>1. CASE u = t /\ x = name
    BY <1>6, <1>7, <2>1
  <2>2. CASE u = t /\ x # name
    <3>1. x \in DOMAIN ts[t].recs /\ us[u].recs[x] = ts[t].recs[x]
      BY <1>6, <1>7, <1>10, <2>2
    <3> QED
      BY <3>1 DEF AreNamed, Named
  <2>3. CASE u # t
    <3>1. us[u] = ts[u] /\ u \in DOMAIN ts
      BY <1>5, <2>3
    <3>2. x \in DOMAIN ts[u].recs
      BY <3>1
    <3> QED
      BY <3>1, <3>2 DEF AreNamed, Named
  <2> QED
    BY <2>1, <2>2, <2>3
<1>11. AreNamed(us)
  BY <1>10 DEF AreNamed, Named
<1>12. \A u \in DOMAIN ts : us[u].parent = ts[u].parent /\ us[u].fndecl = ts[u].fndecl
  BY <1>5, <1>7
<1> QED
  BY <1>5, <1>9, <1>11, <1>12 DEF Alike, us

LEMMA AlikeIsTransitive ==
    ASSUME NEW ts, NEW us, NEW vs, Alike(ts, us), Alike(us, vs)
    PROVE  Alike(ts, vs)
BY DEF Alike

LEMMA AlikeItself ==
    ASSUME NEW ts, AreTables(ts), AreNamed(ts)
    PROVE  Alike(ts, ts)
BY DEF Alike

(* A table more, or a new one in the place of another.                     *)
LEMMA ExtendedTables ==
    ASSUME NEW ts, AreTables(ts), AreNamed(ts), NEW t, t[1] = m
    PROVE  LET us == Extended(ts, t, NewTable(m))
           IN  /\ AreTables(us) /\ AreNamed(us) /\ DOMAIN us = DOMAIN ts \cup {t}
               /\ \A u \in DOMAIN ts : u # t => us[u] = ts[u]
<1> DEFINE us == Extended(ts, t, NewTable(m))
<1>1. /\ ts = [u \in DOMAIN ts |-> ts[u]] /\ \A u \in DOMAIN ts : IsTable(ts[u])
      /\ \A u \in DOMAIN ts : ts[u].mod = u[1]
  BY DEF AreTables
<1>2. /\ us = [u \in DOMAIN us |-> us[u]] /\ DOMAIN us = DOMAIN ts \cup {t}
      /\ us[t] = NewTable(m) /\ \A u \in DOMAIN ts : u # t => us[u] = ts[u]
  BY DEF Extended
<1>3. IsTable(NewTable(m)) /\ NewTable(m).recs = NoRecords /\ NewTable(m).mod = m
  BY DEF NewTable, IsTable
<1>4. DOMAIN NoRecords = {}
  BY DEF NoRecords
<1> HIDE DEF us
<1>8. \A u \in DOMAIN us : us[u].mod = u[1]
  BY <1>1, <1>2, <1>3
<1>5. AreTables(us)
  BY <1>1, <1>2, <1>3, <1>8 DEF AreTables
<1>6. ASSUME NEW u \in DOMAIN us, NEW x \in DOMAIN us[u].recs
      PROVE  Named(x, us[u].recs[x])
  <2>1. u # t
    BY <1>2, <1>3, <1>4, <1>6
  <2>2. us[u] = ts[u] /\ u \in DOMAIN ts
    BY <1>2, <2>1
  <2>3. x \in DOMAIN ts[u].recs
    BY <2>2
  <2> QED
    BY <2>2, <2>3 DEF AreNamed, Named
<1>7. AreNamed(us)
  BY <1>6 DEF AreNamed, Named
<1> QED
  BY <1>2, <1>5, <1>7 DEF us

(* A table is hung under the current one.                                  *)
LEMMA SwappedTables ==
    ASSUME NEW ts, AreTables(ts), AreNamed(ts), NEW t \in DOMAIN ts, NEW decl
    PROVE  LET us == SwapTo(ts, t, decl)
           IN  /\ AreTables(us) /\ AreNamed(us) /\ DOMAIN us = DOMAIN ts
               /\ \A u \in DOMAIN ts : u # t => us[u] = ts[u]
               /\ us[t].parent = cur
               /\ us[t].fndecl = IF decl = NoWhere THEN ts[cur].fndecl ELSE decl
<1> DEFINE us == SwapTo(ts, t, decl)
           fn == IF decl = NoWhere THEN ts[cur].fndecl ELSE decl
<1>1. /\ ts = [u \in DOMAIN ts |-> ts[u]] /\ \A u \in DOMAIN ts : IsTable(ts[u])
      /\ \A u \in DOMAIN ts : ts[u].mod = u[1]
  BY DEF AreTables
<1>2. ts[t] = [parent |-> ts[t].parent, mod |-> ts[t].mod, fndecl |-> ts[t].fndecl,
               recs |-> ts[t].recs]
  BY <1>1 DEF IsTable
<1>3. us = [[ts EXCEPT ![t].parent = cur] EXCEPT ![t].fndecl = fn]
  BY DEF SwapTo
<1> HIDE DEF us, fn
<1> DEFINE vs == [ts EXCEPT ![t].parent = cur]
<1>4. /\ DOMAIN vs = DOMAIN ts /\ vs = [u \in DOMAIN vs |-> vs[u]]
      /\ vs[t] = [parent |-> cur, mod |-> ts[t].mod, fndecl |-> ts[t].fndecl,
                  recs |-> ts[t].recs]
      /\ \A u \in DOMAIN ts : u # t => vs[u] = ts[u]
  BY <1>1, <1>2
<1>5. us = [vs EXCEPT ![t].fndecl = fn]
  BY <1>3
<1> HIDE DEF vs
<1> DEFINE entry == [vs[t] EXCEPT !.fndecl = fn]
<1>12. us = [u \in DOMAIN ts |-> IF u = t THEN entry ELSE vs[u]]
  BY <1>4, <1>5
<1>13. entry = [parent |-> cur, mod |-> ts[t].mod, fndecl |-> fn, recs |-> ts[t].recs]
  BY <1>4
<1> HIDE DEF entry
<1>6. /\ DOMAIN us = DOMAIN ts /\ us = [u \in DOMAIN us |-> us[u]]
      /\ us[t] = [parent |-> cur, mod |-> ts[t].mod, fndecl |-> fn,
                  recs |-> ts[t].recs]
      /\ \A u \in DOMAIN ts : u # t => us[u] = ts[u]
  BY <1>4, <1>12, <1>13
<1>7. us[t].recs = ts[t].recs /\ us[t].parent = cur /\ us[t].fndecl = fn
      /\ us[t].mod = ts[t].mod
  BY <1>6
<1>8. IsTable(us[t])
  BY <1>6, <1>7 DEF IsTable
<1>14. \A u \in DOMAIN us : us[u].mod = u[1]
  BY <1>1, <1>6, <1>7
<1>9. AreTables(us)
  BY <1>1, <1>6, <1>8, <1>14 DEF AreTables
<1>10. \A u \in DOMAIN us : u \in DOMAIN ts /\ us[u].recs = ts[u].recs
  BY <1>6, <1>7
<1>11. AreNamed(us)
  BY <1>10 DEF AreNamed
<1> QED
  BY <1>6, <1>7, <1>9, <1>11 DEF us, fn

-----------------------------------------------------------------------------
(* The arguments of a function and the names of a description are added    *)
(* one after the other.                                                    *)

ArgumentsTo(f, ts, n) ==
    f = [i \in 0..n |-> IF i = 0 THEN [ts |-> ts, ok |-> TRUE]
                        ELSE AddArgument(f[i - 1], i)]
LeavesTo(f, ts, n) ==
    f = [i \in 0..n |-> IF i = 0 THEN [ts |-> ts, said |-> "nothing"]
                        ELSE AddLeaf(f[i - 1], Where, Append(at, i))]

LEMMA ArgumentsAre ==
    ASSUME NEW f, NEW ts, NEW n \in Nat, ArgumentsTo(f, ts, n)
    PROVE  /\ f[0] = [ts |-> ts, ok |-> TRUE]
           /\ \A k \in 1..n : f[k] = AddArgument(f[k - 1], k)
<1> DEFINE g == [i \in 0..n |-> IF i = 0 THEN [ts |-> ts, ok |-> TRUE]
                                ELSE AddArgument(f[i - 1], i)]
<1>1. f = g
  BY DEF ArgumentsTo
<1>2. g[0] = [ts |-> ts, ok |-> TRUE]
  OBVIOUS
<1>3. \A k \in 1..n : g[k] = AddArgument(f[k - 1], k)
  OBVIOUS
<1> HIDE DEF g
<1> QED
  BY <1>1, <1>2, <1>3

LEMMA LeavesAre ==
    ASSUME NEW f, NEW ts, NEW n \in Nat, LeavesTo(f, ts, n)
    PROVE  /\ f[0] = [ts |-> ts, said |-> "nothing"]
           /\ \A k \in 1..n : f[k] = AddLeaf(f[k - 1], Where, Append(at, k))
<1> DEFINE g == [i \in 0..n |-> IF i = 0 THEN [ts |-> ts, said |-> "nothing"]
                                ELSE AddLeaf(f[i - 1], Where, Append(at, i))]
<1>1. f = g
  BY DEF LeavesTo
<1>2. g[0] = [ts |-> ts, said |-> "nothing"]
  OBVIOUS
<1>3. \A k \in 1..n : g[k] = AddLeaf(f[k - 1], Where, Append(at, k))
  OBVIOUS
<1> HIDE DEF g
<1> QED
  BY <1>1, <1>2, <1>3

LEMMA ArgumentsExist ==
    ASSUME NEW ts, NEW n \in Nat
    PROVE  \E f : ArgumentsTo(f, ts, n)
<1> DEFINE S == {k \in Nat : \E f : ArgumentsTo(f, ts, k)}
<1>1. 0 \in S
  <2> DEFINE f == [i \in 0..0 |-> [ts |-> ts, ok |-> TRUE]]
  <2>1. f = [i \in 0..0 |-> IF i = 0 THEN [ts |-> ts, ok |-> TRUE]
                            ELSE AddArgument(f[i - 1], i)]
    OBVIOUS
  <2>2. ArgumentsTo(f, ts, 0)
    BY <2>1 DEF ArgumentsTo
  <2> QED
    BY <2>2
<1>2. ASSUME NEW k \in S PROVE k + 1 \in S
  <2>1. PICK f : ArgumentsTo(f, ts, k)
    OBVIOUS
  <2>2. f[0] = [ts |-> ts, ok |-> TRUE]
        /\ \A j \in 1..k : f[j] = AddArgument(f[j - 1], j)
    BY <2>1, ArgumentsAre
  <2> DEFINE g == [i \in 0..k + 1 |->
                     IF i = k + 1 THEN AddArgument(f[k], k + 1) ELSE f[i]]
             h == [i \in 0..k + 1 |->
                     IF i = 0 THEN [ts |-> ts, ok |-> TRUE]
                     ELSE AddArgument(g[i - 1], i)]
  <2>3. ASSUME NEW i \in 0..k + 1 PROVE g[i] = h[i]
    <3>1. CASE i = k + 1
      <4>1. i - 1 = k /\ i # 0 /\ k \in 0..k + 1 /\ k # k + 1
        BY <3>1
      <4> QED
        BY <3>1, <4>1
    <3>2. CASE i # k + 1 /\ i # 0
      <4>1. i \in 1..k /\ i - 1 \in 0..k + 1 /\ i - 1 # k + 1
        BY <3>2
      <4>2. f[i] = AddArgument(f[i - 1], i)
        BY <2>2, <4>1
      <4> QED
        BY <3>2, <4>1, <4>2
    <3>3. CASE i = 0
      <4>1. i # k + 1
        BY <3>3
      <4> QED
        BY <2>2, <3>3, <4>1
    <3> QED
      BY <3>1, <3>2, <3>3
  <2>4. g = h
    BY <2>3
  <2>5. ArgumentsTo(g, ts, k + 1)
    BY <2>4 DEF ArgumentsTo
  <2> QED
    BY <2>5
<1>3. S = Nat
  BY <1>1, <1>2, EveryNumber
<1> QED
  BY <1>3

LEMMA LeavesExist ==
    ASSUME NEW ts, NEW n \in Nat
    PROVE  \E f : LeavesTo(f, ts, n)
<1> DEFINE S == {k \in Nat : \E f : LeavesTo(f, ts, k)}
           Step(r, i) == AddLeaf(r, Where, Append(at, i))
<1>1. 0 \in S
  <2> DEFINE f == [i \in 0..0 |-> [ts |-> ts, said |-> "nothing"]]
  <2>1. f = [i \in 0..0 |-> IF i = 0 THEN [ts |-> ts, said |-> "nothing"]
                            ELSE Step(f[i - 1], i)]
    OBVIOUS
  <2>2. LeavesTo(f, ts, 0)
    BY <2>1 DEF LeavesTo
  <2> QED
    BY <2>2
<1>2. ASSUME NEW k \in S PROVE k + 1 \in S
  <2>1. PICK f : LeavesTo(f, ts, k)
    OBVIOUS
  <2>2. f[0] = [ts |-> ts, said |-> "nothing"]
        /\ \A j \in 1..k : f[j] = Step(f[j - 1], j)
    BY <2>1, LeavesAre
  <2> DEFINE g == [i \in 0..k + 1 |-> IF i = k + 1 THEN Step(f[k], k + 1) ELSE f[i]]
             h == [i \in 0..k + 1 |-> IF i = 0 THEN [ts |-> ts, said |-> "nothing"]
                                      ELSE Step(g[i - 1], i)]
  <2> HIDE DEF Step
  <2>3. ASSUME NEW i \in 0..k + 1 PROVE g[i] = h[i]
    <3>1. CASE i = k + 1
      <4>1. i - 1 = k /\ i # 0 /\ k \in 0..k + 1 /\ k # k + 1
        BY <3>1
      <4> QED
        BY <3>1, <4>1
    <3>2. CASE i # k + 1 /\ i # 0
      <4>1. i \in 1..k /\ i - 1 \in 0..k + 1 /\ i - 1 # k + 1
        BY <3>2
      <4>2. f[i] = Step(f[i - 1], i)
        BY <2>2, <4>1
      <4> QED
        BY <3>2, <4>1, <4>2
    <3>3. CASE i = 0
      <4>1. i # k + 1
        BY <3>3
      <4> QED
        BY <2>2, <3>3, <4>1
    <3> QED
      BY <3>1, <3>2, <3>3
  <2>4. g = h
    BY <2>3
  <2>5. LeavesTo(g, ts, k + 1)
    BY <2>4 DEF LeavesTo, Step
  <2> QED
    BY <2>5
<1>3. S = Nat
  BY <1>1, <1>2, EveryNumber
<1> QED
  BY <1>3

LEMMA ArgumentsAreAlike ==
    ASSUME NEW ts, AreTables(ts), AreNamed(ts), Where \in DOMAIN ts,
           at \in Seq(Nat), Len(Arguments) \in Nat
    PROVE  Alike(ts, AddArguments(ts).ts)
<1> DEFINE n == Len(Arguments)
           added == CHOOSE f : ArgumentsTo(f, ts, n)
<1>1. AddArguments(ts) = added[n]
  BY DEF AddArguments, ArgumentsTo
<1>2. ArgumentsTo(added, ts, n)
  BY ArgumentsExist
<1> HIDE DEF added
<1>3. added[0] = [ts |-> ts, ok |-> TRUE]
      /\ \A k \in 1..n : added[k] = AddArgument(added[k - 1], k)
  BY <1>2, ArgumentsAre
<1> DEFINE Good(r) == r = [ts |-> r.ts, ok |-> r.ok] /\ Alike(ts, r.ts)
           S == {k \in Nat : k <= n => Good(added[k])}
<1>4. 0 \in S
  BY <1>3, AlikeItself
<1>5. ASSUME NEW k \in S PROVE k + 1 \in S
  <2> SUFFICES ASSUME k + 1 <= n PROVE Good(added[k + 1])
    OBVIOUS
  <2> DEFINE r == added[k]
             i == k + 1
  <2>1. Good(r)
    OBVIOUS
  <2>2. i \in 1..n /\ i - 1 = k /\ i \in Nat
    OBVIOUS
  <2>3. added[i] = AddArgument(r, i)
    BY <1>3, <2>2
  <2> HIDE DEF r, i
  <2> DEFINE name == Arguments[i].name
             record == [by |-> ArgumentAt(i), data |-> ArgumentTypes[i],
                        node |-> IF ArgumentTypes[i].is = "defined"
                                 THEN Lookup(r.ts, cur, Arguments[i].ty).node
                                 ELSE ArgumentAt(i)]
  <2>4. \/ AddArgument(r, i) = r
        \/ AddArgument(r, i) = [r EXCEPT !.ok = FALSE]
        \/ AddArgument(r, i) = [r EXCEPT !.ts = Recorded(@, Where, name, record)]
    BY DEF AddArgument
  <2>5. Named(name, record)
    <3>1. record.by = <<m, at \o <<1, i>>>>
      BY DEF ArgumentAt
    <3>2. PICK a \in Seq(Nat) : a = Append(at, 1)
      BY OneStepOn
    <3>3. at \o <<1, i>> = Append(a, i)
      BY <2>2, <3>2
    <3>4. NodeOf(prog[m].tree, Append(a, i)) = NodeOf(prog[m].tree, a).ch[i]
      BY <2>2, NodeBelow
    <3>5. Arguments[i] = NodeOf(prog[m].tree, a).ch[i]
      BY <3>2 DEF Arguments, Children, Node
    <3> DEFINE by == record.by
               below == Append(a, i)
    <3>9. by = <<m, below>>
      BY <3>1, <3>3
    <3> HIDE DEF by, below
    <3>10. by[1] = m /\ by[2] = below
      BY <3>9
    <3>6. record.by[1] = m /\ record.by[2] = Append(a, i)
      BY <3>10 DEF by, below
    <3> HIDE DEF record
    <3>7. Node(record.by[1], record.by[2]) = NodeOf(prog[m].tree, Append(a, i))
      BY <3>6 DEF Node
    <3>8. Node(record.by[1], record.by[2]).name = name
      BY <3>4, <3>5, <3>7
    <3> HIDE DEF name
    <3> QED
      BY <3>8 DEF Named
  <2> HIDE DEF name, record
  <2>6. r = [ts |-> r.ts, ok |-> r.ok] /\ Alike(ts, r.ts)
    BY <2>1
  <2> HIDE DEF Good
  <2>7. CASE AddArgument(r, i) = r
    BY <2>1, <2>3, <2>7 DEF i
  <2>8. CASE AddArgument(r, i) = [r EXCEPT !.ok = FALSE]
    <3>1. added[i] = [ts |-> r.ts, ok |-> FALSE]
      BY <2>3, <2>6, <2>8
    <3> QED
      BY <2>6, <3>1 DEF i, Good
  <2>9. CASE AddArgument(r, i) = [r EXCEPT !.ts = Recorded(@, Where, name, record)]
    <3> DEFINE us == Recorded(r.ts, Where, name, record)
    <3>1. AreTables(r.ts) /\ AreNamed(r.ts) /\ Where \in DOMAIN r.ts
      BY <2>6 DEF Alike
    <3>2. Alike(r.ts, us)
      BY <2>5, <3>1, RecordedIsAlike
    <3>3. added[i] = [r EXCEPT !.ts = us]
      BY <2>3, <2>9
    <3> HIDE DEF us
    <3>4. Alike(ts, us)
      BY <2>6, <3>2, AlikeIsTransitive
    <3>5. added[i] = [ts |-> us, ok |-> r.ok]
      BY <2>6, <3>3
    <3> QED
      BY <3>4, <3>5 DEF i, Good
  <2> QED
    BY <2>4, <2>7, <2>8, <2>9
<1> HIDE DEF Good
<1>6. S = Nat
  BY <1>4, <1>5, EveryNumber
<1>7. Good(added[n])
  BY <1>6
<1> QED
  BY <1>1, <1>7 DEF Good

(* One name, and all of them.                                              *)
LEMMA LeafIsAlike ==
    ASSUME NEW ts, NEW r, NEW t, NEW p, r = [ts |-> r.ts, said |-> r.said],
           AreTables(ts), Alike(ts, r.ts), t \in DOMAIN ts
    PROVE  LET s == AddLeaf(r, t, p)
           IN  s = [ts |-> s.ts, said |-> s.said] /\ Alike(ts, s.ts)
<1> DEFINE s == AddLeaf(r, t, p)
           name == Node(m, p).name
           data == TypeNamed(r.ts, t, Node(m, p).ty)
           record == RecordOf(r.ts, t, <<m, p>>, data)
           us == Recorded(r.ts, t, name, record)
<1>1. \/ s = r
      \/ s = [r EXCEPT !.said = "used"]
      \/ s = [r EXCEPT !.said = "no type"]
      \/ s = [r EXCEPT !.ts = us]
  BY Zenon DEF AddLeaf
<1>2. Named(name, record)
  BY DEF Named, RecordOf
<1>3. AreTables(r.ts) /\ AreNamed(r.ts) /\ t \in DOMAIN r.ts
  BY DEF Alike
<1> HIDE DEF s, name, record
<1>4. Alike(r.ts, us)
  BY <1>2, <1>3, RecordedIsAlike
<1> HIDE DEF us
<1>5. Alike(ts, us)
  BY <1>4, AlikeIsTransitive
<1>6. \/ s = [ts |-> r.ts, said |-> r.said]
      \/ s = [ts |-> r.ts, said |-> "used"]
      \/ s = [ts |-> r.ts, said |-> "no type"]
      \/ s = [ts |-> us, said |-> r.said]
  BY <1>1
<1>7. s = [ts |-> s.ts, said |-> s.said] /\ s.ts \in {r.ts, us}
  <2>1. CASE s = [ts |-> us, said |-> r.said]
    <3>1. s.ts = us /\ s.said = r.said
      BY <2>1
    <3> QED
      BY <2>1, <3>1
  <2>2. ASSUME NEW said, s = [ts |-> r.ts, said |-> said]
        PROVE  s = [ts |-> s.ts, said |-> s.said] /\ s.ts = r.ts
    <3>1. s.ts = r.ts /\ s.said = said
      BY <2>2
    <3> QED
      BY <2>2, <3>1
  <2> QED
    BY <1>6, <2>1, <2>2
<1> QED
  BY <1>5, <1>7 DEF s

LEMMA LeavesAreAlike ==
    ASSUME NEW ts, AreTables(ts), AreNamed(ts), Where \in DOMAIN ts,
           Len(Here.ch) \in Nat
    PROVE  Alike(ts, AddLeaves(ts).ts)
<1> DEFINE n == Len(Here.ch)
           added == CHOOSE f : LeavesTo(f, ts, n)
<1>1. AddLeaves(ts) = added[n]
  BY DEF AddLeaves, LeavesTo
<1>2. LeavesTo(added, ts, n)
  BY LeavesExist
<1> HIDE DEF added
<1>3. added[0] = [ts |-> ts, said |-> "nothing"]
      /\ \A k \in 1..n : added[k] = AddLeaf(added[k - 1], Where, Append(at, k))
  BY <1>2, LeavesAre
<1> DEFINE Good(r) == r = [ts |-> r.ts, said |-> r.said] /\ Alike(ts, r.ts)
           S == {k \in Nat : k <= n => Good(added[k])}
<1>4. 0 \in S
  BY <1>3, AlikeItself
<1>5. ASSUME NEW k \in S PROVE k + 1 \in S
  <2> SUFFICES ASSUME k + 1 <= n PROVE Good(added[k + 1])
    OBVIOUS
  <2>1. Good(added[k])
    OBVIOUS
  <2>2. k + 1 \in 1..n /\ (k + 1) - 1 = k
    OBVIOUS
  <2>3. added[k + 1] = AddLeaf(added[k], Where, Append(at, k + 1))
    BY <1>3, <2>2
  <2>4. Good(AddLeaf(added[k], Where, Append(at, k + 1)))
    BY <2>1, LeafIsAlike
  <2> HIDE DEF Good
  <2> QED
    BY <2>3, <2>4
<1> HIDE DEF Good
<1>6. S = Nat
  BY <1>4, <1>5, EveryNumber
<1>7. Good(added[n])
  BY <1>6
<1> QED
  BY <1>1, <1>7 DEF Good

-----------------------------------------------------------------------------
(* What the tables are, seen from the walk.                                *)

LEMMA TreesKeep ==
    ASSUME prog' = prog, NEW n, NEW p
    PROVE  /\ Kind(n, p)' = Kind(n, p) /\ Node(n, p)' = Node(n, p)
           /\ TableOf(n, p)' = TableOf(n, p) /\ FileTable(n)' = FileTable(n)
           /\ ModuleTable(n)' = ModuleTable(n) /\ Paths(n)' = Paths(n)
           /\ Outer(n, p)' = Outer(n, p) /\ Inner(n, p)' = Inner(n, p)
           /\ FnSeen(n, p)' = FnSeen(n, p)
           /\ FunctionAround(n, p)' = FunctionAround(n, p)
<1>1. ASSUME NEW q
      PROVE  /\ Kind(n, q)' = Kind(n, q) /\ Node(n, q)' = Node(n, q)
             /\ TableOf(n, q)' = TableOf(n, q) /\ IsScope(n, q)' = IsScope(n, q)
             /\ FnAt(n, q)' = FnAt(n, q)
  BY DEF Kind, Node, TableOf, FileTable, IsScope, FnAt
<1>2. ASSUME NEW q, NEW i
      PROVE  Holds(n, q, i)' = Holds(n, q, i) /\ HoldsFn(n, q, i)' = HoldsFn(n, q, i)
  BY <1>1 DEF Holds, HoldsFn
<1>3. FileTable(n)' = FileTable(n) /\ Paths(n)' = Paths(n)
  BY DEF FileTable, Paths
<1>4. ModuleTable(n)' = ModuleTable(n)
  BY <1>1 DEF ModuleTable
<1>5. Holders(n, p)' = Holders(n, p)
  BY <1>2 DEF Holders
<1>6. FnHolders(n, p)' = FnHolders(n, p)
  BY <1>2 DEF FnHolders
<1>7. TableOf(n, Longest(Holders(n, p)))' = TableOf(n, Longest(Holders(n, p)))
  BY <1>1, <1>5
<1>8. Outer(n, p)' = Outer(n, p)
  BY <1>3, <1>7 DEF Outer
<1>9. FnAt(n, Longest(FnHolders(n, p)))' = FnAt(n, Longest(FnHolders(n, p)))
  BY <1>1, <1>6
<1>10. FnSeen(n, p)' = FnSeen(n, p)
  BY <1>6, <1>9 DEF FnSeen
<1>11. Inner(n, p)' = Inner(n, p)
  BY <1>1, <1>8 DEF Inner
<1>12. ScopesAround(n, p)' = ScopesAround(n, p)
  BY <1>1 DEF ScopesAround
<1>13. {q \in ScopesAround(n, p) : Kind(n, q) = "fnimpl"}'
       = {q \in ScopesAround(n, p) : Kind(n, q) = "fnimpl"}
  BY <1>1, <1>12
<1>14. FunctionAround(n, p)' = FunctionAround(n, p)
  BY <1>13 DEF FunctionAround
<1> QED
  BY <1>1, <1>3, <1>4, <1>8, <1>10, <1>11, <1>14

(* A later child lies to the right of the first one and what is in that.   *)
LEMMA FirstChildBehind ==
    ASSUME NEW p \in Seq(Nat), NEW q \in Beginnings(p), q # p,
           NextStep(p, q) \in Nat \ {0}, NextStep(p, q) # 1
    PROVE  LeftOf(Append(q, 1), p)
<1>1. q \in Seq(Nat) /\ Len(q) \in Nat /\ Len(q) < Len(p)
  BY BeginningsNest
<1>2. \A j \in 1..Len(q) : q[j] = p[j]
  BY BeginningsAre
<1>3. PICK a \in Seq(Nat) :
        /\ a = Append(q, 1) /\ Len(a) = Len(q) + 1 /\ a[Len(q) + 1] = 1
        /\ \A j \in 1..Len(q) : a[j] = q[j]
  BY <1>1, OneStepOn
<1>4. Len(q) + 1 \in 1..Len(a) /\ Len(q) + 1 <= Len(p)
  BY <1>1, <1>3
<1>5. a[Len(q) + 1] < p[Len(q) + 1]
  BY <1>3 DEF NextStep
<1>6. \A j \in 1..((Len(q) + 1) - 1) : a[j] = p[j]
  BY <1>1, <1>2, <1>3
<1>7. LeftOf(a, p)
  BY <1>4, <1>5, <1>6 DEF LeftOf
<1> QED
  BY <1>3, <1>7

(* The table that is current where the walk comes to a place was made, and *)
(* knows its function: so from the root on, step by step.                  *)
Known(p) ==
    Outer(m, p) \in DOMAIN tables /\ tables[Outer(m, p)].fndecl = FnSeen(m, p)

LEMMA KnownOneStepOn ==
    ASSUME PlaceInv, StoreInv, HungInv, Walking,
           NEW q \in Beginnings(at), q # at, Known(q)
    PROVE  Known(Append(q, NextStep(at, q)))
<1> DEFINE i == NextStep(at, q)
<1>1. /\ prog \in Programs /\ m \in DOMAIN prog /\ at \in Paths(m) /\ MaxDepth \in Nat
      /\ Kind(m, <<>>) \in {"root", "module"} /\ at \in PathsOf(prog[m].tree)
      /\ Paths(m) = PathsOf(prog[m].tree) /\ at \in Seq(Nat)
  BY SourceTree, TreeHere DEF PlaceInv
<1>2. /\ q \in Paths(m) /\ q \in Seq(Nat) /\ i \in Nat \ {0}
  BY <1>1, StepOn
<1>3. /\ Outer(m, Append(q, i)) = IF Holds(m, q, i) THEN TableOf(m, q) ELSE Outer(m, q)
      /\ FnSeen(m, Append(q, i)) = IF HoldsFn(m, q, i) THEN FnAt(m, q) ELSE FnSeen(m, q)
  BY <1>1, <1>2, OuterOfChild, FnSeenOfChild
<1>4. Entered(q)
  BY DEF Entered
<1> HIDE DEF i
<1>5. CASE ~Holds(m, q, i)
  <2>1. ~HoldsFn(m, q, i)
    BY <1>5 DEF Holds, HoldsFn, Own, Lent
  <2>2. Outer(m, Append(q, i)) = Outer(m, q) /\ FnSeen(m, Append(q, i)) = FnSeen(m, q)
    BY <1>3, <1>5, <2>1
  <2> QED
    BY <2>2 DEF Known, i
<1>6. CASE Kind(m, q) = "root"
  <2>1. q = <<>>
    BY <1>1, <1>2, <1>6, NodeHere
  <2>2. FnSeen(m, q) = NoWhere
    BY <2>1, NothingAboveRoot
  <2>3. Holds(m, q, i) /\ ~HoldsFn(m, q, i) /\ TableOf(m, q) = FileTable(m)
    BY <1>6 DEF Holds, HoldsFn, TableOf
  <2>4. Outer(m, Append(q, i)) = FileTable(m) /\ FnSeen(m, Append(q, i)) = NoWhere
    BY <1>3, <2>2, <2>3
  <2>5. FileTable(m) \in DOMAIN tables /\ tables[FileTable(m)].fndecl = NoWhere
    BY <1>1 DEF StoreInv
  <2> QED
    BY <2>4, <2>5 DEF Known, i
<1>7. CASE Kind(m, q) \in Own
  <2>1. Holds(m, q, i) /\ TableOf(m, q) = <<m, q>>
    BY <1>7 DEF Holds, TableOf, Own
  <2>2. HoldsFn(m, q, i) <=> Kind(m, q) = "fndecl"
    BY <1>7 DEF HoldsFn, Own
  <2>3. FnSeen(m, Append(q, i)) = IF Kind(m, q) = "fndecl" THEN <<m, q>> ELSE FnSeen(m, q)
    BY <1>3, <2>2 DEF FnAt
  <2>4. <<m, q>> \in DOMAIN tables
        /\ tables[<<m, q>>].fndecl = IF Kind(m, q) = "fndecl" THEN <<m, q>> ELSE FnSeen(m, q)
    BY <1>2, <1>4, <1>7 DEF HungInv
  <2>5. Outer(m, Append(q, i)) = <<m, q>>
    BY <1>3, <2>1
  <2> QED
    BY <2>3, <2>4, <2>5 DEF Known, i
<1>8. CASE Kind(m, q) \in Lent /\ i # 1
  <2> DEFINE a == Append(q, 1)
  <2>1. 1 \in Kids(prog[m].tree, q)
    BY <1>1, <1>2, <1>8, NodeHere DEF Lent
  <2>2. /\ a \in Paths(m)
        /\ Kind(m, q) = "fnimpl" => Kind(m, a) = "fndecl"
        /\ Kind(m, q) = "case" => Kind(m, a) = "typedesc"
    BY <1>1, <1>2, <2>1, NodeBelowHere
  <2>3. LeftOf(a, at)
    BY <1>1, <1>2, <1>8, FirstChildBehind DEF i
  <2>4. FnSeen(m, a) = FnSeen(m, q)
    <3>1. ~HoldsFn(m, q, 1)
      BY <1>8 DEF HoldsFn, Lent
    <3> QED
      BY <1>2, <3>1, FnSeenOfChild
  <2>5. TableOf(m, q) = <<m, a>>
    BY <1>8 DEF TableOf, Lent
  <2>6. HoldsFn(m, q, i) <=> Kind(m, q) = "fnimpl"
    BY <1>8 DEF HoldsFn, Lent
  <2>7. Holds(m, q, i)
    BY <1>8 DEF Holds
  <2>8. FnAt(m, q) = <<m, a>>
    BY <1>8 DEF FnAt, Lent
  <2> HIDE DEF a
  <2>9. Entered(a) /\ Kind(m, a) \in Own
    BY <1>8, <2>2, <2>3 DEF Entered, Behind, Own, Lent
  <2>10. /\ <<m, a>> \in DOMAIN tables
         /\ tables[<<m, a>>].fndecl =
                IF Kind(m, a) = "fndecl" THEN <<m, a>> ELSE FnSeen(m, a)
    BY <2>2, <2>9 DEF HungInv
  <2>11. Outer(m, Append(q, i)) = <<m, a>>
    BY <1>3, <2>5, <2>7
  <2>12. FnSeen(m, Append(q, i)) = IF Kind(m, a) = "fndecl" THEN <<m, a>> ELSE FnSeen(m, a)
    <3>1. CASE Kind(m, q) = "fnimpl"
      BY <1>3, <2>2, <2>6, <2>8, <3>1
    <3>2. CASE Kind(m, q) = "case"
      <4>1. Kind(m, a) = "typedesc"
        BY <2>2, <3>2
      <4>2. ~HoldsFn(m, q, i)
        BY <2>6, <3>2
      <4> QED
        BY <1>3, <2>4, <4>1, <4>2
    <3> QED
      BY <1>8, <3>1, <3>2 DEF Lent
  <2> QED
    BY <2>10, <2>11, <2>12 DEF Known, i
<1> QED
  BY <1>5, <1>6, <1>7, <1>8 DEF Holds

LEMMA OuterIsKnown ==
    ASSUME PlaceInv, StoreInv, HungInv, Walking
    PROVE  Known(at)
<1>1. /\ at \in Seq(Nat) /\ Len(at) \in Nat /\ m \in DOMAIN prog
  BY TreeHere DEF PlaceInv
<1> DEFINE S == {k \in Nat : \A q \in Beginnings(at) : Len(q) = k => Known(q)}
<1>2. 0 \in S
  <2> SUFFICES ASSUME NEW q \in Beginnings(at), Len(q) = 0 PROVE Known(q)
    OBVIOUS
  <2>1. q \in Seq(Nat)
    BY <1>1, BeginningsNest
  <2>2. q = <<>>
    BY <2>1
  <2>3. Outer(m, q) = FileTable(m) /\ FnSeen(m, q) = NoWhere
    BY <2>2, NothingAboveRoot
  <2> QED
    BY <1>1, <2>3 DEF Known, StoreInv
<1>3. ASSUME NEW k \in S PROVE k + 1 \in S
  <2> SUFFICES ASSUME NEW q \in Beginnings(at), Len(q) = k + 1 PROVE Known(q)
    OBVIOUS
  <2>1. /\ q \in Seq(Nat) /\ Len(q) <= Len(at) /\ \A j \in 1..Len(q) : q[j] = at[j]
    BY <1>1, BeginningsAre
  <2> DEFINE r == SubSeq(q, 1, k)
  <2>2. r \in Seq(Nat) /\ Len(r) = k /\ \A j \in 1..k : r[j] = q[j]
    <3>1. k \in 0..Len(q)
      OBVIOUS
    <3> QED
      BY <2>1, <3>1, Beginning
  <2> HIDE DEF r
  <2>3. Len(r) <= Len(at) /\ \A j \in 1..Len(r) : r[j] = at[j]
    BY <1>1, <2>1, <2>2
  <2>4. r \in Beginnings(at)
    BY <1>1, <2>2, <2>3, BeginningsAre
  <2>5. r # at
    BY <1>1, <2>1, <2>2
  <2>6. Known(r)
    BY <2>2, <2>4
  <2>7. Known(Append(r, NextStep(at, r)))
    BY <2>4, <2>5, <2>6, KnownOneStepOn
  <2>8. k + 1 \in 1..Len(at) /\ NextStep(at, r) = at[k + 1]
    BY <1>1, <2>1, <2>2 DEF NextStep
  <2>9. PICK i \in Nat : i = at[k + 1]
    BY <1>1, <2>8
  <2>10. PICK a \in Seq(Nat) :
        /\ a = Append(r, i) /\ Len(a) = Len(r) + 1 /\ a[Len(r) + 1] = i
        /\ \A j \in 1..Len(r) : a[j] = r[j]
    BY <2>2, OneStepOn
  <2>11. \A j \in 1..Len(q) : j \in 1..k \/ j = k + 1
    OBVIOUS
  <2>12. Len(a) = Len(q) /\ \A j \in 1..Len(a) : a[j] = q[j]
    BY <2>1, <2>2, <2>8, <2>9, <2>10, <2>11
  <2>13. a = q
    BY <2>1, <2>12, SamePath
  <2> QED
    BY <2>7, <2>8, <2>9, <2>10, <2>13
<1>4. S = Nat
  BY <1>2, <1>3, EveryNumber
<1>5. at \in Beginnings(at)
  BY <1>1, BeginningsNest
<1> QED
  BY <1>1, <1>4, <1>5

-----------------------------------------------------------------------------
(* What the steps do with the tables.                                      *)

(* What holds of the tables and the current one where a walk goes down.    *)
Ready ==
    /\ AreTables(tables) /\ AreNamed(tables)
    /\ cur \in DOMAIN tables /\ cur # Where /\ m # 0 /\ at \in Seq(Nat)
    /\ Here.k = "module" => Where \in DOMAIN tables
    /\ Len(Here.ch) \in Nat
    /\ Here.k = "fndecl" => Len(Arguments) \in Nat

(* The tables with one for the node, under the current one.                *)
Grown(us) ==
    /\ AreTables(us) /\ AreNamed(us) /\ DOMAIN us = DOMAIN tables \cup {Where}
    /\ \A u \in DOMAIN tables : u # Where =>
            us[u].parent = tables[u].parent /\ us[u].fndecl = tables[u].fndecl
    /\ us[Where].parent = cur
    /\ us[Where].fndecl = IF Here.k = "fndecl" THEN Where ELSE tables[cur].fndecl

(* Those with one for the node, somewhere.                                 *)
Begun(ts) ==
    /\ AreTables(ts) /\ AreNamed(ts) /\ DOMAIN ts = DOMAIN tables \cup {Where}
    /\ \A u \in DOMAIN tables : u # Where =>
            ts[u].parent = tables[u].parent /\ ts[u].fndecl = tables[u].fndecl

LEMMA GrownBySwap ==
    ASSUME Ready, NEW ts, Begun(ts), NEW decl,
           decl = IF Here.k = "fndecl" THEN Where ELSE NoWhere
    PROVE  Grown(SwapTo(ts, Where, decl))
<1> DEFINE us == SwapTo(ts, Where, decl)
<1>1. AreTables(ts) /\ AreNamed(ts) /\ Where \in DOMAIN ts
  BY DEF Begun
<1>2. /\ AreTables(us) /\ AreNamed(us) /\ DOMAIN us = DOMAIN ts
      /\ \A u \in DOMAIN ts : u # Where => us[u] = ts[u]
      /\ us[Where].parent = cur
      /\ us[Where].fndecl = IF decl = NoWhere THEN ts[cur].fndecl ELSE decl
  BY <1>1, SwappedTables
<1> HIDE DEF us
<1>3. Where # NoWhere
  BY DEF Ready, Where, NoWhere
<1>4. ts[cur].fndecl = tables[cur].fndecl
  BY DEF Ready, Begun
<1>5. us[Where].fndecl = IF Here.k = "fndecl" THEN Where ELSE tables[cur].fndecl
  BY <1>2, <1>3, <1>4
<1>6. DOMAIN us = DOMAIN tables \cup {Where}
  BY <1>2 DEF Begun
<1>7. ASSUME NEW u \in DOMAIN tables, u # Where
      PROVE  us[u].parent = tables[u].parent /\ us[u].fndecl = tables[u].fndecl
  <2>1. us[u] = ts[u]
    BY <1>2, <1>6, <1>7
  <2> QED
    BY <1>7, <2>1 DEF Begun
<1> QED
  BY <1>2, <1>5, <1>6, <1>7 DEF Grown, us

LEMMA GrownAlike ==
    ASSUME NEW ts, NEW us, Grown(ts), Alike(ts, us)
    PROVE  Grown(us)
<1>1. Where \in DOMAIN ts /\ DOMAIN tables \subseteq DOMAIN ts
  BY DEF Grown
<1> QED
  BY <1>1 DEF Grown, Alike

LEMMA BegunAlike ==
    ASSUME NEW ts, NEW us, Begun(ts), Alike(ts, us)
    PROVE  Begun(us)
<1>1. DOMAIN tables \subseteq DOMAIN ts
  BY DEF Begun
<1> QED
  BY <1>1 DEF Begun, Alike

LEMMA BegunByTable ==
    ASSUME Ready
    PROVE  /\ Begun(Extended(tables, Where, NewTable(m)))
           /\ Where \in DOMAIN tables => Begun(tables)
<1> DEFINE ts == Extended(tables, Where, NewTable(m))
<1>1. AreTables(tables) /\ AreNamed(tables) /\ Where[1] = m
  BY DEF Ready, Where
<1>2. /\ AreTables(ts) /\ AreNamed(ts) /\ DOMAIN ts = DOMAIN tables \cup {Where}
      /\ \A u \in DOMAIN tables : u # Where => ts[u] = tables[u]
  BY <1>1, ExtendedTables
<1> HIDE DEF ts
<1>3. Begun(ts)
  BY <1>2 DEF Begun
<1>4. Where \in DOMAIN tables => DOMAIN tables = DOMAIN tables \cup {Where}
  OBVIOUS
<1> QED
  BY <1>1, <1>3, <1>4 DEF Begun, ts

(* A record of the node itself, under its name.                            *)
LEMMA OwnRecord ==
    ASSUME NEW ts, NEW t, NEW data
    PROVE  Named(Here.name, RecordOf(ts, t, Where, data))
<1>1. RecordOf(ts, t, Where, data).by = Where
  BY DEF RecordOf
<1>2. Where[1] = m /\ Where[2] = at
  BY DEF Where
<1> QED
  BY <1>1, <1>2 DEF Named, Here

(* Down with a table that was made for the node; down with the tables as   *)
(* they were but for records; or a halt.                                   *)
Makes ==
    /\ GoesDown /\ stage = "declare" /\ Here.k \in Own
    /\ Grown(tables') /\ cur' = Where
Passes ==
    /\ GoesDown /\ stage = "declare" /\ Here.k \notin Own
    /\ Alike(tables, tables') /\ cur' = cur
Stands == Halts /\ UNCHANGED <<cur, tables, found>>


LEMMA TablesDeclared ==
    ASSUME Ready,
           \/ DeclareScope \/ DeclareModule \/ DeclareFunction
           \/ DeclareDescription \/ DeclareVariable \/ DeclareType \/ DeclareOther
    PROVE  Makes \/ Passes \/ Stands
<1>1. GoesDown \/ Halts
  BY DeclaringIsAMove
<1>2. /\ AreTables(tables) /\ AreNamed(tables) /\ cur \in DOMAIN tables
      /\ Begun(Extended(tables, Where, NewTable(m)))
  BY BegunByTable DEF Ready
<1>3. ASSUME stage' = stage, Halts PROVE FALSE
  BY <1>3 DEF Halts, Walking
<1>4. CASE DeclareScope
  <2>1. /\ stage' = stage /\ stage = "declare" /\ Here.k \in {"block", "for"}
        /\ cur' = Where
        /\ tables' = SwapTo(Extended(tables, Where, NewTable(m)), Where, NoWhere)
    BY <1>4 DEF DeclareScope, Declaring
  <2>2. Grown(tables')
    BY <1>2, <2>1, GrownBySwap
  <2> QED
    BY <1>1, <1>3, <2>1, <2>2 DEF Makes, Own
<1>5. CASE DeclareModule
  <2>1. CASE Fail("failed", Said("used"))
    BY <1>1, <2>1, <1>5 DEF Fail, Stands, GoesDown, Walking
  <2>2. CASE ~Fail("failed", Said("used"))
    <3>1. PICK record : /\ record = RecordOf(tables, cur, Where, Type("module", Where))
                        /\ tables' = SwapTo(Recorded(tables, cur, Here.name, record),
                                            Where, NoWhere)
      BY <1>5, <2>2 DEF DeclareModule
    <3>2. stage' = stage /\ stage = "declare" /\ Here.k = "module" /\ cur' = Where
      BY <1>5, <2>2 DEF DeclareModule, Declaring
    <3> DEFINE us == Recorded(tables, cur, Here.name, record)
    <3>3. Named(Here.name, record)
      BY <3>1, OwnRecord
    <3>4. Alike(tables, us)
      BY <1>2, <3>3, RecordedIsAlike
    <3>5. Begun(tables)
      BY <3>2, BegunByTable DEF Ready
    <3>6. tables' = SwapTo(us, Where, NoWhere)
      BY <3>1
    <3> HIDE DEF us
    <3>7. Begun(us)
      BY <3>4, <3>5, BegunAlike
    <3>8. Grown(tables')
      BY <3>2, <3>6, <3>7, GrownBySwap
    <3> QED
      BY <1>1, <1>3, <3>2, <3>8 DEF Makes, Own
  <2> QED
    BY <2>1, <2>2
<1>6. CASE DeclareFunction
  <2>1. PICK added, known :
          /\ added = AddArguments(Extended(tables, Where, NewTable(m)))
          /\ \/ Fail("failed", Said("function exists"))
             \/ Fail("asserted", {})
             \/ Fail("failed", Said("no type, or an argument twice"))
             \/ /\ tables' = SwapTo(Recorded(added.ts, cur, Here.name,
                                RecordOf(added.ts, cur, Where, Type("function", Where))),
                             Where, Where)
                /\ cur' = Where
                /\ UNCHANGED <<prog, stage, m, errors, found, lost>>
    BY <1>6 DEF DeclareFunction
  <2>2. stage = "declare" /\ Here.k = "fndecl"
    BY <1>6 DEF DeclareFunction, Declaring
  <2>3. ASSUME NEW how \in {"failed", "asserted"}, NEW errs, Fail(how, errs)
        PROVE  Stands
    BY <1>1, <2>3 DEF Fail, Stands, GoesDown, Walking
  <2>4. CASE /\ tables' = SwapTo(Recorded(added.ts, cur, Here.name,
                                RecordOf(added.ts, cur, Where, Type("function", Where))),
                             Where, Where)
             /\ cur' = Where
             /\ UNCHANGED <<prog, stage, m, errors, found, lost>>
    <3> DEFINE ts == Extended(tables, Where, NewTable(m))
               record == RecordOf(added.ts, cur, Where, Type("function", Where))
               us == Recorded(added.ts, cur, Here.name, record)
    <3>1. AreTables(ts) /\ AreNamed(ts) /\ Where \in DOMAIN ts
      BY <1>2 DEF Begun
    <3>2. at \in Seq(Nat) /\ Len(Arguments) \in Nat
      BY <2>2 DEF Ready
    <3>3. Begun(ts)
      BY <1>2
    <3>4. added = AddArguments(ts)
      BY <2>1
    <3> HIDE DEF ts
    <3>5. Alike(ts, added.ts)
      BY <3>1, <3>2, <3>4, ArgumentsAreAlike
    <3>6. Begun(added.ts)
      BY <3>3, <3>5, BegunAlike
    <3>7. AreTables(added.ts) /\ AreNamed(added.ts) /\ cur \in DOMAIN added.ts
      BY <1>2, <3>6 DEF Begun
    <3>8. Named(Here.name, record)
      BY OwnRecord
    <3> HIDE DEF record
    <3>9. Alike(added.ts, us)
      BY <3>7, <3>8, RecordedIsAlike
    <3>10. tables' = SwapTo(us, Where, Where)
      BY <2>4 DEF record
    <3> HIDE DEF us
    <3>11. Begun(us)
      BY <3>6, <3>9, BegunAlike
    <3>12. Grown(tables')
      BY <2>2, <3>10, <3>11, GrownBySwap
    <3> QED
      BY <1>1, <1>3, <2>2, <2>4, <3>12 DEF Makes, Own
  <2> QED
    BY <2>1, <2>3, <2>4
<1>7. CASE DeclareDescription
  <2>1. PICK swapped, filled :
          /\ swapped = SwapTo(Extended(tables, Where, NewTable(m)), Where, NoWhere)
          /\ filled = AddLeaves(swapped)
          /\ \/ Fail("failed", Said(filled.said))
             \/ /\ tables' = filled.ts /\ cur' = Where
                /\ UNCHANGED <<prog, stage, m, errors, found, lost>>
    BY <1>7 DEF DeclareDescription
  <2>2. stage = "declare" /\ Here.k = "typedesc"
    BY <1>7 DEF DeclareDescription, Declaring
  <2>3. CASE Fail("failed", Said(filled.said))
    BY <1>1, <2>3, <2>2 DEF Fail, Stands, GoesDown, Walking
  <2>4. CASE /\ tables' = filled.ts /\ cur' = Where
             /\ UNCHANGED <<prog, stage, m, errors, found, lost>>
    <3>1. Grown(swapped)
      BY <1>2, <2>1, <2>2, GrownBySwap
    <3>2. AreTables(swapped) /\ AreNamed(swapped) /\ Where \in DOMAIN swapped
      BY <3>1 DEF Grown
    <3>3. Len(Here.ch) \in Nat
      BY DEF Ready
    <3>4. Alike(swapped, filled.ts)
      BY <2>1, <3>2, <3>3, LeavesAreAlike
    <3>5. Grown(filled.ts)
      BY <3>1, <3>4, GrownAlike
    <3> QED
      BY <1>1, <1>3, <2>2, <2>4, <3>5 DEF Makes, Own
  <2> QED
    BY <2>1, <2>3, <2>4
<1>8. CASE DeclareVariable
  <2>1. PICK added :
          /\ added = AddLeaf([ts |-> tables, said |-> "nothing"], cur, Append(at, 1))
          /\ \/ Fail("failed", Said(added.said))
             \/ /\ tables' = added.ts
                /\ UNCHANGED <<prog, stage, m, cur, errors, found, lost>>
    BY <1>8 DEF DeclareVariable
  <2>2. stage = "declare" /\ Here.k = "vardecl"
    BY <1>8 DEF DeclareVariable, Declaring
  <2>3. CASE Fail("failed", Said(added.said))
    BY <1>1, <2>3, <2>2 DEF Fail, Stands, GoesDown, Walking
  <2>4. CASE /\ tables' = added.ts
             /\ UNCHANGED <<prog, stage, m, cur, errors, found, lost>>
    <3> DEFINE r == [ts |-> tables, said |-> "nothing"]
    <3>1. r = [ts |-> r.ts, said |-> r.said] /\ r.ts = tables
      OBVIOUS
    <3>2. added = AddLeaf(r, cur, Append(at, 1))
      BY <2>1
    <3> HIDE DEF r
    <3>3. Alike(tables, r.ts)
      BY <1>2, <3>1, AlikeItself
    <3>4. Alike(tables, added.ts)
      BY <1>2, <3>1, <3>2, <3>3, LeafIsAlike
    <3> QED
      BY <1>1, <1>3, <2>2, <2>4, <3>4 DEF Passes, Own
  <2> QED
    BY <2>1, <2>3, <2>4
<1>9. CASE DeclareType
  <2>1. stage = "declare" /\ Here.k = "typedecl"
    BY <1>9 DEF DeclareType, Declaring
  <2>2. \/ \E what : Fail("failed", Said(what))
        \/ /\ tables' = Recorded(tables, cur, Here.name,
                            RecordOf(tables, cur, Where, Type("defined", Where)))
           /\ UNCHANGED <<prog, stage, m, cur, errors, found, lost>>
    BY <1>9 DEF DeclareType
  <2>3. CASE \E what : Fail("failed", Said(what))
    BY <1>1, <2>1, <2>3 DEF Fail, Stands, GoesDown, Walking
  <2>4. CASE /\ tables' = Recorded(tables, cur, Here.name,
                            RecordOf(tables, cur, Where, Type("defined", Where)))
             /\ UNCHANGED <<prog, stage, m, cur, errors, found, lost>>
    <3> DEFINE record == RecordOf(tables, cur, Where, Type("defined", Where))
    <3>1. Named(Here.name, record)
      BY OwnRecord
    <3>2. tables' = Recorded(tables, cur, Here.name, record)
      BY <2>4
    <3> HIDE DEF record
    <3>3. Alike(tables, tables')
      BY <1>2, <3>1, <3>2, RecordedIsAlike
    <3> QED
      BY <1>1, <1>3, <2>1, <2>4, <3>3 DEF Passes, Own
  <2> QED
    BY <2>2, <2>3, <2>4
<1>10. CASE DeclareOther
  <2>1. /\ stage = "declare" /\ stage' = stage /\ cur' = cur /\ tables' = tables
        /\ Here.k \notin Own
    BY <1>10 DEF DeclareOther, Declaring, Own
  <2>2. Alike(tables, tables')
    BY <1>2, <2>1, AlikeItself
  <2> QED
    BY <1>1, <1>3, <2>1, <2>2 DEF Passes
<1> QED
  BY <1>4, <1>5, <1>6, <1>7, <1>8, <1>9, <1>10

(* In the second walk: down, past a loop that failed, or a halt.           *)
Sets ==
    /\ GoesDown /\ stage = "check" /\ Alike(tables, tables')
    /\ cur' = IF Here.k \in OpensScope \cup {"fndecl"} THEN TableOf(m, at) ELSE cur
PassesBy ==
    /\ GivesUp /\ Here.k = "for" /\ tables' = tables /\ found' = found

LEMMA TablesChecked ==
    ASSUME AreTables(tables), AreNamed(tables), at \in Seq(Nat),
           stage = "check" /\ Here.k = "for" => Where \in DOMAIN tables,
           CheckScope \/ CheckOther \/ CheckMatch \/ CheckFor
    PROVE  Sets \/ PassesBy \/ Stands
<1>1. GoesDown \/ GivesUp \/ Halts
  BY CheckingIsAMove
<1>2. ASSUME stage' = stage, Halts PROVE FALSE
  BY <1>2 DEF Halts, Walking
<1>3. Alike(tables, tables)
  BY AlikeItself
<1>4. ASSUME Descend, parents' = Append(parents, at), dir = "down", stage = "check",
             UNCHANGED <<prog, stage, m, errors, found, lost>>
      PROVE  GoesDown
  BY <1>4 DEF GoesDown, Walking
<1>5. CASE CheckScope
  <2>1. GoesDown /\ tables' = tables
    BY <1>4, <1>5 DEF CheckScope, Checking
  <2>2. stage = "check" /\ Here.k \in OpensScope \cup {"fndecl"} /\ cur' = TableOf(m, at)
    BY <1>5 DEF CheckScope, Checking
  <2>3. Alike(tables, tables')
    BY <1>3, <2>1
  <2> QED
    BY <2>1, <2>2, <2>3 DEF Sets
<1>6. CASE CheckOther
  <2>1. GoesDown /\ tables' = tables
    BY <1>4, <1>6 DEF CheckOther, Checking
  <2>2. stage = "check" /\ Here.k \notin OpensScope \cup {"fndecl"} /\ cur' = cur
    BY <1>6 DEF CheckOther, Checking, OpensScope
  <2>3. Alike(tables, tables')
    BY <1>3, <2>1
  <2> QED
    BY <2>1, <2>2, <2>3 DEF Sets
<1>7. CASE CheckMatch
  <2>1. Checking({"match"})
    BY <1>7 DEF CheckMatch
  <2>2. \/ Fail("crashed", {})
        \/ Descend /\ UNCHANGED <<prog, stage, m, cur, tables, errors, found, lost>>
    BY <1>7 DEF CheckMatch
  <2>3. CASE Fail("crashed", {})
    <3>1. Halts
      BY <2>1, <2>3 DEF Checking, Fail, Halts, Walking
    <3> QED
      BY <2>3, <3>1 DEF Fail, Stands
  <2>4. CASE Descend /\ UNCHANGED <<prog, stage, m, cur, tables, errors, found, lost>>
    <3>1. GoesDown /\ tables' = tables
      BY <1>4, <2>1, <2>4 DEF Checking
    <3>2. stage = "check" /\ Here.k \notin OpensScope \cup {"fndecl"} /\ cur' = cur
      BY <2>1, <2>4 DEF Checking, OpensScope
    <3>3. Alike(tables, tables')
      BY <1>3, <3>1
    <3> QED
      BY <3>1, <3>2, <3>3 DEF Sets
  <2> QED
    BY <2>2, <2>3, <2>4
<1>8. CASE CheckFor
  <2>1. Checking({"for"})
    BY <1>8 DEF CheckFor
  <2>2. \/ \E what : GiveUp(what)
        \/ /\ tables' = Recorded(tables, Where, Here.ch[1].name,
                             RecordOf(tables, Where, <<m, Append(at, 1)>>,
                                      Type("elementary", NoWhere)))
           /\ cur' = Where /\ Descend
           /\ UNCHANGED <<prog, stage, m, errors, found, lost>>
    BY <1>8 DEF CheckFor
  <2>3. CASE \E what : GiveUp(what)
    <3>1. GivesUp
      BY <2>1, <2>3 DEF Checking, GivesUp
    <3>2. tables' = tables /\ found' = found /\ Here.k = "for"
      BY <2>1, <2>3 DEF Checking, GiveUp
    <3> QED
      BY <3>1, <3>2 DEF PassesBy
  <2>4. CASE /\ tables' = Recorded(tables, Where, Here.ch[1].name,
                             RecordOf(tables, Where, <<m, Append(at, 1)>>,
                                      Type("elementary", NoWhere)))
             /\ cur' = Where /\ Descend
             /\ UNCHANGED <<prog, stage, m, errors, found, lost>>
    <3>1. GoesDown
      BY <1>4, <2>1, <2>4 DEF Checking
    <3>2. stage = "check" /\ Here.k = "for"
      BY <2>1 DEF Checking
    <3>3. TableOf(m, at) = Where
      BY <3>2 DEF TableOf, Kind, Here, Where
    <3> DEFINE by == <<m, Append(at, 1)>>
               name == Here.ch[1].name
               record == RecordOf(tables, Where, by, Type("elementary", NoWhere))
    <3>4. record.by = by
      BY DEF RecordOf
    <3>5. by[1] = m /\ by[2] = Append(at, 1)
      OBVIOUS
    <3>6. NodeOf(prog[m].tree, Append(at, 1)) = NodeOf(prog[m].tree, at).ch[1]
      BY NodeBelow
    <3>7. tables' = Recorded(tables, Where, name, record)
      BY <2>4
    <3>8. name = NodeOf(prog[m].tree, at).ch[1].name
      BY DEF Here, Node
    <3> HIDE DEF record, by, name
    <3>9. Named(name, record)
      BY <3>4, <3>5, <3>6, <3>8 DEF Named, Node
    <3>10. Where \in DOMAIN tables
      BY <3>2
    <3>11. Alike(tables, tables')
      BY <3>7, <3>9, <3>10, RecordedIsAlike
    <3>12. Here.k \in OpensScope \cup {"fndecl"} /\ cur' = TableOf(m, at)
      BY <2>4, <3>2, <3>3 DEF OpensScope
    <3> QED
      BY <3>1, <3>2, <3>11, <3>12 DEF Sets
  <2> QED
    BY <2>2, <2>3, <2>4
<1> QED
  BY <1>5, <1>6, <1>7, <1>8

(* On the way up only a name or a return statement finds something, and a  *)
(* return statement the function of the current table.                     *)
Finds ==
    \/ found' = found
    \/ \E what : /\ found' = Extended(found, Where, what)
                 /\ Here.k = "return" =>
                        stage = "check" /\ what.by = tables[cur].fndecl
Moves == Leaves /\ tables' = tables /\ Finds

LEMMA TablesLeft ==
    ASSUME LeaveDeclared \/ CheckUse \/ CheckReturn \/ LeaveOther
    PROVE  Moves
<1>1. Leaves
  BY LeavingIsAMove
<1>2. CASE LeaveDeclared
  BY <1>1, <1>2 DEF LeaveDeclared, Moves, Finds
<1>3. CASE CheckUse
  <2>1. PICK record :
            /\ LeaveChecked({"use", "iter", "leaf", "xid"},
                    IF record = NoRecord THEN Said("undeclared") ELSE {})
            /\ Finding(record)
    BY <1>3 DEF CheckUse
  <2>2. tables' = tables /\ Here.k # "return"
    BY <2>1 DEF LeaveChecked
  <2>3. found' = Extended(found, Where, record)
    BY <2>1 DEF Finding
  <2> QED
    BY <1>1, <2>2, <2>3 DEF Moves, Finds
<1>4. CASE CheckReturn
  <2> DEFINE what == [NoRecord EXCEPT !.by = tables[cur].fndecl]
  <2>1. what.by = tables[cur].fndecl
    BY DEF NoRecord
  <2>2. found' = Extended(found, Where, what)
    BY <1>4 DEF CheckReturn, Finding
  <2>3. tables' = tables /\ stage = "check"
    BY <1>4 DEF CheckReturn, LeaveChecked
  <2> HIDE DEF what
  <2> QED
    BY <1>1, <2>1, <2>2, <2>3 DEF Moves, Finds
<1>5. CASE LeaveOther
  BY <1>1, <1>5 DEF LeaveOther, LeaveChecked, Moves, Finds
<1> QED
  BY <1>2, <1>3, <1>4, <1>5

LEMMA TablesStep ==
    ASSUME [SNext]_svars,
           AreTables(tables), AreNamed(tables), at \in Seq(Nat),
           stage = "check" /\ Here.k = "for" => Where \in DOMAIN tables,
           stage = "declare" /\ dir = "down" => Ready
    PROVE  \/ Makes \/ Passes \/ Sets \/ PassesBy \/ Moves \/ Stands
           \/ UNCHANGED svars
<1>1. CASE \/ DeclareScope \/ DeclareModule \/ DeclareFunction
           \/ DeclareDescription \/ DeclareVariable \/ DeclareType \/ DeclareOther
  <2>1. stage = "declare" /\ dir = "down"
    BY <1>1 DEF DeclareScope, DeclareModule, DeclareFunction, DeclareDescription,
                DeclareVariable, DeclareType, DeclareOther, Declaring
  <2> QED
    BY <1>1, <2>1, TablesDeclared
<1>2. CASE CheckScope \/ CheckOther \/ CheckMatch \/ CheckFor
  BY <1>2, TablesChecked
<1>3. CASE LeaveDeclared \/ CheckUse \/ CheckReturn \/ LeaveOther
  BY <1>3, TablesLeft
<1> QED
  BY <1>1, <1>2, <1>3 DEF SNext, Done

-----------------------------------------------------------------------------
(* The place of the walk.                                                  *)

LEMMA PlaceIs ==
    ASSUME PlaceInv
    PROVE  /\ prog \in Programs /\ m \in DOMAIN prog /\ at \in Paths(m)
           /\ m \in Nat \ {0} /\ MaxDepth \in Nat /\ IsTree(prog[m].tree)
           /\ at \in Seq(Nat) /\ at \in PathsOf(prog[m].tree)
           /\ Kind(m, <<>>) \in {"root", "module"}
           /\ Here = Node(m, at) /\ Here.k = Kind(m, at)
           /\ Len(Here.ch) \in Nat /\ Kids(prog[m].tree, at) = 1..Len(Here.ch)
           /\ Here.ch = <<>> <=> Len(Here.ch) = 0
<1>1. /\ prog \in Programs /\ m \in DOMAIN prog /\ at \in Paths(m)
  BY DEF PlaceInv
<1>2. /\ IsTree(prog[m].tree) /\ MaxDepth \in Nat
      /\ at \in PathsOf(prog[m].tree) /\ at \in Seq(Nat)
      /\ Len(prog) \in Nat /\ m \in 1..Len(prog)
  BY TreeHere
<1>3. Kind(m, <<>>) \in {"root", "module"}
  BY <1>1, SourceTree
<1> DEFINE ch == NodeOf(prog[m].tree, at).ch
<1>4. Len(ch) \in Nat /\ (ch = <<>> <=> Len(ch) = 0)
  BY <1>2, ChildrenOfANode
<1>5. Here.ch = ch /\ Here = Node(m, at) /\ Kids(prog[m].tree, at) = 1..Len(ch)
  BY DEF Here, Node, Kids
<1> HIDE DEF ch
<1> QED
  BY <1>1, <1>2, <1>3, <1>4, <1>5 DEF Kind

LEMMA OuterIsElsewhere ==
    ASSUME prog \in Programs, NEW n \in DOMAIN prog, n \in Nat \ {0},
           NEW p \in Paths(n)
    PROVE  Outer(n, p) # <<n, p>>
<1>1. p \in Seq(Nat) /\ Kind(n, <<>>) \in {"root", "module"}
  BY SourceTree, NodeHere
<1>2. FileTable(n) # <<n, p>>
  BY DEF FileTable
<1>3. CASE p = <<>>
  BY <1>2, <1>3 DEF Outer
<1>4. CASE p # <<>>
  <2> DEFINE h == Longest(Holders(n, p))
  <2>1. <<>> \in Beginnings(p) \ {p}
    BY <1>1, <1>4, BeginningsNest
  <2>2. <<>> \in Holders(n, p)
    BY <1>1, <2>1 DEF Holders, Holds, Own
  <2>3. Holders(n, p) \in SUBSET Beginnings(p)
    BY DEF Holders
  <2>4. h \in Holders(n, p)
    BY <1>1, <2>2, <2>3, LongestIs
  <2> HIDE DEF h
  <2>5. h \in Beginnings(p) /\ h # p /\ Holds(n, h, NextStep(p, h))
    BY <2>4 DEF Holders
  <2>6. h \in Seq(Nat)
    BY <1>1, <2>5, BeginningsNest
  <2>7. ASSUME Append(h, 1) = p PROVE NextStep(p, h) = 1
    BY <2>6, <2>7, BeginningsOfChild
  <2>8. TableOf(n, h) # <<n, p>>
    <3>1. CASE Kind(n, h) = "root"
      BY <1>2, <3>1 DEF TableOf
    <3>2. CASE Kind(n, h) \in Lent
      <4>1. Append(h, 1) # p
        BY <2>5, <2>7, <3>2 DEF Holds, Lent, Own
      <4> QED
        BY <3>2, <4>1 DEF TableOf, Lent
    <3>3. CASE Kind(n, h) \notin Lent \cup {"root"}
      BY <2>5, <3>3 DEF TableOf, Lent
    <3> QED
      BY <3>1, <3>2, <3>3
  <2> QED
    BY <1>4, <2>8 DEF Outer, h
<1> QED
  BY <1>3, <1>4

(* What is current where the walk goes on.                                 *)
LEMMA CurrentBelow ==
    ASSUME prog \in Programs, NEW n \in DOMAIN prog, NEW p \in Paths(n)
    PROVE  /\ Kind(n, p) \in Own \cup {"root"} =>
                Outer(n, Append(p, 1)) = TableOf(n, p) /\ Inner(n, p) = TableOf(n, p)
           /\ Kind(n, p) \notin Own \cup {"root"} =>
                Outer(n, Append(p, 1)) = Outer(n, p)
           /\ Kind(n, p) \in Lent =>
                /\ Inner(n, p) = TableOf(n, p)
                /\ TableOf(n, p) = <<n, Append(p, 1)>>
                /\ Outer(n, Append(p, 1 + 1)) = TableOf(n, p)
           /\ Kind(n, p) \in Own => TableOf(n, p) = <<n, p>>
           /\ Kind(n, p) = "root" =>
                TableOf(n, p) = FileTable(n) /\ Outer(n, p) = FileTable(n)
           /\ Kind(n, p) \notin Own \cup Lent \cup {"root"} =>
                Inner(n, p) = Outer(n, p)
<1>1. p \in Seq(Nat) /\ Kind(n, <<>>) \in {"root", "module"}
      /\ (Kind(n, p) = "root" => p = <<>>)
  BY SourceTree, NodeHere
<1>2. \A i \in Nat : Outer(n, Append(p, i)) =
            IF Holds(n, p, i) THEN TableOf(n, p) ELSE Outer(n, p)
  BY <1>1, OuterOfChild
<1>3. /\ Kind(n, p) \in Own \cup {"root"} <=> Holds(n, p, 1)
      /\ Kind(n, p) \in Lent => Holds(n, p, 1 + 1)
  BY DEF Holds, Own, Lent
<1>4. Outer(n, <<>>) = FileTable(n)
  BY NothingAboveRoot
<1>5. /\ Kind(n, p) \in Own => TableOf(n, p) = <<n, p>>
      /\ Kind(n, p) \in Lent => TableOf(n, p) = <<n, Append(p, 1)>>
      /\ Kind(n, p) = "root" => TableOf(n, p) = FileTable(n)
  BY DEF TableOf, Own, Lent
<1>6. /\ Kind(n, p) \in Own \cup Lent \cup {"root"} => Inner(n, p) = TableOf(n, p)
      /\ Kind(n, p) \notin Own \cup Lent \cup {"root"} => Inner(n, p) = Outer(n, p)
  BY DEF Inner
<1>7. 1 \in Nat /\ 1 + 1 \in Nat
  OBVIOUS
<1>8. Outer(n, Append(p, 1)) = IF Holds(n, p, 1) THEN TableOf(n, p) ELSE Outer(n, p)
  BY <1>2, <1>7
<1>9. Outer(n, Append(p, 1 + 1)) = IF Holds(n, p, 1 + 1) THEN TableOf(n, p) ELSE Outer(n, p)
  BY <1>2, <1>7
<1> QED
  BY <1>1, <1>3, <1>4, <1>5, <1>6, <1>8, <1>9

LEMMA CurrentBeside ==
    ASSUME prog \in Programs, NEW n \in DOMAIN prog, NEW p \in Paths(n),
           NEW i \in Nat \ {0}, ~(Kind(n, p) \in Lent /\ i = 1)
    PROVE  /\ Outer(n, Append(p, i + 1)) = Outer(n, Append(p, i))
           /\ Inner(n, p) = Outer(n, Append(p, i))
<1>1. p \in Seq(Nat) /\ Kind(n, <<>>) \in {"root", "module"}
  BY SourceTree, NodeHere
<1>2. i \in Nat /\ i + 1 \in Nat /\ i + 1 # 1
  OBVIOUS
<1>3. Outer(n, Append(p, i)) = IF Holds(n, p, i) THEN TableOf(n, p) ELSE Outer(n, p)
  BY <1>1, <1>2, OuterOfChild
<1>4. Outer(n, Append(p, i + 1)) =
        IF Holds(n, p, i + 1) THEN TableOf(n, p) ELSE Outer(n, p)
  BY <1>1, <1>2, OuterOfChild
<1>5. /\ Holds(n, p, i) <=> Kind(n, p) \in Own \cup Lent \cup {"root"}
      /\ Holds(n, p, i + 1) <=> Kind(n, p) \in Own \cup Lent \cup {"root"}
  BY <1>2 DEF Holds
<1> QED
  BY <1>3, <1>4, <1>5 DEF Inner

(* On from a place: to its next sibling or up to its parent.               *)
LEMMA Onward ==
    ASSUME PlaceInv, at # <<>>, at' = NextPlace,
           dir' = IF NextPlace = Above(at) THEN "up" ELSE "down"
    PROVE  \E r \in Paths(m) : \E i \in Kids(prog[m].tree, r) :
            /\ at = Append(r, i) /\ Above(at) = r /\ i \in Nat \ {0} /\ r \in Seq(Nat)
            /\ \/ /\ at' = Append(r, i + 1) /\ dir' = "down"
                  /\ i + 1 \in Kids(prog[m].tree, r)
               \/ at' = r /\ dir' = "up"
<1> DEFINE tree == prog[m].tree
           r == Front(at)
           i == Last(at)
           ch == NodeOf(tree, r).ch
<1>1. /\ MaxDepth \in Nat /\ IsTree(tree) /\ at \in PathsOf(tree)
      /\ Paths(m) = PathsOf(tree)
  BY PlaceIs DEF Paths
<1>2. /\ r \in PathsOf(tree) /\ i \in Kids(tree, r) /\ i \in Nat \ {0}
      /\ at = Append(r, i)
  BY <1>1, PathAbove
<1>3. r \in Seq(Nat)
  BY <1>1, <1>2, StepsOfAPath
<1>4. Len(ch) \in Nat /\ Kids(tree, r) = 1..Len(ch)
  BY <1>1, <1>2, ChildrenOfANode DEF Kids
<1>5. Above(at) = r /\ Children(m, Above(at)) = ch
  BY DEF Above, Children, Node
<1> HIDE DEF tree, r, i, ch
<1>6. CASE i < Len(ch)
  <2>1. NextPlace = Append(r, i + 1)
    BY <1>5, <1>6 DEF NextPlace, i
  <2>2. i + 1 \in Kids(tree, r) /\ i + 1 \in Nat
    BY <1>2, <1>4, <1>6
  <2>3. PICK a \in Seq(Nat) : a = Append(r, i + 1) /\ Len(a) = Len(r) + 1
    BY <1>3, <2>2, OneStepOn
  <2>4. NextPlace # r
    BY <1>3, <2>1, <2>3
  <2>5. at' = Append(r, i + 1) /\ dir' = "down"
    BY <1>5, <2>1, <2>4
  <2> QED
    BY <1>1, <1>2, <1>3, <1>5, <2>2, <2>5 DEF tree
<1>7. CASE ~(i < Len(ch))
  <2>1. at' = r /\ dir' = "up"
    BY <1>5, <1>7 DEF NextPlace, i
  <2> QED
    BY <1>1, <1>2, <1>3, <1>5, <2>1 DEF tree
<1> QED
  BY <1>6, <1>7

-----------------------------------------------------------------------------
(* The tables and the walk down.                                           *)

TableInvs == ScopesIInv /\ TablesIInv

LEMMA TableInvsAre ==
    ASSUME TableInvs
    PROVE  PlaceInv /\ StoreInv /\ HungInv /\ CurInv /\ PatternInv /\ ReturnInv
           /\ AreTables(tables) /\ AreNamed(tables)
BY DEF TableInvs, ScopesIInv, TablesIInv, StoreInv

LEMMA HereIsReady ==
    ASSUME TableInvs, stage = "declare", dir = "down"
    PROVE  Ready
<1>1. /\ PlaceInv /\ StoreInv /\ HungInv /\ CurInv
      /\ AreTables(tables) /\ AreNamed(tables)
  BY TableInvsAre
<1>2. /\ prog \in Programs /\ m \in DOMAIN prog /\ at \in Paths(m)
      /\ m \in Nat \ {0} /\ at \in Seq(Nat) /\ Here.k = Kind(m, at)
      /\ Len(Here.ch) \in Nat /\ IsTree(prog[m].tree) /\ MaxDepth \in Nat
      /\ at \in PathsOf(prog[m].tree)
  BY <1>1, PlaceIs
<1>3. Walking
  BY DEF Walking
<1>4. cur = Outer(m, at) /\ Known(at)
  BY <1>1, <1>3, OuterIsKnown DEF CurInv
<1>5. cur \in DOMAIN tables /\ cur # Where
  BY <1>2, <1>4, OuterIsElsewhere DEF Known, Where
<1>6. ASSUME Here.k = "module" PROVE Where \in DOMAIN tables
  <2>1. at = <<>>
    BY <1>2, <1>6, NodeHere
  <2>2. TableOf(m, at) = <<m, at>>
    BY <1>2, <1>6 DEF TableOf
  <2>3. ModuleTable(m) = Where
    BY <2>1, <2>2 DEF ModuleTable, Where
  <2> QED
    BY <1>1, <1>2, <2>3 DEF StoreInv
<1>7. ASSUME Here.k = "fndecl" PROVE Len(Arguments) \in Nat
  <2>1. 1 \in Kids(prog[m].tree, at)
    BY <1>2, <1>7, NodeHere
  <2>2. Append(at, 1) \in PathsOf(prog[m].tree)
    BY <1>2, <2>1, ChildIsAPath
  <2>3. Len(NodeOf(prog[m].tree, Append(at, 1)).ch) \in Nat
    BY <1>2, <2>2, ChildrenOfANode
  <2> QED
    BY <2>3 DEF Arguments, Children, Node
<1> QED
  BY <1>1, <1>2, <1>5, <1>6, <1>7 DEF Ready

(* A table of a node in the second walk.                                   *)
LEMMA TablesOfTheCheck ==
    ASSUME TableInvs, stage = "check"
    PROVE  Kind(m, at) \in Own \cup Lent \cup {"root"} =>
                TableOf(m, at) \in DOMAIN tables
<1>1. /\ PlaceInv /\ StoreInv /\ HungInv /\ Walking
  BY TableInvsAre DEF Walking
<1>2. /\ prog \in Programs /\ m \in DOMAIN prog /\ at \in Paths(m)
  BY <1>1, PlaceIs
<1>3. \A q \in Paths(m) : Kind(m, q) \in Own => <<m, q>> \in DOMAIN tables
  BY <1>1 DEF HungInv, Entered
<1>4. CASE Kind(m, at) \in Own
  BY <1>2, <1>3, <1>4, CurrentBelow
<1>5. CASE Kind(m, at) = "root"
  BY <1>1, <1>2, <1>5, CurrentBelow DEF StoreInv
<1>6. CASE Kind(m, at) \in Lent
  <2>1. 1 \in Kids(prog[m].tree, at)
    BY <1>2, <1>6, NodeHere DEF Lent
  <2>2. Append(at, 1) \in Paths(m) /\ Kind(m, Append(at, 1)) \in {"fndecl", "typedesc"}
    BY <1>2, <1>6, <2>1, NodeBelowHere DEF Lent
  <2>3. TableOf(m, at) = <<m, Append(at, 1)>>
    BY <1>2, <1>6, CurrentBelow
  <2> QED
    BY <1>3, <2>2, <2>3 DEF Own
<1> QED
  BY <1>4, <1>5, <1>6

LEMMA TablesMove ==
    ASSUME TableInvs, [SNext]_svars
    PROVE  \/ Makes \/ Passes \/ Sets \/ PassesBy \/ Moves \/ Stands
           \/ UNCHANGED svars
<1>1. PlaceInv /\ AreTables(tables) /\ AreNamed(tables)
  BY TableInvsAre
<1>2. at \in Seq(Nat) /\ Here.k = Kind(m, at)
      /\ prog \in Programs /\ m \in DOMAIN prog /\ at \in Paths(m)
  BY <1>1, PlaceIs
<1>3. ASSUME stage = "check", Here.k = "for" PROVE Where \in DOMAIN tables
  <2>1. Kind(m, at) \in Own
    BY <1>2, <1>3 DEF Own
  <2>2. TableOf(m, at) = <<m, at>>
    BY <1>2, <2>1, CurrentBelow
  <2> QED
    BY <1>3, <2>1, <2>2, TablesOfTheCheck DEF Where
<1>4. stage = "declare" /\ dir = "down" => Ready
  BY HereIsReady
<1> QED
  BY <1>1, <1>2, <1>3, <1>4, TablesStep

(* Down: where the walk is next.                                           *)
LEMMA DownIs ==
    ASSUME PlaceInv, Descend
    PROVE  \/ /\ at' = at /\ dir' = "up" /\ Kids(prog[m].tree, at) = {}
           \/ /\ at' = Append(at, 1) /\ dir' = "down" /\ 1 \in Kids(prog[m].tree, at)
<1>1. /\ Len(Here.ch) \in Nat /\ Kids(prog[m].tree, at) = 1..Len(Here.ch)
      /\ Here.ch = <<>> <=> Len(Here.ch) = 0
  BY PlaceIs
<1>2. CASE Here.ch = <<>>
  <2>1. 1..Len(Here.ch) = {}
    BY <1>1, <1>2
  <2> QED
    BY <1>1, <1>2, <2>1 DEF Descend
<1>3. CASE Here.ch # <<>>
  <2>1. 1 \in 1..Len(Here.ch)
    BY <1>1, <1>3
  <2> QED
    BY <1>1, <1>3, <2>1 DEF Descend
<1> QED
  BY <1>2, <1>3

(* Down: what is current next.                                             *)
LEMMA DownCurrent ==
    ASSUME TableInvs, Makes \/ Passes \/ Sets
    PROVE  CurInv'
<1>1. PlaceInv /\ CurInv /\ HungInv /\ StoreInv
  BY TableInvsAre
<1>2. /\ prog \in Programs /\ m \in DOMAIN prog /\ at \in Paths(m)
      /\ at \in Seq(Nat) /\ Here.k = Kind(m, at)
  BY <1>1, PlaceIs
<1>3. GoesDown
  BY DEF Makes, Passes, Sets
<1>4. /\ Walking /\ dir = "down" /\ Descend /\ prog' = prog /\ stage' = stage
      /\ m' = m
  BY <1>3 DEF GoesDown
<1> DEFINE a == Append(at, 1)
           tree == prog[m].tree
<1>5. \/ /\ at' = at /\ dir' = "up" /\ Kids(tree, at) = {}
      \/ /\ at' = a /\ dir' = "down" /\ 1 \in Kids(tree, at)
  BY <1>1, <1>4, DownIs
<1>6. /\ Kind(m, at) \in Own \cup {"root"} =>
                Outer(m, a) = TableOf(m, at) /\ Inner(m, at) = TableOf(m, at)
      /\ Kind(m, at) \notin Own \cup {"root"} => Outer(m, a) = Outer(m, at)
      /\ Kind(m, at) \in Lent => Inner(m, at) = TableOf(m, at)
      /\ Kind(m, at) \in Own => TableOf(m, at) = <<m, at>>
      /\ Kind(m, at) = "root" =>
                TableOf(m, at) = FileTable(m) /\ Outer(m, at) = FileTable(m)
      /\ Kind(m, at) \notin Own \cup Lent \cup {"root"} =>
                Inner(m, at) = Outer(m, at)
  BY <1>2, CurrentBelow
<1>7. Kind(m, at) \in Lent => 1 \in Kids(tree, at)
  BY <1>2, NodeHere DEF Lent
<1>8. ASSUME 1 \in Kids(tree, at), Kind(m, at) \in Lent
      PROVE  Kind(m, a) \in {"fndecl", "typedesc"}
  BY <1>2, <1>8, NodeBelowHere DEF Lent
<1>9. /\ \A p : Kind(m, p)' = Kind(m, p) /\ Outer(m, p)' = Outer(m, p)
                /\ Inner(m, p)' = Inner(m, p)
  BY <1>4, TreesKeep
<1>10. stage = "declare" \/ stage = "check"
  BY <1>4 DEF Walking
<1>11. Kind(m, at) \in {"root", "module"} <=> at = <<>>
  BY <1>2, NodeHere
<1> HIDE DEF a, tree
<1>12. /\ stage = "declare" => cur = Outer(m, at)
       /\ stage = "check" /\ Kind(m, at) \notin Own \cup Lent \cup {"root"} =>
            cur = Outer(m, at)
  BY <1>1, <1>4, <1>11 DEF CurInv, Own
<1>13. /\ stage = "declare" /\ Kind(m, at) \in Own => cur' = TableOf(m, at)
       /\ stage = "declare" /\ Kind(m, at) \notin Own => cur' = cur
       /\ stage = "check" => cur' = IF Kind(m, at) \in Own \cup Lent \cup {"root"}
                                    THEN TableOf(m, at) ELSE cur
  <2>1. OpensScope \cup {"fndecl"} = Own \cup Lent \cup {"root"}
    BY DEF OpensScope, Own, Lent
  <2>2. CASE Makes
    BY <1>2, <1>6, <2>2 DEF Makes, Where
  <2>3. CASE Passes
    BY <1>2, <2>3 DEF Passes
  <2>4. CASE Sets
    BY <1>2, <2>1, <2>4 DEF Sets
  <2> QED
    BY <2>2, <2>3, <2>4
<1>14. Own \cap Lent = {} /\ "root" \notin Own \cup Lent
  BY DEF Own, Lent
<1>15. ASSUME at' = at, dir' = "up", Kids(tree, at) = {}
       PROVE  cur' = Inner(m, at)
  BY <1>6, <1>7, <1>10, <1>12, <1>13, <1>14, <1>15
<1>16. ASSUME at' = a, dir' = "down", 1 \in Kids(tree, at)
       PROVE  /\ stage = "declare" => cur' = Outer(m, a)
              /\ stage = "check" =>
                    cur' = Outer(m, a) \/ Kind(m, a) \in {"fndecl", "typedesc"}
  BY <1>6, <1>8, <1>10, <1>12, <1>13, <1>14, <1>16
<1>17. cur' \in DOMAIN tables' \cup {NoTable}
  <2>1. CASE Makes
    BY <2>1 DEF Makes, Grown
  <2>2. CASE Passes
    BY <1>1, <2>2 DEF Passes, Alike, CurInv
  <2>3. CASE Sets
    <3>1. DOMAIN tables' = DOMAIN tables /\ stage = "check"
      BY <2>3 DEF Sets, Alike
    <3>2. Kind(m, at) \in Own \cup Lent \cup {"root"} => TableOf(m, at) \in DOMAIN tables
      BY <3>1, TablesOfTheCheck
    <3> QED
      BY <1>1, <1>13, <3>1, <3>2 DEF CurInv
  <2> QED
    BY <2>1, <2>2, <2>3
<1>18. /\ (dir = "up" => cur = Inner(m, at))'
       /\ (stage = "declare" /\ dir = "down" => cur = Outer(m, at))'
       /\ (stage = "check" /\ dir = "down" =>
            cur = Outer(m, at) \/ at = <<>> \/ Kind(m, at) \in {"fndecl", "typedesc"})'
  <2>1. CASE at' = at /\ dir' = "up" /\ Kids(tree, at) = {}
    <3>1. cur' = Inner(m, at)
      BY <1>15, <2>1
    <3>2. Inner(m, at)' = Inner(m, at)
      <4>1. PICK p : p = at
        OBVIOUS
      <4>2. Inner(m, p)' = Inner(m, p)
        BY <1>9
      <4> QED
        BY <1>4, <2>1, <4>1, <4>2
    <3> QED
      BY <2>1, <3>1, <3>2
  <2>2. CASE at' = a /\ dir' = "down" /\ 1 \in Kids(tree, at)
    <3>1. PICK p : p = a
      OBVIOUS
    <3>2. Outer(m, p)' = Outer(m, p) /\ Kind(m, p)' = Kind(m, p)
      BY <1>9
    <3>3. at' = p
      BY <2>2, <3>1
    <3>4. Outer(m, at)' = Outer(m, p) /\ Kind(m, at)' = Kind(m, p)
      BY <1>4, <3>2, <3>3
    <3> QED
      BY <1>4, <1>16, <2>2, <3>1, <3>4
  <2> QED
    BY <1>5, <2>1, <2>2
<1> QED
  BY <1>17, <1>18 DEF CurInv

(* The same names, next.                                                   *)
LEMMA NamesKeep ==
    ASSUME prog' = prog, NEW ts, AreNamed(ts), tables' = ts
    PROVE  AreNamed(tables)'
<1>1. \A n, p : Node(n, p)' = Node(n, p)
  BY TreesKeep
<1> QED
  BY <1>1 DEF AreNamed

LEMMA StoreKeeps ==
    ASSUME TableInvs, prog' = prog, NEW ts, tables' = ts,
           AreTables(ts), AreNamed(ts), DOMAIN tables \subseteq DOMAIN ts,
           \A u \in DOMAIN tables : u # Where =>
                ts[u].parent = tables[u].parent /\ ts[u].fndecl = tables[u].fndecl
    PROVE  StoreInv'
<1>1. PlaceInv /\ StoreInv
  BY TableInvsAre
<1>2. m \in Nat \ {0}
  BY <1>1, PlaceIs
<1>3. AreTables(tables)' /\ AreNamed(tables)'
  BY NamesKeep
<1>4. ASSUME NEW n \in DOMAIN prog
      PROVE  /\ FileTable(n) \in DOMAIN ts /\ ModuleTable(n) \in DOMAIN ts
             /\ ts[FileTable(n)].parent = NoTable
             /\ ts[FileTable(n)].fndecl = NoWhere
             /\ FileTable(n)' = FileTable(n) /\ ModuleTable(n)' = ModuleTable(n)
  <2>1. /\ FileTable(n) \in DOMAIN tables /\ ModuleTable(n) \in DOMAIN tables
        /\ tables[FileTable(n)].parent = NoTable
        /\ tables[FileTable(n)].fndecl = NoWhere
    BY <1>1 DEF StoreInv
  <2>2. FileTable(n) # Where
    BY <1>2 DEF FileTable, Where
  <2>3. FileTable(n)' = FileTable(n) /\ ModuleTable(n)' = ModuleTable(n)
    BY TreesKeep
  <2> QED
    BY <2>1, <2>2, <2>3
<1> QED
  BY <1>3, <1>4 DEF StoreInv

LEMMA DownStore ==
    ASSUME TableInvs, Makes \/ Passes \/ Sets
    PROVE  StoreInv'
<1>1. prog' = prog
  BY DEF Makes, Passes, Sets, GoesDown
<1>2. PICK ts : ts = tables'
  OBVIOUS
<1>3. CASE Makes
  BY <1>1, <1>2, <1>3, StoreKeeps DEF Makes, Grown
<1>4. CASE Passes \/ Sets
  <2>1. Alike(tables, ts)
    BY <1>2, <1>4 DEF Passes, Sets
  <2> QED
    BY <1>1, <1>2, <2>1, StoreKeeps DEF Alike
<1> QED
  BY <1>3, <1>4

(* On the way down in the first walk only the node itself is entered.      *)
LEMMA EnteredDown ==
    ASSUME PlaceInv, GoesDown, stage = "declare", NEW q \in Paths(m), Entered(q)'
    PROVE  Entered(q) \/ q = at
<1>1. /\ dir = "down" /\ Descend /\ prog' = prog /\ m' = m /\ stage' = stage
  BY DEF GoesDown
<1>2. Behind(q)' <=> Behind(q)
  BY <1>1, DownAStep
<1>3. stage' # "check"
  BY <1>1
<1>4. Behind(q)' \/ (q \in Beginnings(at)' /\ (q # at' \/ dir' = "up"))
  BY <1>3 DEF Entered
<1>5. at \in Seq(Nat)
  BY PlaceIs
<1>6. \/ at' = at
      \/ at' = Append(at, 1) /\ dir' = "down"
  BY <1>1, DownIs
<1>7. ASSUME q \in Beginnings(at)', q # at' \/ dir' = "up"
      PROVE  q \in Beginnings(at)
  <2>1. Beginnings(at)' = Beginnings(at')
    BY DEF Beginnings
  <2>2. CASE at' = at
    BY <1>7, <2>1, <2>2
  <2>3. CASE at' = Append(at, 1) /\ dir' = "down"
    <3>1. Beginnings(Append(at, 1)) = Beginnings(at) \cup {Append(at, 1)}
      BY <1>5, BeginningsOfChild
    <3>2. q \in Beginnings(Append(at, 1)) /\ q # Append(at, 1)
      BY <1>7, <2>1, <2>3
    <3> QED
      BY <3>1, <3>2
  <2> QED
    BY <1>6, <2>2, <2>3
<1> QED
  BY <1>2, <1>4, <1>7 DEF Entered

LEMMA HungKeeps ==
    ASSUME TableInvs, prog' = prog, m' = m, Walking,
           \A q \in Paths(m) : Kind(m, q) \in Own /\ Entered(q)' =>
                /\ <<m, q>> \in DOMAIN tables'
                /\ tables'[<<m, q>>].parent = Outer(m, q)
                /\ tables'[<<m, q>>].fndecl =
                        IF Kind(m, q) = "fndecl" THEN <<m, q>> ELSE FnSeen(m, q)
    PROVE  HungInv'
<1>1. PICK n : n = m
  OBVIOUS
<1>2. Paths(n)' = Paths(n) /\ \A q : /\ Kind(n, q)' = Kind(n, q)
                                     /\ Outer(n, q)' = Outer(n, q)
                                     /\ FnSeen(n, q)' = FnSeen(n, q)
  BY TreesKeep
<1>3. Paths(m)' = Paths(m) /\ \A q : /\ Kind(m, q)' = Kind(m, q)
                                     /\ Outer(m, q)' = Outer(m, q)
                                     /\ FnSeen(m, q)' = FnSeen(m, q)
  BY <1>1, <1>2
<1>4. ASSUME NEW q \in Paths(m), Kind(m, q) \in Own, Entered(q)'
      PROVE  /\ <<m, q>>' = <<m, q>> /\ <<m, q>> \in DOMAIN tables'
             /\ tables'[<<m, q>>].parent = Outer(m, q)
             /\ tables'[<<m, q>>].fndecl =
                        IF Kind(m, q) = "fndecl" THEN <<m, q>> ELSE FnSeen(m, q)
  BY <1>4
<1> QED
  BY <1>3, <1>4 DEF HungInv

LEMMA DownHung ==
    ASSUME TableInvs, Makes \/ Passes \/ Sets
    PROVE  HungInv'
<1>1. PlaceInv /\ CurInv /\ HungInv /\ StoreInv
  BY TableInvsAre
<1>2. GoesDown
  BY DEF Makes, Passes, Sets
<1>3. /\ Walking /\ dir = "down" /\ prog' = prog /\ m' = m /\ stage' = stage
  BY <1>2 DEF GoesDown
<1>4. Here.k = Kind(m, at)
  BY <1>1, PlaceIs
<1>5. ASSUME NEW q \in Paths(m), Kind(m, q) \in Own, Entered(q)
      PROVE  /\ <<m, q>> \in DOMAIN tables
             /\ tables[<<m, q>>].parent = Outer(m, q)
             /\ tables[<<m, q>>].fndecl =
                        IF Kind(m, q) = "fndecl" THEN <<m, q>> ELSE FnSeen(m, q)
  BY <1>1, <1>3, <1>5 DEF HungInv
<1>6. ASSUME NEW q \in Paths(m), Kind(m, q) \in Own, Entered(q)'
      PROVE  /\ <<m, q>> \in DOMAIN tables'
             /\ tables'[<<m, q>>].parent = Outer(m, q)
             /\ tables'[<<m, q>>].fndecl =
                        IF Kind(m, q) = "fndecl" THEN <<m, q>> ELSE FnSeen(m, q)
  <2>1. CASE Makes
    <3>1. stage = "declare" /\ Grown(tables') /\ cur = Outer(m, at)
      BY <1>1, <1>3, <2>1 DEF Makes, CurInv
    <3>2. Entered(q) \/ q = at
      BY <1>1, <1>2, <1>6, <3>1, EnteredDown
    <3>3. CASE q = at
      <4>1. Known(at)
        BY <1>1, <1>3, OuterIsKnown
      <4>2. tables[cur].fndecl = FnSeen(m, at)
        BY <3>1, <4>1 DEF Known
      <4>3. /\ Where \in DOMAIN tables' /\ tables'[Where].parent = cur
            /\ tables'[Where].fndecl =
                    IF Here.k = "fndecl" THEN Where ELSE tables[cur].fndecl
        BY <3>1 DEF Grown
      <4>4. <<m, q>> = Where
        BY <3>3 DEF Where
      <4> QED
        BY <1>4, <3>1, <3>3, <4>2, <4>3, <4>4
    <3>4. CASE q # at /\ Entered(q)
      <4>1. <<m, q>> # Where
        BY <3>4 DEF Where
      <4>2. <<m, q>> \in DOMAIN tables
        BY <1>5, <1>6, <3>4
      <4>3. /\ <<m, q>> \in DOMAIN tables'
            /\ tables'[<<m, q>>].parent = tables[<<m, q>>].parent
            /\ tables'[<<m, q>>].fndecl = tables[<<m, q>>].fndecl
        BY <3>1, <4>1, <4>2 DEF Grown
      <4> QED
        BY <1>5, <1>6, <3>4, <4>3
    <3> QED
      BY <3>2, <3>3, <3>4
  <2>2. CASE Passes \/ Sets
    <3>1. Alike(tables, tables')
      BY <2>2 DEF Passes, Sets
    <3>2. Entered(q)
      <4>1. CASE stage = "check"
        BY <4>1 DEF Entered
      <4>2. CASE stage # "check"
        <5>1. stage = "declare" /\ Kind(m, at) \notin Own
          BY <1>4, <2>2, <4>2 DEF Passes, Sets
        <5>2. Entered(q) \/ q = at
          BY <1>1, <1>2, <1>6, <5>1, EnteredDown
        <5> QED
          BY <1>6, <5>1, <5>2
      <4> QED
        BY <4>1, <4>2
    <3>3. <<m, q>> \in DOMAIN tables
      BY <1>5, <1>6, <3>2
    <3> QED
      BY <1>5, <1>6, <3>1, <3>2, <3>3 DEF Alike
  <2> QED
    BY <2>1, <2>2
<1> QED
  BY <1>3, <1>6, HungKeeps

(* Down: the list of parents goes on from the pattern.                     *)
LEMMA DownPattern ==
    ASSUME TableInvs, GoesDown
    PROVE  PatternInv'
<1>1. PlaceInv /\ PatternInv /\ ParentsInv
  BY TableInvsAre DEF TableInvs, ScopesIInv
<1>2. /\ prog \in Programs /\ m \in DOMAIN prog /\ at \in Paths(m) /\ at \in Seq(Nat)
  BY <1>1, PlaceIs
<1>3. /\ Walking /\ dir = "down" /\ Descend /\ prog' = prog /\ m' = m /\ stage' = stage
      /\ parents' = Append(parents, at)
  BY DEF GoesDown
<1>4. IsSeq(parents)
  BY <1>1, <1>3 DEF ParentsInv
<1> DEFINE a == Append(at, 1)
           n == Len(parents)
<1>5. \/ /\ at' = at /\ dir' = "up"
      \/ /\ at' = a /\ dir' = "down" /\ 1 \in Kids(prog[m].tree, at)
  BY <1>1, <1>3, DownIs
<1>6. Len(parents') = n + 1 /\ n \in Nat
  BY <1>3, <1>4, ParentsGrow
<1>7. parents'[n + 1] = at /\ \A k \in 1..n : parents'[k] = parents[k]
  <2>1. parents \in Seq(Range(parents))
    BY <1>4 DEF IsSeq
  <2> QED
    BY <1>3, <2>1
<1>8. \A p : Kind(m, p)' = Kind(m, p)
  BY <1>3, TreesKeep
<1>9. a # <<>> /\ Above(a) = at
  BY <1>2, BeginningsOfChild DEF Above
<1>10. Kind(m, at) = "typedesc" => parents[n] = Above(at)
  <2>1. n - 0 = n
    BY <1>6
  <2> QED
    BY <1>1, <1>3, <2>1 DEF PatternInv
<1>11. at # <<>> /\ Kind(m, Above(at)) = "typedesc" =>
            parents[n - 1] = Above(Above(at))
  <2>1. n - 0 - 1 = n - 1
    BY <1>6
  <2> QED
    BY <1>1, <1>3, <2>1 DEF PatternInv
<1>12. Len(at) \in Nat /\ Len(at) <= n /\ (at # <<>> => Len(at) # 0)
  <2>1. n = Len(WayHere) + Cardinality(lost) /\ Len(WayHere) = Len(at) /\ Len(at) \in Nat
    BY <1>1, <1>3, WayHereIsASeq DEF ParentsInv
  <2>2. Cardinality(lost) \in Nat
    BY <1>3, FS_CardinalityType DEF TableInvs, ScopesIInv, LostInv
  <2>3. at # <<>> => Len(at) # 0
    BY <1>2
  <2> QED
    BY <1>6, <2>1, <2>2, <2>3
<1>13. Kind(m, at) = "typedesc" => at # <<>>
  BY <1>2, NodeHere
<1>14. at # <<>> => /\ Front(at) \in Paths(m) /\ Last(at) \in Kids(prog[m].tree, Front(at))
                    /\ at = Append(Front(at), Last(at)) /\ Above(at) = Front(at)
  <2>1. MaxDepth \in Nat /\ at \in PathsOf(prog[m].tree)
    BY <1>1, PlaceIs
  <2> QED
    BY <2>1, PathAbove DEF Paths, Above
<1> HIDE DEF a, n
<1>15. CASE at' = at /\ dir' = "up"
  <2>1. ASSUME Kind(m, at) = "typedesc" PROVE parents'[(n + 1) - 1] = Above(at)
    <3>1. n \in 1..n /\ (n + 1) - 1 = n
      BY <1>6, <1>12, <1>13, <2>1
    <3> QED
      BY <1>7, <1>10, <2>1, <3>1
  <2>2. ASSUME at # <<>>, Kind(m, Above(at)) = "typedesc"
        PROVE  parents'[(n + 1) - 1 - 1] = Above(Above(at))
    <3>1. Front(at) # <<>>
      BY <1>2, <1>14, <2>2, NodeHere
    <3>2. Len(at) >= 2
      <4>1. Front(at) \in Seq(Nat)
        BY <1>2, <1>14, <2>2, NodeHere
      <4>2. Len(Front(at)) # 0
        BY <3>1, <4>1
      <4>3. Len(Front(at)) = Len(at) - 1
        BY <1>2, <1>12, <2>2, FrontOfASeq
      <4> QED
        BY <1>12, <4>2, <4>3
    <3>3. n - 1 \in 1..n /\ (n + 1) - 1 - 1 = n - 1
      BY <1>6, <1>12, <3>2
    <3> QED
      BY <1>7, <1>11, <2>2, <3>3
  <2>3. Above(at)' = Above(at) /\ Above(Above(at))' = Above(Above(at))
    BY <1>15 DEF Above
  <2>4. Kind(m, at)' = Kind(m, at) /\ Kind(m, Above(at))' = Kind(m, Above(at))
    <3>1. PICK p, q : p = at /\ q = Above(at)
      OBVIOUS
    <3>2. Kind(m, p)' = Kind(m, p) /\ Kind(m, q)' = Kind(m, q)
      BY <1>8
    <3> QED
      BY <1>3, <1>15, <2>3, <3>1, <3>2
  <2> QED
    BY <1>6, <1>15, <2>1, <2>2, <2>3, <2>4 DEF PatternInv
<1>16. CASE at' = a /\ dir' = "down" /\ 1 \in Kids(prog[m].tree, at)
  <2>1. parents'[(n + 1) - 0] = at
    <3>1. (n + 1) - 0 = n + 1
      BY <1>6
    <3> QED
      BY <1>7, <3>1
  <2>2. ASSUME Kind(m, at) = "typedesc" PROVE parents'[(n + 1) - 0 - 1] = Above(at)
    <3>1. n \in 1..n /\ (n + 1) - 0 - 1 = n
      BY <1>6, <1>12, <1>13, <2>2
    <3> QED
      BY <1>7, <1>10, <2>2, <3>1
  <2>3. Above(at)' = at /\ Above(Above(at))' = Above(at)
    BY <1>9, <1>16 DEF Above
  <2>4. Kind(m, Above(at))' = Kind(m, at)
    <3>1. PICK p : p = at
      OBVIOUS
    <3>2. Kind(m, p)' = Kind(m, p)
      BY <1>8
    <3>3. Above(at)' = p
      BY <2>3, <3>1
    <3> QED
      BY <1>3, <3>1, <3>2, <3>3
  <2> QED
    BY <1>6, <1>16, <2>1, <2>2, <2>3, <2>4 DEF PatternInv
<1> QED
  BY <1>5, <1>15, <1>16

LEMMA FoundKeeps ==
    ASSUME ReturnInv, prog' = prog, found' = found
    PROVE  ReturnInv'
<1>1. \A n, p : Kind(n, p)' = Kind(n, p) /\ FunctionAround(n, p)' = FunctionAround(n, p)
  BY TreesKeep
<1> QED
  BY <1>1 DEF ReturnInv

LEMMA DownKeepsTables ==
    ASSUME TableInvs, Makes \/ Passes \/ Sets
    PROVE  TablesIInv'
<1>1. GoesDown /\ ReturnInv
  BY TableInvsAre DEF Makes, Passes, Sets
<1>2. StoreInv' /\ HungInv' /\ CurInv' /\ PatternInv'
  BY <1>1, DownStore, DownHung, DownCurrent, DownPattern
<1>3. ReturnInv'
  BY <1>1, FoundKeeps DEF GoesDown
<1> QED
  BY <1>2, <1>3 DEF TablesIInv

-----------------------------------------------------------------------------
(* The tables and the walk on and up.                                      *)

(* What is restored: the table around the node, but that of the head or    *)
(* the pattern after one of these.                                         *)
LEMMA RestoredIs ==
    ASSUME TableInvs, Walking, dir = "up",
           NEW r \in Paths(m), NEW i \in Kids(prog[m].tree, r),
           at = Append(r, i), Above(at) = r
    PROVE  /\ Restored = IF Kind(m, r) \in Lent /\ i = 1
                         THEN TableOf(m, r) ELSE Outer(m, at)
           /\ Restored \in DOMAIN tables \cup {NoTable}
<1>1. PlaceInv /\ StoreInv /\ HungInv /\ CurInv /\ PatternInv /\ ParentsInv
  BY TableInvsAre DEF TableInvs, ScopesIInv
<1>2. /\ prog \in Programs /\ m \in DOMAIN prog /\ at \in Paths(m)
      /\ at \in Seq(Nat) /\ Here.k = Kind(m, at) /\ Here = Node(m, at)
  BY <1>1, PlaceIs
<1>3. cur = Inner(m, at) /\ cur \in DOMAIN tables \cup {NoTable}
  BY <1>1 DEF CurInv
<1>4. Known(at)
  BY <1>1, OuterIsKnown
<1>5. /\ Kind(m, r) = "fnimpl" /\ i = 1 <=> Here.k = "fndecl" /\ Here.ty = "impl"
      /\ Kind(m, at) = "typedesc" => i = 1
      /\ Kind(m, r) = "case" /\ i = 1 => Kind(m, at) = "typedesc"
      /\ i \in Nat \ {0}
  BY <1>2, NodeBelowHere
<1>6. r \in Seq(Nat) /\ at # <<>>
  BY <1>2, BeginningsOfChild, NodeHere
<1>7. Kind(m, at) \notin {"root", "module"}
  BY <1>2, <1>6, NodeHere
<1>8. Kind(m, at) = "typedesc" => NthParent(0) = r
  <2>1. Len(parents) \in Nat
    <3>1. IsSeq(parents)
      BY <1>1 DEF ParentsInv
    <3> QED
      BY <3>1, ParentsGrow
  <2>2. Len(parents) - 1 - 0 = Len(parents) - 1
    BY <2>1
  <2> QED
    BY <1>1, <2>2 DEF PatternInv, NthParent
<1>9. KeepsTable <=> Kind(m, r) \in Lent /\ i = 1
  BY <1>2, <1>5, <1>8 DEF KeepsTable, Lent
<1>10. CASE KeepsTable
  <2>1. Restored = cur
    BY <1>10 DEF Restored
  <2>2. Kind(m, at) \in Own
    BY <1>2, <1>10 DEF KeepsTable, Own
  <2>3. Inner(m, at) = <<m, at>>
    BY <1>2, <2>2, CurrentBelow
  <2>4. TableOf(m, r) = <<m, Append(r, 1)>>
    BY <1>2, <1>9, <1>10, CurrentBelow
  <2>5. TableOf(m, r) = <<m, at>>
    BY <1>9, <1>10, <2>4
  <2> QED
    BY <1>3, <1>9, <1>10, <2>1, <2>3, <2>5
<1>11. CASE ~KeepsTable
  <2>1. Restored = Outer(m, at)
    <3>1. Restored = IF Kind(m, at) \in Own \cup Lent
                     THEN tables[TableOf(m, at)].parent ELSE cur
      BY <1>2, <1>7, <1>11 DEF Restored, IsScope, OpensScope, Own, Lent
    <3>2. CASE Kind(m, at) \in Own
      <4>1. TableOf(m, at) = <<m, at>>
        BY <1>2, <3>2, CurrentBelow
      <4>2. at \in Beginnings(at)
        BY <1>2, BeginningsNest
      <4>3. Entered(at)
        BY <4>2, dir = "up" DEF Entered
      <4>4. tables[<<m, at>>].parent = Outer(m, at)
        BY <1>1, <1>2, <3>2, <4>3 DEF HungInv
      <4> QED
        BY <3>1, <3>2, <4>1, <4>4
    <3>3. CASE Kind(m, at) \in Lent
      <4> DEFINE a == Append(at, 1)
      <4>1. TableOf(m, at) = <<m, a>> /\ Outer(m, a) = Outer(m, at)
        BY <1>2, <3>3, CurrentBelow DEF Own, Lent
      <4>2. 1 \in Kids(prog[m].tree, at)
        BY <1>2, <3>3, NodeHere DEF Lent
      <4>3. a \in Paths(m) /\ Kind(m, a) \in {"fndecl", "typedesc"}
        BY <1>2, <3>3, <4>2, NodeBelowHere DEF Lent
      <4>4. Entered(a)
        <5>1. PICK b \in Seq(Nat) :
                /\ b = a /\ Len(b) = Len(at) + 1 /\ \A j \in 1..Len(at) : b[j] = at[j]
          BY <1>2, OneStepOn
        <5>2. Len(at) \in Nat
          BY <1>2
        <5>3. Within(b, at)
          BY <5>1, <5>2 DEF Within
        <5> QED
          BY <5>1, <5>3, dir = "up" DEF Entered, Behind
      <4> HIDE DEF a
      <4>5. tables[<<m, a>>].parent = Outer(m, a)
        BY <1>1, <4>3, <4>4 DEF HungInv, Own
      <4> QED
        BY <3>1, <3>3, <4>1, <4>5
    <3>4. CASE Kind(m, at) \notin Own \cup Lent
      <4>1. Inner(m, at) = Outer(m, at)
        BY <1>2, <1>7, <3>4, CurrentBelow
      <4> QED
        BY <1>3, <3>1, <3>4, <4>1
    <3> QED
      BY <3>2, <3>3, <3>4
  <2> QED
    BY <1>4, <1>9, <1>11, <2>1 DEF Known
<1> QED
  BY <1>10, <1>11

(* On: nothing is entered.                                                 *)
LEMMA EnteredOn ==
    ASSUME PlaceInv, at # <<>>, at' = NextPlace, prog' = prog, m' = m,
           stage' = stage, dir' = IF NextPlace = Above(at) THEN "up" ELSE "down",
           stage = "check" \/ dir = "up",
           NEW q \in Paths(m), Entered(q)'
    PROVE  Entered(q)
<1>1. CASE stage = "check"
  BY <1>1 DEF Entered
<1>2. CASE stage # "check"
  <2>1. dir = "up" /\ stage' # "check"
    BY <1>2
  <2>2. PICK r \in Paths(m) : \E i \in Kids(prog[m].tree, r) :
            /\ at = Append(r, i) /\ i \in Nat \ {0} /\ r \in Seq(Nat)
            /\ \/ at' = Append(r, i + 1) /\ dir' = "down"
               \/ at' = r /\ dir' = "up"
    BY Onward
  <2>3. PICK i \in Nat \ {0} :
            /\ at = Append(r, i) /\ r \in Seq(Nat)
            /\ \/ at' = Append(r, i + 1) /\ dir' = "down"
               \/ at' = r /\ dir' = "up"
    BY <2>2
  <2>4. Behind(q)' => LeftOf(q, at) \/ q = at \/ Within(q, at)
    BY OnAStep
  <2>5. /\ Beginnings(Append(r, i)) = Beginnings(r) \cup {Append(r, i)}
        /\ Beginnings(Append(r, i + 1)) = Beginnings(r) \cup {Append(r, i + 1)}
    <3>1. i \in Nat /\ i + 1 \in Nat
      OBVIOUS
    <3> QED
      BY <2>3, <3>1, BeginningsOfChild
  <2>6. at \in Beginnings(at) /\ Beginnings(r) \subseteq Beginnings(at)
    BY <2>3, <2>5
  <2>7. Beginnings(at)' = Beginnings(at')
    BY DEF Beginnings
  <2>8. CASE Behind(q)'
    BY <2>1, <2>4, <2>6, <2>8 DEF Entered, Behind
  <2>9. CASE q \in Beginnings(at)' /\ (q # at' \/ dir' = "up")
    <3>1. q \in Beginnings(r)
      <4>1. CASE at' = Append(r, i + 1) /\ dir' = "down"
        BY <2>5, <2>7, <2>9, <4>1
      <4>2. CASE at' = r
        BY <2>7, <2>9, <4>2
      <4> QED
        BY <2>3, <4>1, <4>2
    <3> QED
      BY <2>1, <2>6, <3>1 DEF Entered
  <2> QED
    BY <2>1, <2>8, <2>9 DEF Entered
<1> QED
  BY <1>1, <1>2

(* On with the same tables and a current one that is right for what comes. *)
LEMMA OnKeeps ==
    ASSUME TableInvs, Walking, at # <<>>, at' = NextPlace, prog' = prog, m' = m,
           stage' = stage, dir' = IF NextPlace = Above(at) THEN "up" ELSE "down",
           stage = "check" \/ dir = "up", tables' = tables,
           cur' \in DOMAIN tables \cup {NoTable},
           NEW r \in Paths(m), NEW i \in Kids(prog[m].tree, r),
           at = Append(r, i), Above(at) = r,
           cur' = IF Kind(m, r) \in Lent /\ i = 1 THEN TableOf(m, r) ELSE Outer(m, at)
    PROVE  StoreInv' /\ HungInv' /\ CurInv'
<1>1. /\ PlaceInv /\ StoreInv /\ HungInv /\ AreTables(tables) /\ AreNamed(tables)
  BY TableInvsAre
<1>2. /\ prog \in Programs /\ m \in DOMAIN prog /\ at \in Paths(m)
      /\ at \in Seq(Nat)
  BY <1>1, PlaceIs
<1>3. StoreInv'
  BY <1>1, StoreKeeps
<1>4. HungInv'
  <2>1. ASSUME NEW q \in Paths(m), Kind(m, q) \in Own, Entered(q)'
        PROVE  /\ <<m, q>> \in DOMAIN tables'
               /\ tables'[<<m, q>>].parent = Outer(m, q)
               /\ tables'[<<m, q>>].fndecl =
                        IF Kind(m, q) = "fndecl" THEN <<m, q>> ELSE FnSeen(m, q)
    <3>1. Entered(q)
      BY <1>1, <2>1, EnteredOn
    <3> QED
      BY <1>1, <2>1, <3>1 DEF HungInv
  <2> QED
    BY <2>1, HungKeeps
<1>5. PICK j \in Nat \ {0} : j = i
  BY <1>2, NodeBelowHere
<1>6. /\ r \in Seq(Nat)
      /\ \/ at' = Append(r, j + 1) /\ dir' = "down"
         \/ at' = r /\ dir' = "up"
  <2>0. PICK p \in Paths(m) : \E k \in Kids(prog[m].tree, p) :
            /\ at = Append(p, k) /\ Above(at) = p /\ k \in Nat \ {0} /\ p \in Seq(Nat)
            /\ \/ at' = Append(p, k + 1) /\ dir' = "down"
               \/ at' = p /\ dir' = "up"
    BY <1>1, Onward
  <2>1. PICK k \in Nat \ {0} :
            /\ at = Append(p, k) /\ Above(at) = p /\ p \in Seq(Nat)
            /\ \/ at' = Append(p, k + 1) /\ dir' = "down"
               \/ at' = p /\ dir' = "up"
    BY <2>0
  <2>2. p = r
    BY <2>1
  <2>3. Last(Append(p, k)) = k /\ Last(Append(r, j)) = j
    BY <2>1, <2>2, BeginningsOfChild
  <2>4. k = j
    BY <1>5, <2>1, <2>3
  <2> QED
    BY <2>1, <2>2, <2>4
<1>7. /\ cur' = Outer(m, Append(r, j + 1)) /\ cur' = Inner(m, r)
  <2>1. CASE Kind(m, r) \in Lent /\ i = 1
    <3>1. Inner(m, r) = TableOf(m, r) /\ Outer(m, Append(r, 1 + 1)) = TableOf(m, r)
      BY <1>2, <2>1, CurrentBelow
    <3> QED
      BY <1>5, <2>1, <3>1
  <2>2. CASE ~(Kind(m, r) \in Lent /\ i = 1)
    <3>1. ~(Kind(m, r) \in Lent /\ j = 1)
      BY <1>5, <2>2
    <3>2. /\ Outer(m, Append(r, j + 1)) = Outer(m, Append(r, j))
          /\ Inner(m, r) = Outer(m, Append(r, j))
      BY <1>2, <3>1, CurrentBeside
    <3> QED
      BY <1>5, <2>2, <3>2
  <2> QED
    BY <2>1, <2>2
<1>8. CurInv'
  <2>1. PICK a : a = Append(r, j + 1)
    OBVIOUS
  <2>2. /\ Outer(m, a)' = Outer(m, a) /\ Inner(m, r)' = Inner(m, r)
    BY TreesKeep
  <2>3. CASE at' = a /\ dir' = "down"
    <3>1. Outer(m, at)' = Outer(m, a)
      BY <2>2, <2>3
    <3> QED
      BY <1>7, <2>1, <2>3, <3>1 DEF CurInv
  <2>4. CASE at' = r /\ dir' = "up"
    <3>1. Inner(m, at)' = Inner(m, r)
      BY <2>2, <2>4
    <3> QED
      BY <1>7, <2>4, <3>1 DEF CurInv
  <2> QED
    BY <1>6, <2>1, <2>3, <2>4
<1> QED
  BY <1>3, <1>4, <1>8

(* What a return statement finds is the function around it.                *)
LEMMA ReturnsKeep ==
    ASSUME TableInvs, Walking, dir = "up", prog' = prog, Finds
    PROVE  ReturnInv'
<1>1. PlaceInv /\ StoreInv /\ HungInv /\ CurInv /\ ReturnInv
  BY TableInvsAre
<1>2. CASE found' = found
  BY <1>1, <1>2, FoundKeeps
<1>3. ASSUME NEW what, found' = Extended(found, Where, what),
             Here.k = "return" => stage = "check" /\ what.by = tables[cur].fndecl
      PROVE  ReturnInv'
  <2>1. /\ prog \in Programs /\ m \in DOMAIN prog /\ at \in Paths(m)
        /\ Here.k = Kind(m, at) /\ at \in Seq(Nat)
    BY <1>1, PlaceIs
  <2>2. ASSUME Kind(m, at) = "return" PROVE what.by = FunctionAround(m, at)
    <3>1. cur = Inner(m, at)
      BY <1>1 DEF CurInv
    <3>2. Inner(m, at) = Outer(m, at)
      BY <2>1, <2>2, CurrentBelow DEF Own, Lent
    <3>3. tables[Outer(m, at)].fndecl = FnSeen(m, at)
      BY <1>1, OuterIsKnown DEF Known
    <3>4. FnSeen(m, at) = FunctionAround(m, at)
      BY <2>1, <2>2, FunctionSeen DEF Statement
    <3> QED
      BY <1>3, <2>1, <2>2, <3>1, <3>2, <3>3, <3>4
  <2>3. /\ DOMAIN found' = DOMAIN found \cup {Where}
        /\ found'[Where] = what
        /\ \A w \in DOMAIN found : w # Where => found'[w] = found[w]
    BY <1>3 DEF Extended
  <2>4. ASSUME NEW w \in DOMAIN found', Kind(w[1], w[2]) = "return"
        PROVE  found'[w].by = FunctionAround(w[1], w[2])
    <3>1. CASE w = Where
      <4>1. w[1] = m /\ w[2] = at
        BY <3>1 DEF Where
      <4> QED
        BY <2>2, <2>3, <2>4, <3>1, <4>1
    <3>2. CASE w # Where
      BY <1>1, <2>3, <2>4, <3>2 DEF ReturnInv
    <3> QED
      BY <3>1, <3>2
  <2>5. \A n, p : Kind(n, p)' = Kind(n, p) /\ FunctionAround(n, p)' = FunctionAround(n, p)
    BY TreesKeep
  <2> QED
    BY <2>4, <2>5 DEF ReturnInv
<1> QED
  BY <1>2, <1>3 DEF Finds

(* What is below a pattern is a leaf, and what comes beside a node is no   *)
(* pattern.                                                                *)
LEMMA PatternsAreLow ==
    ASSUME PlaceInv, NEW r \in Paths(m), NEW i \in Kids(prog[m].tree, r)
    PROVE  /\ r # <<>> => Kind(m, Above(r)) # "typedesc"
           /\ Kind(m, r) = "typedesc" => Kind(m, Append(r, i)) = "leaf" /\ r # <<>>
           /\ Kind(m, Append(r, i)) = "typedesc" => i = 1
<1>1. prog \in Programs /\ m \in DOMAIN prog /\ MaxDepth \in Nat
  BY PlaceIs
<1>2. ASSUME r # <<>>, Kind(m, Above(r)) = "typedesc" PROVE FALSE
  <2>1. r \in PathsOf(prog[m].tree)
    BY DEF Paths
  <2>2. /\ Above(r) \in Paths(m) /\ Last(r) \in Kids(prog[m].tree, Above(r))
        /\ r = Append(Above(r), Last(r))
    BY <1>1, <1>2, <2>1, PathAbove DEF Above, Paths
  <2>3. PICK p \in Paths(m) : p = Above(r)
    BY <2>2
  <2>4. PICK k \in Kids(prog[m].tree, p) : r = Append(p, k)
    BY <2>2, <2>3
  <2>5. Kind(m, r) = "leaf"
    <3>1. Kind(m, p) = "typedesc"
      BY <1>2, <2>3
    <3>2. Kind(m, Append(p, k)) = "leaf"
      BY <1>1, <3>1, NodeBelowHere
    <3> QED
      BY <2>4, <3>2
  <2>6. Kids(prog[m].tree, r) = {}
    BY <1>1, <2>5, NodeHere
  <2> QED
    BY <2>6
<1> QED
  BY <1>1, <1>2, NodeBelowHere, NodeHere

(* On: the list of parents still ends with the case above a pattern.       *)
LEMMA OnPattern ==
    ASSUME TableInvs, Walking, at # <<>>, at' = NextPlace, prog' = prog, m' = m,
           dir' = IF NextPlace = Above(at) THEN "up" ELSE "down",
           \/ dir = "up" /\ parents' = Front(parents)
           \/ Kind(m, at) # "leaf"
    PROVE  PatternInv'
<1>1. PlaceInv /\ PatternInv /\ ParentsInv
  BY TableInvsAre DEF TableInvs, ScopesIInv
<1>2. /\ at \in Seq(Nat) /\ Len(at) \in Nat
  BY <1>1, PlaceIs
<1>3. PICK r \in Paths(m) : \E i \in Kids(prog[m].tree, r) :
            /\ at = Append(r, i) /\ Above(at) = r /\ i \in Nat \ {0} /\ r \in Seq(Nat)
            /\ \/ /\ at' = Append(r, i + 1) /\ dir' = "down"
                  /\ i + 1 \in Kids(prog[m].tree, r)
               \/ at' = r /\ dir' = "up"
  BY <1>1, Onward
<1>4. PICK i \in Kids(prog[m].tree, r) :
            /\ at = Append(r, i) /\ Above(at) = r /\ i \in Nat \ {0} /\ r \in Seq(Nat)
            /\ \/ /\ at' = Append(r, i + 1) /\ dir' = "down"
                  /\ i + 1 \in Kids(prog[m].tree, r)
               \/ at' = r /\ dir' = "up"
  BY <1>3
<1>5. /\ r # <<>> => Kind(m, Above(r)) # "typedesc"
      /\ Kind(m, r) = "typedesc" => Kind(m, at) = "leaf" /\ r # <<>>
  BY <1>1, <1>4, PatternsAreLow
<1>6. \A p : Kind(m, p)' = Kind(m, p)
  <2>1. \A n, p : Kind(n, p)' = Kind(n, p)
    BY TreesKeep
  <2> QED
    BY <2>1
<1> DEFINE n == Len(parents)
<1>7. ASSUME Kind(m, r) = "typedesc"
      PROVE  /\ parents' = Front(parents) /\ dir = "up"
             /\ Len(parents') = n - 1 /\ n \in Nat /\ n >= 3
             /\ parents'[n - 2] = Above(r)
  <2>1. parents' = Front(parents) /\ dir = "up"
    BY <1>5, <1>7
  <2>2. IsSeq(parents) /\ n = Len(at) + 1 + Cardinality(lost)
    BY <1>1, <2>1, WayHereIsASeq DEF ParentsInv
  <2>3. Cardinality(lost) \in Nat
    BY FS_CardinalityType DEF TableInvs, ScopesIInv, LostInv
  <2>4. Len(at) >= 2
    <3>1. Len(at) = Len(r) + 1 /\ Len(r) \in Nat
      BY <1>4
    <3>2. Len(r) # 0
      BY <1>4, <1>5, <1>7
    <3> QED
      BY <3>1, <3>2
  <2>5. n \in Nat /\ n >= 3
    BY <1>2, <2>2, <2>3, <2>4
  <2>6. parents[n - 2] = Above(r)
    <3>1. n - 1 - 1 = n - 2
      BY <2>5
    <3>2. parents[n - 1 - 1] = Above(Above(at))
      BY <1>1, <1>4, <1>7, <2>1 DEF PatternInv
    <3> QED
      BY <1>4, <3>1, <3>2
  <2>7. Len(parents') = n - 1 /\ parents'[n - 2] = parents[n - 2]
    <3>1. parents \in Seq(Range(parents)) /\ n # 0
      BY <2>2, <2>5 DEF IsSeq
    <3> QED
      BY <2>1, <2>5, <3>1 DEF Front
  <2> QED
    BY <2>1, <2>5, <2>6, <2>7
<1> HIDE DEF n
<1>8. CASE at' = Append(r, i + 1) /\ dir' = "down" /\ i + 1 \in Kids(prog[m].tree, r)
  <2>1. PICK k \in Nat : k = i + 1 /\ k # 1
    BY <1>4
  <2>2. at' = Append(r, k) /\ k \in Kids(prog[m].tree, r)
    BY <1>8, <2>1
  <2>3. Kind(m, Append(r, k)) # "typedesc"
    BY <1>1, <2>1, <2>2, PatternsAreLow
  <2>4. Kind(m, at)' # "typedesc"
    <3>1. PICK a : a = Append(r, k)
      OBVIOUS
    <3>2. Kind(m, a)' = Kind(m, a)
      BY <1>6
    <3> QED
      BY <2>2, <2>3, <3>1, <3>2
  <2>5. Above(at)' = r
    BY <1>4, <2>2, BeginningsOfChild DEF Above
  <2>6. Kind(m, Above(at))' = Kind(m, r) /\ Above(Above(at))' = Above(r)
    <3>1. Kind(m, r)' = Kind(m, r)
      BY <1>6
    <3> QED
      BY <2>5, <3>1 DEF Above
  <2>7. Kind(m, r) = "typedesc" => parents'[Len(parents') - 0 - 1] = Above(r)
    <3> SUFFICES ASSUME Kind(m, r) = "typedesc"
                 PROVE  parents'[Len(parents') - 0 - 1] = Above(r)
      OBVIOUS
    <3>1. Len(parents') - 0 - 1 = n - 2
      BY <1>7
    <3> QED
      BY <1>7, <3>1
  <2> QED
    BY <1>8, <2>4, <2>6, <2>7 DEF PatternInv
<1>9. CASE at' = r /\ dir' = "up"
  <2>1. Kind(m, at)' = Kind(m, r)
    <3>1. Kind(m, r)' = Kind(m, r)
      BY <1>6
    <3> QED
      BY <1>9, <3>1
  <2>2. Above(at)' = Above(r)
    BY <1>9 DEF Above
  <2>3. r # <<>> => Kind(m, Above(at))' # "typedesc"
    <3>1. PICK a : a = Above(r)
      OBVIOUS
    <3>2. Kind(m, a)' = Kind(m, a)
      BY <1>6
    <3> QED
      BY <1>5, <2>2, <3>1, <3>2
  <2>4. Kind(m, r) = "typedesc" => parents'[Len(parents') - 1] = Above(r)
    <3> SUFFICES ASSUME Kind(m, r) = "typedesc"
                 PROVE  parents'[Len(parents') - 1] = Above(r)
      OBVIOUS
    <3>1. Len(parents') - 1 = n - 2
      BY <1>7
    <3> QED
      BY <1>7, <3>1
  <2> QED
    BY <1>9, <2>1, <2>2, <2>3, <2>4 DEF PatternInv
<1> QED
  BY <1>4, <1>8, <1>9

(* On from a node that is left.                                            *)
LEMMA LeavingKeepsTables ==
    ASSUME TableInvs, Moves, at # <<>>
    PROVE  TablesIInv'
<1>1. PlaceInv /\ StoreInv /\ HungInv /\ CurInv
  BY TableInvsAre
<1>2. /\ Walking /\ dir = "up" /\ prog' = prog /\ tables' = tables /\ Finds
      /\ parents' = Front(parents)
  BY DEF Moves, Leaves, Popped
<1>3. /\ at' = NextPlace /\ stage' = stage /\ m' = m /\ cur' = Restored
      /\ dir' = IF NextPlace = Above(at) THEN "up" ELSE "down"
  BY DEF Moves, Leaves, GoOn
<1>4. PICK r \in Paths(m) : \E i \in Kids(prog[m].tree, r) :
            at = Append(r, i) /\ Above(at) = r
  BY <1>1, <1>3, Onward
<1>5. PICK i \in Kids(prog[m].tree, r) : at = Append(r, i) /\ Above(at) = r
  BY <1>4
<1>6. /\ Restored = IF Kind(m, r) \in Lent /\ i = 1 THEN TableOf(m, r) ELSE Outer(m, at)
      /\ Restored \in DOMAIN tables \cup {NoTable}
  BY <1>2, <1>5, RestoredIs
<1>7. StoreInv' /\ HungInv' /\ CurInv'
  <2>1. /\ cur' \in DOMAIN tables \cup {NoTable}
        /\ cur' = IF Kind(m, r) \in Lent /\ i = 1 THEN TableOf(m, r) ELSE Outer(m, at)
    BY <1>3, <1>6
  <2> QED
    BY <1>2, <1>3, <1>5, <2>1, OnKeeps
<1>8. PatternInv'
  BY <1>2, <1>3, OnPattern
<1>9. ReturnInv'
  BY <1>2, ReturnsKeep
<1> QED
  BY <1>7, <1>8, <1>9 DEF TablesIInv

(* Past a loop that was given up.                                          *)
LEMMA PassingKeepsTables ==
    ASSUME TableInvs, PassesBy
    PROVE  TablesIInv'
<1>1. PlaceInv /\ StoreInv /\ HungInv /\ CurInv /\ ReturnInv /\ ParentsInv
  BY TableInvsAre DEF TableInvs, ScopesIInv
<1>2. PICK what : GiveUp(what)
  BY DEF PassesBy, GivesUp
<1>3. /\ stage = "check" /\ dir = "down" /\ Walking /\ Here.k = "for"
      /\ prog' = prog /\ tables' = tables /\ found' = found
      /\ parents' = Append(parents, at) /\ GoOn(errors', cur)
  BY <1>2 DEF PassesBy, GivesUp, GiveUp, Walking
<1>4. /\ prog \in Programs /\ m \in DOMAIN prog /\ at \in Paths(m)
      /\ Here.k = Kind(m, at) /\ at \in Seq(Nat)
  BY <1>1, PlaceIs
<1>5. at # <<>>
  BY <1>3, <1>4, NodeHere
<1>6. /\ at' = NextPlace /\ stage' = stage /\ m' = m /\ cur' = cur
      /\ dir' = IF NextPlace = Above(at) THEN "up" ELSE "down"
  BY <1>3, <1>5 DEF GoOn
<1>7. PICK r \in Paths(m) : \E i \in Kids(prog[m].tree, r) :
            at = Append(r, i) /\ Above(at) = r
  BY <1>1, <1>5, <1>6, Onward
<1>8. PICK i \in Kids(prog[m].tree, r) : at = Append(r, i) /\ Above(at) = r
  BY <1>7
<1>9. cur = Outer(m, at) /\ cur \in DOMAIN tables \cup {NoTable}
  BY <1>1, <1>3, <1>4, <1>5 DEF CurInv
<1>10. ~(Kind(m, r) \in Lent /\ i = 1)
  BY <1>3, <1>4, <1>8, NodeBelowHere DEF Lent
<1>11. StoreInv' /\ HungInv' /\ CurInv'
  <2>1. /\ cur' \in DOMAIN tables \cup {NoTable}
        /\ cur' = IF Kind(m, r) \in Lent /\ i = 1 THEN TableOf(m, r) ELSE Outer(m, at)
    BY <1>6, <1>9, <1>10
  <2> QED
    BY <1>3, <1>5, <1>6, <1>8, <2>1, OnKeeps
<1>12. PatternInv'
  <2>1. Kind(m, at) # "leaf"
    BY <1>3, <1>4
  <2> QED
    BY <1>3, <1>5, <1>6, <2>1, OnPattern
<1>13. ReturnInv'
  BY <1>1, <1>3, FoundKeeps
<1> QED
  BY <1>11, <1>12, <1>13 DEF TablesIInv

-----------------------------------------------------------------------------
(* The end of a walk, and a halt.                                          *)

(* The second walk begins where all tables of the module were made.        *)
LEMMA SecondWalkKeepsTables ==
    ASSUME TableInvs, Moves, at = <<>>, stage = "declare"
    PROVE  TablesIInv'
<1>1. PlaceInv /\ StoreInv /\ HungInv /\ CurInv
  BY TableInvsAre
<1>2. /\ Walking /\ dir = "up" /\ prog' = prog /\ tables' = tables /\ Finds
      /\ GoOn(errors', Restored)
  BY DEF Moves, Leaves
<1>3. FinishWalk(errors')
  BY <1>2 DEF GoOn
<1>4. /\ stage' = "check" /\ m' = m /\ at' = <<>> /\ dir' = "down" /\ cur' = NoTable
  BY <1>3 DEF FinishWalk, Restart
<1>5. /\ prog \in Programs /\ m \in DOMAIN prog /\ at \in Seq(Nat)
  BY <1>1, PlaceIs
<1>6. StoreInv'
  BY <1>1, <1>2, StoreKeeps, TableInvsAre
<1>7. HungInv'
  <2>1. ASSUME NEW q \in Paths(m), Kind(m, q) \in Own, Entered(q)'
        PROVE  /\ <<m, q>> \in DOMAIN tables'
               /\ tables'[<<m, q>>].parent = Outer(m, q)
               /\ tables'[<<m, q>>].fndecl =
                        IF Kind(m, q) = "fndecl" THEN <<m, q>> ELSE FnSeen(m, q)
    <3>1. q \in Seq(Nat)
      BY <1>5, NodeHere
    <3>2. Entered(q)
      <4>1. CASE q = <<>>
        <5>1. q \in Beginnings(at)
          BY <4>1, BeginningsOfRoot
        <5> QED
          BY <1>2, <5>1 DEF Entered
      <4>2. CASE q # <<>>
        <5>1. Within(q, at)
          BY <3>1, <4>2 DEF Within
        <5> QED
          BY <1>2, <5>1 DEF Entered, Behind
      <4> QED
        BY <4>1, <4>2
    <3> QED
      BY <1>1, <1>2, <2>1, <3>2 DEF HungInv
  <2> QED
    BY <1>2, <1>4, <2>1, HungKeeps
<1>8. CurInv'
  BY <1>4 DEF CurInv
<1>9. PatternInv'
  <2>1. PICK n, p : n = m /\ p = <<>>
    OBVIOUS
  <2>2. Kind(n, p)' = Kind(n, p)
    BY <1>2, TreesKeep
  <2>3. Kind(m, at)' = Kind(m, <<>>)
    BY <1>4, <2>1, <2>2
  <2>4. Kind(m, <<>>) # "typedesc"
    BY <1>1, PlaceIs
  <2> QED
    BY <1>4, <2>3, <2>4 DEF PatternInv
<1>10. ReturnInv'
  BY <1>2, ReturnsKeep
<1> QED
  BY <1>6, <1>7, <1>8, <1>9, <1>10 DEF TablesIInv

(* The next module begins with no table but those that were there.         *)
LEMMA NextModuleKeepsTables ==
    ASSUME TableInvs, prog' = prog, tables' = tables, Walking, dir = "up", Finds,
           stage' = "declare", m' = m + 1, m < Len(prog),
           at' = <<>>, dir' = "down", cur' = FileTable(m + 1)
    PROVE  TablesIInv'
<1>1. PlaceInv /\ StoreInv
  BY TableInvsAre
<1>2. PICK n \in DOMAIN prog : n = m + 1
  BY <1>1, TreeHere
<1>3. prog \in Programs
  BY <1>1, PlaceIs
<1>4. StoreInv'
  BY <1>1, StoreKeeps, TableInvsAre
<1>5. /\ \A q : Kind(n, q)' = Kind(n, q)
      /\ Paths(n)' = Paths(n) /\ FileTable(n)' = FileTable(n)
      /\ FileTable(n) \in DOMAIN tables
  BY <1>1, TreesKeep DEF StoreInv
<1>6. HungInv'
  <2>1. ASSUME NEW q, Entered(q)' PROVE FALSE
    <3>1. ~Behind(q)'
      <4>1. (at = <<>> /\ dir = "down" => \A p : ~Behind(p))'
        BY NothingBehindTheStart, PTL
      <4> QED
        BY <4>1
    <3>2. Beginnings(at)' = Beginnings(at')
      BY DEF Beginnings
    <3>3. Beginnings(at)' = {<<>>}
      BY <3>2, BeginningsOfRoot
    <3> QED
      BY <2>1, <3>1, <3>3 DEF Entered
  <2> QED
    BY <2>1 DEF HungInv
<1>7. CurInv'
  <2>1. Outer(m, at)' = FileTable(n)
    <3>1. Outer(m, at)' = FileTable(m)'
      BY DEF Outer
    <3>2. FileTable(m)' = FileTable(n)
      BY <1>2 DEF FileTable
    <3> QED
      BY <3>1, <3>2
  <2>2. cur' = FileTable(n)
    BY <1>2
  <2> QED
    BY <1>5, <2>1, <2>2 DEF CurInv
<1>8. PatternInv'
  <2>1. Kind(m, at)' = Kind(n, <<>>)
    <3>1. PICK p : p = <<>>
      OBVIOUS
    <3>2. Kind(n, p)' = Kind(n, p)
      BY <1>5
    <3> QED
      BY <1>2, <3>1, <3>2
  <2>2. Kind(n, <<>>) # "typedesc"
    BY <1>3, SourceTree
  <2> QED
    BY <2>1, <2>2 DEF PatternInv
<1>9. ReturnInv'
  BY ReturnsKeep
<1> QED
  BY <1>4, <1>6, <1>7, <1>8, <1>9 DEF TablesIInv

(* After the last step nothing but the tables and what was found counts.   *)
LEMMA StoppedKeepsTables ==
    ASSUME TableInvs, prog' = prog, tables' = tables, cur' = cur, ~Walking', ReturnInv'
    PROVE  TablesIInv'
<1>1. CurInv
  BY TableInvsAre
<1>2. StoreInv'
  BY StoreKeeps, TableInvsAre
<1>3. HungInv' /\ PatternInv'
  BY DEF HungInv, PatternInv
<1>4. CurInv'
  BY <1>1 DEF CurInv, Walking
<1> QED
  BY <1>2, <1>3, <1>4 DEF TablesIInv

LEMMA EndingKeepsTables ==
    ASSUME TableInvs, Moves, at = <<>>
    PROVE  TablesIInv'
<1>1. /\ Walking /\ dir = "up" /\ prog' = prog /\ tables' = tables /\ Finds
      /\ GoOn(errors', Restored)
  BY DEF Moves, Leaves
<1>2. FinishWalk(errors')
  BY <1>1 DEF GoOn
<1>3. CASE stage = "declare"
  BY <1>3, SecondWalkKeepsTables
<1>4. CASE stage # "declare" /\ stage' = "declare"
  <2>1. /\ m' = m + 1 /\ m < Len(prog) /\ at' = <<>> /\ dir' = "down"
        /\ cur' = FileTable(m + 1)
    BY <1>2, <1>4 DEF FinishWalk, Restart
  <2> QED
    BY <1>1, <1>4, <2>1, NextModuleKeepsTables
<1>5. CASE stage # "declare" /\ stage' # "declare"
  <2>1. cur' = cur /\ ~Walking'
    BY <1>2, <1>5 DEF FinishWalk, Restart, Walking
  <2>2. ReturnInv'
    BY <1>1, ReturnsKeep
  <2> QED
    BY <1>1, <2>1, <2>2, StoppedKeepsTables
<1> QED
  BY <1>3, <1>4, <1>5

LEMMA StandingKeepsTables ==
    ASSUME TableInvs, Stands
    PROVE  TablesIInv'
<1>1. /\ prog' = prog /\ tables' = tables /\ cur' = cur /\ found' = found
      /\ stage' \in {"failed", "asserted", "crashed"}
  BY DEF Stands, Halts
<1>2. ReturnInv'
  BY <1>1, TableInvsAre, FoundKeeps
<1> QED
  BY <1>1, <1>2, StoppedKeepsTables DEF Walking

(* Nothing happens.                                                        *)
LEMMA NothingKeepsTables ==
    ASSUME TableInvs, UNCHANGED svars
    PROVE  TablesIInv'
<1>1. /\ prog' = prog /\ stage' = stage /\ m' = m /\ at' = at /\ dir' = dir
      /\ cur' = cur /\ parents' = parents /\ tables' = tables /\ found' = found
  BY DEF svars
<1>2. StoreInv /\ HungInv /\ CurInv /\ PatternInv /\ ReturnInv
  BY TableInvsAre
<1>3. StoreInv' /\ ReturnInv'
  BY <1>1, <1>2, StoreKeeps, FoundKeeps, TableInvsAre
<1>4. PICK n, a : n = m /\ a = at
  OBVIOUS
<1>5. /\ Kind(n, a)' = Kind(n, a) /\ Outer(n, a)' = Outer(n, a)
      /\ Inner(n, a)' = Inner(n, a)
  BY <1>1, TreesKeep
<1>6. /\ Kind(m, at)' = Kind(m, at) /\ Outer(m, at)' = Outer(m, at)
      /\ Inner(m, at)' = Inner(m, at)
  BY <1>1, <1>4, <1>5
<1>7. CurInv'
  BY <1>1, <1>2, <1>6 DEF CurInv, Walking
<1>8. HungInv'
  <2>1. CASE ~Walking
    BY <1>1, <2>1 DEF HungInv, Walking
  <2>2. CASE Walking
    <3>1. \A q : Entered(q)' <=> Entered(q)
      BY <1>1 DEF Entered, Behind, Beginnings
    <3> QED
      BY <1>1, <1>2, <2>2, <3>1, HungKeeps DEF HungInv
  <2> QED
    BY <2>1, <2>2
<1>9. PatternInv'
  <2>1. Above(at)' = Above(at) /\ Above(Above(at))' = Above(Above(at))
    BY <1>1 DEF Above
  <2>2. PICK b : b = Above(at)
    OBVIOUS
  <2>3. Kind(n, b)' = Kind(n, b)
    BY <1>1, TreesKeep
  <2>4. Kind(m, Above(at))' = Kind(m, Above(at))
    BY <1>1, <1>4, <2>1, <2>2, <2>3
  <2> QED
    BY <1>1, <1>2, <1>6, <2>1, <2>4 DEF PatternInv, Walking
<1> QED
  BY <1>3, <1>7, <1>8, <1>9 DEF TablesIInv

(* The tables of the start.                                                *)
LEMMA StartHasTables == SInit => TablesIInv
<1> SUFFICES ASSUME SInit PROVE TablesIInv
  OBVIOUS
<1>1. /\ prog \in Programs /\ stage = "declare" /\ m = 1 /\ at = <<>> /\ dir = "down"
      /\ cur = FileTable(1) /\ found = [x \in {} |-> {}]
      /\ tables = [t \in {FileTable(n) : n \in DOMAIN prog} \cup
                       {ModuleTable(n) : n \in DOMAIN prog} |-> NewTable(t[1])]
  BY DEF SInit
<1>2. PlaceInv
  BY StartIsSound DEF ScopesIInv
<1>3. m \in DOMAIN prog
  BY <1>2, PlaceIs
<1>4. \A t \in DOMAIN tables : tables[t] = NewTable(t[1])
  BY <1>1
<1>5. /\ tables = [t \in DOMAIN tables |-> tables[t]]
      /\ \A n \in DOMAIN prog :
            FileTable(n) \in DOMAIN tables /\ ModuleTable(n) \in DOMAIN tables
  BY <1>1
<1>6. \A x : /\ NewTable(x).parent = NoTable /\ NewTable(x).fndecl = NoWhere
             /\ DOMAIN NewTable(x).recs = {} /\ IsTable(NewTable(x))
             /\ NewTable(x).mod = x
  BY DEF NewTable, NoRecords, IsTable
<1>7. StoreInv
  BY <1>4, <1>5, <1>6 DEF StoreInv, AreTables, AreNamed
<1>8. HungInv
  <2>1. ASSUME NEW q, Entered(q) PROVE FALSE
    <3>1. ~Behind(q)
      BY <1>1, NothingBehindTheStart
    <3>2. Beginnings(at) = {<<>>}
      BY <1>1, BeginningsOfRoot
    <3> QED
      BY <1>1, <2>1, <3>1, <3>2 DEF Entered
  <2> QED
    BY <2>1 DEF HungInv
<1>9. CurInv
  <2>1. Outer(m, at) = FileTable(m)
    BY <1>1 DEF Outer
  <2> QED
    BY <1>1, <1>3, <1>5, <2>1 DEF CurInv
<1>10. PatternInv
  <2>1. Kind(m, at) # "typedesc"
    BY <1>1, <1>2, PlaceIs
  <2> QED
    BY <1>1, <2>1 DEF PatternInv
<1>11. ReturnInv
  BY <1>1 DEF ReturnInv
<1> QED
  BY <1>7, <1>8, <1>9, <1>10, <1>11 DEF TablesIInv

LEMMA TablesInductive == TableInvs /\ [SNext]_svars => TableInvs'
<1> SUFFICES ASSUME TableInvs, [SNext]_svars PROVE TableInvs'
  OBVIOUS
<1>1. ScopesIInv'
  BY ScopesInductive DEF TableInvs
<1>2. \/ Makes \/ Passes \/ Sets \/ PassesBy \/ Moves \/ Stands
      \/ UNCHANGED svars
  BY TablesMove
<1>3. CASE Makes \/ Passes \/ Sets
  BY <1>1, <1>3, DownKeepsTables DEF TableInvs
<1>4. CASE PassesBy
  BY <1>1, <1>4, PassingKeepsTables DEF TableInvs
<1>5. CASE Moves
  BY <1>1, <1>5, LeavingKeepsTables, EndingKeepsTables DEF TableInvs
<1>6. CASE Stands
  BY <1>1, <1>6, StandingKeepsTables DEF TableInvs
<1>7. CASE UNCHANGED svars
  BY <1>1, <1>7, NothingKeepsTables DEF TableInvs
<1> QED
  BY <1>2, <1>3, <1>4, <1>5, <1>6, <1>7

-----------------------------------------------------------------------------
(* What the invariant says of the source.                                  *)

(* The tables of the scopes around a statement hang under each other.      *)
LEMMA ScopesHang ==
    ASSUME TableInvs, Walking, at # <<>>, Statement(m, at), Kind(m, at) \notin Lent,
           NEW q \in Beginnings(at), q # <<>>, IsScope(m, q),
           q # at \/ dir = "up"
    PROVE  tables[TableOf(m, q)].parent = TableOf(m, ScopeAround(m, Above(q)))
<1>1. PlaceInv /\ HungInv
  BY TableInvsAre
<1>2. /\ prog \in Programs /\ m \in DOMAIN prog /\ at \in Paths(m)
      /\ at \in Seq(Nat) /\ MaxDepth \in Nat /\ at \in PathsOf(prog[m].tree)
  BY <1>1, PlaceIs
<1>3. /\ q \in Paths(m) /\ Statement(m, q)
      /\ q # at /\ Kind(m, q) \in Lent => NextStep(at, q) # 1
  <2>1. CASE q = at
    BY <1>2, <2>1
  <2>2. CASE q # at
    <3>1. Kind(m, at) \notin {"fndecl", "typedesc", "leaf", "xid"}
      BY DEF Statement
    <3> QED
      BY <1>2, <2>2, <3>1, NotInHeads DEF Statement
  <2> QED
    BY <2>1, <2>2
<1>4. q \in Seq(Nat) /\ Kind(m, q) \notin {"root", "module"}
  BY <1>2, <1>3, NodeHere
<1>5. Kind(m, q) \in {"block", "for"} \cup Lent
  BY <1>3, <1>4 DEF IsScope, OpensScope, Statement, Lent
<1>6. Outer(m, q) = TableOf(m, ScopeAround(m, Above(q)))
  BY <1>2, <1>3, OuterIsScopeAround
<1>7. CASE Kind(m, q) \in {"block", "for"}
  <2>1. Kind(m, q) \in Own
    BY <1>7 DEF Own
  <2>2. TableOf(m, q) = <<m, q>>
    BY <1>2, <1>3, <2>1, CurrentBelow
  <2>3. Entered(q)
    BY DEF Entered
  <2>4. tables[<<m, q>>].parent = Outer(m, q)
    BY <1>1, <1>3, <2>1, <2>3 DEF HungInv
  <2> QED
    BY <1>6, <2>2, <2>4
<1>8. CASE Kind(m, q) \in Lent
  <2>1. q # at /\ NextStep(at, q) # 1
    BY <1>3, <1>8
  <2>2. NextStep(at, q) \in Nat \ {0}
    BY <1>2, <2>1, StepOn
  <2> DEFINE a == Append(q, 1)
  <2>3. LeftOf(a, at)
    BY <1>2, <2>1, <2>2, FirstChildBehind
  <2>4. 1 \in Kids(prog[m].tree, q)
    BY <1>2, <1>3, <1>8, NodeHere DEF Lent
  <2>5. a \in Paths(m) /\ Kind(m, a) \in {"fndecl", "typedesc"}
    BY <1>2, <1>3, <1>8, <2>4, NodeBelowHere DEF Lent
  <2>6. TableOf(m, q) = <<m, a>> /\ Outer(m, a) = Outer(m, q)
    BY <1>2, <1>3, <1>8, CurrentBelow DEF Own, Lent
  <2> HIDE DEF a
  <2>7. Entered(a)
    BY <2>3 DEF Entered, Behind
  <2>8. tables[<<m, a>>].parent = Outer(m, a)
    BY <1>1, <2>5, <2>7 DEF HungInv, Own
  <2> QED
    BY <1>6, <2>6, <2>8
<1> QED
  BY <1>5, <1>7, <1>8

LEMMA CurrentEncloses == TableInvs => CurrentIsEnclosing
<1> SUFFICES ASSUME TableInvs, Walking,
                    Here.k \in {"use", "vardecl", "typedecl", "return", "for",
                                "match", "block"}
             PROVE  LET from == IF dir = "up" THEN at ELSE Above(at)
                    IN  /\ cur = TableOf(m, ScopeAround(m, from))
                        /\ \A q \in ScopesAround(m, from) \ {<<>>} :
                            tables[TableOf(m, q)].parent
                                = TableOf(m, ScopeAround(m, Above(q)))
                        /\ Kind(m, <<>>) = "module" =>
                            tables[ModuleTable(m)].parent = FileTable(m)
                        /\ tables[FileTable(m)].parent = NoTable
  BY DEF CurrentIsEnclosing
<1> DEFINE from == IF dir = "up" THEN at ELSE Above(at)
<1>1. PlaceInv /\ StoreInv /\ HungInv /\ CurInv
  BY TableInvsAre
<1>2. /\ prog \in Programs /\ m \in DOMAIN prog /\ at \in Paths(m)
      /\ at \in Seq(Nat) /\ Here.k = Kind(m, at)
  BY <1>1, PlaceIs
<1>3. at # <<>> /\ Statement(m, at) /\ Kind(m, at) \notin Lent
  <2>1. Kind(m, at) \notin {"root", "module"}
    BY <1>2
  <2> QED
    BY <1>2, <2>1, NodeHere DEF Statement, Lent
<1>4. dir \in {"down", "up"}
  BY <1>1 DEF PlaceInv
<1>5. cur = TableOf(m, ScopeAround(m, from))
  <2>1. CASE dir = "up"
    <3>1. cur = Inner(m, at)
      BY <1>1, <2>1 DEF CurInv
    <3> QED
      BY <1>2, <1>3, <2>1, <3>1, InnerIsScopeAround
  <2>2. CASE dir = "down"
    <3>1. cur = Outer(m, at)
      BY <1>1, <1>3, <2>2 DEF CurInv, Statement, Walking
    <3> QED
      BY <1>2, <1>3, <2>2, <3>1, OuterIsScopeAround
  <2> QED
    BY <1>4, <2>1, <2>2
<1>6. ASSUME NEW q \in ScopesAround(m, from) \ {<<>>}
      PROVE  tables[TableOf(m, q)].parent = TableOf(m, ScopeAround(m, Above(q)))
  <2>1. q \in Beginnings(from) /\ IsScope(m, q) /\ q # <<>>
    BY DEF ScopesAround
  <2>2. q \in Beginnings(at) /\ (q # at \/ dir = "up")
    <3>1. CASE dir = "up"
      BY <2>1, <3>1
    <3>2. CASE dir # "up"
      <4>1. /\ Beginnings(at) = Beginnings(Above(at)) \cup {at}
            /\ at \notin Beginnings(Above(at))
        BY <1>2, <1>3, ScopesAreHolders
      <4> QED
        BY <2>1, <3>2, <4>1
    <3> QED
      BY <3>1, <3>2
  <2> QED
    BY <1>3, <2>1, <2>2, ScopesHang
<1>7. Kind(m, <<>>) = "module" => tables[ModuleTable(m)].parent = FileTable(m)
  <2> SUFFICES ASSUME Kind(m, <<>>) = "module"
               PROVE  tables[ModuleTable(m)].parent = FileTable(m)
    OBVIOUS
  <2>1. <<>> \in Paths(m) /\ <<>> \in Beginnings(at)
    BY <1>2, SourceTree, BeginningsNest
  <2>2. Entered(<<>>)
    BY <1>3, <2>1 DEF Entered
  <2>3. tables[<<m, <<>>>>].parent = Outer(m, <<>>)
    BY <1>1, <2>1, <2>2 DEF HungInv, Own
  <2>4. ModuleTable(m) = <<m, <<>>>>
    BY DEF ModuleTable, TableOf
  <2> QED
    BY <2>3, <2>4, NothingAboveRoot
<1>8. tables[FileTable(m)].parent = NoTable
  BY <1>1, <1>2 DEF StoreInv
<1> QED
  BY <1>5, <1>6, <1>7, <1>8

LEMMA TablesAreRight == TableInvs => ScopesInv
<1> SUFFICES ASSUME TableInvs PROVE ScopesInv
  OBVIOUS
<1>1. PlaceInv /\ CurInv /\ ReturnInv /\ AreNamed(tables)
  BY TableInvsAre
<1>2. ScopesTypeOK
  BY <1>1 DEF PlaceInv, CurInv, AreNamed, ScopesTypeOK
<1>3. CurrentIsEnclosing
  BY CurrentEncloses
<1>4. ReturnFindsItsFunction
  BY <1>1 DEF ReturnInv, ReturnFindsItsFunction
<1> QED
  BY <1>2, <1>3, <1>4 DEF ScopesInv

-----------------------------------------------------------------------------
(* The theorem.                                                            *)

(* In a program of any number of modules, of trees of any depth and kind,  *)
(* the current table is that of the scope around every statement both      *)
(* walks come to, the tables of the scopes around it hang under each other *)
(* up to that of the file, every record is of a declaration of its name,   *)
(* and every return statement is compared with the function it is in:      *)
(* analyzer_traversal_ctx.current_st is set in a dozen callbacks on the    *)
(* way down and restored from a parent on the way up, except behind the    *)
(* head of a function and the pattern of a case, and the second walk sets  *)
(* again what the first one made.                                          *)
THEOREM TablesFollowScopes == SSpec => []ScopesInv
<1>1. SInit => TableInvs
  BY StartIsSound, StartHasTables DEF TableInvs
<1>2. TableInvs /\ [SNext]_svars => TableInvs'
  BY TablesInductive
<1>3. TableInvs => ScopesInv
  BY TablesAreRight
<1> QED
  BY <1>1, <1>2, <1>3, PTL DEF SSpec

=============================================================================
