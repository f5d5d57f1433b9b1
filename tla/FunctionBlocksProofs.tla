------------------------ MODULE FunctionBlocksProofs ------------------------
(***************************************************************************)
(* What FunctionBlocks promises, for every function whose statements lie   *)
(* in each other no deeper than MaxDepth: exits lead to blocks of the      *)
(* function, a plain function is always generated, and in one that is also *)
(* sound no exit is set twice.                                             *)
(***************************************************************************)
EXTENDS FunctionBlocks, FiniteSetTheorems, SequenceTheorems,
        WellFoundedInduction, TLAPS

(* What is left of a list of statements.                                   *)
IsRest(rest, list) ==
    /\ IsSeq(rest) /\ Len(rest) <= Len(list)
    /\ \A j \in 1..Len(rest) : rest[j] = list[Len(list) - Len(rest) + j]

-----------------------------------------------------------------------------
(* The invariant of the types.  The blocks a task is about were created,   *)
(* and a task that needs the next block comes after one was made.          *)
TaskKinds == {"body", "end", "fallthrough", "join", "endif", "step", "endfor"}
NeedsNext == {"fallthrough", "join", "endif", "endfor"}

IsTask(t, made) ==
    /\ t.do \in TaskKinds
    /\ t.do = "body" =>
        /\ t = [do |-> "body", list |-> t.list]
        /\ \E list \in Lists(fun) : IsCode(list) /\ IsRest(t.list, list)
    /\ t.do = "fallthrough" =>
        /\ t.if.is \in {"if", "elif"} /\ IsStatement(t.if)
        /\ Sublists(t.if) \subseteq InnerLists(fun)
        /\ t.old \in made /\ t.taken \in made
    /\ t.do = "join" =>
        /\ t.old \in made /\ t.taken \in made /\ t.other \in made
        /\ t.else \in made \cup {NoBlock}
    /\ t.do = "endfor" => t.cmp \in made /\ t.body \in made

WorkInv ==
    stage = "lower" =>
        /\ IsSeq(work)
        /\ \A i \in DOMAIN work :
            /\ IsTask(work[i], DOMAIN blocks)
            /\ work[i].do \in NeedsNext => next # NoBlock
StoreInv ==
    /\ IsSeq(added) /\ IsFiniteSet(DOMAIN blocks)
    /\ EndBlock \in DOMAIN blocks /\ FirstBlock \in DOMAIN blocks
    /\ \A b \in DOMAIN blocks :
        blocks[b] = [code |-> blocks[b].code, exit |-> blocks[b].exit]
TypesInv == BlocksTypeOK /\ WorkInv /\ StoreInv

-----------------------------------------------------------------------------
(* The invariant of plain functions.  An if or a for of the body is open   *)
(* when there is more to do than the rest of the body and the end.         *)
Inside == Len(work) > 2
ShapeInv ==
    /\ Len(work) >= 1 /\ work[Len(work)].do = "end"
    /\ \A i \in 1..(Len(work) - 1) : work[i].do # "end"
    /\ Len(work) >= 2 => /\ work[Len(work) - 1].do = "body"
                         /\ IsRest(work[Len(work) - 1].list, fun.body)
    /\ \A i \in 1..(Len(work) - 2) : work[i].do = "body" =>
            \E list \in InnerLists(fun) : IsCode(list) /\ IsRest(work[i].list, list)
    /\ Inside => work[Len(work) - 2].do \in {"endif", "endfor"}
    /\ \A i \in 1..(Len(work) - 3) : work[i].do \notin {"endif", "endfor"}

(* All blocks are in the function, but the one at the end and, inside of   *)
(* an if or a for, the next one; none is in it twice.                      *)
AddedInv ==
    /\ IsInjective(added) /\ EndBlock \notin ToSet(added)
    /\ DOMAIN blocks = ToSet(added) \cup {EndBlock}
                            \cup (IF Inside THEN {next} ELSE {})
    /\ Inside => next \notin ToSet(added) \cup {EndBlock, NoBlock}
                 /\ ~Initialized(blocks, next)
    /\ ~Inside => next \in ToSet(added) \cup {NoBlock}
    /\ cur \in ToSet(added)

(* The blocks a task is going to connect.                                  *)
Waits(t) ==
    CASE t.do = "fallthrough" -> {t.old, t.taken}
      [] t.do = "join" -> {t.old, t.taken, t.else}
      [] t.do = "endfor" -> {t.cmp, t.body}
      [] OTHER -> {}
WaitsInv == \A i \in DOMAIN work : Waits(work[i]) \subseteq ToSet(added) \cup {NoBlock}

(* A block without an exit will get one: from an open task, from what      *)
(* follows in the body, or at the end of the function.                     *)
GoesOn == Len(work) = 2 /\ \E s \in ToSet(work[1].list) : s.is # "do"
UnsetInv ==
    \A b \in DOMAIN blocks : ~Initialized(blocks, b) =>
        IF Inside THEN b = next \/ \E i \in DOMAIN work : b \in Waits(work[i])
        ELSE b = cur /\ (b \in {FirstBlock, next} \/ GoesOn)

LoopInv == loopVar # NoLoop => \E i \in DOMAIN work : work[i].do = "step"

LoweringInv == ShapeInv /\ AddedInv /\ WaitsInv /\ UnsetInv /\ LoopInv

PlainInv ==
    Plain(fun) =>
        /\ stage \notin Failures
        /\ stage = "lower" => LoweringInv
        /\ stage = "backend" =>
            /\ IsInjective(added)
            /\ \A b \in ToSet(added) : Connects(b)

-----------------------------------------------------------------------------
(* The invariant of plain and sound functions.  The block a task sets an   *)
(* exit of without a question has none, and no other task or statement     *)
(* gives it one before.                                                    *)
Sets(t) ==
    CASE t.do \in {"fallthrough", "join"} -> {t.old}
      [] t.do = "endfor" -> {t.cmp, t.body}
      [] OTHER -> {}
MaySet(t) ==
    CASE t.do = "fallthrough" -> {t.taken}
      [] t.do = "join" -> {t.taken, t.else}
      [] OTHER -> {}
InCode == work # <<>> /\ work[1].do = "body"
OpenInv == InCode /\ work[1].list # <<>> => ~Initialized(blocks, cur)
SetsInv ==
    /\ \A i \in DOMAIN work : \A b \in Sets(work[i]) : ~Initialized(blocks, b)
    /\ \A i, j \in DOMAIN work :
        /\ i # j => Sets(work[i]) \cap Sets(work[j]) = {}
        /\ MaySet(work[j]) \cap Sets(work[i]) = {}
CurInv ==
    InCode => \A i \in DOMAIN work :
        work[i].do \in {"fallthrough", "join"} => cur # work[i].old

(* Only the first open task is a list of statements, and in a loop there   *)
(* is nothing but its body and its step.                                   *)
FirstInv == \A i \in 2..(Len(work) - 2) : work[i].do # "body"
InLoop(t) ==
    /\ t.do \in {"body", "step"}
    /\ t.do = "body" =>
        \E s \in ToSet(fun.body) : s.is = "for" /\ IsRest(t.list, s.body)
InLoopInv ==
    Inside /\ work[Len(work) - 2].do = "endfor" =>
        \A i \in 1..(Len(work) - 3) : InLoop(work[i])

OnceInv == OpenInv /\ SetsInv /\ CurInv /\ FirstInv /\ InLoopInv
KeptInv == Plain(fun) /\ Sound(fun) /\ stage = "lower" => OnceInv

BlocksIInv == TypesInv /\ PlainInv /\ KeptInv

-----------------------------------------------------------------------------
(* Sequences.                                                              *)

LEMMA SeqIs ==
    ASSUME NEW s, IsSeq(s)
    PROVE  /\ Len(s) \in Nat /\ DOMAIN s = 1..Len(s)
           /\ \A i \in 1..Len(s) : s[i] \in ToSet(s)
           /\ \A x \in ToSet(s) : \E i \in 1..Len(s) : x = s[i]
           /\ s = <<>> <=> Len(s) = 0
<1>1. Len(s) \in Nat /\ DOMAIN s = 1..Len(s) /\ (s = <<>> <=> Len(s) = 0)
  BY DEF IsSeq
<1>2. \A i \in 1..Len(s) : s[i] \in ToSet(s)
  BY <1>1 DEF ToSet
<1>3. \A x \in ToSet(s) : \E i \in 1..Len(s) : x = s[i]
  BY <1>1 DEF ToSet
<1> QED
  BY <1>1, <1>2, <1>3

LEMMA SeqsAreSeqs ==
    ASSUME NEW S, NEW s \in Seq(S)
    PROVE  IsSeq(s)
<1>1. Len(s) \in Nat /\ DOMAIN s = 1..Len(s)
  OBVIOUS
<1>2. s = [i \in 1..Len(s) |-> s[i]]
  BY <1>1
<1>3. \A i \in 1..Len(s) : s[i] \in ToSet(s)
  BY <1>1 DEF ToSet
<1> QED
  BY <1>1, <1>2, <1>3 DEF IsSeq

(* The first element of w is replaced by the elements of n.                *)
LEMMA Replaced ==
    ASSUME NEW n, IsSeq(n), NEW w, IsSeq(w), w # <<>>
    PROVE  /\ IsSeq(n \o Tail(w))
           /\ Len(n \o Tail(w)) = Len(n) + Len(w) - 1
           /\ DOMAIN (n \o Tail(w)) = 1..(Len(n) + Len(w) - 1)
           /\ \A i \in 1..Len(n) : (n \o Tail(w))[i] = n[i]
           /\ \A i \in (Len(n) + 1)..(Len(n) + Len(w) - 1) :
                (n \o Tail(w))[i] = w[i - Len(n) + 1]
<1> DEFINE r == n \o Tail(w)
<1>1. n \in Seq(ToSet(n)) /\ w \in Seq(ToSet(w))
  BY DEF IsSeq
<1> DEFINE S == ToSet(n) \cup ToSet(w)
<1>2. n \in Seq(S) /\ w \in Seq(S)
  BY <1>1, SeqMonotonic
<1>3. Tail(w) \in Seq(S) /\ Len(Tail(w)) = Len(w) - 1 /\ Len(w) \in Nat
      /\ Len(w) >= 1 /\ \A i \in 1..(Len(w) - 1) : Tail(w)[i] = w[i + 1]
  BY <1>2
<1>4. r \in Seq(S) /\ Len(r) = Len(n) + Len(w) - 1 /\ Len(n) \in Nat
  BY <1>2, <1>3
<1>5. \A i \in 1..Len(n) : r[i] = n[i]
  BY <1>2, <1>3
<1>6. \A i \in (Len(n) + 1)..(Len(n) + Len(w) - 1) :
            r[i] = Tail(w)[i - Len(n)] /\ i - Len(n) \in 1..(Len(w) - 1)
  BY <1>2, <1>3, <1>4
<1>7. IsSeq(r)
  BY <1>4, SeqsAreSeqs
<1> QED
  BY <1>3, <1>4, <1>5, <1>6, <1>7

LEMMA Tailed ==
    ASSUME NEW w, IsSeq(w), w # <<>>
    PROVE  /\ IsSeq(Tail(w)) /\ Len(Tail(w)) = Len(w) - 1
           /\ DOMAIN Tail(w) = 1..(Len(w) - 1)
           /\ \A i \in 1..(Len(w) - 1) : Tail(w)[i] = w[i + 1]
           /\ Head(w) = w[1] /\ Len(w) \in Nat /\ Len(w) >= 1
<1>1. w \in Seq(ToSet(w))
  BY DEF IsSeq
<1> DEFINE S == ToSet(w)
<1> HIDE DEF S
<1>2. /\ Tail(w) \in Seq(S) /\ Len(Tail(w)) = Len(w) - 1 /\ Head(w) = w[1]
      /\ Len(w) \in Nat /\ Len(w) >= 1 /\ DOMAIN Tail(w) = 1..(Len(w) - 1)
      /\ \A i \in 1..(Len(w) - 1) : Tail(w)[i] = w[i + 1]
  BY <1>1 DEF S
<1>3. IsSeq(Tail(w))
  BY <1>2, SeqsAreSeqs
<1> QED
  BY <1>2, <1>3

AreTuples(a, b, c, d) ==
    /\ <<a, b>> \o <<c>> = <<a, b, c>>
    /\ <<a, b, c>> \o <<d>> = <<a, b, c, d>>

LEMMA Tuples ==
    ASSUME NEW a, NEW b, NEW c, NEW d
    PROVE  /\ IsSeq(<<>>) /\ IsSeq(<<a>>) /\ IsSeq(<<a, b>>) /\ IsSeq(<<a, b, c>>)
           /\ IsSeq(<<a, b, c, d>>)
           /\ <<>> \o <<a>> = <<a>>
           /\ AreTuples(a, b, c, d)
<1> DEFINE S == {a, b, c, d}
<1>0. a \in S /\ b \in S /\ c \in S /\ d \in S
  OBVIOUS
<1> HIDE DEF S
<1>1. <<>> \in Seq(S) /\ <<a>> \in Seq(S) /\ <<a, b>> \in Seq(S)
      /\ <<a, b, c>> \in Seq(S) /\ <<a, b, c, d>> \in Seq(S)
  BY <1>0
<1>2. ASSUME NEW s \in Seq(S), NEW x \in S, NEW t \in Seq(S),
             Len(t) = Len(s) + 1, t[Len(s) + 1] = x,
             \A i \in 1..Len(s) : t[i] = s[i]
      PROVE  s \o <<x>> = t
  <2>1. /\ s \o <<x>> \in Seq(S) /\ Len(s \o <<x>>) = Len(s) + 1
        /\ \A i \in 1..(Len(s) + 1) :
                (s \o <<x>>)[i] = IF i <= Len(s) THEN s[i] ELSE x
    <3>1. <<x>> \in Seq(S) /\ Len(<<x>>) = 1 /\ <<x>>[1] = x
      OBVIOUS
    <3>2. \A i \in 1..(Len(s) + 1) : i <= Len(s) \/ i - Len(s) = 1
      OBVIOUS
    <3> QED
      BY <3>1, <3>2, ConcatProperties
  <2>2. \A i \in 1..Len(t) : (s \o <<x>>)[i] = t[i]
    BY <1>2, <2>1
  <2> QED
    BY <1>2, <2>1, <2>2, SeqEqual
<1>3. <<>> \o <<a>> = <<a>>
  BY <1>0, <1>1, <1>2
<1>4. <<a, b>> \o <<c>> = <<a, b, c>>
  <2>1. Len(<<a, b>>) = 2 /\ Len(<<a, b, c>>) = 2 + 1 /\ <<a, b, c>>[2 + 1] = c
    OBVIOUS
  <2>2. \A i \in 1..2 : <<a, b, c>>[i] = <<a, b>>[i]
    <3> SUFFICES ASSUME NEW i \in 1..2 PROVE <<a, b, c>>[i] = <<a, b>>[i]
      OBVIOUS
    <3>1. i = 1 \/ i = 2
      OBVIOUS
    <3> QED
      BY <3>1
  <2> QED
    BY <1>0, <1>1, <1>2, <2>1, <2>2
<1>5. <<a, b, c>> \o <<d>> = <<a, b, c, d>>
  <2>1. /\ Len(<<a, b, c>>) = 3 /\ Len(<<a, b, c, d>>) = 3 + 1
        /\ <<a, b, c, d>>[3 + 1] = d
    OBVIOUS
  <2>2. \A i \in 1..3 : <<a, b, c, d>>[i] = <<a, b, c>>[i]
    <3> SUFFICES ASSUME NEW i \in 1..3 PROVE <<a, b, c, d>>[i] = <<a, b, c>>[i]
      OBVIOUS
    <3>1. i = 1 \/ i = 2 \/ i = 3
      OBVIOUS
    <3> QED
      BY <3>1
  <2> QED
    BY <1>0, <1>1, <1>2, <2>1, <2>2
<1> QED
  BY <1>1, <1>3, <1>4, <1>5, SeqsAreSeqs DEF AreTuples

-----------------------------------------------------------------------------
(* Numbers.                                                                *)

LEMMA LeastNumber ==
    ASSUME NEW S \in SUBSET Nat, S # {}
    PROVE  \E n \in S : \A k \in S : n <= k
<1> DEFINE Segments == {1..n : n \in S}
<1>1. Segments \subseteq FiniteSubsetsOf(Nat)
  <2> SUFFICES ASSUME NEW n \in S PROVE 1..n \in FiniteSubsetsOf(Nat)
    OBVIOUS
  <2>1. IsFiniteSet(1..n)
    BY FS_Interval
  <2> QED
    BY <2>1 DEF FiniteSubsetsOf
<1>2. Segments # {}
  OBVIOUS
<1>3. PICK x \in Segments :
        \A y \in Segments : ~(<<y, x>> \in StrictSubsetOrdering(Nat))
  BY <1>1, <1>2, FS_StrictSubsetOrderingWellFounded, WFMin
<1>4. PICK n \in S : x = 1..n
  OBVIOUS
<1>5. ASSUME NEW k \in S, ~(n <= k) PROVE FALSE
  <2>1. k < n /\ k \in Nat /\ n \in Nat
    BY <1>5
  <2>2. 1..k \subseteq 1..n /\ n \in 1..n /\ n \notin 1..k
    BY <2>1
  <2>3. <<1..k, 1..n>> \in StrictSubsetOrdering(Nat)
    BY <2>2 DEF StrictSubsetOrdering
  <2> QED
    BY <1>3, <1>4, <2>3
<1> QED
  BY <1>5

LEMMA EveryNumber ==
    ASSUME NEW S \in SUBSET Nat, 0 \in S, \A n \in S : n + 1 \in S
    PROVE  S = Nat
<1> SUFFICES ASSUME S # Nat PROVE FALSE
  OBVIOUS
<1> DEFINE T == Nat \ S
<1>1. T \in SUBSET Nat /\ T # {}
  OBVIOUS
<1>2. PICK n \in T : \A k \in T : n <= k
  BY <1>1, LeastNumber
<1>3. n \in Nat /\ n # 0
  OBVIOUS
<1>4. n - 1 \in Nat /\ ~(n <= n - 1) /\ (n - 1) + 1 = n
  BY <1>3
<1>5. n - 1 \in S
  BY <1>2, <1>4
<1> QED
  BY <1>4, <1>5

-----------------------------------------------------------------------------
(* Lists of statements.                                                    *)

WithinTo(f, lists, n) ==
    f = [k \in 0..n |-> IF k = 0 THEN lists ELSE f[k - 1] \cup Below(f[k - 1])]

LEMMA WithinIs ==
    ASSUME NEW f, NEW lists, NEW n \in Nat, WithinTo(f, lists, n)
    PROVE  f[0] = lists /\ \A k \in 1..n : f[k] = f[k - 1] \cup Below(f[k - 1])
<1> DEFINE g == [k \in 0..n |-> IF k = 0 THEN lists
                                ELSE f[k - 1] \cup Below(f[k - 1])]
<1>1. f = g
  BY DEF WithinTo
<1>2. g[0] = lists /\ \A k \in 1..n : g[k] = f[k - 1] \cup Below(f[k - 1])
  OBVIOUS
<1> HIDE DEF g
<1> QED
  BY <1>1, <1>2

LEMMA WithinExists ==
    ASSUME NEW lists, NEW n \in Nat
    PROVE  \E f : WithinTo(f, lists, n)
<1> DEFINE S == {k \in Nat : \E f : WithinTo(f, lists, k)}
<1>1. 0 \in S
  <2> DEFINE f == [k \in 0..0 |-> lists]
  <2>1. f = [k \in 0..0 |-> IF k = 0 THEN lists ELSE f[k - 1] \cup Below(f[k - 1])]
    OBVIOUS
  <2> QED
    BY <2>1 DEF WithinTo
<1>2. ASSUME NEW n0 \in S PROVE n0 + 1 \in S
  <2>1. PICK f : WithinTo(f, lists, n0)
    OBVIOUS
  <2>2. f[0] = lists /\ \A k \in 1..n0 : f[k] = f[k - 1] \cup Below(f[k - 1])
    BY <2>1, WithinIs
  <2> DEFINE g == [k \in 0..n0 + 1 |->
                     IF k = n0 + 1 THEN f[n0] \cup Below(f[n0]) ELSE f[k]]
             h == [k \in 0..n0 + 1 |->
                     IF k = 0 THEN lists ELSE g[k - 1] \cup Below(g[k - 1])]
  <2>3. ASSUME NEW k \in 0..n0 + 1 PROVE g[k] = h[k]
    <3>1. CASE k = n0 + 1
      <4>1. k - 1 = n0 /\ k # 0 /\ n0 \in 0..n0 + 1 /\ n0 # n0 + 1
        BY <3>1
      <4> QED
        BY <3>1, <4>1
    <3>2. CASE k # n0 + 1 /\ k # 0
      <4>1. k \in 1..n0 /\ k - 1 \in 0..n0 + 1 /\ k - 1 # n0 + 1
        BY <3>2
      <4> QED
        BY <2>2, <3>2, <4>1
    <3>3. CASE k = 0
      <4>1. k # n0 + 1
        BY <3>3
      <4> QED
        BY <2>2, <3>3, <4>1
    <3> QED
      BY <3>1, <3>2, <3>3
  <2>4. g = h
    BY <2>3
  <2>5. WithinTo(g, lists, n0 + 1)
    BY <2>4 DEF WithinTo
  <2> QED
    BY <2>5
<1>3. S = Nat
  BY <1>1, <1>2, EveryNumber
<1> QED
  BY <1>3

(* Lists lie within themselves.                                            *)
LEMMA WithinItself ==
    ASSUME NEW lists, MaxDepth \in Nat
    PROVE  lists \subseteq Within(lists)
<1> DEFINE within == CHOOSE f : WithinTo(f, lists, MaxDepth)
<1>1. Within(lists) = within[MaxDepth]
  BY DEF Within, WithinTo
<1>2. WithinTo(within, lists, MaxDepth)
  BY WithinExists
<1> HIDE DEF within
<1>3. /\ within[0] = lists
      /\ \A k \in 1..MaxDepth : within[k] = within[k - 1] \cup Below(within[k - 1])
  BY <1>2, WithinIs
<1> DEFINE S == {k \in Nat : k <= MaxDepth => lists \subseteq within[k]}
<1>4. 0 \in S
  BY <1>3
<1>5. ASSUME NEW k \in S PROVE k + 1 \in S
  <2> SUFFICES ASSUME k + 1 <= MaxDepth PROVE lists \subseteq within[k + 1]
    OBVIOUS
  <2>1. k + 1 \in 1..MaxDepth /\ (k + 1) - 1 = k /\ lists \subseteq within[k]
    OBVIOUS
  <2> QED
    BY <1>3, <2>1
<1>6. S = Nat
  BY <1>4, <1>5, EveryNumber
<1> QED
  BY <1>1, <1>6

(* A function that the program has: what lies in it.                       *)
LEMMA FunctionIs ==
    ASSUME fun \in Functions
    PROVE  /\ fun.headless \in BOOLEAN
           /\ fun.headless => Len(fun.body) = 1 /\ fun.body[1].is = "match"
           /\ IsCode(fun.body) /\ fun.body \in Lists(fun)
           /\ InnerLists(fun) \subseteq Lists(fun)
           /\ \A list \in Lists(fun) : \A s \in ToSet(list) :
                IsStatement(s) /\ Sublists(s) \subseteq InnerLists(fun)
<1>1. MaxDepth \in Nat
  BY FunctionsAssumption
<1>2. Below({fun.body}) \subseteq InnerLists(fun)
  BY <1>1, WithinItself DEF InnerLists
<1>3. Below(InnerLists(fun)) \subseteq InnerLists(fun)
  BY FunctionsAssumption
<1>4. ASSUME NEW list \in Lists(fun), NEW s \in ToSet(list)
      PROVE  Sublists(s) \subseteq InnerLists(fun)
  <2>1. CASE list = fun.body
    <3>1. Sublists(s) \subseteq Below({fun.body})
      BY <2>1 DEF Below
    <3> QED
      BY <1>2, <3>1
  <2>2. CASE list \in InnerLists(fun)
    <3>1. Sublists(s) \subseteq Below(InnerLists(fun))
      BY <2>2 DEF Below
    <3> QED
      BY <1>3, <3>1
  <2> QED
    BY <2>1, <2>2 DEF Lists
<1> QED
  BY <1>4, FunctionsAssumption DEF Lists

LEMMA RestIs ==
    ASSUME NEW rest, NEW list, IsSeq(list), IsRest(rest, list), rest # <<>>
    PROVE  /\ IsSeq(rest) /\ Head(rest) = rest[1] /\ Head(rest) \in ToSet(list)
           /\ IsRest(Tail(rest), list)
           /\ Tail(rest) # <<>> => Head(rest) \in ToSet(Front(list))
           /\ Len(rest) \in Nat /\ Len(rest) >= 1 /\ Len(list) \in Nat
           /\ Len(Tail(rest)) = Len(rest) - 1
<1>1. /\ IsSeq(rest) /\ Len(rest) <= Len(list)
      /\ \A j \in 1..Len(rest) : rest[j] = list[Len(list) - Len(rest) + j]
  BY DEF IsRest
<1>2. /\ Len(rest) \in Nat /\ Len(rest) >= 1 /\ Head(rest) = rest[1]
      /\ IsSeq(Tail(rest)) /\ Len(Tail(rest)) = Len(rest) - 1
      /\ \A i \in 1..(Len(rest) - 1) : Tail(rest)[i] = rest[i + 1]
  BY <1>1, Tailed
<1>3. /\ Len(list) \in Nat /\ DOMAIN list = 1..Len(list)
      /\ \A i \in 1..Len(list) : list[i] \in ToSet(list)
  BY SeqIs
<1> DEFINE k == Len(list) - Len(rest) + 1
<1>4. k \in 1..Len(list) /\ Head(rest) = list[k]
  BY <1>1, <1>2, <1>3
<1>5. IsRest(Tail(rest), list)
  <2>1. ASSUME NEW j \in 1..Len(Tail(rest))
        PROVE  Tail(rest)[j] = list[Len(list) - Len(Tail(rest)) + j]
    <3>1. j + 1 \in 1..Len(rest) /\ j \in 1..(Len(rest) - 1)
      BY <1>2
    <3>2. Len(list) - Len(rest) + (j + 1) = Len(list) - Len(Tail(rest)) + j
      BY <1>2, <1>3, <3>1
    <3> QED
      BY <1>1, <1>2, <3>1, <3>2
  <2> QED
    BY <1>1, <1>2, <1>3, <2>1 DEF IsRest
<1>6. ASSUME Tail(rest) # <<>> PROVE Head(rest) \in ToSet(Front(list))
  <2>1. Len(rest) >= 2
    BY <1>2, <1>6, SeqIs
  <2>2. k \in 1..(Len(list) - 1)
    BY <1>1, <1>2, <1>3, <2>1
  <2>3. /\ Front(list) = SubSeq(list, 1, Len(list) - 1)
        /\ \A i \in 1..(Len(list) - 1) : list[i] \in ToSet(list)
        /\ Len(list) - 1 \in Int /\ 1 <= Len(list) - 1
    BY <1>3, <2>2 DEF Front
  <2>4. /\ Front(list) \in Seq(ToSet(list)) /\ Len(Front(list)) = Len(list) - 1
        /\ \A i \in 1..(Len(list) - 1) : Front(list)[i] = list[i]
    <3>1. /\ SubSeq(list, 1, Len(list) - 1) \in Seq(ToSet(list))
          /\ Len(SubSeq(list, 1, Len(list) - 1)) = (Len(list) - 1) - 1 + 1
          /\ \A i \in 1..((Len(list) - 1) - 1 + 1) :
                SubSeq(list, 1, Len(list) - 1)[i] = list[1 + i - 1]
      BY <2>3, SubSeqProperties
    <3> QED
      BY <1>3, <2>3, <3>1
  <2>5. k \in DOMAIN Front(list) /\ Front(list)[k] = Head(rest)
    BY <1>4, <2>2, <2>4
  <2> QED
    BY <2>5 DEF ToSet
<1> QED
  BY <1>1, <1>2, <1>3, <1>4, <1>5, <1>6

LEMMA RestOfAll ==
    ASSUME NEW list, IsSeq(list)
    PROVE  IsRest(list, list) /\ \A rest : IsRest(rest, list) =>
                                    ToSet(rest) \subseteq ToSet(list)
<1>1. Len(list) \in Nat /\ \A i \in 1..Len(list) : list[i] \in ToSet(list)
  BY SeqIs
<1>2. IsRest(list, list)
  BY <1>1 DEF IsRest
<1>3. ASSUME NEW rest, IsRest(rest, list), NEW x \in ToSet(rest)
      PROVE  x \in ToSet(list)
  <2>1. PICK i \in 1..Len(rest) : x = rest[i]
    BY <1>3, SeqIs DEF IsRest
  <2>2. Len(rest) \in Nat
    BY <1>3, SeqIs DEF IsRest
  <2>3. x = list[Len(list) - Len(rest) + i]
    BY <1>3, <2>1 DEF IsRest
  <2>4. Len(list) - Len(rest) + i \in 1..Len(list)
    BY <1>1, <1>3, <2>1, <2>2 DEF IsRest
  <2> QED
    BY <1>1, <2>3, <2>4
<1> QED
  BY <1>2, <1>3

-----------------------------------------------------------------------------
(* Blocks.                                                                 *)

AreBlocks(bs) ==
    /\ IsFiniteSet(DOMAIN bs) /\ DOMAIN bs = 0..(Cardinality(DOMAIN bs) - 1)
    /\ \A b \in DOMAIN bs : bs[b] = [code |-> bs[b].code, exit |-> bs[b].exit]

LEMMA CountIs ==
    ASSUME NEW n \in Nat
    PROVE  IsFiniteSet(0..(n - 1)) /\ Cardinality(0..(n - 1)) = n
BY FS_Interval

(* Blocks cs are the blocks bs, but b has that exit.                       *)
HasExit(bs, b, exit, cs) ==
    /\ AreBlocks(cs) /\ DOMAIN cs = DOMAIN bs /\ cs[b].exit = exit
    /\ \A c \in DOMAIN bs : c # b => cs[c] = bs[c]

LEMMA AnExitSet ==
    ASSUME NEW bs, AreBlocks(bs), NEW b \in DOMAIN bs, NEW exit
    PROVE  HasExit(bs, b, exit, SetExit(bs, b, exit))
<1> DEFINE cs == SetExit(bs, b, exit)
<1>1. cs = [c \in DOMAIN bs |-> IF c = b THEN [bs[b] EXCEPT !.exit = exit] ELSE bs[c]]
  BY DEF SetExit
<1>2. bs[b] = [code |-> bs[b].code, exit |-> bs[b].exit]
  BY DEF AreBlocks
<1>3. [bs[b] EXCEPT !.exit = exit] = [code |-> bs[b].code, exit |-> exit]
  BY <1>2
<1>4. DOMAIN cs = DOMAIN bs /\ cs[b] = [code |-> bs[b].code, exit |-> exit]
      /\ \A c \in DOMAIN bs : c # b => cs[c] = bs[c]
  BY <1>1, <1>3
<1> HIDE DEF cs
<1>5. \A c \in DOMAIN cs : cs[c] = [code |-> cs[c].code, exit |-> cs[c].exit]
  BY <1>4 DEF AreBlocks
<1>6. AreBlocks(cs)
  BY <1>4, <1>5 DEF AreBlocks
<1> QED
  BY <1>4, <1>6 DEF HasExit, cs

LEMMA AnExprAdded ==
    ASSUME NEW bs, AreBlocks(bs), NEW b \in DOMAIN bs, NEW expr
    PROVE  LET cs == AddExpr(bs, b, expr)
           IN  /\ AreBlocks(cs) /\ DOMAIN cs = DOMAIN bs
               /\ \A c \in DOMAIN bs : cs[c].exit = bs[c].exit
<1> DEFINE cs == AddExpr(bs, b, expr)
           code == Append(bs[b].code, expr)
<1>1. cs = [c \in DOMAIN bs |-> IF c = b THEN [bs[b] EXCEPT !.code = code] ELSE bs[c]]
  BY DEF AddExpr
<1>2. bs[b] = [code |-> bs[b].code, exit |-> bs[b].exit]
  BY DEF AreBlocks
<1>3. [bs[b] EXCEPT !.code = code] = [code |-> code, exit |-> bs[b].exit]
  BY <1>2
<1>4. DOMAIN cs = DOMAIN bs /\ cs[b] = [code |-> code, exit |-> bs[b].exit]
      /\ \A c \in DOMAIN bs : c # b => cs[c] = bs[c]
  BY <1>1, <1>3
<1> HIDE DEF cs, code
<1>5. \A c \in DOMAIN cs : cs[c] = [code |-> cs[c].code, exit |-> cs[c].exit]
  BY <1>4 DEF AreBlocks
<1>6. AreBlocks(cs)
  BY <1>4, <1>5 DEF AreBlocks
<1> QED
  BY <1>4, <1>6 DEF cs

(* Blocks cs have been made of the blocks bs and the new ones.             *)
AreMade(bs, new, cs) ==
    LET n == Cardinality(DOMAIN bs)
    IN  /\ AreBlocks(cs) /\ n \in Nat /\ n \notin DOMAIN bs
        /\ Cardinality(DOMAIN cs) = n + Len(new)
        /\ DOMAIN bs = 0..(n - 1)
        /\ DOMAIN cs = DOMAIN bs \cup n..(n + Len(new) - 1)
        /\ \A b \in DOMAIN bs : cs[b] = bs[b]
        /\ \A j \in 1..Len(new) : cs[n + j - 1] = new[j]

LEMMA BlocksMade ==
    ASSUME NEW bs, AreBlocks(bs), NEW new, IsSeq(new),
           \A j \in 1..Len(new) : new[j] = [code |-> new[j].code, exit |-> new[j].exit]
    PROVE  AreMade(bs, new, With(bs, new))
<1> DEFINE cs == With(bs, new)
           n == Cardinality(DOMAIN bs)
<1>1. n \in Nat /\ DOMAIN bs = 0..(n - 1)
  BY FS_CardinalityType DEF AreBlocks
<1>2. Len(new) \in Nat
  BY SeqIs
<1>3. cs = [b \in 0..(n + Len(new) - 1) |->
                IF b \in DOMAIN bs THEN bs[b] ELSE new[b - n + 1]]
  BY DEF With
<1> HIDE DEF n, cs
<1>4. DOMAIN cs = 0..(n + Len(new) - 1) /\ n \notin DOMAIN bs
      /\ DOMAIN cs = DOMAIN bs \cup n..(n + Len(new) - 1)
  BY <1>1, <1>2, <1>3
<1>5. IsFiniteSet(DOMAIN cs) /\ Cardinality(DOMAIN cs) = n + Len(new)
  BY <1>1, <1>2, <1>4, CountIs
<1>6. \A b \in DOMAIN bs : cs[b] = bs[b]
  BY <1>3, <1>4
<1>7. ASSUME NEW j \in 1..Len(new) PROVE cs[n + j - 1] = new[j]
  <2>1. n + j - 1 \in 0..(n + Len(new) - 1) /\ n + j - 1 \notin DOMAIN bs
        /\ (n + j - 1) - n + 1 = j
    BY <1>1, <1>2
  <2> QED
    BY <1>3, <2>1
<1>8. ASSUME NEW b \in DOMAIN cs
      PROVE  cs[b] = [code |-> cs[b].code, exit |-> cs[b].exit]
  <2>1. CASE b \in DOMAIN bs
    BY <1>6, <2>1 DEF AreBlocks
  <2>2. CASE b \in n..(n + Len(new) - 1)
    <3>1. b - n + 1 \in 1..Len(new) /\ b = n + (b - n + 1) - 1
      BY <1>1, <1>2, <2>2
    <3> QED
      BY <1>7, <3>1
  <2> QED
    BY <1>4, <2>1, <2>2
<1>9. AreBlocks(cs)
  <2>1. DOMAIN cs = 0..(Cardinality(DOMAIN cs) - 1)
    BY <1>1, <1>2, <1>4, <1>5
  <2> QED
    BY <1>5, <1>8, <2>1 DEF AreBlocks
<1> QED
  BY <1>1, <1>4, <1>5, <1>6, <1>7, <1>9 DEF AreMade, cs, n

-----------------------------------------------------------------------------
(* The types: a handler replaces the task it does by tasks about blocks    *)
(* that were created.                                                      *)

TargetsIn(bs) == \A b \in DOMAIN bs : Targets(bs[b].exit) \subseteq DOMAIN bs

LEMMA TypesAre ==
    ASSUME TypesInv
    PROVE  /\ AreBlocks(blocks) /\ TargetsIn(blocks) /\ Fresh \in Nat
           /\ Fresh = Cardinality(DOMAIN blocks) /\ DOMAIN blocks = 0..(Fresh - 1)
           /\ EndBlock \in DOMAIN blocks /\ FirstBlock \in DOMAIN blocks
           /\ fun \in Functions /\ IsSeq(added) /\ ToSet(added) \subseteq DOMAIN blocks
           /\ cur \in DOMAIN blocks /\ next \in DOMAIN blocks \cup {NoBlock}
           /\ loopVar \in Nat /\ NoBlock \notin DOMAIN blocks
<1>1. AreBlocks(blocks)
  BY DEF TypesInv, StoreInv, BlocksTypeOK, AreBlocks, Fresh
<1>2. Fresh \in Nat
  BY <1>1, FS_CardinalityType DEF AreBlocks, Fresh
<1>3. DOMAIN blocks = 0..(Fresh - 1)
  BY DEF TypesInv, BlocksTypeOK
<1>4. NoBlock \notin DOMAIN blocks
  BY <1>2, <1>3 DEF NoBlock
<1> QED
  BY <1>1, <1>2, <1>3, <1>4 DEF TypesInv, StoreInv, BlocksTypeOK, Fresh, TargetsIn

LEMMA TaskIs ==
    ASSUME TypesInv, stage = "lower", work # <<>>
    PROVE  /\ IsSeq(work) /\ Task = work[1] /\ IsTask(Task, DOMAIN blocks)
           /\ Len(work) \in Nat /\ Len(work) >= 1 /\ DOMAIN work = 1..Len(work)
           /\ Task.do \in NeedsNext => next # NoBlock
<1>1. IsSeq(work)
  BY DEF TypesInv, WorkInv
<1>2. Task = work[1] /\ Len(work) \in Nat /\ Len(work) >= 1 /\ DOMAIN work = 1..Len(work)
  BY <1>1, Tailed, SeqIs DEF Task
<1> QED
  BY <1>1, <1>2 DEF TypesInv, WorkInv

LEMMA TypesKeep ==
    ASSUME TypesInv, stage = "lower", work # <<>>, fun' = fun,
           NEW new, IsSeq(new), work' = new \o Tail(work),
           AreBlocks(blocks'), TargetsIn(blocks'), DOMAIN blocks \subseteq DOMAIN blocks',
           IsSeq(added'), ToSet(added') \subseteq DOMAIN blocks',
           cur' \in DOMAIN blocks', next' \in DOMAIN blocks' \cup {NoBlock},
           next # NoBlock => next' # NoBlock,
           loopVar' \in Nat, stage' \in {"lower", "asserted"},
           \A i \in 1..Len(new) :
                /\ IsTask(new[i], DOMAIN blocks')
                /\ new[i].do \in NeedsNext => next' # NoBlock
    PROVE  TypesInv'
<1>1. /\ IsSeq(work) /\ DOMAIN work = 1..Len(work) /\ Len(work) \in Nat
      /\ Len(work) >= 1 /\ Len(new) \in Nat
      /\ \A i \in DOMAIN work :
            /\ IsTask(work[i], DOMAIN blocks)
            /\ work[i].do \in NeedsNext => next # NoBlock
  BY TaskIs, SeqIs DEF TypesInv, WorkInv
<1>2. /\ IsSeq(work') /\ DOMAIN work' = 1..(Len(new) + Len(work) - 1)
      /\ \A i \in 1..Len(new) : work'[i] = new[i]
      /\ \A i \in (Len(new) + 1)..(Len(new) + Len(work) - 1) :
            work'[i] = work[i - Len(new) + 1]
  BY <1>1, Replaced
<1>3. ASSUME NEW i \in DOMAIN work'
      PROVE  IsTask(work'[i], DOMAIN blocks') /\ (work'[i].do \in NeedsNext => next' # NoBlock)
  <2>1. CASE i \in 1..Len(new)
    BY <1>2, <2>1
  <2>2. CASE i \notin 1..Len(new)
    <3>1. /\ i \in (Len(new) + 1)..(Len(new) + Len(work) - 1)
          /\ i - Len(new) + 1 \in DOMAIN work
      BY <1>1, <1>2, <2>2
    <3> DEFINE j == i - Len(new) + 1
    <3>a. work'[i] = work[j] /\ j \in DOMAIN work
      BY <1>2, <3>1
    <3> HIDE DEF j
    <3> DEFINE t == work[j]
    <3>2. IsTask(t, DOMAIN blocks) /\ (t.do \in NeedsNext => next # NoBlock)
          /\ work'[i] = t
      BY <1>1, <3>a
    <3> HIDE DEF t
    <3>3. IsTask(t, DOMAIN blocks')
      BY <3>2 DEF IsTask
    <3> QED
      BY <3>2, <3>3
  <2> QED
    BY <2>1, <2>2
<1>4. WorkInv'
  <2>1. \A i \in DOMAIN work' : IsTask(work[i], DOMAIN blocks)'
    BY <1>3 DEF IsTask
  <2> QED
    BY <1>2, <1>3, <2>1 DEF WorkInv
<1>5. StoreInv'
  BY TypesAre DEF StoreInv, AreBlocks
<1>6. BlocksTypeOK'
  <2>1. fun' \in Functions
    BY TypesAre
  <2>2. stage' \notin {"run", "returned"}
    OBVIOUS
  <2> QED
    BY <2>1, <2>2 DEF BlocksTypeOK, AreBlocks, Fresh, TargetsIn, Failures
<1> QED
  BY <1>4, <1>5, <1>6 DEF TypesInv

LEMMA Concatenated ==
    ASSUME NEW s, IsSeq(s), NEW t, IsSeq(t)
    PROVE  /\ IsSeq(s \o t) /\ ToSet(s \o t) = ToSet(s) \cup ToSet(t)
           /\ Len(s) \in Nat /\ Len(t) \in Nat /\ Len(s \o t) = Len(s) + Len(t)
           /\ IsInjective(s) /\ IsInjective(t) /\ ToSet(s) \cap ToSet(t) = {} =>
                IsInjective(s \o t)
<1> DEFINE r == s \o t
<1>1. s \in Seq(ToSet(s)) /\ t \in Seq(ToSet(t))
  BY DEF IsSeq
<1> DEFINE S == ToSet(s) \cup ToSet(t)
<1>2. s \in Seq(S) /\ t \in Seq(S)
  BY <1>1, SeqMonotonic
<1>3. /\ r \in Seq(S) /\ Len(r) = Len(s) + Len(t) /\ Len(s) \in Nat /\ Len(t) \in Nat
      /\ \A i \in 1..(Len(s) + Len(t)) :
            r[i] = IF i <= Len(s) THEN s[i] ELSE t[i - Len(s)]
  BY <1>2, ConcatProperties
<1>4. IsSeq(r)
  BY <1>3, SeqsAreSeqs
<1>5. /\ DOMAIN r = 1..(Len(s) + Len(t)) /\ DOMAIN s = 1..Len(s) /\ DOMAIN t = 1..Len(t)
      /\ \A i \in 1..Len(s) : s[i] \in ToSet(s)
      /\ \A i \in 1..Len(t) : t[i] \in ToSet(t)
      /\ \A x \in ToSet(s) : \E i \in 1..Len(s) : x = s[i]
      /\ \A x \in ToSet(t) : \E i \in 1..Len(t) : x = t[i]
      /\ \A i \in 1..Len(r) : r[i] \in ToSet(r)
      /\ \A x \in ToSet(r) : \E i \in 1..Len(r) : x = r[i]
  BY <1>3, <1>4, SeqIs
<1> HIDE DEF S, r
<1>6. ASSUME NEW x \in ToSet(r) PROVE x \in ToSet(s) \cup ToSet(t)
  <2>1. PICK i \in 1..Len(r) : x = r[i]
    BY <1>5
  <2>2. CASE i <= Len(s)
    BY <1>3, <1>5, <2>1, <2>2
  <2>3. CASE ~(i <= Len(s))
    <3>1. i - Len(s) \in 1..Len(t)
      BY <1>3, <2>1, <2>3
    <3> QED
      BY <1>3, <1>5, <2>1, <2>3, <3>1
  <2> QED
    BY <2>2, <2>3
<1>7. ASSUME NEW x \in ToSet(s) PROVE x \in ToSet(r)
  <2>1. PICK i \in 1..Len(s) : x = s[i]
    BY <1>5
  <2>2. i \in 1..Len(r) /\ r[i] = x
    BY <1>3, <2>1
  <2> QED
    BY <1>5, <2>2
<1>8. ASSUME NEW x \in ToSet(t) PROVE x \in ToSet(r)
  <2>1. PICK i \in 1..Len(t) : x = t[i]
    BY <1>5
  <2>2. Len(s) + i \in 1..Len(r) /\ ~(Len(s) + i <= Len(s)) /\ (Len(s) + i) - Len(s) = i
    BY <1>3, <2>1
  <2>3. r[Len(s) + i] = x
    BY <1>3, <2>1, <2>2
  <2> QED
    BY <1>5, <2>2, <2>3
<1>9. ASSUME IsInjective(s), IsInjective(t), ToSet(s) \cap ToSet(t) = {}
      PROVE  IsInjective(r)
  <2> SUFFICES ASSUME NEW i \in DOMAIN r, NEW j \in DOMAIN r, r[i] = r[j] PROVE i = j
    BY DEF IsInjective
  <2>0. /\ \A a, b \in 1..Len(s) : s[a] = s[b] => a = b
        /\ \A a, b \in 1..Len(t) : t[a] = t[b] => a = b
    BY <1>5, <1>9 DEF IsInjective
  <2>1. CASE i <= Len(s) /\ j <= Len(s)
    <3>1. i \in 1..Len(s) /\ j \in 1..Len(s) /\ r[i] = s[i] /\ r[j] = s[j]
      BY <1>3, <1>5, <2>1
    <3> QED
      BY <2>0, <3>1
  <2>2. CASE ~(i <= Len(s)) /\ ~(j <= Len(s))
    <3>1. i - Len(s) \in 1..Len(t) /\ j - Len(s) \in 1..Len(t)
          /\ r[i] = t[i - Len(s)] /\ r[j] = t[j - Len(s)]
      BY <1>3, <1>5, <2>2
    <3>2. i - Len(s) = j - Len(s)
      BY <2>0, <3>1
    <3> QED
      BY <1>3, <1>5, <3>2
  <2>3. ASSUME NEW a \in DOMAIN r, NEW b \in DOMAIN r, a <= Len(s), ~(b <= Len(s)),
               r[a] = r[b]
        PROVE  FALSE
    <3>1. a \in 1..Len(s) /\ b - Len(s) \in 1..Len(t)
          /\ r[a] = s[a] /\ r[b] = t[b - Len(s)]
      BY <1>3, <1>5, <2>3
    <3>2. s[a] \in ToSet(s) /\ s[a] \in ToSet(t)
      BY <1>5, <2>3, <3>1
    <3> QED
      BY <1>9, <3>2
  <2> QED
    BY <2>1, <2>2, <2>3
<1>10. ToSet(r) = ToSet(s) \cup ToSet(t)
  BY <1>6, <1>7, <1>8
<1> QED
  BY <1>3, <1>4, <1>9, <1>10 DEF r

LEMMA Appended ==
    ASSUME NEW s, IsSeq(s), NEW x
    PROVE  /\ IsSeq(Append(s, x)) /\ ToSet(Append(s, x)) = ToSet(s) \cup {x}
           /\ IsInjective(s) /\ x \notin ToSet(s) => IsInjective(Append(s, x))
<1> DEFINE S == ToSet(s) \cup {x}
           one == <<x>>
<1>1. s \in Seq(S) /\ x \in S
  BY SeqMonotonic DEF IsSeq
<1>2. Append(s, x) = s \o one
  BY <1>1, AppendIsConcat
<1>3. IsSeq(one)
  BY Tuples
<1>4. DOMAIN one = {1} /\ one[1] = x
  OBVIOUS
<1> HIDE DEF S, one
<1>5. ToSet(one) = {x}
  BY <1>4 DEF ToSet
<1>6. IsInjective(one)
  BY <1>4 DEF IsInjective
<1>7. /\ IsSeq(s \o one) /\ ToSet(s \o one) = ToSet(s) \cup {x}
      /\ ToSet(s) \cap {x} = {} /\ IsInjective(s) => IsInjective(s \o one)
  BY <1>3, <1>5, <1>6, Concatenated
<1> QED
  BY <1>2, <1>7

(* A body that is open, and what is left of it after its next statement.   *)
Rest == Body(Tail(Task.list))

LEMMA BodyIs ==
    ASSUME TypesInv, InBody
    PROVE  /\ stage = "lower" /\ work # <<>> /\ Task.do = "body"
           /\ IsStatement(Stmt) /\ Sublists(Stmt) \subseteq InnerLists(fun)
           /\ Stmt.is \in {"do", "return", "if", "for", "match"}
           /\ Stmt.id \in Nat \ {0}
           /\ Task = Body(Task.list)
           /\ [Task EXCEPT !.list = Tail(@)] = Rest
           /\ \A made : IsTask(Rest, made)
<1>1. /\ stage = "lower" /\ work # <<>> /\ Task.do = "body" /\ Task.list # <<>>
      /\ fun \in Functions
  BY TypesAre DEF InBody, Doing
<1>2. Task = [do |-> "body", list |-> Task.list]
  BY <1>1, TaskIs DEF IsTask
<1>3. PICK list \in Lists(fun) : IsCode(list) /\ IsRest(Task.list, list)
  BY <1>1, TaskIs DEF IsTask
<1>4. IsSeq(list) /\ \A s \in ToSet(list) : HasBlocks(s) \/ s.is \in {"do", "return"}
  BY <1>3 DEF IsCode
<1>5. Stmt \in ToSet(list) /\ IsRest(Tail(Task.list), list)
  BY <1>1, <1>3, <1>4, RestIs DEF Stmt
<1>6. Stmt.is \in {"do", "return", "if", "for", "match"}
  BY <1>4, <1>5 DEF HasBlocks
<1>7. IsStatement(Stmt) /\ Sublists(Stmt) \subseteq InnerLists(fun)
  BY <1>1, <1>5, FunctionIs
<1>8. Stmt.id \in Nat \ {0}
  BY <1>6, <1>7 DEF IsStatement
<1>9. [Task EXCEPT !.list = Tail(@)] = Rest
  <2> DEFINE list0 == Task.list
  <2>1. Task = [do |-> "body", list |-> list0] /\ Task.list = list0
    BY <1>2
  <2> HIDE DEF list0
  <2>2. ASSUME NEW t, t = [do |-> "body", list |-> list0], NEW list1
        PROVE  [t EXCEPT !.list = list1] = [do |-> "body", list |-> list1]
    BY <2>2
  <2>3. [Task EXCEPT !.list = Tail(Task.list)] = [do |-> "body", list |-> Tail(Task.list)]
    BY <2>1, <2>2
  <2> QED
    BY <2>3 DEF Rest, Body
<1>10. ASSUME NEW made PROVE IsTask(Rest, made)
  <2>1. Rest.do = "body" /\ Rest = [do |-> "body", list |-> Rest.list]
        /\ Rest.list = Tail(Task.list)
    BY DEF Rest, Body
  <2>2. \E l \in Lists(fun) : IsCode(l) /\ IsRest(Rest.list, l)
    BY <1>3, <1>5, <2>1
  <2> HIDE DEF Rest
  <2> QED
    BY <2>1, <2>2 DEF IsTask, TaskKinds
<1> QED
  BY <1>1, <1>2, <1>6, <1>7, <1>8, <1>9, <1>10 DEF Body

LEMMA TypesLeft ==
    ASSUME TypesInv, stage = "lower", work # <<>>, fun' = fun, work' = Tail(work),
           AreBlocks(blocks'), TargetsIn(blocks'), DOMAIN blocks \subseteq DOMAIN blocks',
           IsSeq(added'), ToSet(added') \subseteq DOMAIN blocks',
           cur' \in DOMAIN blocks', next' = next,
           loopVar' \in Nat, stage' = stage
    PROVE  TypesInv'
<1>1. IsSeq(work) /\ IsSeq(<<>>) /\ IsSeq(Tail(work))
  BY TaskIs, Tailed, Tuples
<1>2. work' = <<>> \o Tail(work)
  <2>1. Tail(work) \in Seq(ToSet(Tail(work)))
    BY <1>1 DEF IsSeq
  <2> QED
    BY <2>1, ConcatEmptySeq
<1>3. next' \in DOMAIN blocks' \cup {NoBlock}
  BY TypesAre
<1>4. \A i \in 1..Len(<<>>) : FALSE
  OBVIOUS
<1> QED
  BY <1>1, <1>2, <1>3, <1>4, TypesKeep

(* Blocks after a block got an exit.                                       *)
LEMMA TargetsKept ==
    ASSUME NEW bs, AreBlocks(bs), TargetsIn(bs), NEW b \in DOMAIN bs, NEW exit,
           Targets(exit) \subseteq DOMAIN bs
    PROVE  /\ AreBlocks(SetExit(bs, b, exit)) /\ TargetsIn(SetExit(bs, b, exit))
           /\ DOMAIN SetExit(bs, b, exit) = DOMAIN bs
           /\ AreBlocks(IfUnset(bs, b, exit)) /\ TargetsIn(IfUnset(bs, b, exit))
           /\ DOMAIN IfUnset(bs, b, exit) = DOMAIN bs
<1> DEFINE cs == SetExit(bs, b, exit)
<1>1. AreBlocks(cs) /\ DOMAIN cs = DOMAIN bs /\ cs[b].exit = exit
      /\ \A c \in DOMAIN bs : c # b => cs[c] = bs[c]
  BY AnExitSet DEF HasExit
<1> HIDE DEF cs
<1>2. TargetsIn(cs)
  BY <1>1 DEF TargetsIn
<1>3. IfUnset(bs, b, exit) \in {bs, cs}
  BY DEF IfUnset, cs
<1>4. AreBlocks(cs) /\ TargetsIn(cs) /\ DOMAIN cs = DOMAIN bs
  BY <1>1, <1>2
<1>5. AreBlocks(IfUnset(bs, b, exit)) /\ TargetsIn(IfUnset(bs, b, exit))
      /\ DOMAIN IfUnset(bs, b, exit) = DOMAIN bs
  BY <1>3, <1>4
<1> QED
  BY <1>4, <1>5 DEF cs

LEMMA TargetsOf ==
    ASSUME NEW a, NEW b, NEW on
    PROVE  /\ Targets(Branch(a)) = {a} /\ Targets(CondBranch(on, a, b)) = {a, b}
           /\ Targets(NoExit) = {} /\ Targets(Return) = {}
BY DEF Targets, Branch, CondBranch, NoExit, Return

LEMMA TargetsAdded ==
    ASSUME NEW bs, AreBlocks(bs), TargetsIn(bs), NEW b \in DOMAIN bs, NEW expr
    PROVE  /\ AreBlocks(AddExpr(bs, b, expr)) /\ TargetsIn(AddExpr(bs, b, expr))
           /\ DOMAIN AddExpr(bs, b, expr) = DOMAIN bs
BY AnExprAdded DEF TargetsIn

LEMMA TypesLeaveBody == TypesInv /\ LeaveBody => TypesInv'
<1> SUFFICES ASSUME TypesInv, LeaveBody PROVE TypesInv'
  OBVIOUS
<1>1. /\ stage = "lower" /\ work # <<>> /\ fun' = fun /\ work' = Tail(work)
      /\ blocks' = blocks /\ added' = added /\ cur' = cur /\ next' = next
      /\ loopVar' = loopVar /\ stage' = stage
  BY DEF LeaveBody, Doing
<1> QED
  BY <1>1, TypesAre, TypesLeft

LEMMA TypesStepFor == TypesInv /\ StepFor => TypesInv'
<1> SUFFICES ASSUME TypesInv, StepFor PROVE TypesInv'
  OBVIOUS
<1>1. /\ stage = "lower" /\ work # <<>> /\ fun' = fun /\ work' = Tail(work)
      /\ blocks' = AddExpr(blocks, cur, <<"step", Task.for>>)
      /\ added' = added /\ cur' = cur /\ next' = next
      /\ loopVar' = NoLoop /\ stage' = stage
  BY DEF StepFor, Doing
<1>2. AreBlocks(blocks') /\ TargetsIn(blocks') /\ DOMAIN blocks' = DOMAIN blocks
  BY <1>1, TypesAre, TargetsAdded
<1>3. loopVar' \in Nat
  BY <1>1 DEF NoLoop
<1> QED
  BY <1>1, <1>2, <1>3, TypesAre, TypesLeft

LEMMA TypesEndIf == TypesInv /\ EndIf => TypesInv'
<1> SUFFICES ASSUME TypesInv, EndIf PROVE TypesInv'
  OBVIOUS
<1>1. /\ stage = "lower" /\ work # <<>> /\ fun' = fun /\ work' = Tail(work)
      /\ blocks' = blocks /\ added' = Append(added, next) /\ cur' = next /\ next' = next
      /\ loopVar' = loopVar /\ stage' = stage /\ Task.do = "endif"
  BY DEF EndIf, Doing
<1>2. next \in DOMAIN blocks
  BY <1>1, TaskIs, TypesAre DEF NeedsNext
<1>3. IsSeq(added') /\ ToSet(added') \subseteq DOMAIN blocks
  BY <1>1, <1>2, TypesAre, Appended
<1> QED
  BY <1>1, <1>2, <1>3, TypesAre, TypesLeft

LEMMA TypesEndFor == TypesInv /\ EndFor => TypesInv'
<1> SUFFICES ASSUME TypesInv, EndFor PROVE TypesInv'
  OBVIOUS
<1>1. /\ stage = "lower" /\ work # <<>> /\ fun' = fun /\ work' = Tail(work)
      /\ blocks' = EndOfLoop(blocks, Task)
      /\ added' = Append(added, next) /\ cur' = next /\ next' = next
      /\ loopVar' = loopVar /\ stage' = stage /\ Task.do = "endfor"
  BY DEF EndFor, Doing
<1>2. next \in DOMAIN blocks /\ Task.cmp \in DOMAIN blocks /\ Task.body \in DOMAIN blocks
  BY <1>1, TaskIs, TypesAre DEF NeedsNext, IsTask
<1>3. IsSeq(added') /\ ToSet(added') \subseteq DOMAIN blocks
  BY <1>1, <1>2, TypesAre, Appended
<1>4. AreBlocks(blocks') /\ TargetsIn(blocks') /\ DOMAIN blocks' = DOMAIN blocks
  <2> DEFINE one == SetExit(blocks, Task.body, Branch(Task.cmp))
             exit == CondBranch(<<"for", Task.for>>, next, Task.body)
  <2>1. AreBlocks(one) /\ TargetsIn(one) /\ DOMAIN one = DOMAIN blocks
    <3>1. Targets(Branch(Task.cmp)) \subseteq DOMAIN blocks
      BY <1>2, TargetsOf
    <3> QED
      BY <1>2, <3>1, TypesAre, TargetsKept
  <2>2. Targets(exit) \subseteq DOMAIN blocks
    BY <1>2, TargetsOf
  <2>3. blocks' = SetExit(one, Task.cmp, exit)
    BY <1>1 DEF EndOfLoop
  <2> HIDE DEF one, exit
  <2> QED
    BY <1>2, <2>1, <2>2, <2>3, TargetsKept
<1> QED
  BY <1>1, <1>2, <1>3, <1>4, TypesAre, TypesLeft

LEMMA TypesJoinIf == TypesInv /\ JoinIf => TypesInv'
<1> SUFFICES ASSUME TypesInv, JoinIf PROVE TypesInv'
  OBVIOUS
<1>1. /\ stage = "lower" /\ work # <<>> /\ fun' = fun /\ work' = Tail(work)
      /\ blocks' = Joined(blocks, Task)
      /\ added' = added /\ cur' = cur /\ next' = next
      /\ loopVar' = loopVar /\ stage' = stage /\ Task.do = "join"
  BY DEF JoinIf, Doing
<1>2. /\ next \in DOMAIN blocks /\ Task.old \in DOMAIN blocks
      /\ Task.taken \in DOMAIN blocks /\ Task.other \in DOMAIN blocks
      /\ Task.else \in DOMAIN blocks \cup {NoBlock}
  BY <1>1, TaskIs, TypesAre DEF NeedsNext, IsTask
<1>4. AreBlocks(blocks') /\ TargetsIn(blocks') /\ DOMAIN blocks' = DOMAIN blocks
  <2> DEFINE exit == CondBranch(<<"if", Task.if>>, Task.taken, Task.other)
             one == SetExit(blocks, Task.old, exit)
             two == IfUnset(one, Task.taken, Branch(next))
             three == IfUnset(two, Task.else, Branch(next))
  <2>0. Targets(exit) \subseteq DOMAIN blocks /\ Targets(Branch(next)) \subseteq DOMAIN blocks
    BY <1>2, TargetsOf
  <2>1. AreBlocks(one) /\ TargetsIn(one) /\ DOMAIN one = DOMAIN blocks
    BY <1>2, <2>0, TypesAre, TargetsKept
  <2>3. blocks' = IF Task.else = NoBlock THEN two ELSE three
    BY <1>1 DEF Joined
  <2> HIDE DEF one, exit
  <2>4. AreBlocks(two) /\ TargetsIn(two) /\ DOMAIN two = DOMAIN blocks
    BY <1>2, <2>0, <2>1, TargetsKept
  <2> HIDE DEF two
  <2>5. CASE Task.else = NoBlock
    BY <2>3, <2>4, <2>5
  <2>6. CASE Task.else # NoBlock
    <3>1. AreBlocks(three) /\ TargetsIn(three) /\ DOMAIN three = DOMAIN blocks
      BY <1>2, <2>0, <2>4, <2>6, TargetsKept
    <3> QED
      BY <2>3, <2>6, <3>1
  <2> QED
    BY <2>5, <2>6
<1> QED
  BY <1>1, <1>2, <1>4, TypesAre, TypesLeft

(* A handler that leaves the rest of the body, after some tasks.           *)
LEMMA TypesLowerExpr == TypesInv /\ LowerExpr => TypesInv'
<1> SUFFICES ASSUME TypesInv, LowerExpr PROVE TypesInv'
  OBVIOUS
<1>0. InBody
  BY DEF LowerExpr, At
<1>1. /\ stage = "lower" /\ work # <<>> /\ fun' = fun /\ work' = <<Rest>> \o Tail(work)
      /\ blocks' = AddExpr(blocks, cur, <<"do", Stmt.id>>)
      /\ added' = added /\ cur' = cur /\ next' = next
      /\ loopVar' = loopVar /\ stage' = stage /\ \A made : IsTask(Rest, made)
      /\ Rest.do = "body"
  BY <1>0, BodyIs, Tuples DEF LowerExpr, Then, Rest, Body
<1>2. AreBlocks(blocks') /\ TargetsIn(blocks') /\ DOMAIN blocks' = DOMAIN blocks
  BY <1>1, TypesAre, TargetsAdded
<1> DEFINE new == <<Rest>>
<1>3. /\ IsSeq(new)
      /\ \A i \in 1..Len(new) : IsTask(new[i], DOMAIN blocks')
                                /\ (new[i].do \in NeedsNext => next' # NoBlock)
  <2>1. IsSeq(new) /\ Len(new) = 1 /\ new[1] = Rest
    BY Tuples
  <2> QED
    BY <1>1, <2>1 DEF NeedsNext
<1>4. /\ IsSeq(added') /\ ToSet(added') \subseteq DOMAIN blocks'
      /\ cur' \in DOMAIN blocks' /\ next' \in DOMAIN blocks' \cup {NoBlock}
      /\ loopVar' \in Nat /\ stage' \in {"lower", "asserted"}
      /\ (next # NoBlock => next' # NoBlock) /\ DOMAIN blocks \subseteq DOMAIN blocks'
  BY <1>1, <1>2, TypesAre
<1>5. work' = new \o Tail(work)
  BY <1>1
<1> HIDE DEF new
<1> QED
  BY <1>1, <1>2, <1>3, <1>4, <1>5, TypesKeep

LEMMA TypesLowerReturn == TypesInv /\ LowerReturn => TypesInv'
<1> SUFFICES ASSUME TypesInv, LowerReturn PROVE TypesInv'
  OBVIOUS
<1>0. InBody
  BY DEF LowerReturn, At
<1> DEFINE bs == AddExpr(blocks, cur, <<"return", Stmt.id>>)
<1>1. /\ stage = "lower" /\ work # <<>> /\ fun' = fun /\ work' = <<Rest>> \o Tail(work)
      /\ blocks' = SetExit(bs, cur, Branch(EndBlock))
      /\ added' = added /\ cur' = cur /\ next' = next
      /\ loopVar' = loopVar /\ stage' = stage /\ \A made : IsTask(Rest, made)
      /\ Rest.do = "body"
  BY <1>0, BodyIs, Tuples DEF LowerReturn, Then, Rest, Body
<1>2. AreBlocks(blocks') /\ TargetsIn(blocks') /\ DOMAIN blocks' = DOMAIN blocks
  <2>1. AreBlocks(bs) /\ TargetsIn(bs) /\ DOMAIN bs = DOMAIN blocks
    BY <1>1, TypesAre, TargetsAdded
  <2> HIDE DEF bs
  <2>2. cur \in DOMAIN bs /\ Targets(Branch(EndBlock)) \subseteq DOMAIN bs
    <3>1. Targets(Branch(EndBlock)) = {EndBlock}
      BY TargetsOf
    <3> QED
      BY <2>1, <3>1, TypesAre
  <2> QED
    BY <1>1, <2>1, <2>2, TargetsKept
<1> HIDE DEF bs
<1> DEFINE new == <<Rest>>
<1>3. /\ IsSeq(new)
      /\ \A i \in 1..Len(new) : IsTask(new[i], DOMAIN blocks')
                                /\ (new[i].do \in NeedsNext => next' # NoBlock)
  <2>1. IsSeq(new) /\ Len(new) = 1 /\ new[1] = Rest
    BY Tuples
  <2> QED
    BY <1>1, <2>1 DEF NeedsNext
<1>4. /\ IsSeq(added') /\ ToSet(added') \subseteq DOMAIN blocks'
      /\ cur' \in DOMAIN blocks' /\ next' \in DOMAIN blocks' \cup {NoBlock}
      /\ loopVar' \in Nat /\ stage' \in {"lower", "asserted"}
      /\ (next # NoBlock => next' # NoBlock) /\ DOMAIN blocks \subseteq DOMAIN blocks'
  BY <1>1, <1>2, TypesAre
<1>5. work' = new \o Tail(work)
  BY <1>1
<1> HIDE DEF new
<1> QED
  BY <1>1, <1>2, <1>3, <1>4, <1>5, TypesKeep

(* New blocks have no exit yet.                                            *)
TargetsTo(bs, n) == \A b \in DOMAIN bs : Targets(bs[b].exit) \subseteq 0..(n - 1)

LEMMA TargetsMade ==
    ASSUME NEW bs, AreBlocks(bs), NEW new, IsSeq(new),
           TargetsTo(bs, Cardinality(DOMAIN bs) + Len(new)),
           \A j \in 1..Len(new) :
                /\ new[j] = [code |-> new[j].code, exit |-> new[j].exit]
                /\ Targets(new[j].exit) \subseteq
                        0..(Cardinality(DOMAIN bs) + Len(new) - 1)
    PROVE  LET cs == With(bs, new)
               n == Cardinality(DOMAIN bs)
           IN  /\ AreBlocks(cs) /\ TargetsIn(cs) /\ n \in Nat
               /\ DOMAIN bs = 0..(n - 1)
               /\ DOMAIN cs = 0..(n + Len(new) - 1)
               /\ DOMAIN bs \subseteq DOMAIN cs
<1> DEFINE cs == With(bs, new)
           n == Cardinality(DOMAIN bs)
<1>1. /\ AreBlocks(cs) /\ n \in Nat /\ Cardinality(DOMAIN cs) = n + Len(new)
      /\ DOMAIN bs = 0..(n - 1)
      /\ DOMAIN cs = DOMAIN bs \cup n..(n + Len(new) - 1)
      /\ \A b \in DOMAIN bs : cs[b] = bs[b]
      /\ \A j \in 1..Len(new) : cs[n + j - 1] = new[j]
  <2>1. \A j \in 1..Len(new) : new[j] = [code |-> new[j].code, exit |-> new[j].exit]
    OBVIOUS
  <2>2. AreMade(bs, new, cs)
    BY <2>1, BlocksMade
  <2> QED
    BY <2>2 DEF AreMade
<1> HIDE DEF cs, n
<1>2. DOMAIN cs = 0..(n + Len(new) - 1) /\ Len(new) \in Nat
  BY <1>1, SeqIs DEF AreBlocks
<1>3. ASSUME NEW b \in DOMAIN cs PROVE Targets(cs[b].exit) \subseteq DOMAIN cs
  <2>1. CASE b \in DOMAIN bs
    <3> DEFINE all == n + Len(new)
    <3>1. TargetsTo(bs, all)
      BY DEF n
    <3>2. DOMAIN cs = 0..(all - 1)
      BY <1>1, <1>2
    <3> HIDE DEF all
    <3> QED
      BY <1>1, <2>1, <3>1, <3>2 DEF TargetsTo
  <2>2. CASE b \in n..(n + Len(new) - 1)
    <3>1. b - n + 1 \in 1..Len(new) /\ n + (b - n + 1) - 1 = b
      BY <1>1, <1>2, <2>2
    <3>2. cs[b] = new[b - n + 1]
      BY <1>1, <3>1
    <3> QED
      BY <1>2, <3>1, <3>2 DEF n
  <2> QED
    BY <1>1, <2>1, <2>2
<1>4. TargetsIn(cs)
  BY <1>3 DEF TargetsIn
<1> QED
  BY <1>1, <1>2, <1>4 DEF cs, n

LEMMA EmptyBlocks ==
    ASSUME NEW bs, AreBlocks(bs), NEW new, IsSeq(new),
           TargetsTo(bs, Cardinality(DOMAIN bs) + Len(new)),
           \A j \in 1..Len(new) : new[j] = NewBlock(<<>>)
    PROVE  LET cs == With(bs, new)
               n == Cardinality(DOMAIN bs)
           IN  /\ AreBlocks(cs) /\ TargetsIn(cs) /\ n \in Nat
               /\ DOMAIN bs = 0..(n - 1)
               /\ DOMAIN cs = 0..(n + Len(new) - 1)
               /\ DOMAIN bs \subseteq DOMAIN cs
               /\ \A b \in DOMAIN bs : cs[b] = bs[b]
               /\ \A j \in 1..Len(new) : cs[n + j - 1] = NewBlock(<<>>)
<1>1. LET b == NewBlock(<<>>)
      IN  b = [code |-> b.code, exit |-> b.exit] /\ Targets(b.exit) = {}
  BY DEF NewBlock, Targets, NoExit
<1>2. \A j \in 1..Len(new) :
                /\ new[j] = [code |-> new[j].code, exit |-> new[j].exit]
                /\ Targets(new[j].exit) \subseteq
                        0..(Cardinality(DOMAIN bs) + Len(new) - 1)
  BY <1>1
<1> DEFINE cs == With(bs, new)
           n == Cardinality(DOMAIN bs)
<1>3. /\ AreBlocks(cs) /\ TargetsIn(cs) /\ n \in Nat /\ DOMAIN bs = 0..(n - 1)
      /\ DOMAIN cs = 0..(n + Len(new) - 1) /\ DOMAIN bs \subseteq DOMAIN cs
  BY <1>2, TargetsMade
<1>4. /\ \A b \in DOMAIN bs : cs[b] = bs[b]
      /\ \A j \in 1..Len(new) : cs[n + j - 1] = new[j]
  <2>1. \A j \in 1..Len(new) : new[j] = [code |-> new[j].code, exit |-> new[j].exit]
    BY <1>2
  <2>2. AreMade(bs, new, cs)
    BY <2>1, BlocksMade
  <2> QED
    BY <2>2 DEF AreMade
<1> QED
  BY <1>3, <1>4

LEMMA EmptyOnes ==
    ASSUME TypesInv, NEW bs, AreBlocks(bs), DOMAIN bs = DOMAIN blocks,
           NEW new, IsSeq(new), TargetsIn(bs) \/ TargetsTo(bs, Fresh + Len(new)),
           \A j \in 1..Len(new) : new[j] = NewBlock(<<>>)
    PROVE  /\ AreBlocks(With(bs, new)) /\ TargetsIn(With(bs, new))
           /\ DOMAIN blocks = 0..(Fresh - 1) /\ Fresh \in Nat
           /\ DOMAIN With(bs, new) = 0..(Fresh + Len(new) - 1)
           /\ DOMAIN blocks \subseteq DOMAIN With(bs, new)
           /\ \A b \in DOMAIN blocks : With(bs, new)[b] = bs[b]
           /\ \A j \in 1..Len(new) : With(bs, new)[Fresh + j - 1] = NewBlock(<<>>)
<1>1. Fresh = Cardinality(DOMAIN bs)
  BY DEF Fresh
<1> DEFINE cs == With(bs, new)
           n == Cardinality(DOMAIN bs)
<1>2. /\ AreBlocks(cs) /\ TargetsIn(cs) /\ n \in Nat
      /\ DOMAIN bs = 0..(n - 1)
      /\ DOMAIN cs = 0..(n + Len(new) - 1)
      /\ DOMAIN bs \subseteq DOMAIN cs
      /\ \A b \in DOMAIN bs : cs[b] = bs[b]
      /\ \A j \in 1..Len(new) : cs[n + j - 1] = NewBlock(<<>>)
  <2>1. TargetsTo(bs, n + Len(new))
    <3>1. n \in Nat /\ Len(new) \in Nat /\ DOMAIN bs = 0..(n - 1)
      BY <1>1, SeqIs, TypesAre
    <3>2. CASE TargetsIn(bs)
      <4> DEFINE all == n + Len(new)
      <4>1. DOMAIN bs \subseteq 0..(all - 1)
        BY <3>1
      <4> HIDE DEF all
      <4>2. TargetsTo(bs, all)
        BY <3>2, <4>1 DEF TargetsIn, TargetsTo
      <4> QED
        BY <4>2 DEF all
    <3> QED
      BY <1>1, <3>2
  <2> QED
    BY <2>1, EmptyBlocks
<1> HIDE DEF cs, n
<1>3. Fresh = n
  BY <1>1 DEF n
<1>4. /\ AreBlocks(cs) /\ TargetsIn(cs)
      /\ DOMAIN blocks = 0..(Fresh - 1) /\ Fresh \in Nat
      /\ DOMAIN cs = 0..(Fresh + Len(new) - 1)
      /\ DOMAIN blocks \subseteq DOMAIN cs
      /\ \A b \in DOMAIN blocks : cs[b] = bs[b]
      /\ \A j \in 1..Len(new) : cs[Fresh + j - 1] = NewBlock(<<>>)
  BY <1>2, <1>3
<1> QED
  BY <1>4 DEF cs

(* Tasks about blocks that were made.                                      *)
LEMMA BodyTask ==
    ASSUME fun \in Functions, NEW made, NEW list \in InnerLists(fun), IsCode(list)
    PROVE  IsTask(Body(list), made)
<1>1. list \in Lists(fun) /\ IsRest(list, list)
  BY FunctionIs, RestOfAll DEF IsCode
<1>2. LET b == Body(list)
      IN  b.do = "body" /\ b.list = list /\ b = [do |-> "body", list |-> b.list]
  BY DEF Body
<1> QED
  BY <1>1, <1>2 DEF IsTask, TaskKinds

LEMMA IfTasks ==
    ASSUME NEW made, NEW s, NEW old \in made, NEW taken \in made,
           NEW other \in made, NEW else \in made \cup {NoBlock}, NEW id
    PROVE  /\ s.is \in {"if", "elif"} /\ IsStatement(s)
              /\ Sublists(s) \subseteq InnerLists(fun) =>
                IsTask([do |-> "fallthrough", if |-> s, old |-> old,
                        taken |-> taken], made)
           /\ IsTask([do |-> "join", if |-> id, old |-> old, taken |-> taken,
                      other |-> other, else |-> else], made)
           /\ IsTask([do |-> "endif"], made)
<1>1. s.is \in {"if", "elif"} /\ IsStatement(s) /\ Sublists(s) \subseteq InnerLists(fun) =>
            IsTask([do |-> "fallthrough", if |-> s, old |-> old, taken |-> taken], made)
  <2> DEFINE t == [do |-> "fallthrough", if |-> s, old |-> old, taken |-> taken]
  <2>1. t.do = "fallthrough" /\ t.if = s /\ t.old = old /\ t.taken = taken
    OBVIOUS
  <2> HIDE DEF t
  <2>2. s.is \in {"if", "elif"} /\ IsStatement(s) /\ Sublists(s) \subseteq InnerLists(fun) =>
            IsTask(t, made)
    BY <2>1 DEF IsTask, TaskKinds
  <2> QED
    BY <2>2 DEF t
<1>2. IsTask([do |-> "join", if |-> id, old |-> old, taken |-> taken,
              other |-> other, else |-> else], made)
  <2> DEFINE t == [do |-> "join", if |-> id, old |-> old, taken |-> taken,
                   other |-> other, else |-> else]
  <2>1. t.do = "join" /\ t.old = old /\ t.taken = taken /\ t.other = other /\ t.else = else
    OBVIOUS
  <2> HIDE DEF t
  <2>2. IsTask(t, made)
    BY <2>1 DEF IsTask, TaskKinds
  <2> QED
    BY <2>2 DEF t
<1>3. IsTask([do |-> "endif"], made)
  BY DEF IsTask, TaskKinds
<1> QED
  BY <1>1, <1>2, <1>3

LEMMA ForTasks ==
    ASSUME NEW made, NEW id, NEW cmp \in made, NEW body \in made
    PROVE  /\ IsTask([do |-> "step", for |-> id], made)
           /\ IsTask([do |-> "endfor", for |-> id, cmp |-> cmp, body |-> body], made)
<1>1. IsTask([do |-> "step", for |-> id], made)
  BY DEF IsTask, TaskKinds
<1>2. IsTask([do |-> "endfor", for |-> id, cmp |-> cmp, body |-> body], made)
  <2> DEFINE t == [do |-> "endfor", for |-> id, cmp |-> cmp, body |-> body]
  <2>1. t.do = "endfor" /\ t.cmp = cmp /\ t.body = body
    OBVIOUS
  <2> HIDE DEF t
  <2>2. IsTask(t, made)
    BY <2>1 DEF IsTask, TaskKinds
  <2> QED
    BY <2>2 DEF t
<1> QED
  BY <1>1, <1>2

LEMMA TypesNoFallthrough == TypesInv /\ NoFallthrough => TypesInv'
<1> SUFFICES ASSUME TypesInv, NoFallthrough PROVE TypesInv'
  OBVIOUS
<1> DEFINE join == Join(next, NoBlock)
           new == <<join>>
<1>1. /\ stage = "lower" /\ work # <<>> /\ fun' = fun /\ work' = new \o Tail(work)
      /\ blocks' = blocks /\ added' = added /\ cur' = cur /\ next' = next
      /\ loopVar' = loopVar /\ stage' = stage /\ Task.do = "fallthrough"
  BY DEF NoFallthrough, Doing
<1>2. /\ Task.old \in DOMAIN blocks /\ Task.taken \in DOMAIN blocks
      /\ next \in DOMAIN blocks /\ next # NoBlock
  BY <1>1, TaskIs, TypesAre DEF NeedsNext, IsTask
<1>3. IsTask(join, DOMAIN blocks')
  BY <1>1, <1>2, IfTasks DEF Join
<1>4. /\ IsSeq(new)
      /\ \A i \in 1..Len(new) : IsTask(new[i], DOMAIN blocks')
                                /\ (new[i].do \in NeedsNext => next' # NoBlock)
  <2> HIDE DEF join
  <2>1. IsSeq(new) /\ Len(new) = 1 /\ new[1] = join
    BY Tuples
  <2> QED
    BY <1>1, <1>2, <1>3, <2>1
<1>5. /\ IsSeq(added') /\ ToSet(added') \subseteq DOMAIN blocks'
      /\ cur' \in DOMAIN blocks' /\ next' \in DOMAIN blocks' \cup {NoBlock}
      /\ loopVar' \in Nat /\ stage' \in {"lower", "asserted"}
      /\ (next # NoBlock => next' # NoBlock) /\ DOMAIN blocks \subseteq DOMAIN blocks'
      /\ AreBlocks(blocks') /\ TargetsIn(blocks')
  BY <1>1, TypesAre
<1> HIDE DEF new
<1> QED
  BY <1>1, <1>4, <1>5, TypesKeep

LEMMA TypesBeginIf == TypesInv /\ BeginIf => TypesInv'
<1> SUFFICES ASSUME TypesInv, BeginIf PROVE TypesInv'
  OBVIOUS
<1>0. InBody /\ Stmt.is = "if"
  BY DEF BeginIf, At
<1> DEFINE e == NewBlock(<<>>)
           fall == [do |-> "fallthrough", if |-> Stmt, old |-> cur, taken |-> Fresh + 1]
           end == [do |-> "endif"]
           new == <<Body(Stmt.then), fall, end, Rest>>
<1>1. /\ stage = "lower" /\ work # <<>> /\ fun' = fun /\ work' = new \o Tail(work)
      /\ blocks' = With(blocks, <<e, e>>) /\ added' = Append(added, Fresh + 1)
      /\ cur' = Fresh + 1 /\ next' = Fresh
      /\ loopVar' = loopVar /\ stage' = stage
  <2>1. work' = ((<<Body(Stmt.then), fall>> \o <<end>>) \o <<Rest>>) \o Tail(work)
    BY <1>0, BodyIs DEF BeginIf, Then, Conditional
  <2>2. (<<Body(Stmt.then), fall>> \o <<end>>) \o <<Rest>> = new
    <3> DEFINE b == Body(Stmt.then)
    <3> HIDE DEF b, fall, end
    <3>1. AreTuples(b, fall, end, Rest)
      BY Tuples
    <3> QED
      BY <3>1 DEF AreTuples, b
  <2>3. work' = new \o Tail(work)
    BY <2>1, <2>2
  <2> HIDE DEF new
  <2> QED
    BY <1>0, <2>3, BodyIs DEF BeginIf
<1>2. /\ AreBlocks(blocks') /\ TargetsIn(blocks') /\ DOMAIN blocks \subseteq DOMAIN blocks'
      /\ DOMAIN blocks' = 0..(Fresh + 2 - 1) /\ Fresh \in Nat
  <2> DEFINE es == <<e, e>>
  <2>1. IsSeq(es) /\ Len(es) = 2
    BY Tuples
  <2>2. \A j \in 1..2 : es[j] = e
    <3> HIDE DEF e
    <3> QED
      OBVIOUS
  <2>3. /\ AreBlocks(With(blocks, es)) /\ TargetsIn(With(blocks, es))
        /\ DOMAIN blocks \subseteq DOMAIN With(blocks, es)
        /\ DOMAIN With(blocks, es) = 0..(Fresh + 2 - 1) /\ Fresh \in Nat
    <3>1. AreBlocks(blocks) /\ TargetsIn(blocks)
      BY TypesAre
    <3>2. \A j \in 1..Len(es) : es[j] = NewBlock(<<>>)
      BY <2>1, <2>2
    <3> HIDE DEF es
    <3> QED
      BY <2>1, <3>1, <3>2, EmptyOnes
  <2> QED
    BY <1>1, <2>3
<1>3. Fresh \in DOMAIN blocks' /\ Fresh + 1 \in DOMAIN blocks'
      /\ cur \in DOMAIN blocks' /\ Fresh # NoBlock
  BY <1>2, TypesAre DEF NoBlock
<1>4. /\ IsTask(Body(Stmt.then), DOMAIN blocks') /\ IsTask(fall, DOMAIN blocks')
      /\ IsTask(end, DOMAIN blocks') /\ IsTask(Rest, DOMAIN blocks')
  <2>1. IsStatement(Stmt) /\ Sublists(Stmt) \subseteq InnerLists(fun)
    BY <1>0, BodyIs
  <2>2. IsCode(Stmt.then) /\ Stmt.then \in InnerLists(fun)
    BY <1>0, <2>1 DEF IsStatement, Sublists
  <2> QED
    BY <1>0, <1>3, <2>1, <2>2, TypesAre, BodyTask, IfTasks, BodyIs
<1>5. /\ IsSeq(new)
      /\ \A i \in 1..Len(new) : IsTask(new[i], DOMAIN blocks')
                                /\ (new[i].do \in NeedsNext => next' # NoBlock)
  <2>1. IsSeq(new)
    BY Tuples
  <2> DEFINE b == Body(Stmt.then)
  <2> HIDE DEF fall, end, b
  <2>2. Len(new) = 4 /\ new[1] = b /\ new[2] = fall /\ new[3] = end /\ new[4] = Rest
    BY DEF b
  <2> HIDE DEF new
  <2>3. \A i \in 1..Len(new) : i = 1 \/ i = 2 \/ i = 3 \/ i = 4
    BY <2>2
  <2> QED
    BY <1>1, <1>3, <1>4, <2>1, <2>2, <2>3 DEF b
<1>6. IsSeq(added') /\ ToSet(added') \subseteq DOMAIN blocks'
  <2>1. IsSeq(added') /\ ToSet(added') = ToSet(added) \cup {Fresh + 1}
    BY <1>1, TypesAre, Appended
  <2> QED
    BY <1>2, <1>3, <2>1, TypesAre
<1>7. loopVar' \in Nat
  BY <1>1, TypesAre
<1> HIDE DEF new
<1> QED
  BY <1>1, <1>2, <1>3, <1>5, <1>6, <1>7, TypesKeep

(* The else or elif of an if.                                              *)
IsElse(s) ==
    /\ s.is \in {"elif", "else"} /\ IsStatement(s)
    /\ Sublists(s) \subseteq InnerLists(fun)
    /\ IsCode(s.then) /\ s.then \in InnerLists(fun)

LEMMA ElseIs ==
    ASSUME fun \in Functions, NEW if, if.is \in {"if", "elif"}, IsStatement(if),
           Sublists(if) \subseteq InnerLists(fun), if.else # <<>>
    PROVE  IsElse(if.else[1])
<1> DEFINE s == if.else[1]
<1>1. /\ if.else \in InnerLists(fun) /\ if.else = <<if.else[1]>>
      /\ s.is \in {"elif", "else"}
  BY DEF Sublists, IsStatement
<1>2. 1 \in DOMAIN if.else
  BY <1>1
<1>3. s \in ToSet(if.else)
  BY <1>2 DEF ToSet
<1>4. IsStatement(s) /\ Sublists(s) \subseteq InnerLists(fun)
  BY <1>1, <1>3, FunctionIs DEF Lists
<1> HIDE DEF s
<1>5. IsCode(s.then) /\ s.then \in InnerLists(fun)
  BY <1>1, <1>4 DEF IsStatement, Sublists
<1>6. IsElse(s)
  BY <1>1, <1>4, <1>5 DEF IsElse
<1> QED
  BY <1>6 DEF s

LEMMA TypesBeginElse == TypesInv /\ BeginElse => TypesInv'
<1> SUFFICES ASSUME TypesInv, BeginElse PROVE TypesInv'
  OBVIOUS
<1> DEFINE e == NewBlock(<<>>)
           s == Task.if.else[1]
           body == Body(s.then)
           join == Join(Fresh, Fresh)
           new == <<body, join>>
           es == <<e>>
<1>1. /\ stage = "lower" /\ work # <<>> /\ fun' = fun /\ work' = new \o Tail(work)
      /\ blocks' = With(blocks, es) /\ added' = Append(added, Fresh)
      /\ cur' = Fresh /\ next' = next
      /\ loopVar' = loopVar /\ stage' = stage
      /\ Task.do = "fallthrough" /\ Task.if.else # <<>> /\ s.is = "else"
  BY DEF BeginElse, Doing
<1>2. /\ AreBlocks(blocks') /\ TargetsIn(blocks') /\ DOMAIN blocks \subseteq DOMAIN blocks'
      /\ DOMAIN blocks' = 0..(Fresh + 1 - 1) /\ Fresh \in Nat
  <2>1. IsSeq(es) /\ Len(es) = 1 /\ es[1] = e
    BY Tuples
  <2>2. \A j \in 1..Len(es) : es[j] = NewBlock(<<>>)
    BY <2>1
  <2> HIDE DEF es
  <2>3. AreBlocks(blocks) /\ TargetsIn(blocks)
    BY TypesAre
  <2>5. /\ AreBlocks(With(blocks, es)) /\ TargetsIn(With(blocks, es))
        /\ DOMAIN blocks \subseteq DOMAIN With(blocks, es)
        /\ DOMAIN With(blocks, es) = 0..(Fresh + 1 - 1) /\ Fresh \in Nat
    BY <2>1, <2>2, <2>3, EmptyOnes
  <2> QED
    BY <1>1, <2>5
<1>3. Fresh \in DOMAIN blocks' /\ Fresh # NoBlock
  BY <1>2 DEF NoBlock
<1>4. /\ IsTask(body, DOMAIN blocks') /\ IsTask(join, DOMAIN blocks')
      /\ next # NoBlock
  <2>1. /\ Sublists(Task.if) \subseteq InnerLists(fun) /\ Task.if.is \in {"if", "elif"}
        /\ IsStatement(Task.if)
        /\ Task.old \in DOMAIN blocks /\ Task.taken \in DOMAIN blocks /\ next # NoBlock
    BY <1>1, TaskIs DEF IsTask, NeedsNext
  <2>2. fun \in Functions
    BY TypesAre
  <2>3. IsElse(Task.if.else[1])
    BY <1>1, <2>1, <2>2, ElseIs
  <2>6. /\ IsCode(s.then) /\ s.then \in InnerLists(fun)
        /\ IsStatement(s) /\ Sublists(s) \subseteq InnerLists(fun)
    BY <2>3 DEF IsElse
  <2>7. IsTask(body, DOMAIN blocks')
    BY <2>6, TypesAre, BodyTask
  <2>8. Task.old \in DOMAIN blocks' /\ Task.taken \in DOMAIN blocks'
    BY <1>2, <2>1
  <2>9. IsTask(join, DOMAIN blocks')
    BY <1>3, <2>8, IfTasks DEF Join
  <2> QED
    BY <2>1, <2>7, <2>9
<1>5. /\ IsSeq(new)
      /\ \A i \in 1..Len(new) : IsTask(new[i], DOMAIN blocks')
                                /\ (new[i].do \in NeedsNext => next' # NoBlock)
  <2> HIDE DEF body, join
  <2>1. IsSeq(new)
    BY Tuples
  <2>2. Len(new) = 2 /\ new[1] = body /\ new[2] = join
    OBVIOUS
  <2> HIDE DEF new
  <2>3. \A i \in 1..Len(new) : i = 1 \/ i = 2
    BY <2>2
  <2> QED
    BY <1>1, <1>4, <2>1, <2>2, <2>3
<1>6. IsSeq(added') /\ ToSet(added') \subseteq DOMAIN blocks'
  <2>1. IsSeq(added') /\ ToSet(added') = ToSet(added) \cup {Fresh}
    BY <1>1, TypesAre, Appended
  <2> QED
    BY <1>2, <1>3, <2>1, TypesAre
<1>7. loopVar' \in Nat /\ next' \in DOMAIN blocks' \cup {NoBlock}
  BY <1>1, <1>2, TypesAre
<1> HIDE DEF new
<1> QED
  BY <1>1, <1>2, <1>3, <1>5, <1>6, <1>7, TypesKeep

LEMMA TypesBeginElif == TypesInv /\ BeginElif => TypesInv'
<1> SUFFICES ASSUME TypesInv, BeginElif PROVE TypesInv'
  OBVIOUS
<1> DEFINE e == NewBlock(<<>>)
           s == Task.if.else[1]
           body == Body(s.then)
           fall == [do |-> "fallthrough", if |-> s, old |-> Fresh, taken |-> Fresh + 1]
           join == Join(Fresh, NoBlock)
           new == <<body, fall, join>>
           es == <<e, e>>
           more == <<Fresh, Fresh + 1>>
<1>1. /\ stage = "lower" /\ work # <<>> /\ fun' = fun /\ work' = new \o Tail(work)
      /\ blocks' = With(blocks, es) /\ added' = added \o more
      /\ cur' = Fresh + 1 /\ next' = next
      /\ loopVar' = loopVar /\ stage' = stage
      /\ Task.do = "fallthrough" /\ Task.if.else # <<>> /\ s.is = "elif"
  <2>1. work' = (<<body, fall>> \o <<join>>) \o Tail(work)
    BY DEF BeginElif, Conditional
  <2>2. <<body, fall>> \o <<join>> = new
    <3> HIDE DEF body, fall, join
    <3>1. AreTuples(body, fall, join, join)
      BY Tuples
    <3> QED
      BY <3>1 DEF AreTuples
  <2>3. work' = new \o Tail(work)
    BY <2>1, <2>2
  <2> HIDE DEF new
  <2> QED
    BY <2>3 DEF BeginElif, Doing
<1>2. /\ AreBlocks(blocks') /\ TargetsIn(blocks') /\ DOMAIN blocks \subseteq DOMAIN blocks'
      /\ DOMAIN blocks' = 0..(Fresh + 2 - 1) /\ Fresh \in Nat
  <2>1. IsSeq(es) /\ Len(es) = 2
    BY Tuples
  <2>2. \A j \in 1..2 : es[j] = e
    <3> HIDE DEF e
    <3> QED
      OBVIOUS
  <2>3. \A j \in 1..Len(es) : es[j] = NewBlock(<<>>)
    BY <2>1, <2>2
  <2> HIDE DEF es
  <2>4. AreBlocks(blocks) /\ TargetsIn(blocks)
    BY TypesAre
  <2>5. /\ AreBlocks(With(blocks, es)) /\ TargetsIn(With(blocks, es))
        /\ DOMAIN blocks \subseteq DOMAIN With(blocks, es)
        /\ DOMAIN With(blocks, es) = 0..(Fresh + 2 - 1) /\ Fresh \in Nat
    BY <2>1, <2>3, <2>4, EmptyOnes
  <2> QED
    BY <1>1, <2>5
<1>3. Fresh \in DOMAIN blocks' /\ Fresh + 1 \in DOMAIN blocks' /\ Fresh # NoBlock
  BY <1>2 DEF NoBlock
<1>4. /\ IsTask(body, DOMAIN blocks') /\ IsTask(join, DOMAIN blocks')
      /\ next # NoBlock /\ IsTask(fall, DOMAIN blocks')
  <2>1. /\ Sublists(Task.if) \subseteq InnerLists(fun) /\ Task.if.is \in {"if", "elif"}
        /\ IsStatement(Task.if)
        /\ Task.old \in DOMAIN blocks /\ Task.taken \in DOMAIN blocks /\ next # NoBlock
    BY <1>1, TaskIs DEF IsTask, NeedsNext
  <2>2. fun \in Functions
    BY TypesAre
  <2>3. IsElse(Task.if.else[1])
    BY <1>1, <2>1, <2>2, ElseIs
  <2>6. /\ IsCode(s.then) /\ s.then \in InnerLists(fun)
        /\ IsStatement(s) /\ Sublists(s) \subseteq InnerLists(fun)
    BY <2>3 DEF IsElse
  <2>7. IsTask(body, DOMAIN blocks')
    BY <2>6, TypesAre, BodyTask
  <2>8. Task.old \in DOMAIN blocks' /\ Task.taken \in DOMAIN blocks'
    BY <1>2, <2>1
  <2>9. IsTask(join, DOMAIN blocks')
    BY <1>3, <2>8, IfTasks DEF Join
  <2>10. IsTask(fall, DOMAIN blocks')
    BY <1>1, <1>3, <2>6, IfTasks
  <2> QED
    BY <2>1, <2>7, <2>9, <2>10
<1>5. /\ IsSeq(new)
      /\ \A i \in 1..Len(new) : IsTask(new[i], DOMAIN blocks')
                                /\ (new[i].do \in NeedsNext => next' # NoBlock)
  <2> HIDE DEF body, join, fall
  <2>1. IsSeq(new)
    BY Tuples
  <2>2. Len(new) = 3 /\ new[1] = body /\ new[2] = fall /\ new[3] = join
    OBVIOUS
  <2> HIDE DEF new
  <2>3. \A i \in 1..Len(new) : i = 1 \/ i = 2 \/ i = 3
    BY <2>2
  <2> QED
    BY <1>1, <1>4, <2>1, <2>2, <2>3
<1>6. IsSeq(added') /\ ToSet(added') \subseteq DOMAIN blocks'
  <2>1. IsSeq(more) /\ ToSet(more) = {Fresh, Fresh + 1}
    <3>1. IsSeq(more)
      BY Tuples
    <3>2. DOMAIN more = {1, 2} /\ more[1] = Fresh /\ more[2] = Fresh + 1
      OBVIOUS
    <3> HIDE DEF more
    <3> QED
      BY <3>1, <3>2 DEF ToSet
  <2> HIDE DEF more
  <2>2. IsSeq(added') /\ ToSet(added') = ToSet(added) \cup ToSet(more)
    BY <1>1, <2>1, TypesAre, Concatenated
  <2> QED
    BY <1>2, <1>3, <2>1, <2>2, TypesAre
<1>7. loopVar' \in Nat /\ next' \in DOMAIN blocks' \cup {NoBlock}
  BY <1>1, <1>2, TypesAre
<1> HIDE DEF new
<1> QED
  BY <1>1, <1>2, <1>3, <1>5, <1>6, <1>7, TypesKeep

(* Before a loop: the block that is left goes on to the comparison.        *)
LEMMA BeforeLoop ==
    ASSUME TypesInv, NEW expr
    PROVE  LET bs == SetExit(AddExpr(blocks, cur, expr), cur, Branch(Fresh))
           IN  /\ AreBlocks(bs) /\ DOMAIN bs = DOMAIN blocks
               /\ TargetsTo(bs, Fresh + 3)
               /\ bs[cur].exit = Branch(Fresh)
               /\ \A b \in DOMAIN blocks : b # cur => bs[b].exit = blocks[b].exit
<1> DEFINE as == AddExpr(blocks, cur, expr)
           bs == SetExit(as, cur, Branch(Fresh))
<1>1. /\ AreBlocks(as) /\ TargetsIn(as) /\ DOMAIN as = DOMAIN blocks
      /\ cur \in DOMAIN blocks /\ DOMAIN blocks = 0..(Fresh - 1) /\ Fresh \in Nat
      /\ \A b \in DOMAIN blocks : as[b].exit = blocks[b].exit
  BY ZenonT(40), TypesAre, TargetsAdded, AnExprAdded
<1> HIDE DEF as
<1>2. /\ AreBlocks(bs) /\ DOMAIN bs = DOMAIN as /\ bs[cur].exit = Branch(Fresh)
      /\ \A b \in DOMAIN as : b # cur => bs[b] = as[b]
  <2>1. cur \in DOMAIN as /\ AreBlocks(as)
    BY <1>1
  <2>2. HasExit(as, cur, Branch(Fresh), bs)
    BY <2>1, AnExitSet
  <2> QED
    BY <2>2 DEF HasExit
<1> HIDE DEF bs
<1>3. ASSUME NEW b \in DOMAIN bs PROVE Targets(bs[b].exit) \subseteq 0..(Fresh + 3 - 1)
  <2>0. 0..(Fresh - 1) \subseteq 0..(Fresh + 3 - 1) /\ Fresh \in 0..(Fresh + 3 - 1)
    BY <1>1
  <2>1. CASE b = cur
    <3>1. Targets(bs[b].exit) = {Fresh}
      BY <1>2, <2>1, TargetsOf
    <3> QED
      BY <2>0, <3>1
  <2>2. CASE b # cur
    <3>1. Targets(bs[b].exit) \subseteq DOMAIN blocks
      BY <1>1, <1>2, <2>2 DEF TargetsIn
    <3> QED
      BY <1>1, <2>0, <3>1
  <2> QED
    BY <2>1, <2>2
<1>4. TargetsTo(bs, Fresh + 3)
  <2>1. 0..(Fresh + 3 - 1) = 0..((Fresh + 3) - 1)
    BY <1>1
  <2> QED
    BY <1>3, <2>1 DEF TargetsTo
<1>5. \A b \in DOMAIN blocks : b # cur => bs[b].exit = blocks[b].exit
  BY <1>1, <1>2
<1> QED
  BY <1>1, <1>2, <1>4, <1>5 DEF as, bs

LEMMA TypesBeginFor == TypesInv /\ BeginFor => TypesInv'
<1> SUFFICES ASSUME TypesInv, BeginFor PROVE TypesInv'
  OBVIOUS
<1>0. InBody /\ Stmt.is = "for"
  BY DEF BeginFor, At
<1> DEFINE e == NewBlock(<<>>)
           bs == SetExit(AddExpr(blocks, cur, <<"init", Stmt.id>>), cur, Branch(Fresh))
           code == Body(Stmt.body)
           step == [do |-> "step", for |-> Stmt.id]
           end == [do |-> "endfor", for |-> Stmt.id, cmp |-> Fresh, body |-> Fresh + 2]
           new == <<code, step, end, Rest>>
           es == <<e, e, e>>
           more == <<Fresh, Fresh + 2>>
<1>1. /\ stage = "lower" /\ work # <<>> /\ fun' = fun /\ work' = new \o Tail(work)
      /\ blocks' = With(bs, es) /\ added' = added \o more
      /\ cur' = Fresh + 2 /\ next' = Fresh + 1
      /\ loopVar' \in {loopVar, Stmt.id} /\ stage' \in {"lower", "asserted"}
      /\ Stmt.id \in Nat
  <2>1. work' = (<<code, step, end>> \o <<Rest>>) \o Tail(work)
    BY <1>0, BodyIs DEF BeginFor, Then
  <2>2. <<code, step, end>> \o <<Rest>> = new
    <3> HIDE DEF code, step, end
    <3>1. AreTuples(code, step, end, Rest)
      BY Tuples
    <3> QED
      BY <3>1 DEF AreTuples
  <2>3. work' = new \o Tail(work)
    BY <2>1, <2>2
  <2>4. loopVar' \in {loopVar, Stmt.id} /\ stage' \in {"lower", "asserted"}
    BY <1>0, BodyIs DEF BeginFor
  <2> HIDE DEF new
  <2> QED
    BY <1>0, <2>3, <2>4, BodyIs DEF BeginFor
<1>2. /\ AreBlocks(blocks') /\ TargetsIn(blocks') /\ DOMAIN blocks \subseteq DOMAIN blocks'
      /\ DOMAIN blocks' = 0..(Fresh + 3 - 1) /\ Fresh \in Nat
  <2>1. IsSeq(es) /\ Len(es) = 3
    BY Tuples
  <2>2. \A j \in 1..3 : es[j] = e
    <3> HIDE DEF e
    <3> QED
      OBVIOUS
  <2>3. \A j \in 1..Len(es) : es[j] = NewBlock(<<>>)
    BY <2>1, <2>2
  <2> HIDE DEF es
  <2>4. AreBlocks(bs) /\ DOMAIN bs = DOMAIN blocks /\ TargetsTo(bs, Fresh + 3)
    BY BeforeLoop
  <2> HIDE DEF bs
  <2>5. /\ AreBlocks(With(bs, es)) /\ TargetsIn(With(bs, es))
        /\ DOMAIN blocks \subseteq DOMAIN With(bs, es)
        /\ DOMAIN With(bs, es) = 0..(Fresh + 3 - 1) /\ Fresh \in Nat
    BY ZenonT(40), <2>1, <2>3, <2>4, EmptyOnes
  <2> QED
    BY <1>1, <2>5
<1>3. Fresh \in DOMAIN blocks' /\ Fresh + 1 \in DOMAIN blocks'
      /\ Fresh + 2 \in DOMAIN blocks' /\ Fresh + 1 # NoBlock
  BY <1>2 DEF NoBlock
<1>4. /\ IsTask(code, DOMAIN blocks') /\ IsTask(step, DOMAIN blocks')
      /\ IsTask(end, DOMAIN blocks') /\ IsTask(Rest, DOMAIN blocks')
  <2>1. IsStatement(Stmt) /\ Sublists(Stmt) \subseteq InnerLists(fun)
    BY <1>0, BodyIs
  <2>2. IsCode(Stmt.body) /\ Stmt.body \in InnerLists(fun)
    BY <1>0, <2>1 DEF IsStatement, Sublists
  <2>3. IsTask(code, DOMAIN blocks')
    BY <2>2, TypesAre, BodyTask
  <2>4. IsTask(step, DOMAIN blocks') /\ IsTask(end, DOMAIN blocks')
    BY <1>3, ForTasks
  <2> QED
    BY <1>0, <2>3, <2>4, BodyIs
<1>5. /\ IsSeq(new)
      /\ \A i \in 1..Len(new) : IsTask(new[i], DOMAIN blocks')
                                /\ (new[i].do \in NeedsNext => next' # NoBlock)
  <2> HIDE DEF code, step, end
  <2>1. IsSeq(new)
    BY Tuples
  <2>2. Len(new) = 4 /\ new[1] = code /\ new[2] = step /\ new[3] = end /\ new[4] = Rest
    OBVIOUS
  <2> HIDE DEF new
  <2>3. \A i \in 1..Len(new) : i = 1 \/ i = 2 \/ i = 3 \/ i = 4
    BY <2>2
  <2> QED
    BY <1>1, <1>3, <1>4, <2>1, <2>2, <2>3
<1>6. IsSeq(added') /\ ToSet(added') \subseteq DOMAIN blocks'
  <2>1. IsSeq(more) /\ ToSet(more) = {Fresh, Fresh + 2}
    <3>1. IsSeq(more)
      BY Tuples
    <3>2. DOMAIN more = {1, 2} /\ more[1] = Fresh /\ more[2] = Fresh + 2
      OBVIOUS
    <3> HIDE DEF more
    <3> QED
      BY <3>1, <3>2 DEF ToSet
  <2> HIDE DEF more
  <2>2. IsSeq(added') /\ ToSet(added') = ToSet(added) \cup ToSet(more)
    BY <1>1, <2>1, TypesAre, Concatenated
  <2> QED
    BY <1>2, <1>3, <2>1, <2>2, TypesAre
<1>7. loopVar' \in Nat /\ next' \in DOMAIN blocks' \cup {NoBlock} /\ next' # NoBlock
  BY <1>1, <1>3, TypesAre
<1> HIDE DEF new
<1> QED
  BY <1>1, <1>2, <1>3, <1>5, <1>6, <1>7, TypesKeep

(* The blocks of a match expression: each goes on to one of them or to the *)
(* block after.                                                            *)
HowMany(m) == IF m.cases = 1 THEN 1 ELSE 2 * m.cases - 2

LEMMA ComparesAre ==
    ASSUME NEW m, m.cases \in Nat \ {0}, NEW base \in Nat, NEW k \in 1..(m.cases - 1)
    PROVE  /\ HowMany(m) \in Nat /\ HowMany(m) >= 2
           /\ Targets(Compare(m, base, k)) \subseteq base..(base + HowMany(m) - 1)
           /\ Compare(m, base, k).is = "cond"
<1>1. m.cases >= 2 /\ HowMany(m) = 2 * m.cases - 2 /\ m.cases \in Nat
  BY DEF HowMany
<1> DEFINE a == CaseBlock(base, m.cases, k)
           b == CaseEntry(base, m.cases, k + 1)
<1>2. a = base + (2 * k - 2)
  BY <1>1 DEF CaseBlock
<1>3. a \in base..(base + HowMany(m) - 1)
  BY <1>1, <1>2
<1>4. b \in base..(base + HowMany(m) - 1)
  <2>1. CASE k + 1 < m.cases
    <3>1. b = base + (2 * (k + 1) - 2) - 1
      BY <1>1, <2>1 DEF CaseEntry, CaseBlock
    <3> QED
      BY <1>1, <2>1, <3>1
  <2>2. CASE ~(k + 1 < m.cases)
    <3>1. b = base + (2 * m.cases - 3)
      BY <1>1, <2>2 DEF CaseEntry, CaseBlock
    <3> QED
      BY <1>1, <3>1
  <2> QED
    BY <2>1, <2>2
<1>5. Targets(Compare(m, base, k)) = {a, b}
  BY TargetsOf DEF Compare
<1>6. Compare(m, base, k).is = "cond"
  BY DEF Compare, CondBranch
<1> QED
  BY <1>1, <1>3, <1>4, <1>5, <1>6

LEMMA MatchBlocksAre ==
    ASSUME NEW m, m.cases \in Nat \ {0}, NEW base \in Nat, NEW after
    PROVE  LET cases == MatchBlocks(m, base, after)
           IN  /\ IsSeq(cases) /\ Len(cases) = HowMany(m)
               /\ HowMany(m) \in Nat /\ HowMany(m) >= 1
               /\ \A j \in 1..Len(cases) :
                    /\ cases[j] = [code |-> cases[j].code, exit |-> cases[j].exit]
                    /\ Targets(cases[j].exit) \subseteq
                            base..(base + HowMany(m) - 1) \cup {after}
                    /\ cases[j].exit.is \in {"cond", "branch"}
<1> DEFINE cases == MatchBlocks(m, base, after)
           n == HowMany(m)
           At2(j) == \E k \in 2..(m.cases - 1) : base + j - 1 = CaseEntry(base, m.cases, k)
           cmp(j) == [code |-> <<>>, exit |-> Compare(m, base, j \div 2 + 1)]
           one(j) == [code |-> <<<<"case", m.id, (j + 2) \div 2>>>>,
                      exit |-> Branch(after)]
<1>1. n \in Nat /\ n >= 1
  BY DEF HowMany
<1>2. cases = [j \in 1..n |-> IF At2(j) THEN cmp(j) ELSE one(j)]
  BY DEF MatchBlocks, HowMany
<1>3. ASSUME NEW j \in 1..n, At2(j)
      PROVE  /\ Targets(cmp(j).exit) \subseteq base..(base + n - 1)
             /\ cmp(j).exit.is = "cond"
  <2>1. PICK k \in 2..(m.cases - 1) : base + j - 1 = CaseEntry(base, m.cases, k)
    BY <1>3
  <2>2. m.cases \in Nat /\ k < m.cases /\ j \in Nat
    OBVIOUS
  <2>3. CaseEntry(base, m.cases, k) = base + (2 * k - 2) - 1
    BY <2>2 DEF CaseEntry, CaseBlock
  <2>4. j = 2 * k - 2
    BY <2>1, <2>2, <2>3
  <2>5. j \div 2 = k - 1
    BY <2>4, <2>2
  <2>6. j \div 2 + 1 = k /\ k \in 1..(m.cases - 1)
    BY <2>5
  <2>7. cmp(j).exit = Compare(m, base, k)
    BY <2>6
  <2> QED
    BY <2>6, <2>7, ComparesAre
<1>4. ASSUME NEW j
      PROVE  /\ Targets(one(j).exit) = {after} /\ one(j).exit.is = "branch"
             /\ one(j) = [code |-> one(j).code, exit |-> one(j).exit]
             /\ cmp(j) = [code |-> cmp(j).code, exit |-> cmp(j).exit]
  <2>1. one(j).exit = Branch(after)
    OBVIOUS
  <2> QED
    BY <2>1, TargetsOf DEF Branch
<1> HIDE DEF cases, n, At2, cmp, one
<1>5. /\ DOMAIN cases = 1..n
      /\ \A j \in 1..n : cases[j] = IF At2(j) THEN cmp(j) ELSE one(j)
  BY <1>2
<1>6. IsSeq(cases) /\ Len(cases) = n
  <2>1. \A j \in 1..n : cases[j] \in ToSet(cases)
    BY <1>5 DEF ToSet
  <2>2. cases \in [1..n -> ToSet(cases)]
    BY <1>2, <1>5, <2>1
  <2>3. cases \in Seq(ToSet(cases)) /\ Len(cases) = n
    BY <1>1, <1>5, <2>2
  <2> QED
    BY <2>3 DEF IsSeq
<1>7. ASSUME NEW j \in 1..n
      PROVE  /\ cases[j] = [code |-> cases[j].code, exit |-> cases[j].exit]
             /\ Targets(cases[j].exit) \subseteq base..(base + n - 1) \cup {after}
             /\ cases[j].exit.is \in {"cond", "branch"}
  <2>1. CASE At2(j)
    <3>1. cases[j] = cmp(j)
      BY <1>5, <2>1
    <3> QED
      BY <1>3, <1>4, <2>1, <3>1
  <2>2. CASE ~At2(j)
    <3>1. cases[j] = one(j)
      BY <1>5, <2>2
    <3> QED
      BY <1>4, <2>2, <3>1
  <2> QED
    BY <2>1, <2>2
<1> QED
  BY <1>1, <1>6, <1>7 DEF cases, n

LEMMA Numbered ==
    ASSUME NEW n \in Nat, NEW base \in Nat
    PROVE  LET ids == [j \in 1..n |-> base + j - 1]
           IN  IsSeq(ids) /\ ToSet(ids) = base..(base + n - 1) /\ IsInjective(ids)
<1> DEFINE ids == [j \in 1..n |-> base + j - 1]
<1>1. DOMAIN ids = 1..n /\ \A j \in 1..n : ids[j] = base + j - 1
  OBVIOUS
<1>2. ids \in Seq(Int)
  OBVIOUS
<1> HIDE DEF ids
<1>3. IsSeq(ids)
  BY <1>2, SeqsAreSeqs
<1>4. IsInjective(ids)
  BY <1>1 DEF IsInjective
<1>5. ToSet(ids) \subseteq base..(base + n - 1)
  BY <1>1 DEF ToSet
<1>6. ASSUME NEW b \in base..(base + n - 1) PROVE b \in ToSet(ids)
  <2>1. b - base + 1 \in 1..n /\ base + (b - base + 1) - 1 = b
    OBVIOUS
  <2>2. b - base + 1 \in DOMAIN ids /\ ids[b - base + 1] = b
    BY <1>1, <2>1
  <2> QED
    BY <2>2 DEF ToSet
<1> QED
  BY <1>3, <1>4, <1>5, <1>6 DEF ids

(* Where the blocks of the next statement, a match expression, begin.      *)
Base == IF fun.headless THEN Fresh ELSE Fresh + 1

LEMMA BeforeMatch ==
    ASSUME TypesInv, Stmt.cases \in Nat \ {0}
    PROVE  LET bs == Before(blocks, Stmt, Base)
           IN  /\ AreBlocks(bs) /\ DOMAIN bs = DOMAIN blocks
               /\ TargetsTo(bs, Base + HowMany(Stmt))
               /\ \A b \in DOMAIN blocks : b # cur => bs[b].exit = blocks[b].exit
               /\ Stmt.cases # 1 => bs[cur].exit.is = "cond"
               /\ Stmt.cases = 1 => bs = blocks
<1> DEFINE bs == Before(blocks, Stmt, Base)
           n == HowMany(Stmt)
           exit == Compare(Stmt, Base, 1)
<1>1. /\ AreBlocks(blocks) /\ TargetsIn(blocks) /\ Fresh \in Nat
      /\ DOMAIN blocks = 0..(Fresh - 1) /\ cur \in DOMAIN blocks /\ fun \in Functions
  BY TypesAre
<1>2. n \in Nat /\ n >= 1
  BY DEF HowMany
<1>3. Base \in Nat /\ Base >= Fresh
  BY <1>1 DEF Base
<1>4. \A b \in DOMAIN blocks : Targets(blocks[b].exit) \subseteq 0..((Base + n) - 1)
  <2>1. DOMAIN blocks \subseteq 0..((Base + n) - 1)
    <3> HIDE DEF n
    <3> QED
      BY <1>1, <1>2, <1>3
  <2> QED
    BY <1>1, <2>1 DEF TargetsIn
<1> HIDE DEF n
<1>5. CASE Stmt.cases = 1
  <2>1. bs = blocks
    BY <1>5 DEF Before
  <2>2. TargetsTo(bs, Base + n)
    BY <1>4, <2>1 DEF TargetsTo
  <2> QED
    BY <1>1, <1>5, <2>1, <2>2 DEF n
<1>6. CASE Stmt.cases # 1
  <2>1. bs = SetExit(blocks, cur, exit)
    BY <1>6 DEF Before
  <2>2. 1 \in 1..(Stmt.cases - 1)
    BY <1>6
  <2>3. exit.is = "cond" /\ Targets(exit) \subseteq Base..(Base + n - 1)
    BY <1>3, <2>2, ComparesAre DEF n
  <2> HIDE DEF bs, exit
  <2>4. HasExit(blocks, cur, exit, bs)
    BY <1>1, <2>1, AnExitSet
  <2>5. /\ AreBlocks(bs) /\ DOMAIN bs = DOMAIN blocks /\ bs[cur].exit = exit
        /\ \A c \in DOMAIN blocks : c # cur => bs[c] = blocks[c]
    BY <2>4 DEF HasExit
  <2>6. Targets(exit) \subseteq 0..((Base + n) - 1)
    BY <1>2, <1>3, <2>3
  <2>7. \A b \in DOMAIN bs : Targets(bs[b].exit) \subseteq 0..((Base + n) - 1)
    BY <1>4, <2>5, <2>6
  <2>8. TargetsTo(bs, Base + n)
    BY <2>7 DEF TargetsTo
  <2> QED
    BY <1>6, <2>3, <2>5, <2>8 DEF bs, n
<1> QED
  BY <1>5, <1>6

(* What a match expression makes of the blocks of the function.            *)
LEMMA MatchMade ==
    ASSUME TypesInv, LowerMatch
    PROVE  LET last == Base + HowMany(Stmt) - 1
           IN  /\ Fresh \in Nat /\ Base \in Nat /\ DOMAIN blocks = 0..(Fresh - 1)
               /\ HowMany(Stmt) \in Nat /\ HowMany(Stmt) >= 1
               /\ AreBlocks(blocks') /\ TargetsIn(blocks')
               /\ DOMAIN blocks' = 0..last
               /\ \A b \in DOMAIN blocks :
                    b # cur => blocks'[b].exit = blocks[b].exit
               /\ Stmt.cases # 1 => blocks'[cur].exit.is = "cond"
               /\ Stmt.cases = 1 => blocks'[cur].exit = blocks[cur].exit
               /\ \A b \in Base..last : blocks'[b].exit.is \in {"cond", "branch"}
               /\ ~fun.headless => blocks'[Fresh] = NewBlock(<<>>)
               /\ IsSeq(added') /\ ToSet(added') = ToSet(added) \cup Fresh..last
               /\ IsInjective(added) => IsInjective(added')
               /\ cur' = IF fun.headless THEN last ELSE Fresh
<1> DEFINE n == HowMany(Stmt)
           after == IF fun.headless THEN EndBlock ELSE Fresh
           cases == MatchBlocks(Stmt, Base, after)
           ids == [j \in DOMAIN cases |-> Base + j - 1]
           bs == Before(blocks, Stmt, Base)
           e == NewBlock(<<>>)
           more == <<e>> \o cases
           news == IF fun.headless THEN cases ELSE more
           last == Base + n - 1
<1>1. /\ AreBlocks(blocks) /\ TargetsIn(blocks) /\ Fresh \in Nat
      /\ DOMAIN blocks = 0..(Fresh - 1) /\ cur \in DOMAIN blocks /\ fun \in Functions
      /\ IsSeq(added) /\ ToSet(added) \subseteq DOMAIN blocks
      /\ EndBlock \in DOMAIN blocks /\ Fresh = Cardinality(DOMAIN blocks)
  BY TypesAre
<1>2. Stmt.cases \in Nat \ {0}
  <2>1. InBody /\ Stmt.is = "match"
    BY DEF LowerMatch, At
  <2> QED
    BY <2>1, BodyIs DEF IsStatement
<1>3. /\ blocks' = With(bs, news)
      /\ added' = IF fun.headless THEN added \o ids ELSE (added \o ids) \o <<Fresh>>
      /\ cur' = IF fun.headless THEN Base + Len(cases) - 1 ELSE Fresh
  BY DEF LowerMatch, Base
<1>4. Base \in Nat /\ after \in 0..Base /\ Base >= Fresh
      /\ (~fun.headless => Base = Fresh + 1) /\ (fun.headless => Base = Fresh)
      /\ after \in {EndBlock, Fresh}
  BY <1>1 DEF Base
<1>5. /\ IsSeq(cases) /\ Len(cases) = n /\ n \in Nat /\ n >= 1
      /\ \A j \in 1..Len(cases) :
            /\ cases[j] = [code |-> cases[j].code, exit |-> cases[j].exit]
            /\ Targets(cases[j].exit) \subseteq Base..(Base + n - 1) \cup {after}
            /\ cases[j].exit.is \in {"cond", "branch"}
  <2> HIDE DEF after
  <2> QED
    BY <1>2, <1>4, MatchBlocksAre
<1>6. DOMAIN cases = 1..n
  BY <1>5, SeqIs
<1>7. /\ AreBlocks(bs) /\ DOMAIN bs = DOMAIN blocks /\ TargetsTo(bs, Base + n)
      /\ \A b \in DOMAIN blocks : b # cur => bs[b].exit = blocks[b].exit
      /\ Stmt.cases # 1 => bs[cur].exit.is = "cond"
      /\ Stmt.cases = 1 => bs = blocks
  BY <1>2, BeforeMatch
<1>8. IsSeq(ids) /\ ToSet(ids) = Base..last /\ IsInjective(ids)
  <2>1. ids = [j \in 1..n |-> Base + j - 1]
    BY <1>6
  <2> QED
    BY <1>4, <1>5, <2>1, Numbered
<1> HIDE DEF cases, ids, bs, n, after
<1>9. /\ IsSeq(more) /\ Len(more) = n + 1 /\ more[1] = e
      /\ \A j \in 1..n : more[j + 1] = cases[j]
  <2> HIDE DEF e
  <2> DEFINE S == ToSet(cases) \cup {e}
  <2>1. cases \in Seq(S) /\ <<e>> \in Seq(S) /\ Len(<<e>>) = 1 /\ <<e>>[1] = e
    BY <1>5, SeqMonotonic DEF IsSeq
  <2> HIDE DEF S
  <2>2. /\ more \in Seq(S) /\ Len(more) = 1 + n
        /\ \A i \in 1..(1 + n) : more[i] = IF i <= 1 THEN <<e>>[i] ELSE cases[i - 1]
    BY <1>5, <2>1, ConcatProperties
  <2>3. more[1] = e
    BY <1>5, <2>1, <2>2
  <2>4. ASSUME NEW j \in 1..n PROVE more[j + 1] = cases[j]
    <3>1. j + 1 \in 1..(1 + n) /\ ~(j + 1 <= 1) /\ (j + 1) - 1 = j
      BY <1>5
    <3> QED
      BY <2>2, <3>1
  <2>5. IsSeq(more)
    BY <2>2, SeqsAreSeqs
  <2> QED
    BY <1>5, <2>2, <2>3, <2>4, <2>5
<1>10. e = [code |-> e.code, exit |-> e.exit] /\ Targets(e.exit) = {}
  BY DEF NewBlock, Targets, NoExit
<1> HIDE DEF e, more
<1>11. /\ IsSeq(news) /\ Fresh + Len(news) = Base + n /\ Len(news) \in Nat
       /\ \A j \in 1..Len(news) :
            /\ news[j] = [code |-> news[j].code, exit |-> news[j].exit]
            /\ Targets(news[j].exit) \subseteq Base..(Base + n - 1) \cup {after}
  <2>1. CASE fun.headless
    BY <1>1, <1>4, <1>5, <2>1
  <2>2. CASE ~fun.headless
    <3>1. news = more /\ Fresh + Len(news) = Base + n
      <4>1. news = more /\ Base = Fresh + 1 /\ Len(news) = n + 1
        BY <1>4, <1>9, <2>2
      <4> HIDE DEF news
      <4> QED
        BY <1>1, <1>5, <4>1
    <3>2. ASSUME NEW j \in 1..(n + 1)
          PROVE  /\ more[j] = [code |-> more[j].code, exit |-> more[j].exit]
                 /\ Targets(more[j].exit) \subseteq Base..(Base + n - 1) \cup {after}
      <4>1. CASE j = 1
        BY <1>9, <1>10, <4>1
      <4>2. CASE j # 1
        <5>1. j - 1 \in 1..n /\ (j - 1) + 1 = j
          BY <1>5, <4>2
        <5>2. more[j] = cases[j - 1]
          BY <1>9, <5>1
        <5> QED
          BY <1>5, <5>1, <5>2
      <4> QED
        BY <4>1, <4>2
    <3> QED
      BY <1>5, <1>9, <3>1, <3>2
  <2> QED
    BY <2>1, <2>2
<1> HIDE DEF news
<1>12. AreMade(bs, news, blocks') /\ TargetsIn(blocks')
  <2>1. \A j \in 1..Len(news) : news[j] = [code |-> news[j].code, exit |-> news[j].exit]
    BY <1>11
  <2>2. AreMade(bs, news, With(bs, news))
    BY <1>7, <1>11, <2>1, BlocksMade
  <2>3. Cardinality(DOMAIN bs) + Len(news) = Base + n
    BY <1>1, <1>7, <1>11
  <2>4. TargetsTo(bs, Cardinality(DOMAIN bs) + Len(news))
    BY <1>7, <2>3
  <2>5. Base..(Base + n - 1) \cup {after} \subseteq 0..((Base + n) - 1)
    BY <1>4, <1>5
  <2>6. Fresh \in Nat /\ Fresh = Cardinality(DOMAIN bs) /\ Len(news) \in Nat
    BY <1>1, <1>7, <1>11
  <2>7. 0..((Base + n) - 1) = 0..(Cardinality(DOMAIN bs) + Len(news) - 1)
    BY <1>4, <1>5, <2>3, <2>6
  <2>8. \A j \in 1..Len(news) :
            /\ news[j] = [code |-> news[j].code, exit |-> news[j].exit]
            /\ Targets(news[j].exit) \subseteq
                    0..(Cardinality(DOMAIN bs) + Len(news) - 1)
    BY <1>11, <2>5, <2>7
  <2>9. TargetsIn(With(bs, news))
    BY <1>7, <1>11, <2>4, <2>8, TargetsMade
  <2> QED
    BY <1>3, <2>2, <2>9
<1>13. /\ AreBlocks(blocks') /\ DOMAIN blocks' = DOMAIN blocks \cup Fresh..(Fresh + Len(news) - 1)
       /\ \A b \in DOMAIN blocks : blocks'[b] = bs[b]
       /\ \A j \in 1..Len(news) : blocks'[Fresh + j - 1] = news[j]
  <2>1. Cardinality(DOMAIN bs) = Fresh
    BY <1>1, <1>7
  <2> QED
    BY <1>7, <1>12, <2>1 DEF AreMade
<1>14. DOMAIN blocks' = 0..last
  <2>1. /\ DOMAIN blocks' = 0..(Fresh - 1) \cup Fresh..(Fresh + Len(news) - 1)
        /\ Fresh \in Nat /\ Len(news) \in Nat /\ Fresh + Len(news) = Base + n
        /\ Base \in Nat /\ n \in Nat
    BY <1>1, <1>4, <1>5, <1>11, <1>13
  <2>2. Fresh + Len(news) - 1 = last
    BY <2>1
  <2> DEFINE to == Fresh + Len(news) - 1
  <2>3. 0..(Fresh - 1) \cup Fresh..to = 0..to
    BY <2>1
  <2> QED
    BY <2>1, <2>2, <2>3
<1>15. ASSUME NEW b \in Base..last PROVE blocks'[b].exit.is \in {"cond", "branch"}
  <2> DEFINE j == b - Base + 1
  <2>1. j \in 1..n
    BY <1>4, <1>5
  <2>2. CASE fun.headless
    <3>1. Fresh + j - 1 = b /\ news = cases /\ j \in 1..Len(news)
      BY <1>1, <1>4, <1>5, <2>1, <2>2 DEF news
    <3> QED
      BY <1>5, <1>13, <2>1, <3>1
  <2>3. CASE ~fun.headless
    <3>1. Fresh + (j + 1) - 1 = b /\ news = more /\ j + 1 \in 1..Len(news)
      <4>1. news = more /\ Base = Fresh + 1 /\ Len(news) = n + 1
        BY <1>4, <1>9, <2>3 DEF news
      <4> QED
        <5>1. b \in Int /\ Fresh \in Nat /\ j = b - (Fresh + 1) + 1
          BY <1>1, <1>4, <1>5, <4>1
        <5>2. Fresh + (j + 1) - 1 = b
          BY <5>1
        <5> HIDE DEF j
        <5>3. j + 1 \in 1..Len(news)
          BY <1>5, <2>1, <4>1
        <5> QED
          BY <4>1, <5>2, <5>3
    <3>2. blocks'[b] = cases[j]
      BY <1>9, <1>13, <2>1, <3>1
    <3> QED
      BY <1>5, <2>1, <3>2
  <2> QED
    BY <2>2, <2>3
<1>16. ASSUME ~fun.headless PROVE blocks'[Fresh] = e
  <2>1. Fresh + 1 - 1 = Fresh /\ news = more /\ 1 \in 1..Len(news)
    BY <1>1, <1>5, <1>9, <1>16 DEF news
  <2> QED
    BY <1>9, <1>13, <2>1
<1>17. /\ IsSeq(added') /\ ToSet(added') = ToSet(added) \cup Fresh..last
       /\ IsInjective(added) => IsInjective(added')
  <2> DEFINE s == added \o ids
  <2>1. ToSet(added) \cap ToSet(ids) = {} /\ Fresh \notin ToSet(added)
    BY <1>1, <1>4, <1>8
  <2>2. /\ IsSeq(s) /\ ToSet(s) = ToSet(added) \cup Base..last
        /\ IsInjective(added) => IsInjective(s)
    BY <1>1, <1>8, <2>1, Concatenated
  <2> HIDE DEF s
  <2>3. CASE fun.headless
    <3>1. added' = s
      BY <1>3, <2>3 DEF s
    <3> QED
      BY <1>4, <2>2, <2>3, <3>1
  <2>4. CASE ~fun.headless
    <3> DEFINE one == <<Fresh>>
    <3>1. added' = s \o one
      BY <1>3, <2>4 DEF s
    <3>2. IsSeq(one)
      BY Tuples
    <3>3. DOMAIN one = {1} /\ one[1] = Fresh
      OBVIOUS
    <3> HIDE DEF one
    <3>4. ToSet(one) = {Fresh} /\ IsInjective(one)
      BY <3>3 DEF ToSet, IsInjective
    <3>5. Fresh \notin ToSet(s)
      BY <1>1, <1>4, <2>1, <2>2, <2>4
    <3>6. /\ IsSeq(added') /\ ToSet(added') = ToSet(s) \cup {Fresh}
          /\ IsInjective(s) => IsInjective(added')
      BY <2>2, <3>1, <3>2, <3>4, <3>5, Concatenated
    <3>7. Base..last \cup {Fresh} = Fresh..last
      BY <1>1, <1>4, <1>5, <2>4
    <3> QED
      BY <2>2, <3>6, <3>7
  <2> QED
    BY <2>3, <2>4
<1>18. cur' = IF fun.headless THEN last ELSE Fresh
  BY <1>3, <1>5
<1>19. /\ \A b \in DOMAIN blocks : b # cur => blocks'[b].exit = blocks[b].exit
       /\ Stmt.cases # 1 => blocks'[cur].exit.is = "cond"
       /\ Stmt.cases = 1 => blocks'[cur].exit = blocks[cur].exit
  BY <1>1, <1>7, <1>13
<1>20. /\ Fresh \in Nat /\ Base \in Nat /\ DOMAIN blocks = 0..(Fresh - 1)
       /\ n \in Nat /\ n >= 1 /\ AreBlocks(blocks') /\ TargetsIn(blocks')
  BY <1>1, <1>4, <1>5, <1>12, <1>13
<1> QED
  BY <1>14, <1>15, <1>16, <1>17, <1>18, <1>19, <1>20 DEF n, e

LEMMA TypesLowerMatch == TypesInv /\ LowerMatch => TypesInv'
<1> SUFFICES ASSUME TypesInv, LowerMatch PROVE TypesInv'
  OBVIOUS
<1>0. InBody
  BY DEF LowerMatch, At
<1> DEFINE new == <<Rest>>
           last == Base + HowMany(Stmt) - 1
<1>1. /\ stage = "lower" /\ work # <<>> /\ fun' = fun /\ work' = new \o Tail(work)
      /\ next' = next /\ loopVar' = loopVar /\ stage' = stage
      /\ \A made : IsTask(Rest, made)
      /\ Rest.do = "body"
  BY <1>0, BodyIs, Tuples DEF LowerMatch, Then, Rest, Body
<1>2. /\ Fresh \in Nat /\ Base \in Nat /\ DOMAIN blocks = 0..(Fresh - 1)
      /\ HowMany(Stmt) \in Nat /\ HowMany(Stmt) >= 1
      /\ AreBlocks(blocks') /\ TargetsIn(blocks') /\ DOMAIN blocks' = 0..last
      /\ IsSeq(added') /\ ToSet(added') = ToSet(added) \cup Fresh..last
      /\ cur' = IF fun.headless THEN last ELSE Fresh
  BY MatchMade
<1>3. /\ IsSeq(new)
      /\ \A i \in 1..Len(new) : IsTask(new[i], DOMAIN blocks')
                                /\ (new[i].do \in NeedsNext => next' # NoBlock)
  <2>1. IsSeq(new) /\ Len(new) = 1 /\ new[1] = Rest
    BY Tuples
  <2> QED
    BY <1>1, <2>1 DEF NeedsNext
<1>4. last >= Fresh /\ last \in Nat
  BY <1>2 DEF Base
<1>5. DOMAIN blocks \subseteq DOMAIN blocks' /\ cur' \in DOMAIN blocks'
      /\ Fresh..last \subseteq DOMAIN blocks'
  BY <1>2, <1>4
<1>6. /\ IsSeq(added') /\ ToSet(added') \subseteq DOMAIN blocks'
      /\ next' \in DOMAIN blocks' \cup {NoBlock}
      /\ loopVar' \in Nat /\ stage' \in {"lower", "asserted"}
      /\ (next # NoBlock => next' # NoBlock)
  BY <1>1, <1>2, <1>5, TypesAre
<1> HIDE DEF new
<1> QED
  BY <1>1, <1>2, <1>3, <1>5, <1>6, TypesKeep

(* Steps after the handlers.                                               *)
LEMMA TypesEndFunction == TypesInv /\ EndFunction => TypesInv'
<1> SUFFICES ASSUME TypesInv, EndFunction PROVE TypesInv'
  OBVIOUS
<1> DEFINE one == IF next = NoBlock THEN blocks
                  ELSE IfUnset(blocks, next, Branch(EndBlock))
<1>1. /\ fun' = fun /\ blocks' = IfUnset(one, FirstBlock, Branch(EndBlock))
      /\ added' = Append(added, EndBlock) /\ cur' = cur /\ next' = next
      /\ loopVar' = loopVar /\ stage' = "backend"
  BY DEF EndFunction, Finished
<1>2. /\ AreBlocks(blocks) /\ TargetsIn(blocks) /\ EndBlock \in DOMAIN blocks
      /\ FirstBlock \in DOMAIN blocks /\ next \in DOMAIN blocks \cup {NoBlock}
      /\ IsSeq(added) /\ ToSet(added) \subseteq DOMAIN blocks /\ fun \in Functions
      /\ cur \in DOMAIN blocks /\ loopVar \in Nat
  BY TypesAre
<1>3. Targets(Branch(EndBlock)) \subseteq DOMAIN blocks
  BY <1>2, TargetsOf
<1>4. AreBlocks(one) /\ TargetsIn(one) /\ DOMAIN one = DOMAIN blocks
  <2>1. CASE next = NoBlock
    BY <1>2, <2>1
  <2>2. CASE next # NoBlock
    <3>1. next \in DOMAIN blocks
      BY <1>2, <2>2
    <3> DEFINE two == IfUnset(blocks, next, Branch(EndBlock))
    <3>2. AreBlocks(two) /\ TargetsIn(two) /\ DOMAIN two = DOMAIN blocks
      BY <1>2, <1>3, <3>1, TargetsKept
    <3> HIDE DEF two
    <3>3. one = two
      BY <2>2 DEF two
    <3> QED
      BY <3>2, <3>3
  <2> QED
    BY <2>1, <2>2
<1> HIDE DEF one
<1>5. AreBlocks(blocks') /\ TargetsIn(blocks') /\ DOMAIN blocks' = DOMAIN blocks
  BY <1>1, <1>2, <1>3, <1>4, TargetsKept
<1>6. IsSeq(added') /\ ToSet(added') \subseteq DOMAIN blocks'
  <2>1. IsSeq(added') /\ ToSet(added') = ToSet(added) \cup {EndBlock}
    BY <1>1, <1>2, Appended
  <2> QED
    BY <1>2, <1>5, <2>1
<1>7. WorkInv'
  BY <1>1 DEF WorkInv
<1>8. StoreInv'
  BY <1>2, <1>5, <1>6 DEF StoreInv, AreBlocks
<1>9. BlocksTypeOK'
  BY <1>1, <1>2, <1>5, <1>6 DEF BlocksTypeOK, AreBlocks, TargetsIn, Fresh
<1> QED
  BY <1>7, <1>8, <1>9 DEF TypesInv

LEMMA TypesGenerate == TypesInv /\ Generate => TypesInv'
<1> SUFFICES ASSUME TypesInv, Generate PROVE TypesInv'
  OBVIOUS
<1>1. /\ fun' = fun /\ blocks' = blocks /\ added' = added /\ cur' = cur
      /\ next' = next /\ loopVar' = loopVar /\ stage' = Verdict
      /\ pc' = IF Verdict = "run" THEN FirstBlock ELSE NoBlock
  BY DEF Generate
<1>2. Verdict \in {"run", "unmapped", "critical"}
  BY DEF Verdict
<1>3. WorkInv' /\ StoreInv'
  BY <1>1, <1>2 DEF WorkInv, TypesInv, StoreInv
<1>4. BlocksTypeOK'
  <2>1. stage' \in {"run", "returned"} => pc' \in DOMAIN blocks
    BY <1>1, <1>2, TypesAre
  <2>2. stage' \in Failures \cup {"lower", "backend", "run", "returned"}
    BY <1>1, <1>2 DEF Failures
  <2> QED
    BY <1>1, <2>1, <2>2 DEF BlocksTypeOK, TypesInv, Fresh
<1> QED
  BY <1>3, <1>4 DEF TypesInv

LEMMA TypesRunBlock == TypesInv /\ RunBlock => TypesInv'
<1> SUFFICES ASSUME TypesInv, RunBlock PROVE TypesInv'
  OBVIOUS
<1>1. /\ fun' = fun /\ blocks' = blocks /\ added' = added /\ cur' = cur
      /\ next' = next /\ loopVar' = loopVar /\ stage = "run"
      /\ stage' \in {"run", "returned"} /\ pc \in DOMAIN blocks
  BY DEF RunBlock, TypesInv, BlocksTypeOK
<1>2. pc' \in Targets(blocks[pc].exit) \cup {pc}
  BY DEF RunBlock, Targets
<1>3. pc' \in DOMAIN blocks
  BY <1>1, <1>2 DEF TypesInv, BlocksTypeOK
<1>4. WorkInv' /\ StoreInv'
  BY <1>1 DEF WorkInv, TypesInv, StoreInv
<1>5. BlocksTypeOK'
  BY <1>1, <1>3 DEF BlocksTypeOK, TypesInv, Fresh
<1> QED
  BY <1>4, <1>5 DEF TypesInv

LEMMA TypesInit == BInit => TypesInv
<1> SUFFICES ASSUME BInit PROVE TypesInv
  OBVIOUS
<1> DEFINE s == <<FirstBlock>>
           bs == [b \in {EndBlock, FirstBlock} |->
                    IF b = EndBlock THEN [code |-> <<>>, exit |-> Return]
                                    ELSE NewBlock(<<>>)]
           body == [do |-> "body", list |-> fun.body]
           end == [do |-> "end"]
<1>1. /\ fun \in Functions /\ blocks = bs /\ added = s /\ cur = FirstBlock
      /\ next = NoBlock /\ loopVar = NoLoop /\ stage = "lower"
      /\ work = <<body, end>>
  BY DEF BInit
<1>2. /\ DOMAIN bs = {0, 1} /\ bs[0] = [code |-> <<>>, exit |-> Return]
      /\ bs[1] = [code |-> <<>>, exit |-> NoExit]
  BY DEF EndBlock, FirstBlock, NewBlock
<1> HIDE DEF bs
<1>3. {0, 1} = 0..(2 - 1) /\ IsFiniteSet(DOMAIN bs) /\ Cardinality(DOMAIN bs) = 2
  <2>1. {0, 1} = 0..(2 - 1)
    OBVIOUS
  <2> QED
    BY <1>2, <2>1, CountIs
<1>4. Fresh = 2 /\ DOMAIN blocks = 0..(Fresh - 1)
  BY <1>1, <1>2, <1>3 DEF Fresh
<1>5. TargetsIn(blocks)
  BY <1>1, <1>2, TargetsOf DEF TargetsIn
<1>6. IsSeq(s) /\ ToSet(s) = {FirstBlock}
  <2>1. IsSeq(s)
    BY Tuples
  <2>2. DOMAIN s = {1} /\ s[1] = FirstBlock
    OBVIOUS
  <2> HIDE DEF s
  <2> QED
    BY <2>1, <2>2 DEF ToSet
<1>7. StoreInv
  BY <1>1, <1>2, <1>3, <1>6 DEF StoreInv, EndBlock, FirstBlock
<1>8. BlocksTypeOK
  BY <1>1, <1>2, <1>4, <1>5, <1>6
     DEF BlocksTypeOK, TargetsIn, EndBlock, FirstBlock, NoLoop
<1>9. WorkInv
  <2>1. body = Body(fun.body) /\ IsTask(Body(fun.body), DOMAIN blocks)
    <3>1. IsCode(fun.body) /\ fun.body \in Lists(fun) /\ IsRest(fun.body, fun.body)
      BY <1>1, FunctionIs, RestOfAll DEF IsCode
    <3>2. body.do = "body" /\ body.list = fun.body /\ body = [do |-> "body", list |-> body.list]
      OBVIOUS
    <3>3. IsTask(body, DOMAIN blocks)
      BY <3>1, <3>2 DEF IsTask, TaskKinds
    <3> QED
      BY <3>3 DEF Body
  <2>2. IsTask(end, DOMAIN blocks) /\ end.do = "end" /\ body.do = "body"
    BY DEF IsTask, TaskKinds
  <2> HIDE DEF body, end
  <2>3. IsSeq(work)
    <3>1. IsSeq(<<body, end>>)
      BY Tuples
    <3> QED
      BY <1>1, <3>1
  <2>4. DOMAIN work = {1, 2} /\ work[1] = body /\ work[2] = end
    BY <1>1
  <2> QED
    BY <2>1, <2>2, <2>3, <2>4 DEF WorkInv, NeedsNext
<1> QED
  BY <1>7, <1>8, <1>9 DEF TypesInv

LEMMA TypesStep == TypesInv /\ [BNext]_bvars => TypesInv'
<1> SUFFICES ASSUME TypesInv, [BNext]_bvars PROVE TypesInv'
  OBVIOUS
<1>1. CASE Handlers
  BY <1>1, TypesLeaveBody, TypesLowerExpr, TypesLowerReturn, TypesBeginIf,
     TypesNoFallthrough, TypesBeginElif, TypesBeginElse, TypesJoinIf, TypesEndIf,
     TypesBeginFor, TypesStepFor, TypesEndFor, TypesLowerMatch, TypesEndFunction
     DEF Handlers
<1>2. CASE Generate
  BY <1>2, TypesGenerate
<1>3. CASE RunBlock
  BY <1>3, TypesRunBlock
<1>4. CASE UNCHANGED bvars
  <2>1. BlocksTypeOK'
    BY <1>4 DEF TypesInv, BlocksTypeOK, Fresh, bvars
  <2>2. StoreInv'
    BY <1>4 DEF TypesInv, StoreInv, bvars
  <2>3. WorkInv'
    BY <1>4 DEF TypesInv, WorkInv, IsTask, bvars
  <2> QED
    BY <2>1, <2>2, <2>3 DEF TypesInv
<1> QED
  BY <1>1, <1>2, <1>3, <1>4 DEF BNext, Done

-----------------------------------------------------------------------------
(* Plain functions.                                                        *)

(* A task is replaced by the tasks new: the others keep their places.      *)
Moved(w, new, v) ==
    /\ IsSeq(v) /\ Len(v) \in Nat /\ Len(v) = Len(new) + Len(w) - 1
    /\ Len(new) \in Nat /\ Len(w) \in Nat /\ Len(w) >= 1
    /\ DOMAIN v = 1..Len(v) /\ DOMAIN w = 1..Len(w)
    /\ \A i \in 1..Len(new) : i \in DOMAIN v /\ v[i] = new[i]
    /\ \A j \in 2..Len(w) :
        Len(new) + j - 1 \in DOMAIN v /\ v[Len(new) + j - 1] = w[j]
    /\ \A i \in DOMAIN v : i \in 1..Len(new) \/ i - Len(new) + 1 \in 2..Len(w)
    /\ \A i \in DOMAIN v : i \notin 1..Len(new) => v[i] = w[i - Len(new) + 1]

LEMMA Moves ==
    ASSUME NEW w, IsSeq(w), w # <<>>, NEW new, IsSeq(new)
    PROVE  Moved(w, new, new \o Tail(w))
<1> DEFINE v == new \o Tail(w)
<1>1. /\ IsSeq(v) /\ Len(v) = Len(new) + Len(w) - 1
      /\ DOMAIN v = 1..(Len(new) + Len(w) - 1)
      /\ \A i \in 1..Len(new) : v[i] = new[i]
      /\ \A i \in (Len(new) + 1)..(Len(new) + Len(w) - 1) : v[i] = w[i - Len(new) + 1]
  BY Replaced
<1>2. /\ Len(new) \in Nat /\ Len(w) \in Nat /\ Len(w) >= 1
      /\ DOMAIN w = 1..Len(w)
  BY Tailed, SeqIs
<1> HIDE DEF v
<1>3. Len(v) \in Nat /\ DOMAIN v = 1..Len(v)
  BY <1>1, SeqIs
<1>4. \A i \in 1..Len(new) : i \in DOMAIN v /\ v[i] = new[i]
  BY <1>1, <1>2
<1>5. ASSUME NEW j \in 2..Len(w)
      PROVE  Len(new) + j - 1 \in DOMAIN v /\ v[Len(new) + j - 1] = w[j]
  <2> DEFINE i == Len(new) + j - 1
  <2>1. /\ i \in (Len(new) + 1)..(Len(new) + Len(w) - 1) /\ i - Len(new) + 1 = j
        /\ i \in 1..(Len(new) + Len(w) - 1)
    BY <1>2
  <2> HIDE DEF i
  <2>2. i \in DOMAIN v /\ v[i] = w[j]
    BY <1>1, <2>1
  <2> QED
    BY <2>2 DEF i
<1>6. ASSUME NEW i \in DOMAIN v, i \notin 1..Len(new)
      PROVE  i - Len(new) + 1 \in 2..Len(w) /\ v[i] = w[i - Len(new) + 1]
  <2>1. i \in (Len(new) + 1)..(Len(new) + Len(w) - 1)
    BY <1>1, <1>2, <1>6
  <2> QED
    BY <1>1, <1>2, <2>1
<1> QED
  BY <1>1, <1>2, <1>3, <1>4, <1>5, <1>6 DEF Moved, v

(* Where a task can be.                                                    *)
LEMMA WhereTasksAre ==
    ASSUME IsSeq(work), ShapeInv
    PROVE  /\ Len(work) \in Nat /\ Len(work) >= 1 /\ DOMAIN work = 1..Len(work)
           /\ work # <<>>
           /\ work[1].do = "end" <=> Len(work) = 1
           /\ work[1].do \in {"endif", "endfor"} <=> Len(work) = 3
           /\ work[1].do = "body" => Len(work) = 2 \/ Len(work) >= 4
           /\ work[1].do \notin {"end", "endif", "endfor", "body"} => Len(work) >= 4
<1>1. /\ Len(work) \in Nat /\ Len(work) >= 1 /\ DOMAIN work = 1..Len(work)
      /\ work # <<>>
  BY SeqIs DEF ShapeInv
<1>2. CASE Len(work) = 1
  <2>1. work[1].do = "end"
    BY <1>2 DEF ShapeInv
  <2> QED
    BY <1>1, <1>2, <2>1
<1>3. CASE Len(work) = 2
  <2>1. work[2 - 1].do = "body"
    BY <1>3 DEF ShapeInv
  <2> QED
    BY <1>1, <1>3, <2>1
<1>4. CASE Len(work) = 3
  <2>1. work[3 - 2].do \in {"endif", "endfor"}
    BY <1>4 DEF ShapeInv, Inside
  <2> QED
    BY <1>1, <1>4, <2>1
<1>5. CASE Len(work) >= 4
  <2>1. 1 \in 1..(Len(work) - 1) /\ 1 \in 1..(Len(work) - 3)
    BY <1>1, <1>5
  <2>2. work[1].do # "end" /\ work[1].do \notin {"endif", "endfor"}
    BY <2>1 DEF ShapeInv
  <2> QED
    BY <1>1, <1>5, <2>2
<1> QED
  BY <1>1, <1>2, <1>3, <1>4, <1>5

(* A step inside of an if or a for: more blocks are made and added, and    *)
(* those the task was to connect are connected, or new tasks are.          *)
InsideStep(new, more) ==
    /\ IsSeq(new) /\ work' = new \o Tail(work) /\ fun' = fun /\ next' = next
    /\ \A i \in 1..Len(new) :
        /\ new[i].do \notin {"end", "endif", "endfor"}
        /\ new[i].do = "body" =>
            \E list \in InnerLists(fun) : IsCode(list) /\ IsRest(new[i].list, list)
        /\ Waits(new[i]) \subseteq ToSet(added') \cup {NoBlock}
    /\ IsSeq(added') /\ IsInjective(added') /\ ToSet(added') = ToSet(added) \cup more
    /\ more \cap DOMAIN blocks = {} /\ NoBlock \notin more
    /\ DOMAIN blocks' = DOMAIN blocks \cup more
    /\ cur' \in ToSet(added')
    /\ \A b \in DOMAIN blocks : Initialized(blocks, b) => Initialized(blocks', b)
    /\ ~Initialized(blocks', next)
    /\ \A b \in Waits(Task) \cup more : Initialized(blocks', b) \/ b \notin DOMAIN blocks'
            \/ \E i \in 1..Len(new) : b \in Waits(new[i])
    /\ (loopVar' = loopVar /\ Task.do # "step") \/ loopVar' = NoLoop

LEMMA PlainInside ==
    ASSUME TypesInv, stage = "lower", LoweringInv, Len(work) >= 4,
           NEW new, NEW more, InsideStep(new, more)
    PROVE  LoweringInv'
<1>1. /\ IsSeq(work) /\ Task = work[1] /\ work # <<>>
      /\ Len(work) \in Nat /\ DOMAIN work = 1..Len(work)
  <2>1. IsSeq(work)
    BY DEF TypesInv, WorkInv
  <2>2. work # <<>>
    BY <2>1, SeqIs
  <2> QED
    BY <2>1, <2>2, TaskIs
<1>2. Moved(work, new, work')
  BY <1>1, Moves DEF InsideStep
<1>3. /\ fun' = fun /\ next' = next
      /\ \A i \in 1..Len(new) :
            /\ new[i].do \notin {"end", "endif", "endfor"}
            /\ new[i].do = "body" =>
                \E list \in InnerLists(fun) : IsCode(list) /\ IsRest(new[i].list, list)
            /\ Waits(new[i]) \subseteq ToSet(added') \cup {NoBlock}
  BY DEF InsideStep
<1> DEFINE n == Len(work)
           m == Len(work')
           k == Len(new)
<1>4. n \in Nat /\ m \in Nat /\ k \in Nat /\ n >= 4 /\ m = k + n - 1 /\ m >= 3
  BY <1>2 DEF Moved
<1>5. \A i \in 1..k : i \in DOMAIN work' /\ work'[i] = new[i]
  BY <1>2 DEF Moved
<1>6. ASSUME NEW i \in 1..m, i \notin 1..k
      PROVE  i - k + 1 \in 2..n /\ work'[i] = work[i - k + 1]
  BY <1>2, <1>6 DEF Moved
<1>7. \A j \in 2..n : k + j - 1 \in 1..m /\ work'[k + j - 1] = work[j]
  BY <1>2 DEF Moved
<1>8. ShapeInv'
  <2>1. work'[m] = work[n] /\ work'[m - 1] = work[n - 1] /\ work'[m - 2] = work[n - 2]
    <3>1. n \in 2..n /\ n - 1 \in 2..n /\ n - 2 \in 2..n
      BY <1>4
    <3>2. k + n - 1 = m /\ k + (n - 1) - 1 = m - 1 /\ k + (n - 2) - 1 = m - 2
      BY <1>4
    <3> HIDE DEF n, m, k
    <3> QED
      BY <1>7, <3>1, <3>2
  <2>2. /\ work[n].do = "end" /\ work[n - 1].do = "body"
        /\ IsRest(work[n - 1].list, fun.body)
        /\ work[n - 2].do \in {"endif", "endfor"}
        /\ \A i \in 1..(n - 1) : work[i].do # "end"
        /\ \A i \in 1..(n - 2) : work[i].do = "body" =>
            \E list \in InnerLists(fun) : IsCode(list) /\ IsRest(work[i].list, list)
        /\ \A i \in 1..(n - 3) : work[i].do \notin {"endif", "endfor"}
    BY <1>4 DEF LoweringInv, ShapeInv, Inside
  <2>3. ASSUME NEW i \in 1..(m - 1) PROVE work'[i].do # "end"
    <3>1. CASE i \in 1..k
      BY <1>3, <1>5, <3>1
    <3>2. CASE i \notin 1..k
      <4>1. i \in 1..m /\ i - k + 1 \in 1..(n - 1)
        BY <1>4, <3>2
      <4> QED
        BY <1>6, <2>2, <3>2, <4>1
    <3> QED
      BY <3>1, <3>2
  <2>4. ASSUME NEW i \in 1..(m - 3) PROVE work'[i].do \notin {"endif", "endfor"}
    <3>1. CASE i \in 1..k
      BY <1>3, <1>5, <3>1
    <3>2. CASE i \notin 1..k
      <4>1. i \in 1..m /\ i - k + 1 \in 1..(n - 3)
        BY <1>4, <3>2
      <4> QED
        BY <1>6, <2>2, <3>2, <4>1
    <3> QED
      BY <3>1, <3>2
  <2>5. ASSUME NEW i \in 1..(m - 2), work'[i].do = "body"
        PROVE  \E list \in InnerLists(fun) : IsCode(list) /\ IsRest(work'[i].list, list)
    <3>1. CASE i \in 1..k
      BY <1>3, <1>5, <2>5, <3>1
    <3>2. CASE i \notin 1..k
      <4>1. i \in 1..m /\ i - k + 1 \in 1..(n - 2)
        BY <1>4, <3>2
      <4> QED
        BY <1>6, <2>2, <2>5, <3>2, <4>1
    <3> QED
      BY <3>1, <3>2
  <2> HIDE DEF m, n
  <2>6. /\ m >= 1 /\ work'[m].do = "end" /\ work'[m - 1].do = "body"
        /\ IsRest(work'[m - 1].list, fun'.body)
        /\ work'[m - 2].do \in {"endif", "endfor"}
    BY <1>3, <1>4, <2>1, <2>2
  <2>7. \A i \in 1..(m - 2) : work'[i].do = "body" =>
            \E list \in InnerLists(fun') : IsCode(list) /\ IsRest(work'[i].list, list)
    BY <1>3, <2>5
  <2> QED
    BY <2>3, <2>4, <2>6, <2>7 DEF ShapeInv, m
<1>9. Inside /\ Inside'
  BY <1>4 DEF Inside
<1>10. /\ IsInjective(added) /\ EndBlock \notin ToSet(added)
       /\ DOMAIN blocks = ToSet(added) \cup {EndBlock} \cup {next}
       /\ next \notin ToSet(added) \cup {EndBlock, NoBlock}
       /\ ~Initialized(blocks, next) /\ cur \in ToSet(added)
  BY <1>9 DEF LoweringInv, AddedInv
<1>11. /\ IsInjective(added') /\ ToSet(added') = ToSet(added) \cup more
       /\ more \cap DOMAIN blocks = {} /\ NoBlock \notin more
       /\ DOMAIN blocks' = DOMAIN blocks \cup more /\ cur' \in ToSet(added')
       /\ ~Initialized(blocks', next)
       /\ \A b \in DOMAIN blocks : Initialized(blocks, b) => Initialized(blocks', b)
       /\ \A b \in Waits(Task) \cup more : Initialized(blocks', b)
            \/ b \notin DOMAIN blocks' \/ \E i \in 1..Len(new) : b \in Waits(new[i])
  BY DEF InsideStep
<1>12. AddedInv'
  <2>1. EndBlock \in DOMAIN blocks /\ next \in DOMAIN blocks
    BY <1>10
  <2>2. EndBlock \notin ToSet(added') /\ next' \notin ToSet(added') \cup {EndBlock, NoBlock}
    BY <1>3, <1>10, <1>11, <2>1
  <2>3. DOMAIN blocks' = ToSet(added') \cup {EndBlock} \cup {next'}
    BY <1>3, <1>10, <1>11
  <2>4. ~Initialized(blocks', next')
    BY <1>3, <1>11
  <2> QED
    BY <1>9, <1>11, <2>2, <2>3, <2>4 DEF AddedInv, Initialized
<1>13. WaitsInv'
  <2>1. ASSUME NEW i \in DOMAIN work' PROVE Waits(work'[i]) \subseteq ToSet(added') \cup {NoBlock}
    <3>1. CASE i \in 1..k
      BY <1>3, <1>5, <3>1
    <3>2. CASE i \notin 1..k
      <4>1. i \in 1..m
        BY <1>2 DEF Moved
      <4>2. i - k + 1 \in DOMAIN work /\ work'[i] = work[i - k + 1]
        BY <1>1, <1>4, <1>6, <3>2, <4>1
      <4>3. Waits(work[i - k + 1]) \subseteq ToSet(added) \cup {NoBlock}
        BY <4>2 DEF LoweringInv, WaitsInv
      <4> QED
        BY <1>11, <4>2, <4>3
    <3> QED
      BY <3>1, <3>2
  <2> QED
    BY <2>1 DEF WaitsInv, Waits
<1>14. UnsetInv'
  <2>1. ASSUME NEW b \in DOMAIN blocks', ~Initialized(blocks', b), b # next
        PROVE  \E i \in DOMAIN work' : b \in Waits(work'[i])
    <3>1. CASE b \in Waits(Task) \cup more
      <4>1. PICK i \in 1..Len(new) : b \in Waits(new[i])
        BY <1>11, <2>1, <3>1
      <4> QED
        BY <1>5, <4>1
    <3>2. CASE b \notin Waits(Task) \cup more
      <4>1. b \in DOMAIN blocks /\ ~Initialized(blocks, b)
        BY <1>11, <2>1, <3>2
      <4>2. PICK j \in DOMAIN work : b \in Waits(work[j])
        BY <1>9, <2>1, <4>1 DEF LoweringInv, UnsetInv
      <4>3. j \in 2..n
        BY <1>1, <3>2, <4>2
      <4>4. k + j - 1 \in 1..m /\ work'[k + j - 1] = work[j]
        BY <1>7, <4>3
      <4>5. DOMAIN work' = 1..m
        BY <1>2 DEF Moved
      <4> QED
        BY <4>2, <4>4, <4>5
    <3> QED
      BY <3>1, <3>2
  <2> QED
    BY <1>3, <1>9, <2>1 DEF UnsetInv, Initialized, Waits
<1>15. LoopInv'
  <2>1. CASE loopVar' = NoLoop
    BY <2>1 DEF LoopInv
  <2>2. CASE loopVar' # NoLoop
    <3>1. loopVar # NoLoop /\ Task.do # "step"
      BY <2>2 DEF InsideStep
    <3>2. PICK j \in DOMAIN work : work[j].do = "step"
      BY <3>1 DEF LoweringInv, LoopInv
    <3>3. j \in 2..n
      BY <1>1, <3>1, <3>2
    <3>4. k + j - 1 \in DOMAIN work' /\ work'[k + j - 1] = work[j]
      BY <1>2, <3>3 DEF Moved
    <3> QED
      BY <3>2, <3>4 DEF LoopInv
  <2> QED
    BY <2>1, <2>2
<1> QED
  BY <1>8, <1>12, <1>13, <1>14, <1>15 DEF LoweringInv

(* The next statement of a plain function: inside of an if or a for it     *)
(* makes no blocks.                                                        *)
LEMMA PlainBody ==
    ASSUME TypesInv, Plain(fun), LoweringInv, InBody
    PROVE  /\ Len(work) \in Nat /\ (Len(work) = 2 \/ Len(work) >= 4)
           /\ Len(work) = 2 =>
                /\ IsRest(Task.list, fun.body) /\ IsRest(Tail(Task.list), fun.body)
                /\ Stmt \in ToSet(fun.body) /\ Stmt = Task.list[1]
           /\ Len(work) >= 4 =>
                /\ Stmt.is \in {"do", "return"}
                /\ \E list \in InnerLists(fun) :
                        IsCode(list) /\ IsRest(Tail(Task.list), list)
<1>1. /\ stage = "lower" /\ work # <<>> /\ Task.do = "body" /\ Task.list # <<>>
      /\ fun \in Functions
  BY TypesAre DEF InBody, Doing
<1>2. IsSeq(work) /\ Task = work[1]
  BY <1>1, TaskIs
<1>3. Len(work) \in Nat /\ (Len(work) = 2 \/ Len(work) >= 4)
  BY <1>1, <1>2, WhereTasksAre DEF LoweringInv
<1>4. ASSUME Len(work) = 2
      PROVE  /\ IsRest(Task.list, fun.body) /\ IsRest(Tail(Task.list), fun.body)
             /\ Stmt \in ToSet(fun.body) /\ Stmt = Task.list[1]
  <2>1. IsRest(work[2 - 1].list, fun.body)
    BY <1>4 DEF LoweringInv, ShapeInv
  <2>2. IsRest(Task.list, fun.body) /\ IsSeq(fun.body)
    BY <1>1, <1>2, <2>1, FunctionIs DEF IsCode
  <2> QED
    BY <1>1, <2>2, RestIs DEF Stmt
<1>5. ASSUME Len(work) >= 4
      PROVE  /\ Stmt.is \in {"do", "return"}
             /\ \E list \in InnerLists(fun) :
                    IsCode(list) /\ IsRest(Tail(Task.list), list)
  <2>1. 1 \in 1..(Len(work) - 2)
    BY <1>3, <1>5
  <2>2. PICK list \in InnerLists(fun) : IsCode(list) /\ IsRest(Task.list, list)
    BY <1>1, <1>2, <2>1 DEF LoweringInv, ShapeInv
  <2>3. Stmt \in ToSet(list) /\ IsRest(Tail(Task.list), list)
    BY <1>1, <2>2, RestIs DEF Stmt, IsCode
  <2>4. ~HasBlocks(Stmt)
    BY <2>3 DEF Plain, Nested
  <2> QED
    BY <2>2, <2>3, <2>4 DEF IsCode
<1> QED
  BY <1>3, <1>4, <1>5

LEMMA LoweringIs ==
    ASSUME TypesInv, stage = "lower", LoweringInv, work # <<>>
    PROVE  /\ IsSeq(work) /\ Task = work[1] /\ IsInjective(added) /\ IsSeq(added)
           /\ Len(work) \in Nat /\ DOMAIN work = 1..Len(work) /\ 1 \in DOMAIN work
           /\ EndBlock \notin ToSet(added) /\ EndBlock \in DOMAIN blocks
           /\ ToSet(added) \subseteq DOMAIN blocks /\ cur \in ToSet(added)
           /\ Len(work) >= 4 => next \notin ToSet(added) /\ next \in DOMAIN blocks
                                /\ ~Initialized(blocks, next) /\ next # NoBlock
           /\ Waits(Task) \subseteq ToSet(added) \cup {NoBlock}
           /\ NoBlock \notin DOMAIN blocks
<1>1. /\ IsSeq(work) /\ Task = work[1] /\ Len(work) \in Nat
      /\ DOMAIN work = 1..Len(work) /\ 1 \in DOMAIN work
  BY TaskIs
<1>2. /\ IsInjective(added) /\ EndBlock \notin ToSet(added) /\ cur \in ToSet(added)
      /\ Len(work) >= 4 => next \notin ToSet(added) /\ next \in DOMAIN blocks
                           /\ ~Initialized(blocks, next) /\ next # NoBlock
  BY <1>1 DEF LoweringInv, AddedInv, Inside
<1>3. Waits(Task) \subseteq ToSet(added) \cup {NoBlock}
  BY <1>1 DEF LoweringInv, WaitsInv
<1> QED
  BY <1>1, <1>2, <1>3, TypesAre

(* A body inside of an if or a for goes on without its next statement.     *)
LEMMA RestInside ==
    ASSUME TypesInv, Plain(fun), LoweringInv, InBody, Len(work) >= 4,
           work' = <<Rest>> \o Tail(work), fun' = fun, next' = next, added' = added,
           cur' = cur, loopVar' = loopVar, DOMAIN blocks' = DOMAIN blocks,
           \A b \in DOMAIN blocks :
                /\ Initialized(blocks, b) => Initialized(blocks', b)
                /\ b # cur => (Initialized(blocks', b) <=> Initialized(blocks, b))
    PROVE  LoweringInv'
<1> DEFINE new == <<Rest>>
<1>1. /\ stage = "lower" /\ work # <<>> /\ Task.do = "body"
      /\ Rest.do = "body" /\ Rest.list = Tail(Task.list)
  BY BodyIs DEF Rest, Body
<1>2. /\ IsSeq(added) /\ IsInjective(added) /\ cur \in ToSet(added)
      /\ next \notin ToSet(added) /\ next \in DOMAIN blocks /\ ~Initialized(blocks, next)
  BY <1>1, LoweringIs
<1>3. Waits(Rest) = {} /\ Waits(Task) = {}
  BY <1>1 DEF Waits
<1>4. \E list \in InnerLists(fun) : IsCode(list) /\ IsRest(Rest.list, list)
  BY <1>1, PlainBody
<1>5. IsSeq(new) /\ Len(new) = 1 /\ new[1] = Rest
  BY Tuples
<1> HIDE DEF new
<1>6. InsideStep(new, {})
  <2>1. ~Initialized(blocks', next)
    BY <1>2
  <2>2. \A i \in 1..Len(new) : new[i] = Rest
    BY <1>5
  <2>3. work' = new \o Tail(work)
    BY DEF new
  <2>4. /\ ToSet(added') = ToSet(added) \cup {} /\ IsSeq(added') /\ IsInjective(added')
        /\ cur' \in ToSet(added')
    BY <1>2
  <2>5. Rest.do \notin {"end", "endif", "endfor"} /\ Task.do # "step"
    BY <1>1
  <2> QED
    BY <1>3, <1>4, <1>5, <2>1, <2>2, <2>3, <2>4, <2>5 DEF InsideStep
<1> QED
  BY <1>1, <1>6, PlainInside

(* A statement of the body that leaves no if or for open.                  *)
LEMMA RestFlat ==
    ASSUME TypesInv, Plain(fun), LoweringInv, InBody, Len(work) = 2,
           work' = <<Rest>> \o Tail(work), fun' = fun, next' = next,
           loopVar' = loopVar, IsInjective(added'), ToSet(added) \subseteq ToSet(added'),
           EndBlock \notin ToSet(added'), cur' \in ToSet(added'),
           DOMAIN blocks' = ToSet(added') \cup {EndBlock},
           \A b \in DOMAIN blocks' : ~Initialized(blocks', b) =>
                b = cur' /\ (b \in {FirstBlock, next}
                             \/ \E s \in ToSet(Tail(Task.list)) : s.is # "do")
    PROVE  LoweringInv'
<1> DEFINE new == <<Rest>>
<1>1. /\ stage = "lower" /\ work # <<>> /\ Task.do = "body"
      /\ Rest.do = "body" /\ Rest.list = Tail(Task.list)
      /\ IsRest(Rest.list, fun.body)
  BY BodyIs, PlainBody DEF Rest, Body
<1>2. IsSeq(work) /\ Task = work[1] /\ DOMAIN work = 1..Len(work)
  BY <1>1, TaskIs
<1>3. IsSeq(new) /\ Len(new) = 1 /\ new[1] = Rest
  BY Tuples
<1>4. work' = new \o Tail(work)
  OBVIOUS
<1> HIDE DEF new
<1>5. Moved(work, new, work')
  BY <1>1, <1>2, <1>3, <1>4, Moves
<1>6. Len(work') = 2 /\ DOMAIN work' = 1..2 /\ work'[1] = Rest /\ work'[2] = work[2]
  <2>1. Len(work') = 1 + 2 - 1 /\ DOMAIN work' = 1..Len(work')
    BY <1>3, <1>5 DEF Moved
  <2>2. 1 \in 1..Len(new) /\ 2 \in 2..Len(work) /\ Len(new) + 2 - 1 = 2
    BY <1>3
  <2>3. work'[1] = new[1] /\ work'[Len(new) + 2 - 1] = work[2]
    BY <1>5, <2>2 DEF Moved
  <2> QED
    BY <1>3, <2>1, <2>2, <2>3
<1>7. work[2].do = "end" /\ work[1].do = "body"
  BY <1>1, <1>2 DEF LoweringInv, ShapeInv
<1>8. ~Inside /\ ~Inside'
  BY <1>6 DEF Inside
<1>9. ShapeInv'
  <2>1. /\ Len(work') >= 1 /\ work'[Len(work')].do = "end"
        /\ work'[Len(work') - 1].do = "body"
        /\ IsRest(work'[Len(work') - 1].list, fun'.body)
    BY <1>1, <1>6, <1>7
  <2>2. \A i \in 1..(Len(work') - 1) : work'[i].do # "end"
    BY <1>1, <1>6
  <2>3. \A i \in 1..(Len(work') - 2) : FALSE
    BY <1>6
  <2>4. \A i \in 1..(Len(work') - 3) : FALSE
    BY <1>6
  <2> QED
    BY <1>8, <2>1, <2>2, <2>3, <2>4 DEF ShapeInv
<1>10. AddedInv'
  <2>1. next \in ToSet(added) \cup {NoBlock}
    BY <1>8 DEF LoweringInv, AddedInv
  <2>2. next' \in ToSet(added') \cup {NoBlock}
    BY <2>1
  <2> QED
    BY <1>8, <2>2 DEF AddedInv, Initialized
<1>11. WaitsInv'
  <2>1. Waits(work'[1]) = {} /\ Waits(work'[2]) = {}
    BY <1>1, <1>6, <1>7 DEF Waits
  <2>2. \A i \in DOMAIN work' : i = 1 \/ i = 2
    BY <1>6
  <2>3. \A i \in DOMAIN work' : Waits(work'[i]) \subseteq ToSet(added') \cup {NoBlock}
    BY <2>1, <2>2
  <2> QED
    BY <2>3 DEF WaitsInv, Waits
<1>12. UnsetInv'
  <2>1. work'[1].list = Tail(Task.list)
    BY <1>1, <1>6
  <2>2. \A b \in DOMAIN blocks' : ~Initialized(blocks', b) =>
            b = cur' /\ (b \in {FirstBlock, next'}
                         \/ \E s \in ToSet(work'[1].list) : s.is # "do")
    BY <2>1
  <2> QED
    BY <1>6, <1>8, <2>2 DEF UnsetInv, Initialized, GoesOn
<1>13. LoopInv'
  <2>1. \A i \in DOMAIN work : i = 1 \/ i = 2
    BY <1>2
  <2>2. loopVar = NoLoop
    BY <1>7, <2>1 DEF LoweringInv, LoopInv
  <2> QED
    BY <2>2 DEF LoopInv
<1> QED
  BY <1>9, <1>10, <1>11, <1>12, <1>13 DEF LoweringInv

(* What is known outside of an if or a for.                                *)
LEMMA OutsideIs ==
    ASSUME TypesInv, stage = "lower", LoweringInv, Len(work) <= 2
    PROVE  /\ next \in ToSet(added) \cup {NoBlock}
           /\ DOMAIN blocks = ToSet(added) \cup {EndBlock}
           /\ \A b \in DOMAIN blocks : ~Initialized(blocks, b) =>
                b = cur /\ (b \in {FirstBlock, next} \/ GoesOn)
           /\ IsSeq(work) /\ work # <<>>
<1>1. IsSeq(work) /\ work # <<>>
  BY WhereTasksAre DEF TypesInv, WorkInv, LoweringInv
<1>2. ~Inside
  BY <1>1, SeqIs DEF Inside
<1> QED
  BY <1>1, <1>2 DEF LoweringInv, AddedInv, UnsetInv

LEMMA PlainLowerExpr ==
    ASSUME TypesInv, Plain(fun), LoweringInv, LowerExpr
    PROVE  LoweringInv'
<1>1. InBody /\ Stmt.is = "do"
  BY DEF LowerExpr, At
<1>2. /\ stage = "lower" /\ work # <<>> /\ fun' = fun /\ work' = <<Rest>> \o Tail(work)
      /\ blocks' = AddExpr(blocks, cur, <<"do", Stmt.id>>)
      /\ added' = added /\ cur' = cur /\ next' = next
      /\ loopVar' = loopVar
  BY <1>1, BodyIs, Tuples DEF LowerExpr, Then
<1>3. DOMAIN blocks' = DOMAIN blocks /\ \A b \in DOMAIN blocks : blocks'[b].exit = blocks[b].exit
  <2> DEFINE bs == AddExpr(blocks, cur, <<"do", Stmt.id>>)
  <2>1. /\ DOMAIN bs = DOMAIN blocks /\ \A b \in DOMAIN blocks : bs[b].exit = blocks[b].exit
    BY ZenonT(40), TypesAre, AnExprAdded
  <2> QED
    BY <1>2, <2>1
<1>4. \A b \in DOMAIN blocks : Initialized(blocks', b) <=> Initialized(blocks, b)
  BY <1>3 DEF Initialized
<1>5. CASE Len(work) >= 4
  BY <1>1, <1>2, <1>3, <1>4, <1>5, RestInside
<1>6. CASE Len(work) = 2
  <2>1. ASSUME NEW b \in DOMAIN blocks, ~Initialized(blocks, b)
        PROVE  b = cur /\ (b \in {FirstBlock, next}
                           \/ \E s \in ToSet(Tail(Task.list)) : s.is # "do")
    <3>1. b = cur /\ (b \in {FirstBlock, next} \/ GoesOn)
      BY <1>2, <1>6, <2>1, OutsideIs
    <3>2. CASE GoesOn
      <4>1. PICK s \in ToSet(Task.list) : s.is # "do"
        BY <1>2, <3>2, LoweringIs DEF GoesOn
      <4>2. /\ IsSeq(Task.list) /\ Stmt = Task.list[1] /\ Task.list # <<>>
        BY <1>1, <1>6, PlainBody DEF IsRest, InBody
      <4>3. PICK i \in 1..Len(Task.list) : s = Task.list[i]
        BY <4>1, <4>2, SeqIs
      <4>4. i # 1
        BY <1>1, <4>1, <4>2, <4>3
      <4>5. /\ Len(Task.list) \in Nat
            /\ DOMAIN Tail(Task.list) = 1..(Len(Task.list) - 1)
            /\ \A j \in 1..(Len(Task.list) - 1) : Tail(Task.list)[j] = Task.list[j + 1]
        BY <4>2, Tailed
      <4>6. i - 1 \in 1..(Len(Task.list) - 1) /\ (i - 1) + 1 = i
        BY <4>4, <4>5
      <4>7. i - 1 \in DOMAIN Tail(Task.list) /\ Tail(Task.list)[i - 1] = s
        BY <4>3, <4>5, <4>6
      <4>8. s \in ToSet(Tail(Task.list))
        BY <4>7 DEF ToSet
      <4> QED
        BY <3>1, <4>1, <4>8
    <3> QED
      BY <3>1, <3>2
  <2>2. /\ IsInjective(added) /\ EndBlock \notin ToSet(added) /\ cur \in ToSet(added)
        /\ DOMAIN blocks = ToSet(added) \cup {EndBlock}
    BY <1>2, <1>6, LoweringIs, OutsideIs
  <2> QED
    BY <1>1, <1>2, <1>3, <1>4, <1>6, <2>1, <2>2, RestFlat
<1> QED
  BY <1>1, <1>5, <1>6, PlainBody

LEMMA PlainLowerReturn ==
    ASSUME TypesInv, Plain(fun), LoweringInv, LowerReturn
    PROVE  LoweringInv'
<1> DEFINE bs == AddExpr(blocks, cur, <<"return", Stmt.id>>)
<1>1. InBody
  BY DEF LowerReturn, At
<1>2. /\ stage = "lower" /\ work # <<>> /\ fun' = fun /\ work' = <<Rest>> \o Tail(work)
      /\ blocks' = SetExit(bs, cur, Branch(EndBlock))
      /\ added' = added /\ cur' = cur /\ next' = next
      /\ loopVar' = loopVar
  BY <1>1, BodyIs, Tuples DEF LowerReturn, Then
<1>3. /\ AreBlocks(bs) /\ DOMAIN bs = DOMAIN blocks /\ cur \in DOMAIN bs
      /\ \A b \in DOMAIN blocks : bs[b].exit = blocks[b].exit
  BY ZenonT(40), TypesAre, AnExprAdded
<1> HIDE DEF bs
<1>4. HasExit(bs, cur, Branch(EndBlock), blocks')
  BY <1>2, <1>3, AnExitSet
<1>5. /\ DOMAIN blocks' = DOMAIN blocks /\ Initialized(blocks', cur)
      /\ \A b \in DOMAIN blocks :
            b # cur => (Initialized(blocks', b) <=> Initialized(blocks, b))
  BY <1>3, <1>4 DEF HasExit, Branch, Initialized
<1>6. CASE Len(work) >= 4
  BY <1>1, <1>2, <1>5, <1>6, RestInside
<1>7. CASE Len(work) = 2
  <2>1. \A b \in DOMAIN blocks : Initialized(blocks', b)
    BY <1>2, <1>5, <1>7, OutsideIs
  <2>2. /\ IsInjective(added) /\ EndBlock \notin ToSet(added) /\ cur \in ToSet(added)
        /\ DOMAIN blocks = ToSet(added) \cup {EndBlock}
    BY <1>2, <1>7, LoweringIs, OutsideIs
  <2> QED
    BY <1>1, <1>2, <1>5, <1>7, <2>1, <2>2, RestFlat
<1> QED
  BY <1>1, <1>6, <1>7, PlainBody

(* After a match expression of a plain function something is set.          *)
LEMMA MatchGoesOn ==
    ASSUME fun \in Functions, Plain(fun), ~fun.headless, NEW rest, rest # <<>>,
           IsRest(rest, fun.body), Head(rest).is = "match"
    PROVE  \E s \in ToSet(Tail(rest)) : s.is # "do"
<1> DEFINE body == fun.body
           n == Len(body)
           m == Len(rest)
<1>1. IsSeq(body)
  BY FunctionIs DEF IsCode
<1>2. /\ n \in Nat /\ m \in Nat /\ m >= 1 /\ m <= n /\ Head(rest) = rest[1]
      /\ \A j \in 1..m : rest[j] = body[n - m + j]
      /\ DOMAIN body = 1..n
  <2>1. n \in Nat /\ DOMAIN body = 1..n
    BY <1>1, SeqIs
  <2>2. m \in Nat /\ m >= 1 /\ Head(rest) = rest[1]
    BY <1>1, RestIs
  <2> QED
    BY <2>1, <2>2 DEF IsRest
<1>3. DOMAIN Tail(rest) = 1..(m - 1) /\ \A j \in 1..(m - 1) : Tail(rest)[j] = rest[j + 1]
  BY Tailed DEF IsRest
<1> HIDE DEF n, m
<1> DEFINE i == n - m + 1
<1>4. i \in DOMAIN body /\ body[i].is = "match" /\ i \in Nat
  BY <1>2
<1>5. PICK j \in (i + 1)..n : body[j].is # "do"
  BY <1>4 DEF Plain, EndsInMatch, n
<1> DEFINE k == j - (n - m)
<1>6. k \in 1..m /\ n - m + k = j /\ k - 1 \in 1..(m - 1) /\ (k - 1) + 1 = k
  BY <1>2, <1>5
<1>7. rest[k] = body[j]
  BY <1>2, <1>6
<1>8. k - 1 \in DOMAIN Tail(rest) /\ Tail(rest)[k - 1] = body[j]
  BY <1>3, <1>6, <1>7
<1> HIDE DEF k
<1>9. body[j] \in ToSet(Tail(rest))
  BY <1>8 DEF ToSet
<1> QED
  BY <1>5, <1>9

LEMMA PlainLowerMatch ==
    ASSUME TypesInv, Plain(fun), LoweringInv, LowerMatch
    PROVE  LoweringInv'
<1> DEFINE last == Base + HowMany(Stmt) - 1
<1>1. InBody /\ Stmt.is = "match" /\ Task.list # <<>>
  BY DEF LowerMatch, At, InBody
<1>2. /\ stage = "lower" /\ work # <<>> /\ fun' = fun /\ work' = <<Rest>> \o Tail(work)
      /\ next' = next /\ loopVar' = loopVar /\ fun \in Functions
  BY <1>1, BodyIs, Tuples, TypesAre DEF LowerMatch, Then
<1>3. /\ Len(work) = 2 /\ IsRest(Task.list, fun.body) /\ Stmt \in ToSet(fun.body)
  BY <1>1, PlainBody
<1>4. Stmt.cases # 1
  BY <1>1, <1>3 DEF Plain, OneCase
<1>5. /\ Fresh \in Nat /\ Base \in Nat /\ DOMAIN blocks = 0..(Fresh - 1)
      /\ HowMany(Stmt) \in Nat /\ HowMany(Stmt) >= 1
      /\ DOMAIN blocks' = 0..last
      /\ \A b \in DOMAIN blocks : b # cur => blocks'[b].exit = blocks[b].exit
      /\ blocks'[cur].exit.is = "cond"
      /\ \A b \in Base..last : blocks'[b].exit.is \in {"cond", "branch"}
      /\ IsSeq(added') /\ ToSet(added') = ToSet(added) \cup Fresh..last
      /\ IsInjective(added) => IsInjective(added')
      /\ cur' = IF fun.headless THEN last ELSE Fresh
  BY <1>4, MatchMade
<1>6. /\ IsInjective(added) /\ EndBlock \notin ToSet(added) /\ cur \in ToSet(added)
      /\ DOMAIN blocks = ToSet(added) \cup {EndBlock} /\ EndBlock \in DOMAIN blocks
      /\ \A b \in DOMAIN blocks : ~Initialized(blocks, b) => b = cur
  BY <1>2, <1>3, LoweringIs, OutsideIs
<1>7. last >= Fresh /\ last \in Nat /\ (~fun.headless => Base = Fresh + 1)
      /\ (fun.headless => Base = Fresh)
  BY <1>5 DEF Base
<1>8. 0..last = 0..(Fresh - 1) \cup Fresh..last /\ 0..(Fresh - 1) \cap Fresh..last = {}
  BY <1>5, <1>7
<1> HIDE DEF last
<1>9. ASSUME NEW b \in DOMAIN blocks', ~Initialized(blocks', b)
      PROVE  b = cur' /\ \E s \in ToSet(Tail(Task.list)) : s.is # "do"
  <2>1. b \notin DOMAIN blocks
    <3>1. CASE b = cur
      BY <1>5, <1>9, <3>1 DEF Initialized
    <3>2. CASE b # cur
      BY <1>5, <1>6, <1>9, <3>2 DEF Initialized
    <3> QED
      BY <3>1, <3>2
  <2>2. b \in Fresh..last
    BY <1>5, <1>8, <2>1
  <2>3. b \notin Base..last
    BY <1>5, <1>9 DEF Initialized
  <2>4. ~fun.headless /\ b = Fresh
    BY <1>5, <1>7, <2>2, <2>3, FunctionIs, <1>2
  <2> QED
    BY <1>1, <1>2, <1>3, <1>5, <2>4, MatchGoesOn DEF Stmt
<1>10. cur' \in ToSet(added')
  BY <1>5, <1>7
<1>11. EndBlock \notin ToSet(added') /\ DOMAIN blocks' = ToSet(added') \cup {EndBlock}
  BY <1>5, <1>6, <1>8
<1> QED
  BY <1>1, <1>2, <1>3, <1>5, <1>6, <1>9, <1>10, <1>11, RestFlat

LEMMA NoTasks ==
    ASSUME NEW w, IsSeq(w), w # <<>>
    PROVE  IsSeq(<<>>) /\ Len(<<>>) = 0 /\ Tail(w) = <<>> \o Tail(w)
<1>1. Tail(w) \in Seq(ToSet(Tail(w)))
  BY Tailed DEF IsSeq
<1>2. Tail(w) = <<>> \o Tail(w)
  BY <1>1, ConcatEmptySeq
<1> QED
  BY <1>2, Tuples

(* A task inside of an if or a for is done.                                *)
LEMMA LeftInside ==
    ASSUME TypesInv, stage = "lower", LoweringInv, Len(work) >= 4, work # <<>>,
           work' = Tail(work), fun' = fun, next' = next, added' = added, cur' = cur,
           (loopVar' = loopVar /\ Task.do # "step") \/ loopVar' = NoLoop,
           DOMAIN blocks' = DOMAIN blocks,
           \A b \in DOMAIN blocks : Initialized(blocks, b) => Initialized(blocks', b),
           ~Initialized(blocks', next),
           \A b \in Waits(Task) : Initialized(blocks', b) \/ b \notin DOMAIN blocks'
    PROVE  LoweringInv'
<1> DEFINE new == <<>>
<1>1. /\ IsSeq(work) /\ IsSeq(added) /\ IsInjective(added) /\ cur \in ToSet(added)
  BY LoweringIs
<1>2. IsSeq(new) /\ Len(new) = 0 /\ work' = new \o Tail(work)
  BY <1>1, NoTasks
<1> HIDE DEF new
<1>3. InsideStep(new, {})
  BY <1>1, <1>2 DEF InsideStep
<1> QED
  BY <1>3, PlainInside

LEMMA PlainStepFor ==
    ASSUME TypesInv, Plain(fun), LoweringInv, StepFor
    PROVE  LoweringInv'
<1>1. /\ stage = "lower" /\ work # <<>> /\ fun' = fun /\ work' = Tail(work)
      /\ blocks' = AddExpr(blocks, cur, <<"step", Task.for>>)
      /\ added' = added /\ cur' = cur /\ next' = next
      /\ loopVar' = NoLoop /\ Task.do = "step"
  BY DEF StepFor, Doing
<1>2. DOMAIN blocks' = DOMAIN blocks /\ \A b \in DOMAIN blocks : blocks'[b].exit = blocks[b].exit
  <2> DEFINE bs == AddExpr(blocks, cur, <<"step", Task.for>>)
  <2>1. /\ DOMAIN bs = DOMAIN blocks /\ \A b \in DOMAIN blocks : bs[b].exit = blocks[b].exit
    BY ZenonT(40), TypesAre, AnExprAdded
  <2> QED
    BY <1>1, <2>1
<1>3. IsSeq(work) /\ Task = work[1]
  BY <1>1, TaskIs
<1>4. Len(work) >= 4
  BY <1>1, <1>3, WhereTasksAre DEF LoweringInv
<1>5. next \in DOMAIN blocks /\ ~Initialized(blocks, next)
  BY <1>1, <1>4, LoweringIs
<1>6. \A b \in DOMAIN blocks : Initialized(blocks', b) <=> Initialized(blocks, b)
  BY <1>2 DEF Initialized
<1>7. Waits(Task) = {}
  BY <1>1 DEF Waits
<1> QED
  BY <1>1, <1>2, <1>4, <1>5, <1>6, <1>7, LeftInside

LEMMA PlainNoFallthrough ==
    ASSUME TypesInv, Plain(fun), LoweringInv, NoFallthrough
    PROVE  LoweringInv'
<1> DEFINE join == Join(next, NoBlock)
           new == <<join>>
<1>1. /\ stage = "lower" /\ work # <<>> /\ fun' = fun /\ work' = new \o Tail(work)
      /\ blocks' = blocks /\ added' = added /\ cur' = cur /\ next' = next
      /\ loopVar' = loopVar /\ Task.do = "fallthrough"
  BY DEF NoFallthrough, Doing
<1>2. IsSeq(work) /\ Task = work[1]
  BY <1>1, TaskIs
<1>3. Len(work) >= 4
  BY <1>1, <1>2, WhereTasksAre DEF LoweringInv
<1>4. /\ next \in DOMAIN blocks /\ ~Initialized(blocks, next) /\ IsSeq(added)
      /\ IsInjective(added) /\ cur \in ToSet(added)
      /\ Waits(Task) \subseteq ToSet(added) \cup {NoBlock}
      /\ NoBlock \notin DOMAIN blocks
  BY <1>1, <1>3, LoweringIs
<1>5. Waits(Task) = {Task.old, Task.taken}
  BY <1>1 DEF Waits
<1>6. Waits(join) = {Task.old, Task.taken, NoBlock} /\ join.do = "join"
  BY DEF Waits, Join
<1> HIDE DEF join
<1>7. IsSeq(new) /\ Len(new) = 1 /\ new[1] = join
  BY Tuples
<1> HIDE DEF new
<1>8. InsideStep(new, {})
  <2>1. \A i \in 1..Len(new) : new[i] = join
    BY <1>7
  <2>2. \E i \in 1..Len(new) : new[i] = join
    BY <1>7
  <2>3. \A b \in Waits(Task) : \E i \in 1..Len(new) : b \in Waits(new[i])
    BY <1>5, <1>6, <2>2
  <2>4. ToSet(added') = ToSet(added) \cup {} /\ DOMAIN blocks' = DOMAIN blocks \cup {}
        /\ IsSeq(added') /\ IsInjective(added') /\ cur' \in ToSet(added')
    BY <1>1, <1>4
  <2>5. join.do \notin {"end", "endif", "endfor", "body"} /\ Task.do # "step"
        /\ Waits(join) \subseteq ToSet(added') \cup {NoBlock}
    BY <1>1, <1>4, <1>5, <1>6
  <2>6. ~Initialized(blocks', next)
    BY <1>1, <1>4
  <2> QED
    BY <1>1, <1>7, <2>1, <2>3, <2>4, <2>5, <2>6 DEF InsideStep
<1> QED
  BY <1>1, <1>3, <1>8, PlainInside

(* Blocks cs are the blocks bs, and b goes on if it did not before.        *)
Settled(bs, b, cs) ==
    /\ AreBlocks(cs) /\ DOMAIN cs = DOMAIN bs /\ Initialized(cs, b)
    /\ \A c \in DOMAIN bs : c # b => cs[c].exit = bs[c].exit
    /\ \A c \in DOMAIN bs : Initialized(bs, c) => cs[c].exit = bs[c].exit

LEMMA AnExitSettled ==
    ASSUME NEW bs, AreBlocks(bs), NEW b \in DOMAIN bs, NEW to
    PROVE  Settled(bs, b, IfUnset(bs, b, Branch(to)))
<1>1. CASE Initialized(bs, b)
  BY <1>1 DEF IfUnset, Settled
<1>2. CASE ~Initialized(bs, b)
  <2> DEFINE cs == SetExit(bs, b, Branch(to))
  <2>1. HasExit(bs, b, Branch(to), cs)
    BY AnExitSet
  <2>2. IfUnset(bs, b, Branch(to)) = cs
    BY <1>2 DEF IfUnset
  <2> HIDE DEF cs
  <2>3. /\ AreBlocks(cs) /\ DOMAIN cs = DOMAIN bs /\ Initialized(cs, b)
        /\ \A c \in DOMAIN bs : c # b => cs[c].exit = bs[c].exit
    BY <2>1 DEF HasExit, Initialized, Branch
  <2>4. \A c \in DOMAIN bs : Initialized(bs, c) => cs[c].exit = bs[c].exit
    BY <1>2, <2>3
  <2>5. Settled(bs, b, cs)
    BY <2>3, <2>4 DEF Settled
  <2> QED
    BY <2>2, <2>5
<1> QED
  BY <1>1, <1>2

(* What the end of an if does to the exits.                                *)
LEMMA JoinedIs ==
    ASSUME NEW bs, AreBlocks(bs), NEW j, j.old \in DOMAIN bs, j.taken \in DOMAIN bs,
           j.else \in DOMAIN bs \cup {NoBlock}, NoBlock \notin DOMAIN bs
    PROVE  /\ DOMAIN Joined(bs, j) = DOMAIN bs
           /\ \A b \in DOMAIN bs : b \in {j.old, j.taken, j.else} =>
                Initialized(Joined(bs, j), b)
           /\ \A b \in DOMAIN bs : b \notin {j.old, j.taken, j.else} =>
                Joined(bs, j)[b].exit = bs[b].exit
           /\ \A b \in DOMAIN bs : b # j.old /\ Initialized(bs, b) =>
                Joined(bs, j)[b].exit = bs[b].exit
<1> DEFINE exit == CondBranch(<<"if", j.if>>, j.taken, j.other)
           to == Branch(next)
           one == SetExit(bs, j.old, exit)
           two == IfUnset(one, j.taken, to)
           three == IfUnset(two, j.else, to)
<1>0. exit.is # "invalid" /\ to.is # "invalid"
  BY DEF CondBranch, Branch
<1>1. Joined(bs, j) = IF j.else = NoBlock THEN two ELSE three
  BY DEF Joined
<1>2. HasExit(bs, j.old, exit, one)
  BY AnExitSet
<1> HIDE DEF exit, to, one
<1>4. /\ AreBlocks(one) /\ DOMAIN one = DOMAIN bs /\ Initialized(one, j.old)
      /\ \A b \in DOMAIN bs : b # j.old => one[b].exit = bs[b].exit
  BY <1>0, <1>2 DEF HasExit, Initialized
<1>5. /\ AreBlocks(two) /\ DOMAIN two = DOMAIN bs /\ Initialized(two, j.taken)
      /\ \A c \in DOMAIN bs : c # j.taken => two[c].exit = one[c].exit
      /\ \A c \in DOMAIN bs : Initialized(one, c) => two[c].exit = one[c].exit
  <2>1. Settled(one, j.taken, two)
    BY <1>4, AnExitSettled DEF to
  <2> QED
    BY <1>4, <2>1 DEF Settled
<1> HIDE DEF two
<1>6. CASE j.else = NoBlock
  <2>1. Joined(bs, j) = two
    BY <1>1, <1>6
  <2> QED
    BY <1>4, <1>5, <1>6, <2>1 DEF Initialized
<1>7. CASE j.else # NoBlock
  <2>1. Joined(bs, j) = three
    BY <1>1, <1>7
  <2>2. j.else \in DOMAIN two
    BY <1>5, <1>7
  <2>3. /\ DOMAIN three = DOMAIN bs /\ Initialized(three, j.else)
        /\ \A c \in DOMAIN bs : c # j.else => three[c].exit = two[c].exit
        /\ \A c \in DOMAIN bs : Initialized(two, c) => three[c].exit = two[c].exit
    <3>1. Settled(two, j.else, three)
      BY <1>5, <2>2, AnExitSettled DEF to
    <3> QED
      BY <1>5, <3>1 DEF Settled
  <2> HIDE DEF three
  <2> QED
    BY <1>4, <1>5, <1>7, <2>1, <2>3 DEF Initialized
<1> QED
  BY <1>6, <1>7

LEMMA PlainJoinIf ==
    ASSUME TypesInv, Plain(fun), LoweringInv, JoinIf
    PROVE  LoweringInv'
<1>1. /\ stage = "lower" /\ work # <<>> /\ fun' = fun /\ work' = Tail(work)
      /\ blocks' = Joined(blocks, Task)
      /\ added' = added /\ cur' = cur /\ next' = next
      /\ loopVar' = loopVar /\ Task.do = "join"
  BY DEF JoinIf, Doing
<1>2. /\ Task.old \in DOMAIN blocks /\ Task.taken \in DOMAIN blocks
      /\ Task.else \in DOMAIN blocks \cup {NoBlock} /\ NoBlock \notin DOMAIN blocks
      /\ AreBlocks(blocks)
  BY <1>1, TaskIs, TypesAre DEF IsTask
<1>3. IsSeq(work) /\ Task = work[1]
  BY <1>1, TaskIs
<1>4. Len(work) >= 4
  BY <1>1, <1>3, WhereTasksAre DEF LoweringInv
<1>5. Waits(Task) = {Task.old, Task.taken, Task.else}
  BY <1>1 DEF Waits
<1>6. /\ next \in DOMAIN blocks /\ ~Initialized(blocks, next)
      /\ next # NoBlock /\ next \notin ToSet(added)
      /\ Waits(Task) \subseteq ToSet(added) \cup {NoBlock}
  BY <1>1, <1>4, LoweringIs
<1>7. /\ DOMAIN blocks' = DOMAIN blocks
      /\ \A b \in DOMAIN blocks : b \in {Task.old, Task.taken, Task.else} =>
            Initialized(blocks', b)
      /\ \A b \in DOMAIN blocks : b \notin {Task.old, Task.taken, Task.else} =>
            blocks'[b].exit = blocks[b].exit
  BY <1>1, <1>2, JoinedIs
<1>8. \A b \in DOMAIN blocks : Initialized(blocks, b) => Initialized(blocks', b)
  BY <1>7 DEF Initialized
<1>9. ~Initialized(blocks', next)
  BY <1>5, <1>6, <1>7 DEF Initialized
<1> QED
  BY <1>1, <1>4, <1>5, <1>7, <1>8, <1>9, LeftInside

(* Blocks without an exit, made after others.                              *)
AreMadeEmpty(bs, new, cs) ==
    /\ DOMAIN blocks = 0..(Fresh - 1) /\ Fresh \in Nat
    /\ DOMAIN cs = 0..(Fresh + Len(new) - 1)
    /\ \A b \in DOMAIN blocks : cs[b] = bs[b]
    /\ \A j \in 1..Len(new) : cs[Fresh + j - 1] = NewBlock(<<>>)

LEMMA EmptyOnesMade ==
    ASSUME TypesInv, NEW bs, AreBlocks(bs), DOMAIN bs = DOMAIN blocks,
           NEW new, IsSeq(new), TargetsIn(bs) \/ TargetsTo(bs, Fresh + Len(new)),
           \A j \in 1..Len(new) : new[j] = NewBlock(<<>>)
    PROVE  AreMadeEmpty(bs, new, With(bs, new))
  BY EmptyOnes DEF AreMadeEmpty

(* What the beginning of an else and of an elif change.                    *)
Else == Task.if.else[1]
ElseBegun ==
    /\ stage = "lower" /\ work # <<>> /\ Task.do = "fallthrough"
    /\ work' = <<Body(Else.then), Join(Fresh, Fresh)>> \o Tail(work)
    /\ fun' = fun /\ added' = Append(added, Fresh) /\ cur' = Fresh
    /\ next' = next /\ loopVar' = loopVar /\ stage' = stage
    /\ IsCode(Else.then) /\ Else.then \in InnerLists(fun)
    /\ DOMAIN blocks' = DOMAIN blocks \cup {Fresh}
    /\ Fresh \notin DOMAIN blocks /\ Fresh # NoBlock
    /\ \A b \in DOMAIN blocks : blocks'[b] = blocks[b]
    /\ ~Initialized(blocks', Fresh)

LEMMA BeginElseIs ==
    ASSUME TypesInv, BeginElse
    PROVE  ElseBegun
<1> DEFINE es == <<NewBlock(<<>>)>>
<1>1. /\ stage = "lower" /\ work # <<>> /\ fun' = fun
      /\ work' = <<Body(Else.then), Join(Fresh, Fresh)>> \o Tail(work)
      /\ blocks' = With(blocks, es) /\ added' = Append(added, Fresh)
      /\ cur' = Fresh /\ next' = next /\ loopVar' = loopVar /\ stage' = stage
      /\ Task.do = "fallthrough" /\ Task.if.else # <<>> /\ Else.is = "else"
  BY DEF BeginElse, Doing, Else
<1>2. IsCode(Else.then) /\ Else.then \in InnerLists(fun)
  <2>1. /\ Sublists(Task.if) \subseteq InnerLists(fun) /\ Task.if.is \in {"if", "elif"}
        /\ IsStatement(Task.if)
    BY <1>1, TaskIs DEF IsTask
  <2>2. fun \in Functions
    BY TypesAre
  <2>3. IsElse(Else)
    BY <1>1, <2>1, <2>2, ElseIs DEF Else
  <2> QED
    BY <2>3 DEF IsElse
<1>3. /\ DOMAIN blocks' = DOMAIN blocks \cup {Fresh}
      /\ Fresh \notin DOMAIN blocks /\ Fresh # NoBlock
      /\ \A b \in DOMAIN blocks : blocks'[b] = blocks[b]
      /\ blocks'[Fresh] = NewBlock(<<>>)
  <2>1. IsSeq(es) /\ Len(es) = 1 /\ es[1] = NewBlock(<<>>)
    BY Tuples
  <2>2. \A j \in 1..Len(es) : es[j] = NewBlock(<<>>)
    BY <2>1
  <2>3. AreBlocks(blocks) /\ TargetsIn(blocks)
    BY TypesAre
  <2> DEFINE cs == With(blocks, es)
  <2>4. blocks' = cs
    BY <1>1
  <2> HIDE DEF es
  <2>5. AreMadeEmpty(blocks, es, cs)
    BY <2>1, <2>2, <2>3, EmptyOnesMade
  <2> HIDE DEF cs
  <2>6. /\ DOMAIN blocks = 0..(Fresh - 1) /\ Fresh \in Nat
        /\ DOMAIN cs = 0..(Fresh + 1 - 1)
        /\ \A b \in DOMAIN blocks : cs[b] = blocks[b]
        /\ cs[Fresh + 1 - 1] = NewBlock(<<>>)
    BY <2>1, <2>5 DEF AreMadeEmpty
  <2>7. /\ 0..(Fresh + 1 - 1) = 0..(Fresh - 1) \cup {Fresh} /\ Fresh \notin 0..(Fresh - 1)
        /\ Fresh + 1 - 1 = Fresh
    BY <2>6
  <2> QED
    BY <2>4, <2>6, <2>7 DEF NoBlock
<1>4. ~Initialized(blocks', Fresh)
  BY <1>3 DEF Initialized, NewBlock, NoExit
<1> QED
  BY <1>1, <1>2, <1>3, <1>4 DEF ElseBegun

ElifTask == [do |-> "fallthrough", if |-> Else, old |-> Fresh, taken |-> Fresh + 1]
ElifBegun ==
    /\ stage = "lower" /\ work # <<>> /\ Task.do = "fallthrough"
    /\ work' = <<Body(Else.then), ElifTask, Join(Fresh, NoBlock)>> \o Tail(work)
    /\ fun' = fun /\ added' = added \o <<Fresh, Fresh + 1>> /\ cur' = Fresh + 1
    /\ next' = next /\ loopVar' = loopVar /\ stage' = stage
    /\ IsCode(Else.then) /\ Else.then \in InnerLists(fun)
    /\ DOMAIN blocks' = DOMAIN blocks \cup {Fresh, Fresh + 1}
    /\ {Fresh, Fresh + 1} \cap DOMAIN blocks = {} /\ Fresh # Fresh + 1
    /\ NoBlock \notin {Fresh, Fresh + 1}
    /\ \A b \in DOMAIN blocks : blocks'[b] = blocks[b]
    /\ ~Initialized(blocks', Fresh) /\ ~Initialized(blocks', Fresh + 1)

LEMMA BeginElifIs ==
    ASSUME TypesInv, BeginElif
    PROVE  ElifBegun
<1> DEFINE e == NewBlock(<<>>)
           es == <<e, e>>
           body == Body(Else.then)
           join == Join(Fresh, NoBlock)
           new == <<body, ElifTask, join>>
<1>1. /\ stage = "lower" /\ work # <<>> /\ fun' = fun /\ work' = new \o Tail(work)
      /\ blocks' = With(blocks, es) /\ added' = added \o <<Fresh, Fresh + 1>>
      /\ cur' = Fresh + 1 /\ next' = next /\ loopVar' = loopVar /\ stage' = stage
      /\ Task.do = "fallthrough" /\ Task.if.else # <<>> /\ Else.is = "elif"
  <2>1. work' = (<<body, ElifTask>> \o <<join>>) \o Tail(work)
    BY DEF BeginElif, Conditional, Else, ElifTask
  <2>2. <<body, ElifTask>> \o <<join>> = new
    <3> HIDE DEF body, join
    <3>1. AreTuples(body, ElifTask, join, join)
      BY Tuples
    <3> QED
      BY <3>1 DEF AreTuples
  <2>3. work' = new \o Tail(work)
    BY <2>1, <2>2
  <2> HIDE DEF new
  <2> QED
    BY <2>3 DEF BeginElif, Doing, Else
<1>2. IsCode(Else.then) /\ Else.then \in InnerLists(fun)
  <2>1. /\ Sublists(Task.if) \subseteq InnerLists(fun) /\ Task.if.is \in {"if", "elif"}
        /\ IsStatement(Task.if)
    BY <1>1, TaskIs DEF IsTask
  <2>2. fun \in Functions
    BY TypesAre
  <2>3. IsElse(Else)
    BY <1>1, <2>1, <2>2, ElseIs DEF Else
  <2> QED
    BY <2>3 DEF IsElse
<1>3. /\ DOMAIN blocks' = DOMAIN blocks \cup {Fresh, Fresh + 1}
      /\ {Fresh, Fresh + 1} \cap DOMAIN blocks = {} /\ Fresh # Fresh + 1
      /\ NoBlock \notin {Fresh, Fresh + 1}
      /\ \A b \in DOMAIN blocks : blocks'[b] = blocks[b]
      /\ blocks'[Fresh] = e /\ blocks'[Fresh + 1] = e
  <2>1. IsSeq(es) /\ Len(es) = 2
    BY Tuples
  <2>2. \A j \in 1..2 : es[j] = e
    <3> HIDE DEF e
    <3> QED
      OBVIOUS
  <2>3. \A j \in 1..Len(es) : es[j] = NewBlock(<<>>)
    BY <2>1, <2>2
  <2>4. AreBlocks(blocks) /\ TargetsIn(blocks)
    BY TypesAre
  <2> DEFINE cs == With(blocks, es)
  <2>5. blocks' = cs
    BY <1>1
  <2> HIDE DEF es
  <2>6. AreMadeEmpty(blocks, es, cs)
    BY <2>1, <2>3, <2>4, EmptyOnesMade
  <2> HIDE DEF cs
  <2>7. /\ DOMAIN blocks = 0..(Fresh - 1) /\ Fresh \in Nat
        /\ DOMAIN cs = 0..(Fresh + 2 - 1)
        /\ \A b \in DOMAIN blocks : cs[b] = blocks[b]
        /\ cs[Fresh + 1 - 1] = NewBlock(<<>>)
        /\ cs[Fresh + 2 - 1] = NewBlock(<<>>)
    BY <2>1, <2>6 DEF AreMadeEmpty
  <2>8. /\ 0..(Fresh + 2 - 1) = 0..(Fresh - 1) \cup {Fresh, Fresh + 1}
        /\ {Fresh, Fresh + 1} \cap 0..(Fresh - 1) = {}
        /\ Fresh + 1 - 1 = Fresh /\ Fresh + 2 - 1 = Fresh + 1
    BY <2>7
  <2> QED
    BY <2>5, <2>7, <2>8 DEF NoBlock
<1>4. ~Initialized(blocks', Fresh) /\ ~Initialized(blocks', Fresh + 1)
  BY <1>3 DEF Initialized, NewBlock, NoExit
<1> HIDE DEF e, es
<1> QED
  BY <1>1, <1>2, <1>3, <1>4 DEF ElifBegun

LEMMA PlainBeginElse ==
    ASSUME TypesInv, Plain(fun), LoweringInv, BeginElse
    PROVE  LoweringInv'
<1> DEFINE body == Body(Else.then)
           join == Join(Fresh, Fresh)
           new == <<body, join>>
<1>1. /\ stage = "lower" /\ work # <<>> /\ fun' = fun /\ work' = new \o Tail(work)
      /\ added' = Append(added, Fresh) /\ cur' = Fresh /\ next' = next
      /\ loopVar' = loopVar /\ Task.do = "fallthrough"
  BY BeginElseIs DEF ElseBegun
<1>2. IsSeq(work) /\ Task = work[1]
  BY <1>1, TaskIs
<1>3. Len(work) >= 4
  BY <1>1, <1>2, WhereTasksAre DEF LoweringInv
<1>4. /\ next \in DOMAIN blocks /\ ~Initialized(blocks, next) /\ IsSeq(added)
      /\ IsInjective(added) /\ cur \in ToSet(added)
      /\ Waits(Task) \subseteq ToSet(added) \cup {NoBlock}
      /\ NoBlock \notin DOMAIN blocks /\ ToSet(added) \subseteq DOMAIN blocks
  BY <1>1, <1>3, LoweringIs
<1>5. /\ DOMAIN blocks' = DOMAIN blocks \cup {Fresh} /\ Fresh \notin DOMAIN blocks
      /\ Fresh # NoBlock
      /\ \A b \in DOMAIN blocks : blocks'[b] = blocks[b]
  BY BeginElseIs DEF ElseBegun
<1>6. Waits(Task) = {Task.old, Task.taken}
  BY <1>1 DEF Waits
<1>7. Waits(join) = {Task.old, Task.taken, Fresh} /\ join.do = "join"
  BY DEF Waits, Join
<1>8. Waits(body) = {} /\ body.do = "body" /\ body.list = Else.then
  BY DEF Waits, Body
<1>9. IsCode(Else.then) /\ Else.then \in InnerLists(fun)
  BY BeginElseIs DEF ElseBegun
<1>10. IsRest(Else.then, Else.then)
  BY <1>9, RestOfAll DEF IsCode
<1> HIDE DEF body, join
<1>11. IsSeq(new) /\ Len(new) = 2 /\ new[1] = body /\ new[2] = join
  BY Tuples
<1> HIDE DEF new
<1>12. /\ IsSeq(added') /\ ToSet(added') = ToSet(added) \cup {Fresh} /\ IsInjective(added')
  BY <1>1, <1>4, <1>5, Appended
<1>13. InsideStep(new, {Fresh})
  <2>1. \A i \in 1..Len(new) : new[i] = body \/ new[i] = join
    <3>1. \A i \in 1..Len(new) : i = 1 \/ i = 2
      BY <1>11
    <3> QED
      BY <1>11, <3>1
  <2>2. \E i \in 1..Len(new) : new[i] = join
    BY <1>11
  <2>3. \A b \in Waits(Task) \cup {Fresh} : \E i \in 1..Len(new) : b \in Waits(new[i])
    BY <1>6, <1>7, <2>2
  <2>4. /\ ~Initialized(blocks', next)
        /\ \A b \in DOMAIN blocks : Initialized(blocks, b) => Initialized(blocks', b)
    BY <1>4, <1>5 DEF Initialized
  <2>5. join.do \notin {"end", "endif", "endfor", "body"} /\ Task.do # "step"
        /\ Waits(join) \subseteq ToSet(added') \cup {NoBlock}
    BY <1>1, <1>4, <1>6, <1>7, <1>12
  <2>6. /\ body.do \notin {"end", "endif", "endfor"}
        /\ \E list \in InnerLists(fun) : IsCode(list) /\ IsRest(body.list, list)
    BY <1>8, <1>9, <1>10
  <2>7. \A i \in 1..Len(new) :
            /\ new[i].do \notin {"end", "endif", "endfor"}
            /\ new[i].do = "body" =>
                \E list \in InnerLists(fun) : IsCode(list) /\ IsRest(new[i].list, list)
            /\ Waits(new[i]) \subseteq ToSet(added') \cup {NoBlock}
    BY <1>8, <2>1, <2>5, <2>6
  <2>8. cur' \in ToSet(added') /\ {Fresh} \cap DOMAIN blocks = {} /\ NoBlock \notin {Fresh}
    BY <1>1, <1>5, <1>12
  <2> QED
    BY <1>1, <1>5, <1>11, <1>12, <2>3, <2>4, <2>5, <2>7, <2>8 DEF InsideStep
<1> QED
  BY <1>1, <1>3, <1>13, PlainInside

LEMMA PlainBeginElif ==
    ASSUME TypesInv, Plain(fun), LoweringInv, BeginElif
    PROVE  LoweringInv'
<1> DEFINE body == Body(Else.then)
           fall == ElifTask
           join == Join(Fresh, NoBlock)
           new == <<body, fall, join>>
           more == <<Fresh, Fresh + 1>>
           made == {Fresh, Fresh + 1}
<1>1. /\ stage = "lower" /\ work # <<>> /\ fun' = fun /\ work' = new \o Tail(work)
      /\ added' = added \o more /\ cur' = Fresh + 1 /\ next' = next
      /\ loopVar' = loopVar /\ Task.do = "fallthrough"
  BY BeginElifIs DEF ElifBegun
<1>2. IsSeq(work) /\ Task = work[1]
  BY <1>1, TaskIs
<1>3. Len(work) >= 4
  BY <1>1, <1>2, WhereTasksAre DEF LoweringInv
<1>4. /\ next \in DOMAIN blocks /\ ~Initialized(blocks, next) /\ IsSeq(added)
      /\ IsInjective(added) /\ cur \in ToSet(added)
      /\ Waits(Task) \subseteq ToSet(added) \cup {NoBlock}
      /\ NoBlock \notin DOMAIN blocks /\ ToSet(added) \subseteq DOMAIN blocks
  BY <1>1, <1>3, LoweringIs
<1>5. /\ DOMAIN blocks' = DOMAIN blocks \cup made /\ made \cap DOMAIN blocks = {}
      /\ NoBlock \notin made /\ Fresh # Fresh + 1
      /\ \A b \in DOMAIN blocks : blocks'[b] = blocks[b]
  BY BeginElifIs DEF ElifBegun
<1>6. Waits(Task) = {Task.old, Task.taken}
  BY <1>1 DEF Waits
<1>7. Waits(join) = {Task.old, Task.taken, NoBlock} /\ join.do = "join"
  BY DEF Waits, Join
<1>8. Waits(body) = {} /\ body.do = "body" /\ body.list = Else.then
  BY DEF Waits, Body
<1>9. Waits(fall) = made /\ fall.do = "fallthrough"
  BY DEF Waits, ElifTask
<1>10. IsCode(Else.then) /\ Else.then \in InnerLists(fun)
  BY BeginElifIs DEF ElifBegun
<1>11. IsRest(Else.then, Else.then)
  BY <1>10, RestOfAll DEF IsCode
<1>12. IsSeq(more) /\ ToSet(more) = made /\ IsInjective(more)
  <2>1. IsSeq(more)
    BY Tuples
  <2>2. DOMAIN more = {1, 2} /\ more[1] = Fresh /\ more[2] = Fresh + 1
    OBVIOUS
  <2> HIDE DEF more
  <2>3. IsInjective(more)
    BY <1>5, <2>2 DEF IsInjective
  <2> QED
    BY <2>1, <2>2, <2>3 DEF ToSet
<1> HIDE DEF body, join, fall
<1>13. IsSeq(new) /\ Len(new) = 3 /\ new[1] = body /\ new[2] = fall /\ new[3] = join
  BY Tuples
<1> HIDE DEF new, more
<1>14. /\ IsSeq(added') /\ ToSet(added') = ToSet(added) \cup made /\ IsInjective(added')
  BY <1>1, <1>4, <1>5, <1>12, Concatenated
<1>15. InsideStep(new, made)
  <2>1. \A i \in 1..Len(new) : new[i] = body \/ new[i] = fall \/ new[i] = join
    <3>1. \A i \in 1..Len(new) : i = 1 \/ i = 2 \/ i = 3
      BY <1>13
    <3> QED
      BY <1>13, <3>1
  <2>2. (\E i \in 1..Len(new) : new[i] = join) /\ (\E i \in 1..Len(new) : new[i] = fall)
    BY <1>13
  <2>3. \A b \in Waits(Task) \cup made : \E i \in 1..Len(new) : b \in Waits(new[i])
    BY <1>6, <1>7, <1>9, <2>2
  <2>4. /\ ~Initialized(blocks', next)
        /\ \A b \in DOMAIN blocks : Initialized(blocks, b) => Initialized(blocks', b)
    BY <1>4, <1>5 DEF Initialized
  <2>5. join.do \notin {"end", "endif", "endfor", "body"} /\ Task.do # "step"
        /\ Waits(join) \subseteq ToSet(added') \cup {NoBlock}
        /\ fall.do \notin {"end", "endif", "endfor", "body"}
        /\ Waits(fall) \subseteq ToSet(added') \cup {NoBlock}
    BY <1>1, <1>4, <1>6, <1>7, <1>9, <1>14
  <2>6. /\ body.do \notin {"end", "endif", "endfor"}
        /\ \E list \in InnerLists(fun) : IsCode(list) /\ IsRest(body.list, list)
    BY <1>8, <1>10, <1>11
  <2>7. \A i \in 1..Len(new) :
            /\ new[i].do \notin {"end", "endif", "endfor"}
            /\ new[i].do = "body" =>
                \E list \in InnerLists(fun) : IsCode(list) /\ IsRest(new[i].list, list)
            /\ Waits(new[i]) \subseteq ToSet(added') \cup {NoBlock}
    BY <1>8, <2>1, <2>5, <2>6
  <2>8. cur' \in ToSet(added')
    BY <1>1, <1>14
  <2> HIDE DEF made
  <2> QED
    BY <1>1, <1>5, <1>13, <1>14, <2>3, <2>4, <2>5, <2>7, <2>8 DEF InsideStep
<1> QED
  BY <1>1, <1>3, <1>15, PlainInside

(* An if or a for of the body is opened: mid and end wait for all blocks   *)
(* without an exit but the next one.                                       *)
Opens(list, mid, end) ==
    /\ work' = <<Body(list), mid, end, Rest>> \o Tail(work) /\ fun' = fun
    /\ IsCode(list) /\ list \in InnerLists(fun)
    /\ mid.do \in {"fallthrough", "step"} /\ end.do \in {"endif", "endfor"}
    /\ IsInjective(added') /\ EndBlock \notin ToSet(added') /\ cur' \in ToSet(added')
    /\ DOMAIN blocks' = ToSet(added') \cup {EndBlock, next'}
    /\ next' \notin ToSet(added') \cup {EndBlock, NoBlock}
    /\ ~Initialized(blocks', next')
    /\ Waits(mid) \cup Waits(end) \subseteq ToSet(added')
    /\ \A b \in DOMAIN blocks' : ~Initialized(blocks', b) =>
            b = next' \/ b \in Waits(mid) \cup Waits(end)
    /\ loopVar' # NoLoop => mid.do = "step"

LEMMA PlainOpens ==
    ASSUME TypesInv, Plain(fun), LoweringInv, InBody, Len(work) = 2,
           NEW list, NEW mid, NEW end, Opens(list, mid, end)
    PROVE  LoweringInv'
<1> DEFINE body == Body(list)
           new == <<body, mid, end, Rest>>
<1>1. /\ stage = "lower" /\ work # <<>> /\ Task.do = "body"
      /\ Rest.do = "body" /\ Rest.list = Tail(Task.list)
      /\ IsRest(Rest.list, fun.body)
  BY BodyIs, PlainBody DEF Rest, Body
<1>2. IsSeq(work) /\ Task = work[1] /\ DOMAIN work = 1..Len(work)
  BY <1>1, TaskIs
<1>3. work' = new \o Tail(work)
  BY DEF Opens
<1>4. /\ body.do = "body" /\ body.list = list /\ Waits(body) = {} /\ Waits(Rest) = {}
  BY <1>1 DEF Body, Waits
<1> HIDE DEF body
<1>5. /\ IsSeq(new) /\ Len(new) = 4
      /\ new[1] = body /\ new[2] = mid /\ new[3] = end /\ new[4] = Rest
  <2>1. IsSeq(new)
    BY Tuples
  <2> QED
    BY <2>1
<1> HIDE DEF new
<1>6. Moved(work, new, work')
  BY <1>1, <1>2, <1>3, <1>5, Moves
<1>7. /\ Len(work') = 5 /\ DOMAIN work' = 1..5 /\ work'[5] = work[2]
      /\ work'[1] = body /\ work'[2] = mid /\ work'[3] = end /\ work'[4] = Rest
  <2>1. Len(work') = 5 /\ DOMAIN work' = 1..5
    BY <1>5, <1>6 DEF Moved
  <2>2. 2 \in 2..Len(work) /\ Len(new) + 2 - 1 = 5
    BY <1>5
  <2>3. /\ work'[1] = new[1] /\ work'[2] = new[2] /\ work'[3] = new[3]
        /\ work'[4] = new[4]
    BY <1>5, <1>6 DEF Moved
  <2>4. work'[5] = work[2]
    BY <1>6, <2>2 DEF Moved
  <2> QED
    BY <1>5, <2>1, <2>3, <2>4
<1>8. work[2].do = "end"
  BY DEF LoweringInv, ShapeInv
<1>9. Inside'
  BY <1>7 DEF Inside
<1>10. /\ mid.do \in {"fallthrough", "step"} /\ end.do \in {"endif", "endfor"}
       /\ fun' = fun /\ IsCode(list) /\ list \in InnerLists(fun)
       /\ Waits(mid) \cup Waits(end) \subseteq ToSet(added')
  BY DEF Opens
<1>11. ShapeInv'
  <2>1. /\ Len(work') >= 1 /\ work'[Len(work')].do = "end"
        /\ work'[Len(work') - 1].do = "body"
        /\ IsRest(work'[Len(work') - 1].list, fun'.body)
        /\ work'[Len(work') - 2].do \in {"endif", "endfor"}
    BY <1>1, <1>7, <1>8, <1>10
  <2>2. ASSUME NEW i \in 1..(Len(work') - 1) PROVE work'[i].do # "end"
    <3>1. i = 1 \/ i = 2 \/ i = 3 \/ i = 4
      BY <1>7
    <3> QED
      BY <1>1, <1>4, <1>7, <1>10, <3>1
  <2>3. ASSUME NEW i \in 1..(Len(work') - 2), work'[i].do = "body"
        PROVE  \E l \in InnerLists(fun') : IsCode(l) /\ IsRest(work'[i].list, l)
    <3>1. i = 1 \/ i = 2 \/ i = 3
      BY <1>7
    <3>2. work'[i] = body
      BY <1>7, <1>10, <2>3, <3>1
    <3>3. IsRest(list, list)
      BY <1>10, RestOfAll DEF IsCode
    <3> QED
      BY <1>4, <1>10, <3>2, <3>3
  <2>4. ASSUME NEW i \in 1..(Len(work') - 3) PROVE work'[i].do \notin {"endif", "endfor"}
    <3>1. i = 1 \/ i = 2
      BY <1>7
    <3> QED
      BY <1>4, <1>7, <1>10, <3>1
  <2> QED
    BY <2>1, <2>2, <2>3, <2>4 DEF ShapeInv
<1>12. AddedInv'
  <2>1. /\ IsInjective(added') /\ EndBlock \notin ToSet(added') /\ cur' \in ToSet(added')
        /\ DOMAIN blocks' = ToSet(added') \cup {EndBlock} \cup {next'}
        /\ next' \notin ToSet(added') \cup {EndBlock, NoBlock}
        /\ ~Initialized(blocks', next')
    BY DEF Opens
  <2> QED
    BY <1>9, <2>1 DEF AddedInv, Initialized
<1>13. WaitsInv'
  <2>1. Waits(work'[5]) = {}
    BY <1>7, <1>8 DEF Waits
  <2>2. \A i \in DOMAIN work' : i = 1 \/ i = 2 \/ i = 3 \/ i = 4 \/ i = 5
    BY <1>7
  <2>3. \A i \in DOMAIN work' : Waits(work'[i]) \subseteq ToSet(added') \cup {NoBlock}
    BY <1>4, <1>7, <1>10, <2>1, <2>2
  <2> QED
    BY <2>3 DEF WaitsInv, Waits
<1>14. UnsetInv'
  <2>1. ASSUME NEW b \in DOMAIN blocks', ~Initialized(blocks', b), b # next'
        PROVE  \E i \in DOMAIN work' : b \in Waits(work'[i])
    <3>1. b \in Waits(mid) \cup Waits(end)
      BY <2>1 DEF Opens
    <3>2. 2 \in DOMAIN work' /\ 3 \in DOMAIN work'
      BY <1>7
    <3> QED
      BY <1>7, <3>1, <3>2
  <2> QED
    BY <1>9, <2>1 DEF UnsetInv, Initialized, Waits
<1>15. LoopInv'
  <2>1. loopVar' # NoLoop => mid.do = "step"
    BY DEF Opens
  <2>2. 2 \in DOMAIN work'
    BY <1>7
  <2> QED
    BY <1>7, <2>1, <2>2 DEF LoopInv
<1> QED
  BY <1>11, <1>12, <1>13, <1>14, <1>15 DEF LoweringInv

(* What the beginning of an if changes.                                    *)
IfTask == [do |-> "fallthrough", if |-> Stmt, old |-> cur, taken |-> Fresh + 1]
EndIfTask == [do |-> "endif"]
IfBegun ==
    /\ InBody /\ Stmt.is = "if" /\ stage = "lower" /\ work # <<>>
    /\ work' = <<Body(Stmt.then), IfTask, EndIfTask, Rest>> \o Tail(work)
    /\ fun' = fun /\ added' = Append(added, Fresh + 1) /\ cur' = Fresh + 1
    /\ next' = Fresh /\ loopVar' = loopVar /\ stage' = stage
    /\ IsCode(Stmt.then) /\ Stmt.then \in InnerLists(fun)
    /\ DOMAIN blocks' = DOMAIN blocks \cup {Fresh, Fresh + 1}
    /\ Fresh \notin DOMAIN blocks /\ Fresh + 1 \notin DOMAIN blocks
    /\ Fresh # NoBlock /\ Fresh # Fresh + 1
    /\ \A b \in DOMAIN blocks : blocks'[b] = blocks[b]
    /\ ~Initialized(blocks', Fresh) /\ ~Initialized(blocks', Fresh + 1)

LEMMA BeginIfIs ==
    ASSUME TypesInv, BeginIf
    PROVE  IfBegun
<1>0. InBody /\ Stmt.is = "if"
  BY DEF BeginIf, At
<1> DEFINE e == NewBlock(<<>>)
           es == <<e, e>>
           fall == [do |-> "fallthrough", if |-> Stmt, old |-> cur, taken |-> Fresh + 1]
           end == [do |-> "endif"]
           new == <<Body(Stmt.then), fall, end, Rest>>
<1>1. /\ stage = "lower" /\ work # <<>> /\ fun' = fun /\ work' = new \o Tail(work)
      /\ blocks' = With(blocks, es) /\ added' = Append(added, Fresh + 1)
      /\ cur' = Fresh + 1 /\ next' = Fresh
      /\ loopVar' = loopVar /\ stage' = stage
  <2>1. work' = ((<<Body(Stmt.then), fall>> \o <<end>>) \o <<Rest>>) \o Tail(work)
    BY <1>0, BodyIs DEF BeginIf, Then, Conditional
  <2>2. (<<Body(Stmt.then), fall>> \o <<end>>) \o <<Rest>> = new
    <3> DEFINE b == Body(Stmt.then)
    <3> HIDE DEF b, fall, end
    <3>1. AreTuples(b, fall, end, Rest)
      BY Tuples
    <3> QED
      BY <3>1 DEF AreTuples, b
  <2>3. work' = new \o Tail(work)
    BY <2>1, <2>2
  <2> HIDE DEF new
  <2> QED
    BY <1>0, <2>3, BodyIs DEF BeginIf
<1>2. /\ IsStatement(Stmt) /\ Sublists(Stmt) \subseteq InnerLists(fun)
      /\ IsCode(Stmt.then) /\ Stmt.then \in InnerLists(fun)
  <2>1. IsStatement(Stmt) /\ Sublists(Stmt) \subseteq InnerLists(fun)
    BY <1>0, BodyIs
  <2> QED
    BY <1>0, <2>1 DEF IsStatement, Sublists
<1>5. /\ DOMAIN blocks' = DOMAIN blocks \cup {Fresh, Fresh + 1}
      /\ Fresh \notin DOMAIN blocks /\ Fresh + 1 \notin DOMAIN blocks
      /\ Fresh # NoBlock /\ Fresh # Fresh + 1
      /\ \A b \in DOMAIN blocks : blocks'[b] = blocks[b]
      /\ blocks'[Fresh] = e /\ blocks'[Fresh + 1] = e
  <2>1. IsSeq(es) /\ Len(es) = 2
    BY Tuples
  <2>2. \A j \in 1..2 : es[j] = e
    <3> HIDE DEF e
    <3> QED
      OBVIOUS
  <2>3. \A j \in 1..Len(es) : es[j] = NewBlock(<<>>)
    BY <2>1, <2>2
  <2> HIDE DEF es
  <2>4. AreBlocks(blocks) /\ TargetsIn(blocks)
    BY TypesAre
  <2> DEFINE cs == With(blocks, es)
  <2>a. blocks' = cs
    BY <1>1
  <2>b. AreMadeEmpty(blocks, es, cs)
    BY <2>1, <2>3, <2>4, EmptyOnesMade
  <2> HIDE DEF cs
  <2>5. /\ DOMAIN blocks = 0..(Fresh - 1) /\ Fresh \in Nat
        /\ DOMAIN cs = 0..(Fresh + 2 - 1)
        /\ \A b \in DOMAIN blocks : cs[b] = blocks[b]
        /\ cs[Fresh + 1 - 1] = NewBlock(<<>>)
        /\ cs[Fresh + 2 - 1] = NewBlock(<<>>)
    BY <2>1, <2>b DEF AreMadeEmpty
  <2>6. /\ 0..(Fresh + 2 - 1) = 0..(Fresh - 1) \cup {Fresh, Fresh + 1}
        /\ Fresh \notin 0..(Fresh - 1) /\ Fresh + 1 \notin 0..(Fresh - 1)
        /\ Fresh + 1 - 1 = Fresh /\ Fresh + 2 - 1 = Fresh + 1
    BY <2>5
  <2> QED
    BY <1>1, <2>a, <2>5, <2>6 DEF NoBlock
<1>6. ~Initialized(blocks', Fresh) /\ ~Initialized(blocks', Fresh + 1)
  BY <1>5 DEF Initialized, NewBlock, NoExit
<1> HIDE DEF e, es
<1>7. work' = <<Body(Stmt.then), IfTask, EndIfTask, Rest>> \o Tail(work)
  BY <1>1 DEF IfTask, EndIfTask
<1> HIDE DEF new
<1> QED
  BY <1>0, <1>1, <1>2, <1>5, <1>6, <1>7 DEF IfBegun

LEMMA PlainBeginIf ==
    ASSUME TypesInv, Plain(fun), LoweringInv, BeginIf
    PROVE  LoweringInv'
<1>1. IfBegun
  BY BeginIfIs
<1>2. InBody /\ Stmt.is = "if" /\ stage = "lower" /\ work # <<>>
  BY <1>1 DEF IfBegun
<1>3. Stmt \in ToSet(fun.body) /\ Len(work) = 2
  <2>1. Len(work) = 2 \/ Len(work) >= 4
    BY <1>2, PlainBody
  <2>2. Len(work) >= 4 => Stmt.is \in {"do", "return"}
    BY <1>2, PlainBody
  <2>3. Len(work) = 2
    BY <1>2, <2>1, <2>2
  <2> QED
    BY <1>2, <2>3, PlainBody
<1>4. /\ IsSeq(added) /\ IsInjective(added) /\ cur \in ToSet(added)
      /\ EndBlock \notin ToSet(added) /\ EndBlock \in DOMAIN blocks
      /\ DOMAIN blocks = ToSet(added) \cup {EndBlock}
      /\ \A b \in DOMAIN blocks : ~Initialized(blocks, b) => b = cur
  BY <1>2, <1>3, LoweringIs, OutsideIs
<1>5. /\ added' = Append(added, Fresh + 1) /\ cur' = Fresh + 1 /\ next' = Fresh
      /\ DOMAIN blocks' = DOMAIN blocks \cup {Fresh, Fresh + 1}
      /\ Fresh \notin DOMAIN blocks /\ Fresh + 1 \notin DOMAIN blocks
      /\ Fresh # NoBlock /\ Fresh # Fresh + 1
      /\ \A b \in DOMAIN blocks : blocks'[b] = blocks[b]
      /\ ~Initialized(blocks', Fresh)
  BY <1>1 DEF IfBegun
<1>6. ToSet(added') = ToSet(added) \cup {Fresh + 1} /\ IsInjective(added')
  BY <1>4, <1>5, Appended
<1>7. Waits(IfTask) = {cur, Fresh + 1} /\ Waits(EndIfTask) = {}
      /\ IfTask.do = "fallthrough" /\ EndIfTask.do = "endif"
  BY DEF Waits, IfTask, EndIfTask
<1>8. loopVar' = NoLoop
  <2>1. IsSeq(work) /\ Task = work[1] /\ DOMAIN work = 1..Len(work)
    BY <1>2, TaskIs
  <2>2. work[1].do = "body" /\ work[2].do = "end"
    BY <1>2, <1>3, <2>1, BodyIs DEF LoweringInv, ShapeInv
  <2>3. \A i \in DOMAIN work : i = 1 \/ i = 2
    BY <1>3, <2>1
  <2>4. loopVar' = loopVar
    BY <1>1 DEF IfBegun
  <2> QED
    BY <2>2, <2>3, <2>4 DEF LoweringInv, LoopInv
<1>9. Opens(Stmt.then, IfTask, EndIfTask)
  <2>1. \A b \in DOMAIN blocks' : ~Initialized(blocks', b) => b \in {Fresh, cur, Fresh + 1}
    BY <1>4, <1>5 DEF Initialized
  <2>2. /\ DOMAIN blocks' = ToSet(added') \cup {EndBlock, next'}
        /\ EndBlock \notin ToSet(added') /\ cur' \in ToSet(added')
        /\ next' \notin ToSet(added') \cup {EndBlock, NoBlock}
        /\ Waits(IfTask) \cup Waits(EndIfTask) \subseteq ToSet(added')
    BY <1>4, <1>5, <1>6, <1>7
  <2>3. ~Initialized(blocks', next')
    BY <1>5
  <2>4. /\ work' = <<Body(Stmt.then), IfTask, EndIfTask, Rest>> \o Tail(work)
        /\ fun' = fun /\ IsCode(Stmt.then) /\ Stmt.then \in InnerLists(fun)
    BY <1>1 DEF IfBegun
  <2> QED
    BY <1>5, <1>6, <1>7, <1>8, <2>1, <2>2, <2>3, <2>4 DEF Opens
<1> QED
  BY <1>2, <1>3, <1>9, PlainOpens

(* What the beginning of a for changes.                                    *)
StepTask == [do |-> "step", for |-> Stmt.id]
EndForTask == [do |-> "endfor", for |-> Stmt.id, cmp |-> Fresh, body |-> Fresh + 2]
ForBegun ==
    /\ InBody /\ Stmt.is = "for" /\ stage = "lower" /\ work # <<>>
    /\ work' = <<Body(Stmt.body), StepTask, EndForTask, Rest>> \o Tail(work)
    /\ fun' = fun /\ added' = added \o <<Fresh, Fresh + 2>> /\ cur' = Fresh + 2
    /\ next' = Fresh + 1 /\ (loopVar = NoLoop => stage' = stage)
    /\ IsCode(Stmt.body) /\ Stmt.body \in InnerLists(fun)
    /\ DOMAIN blocks' = DOMAIN blocks \cup {Fresh, Fresh + 1, Fresh + 2}
    /\ Fresh \notin DOMAIN blocks /\ Fresh + 1 \notin DOMAIN blocks
    /\ Fresh + 2 \notin DOMAIN blocks
    /\ Fresh + 1 # NoBlock /\ Fresh # Fresh + 1 /\ Fresh + 1 # Fresh + 2
    /\ Fresh # Fresh + 2
    /\ \A b \in DOMAIN blocks : b # cur => blocks'[b].exit = blocks[b].exit
    /\ Initialized(blocks', cur) /\ ~Initialized(blocks', Fresh)
    /\ ~Initialized(blocks', Fresh + 1) /\ ~Initialized(blocks', Fresh + 2)

LEMMA BeginForIs ==
    ASSUME TypesInv, BeginFor
    PROVE  ForBegun
<1>0. InBody /\ Stmt.is = "for"
  BY DEF BeginFor, At
<1> DEFINE e == NewBlock(<<>>)
           bs == SetExit(AddExpr(blocks, cur, <<"init", Stmt.id>>), cur, Branch(Fresh))
           code == Body(Stmt.body)
           step == [do |-> "step", for |-> Stmt.id]
           end == [do |-> "endfor", for |-> Stmt.id, cmp |-> Fresh, body |-> Fresh + 2]
           new == <<code, step, end, Rest>>
           es == <<e, e, e>>
           more == <<Fresh, Fresh + 2>>
<1>1. /\ stage = "lower" /\ work # <<>> /\ fun' = fun /\ work' = new \o Tail(work)
      /\ blocks' = With(bs, es) /\ added' = added \o more
      /\ cur' = Fresh + 2 /\ next' = Fresh + 1
      /\ loopVar = NoLoop => stage' = stage
  <2>1. work' = (<<code, step, end>> \o <<Rest>>) \o Tail(work)
    BY <1>0, BodyIs DEF BeginFor, Then
  <2>2. <<code, step, end>> \o <<Rest>> = new
    <3> HIDE DEF code, step, end
    <3>1. AreTuples(code, step, end, Rest)
      BY Tuples
    <3> QED
      BY <3>1 DEF AreTuples
  <2>3. work' = new \o Tail(work)
    BY <2>1, <2>2
  <2>4. loopVar = NoLoop => stage' = stage
    BY DEF BeginFor
  <2> HIDE DEF new
  <2> QED
    BY <1>0, <2>3, <2>4, BodyIs DEF BeginFor
<1>2. /\ IsStatement(Stmt) /\ Sublists(Stmt) \subseteq InnerLists(fun)
      /\ IsCode(Stmt.body) /\ Stmt.body \in InnerLists(fun)
  <2>1. IsStatement(Stmt) /\ Sublists(Stmt) \subseteq InnerLists(fun)
    BY <1>0, BodyIs
  <2> QED
    BY <1>0, <2>1 DEF IsStatement, Sublists
<1>5. /\ DOMAIN blocks' = DOMAIN blocks \cup {Fresh, Fresh + 1, Fresh + 2}
      /\ Fresh \notin DOMAIN blocks /\ Fresh + 1 \notin DOMAIN blocks
      /\ Fresh + 2 \notin DOMAIN blocks
      /\ Fresh + 1 # NoBlock /\ Fresh # Fresh + 1 /\ Fresh + 1 # Fresh + 2
      /\ Fresh # Fresh + 2
      /\ \A b \in DOMAIN blocks : blocks'[b] = bs[b]
      /\ \A b \in DOMAIN blocks : b # cur => bs[b].exit = blocks[b].exit
      /\ bs[cur].exit = Branch(Fresh)
      /\ blocks'[Fresh] = e /\ blocks'[Fresh + 1] = e /\ blocks'[Fresh + 2] = e
  <2>1. IsSeq(es) /\ Len(es) = 3
    BY Tuples
  <2>2. \A j \in 1..3 : es[j] = e
    <3> HIDE DEF e
    <3> QED
      OBVIOUS
  <2>3. \A j \in 1..Len(es) : es[j] = NewBlock(<<>>)
    BY <2>1, <2>2
  <2> HIDE DEF es
  <2>4. /\ AreBlocks(bs) /\ DOMAIN bs = DOMAIN blocks /\ TargetsTo(bs, Fresh + 3)
        /\ \A b \in DOMAIN blocks : b # cur => bs[b].exit = blocks[b].exit
        /\ bs[cur].exit = Branch(Fresh)
    BY BeforeLoop
  <2> HIDE DEF bs
  <2>a. TargetsTo(bs, Fresh + Len(es))
    BY <2>1, <2>4
  <2> DEFINE cs == With(bs, es)
  <2>b. AreMadeEmpty(bs, es, cs)
    BY <2>1, <2>3, <2>4, <2>a, EmptyOnesMade
  <2> HIDE DEF cs
  <2>5. /\ DOMAIN blocks = 0..(Fresh - 1) /\ Fresh \in Nat
        /\ DOMAIN cs = 0..(Fresh + 3 - 1)
        /\ \A b \in DOMAIN blocks : cs[b] = bs[b]
        /\ \A j \in 1..Len(es) : cs[Fresh + j - 1] = NewBlock(<<>>)
    BY <2>1, <2>b DEF AreMadeEmpty
  <2>6. /\ 0..(Fresh + 3 - 1) = 0..(Fresh - 1) \cup {Fresh, Fresh + 1, Fresh + 2}
        /\ Fresh \notin 0..(Fresh - 1) /\ Fresh + 1 \notin 0..(Fresh - 1)
        /\ Fresh + 2 \notin 0..(Fresh - 1)
        /\ Fresh + 1 - 1 = Fresh /\ Fresh + 2 - 1 = Fresh + 1
        /\ Fresh + 3 - 1 = Fresh + 2 /\ 1..Len(es) = 1..3
    BY <2>1, <2>5
  <2>7. /\ cs[Fresh] = NewBlock(<<>>) /\ cs[Fresh + 1] = NewBlock(<<>>)
        /\ cs[Fresh + 2] = NewBlock(<<>>)
    <3>1. /\ cs[Fresh + 1 - 1] = NewBlock(<<>>) /\ cs[Fresh + 2 - 1] = NewBlock(<<>>)
          /\ cs[Fresh + 3 - 1] = NewBlock(<<>>)
      BY <2>5, <2>6
    <3> QED
      BY <2>6, <3>1
  <2> QED
    BY <1>1, <2>4, <2>5, <2>6, <2>7 DEF NoBlock, cs
<1>6. /\ ~Initialized(blocks', Fresh) /\ ~Initialized(blocks', Fresh + 1)
      /\ ~Initialized(blocks', Fresh + 2)
  BY <1>5 DEF Initialized, NewBlock, NoExit
<1>7. Initialized(blocks', cur)
      /\ \A b \in DOMAIN blocks : b # cur => blocks'[b].exit = blocks[b].exit
  <2>1. cur \in DOMAIN blocks
    BY TypesAre
  <2> HIDE DEF bs
  <2> QED
    BY <1>5, <2>1 DEF Initialized, Branch
<1> HIDE DEF e, es, bs
<1>8. /\ work' = <<Body(Stmt.body), StepTask, EndForTask, Rest>> \o Tail(work)
      /\ added' = added \o <<Fresh, Fresh + 2>>
  BY <1>1 DEF StepTask, EndForTask
<1> HIDE DEF new, more
<1> QED
  BY <1>0, <1>1, <1>2, <1>5, <1>6, <1>7, <1>8 DEF ForBegun

LEMMA PlainBeginFor ==
    ASSUME TypesInv, Plain(fun), LoweringInv, BeginFor
    PROVE  LoweringInv' /\ stage' = "lower"
<1> DEFINE more == <<Fresh, Fresh + 2>>
<1>1. ForBegun
  BY BeginForIs
<1>2. InBody /\ Stmt.is = "for" /\ stage = "lower" /\ work # <<>>
  BY <1>1 DEF ForBegun
<1>3. Stmt \in ToSet(fun.body) /\ Len(work) = 2
  <2>1. Len(work) = 2 \/ Len(work) >= 4
    BY <1>2, PlainBody
  <2>2. Len(work) >= 4 => Stmt.is \in {"do", "return"}
    BY <1>2, PlainBody
  <2>3. Len(work) = 2
    BY <1>2, <2>1, <2>2
  <2> QED
    BY <1>2, <2>3, PlainBody
<1>4. /\ IsSeq(added) /\ IsInjective(added) /\ cur \in ToSet(added)
      /\ EndBlock \notin ToSet(added) /\ EndBlock \in DOMAIN blocks
      /\ DOMAIN blocks = ToSet(added) \cup {EndBlock}
      /\ \A b \in DOMAIN blocks : ~Initialized(blocks, b) => b = cur
  BY <1>2, <1>3, LoweringIs, OutsideIs
<1>5. /\ added' = added \o more /\ cur' = Fresh + 2 /\ next' = Fresh + 1
      /\ DOMAIN blocks' = DOMAIN blocks \cup {Fresh, Fresh + 1, Fresh + 2}
      /\ Fresh \notin DOMAIN blocks /\ Fresh + 1 \notin DOMAIN blocks
      /\ Fresh + 2 \notin DOMAIN blocks
      /\ Fresh + 1 # NoBlock /\ Fresh # Fresh + 1 /\ Fresh + 1 # Fresh + 2
      /\ Fresh # Fresh + 2
      /\ \A b \in DOMAIN blocks : b # cur => blocks'[b].exit = blocks[b].exit
      /\ Initialized(blocks', cur) /\ ~Initialized(blocks', Fresh + 1)
  BY <1>1 DEF ForBegun
<1>6. /\ ToSet(added') = ToSet(added) \cup {Fresh, Fresh + 2} /\ IsInjective(added')
  <2>1. IsSeq(more) /\ ToSet(more) = {Fresh, Fresh + 2} /\ IsInjective(more)
    <3>1. IsSeq(more)
      BY Tuples
    <3>2. DOMAIN more = {1, 2} /\ more[1] = Fresh /\ more[2] = Fresh + 2
      OBVIOUS
    <3> HIDE DEF more
    <3>3. IsInjective(more)
      BY <1>5, <3>2 DEF IsInjective
    <3> QED
      BY <3>1, <3>2, <3>3 DEF ToSet
  <2> HIDE DEF more
  <2>2. ToSet(added) \cap ToSet(more) = {}
    BY <1>4, <1>5, <2>1
  <2>3. /\ ToSet(added \o more) = ToSet(added) \cup ToSet(more)
        /\ IsInjective(added \o more)
    BY <1>4, <2>1, <2>2, Concatenated
  <2> QED
    BY <1>5, <2>1, <2>3
<1>7. Waits(StepTask) = {} /\ Waits(EndForTask) = {Fresh, Fresh + 2}
      /\ StepTask.do = "step" /\ EndForTask.do = "endfor"
  BY DEF Waits, StepTask, EndForTask
<1>8. loopVar = NoLoop
  <2>1. IsSeq(work) /\ Task = work[1] /\ DOMAIN work = 1..Len(work)
    BY <1>2, TaskIs
  <2>2. work[1].do = "body" /\ work[2].do = "end"
    BY <1>2, <1>3, <2>1, BodyIs DEF LoweringInv, ShapeInv
  <2>3. \A i \in DOMAIN work : i = 1 \/ i = 2
    BY <1>3, <2>1
  <2> QED
    BY <2>2, <2>3 DEF LoweringInv, LoopInv
<1> HIDE DEF more
<1>9. Opens(Stmt.body, StepTask, EndForTask)
  <2>1. \A b \in DOMAIN blocks' : ~Initialized(blocks', b) =>
            b \in {Fresh, Fresh + 1, Fresh + 2}
    <3> SUFFICES ASSUME NEW b \in DOMAIN blocks, ~Initialized(blocks', b) PROVE FALSE
      BY <1>5
    <3>1. CASE b = cur
      BY <1>5, <3>1
    <3>2. CASE b # cur
      BY <1>4, <1>5, <3>2 DEF Initialized
    <3> QED
      BY <3>1, <3>2
  <2>2. /\ DOMAIN blocks' = ToSet(added') \cup {EndBlock, next'}
        /\ EndBlock \notin ToSet(added') /\ cur' \in ToSet(added')
        /\ next' \notin ToSet(added') \cup {EndBlock, NoBlock}
        /\ Waits(StepTask) \cup Waits(EndForTask) \subseteq ToSet(added')
    BY <1>4, <1>5, <1>6, <1>7
  <2>3. ~Initialized(blocks', next')
    BY <1>5
  <2>4. /\ work' = <<Body(Stmt.body), StepTask, EndForTask, Rest>> \o Tail(work)
        /\ fun' = fun /\ IsCode(Stmt.body) /\ Stmt.body \in InnerLists(fun)
    BY <1>1 DEF ForBegun
  <2> QED
    BY <1>6, <1>7, <2>1, <2>2, <2>3, <2>4 DEF Opens
<1>10. stage' = "lower"
  BY <1>1, <1>2, <1>8 DEF ForBegun
<1> QED
  BY <1>2, <1>3, <1>9, <1>10, PlainOpens

(* The end of an if or a for of the body: the next block is the one that   *)
(* has no exit.                                                            *)
Closes ==
    /\ Task.do \in {"endif", "endfor"} /\ work' = Tail(work) /\ fun' = fun
    /\ next' = next /\ loopVar' = loopVar /\ cur' = next
    /\ added' = Append(added, next) /\ DOMAIN blocks' = DOMAIN blocks
    /\ \A b \in DOMAIN blocks : Initialized(blocks, b) => Initialized(blocks', b)
    /\ \A b \in Waits(Task) : Initialized(blocks', b)

LEMMA PlainCloses ==
    ASSUME TypesInv, Plain(fun), LoweringInv, stage = "lower", work # <<>>, Closes
    PROVE  LoweringInv'
<1>1. IsSeq(work) /\ Task = work[1]
  BY TaskIs
<1>2. Len(work) = 3
  <2>1. Task.do \in {"endif", "endfor"}
    BY DEF Closes
  <2> QED
    BY <1>1, <2>1, WhereTasksAre DEF LoweringInv
<1>3. /\ Len(work') = 2 /\ DOMAIN work' = 1..2
      /\ work'[1] = work[2] /\ work'[2] = work[3] /\ DOMAIN work = 1..3
  <2> DEFINE w == Tail(work)
  <2>0. /\ Len(w) = Len(work) - 1 /\ DOMAIN w = 1..(Len(work) - 1)
        /\ \A i \in 1..(Len(work) - 1) : w[i] = work[i + 1]
    BY <1>1, Tailed
  <2>w. work' = w
    BY DEF Closes
  <2> HIDE DEF w
  <2>1. Len(w) = 2 /\ DOMAIN w = 1..2 /\ \A i \in 1..2 : w[i] = work[i + 1]
    BY <1>2, <2>0
  <2>2. w[1] = work[2] /\ w[2] = work[3]
    BY <2>1
  <2>3. DOMAIN work = 1..3
    BY <1>1, <1>2, SeqIs
  <2> QED
    BY <2>1, <2>2, <2>3, <2>w
<1>4. /\ work[3].do = "end" /\ work[2].do = "body" /\ IsRest(work[2].list, fun.body)
  <2>1. /\ work[Len(work)].do = "end" /\ work[Len(work) - 1].do = "body"
        /\ IsRest(work[Len(work) - 1].list, fun.body)
    BY <1>2 DEF LoweringInv, ShapeInv
  <2> QED
    BY <1>2, <2>1
<1>5. Inside /\ ~Inside'
  BY <1>2, <1>3 DEF Inside
<1>6. /\ IsInjective(added) /\ EndBlock \notin ToSet(added)
      /\ DOMAIN blocks = ToSet(added) \cup {EndBlock} \cup {next}
      /\ next \notin ToSet(added) \cup {EndBlock, NoBlock}
      /\ IsSeq(added)
  BY <1>5, TypesAre DEF LoweringInv, AddedInv
<1>c. /\ fun' = fun /\ next' = next /\ loopVar' = loopVar /\ cur' = next
      /\ added' = Append(added, next) /\ DOMAIN blocks' = DOMAIN blocks
      /\ \A b \in DOMAIN blocks : Initialized(blocks, b) => Initialized(blocks', b)
      /\ \A b \in Waits(Task) : Initialized(blocks', b)
  BY DEF Closes
<1>7. IsInjective(added') /\ ToSet(added') = ToSet(added) \cup {next}
  BY <1>6, <1>c, Appended
<1>8. ShapeInv'
  <2>1. /\ Len(work') >= 1 /\ work'[Len(work')].do = "end"
        /\ work'[Len(work') - 1].do = "body"
        /\ IsRest(work'[Len(work') - 1].list, fun'.body)
    BY <1>3, <1>4, <1>c
  <2>2. \A i \in 1..(Len(work') - 1) : work'[i].do # "end"
    BY <1>3, <1>4
  <2>3. \A i \in 1..(Len(work') - 2) : FALSE
    BY <1>3
  <2>4. \A i \in 1..(Len(work') - 3) : FALSE
    BY <1>3
  <2> QED
    BY <1>5, <2>1, <2>2, <2>3, <2>4 DEF ShapeInv
<1>9. AddedInv'
  <2>1. EndBlock \notin ToSet(added') /\ DOMAIN blocks' = ToSet(added') \cup {EndBlock}
        /\ next' \in ToSet(added') \cup {NoBlock} /\ cur' \in ToSet(added')
    BY <1>6, <1>7, <1>c
  <2> QED
    BY <1>5, <1>7, <2>1 DEF AddedInv, Initialized
<1>10. Waits(work[2]) = {} /\ Waits(work[3]) = {}
  BY <1>4 DEF Waits
<1>11. WaitsInv'
  <2>1. \A i \in DOMAIN work' : i = 1 \/ i = 2
    BY <1>3
  <2>2. \A i \in DOMAIN work' : Waits(work'[i]) \subseteq ToSet(added') \cup {NoBlock}
    BY <1>3, <1>10, <2>1
  <2> QED
    BY <2>2 DEF WaitsInv, Waits
<1>12. UnsetInv'
  <2>1. ASSUME NEW b \in DOMAIN blocks', ~Initialized(blocks', b), b # next
        PROVE  FALSE
    <3>1. b \in DOMAIN blocks /\ ~Initialized(blocks, b)
      BY <1>c, <2>1
    <3>2. PICK i \in DOMAIN work : b \in Waits(work[i])
      BY <1>5, <2>1, <3>1 DEF LoweringInv, UnsetInv
    <3>3. i = 1 \/ i = 2 \/ i = 3
      BY <1>3, <3>2
    <3>4. b \in Waits(Task)
      BY <1>1, <1>10, <3>2, <3>3
    <3> QED
      BY <1>c, <2>1, <3>4
  <2> QED
    BY <1>5, <1>c, <2>1 DEF UnsetInv, Initialized
<1>13. LoopInv'
  <2>1. \A i \in DOMAIN work : i = 1 \/ i = 2 \/ i = 3
    BY <1>3
  <2>2. \A i \in DOMAIN work : work[i].do # "step"
    <3>1. Task.do \in {"endif", "endfor"}
      BY DEF Closes
    <3> QED
      BY <1>1, <1>4, <2>1, <3>1
  <2>3. loopVar = NoLoop
    BY <2>2 DEF LoweringInv, LoopInv
  <2> QED
    BY <1>c, <2>3 DEF LoopInv
<1> QED
  BY <1>8, <1>9, <1>11, <1>12, <1>13 DEF LoweringInv

LEMMA PlainEndIf ==
    ASSUME TypesInv, Plain(fun), LoweringInv, EndIf
    PROVE  LoweringInv'
<1>1. /\ stage = "lower" /\ work # <<>> /\ fun' = fun /\ work' = Tail(work)
      /\ blocks' = blocks /\ added' = Append(added, next) /\ cur' = next
      /\ next' = next /\ loopVar' = loopVar /\ Task.do = "endif"
  BY DEF EndIf, Doing
<1>2. Waits(Task) = {}
  BY <1>1 DEF Waits
<1>3. \A b \in DOMAIN blocks : Initialized(blocks, b) => Initialized(blocks', b)
  BY <1>1
<1> QED
  BY <1>1, <1>2, <1>3, PlainCloses DEF Closes

(* What the end of a loop does to the exits.                               *)
LEMMA LoopEnds ==
    ASSUME NEW bs, AreBlocks(bs), NEW f, f.body \in DOMAIN bs, f.cmp \in DOMAIN bs
    PROVE  /\ DOMAIN EndOfLoop(bs, f) = DOMAIN bs
           /\ Initialized(EndOfLoop(bs, f), f.body)
           /\ Initialized(EndOfLoop(bs, f), f.cmp)
           /\ \A b \in DOMAIN bs : b \notin {f.body, f.cmp} =>
                EndOfLoop(bs, f)[b].exit = bs[b].exit
<1> DEFINE back == Branch(f.cmp)
           exit == CondBranch(<<"for", f.for>>, next, f.body)
           one == SetExit(bs, f.body, back)
           two == SetExit(one, f.cmp, exit)
<1>1. back.is # "invalid" /\ exit.is # "invalid"
  BY DEF Branch, CondBranch
<1>2. EndOfLoop(bs, f) = two
  BY DEF EndOfLoop
<1>3. HasExit(bs, f.body, back, one)
  BY AnExitSet
<1> HIDE DEF back, exit, one
<1>4. /\ AreBlocks(one) /\ DOMAIN one = DOMAIN bs /\ one[f.body].exit = back
      /\ \A b \in DOMAIN bs : b # f.body => one[b].exit = bs[b].exit
  BY <1>3 DEF HasExit
<1>5. HasExit(one, f.cmp, exit, two)
  BY <1>4, AnExitSet
<1> HIDE DEF two
<1>6. /\ DOMAIN two = DOMAIN bs /\ two[f.cmp].exit = exit
      /\ \A b \in DOMAIN bs : b # f.cmp => two[b].exit = one[b].exit
  BY <1>4, <1>5 DEF HasExit
<1> QED
  BY <1>1, <1>2, <1>4, <1>6 DEF Initialized

LEMMA PlainEndFor ==
    ASSUME TypesInv, Plain(fun), LoweringInv, EndFor
    PROVE  LoweringInv'
<1>1. /\ stage = "lower" /\ work # <<>> /\ fun' = fun /\ work' = Tail(work)
      /\ blocks' = EndOfLoop(blocks, Task) /\ added' = Append(added, next)
      /\ cur' = next /\ next' = next /\ loopVar' = loopVar /\ Task.do = "endfor"
  BY DEF EndFor, Doing
<1>2. Waits(Task) = {Task.cmp, Task.body}
  BY <1>1 DEF Waits
<1>3. Task.cmp \in DOMAIN blocks /\ Task.body \in DOMAIN blocks /\ AreBlocks(blocks)
  BY <1>1, TaskIs, TypesAre DEF IsTask
<1>4. /\ DOMAIN blocks' = DOMAIN blocks
      /\ Initialized(blocks', Task.cmp) /\ Initialized(blocks', Task.body)
      /\ \A b \in DOMAIN blocks : b \notin {Task.body, Task.cmp} =>
            blocks'[b].exit = blocks[b].exit
  BY <1>1, <1>3, LoopEnds
<1>5. \A b \in DOMAIN blocks : Initialized(blocks, b) => Initialized(blocks', b)
  BY <1>4 DEF Initialized
<1>6. \A b \in Waits(Task) : Initialized(blocks', b)
  BY <1>2, <1>4
<1> QED
  BY <1>1, <1>4, <1>5, <1>6, PlainCloses DEF Closes

(* The body of the function is done: only its end is left.                 *)
LEMMA LeftBody ==
    ASSUME TypesInv, Plain(fun), LoweringInv, LeaveBody, Len(work) = 2
    PROVE  LoweringInv'
<1>1. /\ stage = "lower" /\ work # <<>> /\ fun' = fun /\ work' = Tail(work)
      /\ blocks' = blocks /\ added' = added /\ cur' = cur
      /\ next' = next /\ loopVar' = loopVar /\ Task.do = "body" /\ Task.list = <<>>
  BY DEF LeaveBody, Doing
<1>2. IsSeq(work) /\ Task = work[1] /\ DOMAIN work = 1..Len(work)
  BY <1>1, TaskIs
<1>3. work[2].do = "end" /\ work[1].list = <<>> /\ work[1].do = "body"
  BY <1>1, <1>2 DEF LoweringInv, ShapeInv
<1>4. /\ Len(work') = 1 /\ DOMAIN work' = 1..1 /\ work'[1] = work[2]
  <2> DEFINE w == Tail(work)
  <2>1. /\ Len(w) = Len(work) - 1 /\ DOMAIN w = 1..(Len(work) - 1)
        /\ \A i \in 1..(Len(work) - 1) : w[i] = work[i + 1]
    BY <1>1, <1>2, Tailed
  <2> HIDE DEF w
  <2>2. Len(w) = 1 /\ DOMAIN w = 1..1 /\ \A i \in 1..1 : w[i] = work[i + 1]
    BY <2>1
  <2>3. w[1] = work[2]
    BY <2>2
  <2> QED
    BY <1>1, <2>2, <2>3 DEF w
<1>5. ~Inside /\ ~Inside' /\ ~GoesOn
  <2>1. ToSet(<<>>) = {}
    BY DEF ToSet
  <2> QED
    BY <1>3, <1>4, <2>1 DEF Inside, GoesOn
<1>6. ShapeInv'
  <2>1. work'[Len(work')].do = "end" /\ Len(work') >= 1 /\ ~(Len(work') >= 2)
    BY <1>3, <1>4
  <2>2. \A i \in 1..(Len(work') - 1) : FALSE
    BY <1>4
  <2>3. \A i \in 1..(Len(work') - 2) : FALSE
    BY <1>4
  <2>4. \A i \in 1..(Len(work') - 3) : FALSE
    BY <1>4
  <2> QED
    BY <1>5, <2>1, <2>2, <2>3, <2>4 DEF ShapeInv
<1>7. /\ DOMAIN blocks = ToSet(added) \cup {EndBlock} /\ cur \in ToSet(added)
      /\ IsInjective(added) /\ EndBlock \notin ToSet(added)
      /\ next \in ToSet(added) \cup {NoBlock}
      /\ \A b \in DOMAIN blocks : ~Initialized(blocks, b) =>
            b = cur /\ b \in {FirstBlock, next}
  BY <1>1, <1>5, LoweringIs, OutsideIs
<1>8. AddedInv' /\ UnsetInv'
  BY <1>1, <1>5, <1>7 DEF AddedInv, UnsetInv, Initialized
<1>9. WaitsInv'
  <2>1. Waits(work'[1]) = {}
    BY <1>3, <1>4 DEF Waits
  <2>2. \A i \in DOMAIN work' : Waits(work'[i]) \subseteq ToSet(added') \cup {NoBlock}
    BY <1>4, <2>1
  <2> QED
    BY <2>2 DEF WaitsInv, Waits
<1>10. LoopInv'
  <2>1. \A i \in DOMAIN work : i = 1 \/ i = 2
    BY <1>2
  <2>2. loopVar = NoLoop
    BY <1>3, <2>1 DEF LoweringInv, LoopInv
  <2> QED
    BY <1>1, <2>2 DEF LoopInv
<1> QED
  BY <1>6, <1>8, <1>9, <1>10 DEF LoweringInv

LEMMA PlainLeaveBody ==
    ASSUME TypesInv, Plain(fun), LoweringInv, LeaveBody
    PROVE  LoweringInv'
<1>1. /\ stage = "lower" /\ work # <<>> /\ fun' = fun /\ work' = Tail(work)
      /\ blocks' = blocks /\ added' = added /\ cur' = cur
      /\ next' = next /\ loopVar' = loopVar /\ Task.do = "body"
  BY DEF LeaveBody, Doing
<1>2. IsSeq(work) /\ Task = work[1]
  BY <1>1, TaskIs
<1>3. Len(work) = 2 \/ Len(work) >= 4
  BY <1>1, <1>2, WhereTasksAre DEF LoweringInv
<1>4. CASE Len(work) >= 4
  <2>1. ~Initialized(blocks, next)
    BY <1>1, <1>4, LoweringIs
  <2>2. Waits(Task) = {}
    BY <1>1 DEF Waits
  <2> QED
    BY <1>1, <1>4, <2>1, <2>2, LeftInside
<1> QED
  BY <1>3, <1>4, LeftBody

(* The end of the function: no block is left without an exit.              *)
LEMMA PlainEndFunction ==
    ASSUME TypesInv, Plain(fun), LoweringInv, EndFunction
    PROVE  /\ IsInjective(added') /\ stage' = "backend"
           /\ \A b \in ToSet(added') : Initialized(blocks', b)
<1> DEFINE one == IF next = NoBlock THEN blocks
                  ELSE IfUnset(blocks, next, Branch(EndBlock))
           two == IfUnset(one, FirstBlock, Branch(EndBlock))
<1>1. /\ stage = "lower" /\ work # <<>> /\ blocks' = two
      /\ added' = Append(added, EndBlock) /\ stage' = "backend" /\ Task.do = "end"
  BY DEF EndFunction, Finished, Doing
<1>2. IsSeq(work) /\ Task = work[1]
  BY <1>1, TaskIs
<1>3. Len(work) = 1
  BY <1>1, <1>2, WhereTasksAre DEF LoweringInv
<1>4. /\ AreBlocks(blocks) /\ FirstBlock \in DOMAIN blocks /\ EndBlock \in DOMAIN blocks
      /\ IsSeq(added) /\ IsInjective(added) /\ EndBlock \notin ToSet(added)
      /\ ToSet(added) \subseteq DOMAIN blocks
      /\ next \in ToSet(added) \cup {NoBlock}
      /\ \A b \in DOMAIN blocks : ~Initialized(blocks, b) => b \in {FirstBlock, next}
  <2>1. /\ AreBlocks(blocks) /\ FirstBlock \in DOMAIN blocks
        /\ EndBlock \in DOMAIN blocks /\ ToSet(added) \subseteq DOMAIN blocks
    BY TypesAre
  <2>2. IsSeq(added) /\ IsInjective(added) /\ EndBlock \notin ToSet(added)
    BY <1>1, LoweringIs
  <2>3. Len(work) <= 2
    BY <1>3
  <2>4. /\ next \in ToSet(added) \cup {NoBlock}
        /\ \A b \in DOMAIN blocks : ~Initialized(blocks, b) =>
                b = cur /\ (b \in {FirstBlock, next} \/ GoesOn)
    BY <1>1, <2>3, OutsideIs
  <2>5. ~GoesOn
    BY <1>3 DEF GoesOn
  <2> QED
    BY <2>1, <2>2, <2>4, <2>5
<1>5. /\ AreBlocks(one) /\ DOMAIN one = DOMAIN blocks
      /\ \A b \in DOMAIN blocks : ~Initialized(one, b) => b = FirstBlock
  <2>1. CASE next = NoBlock
    <3>1. NoBlock \notin DOMAIN blocks
      BY TypesAre
    <3> QED
      BY <1>4, <2>1, <3>1
  <2>2. CASE next # NoBlock
    <3>1. next \in DOMAIN blocks
      BY <1>4, <2>2
    <3> DEFINE cs == IfUnset(blocks, next, Branch(EndBlock))
    <3>2. Settled(blocks, next, cs)
      BY <1>4, <3>1, AnExitSettled
    <3> HIDE DEF cs
    <3>3. one = cs
      BY <2>2 DEF cs
    <3> QED
      BY <1>4, <3>2, <3>3 DEF Settled, Initialized
  <2> QED
    BY <2>1, <2>2
<1> HIDE DEF one
<1>6. Settled(one, FirstBlock, two)
  BY <1>4, <1>5, AnExitSettled
<1> HIDE DEF two
<1>7. \A b \in DOMAIN blocks : Initialized(two, b)
  BY <1>5, <1>6 DEF Settled, Initialized
<1>8. IsInjective(added') /\ ToSet(added') = ToSet(added) \cup {EndBlock}
  BY <1>1, <1>4, Appended
<1> QED
  BY <1>1, <1>4, <1>7, <1>8

LEMMA PlainGenerate ==
    ASSUME TypesInv, IsInjective(added), \A b \in ToSet(added) : Connects(b), Generate
    PROVE  stage' = "run"
<1>1. \A i \in 1..Len(added) : Connects(added[i])
  BY TypesAre, SeqIs
<1>2. SelectInSeq(added, LAMBDA b : ~Connects(b)) = 0
  BY <1>1 DEF SelectInSeq
<1>3. Verdict = "run"
  BY <1>2 DEF Verdict
<1> QED
  BY <1>3 DEF Generate

(* The first state.                                                        *)
LEMMA InitIs ==
    ASSUME BInit
    PROVE  /\ DOMAIN blocks = {EndBlock, FirstBlock} /\ Initialized(blocks, EndBlock)
           /\ ~Initialized(blocks, FirstBlock)
           /\ IsInjective(added) /\ ToSet(added) = {FirstBlock}
           /\ cur = FirstBlock /\ next = NoBlock /\ loopVar = NoLoop /\ stage = "lower"
           /\ Len(work) = 2 /\ DOMAIN work = 1..2
           /\ work[1] = Body(fun.body) /\ work[2] = [do |-> "end"]
           /\ fun \in Functions
<1> DEFINE s == <<FirstBlock>>
           bs == [b \in {EndBlock, FirstBlock} |->
                    IF b = EndBlock THEN [code |-> <<>>, exit |-> Return]
                                    ELSE NewBlock(<<>>)]
           body == [do |-> "body", list |-> fun.body]
           end == [do |-> "end"]
<1>1. /\ fun \in Functions /\ blocks = bs /\ added = s /\ cur = FirstBlock
      /\ next = NoBlock /\ loopVar = NoLoop /\ stage = "lower"
      /\ work = <<body, end>>
  BY DEF BInit
<1>2. /\ DOMAIN bs = {EndBlock, FirstBlock} /\ Initialized(bs, EndBlock)
      /\ ~Initialized(bs, FirstBlock)
  BY DEF EndBlock, FirstBlock, NewBlock, NoExit, Return, Initialized
<1> HIDE DEF bs
<1>3. IsInjective(s) /\ ToSet(s) = {FirstBlock}
  <2>1. DOMAIN s = {1} /\ s[1] = FirstBlock
    OBVIOUS
  <2> HIDE DEF s
  <2> QED
    BY <2>1 DEF ToSet, IsInjective
<1>4. body = Body(fun.body)
  BY DEF Body
<1> HIDE DEF body, end
<1>5. Len(work) = 2 /\ DOMAIN work = 1..2 /\ work[1] = body /\ work[2] = end
  BY <1>1
<1> QED
  BY <1>1, <1>2, <1>3, <1>4, <1>5 DEF end

LEMMA PlainInit == BInit => PlainInv
<1> SUFFICES ASSUME BInit, Plain(fun) PROVE LoweringInv /\ stage = "lower"
  BY InitIs DEF PlainInv, Failures
<1>1. /\ DOMAIN blocks = {EndBlock, FirstBlock} /\ Initialized(blocks, EndBlock)
      /\ IsInjective(added) /\ ToSet(added) = {FirstBlock}
      /\ cur = FirstBlock /\ next = NoBlock /\ loopVar = NoLoop /\ stage = "lower"
      /\ Len(work) = 2 /\ DOMAIN work = 1..2
      /\ work[1] = Body(fun.body) /\ work[2] = [do |-> "end"]
      /\ fun \in Functions
  BY InitIs
<1>2. ~Inside
  BY <1>1 DEF Inside
<1>3. /\ work[1].do = "body" /\ work[1].list = fun.body /\ work[2].do = "end"
  BY <1>1 DEF Body
<1>4. IsRest(fun.body, fun.body)
  BY <1>1, FunctionIs, RestOfAll DEF IsCode
<1>5. ShapeInv
  <2>1. /\ Len(work) >= 1 /\ work[Len(work)].do = "end"
        /\ work[Len(work) - 1].do = "body"
        /\ IsRest(work[Len(work) - 1].list, fun.body)
    BY <1>1, <1>3, <1>4
  <2>2. \A i \in 1..(Len(work) - 1) : work[i].do # "end"
    BY <1>1, <1>3
  <2>3. \A i \in 1..(Len(work) - 2) : FALSE
    BY <1>1
  <2>4. \A i \in 1..(Len(work) - 3) : FALSE
    BY <1>1
  <2> QED
    BY <1>2, <2>1, <2>2, <2>3, <2>4 DEF ShapeInv
<1>6. AddedInv /\ UnsetInv
  BY <1>1, <1>2 DEF AddedInv, UnsetInv, EndBlock, FirstBlock
<1>7. WaitsInv
  <2>1. Waits(work[1]) = {} /\ Waits(work[2]) = {}
    BY <1>3 DEF Waits
  <2>2. \A i \in DOMAIN work : i = 1 \/ i = 2
    BY <1>1
  <2> QED
    BY <2>1, <2>2 DEF WaitsInv
<1>8. LoopInv
  BY <1>1 DEF LoopInv
<1> QED
  BY <1>1, <1>5, <1>6, <1>7, <1>8 DEF LoweringInv

LEMMA AllAdded ==
    ASSUME TypesInv, LoweringInv, EndFunction
    PROVE  DOMAIN blocks' \subseteq ToSet(added')
<1>1. /\ stage = "lower" /\ work # <<>> /\ added' = Append(added, EndBlock)
      /\ Task.do = "end" /\ blocks' = Finished(blocks)
  BY DEF EndFunction, Doing
<1>2. IsSeq(work) /\ Task = work[1] /\ IsSeq(added)
  BY <1>1, TaskIs, TypesAre
<1>3. Len(work) = 1
  BY <1>1, <1>2, WhereTasksAre DEF LoweringInv
<1>4. Len(work) <= 2
  BY <1>3
<1>5. DOMAIN blocks = ToSet(added) \cup {EndBlock}
  BY <1>1, <1>4, OutsideIs
<1>6. ToSet(added') = ToSet(added) \cup {EndBlock}
  BY <1>1, <1>2, Appended
<1>7. DOMAIN blocks' = DOMAIN blocks
  BY <1>1 DEF Finished, IfUnset, SetExit
<1> QED
  BY <1>5, <1>6, <1>7

LEMMA PlainStep == TypesInv /\ PlainInv /\ [BNext]_bvars => PlainInv'
<1> SUFFICES ASSUME TypesInv, PlainInv, [BNext]_bvars PROVE PlainInv'
  OBVIOUS
<1>1. TypesInv'
  BY TypesStep
<1>2. ASSUME Plain(fun), Handlers PROVE PlainInv'
  <2>1. stage = "lower" /\ LoweringInv
    BY <1>2 DEF PlainInv, Handlers, LeaveBody, LowerExpr, LowerReturn, BeginIf,
       NoFallthrough, BeginElif, BeginElse, JoinIf, EndIf, BeginFor, StepFor,
       EndFor, LowerMatch, EndFunction, At, InBody, Doing
  <2>2. CASE EndFunction
    <3>1. /\ IsInjective(added') /\ stage' = "backend"
          /\ \A b \in ToSet(added') : Initialized(blocks', b)
      BY <1>2, <2>1, <2>2, PlainEndFunction
    <3>2. /\ \A b \in DOMAIN blocks' : Targets(blocks'[b].exit) \subseteq DOMAIN blocks'
          /\ ToSet(added') \subseteq DOMAIN blocks'
      BY <1>1 DEF TypesInv, BlocksTypeOK
    <3>3. DOMAIN blocks' \subseteq ToSet(added')
      BY <1>2, <2>1, <2>2, AllAdded
    <3>4. \A b \in ToSet(added') : Connects(b)'
      BY <3>1, <3>2, <3>3 DEF Connects, Initialized
    <3> QED
      BY <3>1, <3>4 DEF PlainInv, Failures
  <2>3. CASE BeginFor
    BY <1>2, <2>1, <2>3, PlainBeginFor DEF PlainInv, Failures
  <2>4. CASE ~EndFunction /\ ~BeginFor
    <3>1. stage' = stage
      BY <1>2, <2>4 DEF Handlers, LeaveBody, LowerExpr, LowerReturn, BeginIf,
         NoFallthrough, BeginElif, BeginElse, JoinIf, EndIf, StepFor, EndFor,
         LowerMatch
    <3>2. LoweringInv'
      BY <1>2, <2>1, <2>4, PlainLeaveBody, PlainLowerExpr, PlainLowerReturn,
         PlainBeginIf, PlainNoFallthrough, PlainBeginElif, PlainBeginElse,
         PlainJoinIf, PlainEndIf, PlainStepFor, PlainEndFor, PlainLowerMatch
         DEF Handlers
    <3> QED
      BY <2>1, <3>1, <3>2 DEF PlainInv, Failures
  <2> QED
    BY <2>2, <2>3, <2>4
<1>3. ASSUME Plain(fun), Generate PROVE PlainInv'
  <2>1. stage' = "run"
    BY <1>3, PlainGenerate DEF PlainInv, Generate
  <2> QED
    BY <2>1 DEF PlainInv, Failures
<1>4. ASSUME Plain(fun), RunBlock PROVE PlainInv'
  <2>1. stage' \in {"run", "returned"}
    BY <1>4 DEF RunBlock
  <2> QED
    BY <2>1 DEF PlainInv, Failures
<1>5. ASSUME UNCHANGED bvars PROVE PlainInv'
  BY <1>5 DEF PlainInv, LoweringInv, ShapeInv, AddedInv, WaitsInv, UnsetInv, LoopInv,
     Inside, GoesOn, Waits, Initialized, Connects, bvars
<1>6. fun' = fun
  BY DEF BNext, Handlers, LeaveBody, LowerExpr, LowerReturn, BeginIf, NoFallthrough,
     BeginElif, BeginElse, JoinIf, EndIf, BeginFor, StepFor, EndFor, LowerMatch,
     EndFunction, Generate, RunBlock, Done, bvars
<1>7. CASE ~Plain(fun)
  BY <1>6, <1>7 DEF PlainInv, Plain
<1>8. CASE Plain(fun)
  BY <1>2, <1>3, <1>4, <1>5, <1>8 DEF BNext, Done
<1> QED
  BY <1>7, <1>8

-----------------------------------------------------------------------------
(* Plain and sound functions.                                              *)

LEMMA SetsAre ==
    ASSUME TypesInv, stage = "lower", NEW i \in DOMAIN work
    PROVE  /\ Sets(work[i]) \subseteq DOMAIN blocks /\ NoBlock \notin Sets(work[i])
           /\ MaySet(work[i]) \subseteq DOMAIN blocks \cup {NoBlock}
<1>1. IsTask(work[i], DOMAIN blocks) /\ NoBlock \notin DOMAIN blocks
  BY TypesAre DEF TypesInv, WorkInv
<1>2. work[i].do \in TaskKinds
  BY <1>1 DEF IsTask
<1>3. CASE work[i].do = "fallthrough"
  BY <1>1, <1>3 DEF IsTask, Sets, MaySet
<1>4. CASE work[i].do = "join"
  BY <1>1, <1>4 DEF IsTask, Sets, MaySet
<1>5. CASE work[i].do = "endfor"
  BY <1>1, <1>5 DEF IsTask, Sets, MaySet
<1>6. CASE work[i].do \notin {"fallthrough", "join", "endfor"}
  BY <1>6 DEF Sets, MaySet
<1> QED
  BY <1>3, <1>4, <1>5, <1>6

(* Outside of an if or a for nothing is set twice if the block in use has  *)
(* no exit.                                                                *)
LEMMA OnceFlat ==
    ASSUME IsSeq(work'), ShapeInv', Len(work') <= 2, OpenInv'
    PROVE  OnceInv'
<1>1. Len(work') \in Nat /\ DOMAIN work' = 1..Len(work') /\ Len(work') >= 1
  BY SeqIs DEF ShapeInv
<1>2. \A i \in DOMAIN work' : work'[i].do \in {"body", "end"}
  <2>1. CASE Len(work') = 1
    <3>1. work'[1].do = "end"
      BY <2>1 DEF ShapeInv
    <3> QED
      BY <1>1, <2>1, <3>1
  <2>2. CASE Len(work') = 2
    <3>1. work'[2].do = "end" /\ work'[2 - 1].do = "body"
      BY <2>2 DEF ShapeInv
    <3>2. \A i \in DOMAIN work' : i = 1 \/ i = 2
      BY <1>1, <2>2
    <3> QED
      BY <3>1, <3>2
  <2> QED
    BY <1>1, <2>1, <2>2
<1>3. SetsInv'
  <2>1. \A i \in DOMAIN work' : Sets(work'[i]) = {} /\ MaySet(work'[i]) = {}
    BY <1>2 DEF Sets, MaySet
  <2> QED
    BY <2>1 DEF SetsInv, Initialized, Sets, MaySet
<1>4. CurInv'
  BY <1>2 DEF CurInv
<1>5. FirstInv' /\ InLoopInv'
  BY <1>1 DEF FirstInv, InLoopInv, Inside
<1> QED
  BY <1>3, <1>4, <1>5 DEF OnceInv

(* A step inside of an if or a for, as before: new tasks set new blocks or *)
(* those the old task was to set.                                          *)
OnceStep(new, more) ==
    /\ IsSeq(new) /\ work' = new \o Tail(work) /\ fun' = fun
    /\ more \cap DOMAIN blocks = {} /\ NoBlock \notin more
    /\ \A i \in 2..Len(new) : new[i].do # "body"
    /\ Len(new) >= 1 /\ new[1].do = "body" =>
        /\ new[1].list # <<>> => ~Initialized(blocks', cur')
        /\ \A i \in 1..Len(new) :
                new[i].do \in {"fallthrough", "join"} => cur' # new[i].old
        /\ (cur' = cur /\ Task.do = "body") \/ cur' \in more
    /\ \A i \in 1..Len(new) :
        /\ Sets(new[i]) \subseteq Sets(Task) \cup more
        /\ MaySet(new[i]) \subseteq MaySet(Task) \cup more \cup {NoBlock}
        /\ \A b \in Sets(new[i]) : ~Initialized(blocks', b)
        /\ \A j \in 1..Len(new) :
            /\ i # j => Sets(new[i]) \cap Sets(new[j]) = {}
            /\ MaySet(new[j]) \cap Sets(new[i]) = {}
    /\ \A i \in 2..Len(work) : \A b \in Sets(work[i]) : ~Initialized(blocks', b)
    /\ work[Len(work) - 2].do = "endfor" => \A i \in 1..Len(new) : InLoop(new[i])

LEMMA OnceInside ==
    ASSUME TypesInv, stage = "lower", LoweringInv, OnceInv, Len(work) >= 4,
           NEW new, NEW more, OnceStep(new, more)
    PROVE  OnceInv'
<1>1. /\ IsSeq(work) /\ Task = work[1] /\ work # <<>>
      /\ Len(work) \in Nat /\ DOMAIN work = 1..Len(work)
  <2>1. IsSeq(work)
    BY DEF TypesInv, WorkInv
  <2>2. work # <<>>
    BY <2>1, SeqIs
  <2> QED
    BY <2>1, <2>2, TaskIs
<1>2. Moved(work, new, work')
  BY <1>1, Moves DEF OnceStep
<1> DEFINE n == Len(work)
           m == Len(work')
           k == Len(new)
<1>3. n \in Nat /\ m \in Nat /\ k \in Nat /\ n >= 4 /\ m = k + n - 1 /\ m >= 3
      /\ DOMAIN work' = 1..m
  BY <1>2 DEF Moved
<1>4. \A i \in 1..k : i \in DOMAIN work' /\ work'[i] = new[i]
  BY <1>2 DEF Moved
<1>5. ASSUME NEW i \in 1..m, i \notin 1..k
      PROVE  i - k + 1 \in 2..n /\ work'[i] = work[i - k + 1]
  BY <1>2, <1>5 DEF Moved
<1>6. /\ \A i \in 2..k : new[i].do # "body"
      /\ fun' = fun /\ more \cap DOMAIN blocks = {} /\ NoBlock \notin more
      /\ \A i \in 2..n : \A b \in Sets(work[i]) : ~Initialized(blocks', b)
      /\ work[n - 2].do = "endfor" => \A i \in 1..k : InLoop(new[i])
  BY DEF OnceStep
<1>7. \A i \in 1..k :
        /\ Sets(new[i]) \subseteq Sets(Task) \cup more
        /\ MaySet(new[i]) \subseteq MaySet(Task) \cup more \cup {NoBlock}
        /\ \A b \in Sets(new[i]) : ~Initialized(blocks', b)
        /\ \A j \in 1..k :
            /\ i # j => Sets(new[i]) \cap Sets(new[j]) = {}
            /\ MaySet(new[j]) \cap Sets(new[i]) = {}
  BY DEF OnceStep
<1>8. k >= 1 /\ new[1].do = "body" =>
        /\ new[1].list # <<>> => ~Initialized(blocks', cur')
        /\ \A i \in 1..k : new[i].do \in {"fallthrough", "join"} => cur' # new[i].old
        /\ (cur' = cur /\ Task.do = "body") \/ cur' \in more
  BY DEF OnceStep
<1>9. \A i \in 2..n :
        /\ Sets(work[i]) \subseteq DOMAIN blocks /\ NoBlock \notin Sets(work[i])
        /\ MaySet(work[i]) \subseteq DOMAIN blocks \cup {NoBlock}
        /\ Sets(work[i]) \cap Sets(Task) = {}
        /\ MaySet(work[i]) \cap Sets(Task) = {}
        /\ MaySet(Task) \cap Sets(work[i]) = {}
  <2> SUFFICES ASSUME NEW i \in 2..n
               PROVE  /\ Sets(work[i]) \subseteq DOMAIN blocks
                      /\ NoBlock \notin Sets(work[i])
                      /\ MaySet(work[i]) \subseteq DOMAIN blocks \cup {NoBlock}
                      /\ Sets(work[i]) \cap Sets(Task) = {}
                      /\ MaySet(work[i]) \cap Sets(Task) = {}
                      /\ MaySet(Task) \cap Sets(work[i]) = {}
    OBVIOUS
  <2>1. i \in DOMAIN work /\ 1 \in DOMAIN work /\ i # 1
    BY <1>1, <1>3
  <2> HIDE DEF n
  <2>2. /\ Sets(work[i]) \subseteq DOMAIN blocks /\ NoBlock \notin Sets(work[i])
        /\ MaySet(work[i]) \subseteq DOMAIN blocks \cup {NoBlock}
    BY <2>1, SetsAre
  <2>3. /\ Sets(work[i]) \cap Sets(work[1]) = {}
        /\ MaySet(work[i]) \cap Sets(work[1]) = {}
        /\ MaySet(work[1]) \cap Sets(work[i]) = {}
    BY <2>1 DEF OnceInv, SetsInv
  <2> QED
    BY <1>1, <2>2, <2>3
<1>10. Sets(Task) \subseteq DOMAIN blocks /\ NoBlock \notin Sets(Task)
       /\ MaySet(Task) \subseteq DOMAIN blocks \cup {NoBlock}
  <2>1. 1 \in DOMAIN work
    BY <1>1, <1>3
  <2> QED
    BY <1>1, <2>1, SetsAre
<1>11. \A i \in 2..(n - 2) : work[i].do # "body"
  BY DEF OnceInv, FirstInv
<1>12. InCode' => k >= 1 /\ new[1].do = "body" /\ work'[1] = new[1]
  <2>1. CASE k >= 1
    BY <1>3, <1>4, <2>1 DEF InCode
  <2>2. CASE k = 0
    <3>1. work'[1] = work[2]
      <4>1. 1 \in 1..m /\ 1 \notin 1..k /\ 1 - k + 1 = 2
        BY <1>3, <2>2
      <4>2. work'[1] = work[1 - k + 1]
        BY <1>5, <4>1
      <4> HIDE DEF k
      <4> QED
        BY <4>1, <4>2
    <3>2. 2 \in 2..(n - 2)
      BY <1>3
    <3> QED
      BY <1>11, <3>1, <3>2 DEF InCode
  <2> QED
    BY <1>3, <2>1, <2>2
<1> HIDE DEF n, m, k
<1>13. OpenInv'
  BY <1>8, <1>12 DEF OpenInv, Initialized
<1>14. SetsInv'
  <2>1. ASSUME NEW i \in 1..m, NEW b \in Sets(work'[i]) PROVE ~Initialized(blocks', b)
    <3>1. CASE i \in 1..k
      BY <1>4, <1>7, <2>1, <3>1
    <3>2. CASE i \notin 1..k
      BY <1>5, <1>6, <2>1, <3>2
    <3> QED
      BY <3>1, <3>2
  <2>2. ASSUME NEW i \in 1..m, NEW j \in 1..m, i # j
        PROVE  Sets(work'[i]) \cap Sets(work'[j]) = {}
    <3>1. CASE i \in 1..k /\ j \in 1..k
      BY <1>4, <1>7, <2>2, <3>1
    <3>2. CASE i \in 1..k /\ j \notin 1..k
      BY <1>4, <1>5, <1>6, <1>7, <1>9, <3>2
    <3>3. CASE i \notin 1..k /\ j \in 1..k
      BY <1>4, <1>5, <1>6, <1>7, <1>9, <3>3
    <3>4. CASE i \notin 1..k /\ j \notin 1..k
      <4>1. /\ i - k + 1 \in DOMAIN work /\ j - k + 1 \in DOMAIN work
            /\ i - k + 1 # j - k + 1
        BY <1>1, <1>3, <1>5, <2>2, <3>4 DEF n
      <4>2. work'[i] = work[i - k + 1] /\ work'[j] = work[j - k + 1]
        BY <1>5, <3>4
      <4> QED
        BY <4>1, <4>2 DEF OnceInv, SetsInv
    <3> QED
      BY <3>1, <3>2, <3>3, <3>4
  <2>3. ASSUME NEW i \in 1..m, NEW j \in 1..m
        PROVE  MaySet(work'[j]) \cap Sets(work'[i]) = {}
    <3>1. CASE i \in 1..k /\ j \in 1..k
      BY <1>4, <1>7, <3>1
    <3>2. CASE i \in 1..k /\ j \notin 1..k
      <4>1. MaySet(work'[j]) \subseteq DOMAIN blocks \cup {NoBlock}
            /\ MaySet(work'[j]) \cap Sets(Task) = {}
        BY <1>5, <1>9, <3>2
      <4>2. Sets(work'[i]) \subseteq Sets(Task) \cup more
        BY <1>4, <1>7, <3>2
      <4> QED
        BY <1>6, <4>1, <4>2
    <3>3. CASE i \notin 1..k /\ j \in 1..k
      <4>1. Sets(work'[i]) \subseteq DOMAIN blocks /\ NoBlock \notin Sets(work'[i])
            /\ MaySet(Task) \cap Sets(work'[i]) = {}
        BY <1>5, <1>9, <3>3
      <4>2. MaySet(work'[j]) \subseteq MaySet(Task) \cup more \cup {NoBlock}
        BY <1>4, <1>7, <3>3
      <4> QED
        BY <1>6, <4>1, <4>2
    <3>4. CASE i \notin 1..k /\ j \notin 1..k
      <4>1. /\ i - k + 1 \in DOMAIN work /\ j - k + 1 \in DOMAIN work
        BY <1>1, <1>3, <1>5, <3>4 DEF n
      <4>2. work'[i] = work[i - k + 1] /\ work'[j] = work[j - k + 1]
        BY <1>5, <3>4
      <4> QED
        BY <4>1, <4>2 DEF OnceInv, SetsInv
    <3> QED
      BY <3>1, <3>2, <3>3, <3>4
  <2> QED
    BY <1>3, <2>1, <2>2, <2>3 DEF SetsInv, Initialized, Sets, MaySet
<1>15. CurInv'
  <2> SUFFICES ASSUME InCode', NEW i \in 1..m,
                      work'[i].do \in {"fallthrough", "join"}
               PROVE  cur' # work'[i].old
    BY <1>3 DEF CurInv
  <2>1. CASE i \in 1..k
    BY <1>4, <1>8, <1>12, <2>1
  <2>2. CASE i \notin 1..k
    <3>1. i - k + 1 \in DOMAIN work /\ work'[i] = work[i - k + 1]
          /\ i - k + 1 \in 2..n
      BY <1>1, <1>3, <1>5, <2>2 DEF n
    <3>2. work'[i].old \in Sets(work[i - k + 1])
      BY <3>1 DEF Sets
    <3>3. work'[i].old \in DOMAIN blocks
      BY <1>9, <3>1, <3>2
    <3>4. CASE cur' \in more
      BY <1>6, <3>3, <3>4
    <3>5. CASE cur' = cur /\ Task.do = "body"
      <4>1. InCode
        BY <1>1, <3>5 DEF InCode
      <4> QED
        BY <3>1, <3>5, <4>1 DEF OnceInv, CurInv
    <3> QED
      BY <1>8, <1>12, <3>4, <3>5
  <2> QED
    BY <2>1, <2>2
<1>16. FirstInv'
  <2> SUFFICES ASSUME NEW i \in 2..(m - 2) PROVE work'[i].do # "body"
    BY <1>3 DEF FirstInv, m
  <2>1. CASE i \in 1..k
    BY <1>3, <1>4, <1>6, <2>1
  <2>2. CASE i \notin 1..k
    <3>1. i \in 1..m /\ i - k + 1 \in 2..(n - 2)
      BY <1>3, <2>2
    <3> QED
      BY <1>5, <1>11, <2>2, <3>1
  <2> QED
    BY <2>1, <2>2
<1>17. InLoopInv'
  <2>1. work'[m - 2] = work[n - 2]
    <3>1. m - 2 \in 1..m /\ m - 2 \notin 1..k /\ (m - 2) - k + 1 = n - 2
      BY <1>3
    <3>2. work'[m - 2] = work[(m - 2) - k + 1]
      BY <1>5, <3>1
    <3> QED
      BY <3>1, <3>2
  <2>2. ASSUME work[n - 2].do = "endfor", NEW i \in 1..(m - 3)
        PROVE  InLoop(work'[i])
    <3>1. CASE i \in 1..k
      BY <1>4, <1>6, <2>2, <3>1
    <3>2. CASE i \notin 1..k
      <4>1. i \in 1..m /\ i - k + 1 \in 1..(n - 3)
        BY <1>3, <3>2
      <4>2. Inside
        BY <1>3 DEF Inside, n
      <4>3. InLoop(work[i - k + 1])
        BY <2>2, <4>1, <4>2 DEF OnceInv, InLoopInv, n
      <4> QED
        BY <1>5, <3>2, <4>1, <4>3
    <3> QED
      BY <3>1, <3>2
  <2>3. \A i \in 1..(m - 3) : InLoop(work'[i]) => InLoop(work[i])'
    BY <1>6 DEF InLoop
  <2> QED
    BY <2>1, <2>2, <2>3 DEF InLoopInv, m
<1> QED
  BY <1>13, <1>14, <1>15, <1>16, <1>17 DEF OnceInv

(* What has an exit keeps it.                                              *)
Keeps == \A b \in DOMAIN blocks :
            Initialized(blocks, b) => blocks'[b].exit = blocks[b].exit

(* A statement in an if or a for that makes no blocks.                     *)
LEMMA OnceRest ==
    ASSUME TypesInv, Plain(fun), LoweringInv, OnceInv, InBody, Len(work) >= 4,
           work' = <<Rest>> \o Tail(work), fun' = fun, cur' = cur,
           Tail(Task.list) # <<>> => ~Initialized(blocks', cur),
           \A i \in 2..Len(work) : \A b \in Sets(work[i]) : ~Initialized(blocks', b)
    PROVE  OnceInv'
<1> DEFINE new == <<Rest>>
<1>1. /\ stage = "lower" /\ work # <<>> /\ Task.do = "body" /\ Task.list # <<>>
      /\ Rest.do = "body" /\ Rest.list = Tail(Task.list)
      /\ fun \in Functions
  BY BodyIs, TypesAre DEF Rest, Body, InBody
<1>2. IsSeq(work) /\ Task = work[1] /\ Len(work) \in Nat
  BY <1>1, TaskIs
<1>3. IsSeq(new) /\ Len(new) = 1 /\ new[1] = Rest
  BY Tuples
<1>4. work' = new \o Tail(work)
  OBVIOUS
<1> HIDE DEF new
<1>5. Sets(Rest) = {} /\ MaySet(Rest) = {}
  BY <1>1 DEF Sets, MaySet
<1>6. ASSUME work[Len(work) - 2].do = "endfor" PROVE InLoop(Rest)
  <2>1. Inside /\ 1 \in 1..(Len(work) - 3)
    BY <1>2 DEF Inside
  <2>2. InLoop(Task)
    BY <1>2, <1>6, <2>1 DEF OnceInv, InLoopInv
  <2>3. PICK s \in ToSet(fun.body) : s.is = "for" /\ IsRest(Task.list, s.body)
    BY <1>1, <2>2 DEF InLoop
  <2>4. IsStatement(s)
    BY <1>1, FunctionIs DEF Lists
  <2>5. IsSeq(s.body)
    BY <2>3, <2>4 DEF IsStatement, IsCode
  <2>6. IsRest(Tail(Task.list), s.body)
    BY <1>1, <2>3, <2>5, RestIs
  <2> QED
    BY <1>1, <2>3, <2>6 DEF InLoop
<1>7. OnceStep(new, {})
  <2>1. \A i \in 1..Len(new) : i = 1 /\ new[i] = Rest
    BY <1>3
  <2>2. \A i \in 2..Len(new) : FALSE
    BY <1>3
  <2>3. Rest.list # <<>> => ~Initialized(blocks', cur')
    BY <1>1
  <2> QED
    BY <1>1, <1>3, <1>4, <1>5, <1>6, <2>1, <2>2, <2>3 DEF OnceStep
<1> QED
  BY <1>1, <1>7, OnceInside

LEMMA OnceLowerExpr ==
    ASSUME TypesInv, Plain(fun), LoweringInv, OnceInv, LowerExpr,
           TypesInv', LoweringInv'
    PROVE  OnceInv' /\ Keeps
<1>1. InBody /\ Task.list # <<>>
  BY DEF LowerExpr, At, InBody
<1>2. /\ stage = "lower" /\ work # <<>> /\ fun' = fun /\ work' = <<Rest>> \o Tail(work)
      /\ blocks' = AddExpr(blocks, cur, <<"do", Stmt.id>>)
      /\ cur' = cur /\ stage' = stage
  BY <1>1, BodyIs, Tuples DEF LowerExpr, Then
<1>3. DOMAIN blocks' = DOMAIN blocks /\ \A b \in DOMAIN blocks : blocks'[b].exit = blocks[b].exit
  <2> DEFINE bs == AddExpr(blocks, cur, <<"do", Stmt.id>>)
  <2>1. /\ DOMAIN bs = DOMAIN blocks /\ \A b \in DOMAIN blocks : bs[b].exit = blocks[b].exit
    BY ZenonT(40), TypesAre, AnExprAdded
  <2> QED
    BY <1>2, <2>1
<1>4. Keeps
  BY <1>3 DEF Keeps
<1>5. \A b \in DOMAIN blocks : Initialized(blocks', b) <=> Initialized(blocks, b)
  BY <1>3 DEF Initialized
<1>6. IsSeq(work) /\ Task = work[1] /\ DOMAIN work = 1..Len(work) /\ Len(work) \in Nat
  BY <1>2, TaskIs
<1>7. ~Initialized(blocks', cur')
  <2>1. Task.do = "body" /\ cur \in DOMAIN blocks
    BY <1>1, BodyIs, TypesAre
  <2>2. ~Initialized(blocks, cur)
    BY <1>1, <1>2, <1>6, <2>1 DEF OnceInv, OpenInv, InCode
  <2> QED
    BY <1>2, <1>5, <2>1, <2>2
<1>8. CASE Len(work) >= 4
  <2>1. ASSUME NEW i \in 2..Len(work), NEW b \in Sets(work[i])
        PROVE  ~Initialized(blocks', b)
    <3>1. i \in DOMAIN work
      BY <1>6
    <3>2. b \in DOMAIN blocks /\ ~Initialized(blocks, b)
      BY <1>2, <3>1, SetsAre DEF OnceInv, SetsInv
    <3> QED
      BY <1>5, <3>2
  <2>2. ~Initialized(blocks', cur)
    BY <1>2, <1>7
  <2> QED
    BY <1>1, <1>2, <1>4, <1>8, <2>1, <2>2, OnceRest
<1>9. CASE Len(work) = 2
  <2> DEFINE new == <<Rest>>
  <2>1. IsSeq(new) /\ Len(new) = 1
    BY Tuples
  <2>2. work' = new \o Tail(work)
    BY <1>2
  <2> HIDE DEF new
  <2>3. Moved(work, new, work')
    BY <1>2, <1>6, <2>1, <2>2, Moves
  <2>4. IsSeq(work') /\ Len(work') <= 2
    BY <1>9, <2>1, <2>3 DEF Moved
  <2> QED
    BY <1>4, <1>7, <2>4, OnceFlat DEF LoweringInv, OpenInv, Initialized
<1> QED
  BY <1>1, <1>8, <1>9, PlainBody

(* A return is the last statement of its list and in no loop.              *)
LEMMA ReturnIsLast ==
    ASSUME TypesInv, Sound(fun), InBody, Stmt.is = "return"
    PROVE  /\ Tail(Task.list) = <<>>
           /\ \A s \in ToSet(fun.body) : s.is = "for" => ~IsRest(Task.list, s.body)
<1>1. /\ stage = "lower" /\ work # <<>> /\ Task.do = "body" /\ Task.list # <<>>
      /\ fun \in Functions
  BY BodyIs, TypesAre DEF InBody
<1>2. PICK list \in Lists(fun) : IsCode(list) /\ IsRest(Task.list, list)
  BY <1>1, TaskIs DEF IsTask
<1>3. Tail(Task.list) # <<>> => Stmt \in ToSet(Front(list))
  BY <1>1, <1>2, RestIs DEF IsCode, Stmt
<1>4. Tail(Task.list) = <<>>
  BY <1>2, <1>3 DEF Sound, GoesOnAfterReturn
<1>5. ASSUME NEW s \in ToSet(fun.body), s.is = "for", IsRest(Task.list, s.body)
      PROVE  FALSE
  <2>1. IsStatement(s)
    BY <1>1, FunctionIs DEF Lists
  <2>2. IsSeq(s.body)
    BY <1>5, <2>1 DEF IsStatement, IsCode
  <2>3. Stmt \in ToSet(s.body)
    BY <1>1, <1>5, <2>2, RestIs DEF Stmt
  <2>4. s.body \in Within({s.body})
    <3>1. {s.body} \subseteq Within({s.body})
      BY FunctionsAssumption, WithinItself
    <3> QED
      BY <3>1
  <2> QED
    BY <1>5, <2>3, <2>4 DEF Sound, ReturnsInLoop
<1> QED
  BY <1>4, <1>5

LEMMA OnceLowerReturn ==
    ASSUME TypesInv, Plain(fun), Sound(fun), LoweringInv, OnceInv, LowerReturn,
           TypesInv', LoweringInv'
    PROVE  OnceInv' /\ Keeps
<1> DEFINE bs == AddExpr(blocks, cur, <<"return", Stmt.id>>)
<1>1. InBody /\ Task.list # <<>> /\ Stmt.is = "return"
  BY DEF LowerReturn, At, InBody
<1>2. /\ stage = "lower" /\ work # <<>> /\ fun' = fun /\ work' = <<Rest>> \o Tail(work)
      /\ blocks' = SetExit(bs, cur, Branch(EndBlock))
      /\ cur' = cur /\ stage' = stage
  BY <1>1, BodyIs, Tuples DEF LowerReturn, Then
<1>3. /\ AreBlocks(bs) /\ DOMAIN bs = DOMAIN blocks /\ cur \in DOMAIN bs
      /\ \A b \in DOMAIN blocks : bs[b].exit = blocks[b].exit
  BY ZenonT(40), TypesAre, AnExprAdded
<1> HIDE DEF bs
<1>4. HasExit(bs, cur, Branch(EndBlock), blocks')
  BY <1>2, <1>3, AnExitSet
<1>5. /\ DOMAIN blocks' = DOMAIN blocks
      /\ \A b \in DOMAIN blocks : b # cur => blocks'[b].exit = blocks[b].exit
  BY <1>3, <1>4 DEF HasExit
<1>6. IsSeq(work) /\ Task = work[1] /\ DOMAIN work = 1..Len(work) /\ Len(work) \in Nat
  BY <1>2, TaskIs
<1>7. Task.do = "body" /\ InCode
  BY <1>1, <1>2, <1>6, BodyIs DEF InCode
<1>8. ~Initialized(blocks, cur)
  BY <1>1, <1>6, <1>7 DEF OnceInv, OpenInv
<1>9. Keeps
  BY <1>5, <1>8 DEF Keeps
<1>10. /\ Tail(Task.list) = <<>>
       /\ \A s \in ToSet(fun.body) : s.is = "for" => ~IsRest(Task.list, s.body)
  BY <1>1, ReturnIsLast
<1>11. CASE Len(work) >= 4
  <2>1. ASSUME NEW i \in 2..Len(work), NEW b \in Sets(work[i])
        PROVE  ~Initialized(blocks', b)
    <3>1. i \in DOMAIN work
      BY <1>6
    <3>2. b \in DOMAIN blocks /\ ~Initialized(blocks, b)
      BY <1>2, <3>1, SetsAre DEF OnceInv, SetsInv
    <3>3. work[i].do \in {"fallthrough", "join", "endfor"}
      BY <2>1 DEF Sets
    <3>4. CASE work[i].do \in {"fallthrough", "join"}
      <4>1. b = work[i].old
        BY <2>1, <3>4 DEF Sets
      <4>2. b # cur
        BY <1>7, <3>1, <3>4, <4>1 DEF OnceInv, CurInv
      <4> QED
        BY <1>5, <3>2, <4>2 DEF Initialized
    <3>5. CASE work[i].do = "endfor"
      <4>1. i = Len(work) - 2
        <5>1. work[Len(work)].do = "end" /\ work[Len(work) - 1].do = "body"
          BY <1>11 DEF LoweringInv, ShapeInv
        <5>2. \A j \in 1..(Len(work) - 3) : work[j].do # "endfor"
          BY DEF LoweringInv, ShapeInv
        <5>3. /\ i # Len(work) /\ i # Len(work) - 1
              /\ ~(i \in 1..(Len(work) - 3))
          BY <3>5, <5>1, <5>2
        <5>4. Len(work) \in Nat /\ Len(work) >= 4 /\ i \in 2..Len(work)
          BY <1>6, <1>11
        <5> DEFINE n == Len(work)
        <5> HIDE DEF n
        <5>5. i = n - 2
          BY <5>3, <5>4 DEF n
        <5> QED
          BY <5>5 DEF n
      <4>2. Inside /\ 1 \in 1..(Len(work) - 3)
        BY <1>6, <1>11 DEF Inside
      <4>3. InLoop(work[1])
        BY <3>5, <4>1, <4>2 DEF OnceInv, InLoopInv
      <4> QED
        BY <1>6, <1>7, <1>10, <4>3 DEF InLoop
    <3> QED
      BY <3>3, <3>4, <3>5
  <2> QED
    BY <1>1, <1>2, <1>9, <1>10, <1>11, <2>1, OnceRest
<1>12. CASE Len(work) = 2
  <2> DEFINE new == <<Rest>>
  <2>1. IsSeq(new) /\ Len(new) = 1 /\ new[1] = Rest
    BY Tuples
  <2>2. work' = new \o Tail(work)
    BY <1>2
  <2> HIDE DEF new
  <2>3. Moved(work, new, work')
    BY <1>2, <1>6, <2>1, <2>2, Moves
  <2>4. IsSeq(work') /\ Len(work') <= 2 /\ work'[1] = Rest
    BY <1>12, <2>1, <2>3 DEF Moved
  <2>5. OpenInv'
    BY <1>10, <2>4 DEF OpenInv, Rest, Body
  <2> QED
    BY <1>9, <2>4, <2>5, OnceFlat DEF LoweringInv
<1> QED
  BY <1>1, <1>11, <1>12, PlainBody

LEMMA OnceLowerMatch ==
    ASSUME TypesInv, Plain(fun), LoweringInv, OnceInv, LowerMatch,
           TypesInv', LoweringInv'
    PROVE  OnceInv' /\ Keeps
<1> DEFINE last == Base + HowMany(Stmt) - 1
           new == <<Rest>>
<1>1. InBody /\ Stmt.is = "match" /\ Task.list # <<>>
  BY DEF LowerMatch, At, InBody
<1>2. /\ stage = "lower" /\ work # <<>> /\ fun' = fun /\ work' = <<Rest>> \o Tail(work)
      /\ fun \in Functions
  BY <1>1, BodyIs, Tuples, TypesAre DEF LowerMatch, Then
<1>3. /\ Len(work) = 2 /\ IsRest(Task.list, fun.body) /\ Stmt \in ToSet(fun.body)
  BY <1>1, PlainBody
<1>4. Stmt.cases # 1
  BY <1>1, <1>3 DEF Plain, OneCase
<1>5. IsSeq(work) /\ Task = work[1]
  BY <1>2, TaskIs
<1>6. Task.do = "body"
  BY <1>1, BodyIs
<1>7. ~Initialized(blocks, cur)
  BY <1>1, <1>2, <1>5, <1>6 DEF OnceInv, OpenInv, InCode
<1>8. \A b \in DOMAIN blocks : b # cur => blocks'[b].exit = blocks[b].exit
  BY <1>4, MatchMade
<1>9. Keeps
  BY <1>7, <1>8 DEF Keeps
<1>10. IsSeq(new) /\ Len(new) = 1 /\ new[1] = Rest
  BY Tuples
<1>11. work' = new \o Tail(work)
  BY <1>2
<1> HIDE DEF new
<1>12. Moved(work, new, work')
  BY <1>2, <1>5, <1>10, <1>11, Moves
<1>13. IsSeq(work') /\ Len(work') <= 2 /\ work'[1] = Rest
  BY <1>3, <1>10, <1>12 DEF Moved
<1>14. Rest.list = Tail(Task.list)
  BY DEF Rest, Body
<1>15. CASE fun.headless
  <2>1. Len(fun.body) = 1 /\ IsSeq(fun.body)
    BY <1>2, <1>15, FunctionIs, FunctionsAssumption DEF IsCode
  <2>2. /\ IsSeq(Task.list) /\ Len(Task.list) = 1
    <3>1. IsSeq(Task.list) /\ Len(Task.list) \in Nat /\ Len(Task.list) >= 1
      BY <1>1, <1>3, <2>1, RestIs
    <3>2. Len(Task.list) <= Len(fun.body)
      BY <1>3 DEF IsRest
    <3> DEFINE n == Len(Task.list)
               m == Len(fun.body)
    <3>3. n \in Nat /\ n >= 1 /\ n <= m /\ m = 1
      BY <2>1, <3>1, <3>2
    <3> HIDE DEF n, m
    <3>4. n = 1
      BY <3>3
    <3> QED
      BY <3>1, <3>4 DEF n
  <2>3. IsSeq(Tail(Task.list)) /\ Len(Tail(Task.list)) = 0
    BY <1>1, <2>2, Tailed
  <2>4. Tail(Task.list) = <<>>
    BY <2>3, SeqIs
  <2>5. OpenInv'
    BY <1>13, <1>14, <2>4 DEF OpenInv
  <2> QED
    BY <1>9, <1>13, <2>5, OnceFlat DEF LoweringInv
<1>16. CASE ~fun.headless
  <2>1. cur' = Fresh /\ blocks'[Fresh].exit = NoExit
    <3>1. blocks'[Fresh] = NewBlock(<<>>)
      BY <1>16, MatchMade
    <3>2. cur' = Fresh
      BY <1>16 DEF LowerMatch
    <3> QED
      BY <3>1, <3>2 DEF NewBlock
  <2>2. ~Initialized(blocks', cur')
    BY <2>1 DEF Initialized, NoExit
  <2>3. OpenInv'
    BY <2>2 DEF OpenInv, Initialized
  <2> QED
    BY <1>9, <1>13, <2>3, OnceFlat DEF LoweringInv
<1> QED
  BY <1>15, <1>16

(* An if or a for of the body is opened, as before.                        *)
OnceOpen(list, mid, end) ==
    /\ work' = <<Body(list), mid, end, Rest>> \o Tail(work) /\ fun' = fun
    /\ mid.do \in {"fallthrough", "step"} /\ end.do \in {"endif", "endfor"}
    /\ ~Initialized(blocks', cur')
    /\ \A b \in Sets(mid) \cup Sets(end) : ~Initialized(blocks', b)
    /\ Sets(mid) \cap Sets(end) = {}
    /\ MaySet(mid) \cap (Sets(mid) \cup Sets(end)) = {}
    /\ mid.do = "fallthrough" => cur' # mid.old
    /\ end.do = "endfor" =>
        /\ mid.do = "step"
        /\ \E s \in ToSet(fun.body) : s.is = "for" /\ IsRest(list, s.body)

LEMMA OnceOpens ==
    ASSUME TypesInv, LoweringInv, InBody, Len(work) = 2,
           NEW list, NEW mid, NEW end, OnceOpen(list, mid, end)
    PROVE  OnceInv'
<1> DEFINE body == Body(list)
           new == <<body, mid, end, Rest>>
<1>1. stage = "lower" /\ work # <<>> /\ Rest.do = "body"
  BY BodyIs DEF Rest, Body
<1>2. IsSeq(work) /\ Task = work[1] /\ DOMAIN work = 1..Len(work)
  BY <1>1, TaskIs
<1>3. work' = new \o Tail(work)
  BY DEF OnceOpen
<1>4. body.do = "body" /\ body.list = list
  BY DEF Body
<1> HIDE DEF body
<1>5. /\ IsSeq(new) /\ Len(new) = 4
      /\ new[1] = body /\ new[2] = mid /\ new[3] = end /\ new[4] = Rest
  <2>1. IsSeq(new)
    BY Tuples
  <2> QED
    BY <2>1
<1> HIDE DEF new
<1>6. Moved(work, new, work')
  BY <1>1, <1>2, <1>3, <1>5, Moves
<1>7. /\ Len(work') = 5 /\ DOMAIN work' = 1..5 /\ work'[5] = work[2]
      /\ work'[1] = body /\ work'[2] = mid /\ work'[3] = end /\ work'[4] = Rest
  <2>1. Len(work') = 5 /\ DOMAIN work' = 1..5
    BY <1>5, <1>6 DEF Moved
  <2>2. 2 \in 2..Len(work) /\ Len(new) + 2 - 1 = 5
    BY <1>5
  <2>3. /\ work'[1] = new[1] /\ work'[2] = new[2] /\ work'[3] = new[3]
        /\ work'[4] = new[4]
    BY <1>5, <1>6 DEF Moved
  <2>4. work'[5] = work[2]
    BY <1>6, <2>2 DEF Moved
  <2> QED
    BY <1>5, <2>1, <2>3, <2>4
<1>8. work[2].do = "end"
  BY DEF LoweringInv, ShapeInv
<1>9. /\ fun' = fun
      /\ mid.do \in {"fallthrough", "step"} /\ end.do \in {"endif", "endfor"}
      /\ ~Initialized(blocks', cur')
      /\ \A b \in Sets(mid) \cup Sets(end) : ~Initialized(blocks', b)
      /\ Sets(mid) \cap Sets(end) = {}
      /\ MaySet(mid) \cap (Sets(mid) \cup Sets(end)) = {}
      /\ mid.do = "fallthrough" => cur' # mid.old
      /\ end.do = "endfor" =>
            /\ mid.do = "step"
            /\ \E s \in ToSet(fun.body) : s.is = "for" /\ IsRest(list, s.body)
  BY DEF OnceOpen
<1>10. \A i \in DOMAIN work' : i = 1 \/ i = 2 \/ i = 3 \/ i = 4 \/ i = 5
  BY <1>7
<1>11. OpenInv'
  BY <1>9 DEF OpenInv, Initialized
<1>12. SetsInv'
  <2>1. /\ Sets(body) = {} /\ Sets(Rest) = {} /\ Sets(work[2]) = {}
        /\ MaySet(body) = {} /\ MaySet(Rest) = {} /\ MaySet(work[2]) = {}
        /\ MaySet(end) = {}
    BY <1>1, <1>4, <1>8, <1>9 DEF Sets, MaySet
  <2>2. \A i \in DOMAIN work' :
            Sets(work'[i]) # {} => (i = 2 /\ work'[i] = mid) \/ (i = 3 /\ work'[i] = end)
    BY <1>7, <1>10, <2>1
  <2>3. \A i \in DOMAIN work' : MaySet(work'[i]) # {} => i = 2 /\ work'[i] = mid
    BY <1>7, <1>10, <2>1
  <2>4. \A i \in DOMAIN work' : \A b \in Sets(work'[i]) : ~Initialized(blocks', b)
    BY <1>9, <2>2
  <2>5. \A i, j \in DOMAIN work' : i # j => Sets(work'[i]) \cap Sets(work'[j]) = {}
    BY <1>9, <2>2
  <2>6. \A i, j \in DOMAIN work' : MaySet(work'[j]) \cap Sets(work'[i]) = {}
    BY <1>9, <2>2, <2>3
  <2> QED
    BY <2>4, <2>5, <2>6 DEF SetsInv, Initialized, Sets, MaySet
<1>13. CurInv'
  <2>1. ASSUME NEW i \in DOMAIN work', work'[i].do \in {"fallthrough", "join"}
        PROVE  cur' # work'[i].old
    <3>1. work'[i] = mid
      BY <1>1, <1>4, <1>7, <1>8, <1>9, <1>10, <2>1
    <3> QED
      BY <1>9, <2>1, <3>1
  <2> QED
    BY <2>1 DEF CurInv
<1>14. FirstInv'
  <2>1. \A i \in 2..(Len(work') - 2) : i = 2 \/ i = 3
    BY <1>7
  <2>2. \A i \in 2..(Len(work') - 2) : work'[i].do # "body"
    BY <1>7, <1>9, <2>1
  <2> QED
    BY <2>2 DEF FirstInv
<1>15. InLoopInv'
  <2>1. work'[Len(work') - 2] = end
    BY <1>7
  <2>2. \A i \in 1..(Len(work') - 3) : i = 1 \/ i = 2
    BY <1>7
  <2>3. end.do = "endfor" => \A i \in 1..(Len(work') - 3) : InLoop(work[i])'
    BY <1>4, <1>7, <1>9, <2>2 DEF InLoop
  <2> QED
    BY <2>1, <2>3 DEF InLoopInv
<1> QED
  BY <1>11, <1>12, <1>13, <1>14, <1>15 DEF OnceInv

LEMMA OnceBeginIf ==
    ASSUME TypesInv, Plain(fun), LoweringInv, OnceInv, BeginIf
    PROVE  OnceInv' /\ Keeps
<1>1. IfBegun
  BY BeginIfIs
<1>2. InBody /\ Stmt.is = "if" /\ stage = "lower" /\ work # <<>>
  BY <1>1 DEF IfBegun
<1>3. Len(work) = 2 /\ Task = work[1] /\ Task.do = "body" /\ cur \in DOMAIN blocks
  BY <1>2, PlainBody, TaskIs, BodyIs, TypesAre
<1>4. ~Initialized(blocks, cur)
  BY <1>2, <1>3 DEF OnceInv, OpenInv, InCode, InBody
<1>5. /\ fun' = fun /\ cur' = Fresh + 1
      /\ Fresh + 1 \notin DOMAIN blocks /\ ~Initialized(blocks', Fresh + 1)
      /\ \A b \in DOMAIN blocks : blocks'[b] = blocks[b]
      /\ work' = <<Body(Stmt.then), IfTask, EndIfTask, Rest>> \o Tail(work)
  BY <1>1 DEF IfBegun
<1>6. Keeps
  BY <1>5 DEF Keeps
<1>7. /\ Sets(IfTask) = {cur} /\ MaySet(IfTask) = {Fresh + 1} /\ Sets(EndIfTask) = {}
      /\ IfTask.do = "fallthrough" /\ IfTask.old = cur /\ EndIfTask.do = "endif"
  BY DEF Sets, MaySet, IfTask, EndIfTask
<1>8. ~Initialized(blocks', cur) /\ cur # Fresh + 1
  BY <1>3, <1>4, <1>5 DEF Initialized
<1>9. OnceOpen(Stmt.then, IfTask, EndIfTask)
  BY <1>5, <1>7, <1>8 DEF OnceOpen
<1> QED
  BY <1>2, <1>3, <1>6, <1>9, OnceOpens

LEMMA OnceBeginFor ==
    ASSUME TypesInv, Plain(fun), LoweringInv, OnceInv, BeginFor
    PROVE  OnceInv' /\ Keeps
<1>1. ForBegun
  BY BeginForIs
<1>2. InBody /\ Stmt.is = "for" /\ stage = "lower" /\ work # <<>>
  BY <1>1 DEF ForBegun
<1>3. /\ Len(work) = 2 /\ Task = work[1] /\ Task.do = "body" /\ cur \in DOMAIN blocks
      /\ Stmt \in ToSet(fun.body)
  BY <1>2, PlainBody, TaskIs, BodyIs, TypesAre
<1>4. ~Initialized(blocks, cur)
  BY <1>2, <1>3 DEF OnceInv, OpenInv, InCode, InBody
<1>5. /\ fun' = fun /\ cur' = Fresh + 2 /\ IsCode(Stmt.body)
      /\ ~Initialized(blocks', Fresh) /\ ~Initialized(blocks', Fresh + 2)
      /\ \A b \in DOMAIN blocks : b # cur => blocks'[b].exit = blocks[b].exit
      /\ work' = <<Body(Stmt.body), StepTask, EndForTask, Rest>> \o Tail(work)
  BY <1>1 DEF ForBegun
<1>6. Keeps
  BY <1>4, <1>5 DEF Keeps
<1>7. /\ Sets(EndForTask) = {Fresh, Fresh + 2} /\ MaySet(StepTask) = {} /\ Sets(StepTask) = {}
      /\ StepTask.do = "step" /\ EndForTask.do = "endfor"
  BY DEF Sets, MaySet, StepTask, EndForTask
<1>8. IsRest(Stmt.body, Stmt.body)
  BY <1>5, RestOfAll DEF IsCode
<1>9. OnceOpen(Stmt.body, StepTask, EndForTask)
  BY <1>2, <1>3, <1>5, <1>7, <1>8 DEF OnceOpen
<1> QED
  BY <1>2, <1>3, <1>6, <1>9, OnceOpens

(* The exits that are not there yet, of blocks that do not change.         *)
StillUnset == \A i \in DOMAIN work : \A b \in Sets(work[i]) : ~Initialized(blocks', b)

LEMMA StayUnset ==
    ASSUME TypesInv, stage = "lower", OnceInv,
           \A b \in DOMAIN blocks : blocks'[b].exit = blocks[b].exit
    PROVE  StillUnset /\ Keeps
<1>1. ASSUME NEW i \in DOMAIN work, NEW b \in Sets(work[i])
      PROVE  ~Initialized(blocks', b)
  <2>1. b \in DOMAIN blocks /\ ~Initialized(blocks, b)
    BY <1>1, SetsAre DEF OnceInv, SetsInv
  <2> QED
    BY <2>1 DEF Initialized
<1> QED
  BY <1>1 DEF StillUnset, Keeps

(* An if is open, and no loop: plain functions have no if in a for.        *)
LEMMA NotInLoop ==
    ASSUME TypesInv, stage = "lower", work # <<>>, Len(work) >= 4, OnceInv,
           Task.do \notin {"body", "step"}
    PROVE  work[Len(work) - 2].do # "endfor"
<1>1. Len(work) \in Nat /\ Task = work[1]
  BY TaskIs
<1>2. Inside /\ 1 \in 1..(Len(work) - 3)
  BY <1>1 DEF Inside
<1>3. ASSUME work[Len(work) - 2].do = "endfor" PROVE FALSE
  <2>1. InLoop(work[1])
    BY <1>2, <1>3 DEF OnceInv, InLoopInv
  <2> QED
    BY <1>1, <2>1 DEF InLoop
<1> QED
  BY <1>3

(* The blocks of a conditional: the old one gets its exits at the join.    *)
LEMMA ConditionalIs ==
    ASSUME TypesInv, stage = "lower", work # <<>>, LoweringInv, OnceInv,
           Task.do \in {"fallthrough", "join"}
    PROVE  /\ Len(work) >= 4 /\ IsSeq(work) /\ Len(work) \in Nat /\ Task = work[1]
           /\ DOMAIN work = 1..Len(work)
           /\ Sets(Task) = {Task.old} /\ Task.taken \in MaySet(Task)
           /\ Task.old # Task.taken /\ Task.old \in DOMAIN blocks
           /\ Task.taken \in DOMAIN blocks /\ NoBlock \notin DOMAIN blocks
           /\ ~Initialized(blocks, Task.old)
           /\ work[Len(work) - 2].do # "endfor"
<1>1. IsSeq(work) /\ Len(work) \in Nat /\ Task = work[1] /\ DOMAIN work = 1..Len(work)
      /\ Len(work) >= 1
  BY TaskIs
<1>2. Len(work) >= 4
  BY <1>1, WhereTasksAre DEF LoweringInv
<1>3. Sets(Task) = {Task.old} /\ Task.taken \in MaySet(Task)
  BY DEF Sets, MaySet
<1>4. 1 \in DOMAIN work
  BY <1>1
<1>5. MaySet(Task) \cap Sets(Task) = {} /\ \A b \in Sets(Task) : ~Initialized(blocks, b)
  BY <1>1, <1>4 DEF OnceInv, SetsInv
<1>6. /\ Task.old \in DOMAIN blocks /\ Task.taken \in DOMAIN blocks
      /\ NoBlock \notin DOMAIN blocks
  BY TaskIs, TypesAre DEF IsTask
<1>7. work[Len(work) - 2].do # "endfor"
  BY <1>2, NotInLoop
<1> QED
  BY <1>1, <1>2, <1>3, <1>5, <1>6, <1>7

LEMMA OnceNoFallthrough ==
    ASSUME TypesInv, Plain(fun), LoweringInv, OnceInv, NoFallthrough
    PROVE  OnceInv' /\ Keeps
<1> DEFINE join == Join(next, NoBlock)
           new == <<join>>
<1>1. /\ stage = "lower" /\ work # <<>> /\ fun' = fun /\ work' = new \o Tail(work)
      /\ blocks' = blocks /\ Task.do = "fallthrough"
  BY DEF NoFallthrough, Doing
<1>2. /\ Len(work) >= 4 /\ DOMAIN work = 1..Len(work) /\ Len(work) \in Nat
      /\ Task = work[1] /\ Sets(Task) = {Task.old} /\ Task.taken \in MaySet(Task)
      /\ Task.old # Task.taken /\ Task.old \in DOMAIN blocks
      /\ NoBlock \notin DOMAIN blocks
      /\ work[Len(work) - 2].do # "endfor"
  BY <1>1, ConditionalIs
<1>3. StillUnset /\ Keeps
  BY <1>1, StayUnset
<1>4. /\ Sets(join) = {Task.old} /\ MaySet(join) = {Task.taken, NoBlock}
      /\ join.do = "join"
  BY DEF Sets, MaySet, Join
<1> HIDE DEF join
<1>5. IsSeq(new) /\ Len(new) = 1 /\ new[1] = join
  BY Tuples
<1> HIDE DEF new
<1>6. ~Initialized(blocks', Task.old)
  <2>1. 1 \in DOMAIN work
    BY <1>2
  <2> QED
    BY <1>2, <1>3, <2>1 DEF StillUnset
<1>7. OnceStep(new, {})
  <2>1. \A i \in 1..Len(new) : i = 1 /\ new[i] = join
    BY <1>5
  <2>2. \A i \in 2..Len(new) : FALSE
    BY <1>5
  <2>3. \A i \in 2..Len(work) : \A b \in Sets(work[i]) : ~Initialized(blocks', b)
    BY <1>2, <1>3 DEF StillUnset
  <2> QED
    BY <1>1, <1>2, <1>4, <1>5, <1>6, <2>1, <2>2, <2>3 DEF OnceStep
<1> QED
  BY <1>1, <1>2, <1>3, <1>7, OnceInside

LEMMA OnceBeginElse ==
    ASSUME TypesInv, Plain(fun), LoweringInv, OnceInv, BeginElse
    PROVE  OnceInv' /\ Keeps
<1> DEFINE body == Body(Else.then)
           join == Join(Fresh, Fresh)
           new == <<body, join>>
<1>1. /\ stage = "lower" /\ work # <<>> /\ fun' = fun /\ work' = new \o Tail(work)
      /\ cur' = Fresh /\ Task.do = "fallthrough"
      /\ Fresh \notin DOMAIN blocks /\ Fresh # NoBlock
      /\ \A b \in DOMAIN blocks : blocks'[b] = blocks[b]
      /\ ~Initialized(blocks', Fresh)
  BY BeginElseIs DEF ElseBegun
<1>2. /\ Len(work) >= 4 /\ DOMAIN work = 1..Len(work) /\ Len(work) \in Nat
      /\ Task = work[1] /\ Sets(Task) = {Task.old} /\ Task.taken \in MaySet(Task)
      /\ Task.old # Task.taken /\ Task.old \in DOMAIN blocks
      /\ NoBlock \notin DOMAIN blocks
      /\ work[Len(work) - 2].do # "endfor"
  BY <1>1, ConditionalIs
<1>3. StillUnset /\ Keeps
  BY <1>1, StayUnset
<1>4. /\ Sets(join) = {Task.old} /\ MaySet(join) = {Task.taken, Fresh}
      /\ join.do = "join" /\ join.old = Task.old
      /\ Sets(body) = {} /\ MaySet(body) = {} /\ body.do = "body"
  BY DEF Sets, MaySet, Join, Body
<1> HIDE DEF join, body
<1>5. IsSeq(new) /\ Len(new) = 2 /\ new[1] = body /\ new[2] = join
  BY Tuples
<1> HIDE DEF new
<1>6. ~Initialized(blocks', Task.old)
  <2>1. 1 \in DOMAIN work
    BY <1>2
  <2> QED
    BY <1>2, <1>3, <2>1 DEF StillUnset
<1>7. OnceStep(new, {Fresh})
  <2>1. \A i \in 1..Len(new) : (i = 1 /\ new[i] = body) \/ (i = 2 /\ new[i] = join)
    <3>1. \A i \in 1..Len(new) : i = 1 \/ i = 2
      BY <1>5
    <3> QED
      BY <1>5, <3>1
  <2>2. \A i \in 2..Len(new) : new[i] = join
    BY <1>5, <2>1
  <2>3. \A i \in 2..Len(work) : \A b \in Sets(work[i]) : ~Initialized(blocks', b)
    BY <1>2, <1>3 DEF StillUnset
  <2>4. {Fresh} \cap DOMAIN blocks = {} /\ NoBlock \notin {Fresh} /\ Fresh # Task.old
    BY <1>1, <1>2
  <2>5. \A i \in 1..Len(new) :
            /\ Sets(new[i]) \subseteq Sets(Task) \cup {Fresh}
            /\ MaySet(new[i]) \subseteq MaySet(Task) \cup {Fresh} \cup {NoBlock}
            /\ \A b \in Sets(new[i]) : ~Initialized(blocks', b)
    BY <1>2, <1>4, <1>6, <2>1
  <2>6. \A i, j \in 1..Len(new) :
            /\ i # j => Sets(new[i]) \cap Sets(new[j]) = {}
            /\ MaySet(new[j]) \cap Sets(new[i]) = {}
    BY <1>2, <1>4, <2>1, <2>4
  <2>7. \A i \in 1..Len(new) :
            new[i].do \in {"fallthrough", "join"} => cur' # new[i].old
    BY <1>1, <1>4, <2>1, <2>4
  <2> QED
    BY <1>1, <1>2, <1>4, <1>5, <2>2, <2>3, <2>4, <2>5, <2>6, <2>7 DEF OnceStep
<1> QED
  BY <1>1, <1>2, <1>3, <1>7, OnceInside

LEMMA OnceBeginElif ==
    ASSUME TypesInv, Plain(fun), LoweringInv, OnceInv, BeginElif
    PROVE  OnceInv' /\ Keeps
<1> DEFINE body == Body(Else.then)
           join == Join(Fresh, NoBlock)
           new == <<body, ElifTask, join>>
           made == {Fresh, Fresh + 1}
<1>1. /\ stage = "lower" /\ work # <<>> /\ fun' = fun /\ work' = new \o Tail(work)
      /\ cur' = Fresh + 1 /\ Task.do = "fallthrough" /\ Fresh # Fresh + 1
      /\ made \cap DOMAIN blocks = {} /\ NoBlock \notin made
      /\ \A b \in DOMAIN blocks : blocks'[b] = blocks[b]
      /\ ~Initialized(blocks', Fresh) /\ ~Initialized(blocks', Fresh + 1)
  BY BeginElifIs DEF ElifBegun
<1>2. /\ Len(work) >= 4 /\ DOMAIN work = 1..Len(work) /\ Len(work) \in Nat
      /\ Task = work[1] /\ Sets(Task) = {Task.old} /\ Task.taken \in MaySet(Task)
      /\ Task.old # Task.taken /\ Task.old \in DOMAIN blocks
      /\ Task.taken \in DOMAIN blocks /\ NoBlock \notin DOMAIN blocks
      /\ work[Len(work) - 2].do # "endfor"
  BY <1>1, ConditionalIs
<1>3. StillUnset /\ Keeps
  BY <1>1, StayUnset
<1>4. /\ Sets(join) = {Task.old} /\ MaySet(join) = {Task.taken, NoBlock}
      /\ join.do = "join" /\ join.old = Task.old
      /\ Sets(body) = {} /\ MaySet(body) = {} /\ body.do = "body"
      /\ Sets(ElifTask) = {Fresh} /\ MaySet(ElifTask) = {Fresh + 1}
      /\ ElifTask.do = "fallthrough" /\ ElifTask.old = Fresh
  BY DEF Sets, MaySet, Join, Body, ElifTask
<1> HIDE DEF join, body
<1>5. IsSeq(new) /\ Len(new) = 3 /\ new[1] = body /\ new[2] = ElifTask /\ new[3] = join
  BY Tuples
<1> HIDE DEF new
<1>6. ~Initialized(blocks', Task.old)
  <2>1. 1 \in DOMAIN work
    BY <1>2
  <2> QED
    BY <1>2, <1>3, <2>1 DEF StillUnset
<1>7. OnceStep(new, made)
  <2>1. \A i \in 1..Len(new) :
            \/ i = 1 /\ new[i] = body
            \/ i = 2 /\ new[i] = ElifTask
            \/ i = 3 /\ new[i] = join
    <3>1. \A i \in 1..Len(new) : i = 1 \/ i = 2 \/ i = 3
      BY <1>5
    <3> QED
      BY <1>5, <3>1
  <2>3. \A i \in 2..Len(work) : \A b \in Sets(work[i]) : ~Initialized(blocks', b)
    BY <1>2, <1>3 DEF StillUnset
  <2>4. /\ Fresh # Task.old /\ Fresh + 1 # Task.old /\ Fresh # Task.taken
        /\ Fresh # NoBlock
    BY <1>1, <1>2
  <2>5. \A i \in 1..Len(new) :
            /\ Sets(new[i]) \subseteq Sets(Task) \cup made
            /\ MaySet(new[i]) \subseteq MaySet(Task) \cup made \cup {NoBlock}
            /\ \A b \in Sets(new[i]) : ~Initialized(blocks', b)
    BY <1>1, <1>2, <1>4, <1>6, <2>1
  <2>6. \A i, j \in 1..Len(new) :
            /\ i # j => Sets(new[i]) \cap Sets(new[j]) = {}
            /\ MaySet(new[j]) \cap Sets(new[i]) = {}
    BY SMTT(30), <1>1, <1>2, <1>4, <2>1, <2>4
  <2>7. \A i \in 1..Len(new) :
            new[i].do \in {"fallthrough", "join"} => cur' # new[i].old
    BY <1>1, <1>4, <2>1, <2>4
  <2>8. \A i \in 2..Len(new) : new[i].do # "body"
    <3>1. \A i \in 2..Len(new) : i \in 1..Len(new) /\ i # 1
      BY <1>5
    <3> QED
      BY <1>4, <2>1, <3>1
  <2> QED
    BY <1>1, <1>2, <1>4, <1>5, <2>3, <2>5, <2>6, <2>7, <2>8 DEF OnceStep
<1> QED
  BY <1>1, <1>2, <1>3, <1>7, OnceInside

(* A task inside of an if or a for is done, and so is an if or a for.      *)
Unchanged(i) == \A b \in Sets(work[i]) : ~Initialized(blocks', b)
LeavesRest ==
    /\ work' = Tail(work) /\ fun' = fun
    /\ \A i \in 2..Len(work) : Unchanged(i)

LEMMA OnceLeft ==
    ASSUME TypesInv, stage = "lower", work # <<>>, LoweringInv, OnceInv,
           Len(work) >= 4, LeavesRest
    PROVE  OnceInv'
<1> DEFINE new == <<>>
<1>1. IsSeq(work)
  BY TaskIs
<1>2. work' = Tail(work) /\ fun' = fun /\ \A i \in 2..Len(work) : Unchanged(i)
  BY DEF LeavesRest
<1>3. IsSeq(new) /\ Len(new) = 0 /\ work' = new \o Tail(work)
  BY <1>1, <1>2, NoTasks
<1> HIDE DEF new
<1>4. OnceStep(new, {})
  <2>1. \A i \in 1..Len(new) : FALSE
    BY <1>3
  <2>2. \A i \in 2..Len(new) : FALSE
    BY <1>3
  <2>3. ~(Len(new) >= 1)
    BY <1>3
  <2> QED
    BY <1>2, <1>3, <2>1, <2>2, <2>3 DEF OnceStep, Unchanged
<1> QED
  BY <1>4, OnceInside

LEMMA OnceStepFor ==
    ASSUME TypesInv, Plain(fun), LoweringInv, OnceInv, StepFor
    PROVE  OnceInv' /\ Keeps
<1>1. /\ stage = "lower" /\ work # <<>> /\ fun' = fun /\ work' = Tail(work)
      /\ blocks' = AddExpr(blocks, cur, <<"step", Task.for>>) /\ Task.do = "step"
  BY DEF StepFor, Doing
<1>2. \A b \in DOMAIN blocks : blocks'[b].exit = blocks[b].exit
  <2> DEFINE bs == AddExpr(blocks, cur, <<"step", Task.for>>)
  <2>1. \A b \in DOMAIN blocks : bs[b].exit = blocks[b].exit
    BY TypesAre, AnExprAdded
  <2> QED
    BY <1>1, <2>1
<1>3. StillUnset /\ Keeps
  BY <1>1, <1>2, StayUnset
<1>4. Len(work) >= 4 /\ DOMAIN work = 1..Len(work) /\ Len(work) \in Nat
  BY <1>1, TaskIs, WhereTasksAre DEF LoweringInv
<1>5. LeavesRest
  BY <1>1, <1>3, <1>4 DEF LeavesRest, StillUnset, Unchanged
<1> QED
  BY <1>1, <1>3, <1>4, <1>5, OnceLeft

LEMMA OnceJoinIf ==
    ASSUME TypesInv, Plain(fun), LoweringInv, OnceInv, JoinIf
    PROVE  OnceInv' /\ Keeps
<1>1. /\ stage = "lower" /\ work # <<>> /\ fun' = fun /\ work' = Tail(work)
      /\ blocks' = Joined(blocks, Task) /\ Task.do = "join"
  BY DEF JoinIf, Doing
<1>2. /\ Task.old \in DOMAIN blocks /\ Task.taken \in DOMAIN blocks
      /\ Task.else \in DOMAIN blocks \cup {NoBlock} /\ NoBlock \notin DOMAIN blocks
      /\ AreBlocks(blocks)
  BY <1>1, TaskIs, TypesAre DEF IsTask
<1>3. /\ Len(work) >= 4 /\ DOMAIN work = 1..Len(work) /\ Len(work) \in Nat
      /\ Task = work[1] /\ ~Initialized(blocks, Task.old)
  BY <1>1, ConditionalIs
<1>4. /\ \A b \in DOMAIN blocks : b \notin {Task.old, Task.taken, Task.else} =>
            blocks'[b].exit = blocks[b].exit
      /\ \A b \in DOMAIN blocks : b # Task.old /\ Initialized(blocks, b) =>
            blocks'[b].exit = blocks[b].exit
  BY <1>1, <1>2, JoinedIs
<1>5. Keeps
  BY <1>3, <1>4 DEF Keeps
<1>6. Sets(Task) \cup MaySet(Task) = {Task.old, Task.taken, Task.else}
  BY <1>1 DEF Sets, MaySet
<1>7. ASSUME NEW i \in 2..Len(work) PROVE Unchanged(i)
  <2>1. i \in DOMAIN work /\ 1 \in DOMAIN work /\ i # 1
    BY <1>3
  <2>2. /\ \A b \in Sets(work[i]) : ~Initialized(blocks, b)
        /\ Sets(work[i]) \cap Sets(work[1]) = {}
        /\ MaySet(work[1]) \cap Sets(work[i]) = {}
    BY <2>1 DEF OnceInv, SetsInv
  <2>3. Sets(work[i]) \subseteq DOMAIN blocks
    BY <1>1, <2>1, SetsAre
  <2>4. ASSUME NEW b \in Sets(work[i]) PROVE ~Initialized(blocks', b)
    <3>1. b \in DOMAIN blocks /\ b \notin {Task.old, Task.taken, Task.else}
      BY <1>3, <1>6, <2>2, <2>3
    <3> QED
      BY <1>4, <2>2, <3>1 DEF Initialized
  <2> QED
    BY <2>4 DEF Unchanged
<1>8. LeavesRest
  BY <1>1, <1>7 DEF LeavesRest
<1> QED
  BY <1>1, <1>3, <1>5, <1>8, OnceLeft

(* One task less, and nothing left but the body and the end.               *)
LEMMA FewTasks ==
    ASSUME TypesInv, stage = "lower", work # <<>>, work' = Tail(work),
           Len(work) \in {2, 3}
    PROVE  IsSeq(work') /\ Len(work') <= 2 /\ work'[1] = work[2]
<1> DEFINE w == Tail(work)
<1>1. /\ IsSeq(w) /\ Len(w) = Len(work) - 1
      /\ \A i \in 1..(Len(work) - 1) : w[i] = work[i + 1]
  BY TaskIs, Tailed
<1> HIDE DEF w
<1>2. 1 \in 1..(Len(work) - 1) /\ Len(work) - 1 <= 2 /\ 1 + 1 = 2
  <2> DEFINE n == Len(work)
  <2>1. n \in {2, 3}
    OBVIOUS
  <2> HIDE DEF n
  <2>2. 1 \in 1..(n - 1) /\ n - 1 <= 2
    BY <2>1
  <2> QED
    BY <2>2 DEF n
<1>3. w[1] = work[1 + 1]
  BY <1>1, <1>2
<1> QED
  BY <1>1, <1>2, <1>3 DEF w

LEMMA OnceLeaveBody ==
    ASSUME TypesInv, Plain(fun), LoweringInv, OnceInv, LeaveBody, LoweringInv'
    PROVE  OnceInv' /\ Keeps
<1>1. /\ stage = "lower" /\ work # <<>> /\ fun' = fun /\ work' = Tail(work)
      /\ blocks' = blocks /\ Task.do = "body"
  BY DEF LeaveBody, Doing
<1>2. StillUnset /\ Keeps
  BY <1>1, StayUnset
<1>3. /\ Len(work) = 2 \/ Len(work) >= 4
      /\ DOMAIN work = 1..Len(work) /\ Len(work) \in Nat
  BY <1>1, TaskIs, WhereTasksAre DEF LoweringInv
<1>4. CASE Len(work) >= 4
  <2>1. LeavesRest
    BY <1>1, <1>2, <1>3 DEF LeavesRest, StillUnset, Unchanged
  <2> QED
    BY <1>1, <1>2, <1>4, <2>1, OnceLeft
<1>5. CASE Len(work) = 2
  <2>1. IsSeq(work') /\ Len(work') <= 2 /\ work'[1] = work[2]
    BY <1>1, <1>5, FewTasks
  <2>2. work[2].do = "end"
    BY <1>5 DEF LoweringInv, ShapeInv
  <2>3. OpenInv'
    BY <2>1, <2>2 DEF OpenInv, InCode
  <2> QED
    BY <1>2, <2>1, <2>3, OnceFlat DEF LoweringInv
<1> QED
  BY <1>3, <1>4, <1>5

LEMMA OnceEndIf ==
    ASSUME TypesInv, Plain(fun), LoweringInv, OnceInv, EndIf, LoweringInv'
    PROVE  OnceInv' /\ Keeps
<1>1. /\ stage = "lower" /\ work # <<>> /\ fun' = fun /\ work' = Tail(work)
      /\ blocks' = blocks /\ cur' = next /\ Task.do = "endif"
  BY DEF EndIf, Doing
<1>2. Keeps
  BY <1>1 DEF Keeps
<1>3. Len(work) = 3
  BY <1>1, TaskIs, WhereTasksAre DEF LoweringInv
<1>4. IsSeq(work') /\ Len(work') <= 2
  BY <1>1, <1>3, FewTasks
<1>5. ~Initialized(blocks, next)
  BY <1>3 DEF LoweringInv, AddedInv, Inside
<1>6. OpenInv'
  BY <1>1, <1>5 DEF OpenInv, Initialized
<1> QED
  BY <1>2, <1>4, <1>6, OnceFlat DEF LoweringInv

LEMMA OnceEndFor ==
    ASSUME TypesInv, Plain(fun), LoweringInv, OnceInv, EndFor, LoweringInv'
    PROVE  OnceInv' /\ Keeps
<1>1. /\ stage = "lower" /\ work # <<>> /\ fun' = fun /\ work' = Tail(work)
      /\ blocks' = EndOfLoop(blocks, Task) /\ cur' = next /\ Task.do = "endfor"
  BY DEF EndFor, Doing
<1>2. Task.cmp \in DOMAIN blocks /\ Task.body \in DOMAIN blocks /\ AreBlocks(blocks)
  BY <1>1, TaskIs, TypesAre DEF IsTask
<1>3. \A b \in DOMAIN blocks : b \notin {Task.body, Task.cmp} =>
            blocks'[b].exit = blocks[b].exit
  BY <1>1, <1>2, LoopEnds
<1>4. Len(work) = 3 /\ Task = work[1] /\ 1 \in DOMAIN work
  BY <1>1, TaskIs, WhereTasksAre DEF LoweringInv
<1>5. ~Initialized(blocks, Task.body) /\ ~Initialized(blocks, Task.cmp)
  <2>1. Sets(Task) = {Task.cmp, Task.body}
    BY <1>1 DEF Sets
  <2> QED
    BY <1>4, <2>1 DEF OnceInv, SetsInv
<1>6. Keeps
  BY <1>3, <1>5 DEF Keeps
<1>7. ~Initialized(blocks, next) /\ next # NoBlock /\ next \notin ToSet(added)
  BY <1>4 DEF LoweringInv, AddedInv, Inside
<1>8. next \notin {Task.body, Task.cmp} /\ next \in DOMAIN blocks
  <2>1. Waits(Task) = {Task.cmp, Task.body}
    BY <1>1 DEF Waits
  <2>2. Waits(Task) \subseteq ToSet(added) \cup {NoBlock}
    BY <1>1, LoweringIs
  <2> QED
    BY <1>7, <2>1, <2>2, TypesAre
<1>9. ~Initialized(blocks', next)
  BY <1>3, <1>7, <1>8 DEF Initialized
<1>10. OpenInv'
  BY <1>1, <1>9 DEF OpenInv, Initialized
<1>11. IsSeq(work') /\ Len(work') <= 2
  BY <1>1, <1>4, FewTasks
<1> QED
  BY <1>6, <1>10, <1>11, OnceFlat DEF LoweringInv

(* At the end of the function only blocks without an exit get one.         *)
LEMMA KeepsEndFunction ==
    ASSUME TypesInv, EndFunction
    PROVE  Keeps
<1> DEFINE one == IF next = NoBlock THEN blocks
                  ELSE IfUnset(blocks, next, Branch(EndBlock))
           two == IfUnset(one, FirstBlock, Branch(EndBlock))
<1>1. blocks' = two
  BY DEF EndFunction, Finished
<1>2. /\ AreBlocks(blocks) /\ FirstBlock \in DOMAIN blocks
      /\ next \in DOMAIN blocks \cup {NoBlock}
  BY TypesAre
<1>3. /\ AreBlocks(one) /\ DOMAIN one = DOMAIN blocks
      /\ \A b \in DOMAIN blocks : Initialized(blocks, b) => one[b].exit = blocks[b].exit
  <2>1. CASE next = NoBlock
    BY <1>2, <2>1
  <2>2. CASE next # NoBlock
    <3>1. next \in DOMAIN blocks
      BY <1>2, <2>2
    <3> DEFINE cs == IfUnset(blocks, next, Branch(EndBlock))
    <3>2. Settled(blocks, next, cs)
      BY <1>2, <3>1, AnExitSettled
    <3> HIDE DEF cs
    <3>3. one = cs
      BY <2>2 DEF cs
    <3> QED
      BY <3>2, <3>3 DEF Settled
  <2> QED
    BY <2>1, <2>2
<1> HIDE DEF one
<1>4. Settled(one, FirstBlock, two)
  BY <1>2, <1>3, AnExitSettled
<1> HIDE DEF two
<1> QED
  BY <1>1, <1>3, <1>4 DEF Keeps, Settled, Initialized

LEMMA KeptInit == BInit => KeptInv
<1> SUFFICES ASSUME BInit PROVE OnceInv
  BY DEF KeptInv
<1>1. /\ ~Initialized(blocks, FirstBlock) /\ cur = FirstBlock
      /\ Len(work) = 2 /\ DOMAIN work = 1..2
      /\ work[1] = Body(fun.body) /\ work[2] = [do |-> "end"]
  BY InitIs
<1>2. work[1].do = "body" /\ work[2].do = "end"
  BY <1>1 DEF Body
<1>3. \A i \in DOMAIN work : i = 1 \/ i = 2
  BY <1>1
<1>4. OpenInv
  BY <1>1 DEF OpenInv
<1>5. SetsInv
  <2>1. \A i \in DOMAIN work : Sets(work[i]) = {} /\ MaySet(work[i]) = {}
    BY <1>2, <1>3 DEF Sets, MaySet
  <2> QED
    BY <2>1 DEF SetsInv
<1>6. CurInv
  BY <1>2, <1>3 DEF CurInv
<1>7. FirstInv /\ InLoopInv
  <2>1. \A i \in 2..(Len(work) - 2) : FALSE
    BY <1>1
  <2>2. ~Inside
    BY <1>1 DEF Inside
  <2> QED
    BY <2>1, <2>2 DEF FirstInv, InLoopInv
<1> QED
  BY <1>4, <1>5, <1>6, <1>7 DEF OnceInv

LEMMA KeptStep ==
    TypesInv /\ PlainInv /\ KeptInv /\ [BNext]_bvars => KeptInv' /\ ExitIsKept
<1> SUFFICES ASSUME TypesInv, PlainInv, KeptInv, [BNext]_bvars
             PROVE  KeptInv' /\ ExitIsKept
  OBVIOUS
<1>1. TypesInv' /\ PlainInv'
  BY TypesStep, PlainStep
<1>2. fun' = fun
  BY DEF BNext, Handlers, LeaveBody, LowerExpr, LowerReturn, BeginIf, NoFallthrough,
     BeginElif, BeginElse, JoinIf, EndIf, BeginFor, StepFor, EndFor, LowerMatch,
     EndFunction, Generate, RunBlock, Done, bvars
<1>3. CASE ~(Plain(fun) /\ Sound(fun))
  BY <1>2, <1>3 DEF KeptInv, ExitIsKept, Plain, Sound
<1>4. CASE Plain(fun) /\ Sound(fun)
  <2> SUFFICES (stage' = "lower" => OnceInv') /\ Keeps
    BY <1>4 DEF KeptInv, ExitIsKept, Keeps
  <2>1. CASE Handlers
    <3>1. stage = "lower"
      BY <2>1 DEF Handlers, LeaveBody, LowerExpr, LowerReturn, BeginIf,
         NoFallthrough, BeginElif, BeginElse, JoinIf, EndIf, BeginFor, StepFor,
         EndFor, LowerMatch, EndFunction, At, InBody, Doing
    <3>2. LoweringInv /\ OnceInv
      BY <1>4, <3>1 DEF PlainInv, KeptInv
    <3>3. CASE EndFunction
      <4>1. stage' = "backend"
        BY <3>3 DEF EndFunction
      <4> QED
        BY <3>3, <4>1, KeepsEndFunction
    <3>4. CASE BeginFor
      BY <1>4, <3>2, <3>4, OnceBeginFor
    <3>5. CASE ~EndFunction /\ ~BeginFor
      <4>1. stage' = stage
        BY <2>1, <3>5 DEF Handlers, LeaveBody, LowerExpr, LowerReturn, BeginIf,
           NoFallthrough, BeginElif, BeginElse, JoinIf, EndIf, StepFor, EndFor,
           LowerMatch
      <4>2. LoweringInv'
        BY <1>1, <1>2, <1>4, <3>1, <4>1 DEF PlainInv, Plain
      <4> QED
        BY <1>1, <1>4, <2>1, <3>2, <3>5, <4>2, OnceLeaveBody, OnceLowerExpr,
           OnceLowerReturn, OnceBeginIf, OnceNoFallthrough, OnceBeginElif,
           OnceBeginElse, OnceJoinIf, OnceEndIf, OnceStepFor, OnceEndFor,
           OnceLowerMatch DEF Handlers
    <3> QED
      BY <3>3, <3>4, <3>5
  <2>2. CASE Generate
    <3>1. stage' # "lower" /\ blocks' = blocks
      BY <2>2 DEF Generate, Verdict
    <3> QED
      BY <3>1 DEF Keeps
  <2>3. CASE RunBlock
    <3>1. stage' # "lower" /\ blocks' = blocks
      BY <2>3 DEF RunBlock
    <3> QED
      BY <3>1 DEF Keeps
  <2>4. CASE UNCHANGED bvars
    <3>1. Keeps
      BY <2>4 DEF Keeps, bvars
    <3>2. stage' = "lower" => OnceInv
      BY <1>4, <2>4 DEF KeptInv, bvars
    <3>3. work' = work /\ blocks' = blocks /\ cur' = cur
      BY <2>4 DEF bvars
    <3>4. (OpenInv => OpenInv') /\ (CurInv => CurInv') /\ (FirstInv => FirstInv')
      BY <3>3 DEF OpenInv, CurInv, FirstInv, InCode, Initialized
    <3>5. ASSUME SetsInv PROVE SetsInv'
      <4>1. /\ \A i \in DOMAIN work' : \A b \in Sets(work'[i]) : ~Initialized(blocks', b)
            /\ \A i, j \in DOMAIN work' :
                /\ i # j => Sets(work'[i]) \cap Sets(work'[j]) = {}
                /\ MaySet(work'[j]) \cap Sets(work'[i]) = {}
        BY <3>3, <3>5 DEF SetsInv
      <4> QED
        BY <4>1 DEF SetsInv, Initialized, Sets, MaySet
    <3>6. InLoopInv => InLoopInv'
      BY <1>2, <3>3 DEF InLoopInv, InLoop, Inside
    <3>7. OnceInv => OnceInv'
      BY <3>4, <3>5, <3>6 DEF OnceInv
    <3> QED
      BY <3>1, <3>2, <3>7
  <2> QED
    BY <2>1, <2>2, <2>3, <2>4 DEF BNext, Done
<1> QED
  BY <1>3, <1>4

-----------------------------------------------------------------------------

LEMMA BlocksIInvHolds == BSpec => []BlocksIInv
<1>1. BInit => BlocksIInv
  BY TypesInit, PlainInit, KeptInit DEF BlocksIInv
<1>2. BlocksIInv /\ [BNext]_bvars => BlocksIInv'
  BY TypesStep, PlainStep, KeptStep DEF BlocksIInv
<1> QED
  BY <1>1, <1>2, PTL DEF BSpec

(* Every exit that the handlers of a function make leads to a block of the *)
(* function, and a plain function ends neither in the backend's "unmapped" *)
(* or "critical" exits nor in an assertion of rir_ctx: whatever stands in  *)
(* its body, and however many ifs, fors and matches follow each other.     *)
THEOREM ExitsLeadToBlocks == BSpec => []BlocksInv
<1>1. BlocksIInv => BlocksInv
  BY DEF BlocksIInv, TypesInv, PlainInv, BlocksInv, PlainIsGenerated
<1> QED
  BY <1>1, BlocksIInvHolds, PTL

(* No step of the lowering gives a second exit to a block that has one, in *)
(* any function that is plain and has neither a return in a loop nor code  *)
(* after a return, although rir_block_exit_init_branch() never asks.       *)
THEOREM ExitsAreSetOnce == BSpec => ExitSetOnce
<1>1. BlocksIInv /\ [BNext]_bvars => [ExitIsKept]_bvars
  BY KeptStep DEF BlocksIInv
<1> QED
  BY <1>1, BlocksIInvHolds, PTL DEF BSpec, ExitSetOnce

=============================================================================
