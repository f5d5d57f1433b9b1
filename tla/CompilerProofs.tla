---------------------------- MODULE CompilerProofs ----------------------------
(***************************************************************************)
(* What Compiler promises, proved for every command line over any files.   *)
(***************************************************************************)
EXTENDS Compiler, ModuleSortProofs, FiniteSetTheorems, WellFoundedInduction

-----------------------------------------------------------------------------
(* Sets of numbers, sequences.                                             *)

(* A set of numbers that is not empty has a least one: in its initial      *)
(* segments, which are finite sets, there is one with none inside of it.   *)
LEMMA LeastNumber ==
    ASSUME NEW S \in SUBSET Nat, S # {}
    PROVE  \E n \in S : \A m \in S : n <= m
<1> DEFINE Segments == {1..n : n \in S}
<1>1. Segments \subseteq FiniteSubsetsOf(Nat)
  <2> SUFFICES ASSUME NEW n \in S PROVE 1..n \in FiniteSubsetsOf(Nat)
    OBVIOUS
  <2>1. IsFiniteSet(1..n)
    BY FS_Interval
  <2> QED
    BY <2>1 DEF FiniteSubsetsOf
<1>2. Segments # {}
  OBVIOUS
<1>3. PICK x \in Segments :
        \A y \in Segments : ~(<<y, x>> \in StrictSubsetOrdering(Nat))
  BY <1>1, <1>2, FS_StrictSubsetOrderingWellFounded, WFMin
<1>4. PICK n \in S : x = 1..n
  OBVIOUS
<1>5. ASSUME NEW m \in S, ~(n <= m) PROVE FALSE
  <2>1. m < n /\ m \in Nat /\ n \in Nat
    BY <1>5
  <2>2. 1..m \subseteq 1..n /\ n \in 1..n /\ n \notin 1..m
    BY <2>1
  <2>3. <<1..m, 1..n>> \in StrictSubsetOrdering(Nat)
    BY <2>2 DEF StrictSubsetOrdering
  <2> QED
    BY <1>3, <1>4, <2>3
<1> QED
  BY <1>5

(* Induction: a set that holds 0, and n + 1 with every n, holds all.       *)
LEMMA AllNumbers ==
    ASSUME NEW S \in SUBSET Nat, 0 \in S, \A n \in S : n + 1 \in S
    PROVE  S = Nat
<1> SUFFICES ASSUME Nat \ S # {} PROVE FALSE
  OBVIOUS
<1>1. PICK n \in Nat \ S : \A m \in Nat \ S : n <= m
  BY LeastNumber
<1>2. n # 0 /\ n - 1 \in Nat /\ n - 1 \in S
  BY <1>1
<1> QED
  BY <1>1, <1>2

(* What a sequence over any set is known to be.                            *)
LEMMA SeqsAreSeqs ==
    ASSUME NEW T, NEW s \in Seq(T)
    PROVE  /\ IsSeq(s) /\ Len(s) \in Nat /\ DOMAIN s = 1..Len(s)
           /\ \A k \in 1..Len(s) : s[k] \in T
<1>1. Len(s) \in Nat /\ DOMAIN s = 1..Len(s) /\ \A k \in 1..Len(s) : s[k] \in T
  OBVIOUS
<1>2. s = [k \in 1..Len(s) |-> s[k]]
  BY <1>1
<1>3. \A k \in 1..Len(s) : s[k] \in Range(s)
  BY <1>1 DEF Range
<1> QED
  BY <1>1, <1>2, <1>3 DEF IsSeq

(* A sequence is a function over its positions.                            *)
LEMMA FactsOfSeq ==
    ASSUME NEW s, IsSeq(s)
    PROVE  /\ Len(s) \in Nat /\ DOMAIN s = 1..Len(s)
           /\ \A k \in 1..Len(s) : s[k] \in Range(s)
           /\ s = [k \in 1..Len(s) |-> s[k]]
  BY DEF IsSeq

(* A function over 1..n is a sequence of n elements.                       *)
LEMMA MadeSeq ==
    ASSUME NEW n \in Nat, NEW s, DOMAIN s = 1..n, s = [k \in 1..n |-> s[k]]
    PROVE  IsSeq(s) /\ Len(s) = n
<1>1. \A k \in 1..n : s[k] \in Range(s)
  BY DEF Range
<1> QED
  BY <1>1 DEF IsSeq

(* What two sequences give when they are joined.                           *)
LEMMA JoinedSeqs ==
    ASSUME NEW s, NEW t, IsSeq(s), IsSeq(t)
    PROVE  /\ IsSeq(s \o t) /\ Len(s \o t) = Len(s) + Len(t)
           /\ \A k \in 1..Len(s) : (s \o t)[k] = s[k]
           /\ \A k \in 1..Len(t) : (s \o t)[Len(s) + k] = t[k]
           /\ \A k \in 1..(Len(s) + Len(t)) :
                 \/ k \in 1..Len(s) /\ (s \o t)[k] = s[k]
                 \/ /\ k - Len(s) \in 1..Len(t)
                    /\ (s \o t)[k] = t[k - Len(s)]
<1> DEFINE T == Range(s) \cup Range(t)
<1>1. s \in Seq(T) /\ t \in Seq(T)
  <2>1. s \in Seq(Range(s)) /\ t \in Seq(Range(t))
    BY DEF IsSeq
  <2>2. Range(s) \subseteq T /\ Range(t) \subseteq T
    OBVIOUS
  <2> QED
    BY <2>1, <2>2, SeqMonotonic
<1>2. /\ s \o t \in Seq(T) /\ Len(s \o t) = Len(s) + Len(t)
      /\ \A k \in 1..(Len(s) + Len(t)) :
            (s \o t)[k] = IF k <= Len(s) THEN s[k] ELSE t[k - Len(s)]
  BY <1>1, ConcatProperties
<1>3. Len(s) \in Nat /\ Len(t) \in Nat
  BY <1>1
<1>4. IsSeq(s \o t)
  BY <1>2, SeqsAreSeqs
<1> QED
  BY <1>2, <1>3, <1>4

(* Sequences joined to one: its elements are theirs.                       *)
LEMMA FlatSeqs ==
    ASSUME NEW T, NEW n \in Nat, NEW seqs, seqs = [i \in 1..n |-> seqs[i]],
           \A i \in 1..n : seqs[i] \in Seq(T)
    PROVE  FlattenSeq(seqs) \in Seq(T)
<1>1. DOMAIN seqs = 1..n /\ Len(seqs) = n
  BY MadeSeq
<1>2. CASE n = 0
  <2>1. seqs = <<>>
    BY <1>1, <1>2
  <2>2. FlattenSeq(seqs) = <<>>
    BY <1>1, <1>2, <2>1 DEF FlattenSeq
  <2> QED
    BY <2>2
<1>3. CASE n # 0
  <2> DEFINE flatten[i \in 1..Len(seqs)] ==
               IF i = 1 THEN seqs[i] ELSE flatten[i - 1] \o seqs[i]
             Joins(f, k) == f = [i \in 1..k |-> IF i = 1 THEN seqs[i]
                                                ELSE f[i - 1] \o seqs[i]]
             Joinable == {k \in Nat : k <= n => \E f \in [1..k -> Seq(T)] : Joins(f, k)}
  <2>1. 0 \in Joinable
    <3> DEFINE e == [i \in 1..0 |-> <<>>]
    <3>1. e \in [1..0 -> Seq(T)]
      OBVIOUS
    <3>2. Joins(e, 0)
      OBVIOUS
    <3> QED
      BY <3>1, <3>2
  <2>2. ASSUME NEW k \in Nat, k + 1 <= n,
               NEW g \in [1..k -> Seq(T)], Joins(g, k)
        PROVE  \E f \in [1..(k + 1) -> Seq(T)] : Joins(f, k + 1)
    <3> DEFINE new == IF k = 0 THEN seqs[1] ELSE g[k] \o seqs[k + 1]
               h == [i \in 1..(k + 1) |-> IF i = k + 1 THEN new ELSE g[i]]
    <3>2. new \in Seq(T)
      <4>1. CASE k = 0
        BY <4>1, <1>3
      <4>2. CASE k # 0
        <5>0. k \in 1..k /\ k + 1 \in 1..n
          BY <2>2, <4>2
        <5>1. g[k] \in Seq(T) /\ seqs[k + 1] \in Seq(T)
          BY <2>2, <5>0
        <5> QED
          BY <4>2, <5>1
      <4> QED
        BY <4>1, <4>2
    <3>3. h \in [1..(k + 1) -> Seq(T)]
      <4> SUFFICES ASSUME NEW i \in 1..(k + 1)
                   PROVE  (IF i = k + 1 THEN new ELSE g[i]) \in Seq(T)
        BY Zenon
      <4>1. i # k + 1 => i \in 1..k
        BY <2>2
      <4> QED
        BY <2>2, <3>2, <4>1
    <3>4. ASSUME NEW i \in 1..(k + 1)
          PROVE  h[i] = IF i = 1 THEN seqs[i] ELSE h[i - 1] \o seqs[i]
      <4>1. CASE i = k + 1 /\ k = 0
        BY <4>1
      <4>2. CASE i = k + 1 /\ k # 0
        <5>1. i # 1 /\ i - 1 = k /\ k # k + 1 /\ k \in 1..(k + 1)
          BY <4>2
        <5>2. h[i] = g[k] \o seqs[k + 1] /\ h[k] = g[k]
          BY <4>2, <5>1
        <5> QED
          BY <4>2, <5>1, <5>2
      <4>3. CASE i # k + 1
        <5>1. i \in 1..k /\ h[i] = g[i]
          BY <4>3
        <5>2. g[i] = IF i = 1 THEN seqs[i] ELSE g[i - 1] \o seqs[i]
          BY <2>2, <5>1
        <5>3. i # 1 => h[i - 1] = g[i - 1]
          BY <5>1
        <5> QED
          BY <5>1, <5>2, <5>3
      <4> QED
        BY <4>1, <4>2, <4>3
    <3>5. Joins(h, k + 1)
      BY <3>3, <3>4
    <3> QED
      BY <3>3, <3>5
  <2>3. n \in Joinable
    <3> HIDE DEF Joins
    <3>1. \A k \in Joinable : k + 1 \in Joinable
      BY <2>2
    <3> QED
      BY <2>1, <3>1, AllNumbers
  <2>4. PICK f \in [1..n -> Seq(T)] : Joins(f, n)
    BY <2>3
  <2>5. flatten = CHOOSE g : Joins(g, n)
    BY <1>1 
  <2>6. Joins(flatten, n)
    BY <2>4, <2>5
  <2>7. ASSUME NEW i \in 1..n
        PROVE  flatten[i] = IF i = 1 THEN seqs[i] ELSE flatten[i - 1] \o seqs[i]
    BY <2>6
  <2> HIDE DEF flatten
  <2> DEFINE Typed == {k \in Nat : k + 1 <= n => flatten[k + 1] \in Seq(T)}
  <2>8. 0 \in Typed
    BY <2>7
  <2>9. ASSUME NEW k \in Typed PROVE k + 1 \in Typed
    <3> SUFFICES ASSUME k + 2 <= n PROVE flatten[k + 2] \in Seq(T)
      OBVIOUS
    <3>1. flatten[k + 1] \in Seq(T) /\ seqs[k + 2] \in Seq(T)
      OBVIOUS
    <3>2. flatten[k + 2] = flatten[k + 1] \o seqs[k + 2]
      <4>1. k + 2 \in 1..n /\ k + 2 # 1 /\ (k + 2) - 1 = k + 1
        OBVIOUS
      <4> QED
        BY <2>7, <4>1
    <3> QED
      BY <3>1, <3>2
  <2>10. n - 1 \in Typed
    <3>1. Typed = Nat
      <4> HIDE DEF Typed
      <4>1. Typed \subseteq Nat
        BY DEF Typed
      <4> QED
        BY <2>8, <2>9, <4>1, AllNumbers
    <3> QED
      BY <1>3, <3>1
  <2>11. flatten[n] \in Seq(T)
    BY <2>10, <1>3
  <2>12. FlattenSeq(seqs) = flatten[n]
    BY <1>1, <1>3 DEF FlattenSeq, flatten
  <2> QED
    BY <2>11, <2>12
<1> QED
  BY <1>2, <1>3

-----------------------------------------------------------------------------
(* The module statements of a file, one after the other.  They are told    *)
(* apart by how many stand before them, and there are as many as such      *)
(* counts.                                                                 *)
LEMMA ModuleStatements ==
    ASSUME NEW file, IsFile(file)
    PROVE  /\ Cardinality(ModuleItems(file)) \in Nat
           /\ ModuleItems(file) # {} => Cardinality(ModuleItems(file)) # 0
           /\ \A k \in 1..Cardinality(ModuleItems(file)) :
                 ModuleAt(file, k) \in ModuleItems(file)
           /\ \A j, k \in 1..Cardinality(ModuleItems(file)) :
                 ModuleAt(file, j) = ModuleAt(file, k) => j = k
<1> DEFINE M == ModuleItems(file)
           Before(i) == {j \in M : j < i}
           n == Cardinality(M)
           count == [i \in M |-> Cardinality(Before(i))]
<1>1. M \subseteq 1..Len(file.items) /\ Len(file.items) \in Nat
  BY FactsOfSeq DEF IsFile, ModuleItems
<1>2. IsFiniteSet(M)
  <2>1. IsFiniteSet(1..Len(file.items))
    BY <1>1, FS_Interval
  <2> QED
    BY <1>1, <2>1, FS_Subset
<1>3. n \in Nat /\ (M # {} => n # 0)
  BY <1>2, FS_CardinalityType, FS_EmptySet
<1> HIDE DEF M
<1>4. ASSUME NEW i \in M
      PROVE  /\ IsFiniteSet(Before(i)) /\ Cardinality(Before(i)) \in Nat
             /\ Cardinality(Before(i)) \in 0..(n - 1)
             /\ IsFiniteSet(Before(i) \cup {i})
             /\ Cardinality(Before(i) \cup {i}) = Cardinality(Before(i)) + 1
  <2>1. i \in Nat /\ i \notin Before(i) /\ Before(i) \in SUBSET M
        /\ Before(i) \cup {i} \in SUBSET M
    BY <1>1
  <2> HIDE DEF Before
  <2>2. IsFiniteSet(Before(i)) /\ Cardinality(Before(i)) \in Nat
    BY <1>2, <2>1, FS_Subset, FS_CardinalityType
  <2>3. /\ IsFiniteSet(Before(i) \cup {i})
        /\ Cardinality(Before(i) \cup {i}) = Cardinality(Before(i)) + 1
    BY <2>1, <2>2, FS_AddElement
  <2>4. Cardinality(Before(i) \cup {i}) <= n
    BY <1>2, <2>1, FS_Subset
  <2> QED
    BY <1>3, <2>2, <2>3, <2>4
<1>5. ASSUME NEW i \in M, NEW j \in M, i < j
      PROVE  Cardinality(Before(i)) < Cardinality(Before(j))
  <2>1. Before(i) \cup {i} \in SUBSET Before(j)
    <3>1. ASSUME NEW x \in Before(i) \cup {i} PROVE x \in M /\ x < j
      <4>1. x \in M /\ (x < i \/ x = i)
        OBVIOUS
      <4>2. x \in Nat /\ i \in Nat /\ j \in Nat
        BY <1>1, <4>1
      <4> QED
        BY <1>5, <4>1, <4>2
    <3> QED
      BY <3>1
  <2> HIDE DEF Before
  <2>2. Cardinality(Before(i) \cup {i}) <= Cardinality(Before(j))
    BY <1>4, <2>1, FS_Subset
  <2>3. Cardinality(Before(i)) \in Nat /\ Cardinality(Before(j)) \in Nat
    BY <1>4
  <2> QED
    BY <1>4, <2>2, <2>3
<1> HIDE DEF Before
<1>6. count \in Injection(M, 0..(n - 1))
  <2>1. count \in [M -> 0..(n - 1)]
    BY <1>4
  <2>2. ASSUME NEW i \in M, NEW j \in M, count[i] = count[j] PROVE i = j
    <3>1. i \in Nat /\ j \in Nat
      BY <1>1
    <3>2. Cardinality(Before(i)) = Cardinality(Before(j))
      BY <2>2
    <3>3. Cardinality(Before(i)) \in Nat
      BY <1>4
    <3> QED
      BY <1>5, <3>1, <3>2, <3>3
  <2> QED
    BY <2>1, <2>2 DEF Injection, IsInjective
<1>7. count \in Surjection(M, 0..(n - 1))
  <2>1. IsFiniteSet(0..(n - 1)) /\ Cardinality(0..(n - 1)) = n
    BY <1>3, FS_Interval
  <2> QED
    BY <1>6, <2>1, FS_Injection
<1>8. ASSUME NEW k \in 1..n
      PROVE  /\ ModuleAt(file, k) \in M
             /\ Cardinality(Before(ModuleAt(file, k))) = k - 1
  <2>1. k - 1 \in 0..(n - 1)
    BY <1>3
  <2>2. \E i \in M : count[i] = k - 1
    BY <1>7, <2>1 DEF Surjection
  <2>3. \E i \in M : Cardinality(Before(i)) = k - 1
    BY <2>2
  <2> QED
    BY <2>3 DEF ModuleAt, M, Before
<1>9. ASSUME NEW j \in 1..n, NEW k \in 1..n, ModuleAt(file, j) = ModuleAt(file, k)
      PROVE  j = k
  <2>1. j - 1 = k - 1
    BY <1>8, <1>9
  <2> QED
    BY <1>3, <2>1
<1> QED
  BY <1>3, <1>8, <1>9 DEF M

(* The statements of a file, modules opened, are statements.               *)
LEMMA FlatStatements ==
    ASSUME NEW file, IsFile(file)
    PROVE  /\ IsSeq(Flat(file))
           /\ \A k \in DOMAIN Flat(file) : IsStatement(Flat(file)[k])
<1> DEFINE n == Len(file.items)
           U == (UNION {Range(file.items[i].body) : i \in ModuleItems(file)})
                    \cup Range(file.items)
           T == {s \in U : IsStatement(s)}
           seqs == [i \in DOMAIN file.items |->
                       IF file.items[i].is = "module" THEN file.items[i].body
                                                      ELSE <<file.items[i]>>]
<1>1. n \in Nat /\ DOMAIN file.items = 1..n
      /\ \A i \in 1..n : file.items[i] \in Range(file.items)
  BY FactsOfSeq DEF IsFile
<1>2. ASSUME NEW i \in 1..n PROVE seqs[i] \in Seq(T)
  <2>1. CASE file.items[i].is = "module"
    <3>1. i \in ModuleItems(file) /\ seqs[i] = file.items[i].body
      BY <1>1, <2>1 DEF ModuleItems
    <3>2. /\ IsSeq(file.items[i].body)
          /\ \A s \in Range(file.items[i].body) : IsStatement(s)
      BY <1>1, <2>1 DEF IsFile, IsStatement
    <3>3. Range(file.items[i].body) \subseteq T
      BY <3>1, <3>2
    <3> HIDE DEF T
    <3> QED
      BY <3>1, <3>2, <3>3, SeqMonotonic DEF IsSeq
  <2>2. CASE file.items[i].is # "module"
    <3>1. file.items[i] \in T
      <4>1. IsStatement(file.items[i])
        BY <1>1, <2>2 DEF IsFile
      <4>2. file.items[i] \in U
        <5>1. file.items[i] \in Range(file.items)
          BY <1>1
        <5> QED
          BY <5>1, Zenon
      <4> HIDE DEF U
      <4> QED
        BY <4>1, <4>2
    <3>2. seqs[i] = <<file.items[i]>>
      BY <1>1, <2>2
    <3> HIDE DEF T, seqs
    <3> QED
      BY <3>1, <3>2
  <2> QED
    BY <2>1, <2>2
<1>3. seqs = [i \in 1..n |-> seqs[i]]
  BY <1>1
<1>4. FlattenSeq(seqs) \in Seq(T)
  <2> HIDE DEF seqs, T
  <2> QED
    BY <1>1, <1>2, <1>3, FlatSeqs
<1>5. Flat(file) \in Seq(T)
  BY <1>4 DEF Flat
<1>6. \A s \in T : IsStatement(s)
  OBVIOUS
<1> HIDE DEF T
<1> QED
  BY <1>5, <1>6, SeqsAreSeqs

-----------------------------------------------------------------------------
(* The inductive invariant.                                                *)

(* The fronts: the inputs that have one, the last one first, and below     *)
(* all the standard library.                                               *)
Fed == [k \in 1..added |-> job.inputs[added + 1 - k]]

FrontsInv ==
    /\ job \in CommandLines
    /\ added \in 0..Len(job.inputs)
    /\ phase = "args" => fronts = Fed
    /\ phase # "args" => added = Len(job.inputs) /\ fronts = <<Stdlib>> \o Fed

(* The fronts whose parsing is over, unless one was refused.               *)
IsParsed(f) ==
    /\ f \in 1..Len(fronts)
    /\ phase \notin {"args", "failed"}
    /\ phase = "parse" => f < at

(* The modules are in the order of their fronts, those of one front are    *)
(* different ones and the file itself is the last of them.  The library's  *)
(* is the first of all.                                                    *)
InOrder(j, k) ==
    \/ modules[j].front < modules[k].front
    \/ /\ modules[j].front = modules[k].front
       /\ modules[j].item # modules[k].item
       /\ ~IsRoot(j)

ModulesInv ==
    /\ IsSeq(modules)
    /\ mainFront \in 0..Len(fronts)
    /\ \A m \in DOMAIN modules :
          /\ modules[m].front \in 1..Len(fronts)
          /\ modules[m].item \in Nat
          /\ ~IsRoot(m) => modules[m].item \in ModuleItems(FileOf(m))
          /\ IsRoot(m) => modules[m].front = mainFront /\ HasMain(FileOf(m))
    /\ \A j, k \in DOMAIN modules : j < k => InOrder(j, k)
    /\ phase = "args" => modules = <<>> /\ mainFront = 0
    /\ phase = "parse" =>
          mainFront < at /\ \A m \in DOMAIN modules : modules[m].front < at
    /\ \A f \in 1..Len(fronts) : IsParsed(f) =>
          /\ HasMain(fronts[f]) =>
                /\ mainFront = f
                /\ \E m \in DOMAIN modules :
                      modules[m].front = f /\ modules[m].item = 0
          /\ ModuleItems(fronts[f]) # {} =>
                \E m \in DOMAIN modules : modules[m].front = f
    /\ IsParsed(1) =>
          Len(modules) # 0 /\ modules[1].front = 1 /\ modules[1].item = 1

(* The tables that go by modules or by fronts.                             *)
RirStates == {"none", "created", "processed"}

TablesInv ==
    /\ Len(deps) = Len(modules)
    /\ IsSeq(symbols) /\ Len(symbols) = Len(modules)
    /\ IsSeq(rirs) /\ Len(rirs) = Len(modules)
    /\ \A m \in DOMAIN modules : rirs[m] \in RirStates
    /\ phase # "args" =>
          DOMAIN scopes = 1..Len(fronts) /\ scopes = [f \in 1..Len(fronts) |-> scopes[f]]

(* How far the walk over the imports is, and where each phase may be.      *)
Sorting == {"args", "parse", "names"}
AfterNames ==
    {"resolve", "analyze", "rir", "own", "emit", "tools", "done", "unlinked",
     "aborted"}
AfterSort == AfterNames \ {"resolve"}

OrderInv ==
    /\ phase \in Sorting \cup AfterNames \cup {"failed"}
    /\ phase \in Sorting => sortpc = "idle"
    /\ phase = "resolve" => sortpc \in {"idle", "walk"}
    /\ phase \in AfterSort => sortpc = "sorted"
    /\ phase \in {"args", "resolve", "own"} => at = 1
    /\ phase = "parse" => at \in 1..Len(fronts)
    /\ phase \in {"names", "emit"} => at \in 1..Len(modules)
    /\ phase \in {"analyze", "rir"} => at \in 1..Len(sorted)

NamesInv ==
    /\ phase = "names" =>
          \A j, k \in 1..(at - 1) : Name(j) = Name(k) => j = k
    /\ phase \in AfterNames =>
          \A j, k \in DOMAIN modules : Name(j) = Name(k) => j = k

(* A module of the list that this phase has been through.                  *)
Reached(m) == \E p \in 1..(at - 1) : sorted[p] = m

(* How far the modules are that need an analysis and a translation.        *)
ProgressInv ==
    \A m \in DOMAIN modules :
        /\ FromRir(m) => rirs[m] = "created"
        /\ ~FromRir(m) =>
              /\ phase \in Sorting \cup {"resolve"} => rirs[m] = "none"
              /\ phase = "analyze" =>
                    rirs[m] = IF Reached(m) THEN "created" ELSE "none"
              /\ phase = "rir" =>
                    rirs[m] = IF Reached(m) THEN "processed" ELSE "created"
              /\ phase \in {"own", "emit", "tools", "done"} => rirs[m] = "processed"

(* What the first pass has been through belongs to modules it has reached, *)
(* whose names are in the root symbol table of their front.                *)
PassedInv ==
    /\ phase \in Sorting \cup {"resolve"} => passed = {}
    /\ phase = "analyze" =>
          \A f \in 1..Len(fronts), i \in Nat : <<f, i>> \in passed =>
              \E m \in DOMAIN modules :
                  /\ Reached(m) /\ ~FromRir(m)
                  /\ modules[m].front = f /\ i \in Subtree(m)
                  /\ NamesIn(m) \subseteq scopes[f]

(* What the analysis has found out of the modules it has been through.     *)
Analyzed(m) == ~FromRir(m) /\ rirs[m] # "none"

SymbolsInv ==
    \A m \in DOMAIN modules : Analyzed(m) =>
        /\ FnNames(Children(m)) \subseteq symbols[m]
        /\ \A d \in Imports(m) :
              /\ ~FromRir(d) => Analyzed(d)
              /\ ~FromRir(d) /\ ~IsRoot(m) =>
                    FnNames(Children(m)) \cap FnNames(Children(d)) = {}

TranslatedInv ==
    \A m \in DOMAIN modules : rirs[m] = "processed" =>
        /\ ~FromRir(m)
        /\ CallsOut(m) \subseteq DepFns(m)
        /\ CallsOut(m) # {} => FirstIsStdlib(m)

EmitInv ==
    /\ linkSource \in 0..1 /\ emitted \in 0..Len(modules)
    /\ phase \in Sorting \cup {"resolve", "analyze", "rir", "own"} =>
          linkSource = 0 /\ emitted = 0
    /\ phase = "emit" => emitted = at - 1 /\ linkSource = (IF at = 1 THEN 0 ELSE 1)
    /\ phase = "tools" => emitted = Len(modules)
    /\ linkSource = 1 => Len(modules) # 0

ReportInv ==
    /\ msgs \subseteq 1..Len(fronts)
    /\ phase = "args" => msgs = {}
    /\ phase # "aborted" => fault = "none"
    /\ phase = "aborted" =>
          fault \in {"first dependency is stdlib", "function declaration found"}

CompIInv ==
    /\ SortIInv
    /\ FrontsInv
    /\ ModulesInv
    /\ TablesInv
    /\ OrderInv
    /\ NamesInv
    /\ ProgressInv
    /\ PassedInv
    /\ SymbolsInv
    /\ TranslatedInv
    /\ EmitInv
    /\ ReportInv

AfterParse == {"names"} \cup AfterNames

-----------------------------------------------------------------------------
(* Facts of a state that the steps below cite.                             *)
LEMMA FedFiles ==
    ASSUME job \in CommandLines, added \in 0..Len(job.inputs)
    PROVE  /\ Len(job.inputs) \in Nat /\ added \in Nat
           /\ IsSeq(Fed) /\ Len(Fed) = added
           /\ \A k \in 1..added :
                 Fed[k] = job.inputs[added + 1 - k] /\ IsFile(Fed[k])
<1>1. /\ IsSeq(job.inputs)
      /\ \A file \in Range(job.inputs) : IsFile(file)
  BY InputsAreFiles
<1>2. /\ Len(job.inputs) \in Nat
      /\ \A k \in 1..Len(job.inputs) : job.inputs[k] \in Range(job.inputs)
  BY <1>1, FactsOfSeq
<1>3. added \in Nat
  BY <1>2
<1>4. DOMAIN Fed = 1..added /\ Fed = [k \in 1..added |-> Fed[k]]
      /\ \A k \in 1..added : Fed[k] = job.inputs[added + 1 - k]
  BY <1>3 DEF Fed
<1>5. \A k \in 1..added : added + 1 - k \in 1..Len(job.inputs)
  BY <1>2, <1>3
<1>6. \A k \in 1..added : IsFile(Fed[k])
  BY <1>1, <1>2, <1>4, <1>5
<1>7. IsSeq(Fed) /\ Len(Fed) = added
  BY <1>3, <1>4, MadeSeq
<1> QED
  BY <1>2, <1>3, <1>4, <1>6, <1>7

(* A list of one.                                                          *)
LEMMA OneFileSeq ==
    ASSUME NEW file
    PROVE  IsSeq(<<file>>) /\ Len(<<file>>) = 1 /\ <<file>>[1] = file
<1>1. <<file>> \in Seq({file})
  OBVIOUS
<1> QED
  BY <1>1, SeqsAreSeqs

(* Every front is a file; the library is the first, and below all of them  *)
(* is the first input.                                                     *)
LEMMA FrontFacts ==
    ASSUME FrontsInv
    PROVE  /\ Len(fronts) \in Nat /\ IsSeq(fronts)
           /\ \A f \in 1..Len(fronts) : IsFile(fronts[f])
           /\ phase = "args" => Len(fronts) = added
           /\ phase # "args" =>
                 /\ Len(fronts) = added + 1 /\ Len(fronts) # 0
                 /\ fronts[1] = Stdlib
                 /\ job.inputs # <<>> => fronts[Len(fronts)] = job.inputs[1]
<1>1. /\ Len(job.inputs) \in Nat /\ added \in Nat
      /\ IsSeq(Fed) /\ Len(Fed) = added
      /\ \A k \in 1..added :
            Fed[k] = job.inputs[added + 1 - k] /\ IsFile(Fed[k])
  BY FedFiles DEF FrontsInv
<1>2. CASE phase = "args"
  BY <1>1, <1>2 DEF FrontsInv
<1>3. CASE phase # "args"
  <2>1. fronts = <<Stdlib>> \o Fed /\ added = Len(job.inputs)
    BY <1>3 DEF FrontsInv
  <2>2. IsSeq(<<Stdlib>>) /\ Len(<<Stdlib>>) = 1 /\ <<Stdlib>>[1] = Stdlib
    BY OneFileSeq
  <2>3. /\ IsSeq(fronts) /\ Len(fronts) = 1 + added
        /\ fronts[1] = Stdlib
        /\ \A k \in 1..added : fronts[1 + k] = Fed[k]
    BY <1>1, <2>1, <2>2, JoinedSeqs
  <2>4. \A f \in 1..Len(fronts) : IsFile(fronts[f])
    <3> SUFFICES ASSUME NEW f \in 1..Len(fronts) PROVE IsFile(fronts[f])
      OBVIOUS
    <3>1. CASE f = 1
      BY <3>1, <2>3, StdlibIsOneModule
    <3>2. CASE f # 1
      <4>1. f - 1 \in 1..added /\ f = 1 + (f - 1)
        BY <1>1, <2>3, <3>2
      <4>2. fronts[f] = Fed[f - 1] /\ IsFile(Fed[f - 1])
        BY <1>1, <2>3, <4>1
      <4> QED
        BY <4>2
    <3> QED
      BY <3>1, <3>2
  <2>5. job.inputs # <<>> => fronts[Len(fronts)] = job.inputs[1]
    <3> SUFFICES ASSUME job.inputs # <<>>
                 PROVE  fronts[Len(fronts)] = job.inputs[1]
      OBVIOUS
    <3>1. IsSeq(job.inputs)
      BY InputsAreFiles DEF FrontsInv
    <3>2. added # 0
      BY <2>1, <3>1, EmptySeq DEF IsSeq
    <3>3. added \in 1..added /\ added + 1 - added = 1
      BY <1>1, <3>2
    <3>4. fronts[1 + added] = Fed[added] /\ Fed[added] = job.inputs[1]
      BY <1>1, <2>3, <3>3
    <3> QED
      BY <2>3, <3>4
  <2> QED
    BY <1>1, <1>3, <2>3, <2>4, <2>5
<1> QED
  BY <1>2, <1>3

(* stdlib/io.rf has one statement, and it is a module.                     *)
LEMMA StdlibFacts ==
    /\ IsFile(Stdlib) /\ Stdlib.lang = "ast" /\ Stdlib.tail # "junk"
    /\ ModuleItems(Stdlib) = {1} /\ Cardinality(ModuleItems(Stdlib)) = 1
    /\ ModuleAt(Stdlib, 1) = 1
    /\ Stdlib.items[1].name = StdlibName
<1>1. IsSeq(Stdlib.items) /\ Len(Stdlib.items) = 1
  BY StdlibIsOneModule DEF IsFile
<1>2. DOMAIN Stdlib.items = 1..1
  BY <1>1, FactsOfSeq
<1>3. ModuleItems(Stdlib) = {1}
  BY <1>2, StdlibIsOneModule DEF ModuleItems
<1>4. Cardinality(ModuleItems(Stdlib)) = 1
  BY <1>3, FS_Singleton
<1>5. ModuleAt(Stdlib, 1) \in ModuleItems(Stdlib)
  <2>1. 1 \in 1..1
    OBVIOUS
  <2> QED
    BY <1>4, <2>1, StdlibIsOneModule, ModuleStatements
<1>6. Stdlib.lang # "rir"
  <2> SUFFICES ASSUME Stdlib.lang = "rir" PROVE FALSE
    OBVIOUS
  <2>1. Stdlib.items = <<>>
    BY StdlibIsOneModule DEF IsFile
  <2> QED
    BY <1>1, <2>1
<1> QED
  BY <1>3, <1>4, <1>5, <1>6, StdlibIsOneModule DEF IsFile

(* Each module is of a file, and one that was read from RIR is a whole     *)
(* file without statements.                                                *)
LEMMA ModuleFacts ==
    ASSUME FrontsInv, ModulesInv
    PROVE  /\ Len(modules) \in Nat /\ DOMAIN modules = 1..Len(modules)
           /\ \A m \in DOMAIN modules :
                 /\ IsFile(FileOf(m)) /\ FileOf(m) = fronts[modules[m].front]
                 /\ FromRir(m) => IsRoot(m) /\ FileOf(m).items = <<>>
<1>1. Len(modules) \in Nat /\ DOMAIN modules = 1..Len(modules)
  BY FactsOfSeq DEF ModulesInv
<1>2. ASSUME NEW m \in DOMAIN modules
      PROVE  /\ IsFile(FileOf(m)) /\ FileOf(m) = fronts[modules[m].front]
             /\ FromRir(m) => IsRoot(m) /\ FileOf(m).items = <<>>
  <2>1. IsFile(FileOf(m)) /\ FileOf(m) = fronts[modules[m].front]
    BY FrontFacts DEF ModulesInv, FileOf
  <2>2. FromRir(m) => FileOf(m).items = <<>>
    BY <2>1 DEF IsFile, FromRir
  <2>3. FileOf(m).items = <<>> => ModuleItems(FileOf(m)) = {}
    BY DEF ModuleItems
  <2> QED
    BY <2>1, <2>2, <2>3 DEF ModulesInv
<1> QED
  BY <1>1, <1>2

(* The library's module, once it is there.                                 *)
LEMMA LibraryModule ==
    ASSUME FrontsInv, ModulesInv, phase \in AfterParse
    PROVE  /\ Len(modules) \in Nat /\ Len(modules) # 0 /\ 1 \in DOMAIN modules
           /\ Name(1) = StdlibName /\ ~FromRir(1) /\ ~IsRoot(1)
           /\ FileOf(1) = Stdlib
           /\ Children(1) = Stdlib.items[1].body
<1>1. Len(modules) # 0 /\ modules[1].front = 1 /\ modules[1].item = 1
  <2>1. phase \notin {"args", "failed", "parse"}
    BY DEF AfterParse, AfterNames
  <2>2. Len(fronts) \in Nat /\ Len(fronts) # 0
    BY <2>1, FrontFacts
  <2>3. IsParsed(1)
    BY <2>1, <2>2 DEF IsParsed
  <2> QED
    BY <2>3 DEF ModulesInv
<1>2. Len(modules) \in Nat /\ 1 \in DOMAIN modules
  BY <1>1, ModuleFacts
<1>3. fronts[1] = Stdlib
  BY FrontFacts DEF AfterParse, AfterNames
<1>4. FileOf(1) = Stdlib
  BY <1>1, <1>3 DEF FileOf
<1> QED
  BY <1>1, <1>2, <1>4, StdlibFacts DEF Name, IsRoot, FromRir, Children, Nodes

-----------------------------------------------------------------------------
(* What stays as it is while some variables do.                            *)
LEMMA SameFiles ==
    ASSUME UNCHANGED <<fronts, modules>>
    PROVE  /\ \A m : /\ FileOf(m)' = FileOf(m) /\ FromRir(m)' = FromRir(m)
                     /\ IsRoot(m)' = IsRoot(m) /\ Name(m)' = Name(m)
                     /\ Children(m)' = Children(m) /\ Nodes(m)' = Nodes(m)
                     /\ Subtree(m)' = Subtree(m) /\ NamesIn(m)' = NamesIn(m)
                     /\ CallsOut(m)' = CallsOut(m)
           /\ \A j, k : InOrder(j, k)' = InOrder(j, k)
<1>1. ASSUME NEW m
      PROVE  /\ FileOf(m)' = FileOf(m) /\ FromRir(m)' = FromRir(m)
             /\ IsRoot(m)' = IsRoot(m) /\ Name(m)' = Name(m)
             /\ Nodes(m)' = Nodes(m)
    BY DEF FileOf, FromRir, IsRoot, Name, Nodes
<1>2. ASSUME NEW m
      PROVE  /\ Children(m)' = Children(m)
             /\ Subtree(m)' = Subtree(m) /\ NamesIn(m)' = NamesIn(m)
    BY <1>1 DEF Children, Subtree, NamesIn, ModulesIn
<1>3. ASSUME NEW m PROVE CallsOut(m)' = CallsOut(m)
    BY <1>2 DEF CallsOut, InRir
<1> QED
  BY <1>1, <1>2, <1>3 DEF InOrder

(* The import walk rests.                                                  *)
LEMMA SameSort == SortIInv /\ UNCHANGED sortVars => SortIInv'
  BY SortNextPreserves

(* After parsing, the fronts and the modules stay what they are.           *)
LEMMA SettledModules ==
    ASSUME FrontsInv, ModulesInv, UNCHANGED <<job, added, fronts, modules, mainFront>>,
           phase \in AfterParse, phase' \in AfterParse \cup {"failed"}
    PROVE  FrontsInv' /\ ModulesInv'
<1>1. phase \notin {"args", "parse", "failed"} /\ phase' \notin {"args", "parse"}
  BY DEF AfterParse, AfterNames
<1>2. FrontsInv'
  BY <1>1 DEF FrontsInv, Fed
<1>3. \A f : IsParsed(f)' => IsParsed(f)
  BY <1>1 DEF IsParsed
<1>4. ModulesInv'
  <2>1. /\ IsSeq(modules)'
        /\ (mainFront \in 0..Len(fronts))'
        /\ \A j, k \in DOMAIN modules' : j < k => InOrder(j, k)'
    BY SameFiles DEF ModulesInv, IsSeq
  <2>2. \A m \in DOMAIN modules' :
          /\ modules'[m].front \in 1..Len(fronts')
          /\ modules'[m].item \in Nat
          /\ ~IsRoot(m)' => modules'[m].item \in ModuleItems(FileOf(m)')
          /\ IsRoot(m)' => modules'[m].front = mainFront' /\ HasMain(FileOf(m)')
    BY SameFiles DEF ModulesInv
  <2>3. \A f \in 1..Len(fronts') : IsParsed(f)' =>
          /\ HasMain(fronts'[f]) =>
                /\ mainFront' = f
                /\ \E m \in DOMAIN modules' :
                      modules'[m].front = f /\ modules'[m].item = 0
          /\ ModuleItems(fronts'[f]) # {} =>
                \E m \in DOMAIN modules' : modules'[m].front = f
    BY <1>3 DEF ModulesInv
  <2>4. IsParsed(1)' =>
          Len(modules') # 0 /\ modules'[1].front = 1 /\ modules'[1].item = 1
    BY <1>3 DEF ModulesInv
  <2> QED
    BY <1>1, <2>1, <2>2, <2>3, <2>4 DEF ModulesInv
<1> QED
  BY <1>2, <1>4

(* The tables rest.                                                        *)
LEMMA SameTables ==
    ASSUME TablesInv, UNCHANGED <<fronts, deps, modules, symbols, rirs, scopes>>,
           phase # "args"
    PROVE  TablesInv'
  BY DEF TablesInv, IsSeq

(* Names that are unique stay so.                                          *)
LEMMA SettledNames ==
    ASSUME NamesInv, UNCHANGED <<fronts, modules>>,
           phase \in AfterNames, phase' \in AfterNames \cup {"failed"}
    PROVE  NamesInv'
  BY SameFiles DEF NamesInv, AfterNames

(* What was analyzed and translated stays so.                              *)
LEMMA SameSymbols ==
    ASSUME SymbolsInv, TranslatedInv, UNCHANGED <<fronts, modules, deps, symbols, rirs>>
    PROVE  SymbolsInv' /\ TranslatedInv'
<1>1. /\ \A m : Analyzed(m)' = Analyzed(m) /\ Imports(m)' = Imports(m)
      /\ \A m : DepFns(m)' = DepFns(m) /\ FirstIsStdlib(m)' = FirstIsStdlib(m)
  BY SameFiles DEF Analyzed, Imports, DepFns, FirstIsStdlib
<1>2. SymbolsInv'
  BY <1>1, SameFiles DEF SymbolsInv
<1>3. TranslatedInv'
  BY <1>1, SameFiles DEF TranslatedInv
<1> QED
  BY <1>2, <1>3

-----------------------------------------------------------------------------
(* Before the first module.                                                *)
NoModulesYet ==
    /\ modules = <<>> /\ mainFront = 0 /\ deps = <<>> /\ symbols = <<>> /\ rirs = <<>>
    /\ passed = {} /\ linkSource = 0 /\ emitted = 0 /\ msgs = {} /\ fault = "none"

(* While the arguments are passed there is nothing but fronts.             *)
LEMMA ArgsState == CompIInv /\ phase = "args" => NoModulesYet
<1> SUFFICES ASSUME CompIInv, phase = "args" PROVE NoModulesYet
  OBVIOUS
<1>1. modules = <<>> /\ mainFront = 0
  BY DEF CompIInv, ModulesInv
<1>2. Len(deps) = 0 /\ Len(symbols) = 0 /\ Len(rirs) = 0 /\ Len(modules) = 0
  BY <1>1 DEF CompIInv, TablesInv
<1>3. deps \in Seq(Seq(Nat \ {0})) /\ IsSeq(symbols) /\ IsSeq(rirs)
  BY DEF CompIInv, TablesInv, SortIInv, SortTypeOK
<1>4. deps = <<>> /\ symbols = <<>> /\ rirs = <<>>
  <2>1. deps = <<>>
    BY <1>2, <1>3, EmptySeq
  <2>2. symbols = <<>>
    BY <1>2, <1>3, EmptySeq DEF IsSeq
  <2>3. rirs = <<>>
    BY <1>2, <1>3, EmptySeq DEF IsSeq
  <2> QED
    BY <2>1, <2>2, <2>3
<1>5. passed = {} /\ linkSource = 0 /\ emitted = 0
  BY DEF CompIInv, PassedInv, EmitInv, Sorting
<1>6. msgs = {} /\ fault = "none"
  BY DEF CompIInv, ReportInv
<1> QED
  BY <1>1, <1>4, <1>5, <1>6 DEF NoModulesYet

(* All but the fronts is in order while there are no modules.              *)
AtTheStart ==
    /\ NoModulesYet
    /\ NotStarted
    /\ Len(fronts) \in Nat
    /\ at = 1
    /\ \/ phase = "args"
       \/ /\ phase = "parse" /\ Len(fronts) # 0
          /\ scopes = [f \in 1..Len(fronts) |-> {}]

(* Without modules all of the invariant is about the fronts.               *)
LEMMA NothingToOrder ==
    SortIInv /\ FrontsInv /\ AtTheStart => CompIInv
<1> SUFFICES ASSUME SortIInv, FrontsInv, AtTheStart PROVE CompIInv
  OBVIOUS
<1> USE DEF AtTheStart
<1>1. /\ DOMAIN modules = {} /\ Len(modules) = 0 /\ IsSeq(modules)
      /\ IsSeq(symbols) /\ IsSeq(rirs) /\ Len(symbols) = 0 /\ Len(rirs) = 0
      /\ Len(deps) = 0
  <2>1. <<>> \in Seq({})
    OBVIOUS
  <2>2. IsSeq(<<>>)
    BY <2>1, SeqsAreSeqs
  <2> QED
    BY <2>2 DEF NoModulesYet
<1>2. ModulesInv
  <2>1. \A f : ~IsParsed(f)
    <3> SUFFICES ASSUME NEW f, IsParsed(f) PROVE FALSE
      OBVIOUS
    <3>1. f \in 1..Len(fronts) /\ phase = "parse" /\ f < 1
      BY DEF IsParsed
    <3> QED
      BY <3>1
  <2>2. mainFront = 0 /\ modules = <<>>
    BY DEF NoModulesYet
  <2>3. phase = "parse" => mainFront < at
    BY <2>2
  <2> QED
    BY <1>1, <2>1, <2>2, <2>3 DEF ModulesInv
<1>3. TablesInv
  BY <1>1 DEF TablesInv
<1>4. OrderInv
  <2>1. sortpc = "idle"
    BY DEF NotStarted
  <2> QED
    BY <2>1 DEF OrderInv, Sorting, AfterNames, AfterSort
<1>5. NamesInv /\ ProgressInv /\ SymbolsInv /\ TranslatedInv
  BY <1>1 DEF NamesInv, ProgressInv, SymbolsInv, TranslatedInv, AfterNames
<1>6. PassedInv
  BY DEF PassedInv, NoModulesYet
<1>7. EmitInv /\ ReportInv
  BY <1>1 DEF EmitInv, ReportInv, NoModulesYet
<1> QED
  BY <1>2, <1>3, <1>4, <1>5, <1>6, <1>7 DEF CompIInv

(* A compilation starts in the invariant.                                  *)
LEMMA CompInitial == CompInit => CompIInv
<1> SUFFICES ASSUME CompInit PROVE CompIInv
  OBVIOUS
<1>1. /\ job \in CommandLines /\ added = 0 /\ fronts = <<>> /\ phase = "args"
      /\ at = 1 /\ NotStarted /\ deps = <<>> /\ NoModulesYet
  BY DEF CompInit, NoModulesYet
<1>2. SortIInv
  <2>1. N = 0 /\ Mods = {}
    BY <1>1 DEF N, Mods
  <2>2. deps \in Seq(Seq(Nat \ {0}))
    BY <1>1
  <2> QED
    BY <1>1, <2>1, <2>2, BeforeTheWalk DEF ImportsAreModules
<1>3. FrontsInv
  <2>1. Len(job.inputs) \in Nat
    BY <1>1, InputsAreFiles, FactsOfSeq
  <2>2. Fed = <<>>
    BY <1>1 DEF Fed
  <2> QED
    BY <1>1, <2>1, <2>2 DEF FrontsInv
<1>4. AtTheStart
  BY <1>1 DEF AtTheStart
<1> QED
  BY <1>2, <1>3, <1>4, NothingToOrder

(* An input becomes the front before all others.                           *)
LEMMA AddInputStep == CompIInv /\ AddInput => CompIInv'
<1> SUFFICES ASSUME CompIInv, AddInput PROVE CompIInv'
  OBVIOUS
<1>1. /\ phase = "args" /\ added < Len(job.inputs)
      /\ fronts' = <<job.inputs[added + 1]>> \o fronts
      /\ added' = added + 1
      /\ UNCHANGED <<sortVars, job, phase, at, msgs, modules, mainFront, scopes,
                     passed, symbols, rirs, linkSource, emitted, fault>>
  BY DEF AddInput, Listed
<1>2. NoModulesYet /\ at = 1 /\ sortpc = "idle"
  BY <1>1, ArgsState DEF CompIInv, OrderInv, Sorting
<1>3. SortIInv' /\ NotStarted'
  <2>1. NotStarted
    BY <1>2 DEF CompIInv, SortIInv, ScanState
  <2>2. UNCHANGED sortVars
    BY <1>1
  <2> QED
    BY <2>1, <2>2, SameSort DEF CompIInv, NotStarted, sortVars
<1>4. /\ FrontsInv /\ job \in CommandLines /\ added \in 0..Len(job.inputs)
      /\ fronts = Fed
  BY <1>1 DEF CompIInv, FrontsInv
<1>5. /\ Len(job.inputs) \in Nat /\ added \in Nat /\ IsSeq(Fed) /\ Len(Fed) = added
      /\ \A k \in 1..added : Fed[k] = job.inputs[added + 1 - k]
  BY <1>4, FedFiles
<1>6. /\ IsSeq(fronts') /\ Len(fronts') = 1 + added
      /\ fronts'[1] = job.inputs[added + 1]
      /\ \A k \in 1..added : fronts'[1 + k] = Fed[k]
  <2>1. PICK file : file = job.inputs[added + 1]
    OBVIOUS
  <2>2. IsSeq(<<file>>) /\ Len(<<file>>) = 1 /\ <<file>>[1] = file
    BY OneFileSeq
  <2>3. fronts' = <<file>> \o Fed
    BY <1>1, <1>4, <2>1
  <2> QED
    BY <1>5, <2>1, <2>2, <2>3, JoinedSeqs
<1>7. fronts' = Fed'
  <2>1. Fed' = [k \in 1..(1 + added) |-> job.inputs[added + 2 - k]]
    BY <1>1, <1>5 DEF Fed
  <2>2. ASSUME NEW k \in 1..(1 + added) PROVE fronts'[k] = job.inputs[added + 2 - k]
    <3>1. CASE k = 1
      BY <1>5, <1>6, <3>1
    <3>2. CASE k # 1
      <4>1. k - 1 \in 1..added /\ 1 + (k - 1) = k /\ added + 1 - (k - 1) = added + 2 - k
        BY <1>5, <3>2
      <4>2. fronts'[1 + (k - 1)] = Fed[k - 1]
        BY <1>6, <4>1
      <4>3. Fed[k - 1] = job.inputs[added + 1 - (k - 1)]
        BY <1>5, <4>1
      <4> QED
        BY <4>1, <4>2, <4>3
    <3> QED
      BY <3>1, <3>2
  <2>3. fronts' = [k \in 1..(1 + added) |-> fronts'[k]]
    BY <1>6, FactsOfSeq
  <2> QED
    BY <2>1, <2>2, <2>3
<1>8. FrontsInv'
  BY <1>1, <1>4, <1>5, <1>7 DEF FrontsInv
<1>9. NoModulesYet' /\ phase' = "args" /\ at' = 1 /\ Len(fronts') \in Nat
  BY <1>1, <1>2, <1>5, <1>6 DEF NoModulesYet, sortVars
<1>10. AtTheStart'
  BY <1>1, <1>3, <1>9 DEF AtTheStart
<1> QED
  BY <1>3, <1>8, <1>10, NothingToOrder, PTL

(* The standard library becomes the first front.                           *)
LEMMA AddStdlibStep == CompIInv /\ AddStdlib => CompIInv'
<1> SUFFICES ASSUME CompIInv, AddStdlib PROVE CompIInv'
  OBVIOUS
<1>1. /\ phase = "args" /\ added = Len(job.inputs)
      /\ fronts' = <<Stdlib>> \o fronts
      /\ scopes' = [f \in 1..(added + 1) |-> {}]
      /\ phase' = "parse" /\ at' = 1
      /\ UNCHANGED <<sortVars, job, added, msgs, modules, mainFront, passed,
                     symbols, rirs, linkSource, emitted, fault>>
  BY DEF AddStdlib, Listed
<1>2. NoModulesYet /\ at = 1 /\ sortpc = "idle"
  BY <1>1, ArgsState DEF CompIInv, OrderInv, Sorting
<1>3. SortIInv' /\ NotStarted'
  <2>1. NotStarted
    BY <1>2 DEF CompIInv, SortIInv, ScanState
  <2>2. UNCHANGED sortVars
    BY <1>1
  <2> QED
    BY <2>1, <2>2, SameSort DEF CompIInv, NotStarted, sortVars
<1>4. FrontsInv'
  BY <1>1 DEF CompIInv, FrontsInv, Fed
<1>5. Len(fronts') = added + 1 /\ Len(fronts') # 0 /\ Len(fronts') \in Nat
  <2>1. IsSeq(fronts) /\ Len(fronts) = added /\ added \in Nat
    BY <1>1, FrontFacts DEF CompIInv
  <2>2. IsSeq(<<Stdlib>>) /\ Len(<<Stdlib>>) = 1
    BY OneFileSeq
  <2>3. Len(fronts') = 1 + added
    BY <1>1, <2>1, <2>2, JoinedSeqs
  <2> QED
    BY <2>1, <2>3
<1>6. NoModulesYet'
  BY <1>1, <1>2 DEF NoModulesYet, sortVars
<1>7. AtTheStart'
  BY <1>1, <1>3, <1>5, <1>6 DEF AtTheStart
<1> QED
  BY <1>3, <1>4, <1>7, NothingToOrder, PTL

-----------------------------------------------------------------------------
(* Parsing: the modules of a front join the list.                          *)
LEMMA NewModuleFacts ==
    ASSUME FrontsInv, NEW f \in 1..Len(fronts)
    PROVE  /\ Cardinality(ModuleItems(fronts[f])) \in Nat
           /\ ModuleItems(fronts[f]) # {} => Cardinality(ModuleItems(fronts[f])) # 0
           /\ ModuleItems(fronts[f]) \subseteq Nat \ {0}
           /\ IsSeq(NewModules(f))
           /\ Len(NewModules(f)) = Cardinality(ModuleItems(fronts[f]))
           /\ \A k \in 1..Len(NewModules(f)) :
                 /\ NewModules(f)[k].front = f
                 /\ NewModules(f)[k].item = ModuleAt(fronts[f], k)
                 /\ ModuleAt(fronts[f], k) \in ModuleItems(fronts[f])
           /\ \A j, k \in 1..Len(NewModules(f)) :
                 ModuleAt(fronts[f], j) = ModuleAt(fronts[f], k) => j = k
<1> DEFINE n == Cardinality(ModuleItems(fronts[f]))
<1>1. IsFile(fronts[f])
  BY FrontFacts
<1>2. ModuleItems(fronts[f]) \subseteq Nat \ {0}
  <2>1. DOMAIN fronts[f].items = 1..Len(fronts[f].items) /\ Len(fronts[f].items) \in Nat
    BY <1>1, FactsOfSeq DEF IsFile
  <2> QED
    BY <2>1 DEF ModuleItems
<1>3. /\ n \in Nat
      /\ ModuleItems(fronts[f]) # {} => n # 0
      /\ \A k \in 1..n : ModuleAt(fronts[f], k) \in ModuleItems(fronts[f])
      /\ \A j, k \in 1..n :
            ModuleAt(fronts[f], j) = ModuleAt(fronts[f], k) => j = k
  BY <1>1, ModuleStatements
<1> HIDE DEF n
<1>4. /\ DOMAIN NewModules(f) = 1..n
      /\ \A k \in 1..n : /\ NewModules(f)[k].front = f
                           /\ NewModules(f)[k].item = ModuleAt(fronts[f], k)
      /\ NewModules(f) = [k \in 1..n |-> NewModules(f)[k]]
  BY DEF NewModules, n
<1>5. IsSeq(NewModules(f)) /\ Len(NewModules(f)) = n
  BY <1>3, <1>4, MadeSeq
<1> QED
  BY <1>2, <1>3, <1>4, <1>5 DEF n

(* What joins the list while the front at `at' is parsed: modules of that  *)
(* front, each once, and the file itself, if at all, as the last one.      *)
Joining(new) ==
    /\ IsSeq(new)
    /\ \A k \in 1..Len(new) :
          /\ new[k].front = at /\ new[k].item \in Nat
          /\ new[k].item # 0 => new[k].item \in ModuleItems(fronts[at])
          /\ new[k].item = 0 => HasMain(fronts[at])
    /\ \A j, k \in 1..Len(new) :
          j < k => new[j].item # 0 /\ new[j].item # new[k].item

(* The modules inside a file join the list.                                *)
LEMMA StatementsJoin ==
    ASSUME FrontsInv, at \in 1..Len(fronts)
    PROVE  /\ Joining(NewModules(at))
           /\ \A k \in 1..Len(NewModules(at)) : NewModules(at)[k].item # 0
<1>1. /\ ModuleItems(fronts[at]) \subseteq Nat \ {0}
      /\ IsSeq(NewModules(at)) /\ Len(NewModules(at)) \in Nat
      /\ \A k \in 1..Len(NewModules(at)) :
            /\ NewModules(at)[k].front = at
            /\ NewModules(at)[k].item = ModuleAt(fronts[at], k)
            /\ ModuleAt(fronts[at], k) \in ModuleItems(fronts[at])
      /\ \A j, k \in 1..Len(NewModules(at)) :
            ModuleAt(fronts[at], j) = ModuleAt(fronts[at], k) => j = k
  BY NewModuleFacts
<1>2. ASSUME NEW k \in 1..Len(NewModules(at))
      PROVE  /\ NewModules(at)[k].front = at
             /\ NewModules(at)[k].item = ModuleAt(fronts[at], k)
             /\ NewModules(at)[k].item \in ModuleItems(fronts[at])
             /\ NewModules(at)[k].item # 0 /\ NewModules(at)[k].item \in Nat
  <2>1. /\ NewModules(at)[k].front = at
        /\ NewModules(at)[k].item = ModuleAt(fronts[at], k)
    BY <1>1
  <2>2. NewModules(at)[k].item \in ModuleItems(fronts[at])
    BY <1>1, <2>1
  <2> QED
    BY <1>1, <2>1, <2>2
<1> QED
  BY <1>1, <1>2 DEF Joining

(* A main file joins the list after the modules inside it.                 *)
LEMMA FileJoins ==
    ASSUME FrontsInv, at \in 1..Len(fronts), HasMain(fronts[at])
    PROVE  /\ Joining(NewModules(at) \o RootModule(at))
           /\ Len(NewModules(at) \o RootModule(at)) = Len(NewModules(at)) + 1
           /\ Len(NewModules(at)) \in Nat
           /\ (NewModules(at) \o RootModule(at))[Len(NewModules(at)) + 1].item = 0
           /\ Len(NewModules(at)) # 0 =>
                 (NewModules(at) \o RootModule(at))[1] = NewModules(at)[1]
<1>1. PICK s : s = NewModules(at)
  OBVIOUS
<1>2. PICK r : r = [front |-> at, item |-> 0]
  OBVIOUS
<1>3. /\ IsSeq(s) /\ Len(s) \in Nat /\ Joining(s)
      /\ \A k \in 1..Len(s) : s[k].item # 0
  BY <1>1, StatementsJoin, FactsOfSeq DEF Joining
<1>4. IsSeq(<<r>>) /\ Len(<<r>>) = 1 /\ <<r>>[1] = r
  BY OneFileSeq
<1>5. PICK t : t = s \o <<r>>
  OBVIOUS
<1>6. t = NewModules(at) \o RootModule(at)
  BY <1>1, <1>2, <1>5 DEF RootModule
<1>7. /\ IsSeq(t) /\ Len(t) = Len(s) + 1
      /\ \A k \in 1..Len(s) : t[k] = s[k]
      /\ t[Len(s) + 1] = r
  BY <1>3, <1>4, <1>5, JoinedSeqs
<1>8. \A k \in 1..Len(t) : k \in 1..Len(s) \/ k = Len(s) + 1
  BY <1>3, <1>7
<1>9. r.front = at /\ r.item = 0
  BY <1>2
<1>10. \A k \in 1..Len(t) :
          /\ t[k].front = at /\ t[k].item \in Nat
          /\ t[k].item # 0 => t[k].item \in ModuleItems(fronts[at])
          /\ t[k].item = 0 => HasMain(fronts[at])
  BY <1>3, <1>7, <1>8, <1>9 DEF Joining
<1>11. ASSUME NEW j \in 1..Len(t), NEW k \in 1..Len(t), j < k
       PROVE  t[j].item # 0 /\ t[j].item # t[k].item
  <2>1. j \in 1..Len(s)
    BY <1>3, <1>7, <1>8, <1>11
  <2>2. t[j] = s[j] /\ s[j].item # 0
    BY <1>3, <1>7, <2>1
  <2>3. CASE k = Len(s) + 1
    BY <1>7, <1>9, <2>2, <2>3
  <2>4. CASE k \in 1..Len(s)
    BY <1>3, <1>7, <1>11, <2>1, <2>2, <2>4 DEF Joining
  <2> QED
    BY <1>8, <2>3, <2>4
<1>12. Joining(t)
  BY <1>7, <1>10, <1>11 DEF Joining
<1>13. Len(s) # 0 => t[1] = s[1]
  BY <1>3, <1>7
<1> QED
  BY <1>1, <1>3, <1>6, <1>7, <1>9, <1>12, <1>13

(* What joins the list of modules keeps it in order, whatever becomes of   *)
(* the front.                                                              *)
LEMMA ModulesGrow ==
    ASSUME CompIInv, phase = "parse", phase' \in {"parse", "names", "failed"},
           NEW new, Joining(new), Create(new), ParseUnchanged,
           \/ mainFront' = mainFront /\ \A k \in 1..Len(new) : new[k].item # 0
           \/ mainFront = 0 /\ mainFront' = at
    PROVE  /\ IsSeq(modules') /\ Len(modules') = Len(modules) + Len(new)
           /\ Len(modules) \in Nat /\ Len(new) \in Nat
           /\ \A m \in 1..Len(modules) : modules'[m] = modules[m]
           /\ \A k \in 1..Len(new) : modules'[Len(modules) + k] = new[k]
           /\ \A m \in 1..Len(modules') :
                 \/ m \in 1..Len(modules) /\ modules'[m] = modules[m]
                 \/ m - Len(modules) \in 1..Len(new)
                    /\ modules'[m] = new[m - Len(modules)]
           /\ \A m \in DOMAIN modules' :
                 /\ modules'[m].front \in 1..Len(fronts)
                 /\ modules'[m].front <= at
                 /\ modules'[m].item \in Nat
                 /\ ~IsRoot(m)' => modules'[m].item \in ModuleItems(FileOf(m)')
                 /\ IsRoot(m)' => modules'[m].front = mainFront' /\ HasMain(FileOf(m)')
           /\ \A j, k \in DOMAIN modules' : j < k => InOrder(j, k)'
           /\ SortIInv' /\ FrontsInv' /\ TablesInv' /\ ProgressInv'
           /\ SymbolsInv' /\ TranslatedInv'
           /\ PassedInv' /\ EmitInv'
           /\ \A m \in 1..Len(modules') :
                 rirs'[m] = IF FromRir(m)' THEN "created" ELSE "none"
<1> DEFINE L == Len(modules)
<1>1. /\ SortIInv /\ FrontsInv /\ ModulesInv /\ TablesInv /\ OrderInv
      /\ ProgressInv /\ SymbolsInv /\ TranslatedInv
  BY DEF CompIInv
<1>2. /\ UNCHANGED <<sortpc, marks, scan, found, stack, sorted, offender, job,
                     added, fronts, scopes, passed, linkSource, emitted, fault>>
  BY DEF ParseUnchanged
<1>3. IsSeq(new) /\ Len(new) \in Nat /\ DOMAIN new = 1..Len(new)
  BY FactsOfSeq DEF Joining
<1>4. IsSeq(modules) /\ L \in Nat /\ DOMAIN modules = 1..L
  BY <1>1, FactsOfSeq DEF ModulesInv
<1>5. /\ IsSeq(modules') /\ Len(modules') = L + Len(new) /\ DOMAIN modules' = 1..Len(modules')
      /\ \A m \in 1..L : modules'[m] = modules[m]
      /\ \A k \in 1..Len(new) : modules'[L + k] = new[k]
      /\ \A m \in 1..Len(modules') :
            \/ m \in 1..L /\ modules'[m] = modules[m]
            \/ m - L \in 1..Len(new) /\ modules'[m] = new[m - L]
  <2>1. modules' = modules \o new
    BY DEF Create
  <2>2. PICK a, b : a = modules /\ b = modules'
    OBVIOUS
  <2>3. b = a \o new /\ IsSeq(a)
    BY <1>4, <2>1, <2>2
  <2>4. /\ IsSeq(b) /\ Len(b) = Len(a) + Len(new)
        /\ \A k \in 1..Len(a) : b[k] = a[k]
        /\ \A k \in 1..Len(new) : b[Len(a) + k] = new[k]
        /\ \A k \in 1..(Len(a) + Len(new)) :
              \/ k \in 1..Len(a) /\ b[k] = a[k]
              \/ k - Len(a) \in 1..Len(new) /\ b[k] = new[k - Len(a)]
    BY <1>3, <2>3, JoinedSeqs
  <2>5. DOMAIN b = 1..Len(b)
    BY <2>4, FactsOfSeq
  <2> QED
    BY <2>2, <2>4, <2>5
<1> HIDE DEF L
<1>6. at \in 1..Len(fronts) /\ Len(fronts) \in Nat
  BY <1>1, FrontFacts DEF OrderInv
<1>7. /\ mainFront < at
      /\ \A m \in 1..L : modules[m].front < at /\ modules[m].front \in 1..Len(fronts)
      /\ \A m \in 1..L : IsRoot(m) => mainFront' = mainFront
  <2>1. /\ mainFront < at
        /\ \A m \in 1..L : modules[m].front < at /\ modules[m].front \in 1..Len(fronts)
        /\ \A m \in 1..L : IsRoot(m) => modules[m].front = mainFront
    BY <1>1, <1>4 DEF ModulesInv
  <2> QED
    BY <2>1
<1>8. \A m \in DOMAIN modules' :
         /\ modules'[m].front \in 1..Len(fronts)
         /\ modules'[m].front <= at
         /\ modules'[m].item \in Nat
         /\ ~IsRoot(m)' => modules'[m].item \in ModuleItems(FileOf(m)')
         /\ IsRoot(m)' => modules'[m].front = mainFront' /\ HasMain(FileOf(m)')
  <2> SUFFICES ASSUME NEW m \in 1..Len(modules')
               PROVE  /\ modules'[m].front \in 1..Len(fronts)
                      /\ modules'[m].front <= at
                      /\ modules'[m].item \in Nat
                      /\ ~IsRoot(m)' => modules'[m].item \in ModuleItems(FileOf(m)')
                      /\ IsRoot(m)' =>
                            modules'[m].front = mainFront' /\ HasMain(FileOf(m)')
    BY <1>5
  <2>1. FileOf(m)' = fronts[modules'[m].front] /\ IsRoot(m)' = (modules'[m].item = 0)
    BY <1>2 DEF FileOf, IsRoot
  <2>2. CASE m \in 1..L /\ modules'[m] = modules[m]
    <3>1. /\ modules[m].front \in 1..Len(fronts)
          /\ modules[m].item \in Nat
          /\ ~IsRoot(m) => modules[m].item \in ModuleItems(FileOf(m))
          /\ IsRoot(m) => modules[m].front = mainFront /\ HasMain(FileOf(m))
      BY <1>1, <1>4, <2>2 DEF ModulesInv
    <3>2. FileOf(m) = fronts[modules[m].front] /\ IsRoot(m) = (modules[m].item = 0)
      BY DEF FileOf, IsRoot
    <3> QED
      BY <1>6, <1>7, <2>1, <2>2, <3>1, <3>2
  <2>3. CASE m - L \in 1..Len(new) /\ modules'[m] = new[m - L]
    <3> DEFINE k == m - L
    <3>1. /\ new[k].front = at /\ new[k].item \in Nat
          /\ new[k].item # 0 => new[k].item \in ModuleItems(fronts[at])
          /\ new[k].item = 0 => HasMain(fronts[at])
          /\ new[k].item = 0 => mainFront' = at
      BY <2>3 DEF Joining
    <3>2. modules'[m].front = at /\ modules'[m].item = new[k].item
      BY <2>3, <3>1
    <3>3. FileOf(m)' = fronts[at] /\ (IsRoot(m)' <=> new[k].item = 0)
      BY <2>1, <3>2
    <3> HIDE DEF k
    <3> QED
      BY <1>6, <3>1, <3>2, <3>3
  <2> QED
    BY <1>5, <2>2, <2>3
<1>9. ASSUME NEW j \in DOMAIN modules', NEW k \in DOMAIN modules', j < k
      PROVE  InOrder(j, k)'
  <2>1. CASE k \in 1..L /\ modules'[k] = modules[k]
    <3>1. j \in 1..L /\ modules'[j] = modules[j]
      BY <1>4, <1>5, <1>9, <2>1
    <3>2. InOrder(j, k)
      BY <1>1, <1>4, <1>9, <2>1, <3>1 DEF ModulesInv
    <3> QED
      BY <2>1, <3>1, <3>2 DEF InOrder, IsRoot
  <2>2. CASE k - L \in 1..Len(new) /\ modules'[k] = new[k - L]
    <3>1. new[k - L].front = at
      BY <2>2 DEF Joining
    <3>2. CASE j \in 1..L /\ modules'[j] = modules[j]
      BY <1>7, <2>2, <3>1, <3>2 DEF InOrder
    <3>3. CASE j - L \in 1..Len(new) /\ modules'[j] = new[j - L]
      <4>1. j - L < k - L
        BY <1>4, <1>5, <1>9
      <4>2. /\ new[j - L].front = at
            /\ new[j - L].item # 0 /\ new[j - L].item # new[k - L].item
        BY <2>2, <3>3, <4>1 DEF Joining
      <4> QED
        BY <2>2, <3>1, <3>3, <4>2 DEF InOrder, IsRoot
    <3> QED
      BY <1>5, <3>2, <3>3
  <2> QED
    BY <1>5, <2>1, <2>2
<1>10. FrontsInv'
  BY <1>1, <1>2 DEF FrontsInv, Fed
<1>11. /\ Len(deps') = Len(deps) + Len(new) /\ Len(deps) = L
       /\ ImportsAreModules'
  <2> DEFINE e == [k \in DOMAIN new |-> <<>>]
             T == Seq(Nat \ {0})
  <2>1. deps \in Seq(T) /\ \A m \in Mods : \A k \in 1..Len(deps[m]) : deps[m][k] \in Mods
    BY <1>1 DEF SortIInv, SortTypeOK
  <2>2. Len(deps) = L /\ Mods = 1..L /\ N = L
    BY <1>1 DEF TablesInv, L, Mods, N
  <2>3. e \in Seq(T) /\ Len(e) = Len(new) /\ \A k \in 1..Len(new) : e[k] = <<>>
    BY <1>3
  <2>4. deps' = deps \o e
    BY DEF Create
  <2> HIDE DEF e, T
  <2>5. /\ deps' \in Seq(T) /\ Len(deps') = L + Len(new)
        /\ \A m \in 1..(L + Len(new)) :
              deps'[m] = IF m <= L THEN deps[m] ELSE e[m - L]
    <3>1. PICK a : a = deps
      OBVIOUS
    <3>2. a \in Seq(T) /\ Len(a) = L /\ deps' = a \o e
      BY <2>1, <2>2, <2>4, <3>1
    <3>3. /\ a \o e \in Seq(T) /\ Len(a \o e) = Len(a) + Len(e)
          /\ \A i \in 1..(Len(a) + Len(e)) :
                (a \o e)[i] = IF i <= Len(a) THEN a[i] ELSE e[i - Len(a)]
      BY <2>3, <3>2, ConcatProperties
    <3> QED
      BY <2>3, <3>1, <3>2, <3>3
  <2>6. Mods' = 1..(L + Len(new)) /\ Mods \subseteq Mods'
    BY <1>3, <1>4, <2>2, <2>5 DEF Mods, N, L
  <2>7. ASSUME NEW m \in Mods' PROVE deps'[m] \in Seq(Mods')
    <3>1. CASE m <= L
      <4>1. deps'[m] = deps[m] /\ m \in Mods
        BY <2>2, <2>5, <2>6, <3>1
      <4>2. deps[m] \in Seq(Nat \ {0})
        BY <2>1, <2>2, <4>1, ElementOfSeq DEF T
      <4>3. \A k \in 1..Len(deps[m]) : deps[m][k] \in Mods'
        BY <2>1, <2>6, <4>1
      <4>4. deps[m] \in Seq(Mods')
        BY <4>2, <4>3
      <4> QED
        BY <4>1, <4>4
    <3>2. CASE ~(m <= L)
      <4>1. m - L \in 1..Len(new)
        BY <1>3, <1>4, <2>6, <3>2 DEF L
      <4>2. deps'[m] = <<>>
        BY <2>3, <2>5, <2>6, <3>2, <4>1
      <4> QED
        BY <4>2
    <3> QED
      BY <3>1, <3>2
  <2> QED
    BY <2>2, <2>5, <2>7 DEF ImportsAreModules, T
<1>12. SortIInv'
  <2>1. NotStarted
    BY <1>1 DEF OrderInv, Sorting, SortIInv, ScanState
  <2>2. NotStarted'
    BY <1>2, <2>1 DEF NotStarted
  <2> QED
    BY <1>11, <2>2, BeforeTheWalk, PTL
<1>13. IsSeq(symbols') /\ Len(symbols') = L + Len(new)
  <2>1. PICK e : e = [k \in DOMAIN new |-> {}]
    OBVIOUS
  <2>2. IsSeq(e) /\ Len(e) = Len(new)
    <3>1. DOMAIN e = 1..Len(new) /\ e = [k \in 1..Len(new) |-> e[k]]
      BY <1>3, <2>1
    <3> QED
      BY <1>3, <3>1, MadeSeq
  <2>3. PICK a : a = symbols
    OBVIOUS
  <2>4. symbols' = a \o e /\ IsSeq(a) /\ Len(a) = L
    BY <1>1, <2>1, <2>3 DEF Create, TablesInv, L
  <2> QED
    BY <2>2, <2>4, JoinedSeqs
<1>14. /\ IsSeq(rirs') /\ Len(rirs') = L + Len(new)
       /\ \A m \in 1..L : rirs'[m] = rirs[m]
       /\ \A k \in 1..Len(new) :
             rirs'[L + k] = IF fronts[new[k].front].lang = "rir" THEN "created" ELSE "none"
  <2>1. PICK e : e = [k \in DOMAIN new |->
                        IF fronts[new[k].front].lang = "rir" THEN "created" ELSE "none"]
    OBVIOUS
  <2>2. /\ DOMAIN e = 1..Len(new) /\ e = [k \in 1..Len(new) |-> e[k]]
        /\ \A k \in 1..Len(new) :
              e[k] = IF fronts[new[k].front].lang = "rir" THEN "created" ELSE "none"
    BY <1>3, <2>1
  <2>3. IsSeq(e) /\ Len(e) = Len(new)
    BY <1>3, <2>2, MadeSeq
  <2>4. PICK a : a = rirs
    OBVIOUS
  <2>5. rirs' = a \o e /\ IsSeq(a) /\ Len(a) = L
    BY <1>1, <2>1, <2>4 DEF Create, TablesInv, L
  <2>6. /\ IsSeq(a \o e) /\ Len(a \o e) = Len(a) + Len(e)
        /\ \A m \in 1..Len(a) : (a \o e)[m] = a[m]
        /\ \A k \in 1..Len(e) : (a \o e)[Len(a) + k] = e[k]
    <3>1. IsSeq(a) /\ IsSeq(e)
      BY <2>3, <2>5
    <3> QED
      BY <3>1, JoinedSeqs
  <2> QED
    BY <2>2, <2>3, <2>4, <2>5, <2>6
<1>15. ASSUME NEW m \in 1..Len(modules')
       PROVE  rirs'[m] = IF FromRir(m)' THEN "created" ELSE "none"
  <2>1. FromRir(m)' <=> fronts[modules'[m].front].lang = "rir"
    BY <1>2 DEF FromRir, FileOf
  <2>2. CASE m \in 1..L /\ modules'[m] = modules[m]
    <3>1. FromRir(m) <=> fronts[modules[m].front].lang = "rir"
      BY DEF FromRir, FileOf
    <3>2. rirs[m] = IF FromRir(m) THEN "created" ELSE "none"
      BY <1>1, <1>4, <2>2 DEF ProgressInv, Sorting
    <3> QED
      BY <1>14, <2>1, <2>2, <3>1, <3>2
  <2>3. CASE m - L \in 1..Len(new) /\ modules'[m] = new[m - L]
    <3>1. m = L + (m - L)
      BY <1>4
    <3>2. rirs'[L + (m - L)] =
             IF fronts[new[m - L].front].lang = "rir" THEN "created" ELSE "none"
      BY <1>14, <2>3
    <3> QED
      BY <2>1, <2>3, <3>1, <3>2
  <2> QED
    BY <1>5, <2>2, <2>3
<1>16. TablesInv'
  <2>1. \A m \in DOMAIN modules' : rirs'[m] \in RirStates
    BY <1>5, <1>15 DEF RirStates
  <2>2. /\ DOMAIN scopes' = 1..Len(fronts')
        /\ scopes' = [f \in 1..Len(fronts') |-> scopes'[f]]
    BY <1>1, <1>2 DEF TablesInv
  <2> QED
    BY <1>5, <1>11, <1>13, <1>14, <2>1, <2>2 DEF TablesInv
<1>17. ProgressInv'
  BY <1>5, <1>15 DEF ProgressInv, Sorting
<1>18. SymbolsInv' /\ TranslatedInv'
  BY <1>5, <1>15 DEF SymbolsInv, TranslatedInv, Analyzed
<1>19. PassedInv' /\ EmitInv'
  <2>1. passed = {} /\ linkSource = 0 /\ emitted = 0
    BY DEF CompIInv, PassedInv, EmitInv, Sorting
  <2> QED
    BY <1>2, <1>3, <1>4, <1>5, <2>1 DEF PassedInv, EmitInv
<1> QED
  BY <1>3, <1>4, <1>5, <1>8, <1>9, <1>10, <1>12, <1>15, <1>16, <1>17, <1>18,
     <1>19 DEF L

(* A front that parses leaves the invariant true.                          *)
LEMMA FrontIsParsed ==
    ASSUME CompIInv, phase = "parse", Step(Len(fronts), "names"),
           NEW new, Joining(new), Create(new), ParseUnchanged,
           \/ mainFront' = mainFront /\ \A k \in 1..Len(new) : new[k].item # 0
           \/ mainFront = 0 /\ mainFront' = at,
           HasMain(fronts[at]) =>
              mainFront' = at /\ \E k \in 1..Len(new) : new[k].item = 0,
           ModuleItems(fronts[at]) # {} => Len(new) # 0,
           at = 1 => Len(new) # 0 /\ new[1].item = 1,
           msgs' \in {msgs, msgs \cup {at}}
    PROVE  CompIInv'
<1>1. FrontsInv /\ ModulesInv /\ OrderInv /\ NamesInv
  BY DEF CompIInv
<1>2. at \in 1..Len(fronts) /\ Len(fronts) \in Nat
  BY <1>1, FrontFacts DEF OrderInv
<1>3. \/ phase' = "parse" /\ at' = at + 1 /\ at < Len(fronts)
      \/ phase' = "names" /\ at' = 1 /\ at = Len(fronts)
  BY <1>2 DEF Step
<1>4. phase' \in {"parse", "names", "failed"}
  BY <1>3
<1>5. UNCHANGED <<fronts, sortpc, fault>>
  BY DEF ParseUnchanged
<1>6. /\ IsSeq(modules') /\ Len(modules') = Len(modules) + Len(new)
      /\ Len(modules) \in Nat /\ Len(new) \in Nat
      /\ \A m \in 1..Len(modules) : modules'[m] = modules[m]
      /\ \A k \in 1..Len(new) : modules'[Len(modules) + k] = new[k]
      /\ \A m \in DOMAIN modules' :
            /\ modules'[m].front \in 1..Len(fronts)
            /\ modules'[m].front <= at
            /\ modules'[m].item \in Nat
            /\ ~IsRoot(m)' => modules'[m].item \in ModuleItems(FileOf(m)')
            /\ IsRoot(m)' => modules'[m].front = mainFront' /\ HasMain(FileOf(m)')
      /\ \A j, k \in DOMAIN modules' : j < k => InOrder(j, k)'
      /\ SortIInv' /\ FrontsInv' /\ TablesInv' /\ ProgressInv'
      /\ SymbolsInv' /\ TranslatedInv' /\ PassedInv' /\ EmitInv'
  <2> HIDE DEF Joining, Create, ParseUnchanged
  <2> QED
    BY <1>4, ModulesGrow
<1>7. DOMAIN modules' = 1..(Len(modules) + Len(new)) /\ DOMAIN modules = 1..Len(modules)
  BY <1>1, <1>6, FactsOfSeq DEF ModulesInv
<1>8. \A f : IsParsed(f)' => f = at \/ (f < at /\ IsParsed(f))
  BY <1>2, <1>3, <1>5 DEF IsParsed
<1>9. mainFront' \in 0..Len(fronts) /\ (phase' = "parse" => mainFront' < at')
  <2>1. mainFront \in 0..Len(fronts) /\ mainFront < at
    BY <1>1 DEF ModulesInv
  <2> QED
    BY <1>2, <1>3, <2>1
<1>10. ASSUME NEW f \in 1..Len(fronts), IsParsed(f)'
       PROVE  /\ HasMain(fronts[f]) =>
                    /\ mainFront' = f
                    /\ \E m \in DOMAIN modules' :
                          modules'[m].front = f /\ modules'[m].item = 0
              /\ ModuleItems(fronts[f]) # {} =>
                    \E m \in DOMAIN modules' : modules'[m].front = f
  <2>1. CASE f = at
    <3>1. ASSUME NEW k \in 1..Len(new)
          PROVE  /\ Len(modules) + k \in DOMAIN modules'
                 /\ modules'[Len(modules) + k] = new[k] /\ new[k].front = at
      BY <1>6, <1>7 DEF Joining
    <3>2. HasMain(fronts[f]) =>
             /\ mainFront' = f
             /\ \E m \in DOMAIN modules' :
                   modules'[m].front = f /\ modules'[m].item = 0
      BY <2>1, <3>1
    <3>3. Len(new) # 0 => 1 \in 1..Len(new)
      BY <1>6
    <3>4. ModuleItems(fronts[f]) # {} =>
             \E m \in DOMAIN modules' : modules'[m].front = f
      BY <2>1, <3>1, <3>3
    <3> QED
      BY <3>2, <3>4
  <2>2. CASE f < at /\ IsParsed(f)
    <3>1. /\ HasMain(fronts[f]) =>
                /\ mainFront = f
                /\ \E m \in DOMAIN modules :
                      modules[m].front = f /\ modules[m].item = 0
          /\ ModuleItems(fronts[f]) # {} =>
                \E m \in DOMAIN modules : modules[m].front = f
      BY <1>1, <2>2 DEF ModulesInv
    <3>2. mainFront = f => mainFront' = f
      BY <1>2
    <3>3. \A m \in DOMAIN modules : m \in DOMAIN modules' /\ modules'[m] = modules[m]
      BY <1>6, <1>7
    <3> QED
      BY <3>1, <3>2, <3>3
  <2> QED
    BY <1>8, <1>10, <2>1, <2>2
<1>11. Len(modules') # 0 /\ modules'[1].front = 1 /\ modules'[1].item = 1
  <2>1. CASE at = 1
    <3>1. 1 \in 1..Len(new) /\ new[1].item = 1 /\ new[1].front = 1
      BY <1>6, <2>1 DEF Joining
    <3>2. Len(modules) = 0
      <4>1. \A m \in 1..Len(modules) :
               modules[m].front < 1 /\ modules[m].front \in 1..Len(fronts)
        BY <1>1, <1>7, <2>1 DEF ModulesInv
      <4>2. 1..Len(modules) = {}
        BY <1>2, <4>1
      <4> QED
        BY <1>6, <4>2
    <3>3. modules'[0 + 1] = new[1]
      BY <1>6, <3>1, <3>2
    <3> QED
      BY <1>6, <3>1, <3>2, <3>3
  <2>2. CASE at # 1
    <3>1. IsParsed(1)
      BY <1>2, <2>2 DEF IsParsed
    <3>2. Len(modules) # 0 /\ modules[1].front = 1 /\ modules[1].item = 1
      BY <1>1, <3>1 DEF ModulesInv
    <3> QED
      BY <1>6, <3>2
  <2> QED
    BY <2>1, <2>2
<1>12. ModulesInv'
  <2>1. phase' = "parse" => \A m \in DOMAIN modules' : modules'[m].front < at'
    BY <1>2, <1>3, <1>6
  <2> QED
    BY <1>3, <1>5, <1>6, <1>9, <1>10, <1>11, <2>1 DEF ModulesInv
<1>13. OrderInv'
  <2>1. sortpc' = "idle"
    BY <1>1, <1>5 DEF OrderInv, Sorting
  <2>2. phase' = "names" => at' \in 1..Len(modules')
    BY <1>3, <1>6, <1>11
  <2>3. phase' = "parse" => at' \in 1..Len(fronts')
    BY <1>2, <1>3, <1>5
  <2> QED
    BY <1>3, <2>1, <2>2, <2>3 DEF OrderInv, Sorting, AfterNames, AfterSort
<1>14. NamesInv'
  BY <1>3 DEF NamesInv, AfterNames
<1>15. ReportInv'
  BY <1>2, <1>3, <1>5 DEF CompIInv, ReportInv
<1> QED
  BY <1>6, <1>12, <1>13, <1>14, <1>15 DEF CompIInv

(* So does one that is refused.                                            *)
LEMMA FrontIsRefused ==
    ASSUME CompIInv, phase = "parse", ToFailed, msgs' = msgs \cup {at},
           NEW new, Joining(new), Create(new), ParseUnchanged,
           mainFront' = mainFront, \A k \in 1..Len(new) : new[k].item # 0
    PROVE  CompIInv'
<1>1. FrontsInv /\ ModulesInv /\ OrderInv /\ NamesInv
  BY DEF CompIInv
<1>2. at \in 1..Len(fronts) /\ Len(fronts) \in Nat
  BY <1>1, FrontFacts DEF OrderInv
<1>3. phase' = "failed" /\ phase' \in {"parse", "names", "failed"}
  BY DEF ToFailed
<1>5. UNCHANGED <<fronts, sortpc, fault>>
  BY DEF ParseUnchanged
<1>6. /\ IsSeq(modules')
      /\ \A m \in DOMAIN modules' :
            /\ modules'[m].front \in 1..Len(fronts)
            /\ modules'[m].item \in Nat
            /\ ~IsRoot(m)' => modules'[m].item \in ModuleItems(FileOf(m)')
            /\ IsRoot(m)' => modules'[m].front = mainFront' /\ HasMain(FileOf(m)')
      /\ \A j, k \in DOMAIN modules' : j < k => InOrder(j, k)'
      /\ SortIInv' /\ FrontsInv' /\ TablesInv' /\ ProgressInv'
      /\ SymbolsInv' /\ TranslatedInv' /\ PassedInv' /\ EmitInv'
  <2> HIDE DEF Joining, Create, ParseUnchanged
  <2> QED
    BY <1>3, ModulesGrow
<1>8. \A f : ~IsParsed(f)'
  BY <1>3 DEF IsParsed
<1>9. mainFront' \in 0..Len(fronts)
  BY <1>1 DEF ModulesInv
<1>12. ModulesInv'
  BY <1>3, <1>5, <1>6, <1>8, <1>9 DEF ModulesInv
<1>13. OrderInv' /\ NamesInv'
  BY <1>3 DEF OrderInv, NamesInv, Sorting, AfterNames, AfterSort
<1>15. ReportInv'
  BY <1>2, <1>3, <1>5 DEF CompIInv, ReportInv
<1> QED
  BY <1>6, <1>12, <1>13, <1>15 DEF CompIInv

(* Each way to parse a front is one of the two.                            *)
LEMMA ParseFrontStep == CompIInv /\ ParseFront => CompIInv'
<1> SUFFICES ASSUME CompIInv, ParseFront PROVE CompIInv'
  OBVIOUS
<1>1. phase = "parse"
  BY DEF ParseFront, ParseJunk, ParseLibrary, ParseMain, ParseSecondMain
<1>2. FrontsInv /\ at \in 1..Len(fronts)
  BY <1>1 DEF CompIInv, OrderInv
<1>3. /\ Joining(NewModules(at))
      /\ \A k \in 1..Len(NewModules(at)) : NewModules(at)[k].item # 0
  BY <1>2, StatementsJoin
<1>4. /\ Len(NewModules(at)) \in Nat
      /\ ModuleItems(fronts[at]) # {} => Len(NewModules(at)) # 0
  BY <1>2, NewModuleFacts
<1>5. at = 1 => Len(NewModules(at)) # 0 /\ NewModules(at)[1].item = 1
  <2> SUFFICES ASSUME at = 1 PROVE Len(NewModules(1)) # 0 /\ NewModules(1)[1].item = 1
    OBVIOUS
  <2>1. fronts[1] = Stdlib
    BY <1>1, <1>2, FrontFacts
  <2>2. Len(NewModules(1)) = 1 /\ 1 \in 1..Len(NewModules(1))
    <3>1. 1 \in 1..Len(fronts)
      BY <1>2
    <3>2. Len(NewModules(1)) = Cardinality(ModuleItems(fronts[1]))
      BY <1>2, <3>1, NewModuleFacts
    <3>3. Cardinality(ModuleItems(fronts[1])) = 1
      BY <2>1, StdlibFacts
    <3> QED
      BY <3>2, <3>3
  <2>3. NewModules(1)[1].item = ModuleAt(fronts[1], 1)
    BY <1>2, <2>2, NewModuleFacts
  <2> QED
    BY <2>1, <2>2, <2>3, StdlibFacts
<1>6. msgs \cup LoneMessage \in {msgs, msgs \cup {at}}
  BY DEF LoneMessage
<1>7. CASE ParseJunk \/ ParseSecondMain
  <2>1. /\ Create(NewModules(at)) /\ msgs' = msgs \cup {at} /\ ToFailed
        /\ ParseUnchanged /\ mainFront' = mainFront
    BY <1>7 DEF ParseJunk, ParseSecondMain
  <2> QED
    BY <1>1, <1>3, <2>1, FrontIsRefused
<1>8. CASE ParseLibrary
  <2>1. /\ ~HasMain(fronts[at]) /\ Create(NewModules(at))
        /\ msgs' = msgs \cup LoneMessage /\ Step(Len(fronts), "names")
        /\ ParseUnchanged /\ mainFront' = mainFront
    BY <1>8 DEF ParseLibrary
  <2>2. PICK new : new = NewModules(at)
    OBVIOUS
  <2> QED
    BY <1>1, <1>3, <1>4, <1>5, <1>6, <2>1, <2>2, FrontIsParsed
<1>9. CASE ParseMain
  <2>1. /\ HasMain(fronts[at]) /\ mainFront = 0 /\ mainFront' = at
        /\ Create(NewModules(at) \o RootModule(at))
        /\ msgs' = msgs \cup LoneMessage /\ Step(Len(fronts), "names")
        /\ ParseUnchanged
    BY <1>9 DEF ParseMain
  <2>2. PICK new : new = NewModules(at) \o RootModule(at)
    OBVIOUS
  <2>3. /\ Joining(new) /\ Len(new) = Len(NewModules(at)) + 1
        /\ new[Len(new)].item = 0
        /\ Len(NewModules(at)) # 0 => new[1] = NewModules(at)[1]
    BY <1>2, <2>1, <2>2, FileJoins
  <2>4. Len(new) \in 1..Len(new) /\ Len(new) # 0
    BY <1>4, <2>3
  <2>5. at = 1 => Len(new) # 0 /\ new[1].item = 1
    BY <1>5, <2>3, <2>4
  <2>6. \E k \in 1..Len(new) : new[k].item = 0
    BY <2>3, <2>4
  <2>7. Create(new)
    BY <2>1, <2>2
  <2> QED
    BY <1>1, <1>6, <2>1, <2>3, <2>4, <2>5, <2>6, <2>7, FrontIsParsed
<1> QED
  BY <1>7, <1>8, <1>9 DEF ParseFront

-----------------------------------------------------------------------------
(* Names and imports.                                                      *)

(* compiler_module_get() finds a module of the name if there is one.       *)
LEMMA ModuleGetFinds ==
    ASSUME NEW name, Known(name), N \in Nat
    PROVE  ModuleGet(name) \in Mods
<1> DEFINE S == {k \in Mods : Name(k) = name}
<1>1. S \in SUBSET Nat /\ S # {}
  BY DEF Mods, Known
<1>2. PICK k \in S : \A m \in S : k <= m
  BY <1>1, LeastNumber
<1>3. \A j \in 1..(k - 1) : Name(j) # name
  <2> SUFFICES ASSUME NEW j \in 1..(k - 1), Name(j) = name PROVE FALSE
    OBVIOUS
  <2>1. k \in 1..N
    BY DEF Mods
  <2>2. j \in S /\ ~(k <= j)
    BY <2>1 DEF Mods
  <2> QED
    BY <1>2, <2>2
<1> QED
  BY <1>3 DEF ModuleGet

(* The imports of a module are a list of names.                            *)
LEMMA ImportNamesAreSeq ==
    ASSUME FrontsInv, ModulesInv
    PROVE  \A m \in DOMAIN modules : IsSeq(ImportNames(m))
<1> SUFFICES ASSUME NEW m \in DOMAIN modules PROVE IsSeq(ImportNames(m))
  OBVIOUS
<1>0. /\ IsFile(FileOf(m))
      /\ ~IsRoot(m) => modules[m].item \in ModuleItems(FileOf(m))
  BY ModuleFacts DEF ModulesInv
<1>1. IsSeq(Nodes(m)) /\ \A k \in DOMAIN Nodes(m) : IsStatement(Nodes(m)[k])
  <2>1. CASE IsRoot(m)
    BY <1>0, <2>1, FlatStatements DEF Nodes
  <2>2. CASE ~IsRoot(m)
    <3> DEFINE i == modules[m].item
    <3>1. i \in DOMAIN FileOf(m).items /\ FileOf(m).items[i].is = "module"
      BY <1>0, <2>2 DEF ModuleItems
    <3>2. /\ IsSeq(FileOf(m).items[i].body)
          /\ \A s \in Range(FileOf(m).items[i].body) : IsStatement(s)
      BY <1>0, <3>1 DEF IsFile, IsStatement
    <3>3. Nodes(m) = FileOf(m).items[i].body
      BY <2>2 DEF Nodes
    <3> HIDE DEF i
    <3> QED
      BY <3>2, <3>3, FactsOfSeq
  <2> QED
    BY <2>1, <2>2
<1>2. CASE FromRir(m)
  <2>1. <<>> \in Seq({})
    OBVIOUS
  <2>2. IsSeq(<<>>)
    BY <2>1, SeqsAreSeqs
  <2> QED
    BY <1>2, <2>2 DEF ImportNames
<1>3. CASE ~FromRir(m)
  <2> DEFINE n == Len(Nodes(m))
             seqs == [k \in DOMAIN Nodes(m) |->
                        IF Nodes(m)[k].is = "import" THEN Nodes(m)[k].names ELSE <<>>]
             T == UNION {Range(seqs[k]) : k \in 1..n}
  <2>1. n \in Nat /\ DOMAIN Nodes(m) = 1..n
    BY <1>1, FactsOfSeq
  <2>2. ASSUME NEW k \in 1..n PROVE seqs[k] \in Seq(T)
    <3>1. CASE Nodes(m)[k].is = "import"
      <4>1. seqs[k] = Nodes(m)[k].names /\ IsSeq(seqs[k])
        BY <1>1, <2>1, <3>1 DEF IsStatement
      <4>2. Range(seqs[k]) \subseteq T
        OBVIOUS
      <4> HIDE DEF T, seqs
      <4> QED
        BY <4>1, <4>2, SeqMonotonic DEF IsSeq
    <3>2. CASE Nodes(m)[k].is # "import"
      <4>1. seqs[k] = <<>>
        BY <2>1, <3>2
      <4> HIDE DEF T, seqs
      <4> QED
        BY <4>1
    <3> QED
      BY <3>1, <3>2
  <2>3. seqs = [k \in 1..n |-> seqs[k]]
    BY <2>1
  <2>4. FlattenSeq(seqs) \in Seq(T)
    <3> HIDE DEF seqs, T
    <3> QED
      BY <2>1, <2>2, <2>3, FlatSeqs
  <2>5. ImportNames(m) = FlattenSeq(seqs)
    BY <1>3 DEF ImportNames
  <2> HIDE DEF seqs, T
  <2> QED
    BY <2>4, <2>5, SeqsAreSeqs
<1> QED
  BY <1>2, <1>3

(* The dependencies a module is given are modules.                         *)
LEMMA DependenciesAreModules ==
    ASSUME CompIInv, phase = "names", ~MissingImport(at)
    PROVE  Dependencies(at) \in Seq(Mods)
<1>1. /\ FrontsInv /\ ModulesInv /\ OrderInv /\ TablesInv
      /\ phase \in AfterParse
  BY DEF CompIInv, AfterParse
<1>2. /\ at \in 1..Len(modules) /\ at \in DOMAIN modules
      /\ Len(modules) \in Nat /\ DOMAIN modules = 1..Len(modules)
  BY <1>1, ModuleFacts DEF OrderInv, ModulesInv
<1>3. N = Len(modules) /\ Mods = 1..Len(modules) /\ N \in Nat
  BY <1>1, <1>2 DEF N, Mods, TablesInv
<1>4. Known(StdlibName)
  BY <1>1, <1>3, LibraryModule DEF Known
<1>5. PICK s : s = ImportNames(at)
  OBVIOUS
<1>6. IsSeq(s) /\ Len(s) \in Nat /\ DOMAIN s = 1..Len(s)
  <2>1. IsSeq(ImportNames(at))
    BY <1>1, <1>2, ImportNamesAreSeq
  <2>2. IsSeq(s)
    BY <1>5, <2>1
  <2> QED
    BY <2>2, FactsOfSeq
<1>7. PICK t : t = StdlibImport(at)
  OBVIOUS
<1>8. IsSeq(t) /\ Len(t) \in Nat /\ \A k \in 1..Len(t) : t[k] = StdlibName
  <2>1. CASE t = <<>>
    <3>1. <<>> \in Seq({})
      OBVIOUS
    <3>2. IsSeq(<<>>)
      BY <3>1, SeqsAreSeqs
    <3> QED
      BY <2>1, <3>2
  <2>2. CASE t = <<StdlibName>>
    <3>1. IsSeq(<<StdlibName>>) /\ Len(<<StdlibName>>) = 1 /\ <<StdlibName>>[1] = StdlibName
      BY OneFileSeq
    <3>2. \A k \in 1..1 : k = 1
      OBVIOUS
    <3> QED
      BY <2>2, <3>1, <3>2
  <2> QED
    BY <1>7, <2>1, <2>2 DEF StdlibImport
<1>9. /\ Len(s \o t) = Len(s) + Len(t)
      /\ \A k \in 1..(Len(s) + Len(t)) :
            \/ k \in 1..Len(s) /\ (s \o t)[k] = s[k]
            \/ k - Len(s) \in 1..Len(t) /\ (s \o t)[k] = t[k - Len(s)]
  BY <1>6, <1>8, JoinedSeqs
<1>10. ASSUME NEW k \in 1..(Len(s) + Len(t)) PROVE ModuleGet((s \o t)[k]) \in Mods
  <2>1. CASE k \in 1..Len(s) /\ (s \o t)[k] = s[k]
    <3>1. Known(s[k])
      BY <1>5, <1>6, <2>1 DEF MissingImport
    <3> QED
      BY <1>3, <2>1, <3>1, ModuleGetFinds
  <2>2. CASE k - Len(s) \in 1..Len(t) /\ (s \o t)[k] = t[k - Len(s)]
    BY <1>3, <1>4, <1>8, <2>2, ModuleGetFinds
  <2> QED
    BY <1>9, <2>1, <2>2
<1>11. Dependencies(at) = [k \in 1..(Len(s) + Len(t)) |-> ModuleGet((s \o t)[k])]
  BY <1>5, <1>7, <1>9 DEF Dependencies
<1> HIDE DEF Mods
<1> QED
  BY <1>6, <1>8, <1>10, <1>11

(* After parsing the fronts and the modules are settled, and most steps    *)
(* leave the tables alone.                                                 *)
LEMMA SettledStep ==
    ASSUME CompIInv, phase \in AfterParse, phase' \in AfterParse \cup {"failed"},
           UNCHANGED <<deps, job, added, fronts, modules, mainFront, scopes,
                       symbols, rirs>>
    PROVE  FrontsInv' /\ ModulesInv' /\ TablesInv' /\ SymbolsInv' /\ TranslatedInv'
<1>1. phase # "args"
  BY DEF AfterParse, AfterNames
<1>2. FrontsInv' /\ ModulesInv'
  BY SettledModules DEF CompIInv
<1>3. TablesInv'
  BY <1>1, SameTables DEF CompIInv
<1>4. SymbolsInv' /\ TranslatedInv'
  BY SameSymbols DEF CompIInv
<1> QED
  BY <1>2, <1>3, <1>4

(* A failure, with a message for the front of a module or without one,     *)
(* ends the compilation.                                                   *)
LEMMA CompilationFails ==
    ASSUME CompIInv, phase \in AfterParse, phase # "aborted",
           phase' = "failed", SortIInv',
           NEW m \in DOMAIN modules,
           msgs' \in {msgs, msgs \cup {modules[m].front}},
           UNCHANGED <<deps, job, added, fronts, modules, mainFront, scopes,
                       passed, symbols, rirs, linkSource, emitted, fault>>
    PROVE  CompIInv'
<1>1. FrontsInv' /\ ModulesInv' /\ TablesInv' /\ SymbolsInv' /\ TranslatedInv'
  BY SettledStep
<1>2. OrderInv' /\ NamesInv' /\ PassedInv'
  BY DEF OrderInv, NamesInv, PassedInv, Sorting, AfterNames, AfterSort
<1>3. ProgressInv'
  BY SameFiles DEF CompIInv, ProgressInv, Sorting
<1>4. EmitInv'
  BY DEF CompIInv, EmitInv, Sorting
<1>5. ReportInv'
  <2>1. modules[m].front \in 1..Len(fronts) /\ fault = "none"
    BY DEF CompIInv, ModulesInv, ReportInv, AfterParse, AfterNames
  <2> QED
    BY <2>1 DEF CompIInv, ReportInv
<1> QED
  BY <1>1, <1>2, <1>3, <1>4, <1>5 DEF CompIInv

(* The modules of the import walk are those of the compilation.            *)
LEMMA WalkedModules ==
    ASSUME CompIInv
    PROVE  /\ N = Len(modules) /\ Mods = 1..Len(modules) /\ DOMAIN modules = Mods
           /\ N \in Nat /\ DOMAIN deps = Mods
           /\ Len(sorted) \in Nat
           /\ \A p \in 1..Len(sorted) : sorted[p] \in Mods
           /\ \A m \in Mods : Imports(m) \subseteq Mods
           /\ \A m \in Mods : deps[m] \in Seq(Mods)
           /\ deps \in Seq(Seq(Nat \ {0}))
<1>1. /\ SortTypeOK /\ FrontsInv /\ ModulesInv /\ TablesInv
  BY DEF CompIInv, SortIInv
<1>2. N = Len(modules) /\ Mods = 1..Len(modules) /\ DOMAIN modules = Mods
  BY <1>1, ModuleFacts DEF N, Mods, TablesInv
<1>3. /\ N \in Nat /\ Len(sorted) \in Nat
      /\ \A p \in 1..Len(sorted) : sorted[p] \in Mods
      /\ \A m \in Mods : Imports(m) \subseteq Mods
  BY <1>1, TypedState
<1>4. deps \in Seq(Seq(Nat \ {0}))
  BY <1>1 DEF SortTypeOK
<1>5. DOMAIN deps = Mods
  BY <1>4 DEF Mods, N
<1>6. ASSUME NEW m \in Mods PROVE deps[m] \in Seq(Mods)
  <2>1. deps[m] \in Seq(Nat \ {0})
    BY <1>4, ElementOfSeq DEF Mods, N
  <2>2. \A k \in 1..Len(deps[m]) : deps[m][k] \in Mods
    BY <1>1 DEF SortTypeOK
  <2> HIDE DEF Mods
  <2> QED
    BY <2>1, <2>2
<1> QED
  BY <1>2, <1>3, <1>4, <1>5, <1>6

(* A name that is taken, or an import of nothing, ends the compilation.    *)
LEMMA RefuseNameStep == CompIInv /\ RefuseName => CompIInv'
<1> SUFFICES ASSUME CompIInv, RefuseName PROVE CompIInv'
  OBVIOUS
<1>1. /\ phase = "names" /\ phase' = "failed"
      /\ msgs' = msgs \cup {modules[at].front}
      /\ UNCHANGED <<sortVars, deps, job, added, fronts, modules, mainFront, scopes,
                     passed, symbols, rirs, linkSource, emitted, fault>>
  BY DEF RefuseName, ToFailed, NamesUnchanged, sortVars
<1>2. phase \in AfterParse
  BY <1>1 DEF AfterParse
<1>3. at \in DOMAIN modules
  BY <1>1, ModuleFacts DEF CompIInv, OrderInv
<1>4. SortIInv'
  BY <1>1, SameSort DEF CompIInv
<1>5. PICK m \in DOMAIN modules : m = at
  BY <1>3
<1> QED
  BY <1>1, <1>2, <1>4, <1>5, CompilationFails

(* A name of its own: the walk over the imports, which has not begun, gets *)
(* the dependencies of one more module.                                    *)
LEMMA ResolveNameStep == CompIInv /\ ResolveName => CompIInv'
<1> SUFFICES ASSUME CompIInv, ResolveName PROVE CompIInv'
  OBVIOUS
<1>1. /\ phase = "names" /\ ~NameTaken /\ ~MissingImport(at)
      /\ deps' = [deps EXCEPT ![at] = Dependencies(at)]
      /\ Step(N, "resolve")
      /\ UNCHANGED <<sortpc, marks, scan, found, stack, sorted, offender, job,
                     added, fronts, msgs, modules, mainFront, scopes, passed,
                     symbols, rirs, linkSource, emitted, fault>>
  BY DEF ResolveName, NamesUnchanged
<1>2. phase \in AfterParse /\ sortpc = "idle" /\ at \in 1..Len(modules)
  BY <1>1 DEF CompIInv, OrderInv, AfterParse, Sorting
<1>3. /\ N = Len(modules) /\ Mods = 1..Len(modules) /\ DOMAIN modules = Mods
      /\ N \in Nat /\ DOMAIN deps = Mods
      /\ \A m \in Mods : deps[m] \in Seq(Mods)
      /\ deps \in Seq(Seq(Nat \ {0}))
  BY WalkedModules
<1>4. \/ phase' = "names" /\ at' = at + 1 /\ at < N
      \/ phase' = "resolve" /\ at' = 1 /\ at = N
  BY <1>1, <1>2, <1>3 DEF Step
<1>5. Dependencies(at) \in Seq(Mods)
  BY <1>1, DependenciesAreModules
<1>6. ImportsAreModules' /\ Len(deps') = Len(deps)
  <2>1. PICK s \in Seq(Mods) : s = Dependencies(at)
    BY <1>5
  <2>2. deps' = [deps EXCEPT ![at] = s]
    BY <1>1, <2>1
  <2>3. s \in Seq(Nat \ {0})
    <3>1. Mods \subseteq Nat \ {0}
      BY DEF Mods
    <3>2. \A k \in 1..Len(s) : s[k] \in Mods
      BY ElementOfSeq
    <3>3. Len(s) \in Nat /\ s = [k \in 1..Len(s) |-> s[k]]
      BY SeqsAreSeqs, FactsOfSeq
    <3> HIDE DEF Mods
    <3>4. s \in [1..Len(s) -> Nat \ {0}]
      BY <3>1, <3>2, <3>3
    <3> QED
      BY <3>3, <3>4
  <2>4. deps' \in Seq(Seq(Nat \ {0})) /\ Len(deps') = Len(deps)
    <3>1. at \in 1..Len(deps)
      BY <1>2, <1>3 DEF N
    <3>2. deps' = [deps EXCEPT ![at] = s] /\ deps \in Seq(Seq(Nat \ {0}))
      BY <1>3, <2>2
    <3> QED
      BY <2>3, <3>1, <3>2, ExceptSeq
  <2>5. Mods' = Mods
    BY <2>4 DEF Mods, N
  <2>6. \A m \in Mods : deps'[m] \in Seq(Mods)
    BY <1>3, <2>2
  <2> QED
    BY <2>4, <2>5, <2>6 DEF ImportsAreModules
<1>7. SortIInv'
  <2>1. NotStarted
    BY <1>2 DEF CompIInv, SortIInv, ScanState
  <2>2. NotStarted'
    BY <1>1, <2>1 DEF NotStarted
  <2> QED
    BY <1>6, <2>2, BeforeTheWalk, PTL
<1>8. FrontsInv' /\ ModulesInv'
  <2>1. phase' \in AfterParse \cup {"failed"}
    BY <1>4 DEF AfterParse, AfterNames
  <2> QED
    BY <1>1, <1>2, <2>1, SettledModules DEF CompIInv
<1>9. TablesInv'
  BY <1>1, <1>6 DEF CompIInv, TablesInv, IsSeq
<1>10. OrderInv'
  <2>1. 1 \in 1..Len(modules)
    BY <1>2
  <2> QED
    BY <1>1, <1>2, <1>3, <1>4 DEF OrderInv, Sorting, AfterNames, AfterSort
<1>11. NamesInv'
  <2>1. \A j, k \in 1..at : Name(j) = Name(k) => j = k
    <3>1. /\ \A j, k \in 1..(at - 1) : Name(j) = Name(k) => j = k
          /\ \A k \in 1..(at - 1) : Name(k) # Name(at)
      BY <1>1 DEF CompIInv, NamesInv, NameTaken
    <3>2. \A k \in 1..at : k = at \/ k \in 1..(at - 1)
      BY <1>2
    <3> QED
      BY <3>1, <3>2, Zenon
  <2>2. \A m : Name(m)' = Name(m)
    BY <1>1, SameFiles
  <2>3. CASE phase' = "names" /\ at' = at + 1
    <3>1. at' - 1 = at
      BY <1>2, <2>3
    <3> QED
      BY <2>1, <2>2, <2>3, <3>1 DEF NamesInv, AfterNames
  <2>4. CASE phase' = "resolve" /\ at = N
    <3>1. DOMAIN modules' = 1..at
      BY <1>1, <1>3, <2>4
    <3> QED
      BY <2>1, <2>2, <2>4, <3>1 DEF NamesInv
  <2> QED
    BY <1>4, <2>3, <2>4
<1>12. \A m \in DOMAIN modules : FromRir(m) \/ rirs[m] = "none"
  BY <1>1 DEF CompIInv, ProgressInv, Sorting
<1>13. ProgressInv' /\ PassedInv'
  BY <1>1, <1>4, SameFiles DEF CompIInv, ProgressInv, PassedInv, Sorting
<1>14. SymbolsInv' /\ TranslatedInv'
  <2>1. \A m \in DOMAIN modules : ~Analyzed(m)'
    BY <1>1, <1>12, SameFiles DEF Analyzed
  <2>2. \A m \in DOMAIN modules : rirs'[m] # "processed"
    BY <1>1, <1>12 DEF CompIInv, ProgressInv
  <2> QED
    BY <1>1, <2>1, <2>2 DEF SymbolsInv, TranslatedInv
<1>15. EmitInv' /\ ReportInv'
  BY <1>1, <1>4 DEF CompIInv, EmitInv, ReportInv, Sorting
<1> QED
  BY <1>7, <1>8, <1>9, <1>10, <1>11, <1>13, <1>14, <1>15 DEF CompIInv

(* A step of the import walk; its last one finds every module listed, or a *)
(* ring.                                                                   *)
LEMMA ResolveImportsStep == CompIInv /\ ResolveImports => CompIInv'
<1> SUFFICES ASSUME CompIInv, ResolveImports PROVE CompIInv'
  OBVIOUS
<1>1. /\ phase = "resolve" /\ (BeginResolve \/ Resolve)
      /\ phase' = CASE sortpc' = "sorted" -> "analyze"
                    [] sortpc' = "cyclic" -> "failed"
                    [] OTHER -> phase
      /\ msgs' = msgs \cup (IF sortpc' = "cyclic" THEN {modules[offender'].front}
                                                  ELSE {})
      /\ UNCHANGED <<job, added, fronts, at, modules, mainFront, scopes, passed,
                     symbols, rirs, linkSource, emitted, fault>>
  BY DEF ResolveImports
<1>2. phase \in AfterParse
  BY <1>1 DEF AfterParse, AfterNames
<1>3. SortIInv'
  BY <1>1, SortNextPreserves DEF CompIInv, SortNext
<1>4. deps' = deps /\ sortpc' \in {"walk", "sorted", "cyclic"}
  BY <1>1 DEF BeginResolve, Resolve, ScanMarked, ScanVisit, ScanEnd, ImportMarked,
     ImportVisit, ImportOpen, VisitDone
<1>5. Mods' = Mods /\ DOMAIN modules = Mods /\ Mods = 1..Len(modules)
  BY <1>4, SameGraph, WalkedModules
<1>6. CASE sortpc' = "cyclic"
  <2>1. offender' \in DOMAIN modules
    <3>1. CycleIsReal'
      BY <1>3 DEF SortIInv
    <3> QED
      BY <1>5, <1>6, <3>1 DEF CycleIsReal
  <2>2. phase' = "failed" /\ msgs' = msgs \cup {modules[offender'].front}
    BY <1>1, <1>6
  <2>3. PICK m \in DOMAIN modules : m = offender'
    BY <2>1
  <2>4. msgs' = msgs \cup {modules[m].front}
    BY <2>2, <2>3
  <2> QED
    BY <1>1, <1>2, <1>3, <1>4, <2>2, <2>4, CompilationFails
<1>7. CASE sortpc' # "cyclic"
  <2>1. msgs' = msgs
    BY <1>1, <1>7
  <2>2. \/ sortpc' = "walk" /\ phase' = "resolve"
        \/ sortpc' = "sorted" /\ phase' = "analyze"
    BY <1>1, <1>4, <1>7
  <2>3. FrontsInv' /\ ModulesInv' /\ TablesInv' /\ SymbolsInv' /\ TranslatedInv'
    <3>1. phase' \in AfterParse \cup {"failed"}
      BY <2>2 DEF AfterParse, AfterNames
    <3> QED
      BY <1>1, <1>2, <1>4, <3>1, SettledStep
  <2>4. at' = 1
    BY <1>1 DEF CompIInv, OrderInv
  <2>5. OrderInv'
    <3>1. phase' = "analyze" => at' \in 1..Len(sorted')
      <4> SUFFICES ASSUME phase' = "analyze" PROVE at' \in 1..Len(sorted')
        OBVIOUS
      <4>1. SortedIsComplete' /\ SortTypeOK'
        BY <1>3, AllAreSorted, PTL DEF SortIInv
      <4>2. Delivered' = Mods
        BY <1>5, <2>2, <4>1 DEF SortedIsComplete
      <4>3. 1 \in Mods
        BY <1>2, <1>5, LibraryModule DEF CompIInv
      <4>4. PICK p \in 1..Len(sorted') : sorted'[p] = 1
        BY <4>2, <4>3 DEF Delivered
      <4>5. Len(sorted') \in Nat
        BY <4>1, LenProperties DEF SortTypeOK
      <4> QED
        BY <2>4, <4>4, <4>5
    <3> QED
      BY <2>2, <2>4, <3>1 DEF OrderInv, Sorting, AfterNames, AfterSort
  <2>6. NamesInv'
    <3>1. phase \in AfterNames /\ phase' \in AfterNames \cup {"failed"}
      BY <1>1, <2>2 DEF AfterNames
    <3> QED
      BY <1>1, <3>1, SettledNames DEF CompIInv
  <2>7. ProgressInv'
    <3>1. \A m : ~Reached(m)'
      BY <2>4 DEF Reached
    <3> QED
      BY <1>1, <2>2, <3>1, SameFiles DEF CompIInv, ProgressInv, Sorting
  <2>8. PassedInv'
    BY <1>1, <2>2 DEF CompIInv, PassedInv, Sorting
  <2>9. EmitInv' /\ ReportInv'
    BY <1>1, <2>1, <2>2 DEF CompIInv, EmitInv, ReportInv, Sorting
  <2> QED
    BY <1>3, <2>3, <2>5, <2>6, <2>7, <2>8, <2>9 DEF CompIInv
<1> QED
  BY <1>6, <1>7

-----------------------------------------------------------------------------
(* Analysis and translation, along the sorted list.                        *)

(* The module at hand was not reached before, and all it imports was.      *)
LEMMA ListPosition ==
    ASSUME CompIInv, phase \in {"analyze", "rir"}
    PROVE  /\ at \in 1..Len(sorted) /\ Len(sorted) \in Nat
           /\ Current \in DOMAIN modules /\ ~Reached(Current)
           /\ \A d \in Imports(Current) : d \in DOMAIN modules /\ Reached(d)
           /\ \A m \in DOMAIN modules : \E p \in 1..Len(sorted) : sorted[p] = m
<1>1. at \in 1..Len(sorted) /\ sortpc = "sorted"
  BY DEF CompIInv, OrderInv, AfterSort, AfterNames
<1>2. /\ Len(sorted) \in Nat /\ DOMAIN modules = Mods
      /\ \A p \in 1..Len(sorted) : sorted[p] \in Mods
      /\ \A m \in Mods : Imports(m) \subseteq Mods
  BY WalkedModules
<1>3. Current \in Mods
  BY <1>1, <1>2 DEF Current
<1>4. ListedOnce /\ ImportsFirst /\ SortedIsComplete
  BY AllAreSorted DEF CompIInv, SortIInv
<1>5. ~Reached(Current)
  <2> SUFFICES ASSUME NEW p \in 1..(at - 1), sorted[p] = sorted[at] PROVE FALSE
    BY DEF Reached, Current
  <2>1. p \in 1..Len(sorted) /\ p # at
    BY <1>1, <1>2
  <2> QED
    BY <1>1, <1>4, <2>1 DEF ListedOnce
<1>6. \A d \in Imports(Current) : d \in Mods /\ Reached(d)
  BY <1>1, <1>2, <1>3, <1>4 DEF ImportsFirst, Current, Reached
<1>7. \A m \in Mods : \E p \in 1..Len(sorted) : sorted[p] = m
  BY <1>1, <1>4 DEF SortedIsComplete, Delivered
<1> QED
  BY <1>1, <1>2, <1>3, <1>5, <1>6, <1>7

(* The walk goes on to the next module of the list, or it has come by all. *)
LEMMA ListStep ==
    ASSUME CompIInv, NEW next \in {"rir", "own"},
           phase = IF next = "rir" THEN "analyze" ELSE "rir",
           Step(Len(sorted), next),
           UNCHANGED <<sortVars, job, added, fronts, msgs, modules, mainFront,
                       linkSource, emitted, fault>>
    PROVE  /\ SortIInv' /\ FrontsInv' /\ ModulesInv' /\ OrderInv' /\ NamesInv'
           /\ EmitInv' /\ ReportInv'
           /\ \/ /\ phase' = phase
                 /\ \A m : Reached(m)' <=> Reached(m) \/ m = Current
              \/ /\ phase' = next
                 /\ \A m : ~Reached(m)'
                 /\ \A m \in DOMAIN modules : Reached(m) \/ m = Current
<1>1. phase \in {"analyze", "rir"} /\ phase \in AfterParse /\ phase \in AfterNames
  BY DEF AfterParse, AfterNames
<1>2. /\ at \in 1..Len(sorted) /\ Len(sorted) \in Nat
      /\ \A m \in DOMAIN modules : \E p \in 1..Len(sorted) : sorted[p] = m
  BY <1>1, ListPosition
<1>3. \/ phase' = phase /\ at' = at + 1 /\ at < Len(sorted)
      \/ phase' = next /\ at' = 1 /\ at = Len(sorted)
  BY <1>2 DEF Step
<1>4. phase' \in {phase, next} /\ phase' \in AfterParse \cup {"failed"}
      /\ phase' \in AfterNames \cup {"failed"}
  BY <1>1, <1>3 DEF AfterParse, AfterNames
<1>5. UNCHANGED <<sortVars, deps, sorted, sortpc>>
  BY DEF sortVars
<1>6. SortIInv'
  BY SameSort DEF CompIInv
<1>7. FrontsInv' /\ ModulesInv'
  BY <1>1, <1>4, SettledModules DEF CompIInv
<1>8. NamesInv'
  BY <1>1, <1>4, SettledNames DEF CompIInv
<1>9. OrderInv'
  <2>1. sortpc' = "sorted"
    BY <1>1, <1>5 DEF CompIInv, OrderInv, AfterSort, AfterNames
  <2>2. at' \in 1..Len(sorted')
    BY <1>2, <1>3, <1>5
  <2>3. phase' = "own" => at' = 1
    BY <1>3
  <2> QED
    BY <1>4, <2>1, <2>2, <2>3 DEF OrderInv, Sorting, AfterNames, AfterSort
<1>10. EmitInv' /\ ReportInv'
  BY <1>1, <1>4 DEF CompIInv, EmitInv, ReportInv, Sorting
<1>11. CASE phase' = phase /\ at' = at + 1
  <2>1. \A p : p \in 1..(at' - 1) <=> p \in 1..(at - 1) \/ p = at
    BY <1>2, <1>11
  <2>2. \A m : Reached(m)' <=> Reached(m) \/ m = Current
    BY <1>5, <2>1 DEF Reached, Current
  <2> QED
    BY <1>6, <1>7, <1>8, <1>9, <1>10, <1>11, <2>2
<1>12. CASE phase' = next /\ at' = 1 /\ at = Len(sorted)
  <2>1. \A m : ~Reached(m)'
    BY <1>12 DEF Reached
  <2>2. \A p \in 1..Len(sorted) : p \in 1..(at - 1) \/ p = at
    BY <1>2, <1>12
  <2>3. \A m \in DOMAIN modules : Reached(m) \/ m = Current
    BY <1>2, <2>2 DEF Reached, Current
  <2> QED
    BY <1>6, <1>7, <1>8, <1>9, <1>10, <1>12, <2>1, <2>3
<1> QED
  BY <1>3, <1>11, <1>12

(* RIR input is passed over by the analysis.                               *)
LEMMA SkipRirInputStep == CompIInv /\ SkipRirInput => CompIInv'
<1> SUFFICES ASSUME CompIInv, SkipRirInput PROVE CompIInv'
  OBVIOUS
<1>1. /\ phase = "analyze" /\ FromRir(Current) /\ Step(Len(sorted), "rir")
      /\ UNCHANGED <<sortVars, deps, job, added, fronts, msgs, modules, mainFront,
                     scopes, passed, symbols, rirs, linkSource, emitted, fault>>
  BY DEF SkipRirInput, AnalyzeUnchanged, sortVars
<1>2. PICK next \in {"rir", "own"} : next = "rir"
  OBVIOUS
<1>3. /\ SortIInv' /\ FrontsInv' /\ ModulesInv' /\ OrderInv' /\ NamesInv'
      /\ EmitInv' /\ ReportInv'
      /\ \/ /\ phase' = phase
            /\ \A m : Reached(m)' <=> Reached(m) \/ m = Current
         \/ /\ phase' = "rir"
            /\ \A m : ~Reached(m)'
            /\ \A m \in DOMAIN modules : Reached(m) \/ m = Current
  BY <1>1, <1>2, ListStep
<1>4. TablesInv' /\ SymbolsInv' /\ TranslatedInv'
  BY <1>1, SameTables, SameSymbols DEF CompIInv
<1>5. ProgressInv'
  BY <1>1, <1>3, SameFiles DEF CompIInv, ProgressInv, Sorting
<1>6. PassedInv'
  BY <1>1, <1>3, SameFiles DEF CompIInv, PassedInv, Sorting
<1> QED
  BY <1>3, <1>4, <1>5, <1>6 DEF CompIInv

(* An error of the analysis ends the compilation.                          *)
LEMMA AnalysisErrorStep == CompIInv /\ AnalysisError => CompIInv'
<1> SUFFICES ASSUME CompIInv, AnalysisError PROVE CompIInv'
  OBVIOUS
<1>1. /\ phase = "analyze" /\ phase' = "failed"
      /\ msgs' \in {msgs, msgs \cup {modules[Current].front}}
      /\ UNCHANGED <<sortVars, deps, job, added, fronts, modules, mainFront,
                     scopes, passed, symbols, rirs, linkSource, emitted, fault>>
  BY DEF AnalysisError, ToFailed, AnalyzeUnchanged, sortVars
<1>2. phase \in AfterParse /\ phase # "aborted"
  BY <1>1 DEF AfterParse, AfterNames
<1>3. PICK m \in DOMAIN modules : m = Current
  BY <1>1, ListPosition
<1>4. SortIInv'
  BY <1>1, SameSort DEF CompIInv
<1> QED
  BY <1>1, <1>2, <1>3, <1>4, CompilationFails

(* Two modules of one file that share a statement: the statement is a      *)
(* module and both have its name.                                          *)
LEMMA SharedStatement ==
    ASSUME FrontsInv, ModulesInv, NEW j \in DOMAIN modules, NEW k \in DOMAIN modules,
           j < k, modules[j].front = modules[k].front,
           NEW i \in Subtree(j) \cap Subtree(k)
    PROVE  NamesIn(j) \cap NamesIn(k) # {}
<1>1. InOrder(j, k)
  BY DEF ModulesInv
<1>2. modules[k].front \in 1..Len(fronts) /\ Len(fronts) \in Nat
  BY FrontFacts DEF ModulesInv
<1>3. modules[j].item # modules[k].item /\ ~IsRoot(j)
  BY <1>1, <1>2 DEF InOrder
<1>4. Subtree(j) = {modules[j].item} /\ modules[j].item \in ModuleItems(FileOf(j))
  BY <1>3 DEF Subtree, ModulesInv
<1>5. i = modules[j].item /\ FileOf(j) = FileOf(k)
  BY <1>4 DEF FileOf
<1>6. IsRoot(k)
  BY <1>3, <1>5 DEF Subtree
<1>7. i \in ModulesIn(j) /\ i \in ModulesIn(k)
  BY <1>4, <1>5 DEF ModulesIn
<1>8. FileOf(j).items[i].name \in NamesIn(j) \cap NamesIn(k)
  BY <1>5, <1>7 DEF NamesIn
<1> QED
  BY <1>8

(* The first pass comes by a statement once, for a second time would have  *)
(* met the name of its module first.                                       *)
LEMMA NoneIsPassedTwice ==
    ASSUME CompIInv, phase = "analyze", ~ModuleNameClash(Current)
    PROVE  ~PassTwice(Current)
<1> SUFFICES ASSUME NEW i \in Subtree(Current), <<modules[Current].front, i>> \in passed
             PROVE  FALSE
  BY DEF PassTwice
<1>1. /\ FrontsInv /\ ModulesInv
      /\ Current \in DOMAIN modules /\ ~Reached(Current)
  BY ListPosition DEF CompIInv
<1>2. PICK c \in DOMAIN modules : c = Current
  BY <1>1
<1>3. modules[c].front \in 1..Len(fronts) /\ c \in Nat
  BY <1>1, ModuleFacts DEF ModulesInv
<1>4. i \in Subtree(c)
  BY <1>2
<1>5. i \in Nat
  <2>1. CASE IsRoot(c)
    <3>1. IsSeq(FileOf(c).items)
      BY <1>1, ModuleFacts DEF IsFile
    <3>2. i \in DOMAIN FileOf(c).items
      BY <1>4, <2>1 DEF Subtree
    <3> QED
      BY <3>1, <3>2, FactsOfSeq
  <2>2. CASE ~IsRoot(c)
    BY <1>1, <1>4, <2>2 DEF Subtree, ModulesInv
  <2> QED
    BY <2>1, <2>2
<1>6. PICK m \in DOMAIN modules :
        /\ Reached(m) /\ modules[m].front = modules[c].front /\ i \in Subtree(m)
        /\ NamesIn(m) \subseteq scopes[modules[c].front]
  BY <1>2, <1>3, <1>5 DEF CompIInv, PassedInv
<1>7. m # c /\ m \in Nat
  BY <1>1, <1>2, <1>6, ModuleFacts
<1>8. NamesIn(m) \cap NamesIn(c) # {}
  BY <1>1, <1>3, <1>4, <1>6, <1>7, SharedStatement
<1> QED
  BY <1>2, <1>6, <1>8 DEF ModuleNameClash

(* A module is analyzed: its functions are none of those it imports, or it *)
(* is a whole file.                                                        *)
LEMMA AnalyzeModuleStep == CompIInv /\ AnalyzeModule => CompIInv'
<1> SUFFICES ASSUME CompIInv, AnalyzeModule PROVE CompIInv'
  OBVIOUS
<1>1. /\ phase = "analyze" /\ ~FromRir(Current)
      /\ ~ModuleNameClash(Current) /\ ~Redeclares(Current) /\ ~UndefinedCall(Current)
  BY DEF AnalyzeModule, Refused
<1>2. ~PassTwice(Current)
  BY <1>1, NoneIsPassedTwice
<1>3. PICK c : c = Current
  OBVIOUS
<1>4. PICK f : f = modules[c].front
  OBVIOUS
<1>5. /\ Step(Len(sorted), "rir")
      /\ scopes' = [scopes EXCEPT ![f] = @ \cup NamesIn(c)]
      /\ passed' = passed \cup {<<f, i>> : i \in Subtree(c)}
      /\ symbols' = [symbols EXCEPT ![c] =
             FnNames(Children(c)) \cup IF IsRoot(c) THEN {} ELSE Imported(c)]
      /\ rirs' = [rirs EXCEPT ![c] = "created"]
      /\ UNCHANGED <<sortVars, deps, sorted, job, added, fronts, msgs, modules,
                     mainFront, linkSource, emitted, fault>>
  BY <1>2, <1>3, <1>4 DEF AnalyzeModule, AnalyzeUnchanged, sortVars
<1>6. PICK next \in {"rir", "own"} : next = "rir"
  OBVIOUS
<1>7. /\ SortIInv' /\ FrontsInv' /\ ModulesInv' /\ OrderInv' /\ NamesInv'
      /\ EmitInv' /\ ReportInv'
      /\ \/ /\ phase' = "analyze"
            /\ \A m : Reached(m)' <=> Reached(m) \/ m = c
         \/ /\ phase' = "rir"
            /\ \A m : ~Reached(m)'
            /\ \A m \in DOMAIN modules : Reached(m) \/ m = c
  BY <1>1, <1>3, <1>5, <1>6, ListStep
<1>8. /\ FrontsInv /\ ModulesInv /\ TablesInv /\ ProgressInv /\ PassedInv
      /\ SymbolsInv
      /\ Len(modules) \in Nat /\ DOMAIN modules = 1..Len(modules)
      /\ c \in 1..Len(modules) /\ ~Reached(c) /\ ~FromRir(c)
      /\ \A d \in Imports(c) : d \in DOMAIN modules /\ Reached(d)
      /\ f \in 1..Len(fronts)
  BY <1>1, <1>3, <1>4, ListPosition, ModuleFacts DEF CompIInv, ModulesInv
<1>9. /\ IsSeq(symbols') /\ Len(symbols') = Len(modules)
      /\ FnNames(Children(c)) \subseteq symbols'[c]
      /\ \A m \in DOMAIN modules : m # c => symbols'[m] = symbols[m]
  <2>1. PICK e : e = FnNames(Children(c)) \cup IF IsRoot(c) THEN {} ELSE Imported(c)
    OBVIOUS
  <2>2. IsSeq(symbols) /\ c \in 1..Len(symbols) /\ Len(symbols) = Len(modules)
    BY <1>8 DEF TablesInv
  <2>3. symbols' = [symbols EXCEPT ![c] = e]
    BY <1>5, <2>1
  <2>4. /\ IsSeq(symbols') /\ Len(symbols') = Len(symbols) /\ symbols'[c] = e
        /\ \A m \in 1..Len(symbols) : m # c => symbols'[m] = symbols[m]
    <3>1. PICK s, t : s = symbols /\ t = symbols'
      OBVIOUS
    <3>2. IsSeq(s) /\ c \in 1..Len(s) /\ t = [s EXCEPT ![c] = e]
      BY <2>2, <2>3, <3>1
    <3>3. Len(s) \in Nat /\ DOMAIN s = 1..Len(s)
      BY <3>2, FactsOfSeq
    <3>4. DOMAIN t = 1..Len(s) /\ t = [j \in 1..Len(s) |-> t[j]]
      BY <3>2, <3>3
    <3>5. IsSeq(t) /\ Len(t) = Len(s)
      BY <3>3, <3>4, MadeSeq
    <3> QED
      BY <3>1, <3>2, <3>3, <3>5 DEF IsSeq
  <2> QED
    BY <1>8, <2>1, <2>2, <2>4
<1>10. /\ IsSeq(rirs') /\ Len(rirs') = Len(modules) /\ rirs'[c] = "created"
       /\ \A m \in DOMAIN modules : m # c => rirs'[m] = rirs[m]
  <2>1. IsSeq(rirs) /\ c \in 1..Len(rirs) /\ Len(rirs) = Len(modules)
    BY <1>8 DEF TablesInv
  <2>2. PICK s, t : s = rirs /\ t = rirs'
    OBVIOUS
  <2>3. IsSeq(s) /\ c \in 1..Len(s) /\ t = [s EXCEPT ![c] = "created"]
    BY <1>5, <2>1, <2>2
  <2>4. Len(s) \in Nat /\ DOMAIN s = 1..Len(s)
    BY <2>3, FactsOfSeq
  <2>5. DOMAIN t = 1..Len(s) /\ t = [j \in 1..Len(s) |-> t[j]]
    BY <2>3, <2>4
  <2>6. IsSeq(t) /\ Len(t) = Len(s)
    BY <2>4, <2>5, MadeSeq
  <2> QED
    BY <1>8, <2>1, <2>2, <2>3, <2>4, <2>6 DEF IsSeq
<1>11. /\ DOMAIN scopes = 1..Len(fronts) /\ DOMAIN scopes' = 1..Len(fronts)
       /\ scopes' = [g \in 1..Len(fronts) |-> scopes'[g]]
       /\ NamesIn(c) \subseteq scopes'[f]
       /\ \A g \in 1..Len(fronts) : scopes[g] \subseteq scopes'[g]
  <2>1. DOMAIN scopes = 1..Len(fronts)
    BY <1>1, <1>8 DEF TablesInv
  <2> QED
    BY <1>5, <1>8, <2>1
<1>12. TablesInv'
  <2>1. \A m \in DOMAIN modules : rirs'[m] \in RirStates
    BY <1>8, <1>10 DEF TablesInv, RirStates
  <2> QED
    BY <1>5, <1>8, <1>9, <1>10, <1>11, <2>1 DEF TablesInv, IsSeq
<1>13. ProgressInv'
  <2>1. \A m : FromRir(m)' = FromRir(m)
    BY <1>5, SameFiles
  <2> QED
    BY <1>1, <1>5, <1>7, <1>8, <1>10, <2>1 DEF ProgressInv, Sorting
<1>14. PassedInv'
  <2>1. /\ \A m : /\ FromRir(m)' = FromRir(m) /\ Subtree(m)' = Subtree(m)
                  /\ NamesIn(m)' = NamesIn(m)
    BY <1>5, SameFiles
  <2>2. ASSUME phase' = "analyze",
               NEW g \in 1..Len(fronts), NEW i \in Nat, <<g, i>> \in passed'
        PROVE  \E m \in DOMAIN modules :
                  /\ Reached(m)' /\ ~FromRir(m)
                  /\ modules[m].front = g /\ i \in Subtree(m)
                  /\ NamesIn(m) \subseteq scopes'[g]
    <3>1. \A m : Reached(m)' <=> Reached(m) \/ m = c
      BY <1>7, <2>2
    <3>2. CASE <<g, i>> \in passed
      <4>1. PICK m \in DOMAIN modules :
               /\ Reached(m) /\ ~FromRir(m)
               /\ modules[m].front = g /\ i \in Subtree(m)
               /\ NamesIn(m) \subseteq scopes[g]
        BY <1>1, <1>8, <3>2 DEF PassedInv
      <4> QED
        BY <1>11, <3>1, <4>1
    <3>3. CASE g = f /\ i \in Subtree(c)
      BY <1>4, <1>8, <1>11, <3>1, <3>3
    <3> QED
      BY <1>5, <2>2, <3>2, <3>3
  <2> QED
    BY <1>5, <1>7, <2>1, <2>2 DEF PassedInv, Sorting
<1>15. \A m \in DOMAIN modules :
          /\ Analyzed(m) => Analyzed(m)'
          /\ Analyzed(m)' => m = c \/ Analyzed(m)
  BY <1>5, <1>8, <1>10, SameFiles DEF Analyzed
<1>16. SymbolsInv'
  <2>1. \A m : /\ FromRir(m)' = FromRir(m) /\ IsRoot(m)' = IsRoot(m)
               /\ Children(m)' = Children(m) /\ Imports(m)' = Imports(m)
    BY <1>5, SameFiles DEF Imports
  <2>2. ASSUME NEW m \in DOMAIN modules, Analyzed(m)'
        PROVE  /\ FnNames(Children(m)) \subseteq symbols'[m]
               /\ \A d \in Imports(m) :
                     /\ ~FromRir(d) => Analyzed(d)'
                     /\ ~FromRir(d) /\ ~IsRoot(m) =>
                           FnNames(Children(m)) \cap FnNames(Children(d)) = {}
    <3>1. CASE m = c
      <4>1. ASSUME NEW d \in Imports(c), ~FromRir(d)
            PROVE  /\ Analyzed(d) /\ d \in DOMAIN modules
                   /\ FnNames(Children(d)) \subseteq Imported(c)
        <5>1. d \in DOMAIN modules /\ rirs[d] = "created"
          BY <1>1, <1>8, <4>1 DEF ProgressInv
        <5>2. Analyzed(d)
          BY <4>1, <5>1 DEF Analyzed
        <5>3. FnNames(Children(d)) \subseteq symbols[d]
          BY <1>8, <5>1, <5>2 DEF SymbolsInv
        <5> QED
          BY <5>1, <5>2, <5>3 DEF Imported
      <4>2. ~IsRoot(c) => FnNames(Children(c)) \cap Imported(c) = {}
        BY <1>1, <1>3 DEF Redeclares
      <4> QED
        BY <1>9, <1>15, <3>1, <4>1, <4>2
    <3>2. CASE m # c
      <4>1. Analyzed(m)
        BY <1>15, <2>2, <3>2
      <4>2. /\ FnNames(Children(m)) \subseteq symbols[m]
            /\ \A d \in Imports(m) :
                  /\ ~FromRir(d) => Analyzed(d)
                  /\ ~FromRir(d) /\ ~IsRoot(m) =>
                        FnNames(Children(m)) \cap FnNames(Children(d)) = {}
        BY <1>8, <4>1 DEF SymbolsInv
      <4>3. \A d \in Imports(m) : d \in DOMAIN modules
        BY WalkedModules
      <4> QED
        BY <1>9, <1>15, <3>2, <4>2, <4>3
    <3> QED
      BY <3>1, <3>2
  <2> QED
    BY <1>5, <2>1, <2>2 DEF SymbolsInv
<1>17. TranslatedInv'
  <2>1. \A m \in DOMAIN modules : rirs'[m] # "processed"
    BY <1>1, <1>8, <1>10 DEF ProgressInv
  <2> QED
    BY <1>5, <2>1 DEF TranslatedInv
<1> QED
  BY <1>7, <1>12, <1>13, <1>14, <1>16, <1>17 DEF CompIInv

(* RIR input is passed over by the translation.                            *)
LEMMA SkipParsedRirStep == CompIInv /\ SkipParsedRir => CompIInv'
<1> SUFFICES ASSUME CompIInv, SkipParsedRir PROVE CompIInv'
  OBVIOUS
<1>1. /\ phase = "rir" /\ FromRir(Current) /\ Step(Len(sorted), "own")
      /\ UNCHANGED <<sortVars, deps, job, added, fronts, msgs, modules, mainFront,
                     scopes, passed, symbols, rirs, linkSource, emitted, fault>>
  BY DEF SkipParsedRir, RirUnchanged, sortVars
<1>2. PICK next \in {"rir", "own"} : next = "own"
  OBVIOUS
<1>3. /\ SortIInv' /\ FrontsInv' /\ ModulesInv' /\ OrderInv' /\ NamesInv'
      /\ EmitInv' /\ ReportInv'
      /\ \/ /\ phase' = phase
            /\ \A m : Reached(m)' <=> Reached(m) \/ m = Current
         \/ /\ phase' = "own"
            /\ \A m : ~Reached(m)'
            /\ \A m \in DOMAIN modules : Reached(m) \/ m = Current
  BY <1>1, <1>2, ListStep
<1>4. TablesInv' /\ SymbolsInv' /\ TranslatedInv'
  BY <1>1, SameTables, SameSymbols DEF CompIInv
<1>5. ProgressInv'
  BY <1>1, <1>3, SameFiles DEF CompIInv, ProgressInv, Sorting
<1>6. PassedInv'
  BY <1>1, <1>3 DEF PassedInv, Sorting
<1> QED
  BY <1>3, <1>4, <1>5, <1>6 DEF CompIInv

(* The translation aborts at a call it finds no function for.              *)
LEMMA RirAbortsStep == CompIInv /\ RirAborts => CompIInv'
<1> SUFFICES ASSUME CompIInv, RirAborts PROVE CompIInv'
  OBVIOUS
<1>1. /\ phase = "rir" /\ phase' = "aborted"
      /\ fault' \in {"first dependency is stdlib", "function declaration found"}
      /\ UNCHANGED <<sortVars, deps, sortpc, job, added, fronts, msgs, modules,
                     mainFront, scopes, passed, symbols, rirs, linkSource, emitted>>
  BY DEF RirAborts, ToAborted, RirUnchanged, sortVars
<1>2. /\ phase \in AfterParse /\ phase \in AfterNames
      /\ phase' \in AfterParse \cup {"failed"} /\ phase' \in AfterNames \cup {"failed"}
  BY <1>1 DEF AfterParse, AfterNames
<1>3. SortIInv' /\ NamesInv'
  BY <1>1, <1>2, SameSort, SettledNames DEF CompIInv
<1>4. FrontsInv' /\ ModulesInv' /\ TablesInv' /\ SymbolsInv' /\ TranslatedInv'
  BY <1>1, <1>2, SettledStep
<1>5. OrderInv'
  <2>1. sortpc' = "sorted"
    BY <1>1 DEF CompIInv, OrderInv, AfterSort, AfterNames
  <2> QED
    BY <1>1, <2>1 DEF OrderInv, Sorting, AfterNames, AfterSort
<1>6. ProgressInv' /\ PassedInv'
  BY <1>1, SameFiles DEF CompIInv, ProgressInv, PassedInv, Sorting
<1>7. EmitInv' /\ ReportInv'
  BY <1>1 DEF CompIInv, EmitInv, ReportInv, Sorting
<1> QED
  BY <1>3, <1>4, <1>5, <1>6, <1>7 DEF CompIInv

(* A module is translated.                                                 *)
LEMMA CreateRirStep == CompIInv /\ CreateRir => CompIInv'
<1> SUFFICES ASSUME CompIInv, CreateRir PROVE CompIInv'
  OBVIOUS
<1>1. PICK c : c = Current
  OBVIOUS
<1>2. /\ phase = "rir" /\ ~FromRir(c)
      /\ CallsOut(c) # {} => FirstIsStdlib(c)
      /\ CallsOut(c) \subseteq DepFns(c)
      /\ rirs' = [rirs EXCEPT ![c] = "processed"]
      /\ Step(Len(sorted), "own")
      /\ UNCHANGED <<sortVars, deps, job, added, fronts, msgs, modules, mainFront,
                     scopes, passed, symbols, linkSource, emitted, fault>>
  BY <1>1 DEF CreateRir, RirUnchanged, sortVars
<1>3. PICK next \in {"rir", "own"} : next = "own"
  OBVIOUS
<1>4. /\ SortIInv' /\ FrontsInv' /\ ModulesInv' /\ OrderInv' /\ NamesInv'
      /\ EmitInv' /\ ReportInv'
      /\ \/ /\ phase' = "rir"
            /\ \A m : Reached(m)' <=> Reached(m) \/ m = c
         \/ /\ phase' = "own"
            /\ \A m : ~Reached(m)'
            /\ \A m \in DOMAIN modules : Reached(m) \/ m = c
  BY <1>1, <1>2, <1>3, ListStep
<1>5. /\ ModulesInv /\ TablesInv /\ ProgressInv /\ SymbolsInv /\ TranslatedInv
      /\ Len(modules) \in Nat /\ DOMAIN modules = 1..Len(modules)
      /\ c \in 1..Len(modules) /\ ~Reached(c)
  BY <1>1, <1>2, ListPosition, ModuleFacts DEF CompIInv
<1>6. /\ IsSeq(rirs') /\ Len(rirs') = Len(modules) /\ rirs'[c] = "processed"
      /\ \A m \in DOMAIN modules : m # c => rirs'[m] = rirs[m]
  <2>1. IsSeq(rirs) /\ c \in 1..Len(rirs) /\ Len(rirs) = Len(modules)
    BY <1>5 DEF TablesInv
  <2>2. PICK s, t : s = rirs /\ t = rirs'
    OBVIOUS
  <2>3. IsSeq(s) /\ c \in 1..Len(s) /\ t = [s EXCEPT ![c] = "processed"]
    BY <1>2, <2>1, <2>2
  <2>4. Len(s) \in Nat /\ DOMAIN s = 1..Len(s)
    BY <2>3, FactsOfSeq
  <2>5. DOMAIN t = 1..Len(s) /\ t = [j \in 1..Len(s) |-> t[j]]
    BY <2>3, <2>4
  <2>6. IsSeq(t) /\ Len(t) = Len(s)
    BY <2>4, <2>5, MadeSeq
  <2> QED
    BY <1>5, <2>1, <2>2, <2>3, <2>4, <2>6 DEF IsSeq
<1>7. TablesInv'
  <2>1. \A m \in DOMAIN modules : rirs'[m] \in RirStates
    BY <1>5, <1>6 DEF TablesInv, RirStates
  <2> QED
    BY <1>2, <1>5, <1>6, <2>1 DEF TablesInv, IsSeq
<1>8. ProgressInv'
  <2>1. \A m : FromRir(m)' = FromRir(m)
    BY <1>2, SameFiles
  <2> QED
    BY <1>2, <1>4, <1>5, <1>6, <2>1 DEF ProgressInv, Sorting
<1>9. PassedInv'
  BY <1>2, <1>4 DEF PassedInv, Sorting
<1>10. /\ \A m : /\ FromRir(m)' = FromRir(m) /\ IsRoot(m)' = IsRoot(m)
                 /\ Children(m)' = Children(m) /\ Imports(m)' = Imports(m)
                 /\ CallsOut(m)' = CallsOut(m) /\ DepFns(m)' = DepFns(m)
                 /\ FirstIsStdlib(m)' = FirstIsStdlib(m)
  BY <1>2, SameFiles DEF Imports, DepFns, FirstIsStdlib
<1>11. SymbolsInv'
  <2>1. rirs[c] # "none"
    BY <1>2, <1>5 DEF ProgressInv
  <2>2. \A m \in DOMAIN modules : Analyzed(m)' = Analyzed(m)
    BY <1>5, <1>6, <1>10, <2>1 DEF Analyzed
  <2>3. \A m \in DOMAIN modules : \A d \in Imports(m) : d \in DOMAIN modules
    BY WalkedModules
  <2> QED
    BY <1>2, <1>5, <1>10, <2>2, <2>3 DEF SymbolsInv
<1>12. TranslatedInv'
  BY <1>2, <1>5, <1>6, <1>10 DEF TranslatedInv
<1> QED
  BY <1>4, <1>7, <1>8, <1>9, <1>11, <1>12 DEF CompIInv

-----------------------------------------------------------------------------
(* The backend, along the modules in the order of their creation.          *)

(* The ownership pass ends the walk over the sorted list.                  *)
LEMMA OwnershipPassStep == CompIInv /\ OwnershipPass => CompIInv'
<1> SUFFICES ASSUME CompIInv, OwnershipPass PROVE CompIInv'
  OBVIOUS
<1>1. /\ phase = "own" /\ phase' \in {"done", "emit"}
      /\ UNCHANGED <<sortVars, deps, sortpc, job, added, fronts, at, msgs, modules,
                     mainFront, scopes, passed, symbols, rirs, linkSource,
                     emitted, fault>>
  BY DEF OwnershipPass, sortVars
<1>2. /\ phase \in AfterParse /\ phase \in AfterNames
      /\ phase' \in AfterParse \cup {"failed"} /\ phase' \in AfterNames \cup {"failed"}
  BY <1>1 DEF AfterParse, AfterNames
<1>3. SortIInv' /\ NamesInv'
  BY <1>1, <1>2, SameSort, SettledNames DEF CompIInv
<1>4. FrontsInv' /\ ModulesInv' /\ TablesInv' /\ SymbolsInv' /\ TranslatedInv'
  BY <1>1, <1>2, SettledStep
<1>5. at = 1 /\ sortpc = "sorted"
  BY <1>1 DEF CompIInv, OrderInv, AfterSort, AfterNames
<1>6. OrderInv'
  <2>1. at' \in 1..Len(modules')
    BY <1>1, <1>2, <1>5, LibraryModule DEF CompIInv
  <2> QED
    BY <1>1, <1>5, <2>1 DEF OrderInv, Sorting, AfterNames, AfterSort
<1>7. ProgressInv' /\ PassedInv'
  BY <1>1, SameFiles DEF CompIInv, ProgressInv, PassedInv, Sorting
<1>8. EmitInv' /\ ReportInv'
  BY <1>1, <1>5 DEF CompIInv, EmitInv, ReportInv, Sorting
<1> QED
  BY <1>3, <1>4, <1>6, <1>7, <1>8 DEF CompIInv

(* The backend is at a module; the library's is the first and no other.    *)
LEMMA BackendPosition ==
    ASSUME CompIInv, phase = "emit"
    PROVE  /\ at \in 1..N /\ N \in Nat /\ N = Len(modules)
           /\ Name(at) = StdlibName <=> at = 1
           /\ linkSource = (IF at = 1 THEN 0 ELSE 1)
<1>1. phase \in AfterParse /\ phase \in AfterNames
  BY DEF AfterParse, AfterNames
<1>2. N = Len(modules) /\ N \in Nat /\ DOMAIN modules = Mods /\ Mods = 1..Len(modules)
  BY WalkedModules
<1>3. at \in 1..Len(modules)
  BY DEF CompIInv, OrderInv
<1>4. 1 \in DOMAIN modules /\ Name(1) = StdlibName
  BY <1>1, LibraryModule DEF CompIInv
<1>5. \A j, k \in DOMAIN modules : Name(j) = Name(k) => j = k
  BY <1>1 DEF CompIInv, NamesInv
<1>6. Name(at) = StdlibName <=> at = 1
  BY <1>2, <1>3, <1>4, <1>5
<1>7. linkSource = (IF at = 1 THEN 0 ELSE 1)
  BY DEF CompIInv, EmitInv
<1> QED
  BY <1>2, <1>3, <1>6, <1>7

(* The module at hand is generated.                                        *)
LEMMA ModuleIsGenerated ==
    ASSUME CompIInv, phase = "emit", emitted' = at, linkSource' = 1,
           Step(N, "tools"), EmitUnchanged, fault' = fault
    PROVE  CompIInv'
<1>1. UNCHANGED <<sortVars, deps, sortpc, job, added, fronts, msgs, modules,
                  mainFront, scopes, passed, symbols, rirs>>
  BY DEF EmitUnchanged, sortVars
<1>2. at \in 1..N /\ N \in Nat /\ N = Len(modules)
  BY BackendPosition
<1>3. \/ phase' = "emit" /\ at' = at + 1 /\ at < N
      \/ phase' = "tools" /\ at' = 1 /\ at = N
  BY <1>2 DEF Step
<1>4. /\ phase \in AfterParse /\ phase \in AfterNames
      /\ phase' \in AfterParse \cup {"failed"} /\ phase' \in AfterNames \cup {"failed"}
  BY <1>3 DEF AfterParse, AfterNames
<1>5. SortIInv' /\ NamesInv'
  BY <1>1, <1>4, SameSort, SettledNames DEF CompIInv
<1>6. FrontsInv' /\ ModulesInv' /\ TablesInv' /\ SymbolsInv' /\ TranslatedInv'
  BY <1>1, <1>4, SettledStep
<1>7. OrderInv'
  <2>1. sortpc = "sorted"
    BY DEF CompIInv, OrderInv, AfterSort, AfterNames
  <2> QED
    BY <1>1, <1>2, <1>3, <2>1 DEF OrderInv, Sorting, AfterNames, AfterSort
<1>8. ProgressInv' /\ PassedInv'
  BY <1>1, <1>3, SameFiles DEF CompIInv, ProgressInv, PassedInv, Sorting
<1>9. EmitInv'
  <2>1. /\ linkSource' \in 0..1 /\ emitted' \in 0..Len(modules') /\ Len(modules') # 0
        /\ phase' = "tools" => emitted' = Len(modules')
    BY <1>1, <1>2, <1>3
  <2>2. phase' = "emit" => emitted' = at' - 1 /\ at' # 1
    BY <1>2, <1>3
  <2> QED
    BY <1>3, <2>1, <2>2 DEF EmitInv, Sorting
<1>10. ReportInv'
  BY <1>1, <1>3 DEF CompIInv, ReportInv
<1> QED
  BY <1>5, <1>6, <1>7, <1>8, <1>9, <1>10 DEF CompIInv

(* The library is generated when the backend has none yet.                 *)
LEMMA GenerateStdlibStep == CompIInv /\ GenerateStdlib => CompIInv'
<1> SUFFICES ASSUME CompIInv, GenerateStdlib PROVE CompIInv'
  OBVIOUS
<1>1. phase = "emit" /\ Name(at) = StdlibName /\ EmitUnchanged
  BY DEF GenerateStdlib
<1>2. linkSource = 0 /\ at = 1
  BY <1>1, BackendPosition
<1>3. linkSource' = 1 /\ emitted' = at /\ Step(N, "tools") /\ fault' = fault
  BY <1>2 DEF GenerateStdlib, Generated
<1> QED
  BY <1>1, <1>3, ModuleIsGenerated

(* Any other module is generated when the backend has the library.         *)
LEMMA GenerateModuleStep == CompIInv /\ GenerateModule => CompIInv'
<1> SUFFICES ASSUME CompIInv, GenerateModule PROVE CompIInv'
  OBVIOUS
<1>1. phase = "emit" /\ Name(at) # StdlibName /\ EmitUnchanged /\ linkSource' = linkSource
  BY DEF GenerateModule
<1>2. linkSource = 1
  BY <1>1, BackendPosition
<1>3. emitted' = at /\ Step(N, "tools") /\ fault' = fault
  BY <1>2 DEF GenerateModule, Generated
<1> QED
  BY <1>1, <1>2, <1>3, ModuleIsGenerated

(* The tools end the compilation.                                          *)
LEMMA ToolsStep == CompIInv /\ (ToolsSucceed \/ ToolsFail) => CompIInv'
<1> SUFFICES ASSUME CompIInv, ToolsSucceed \/ ToolsFail PROVE CompIInv'
  OBVIOUS
<1>1. /\ phase = "tools" /\ phase' \in {"done", "unlinked"}
      /\ UNCHANGED <<sortVars, deps, sortpc, job, added, fronts, at, msgs, modules,
                     mainFront, scopes, passed, symbols, rirs, linkSource,
                     emitted, fault>>
  BY DEF ToolsSucceed, ToolsFail, EmitUnchanged, sortVars
<1>2. /\ phase \in AfterParse /\ phase \in AfterNames
      /\ phase' \in AfterParse \cup {"failed"} /\ phase' \in AfterNames \cup {"failed"}
  BY <1>1 DEF AfterParse, AfterNames
<1>3. SortIInv' /\ NamesInv'
  BY <1>1, <1>2, SameSort, SettledNames DEF CompIInv
<1>4. FrontsInv' /\ ModulesInv' /\ TablesInv' /\ SymbolsInv' /\ TranslatedInv'
  BY <1>1, <1>2, SettledStep
<1>5. OrderInv'
  BY <1>1 DEF CompIInv, OrderInv, Sorting, AfterNames, AfterSort
<1>6. ProgressInv' /\ PassedInv'
  BY <1>1, SameFiles DEF CompIInv, ProgressInv, PassedInv, Sorting
<1>7. EmitInv' /\ ReportInv'
  BY <1>1 DEF CompIInv, EmitInv, ReportInv, Sorting
<1> QED
  BY <1>3, <1>4, <1>5, <1>6, <1>7 DEF CompIInv

(* Nothing happens.                                                        *)
LEMMA NothingHappens == CompIInv /\ UNCHANGED allVars => CompIInv'
<1> SUFFICES ASSUME CompIInv, UNCHANGED allVars PROVE CompIInv'
  OBVIOUS
<1>1. UNCHANGED <<sortVars, deps, sortpc, sorted, job, added, fronts, phase, at,
                  msgs, modules, mainFront, scopes, passed, symbols, rirs,
                  linkSource, emitted, fault>>
  BY DEF allVars, compVars, sortVars
<1>2. SortIInv' /\ SymbolsInv' /\ TranslatedInv'
  BY <1>1, SameSort, SameSymbols DEF CompIInv
<1>3. FrontsInv'
  BY <1>1 DEF CompIInv, FrontsInv, Fed
<1>4. ModulesInv'
  <2>1. \A f : IsParsed(f)' = IsParsed(f)
    BY <1>1 DEF IsParsed
  <2> QED
    BY <1>1, <2>1, SameFiles DEF CompIInv, ModulesInv, IsSeq
<1>5. TablesInv' /\ OrderInv'
  BY <1>1 DEF CompIInv, TablesInv, OrderInv, IsSeq
<1>6. NamesInv'
  BY <1>1, SameFiles DEF CompIInv, NamesInv
<1>7. \A m : Reached(m)' = Reached(m)
  BY <1>1 DEF Reached
<1>8. ProgressInv'
  BY <1>1, <1>7, SameFiles DEF CompIInv, ProgressInv
<1>9. PassedInv'
  BY <1>1, <1>7, SameFiles DEF CompIInv, PassedInv
<1>10. EmitInv' /\ ReportInv'
  BY <1>1 DEF CompIInv, EmitInv, ReportInv
<1> QED
  BY <1>2, <1>3, <1>4, <1>5, <1>6, <1>8, <1>9, <1>10 DEF CompIInv

(* Every step of a compilation preserves the invariant.                    *)
LEMMA CompNextPreserves == CompIInv /\ [CompNext]_allVars => CompIInv'
<1> SUFFICES ASSUME CompIInv, [CompNext]_allVars PROVE CompIInv'
  OBVIOUS
<1>1. CASE AddInput \/ AddStdlib
  BY <1>1, AddInputStep, AddStdlibStep
<1>2. CASE ParseFront
  BY <1>2, ParseFrontStep
<1>3. CASE RefuseName \/ ResolveName
  BY <1>3, RefuseNameStep, ResolveNameStep
<1>4. CASE ResolveImports
  BY <1>4, ResolveImportsStep
<1>5. CASE SkipRirInput \/ AnalysisError \/ AnalyzeModule
  BY <1>5, SkipRirInputStep, AnalysisErrorStep, AnalyzeModuleStep
<1>6. CASE SkipParsedRir \/ RirAborts \/ CreateRir
  BY <1>6, SkipParsedRirStep, RirAbortsStep, CreateRirStep
<1>7. CASE OwnershipPass
  BY <1>7, OwnershipPassStep
<1>8. CASE GenerateStdlib \/ GenerateModule
  BY <1>8, GenerateStdlibStep, GenerateModuleStep
<1>9. CASE ToolsSucceed \/ ToolsFail
  BY <1>9, ToolsStep
<1>10. CASE UNCHANGED allVars
  BY <1>10, NothingHappens
<1> QED
  BY <1>1, <1>2, <1>3, <1>4, <1>5, <1>6, <1>7, <1>8, <1>9, <1>10 DEF CompNext, Work

(* The inductive invariant holds in every state of every compilation.      *)
LEMMA CompInductive == CompSpec => []CompIInv
<1>1. CompInit => CompIInv
  BY CompInitial
<1>2. CompIInv /\ [CompNext]_allVars => CompIInv'
  BY CompNextPreserves
<1> QED
  BY <1>1, <1>2, PTL DEF CompSpec

-----------------------------------------------------------------------------
(* What the invariant says of a compilation.                               *)

(* The invariant says what the variables are.                              *)
LEMMA InvariantIsTyped == CompIInv => CompTypeOK
<1> SUFFICES ASSUME CompIInv PROVE CompTypeOK
  OBVIOUS
<1>1. /\ FrontsInv /\ ModulesInv /\ TablesInv /\ OrderInv /\ EmitInv /\ ReportInv
      /\ Len(fronts) \in Nat /\ IsSeq(fronts)
      /\ Len(modules) \in Nat /\ DOMAIN modules = 1..Len(modules)
  BY FrontFacts, ModuleFacts DEF CompIInv
<1>2. DOMAIN fronts = 1..Len(fronts)
  BY <1>1, FactsOfSeq
<1>3. N = Len(modules) /\ Len(sorted) \in Nat
  BY WalkedModules
<1>4. added \in 0..Len(job.inputs)
  BY <1>1 DEF FrontsInv
<1>5. phase \in {"args", "parse", "names", "resolve", "analyze", "rir", "own",
                 "emit", "tools", "done", "failed", "unlinked", "aborted"}
  BY <1>1 DEF OrderInv, Sorting, AfterNames
<1>6. msgs \subseteq DOMAIN fronts /\ (fault # "none" <=> phase = "aborted")
  BY <1>1, <1>2 DEF ReportInv
<1>7. /\ mainFront \in 0..Len(fronts)
      /\ \A m \in DOMAIN modules : modules[m].front \in DOMAIN fronts
  BY <1>1, <1>2 DEF ModulesInv
<1>8. Len(deps) = Len(modules) /\ Len(symbols) = Len(modules) /\ Len(rirs) = Len(modules)
  BY <1>1 DEF TablesInv
<1>9. rirs \in Seq({"none", "created", "processed"})
  <2>1. /\ rirs = [m \in 1..Len(modules) |-> rirs[m]]
        /\ \A m \in 1..Len(modules) : rirs[m] \in RirStates
    BY <1>1, <1>8, FactsOfSeq DEF TablesInv
  <2>2. rirs \in [1..Len(modules) -> RirStates]
    BY <2>1
  <2> QED
    BY <1>1, <2>2 DEF RirStates
<1>10. linkSource \in 0..N /\ emitted \in 0..N
  <2>1. /\ linkSource \in 0..1 /\ emitted \in 0..Len(modules)
        /\ linkSource = 1 => Len(modules) # 0
    BY <1>1 DEF EmitInv
  <2>2. linkSource = 0 \/ linkSource = 1
    BY <2>1
  <2> QED
    BY <1>1, <1>3, <2>1, <2>2
<1>11. phase = "analyze" => at \in DOMAIN sorted
  <2>1. sorted \in Seq(Mods)
    BY DEF CompIInv, SortIInv, SortTypeOK
  <2>2. DOMAIN sorted = 1..Len(sorted)
    BY <2>1, SeqsAreSeqs
  <2> QED
    BY <1>1, <2>2 DEF OrderInv
<1> QED
  BY <1>4, <1>5, <1>6, <1>7, <1>8, <1>9, <1>10, <1>11 DEF CompTypeOK

(* A module of the library's name is the library's, once names are known.  *)
LEMMA OneLibrary ==
    ASSUME CompIInv, phase \in AfterNames,
           NEW m \in DOMAIN modules, Name(m) = StdlibName
    PROVE  m = 1
<1>1. phase \in AfterParse
  BY DEF AfterParse
<1>2. 1 \in DOMAIN modules /\ Name(1) = StdlibName
  BY <1>1, LibraryModule DEF CompIInv
<1> QED
  BY <1>2 DEF CompIInv, NamesInv

(* The first dependency of a module, where rir_fndecl_byname() looks.      *)
LEMMA FirstDependency ==
    ASSUME CompIInv, NEW m \in DOMAIN modules, DepFns(m) # {}, FirstIsStdlib(m)
    PROVE  \E d \in Imports(m) :
              /\ d \in DOMAIN modules /\ DepFns(m) = FnNames(Children(d))
              /\ Name(d) = StdlibName /\ ~FromRir(d)
<1>1. /\ DOMAIN modules = Mods /\ deps[m] \in Seq(Mods)
      /\ Imports(m) \subseteq Mods
  BY WalkedModules
<1>2. deps[m] # <<>>
  BY DEF DepFns
<1>3. 1 \in 1..Len(deps[m])
  BY <1>1, <1>2, EmptySeq, LenProperties
<1>4. PICK d : d = deps[m][1]
  OBVIOUS
<1>5. d \in Imports(m) /\ d \in DOMAIN modules
  BY <1>1, <1>3, <1>4 DEF Imports
<1>6. Name(d) = StdlibName /\ DepFns(m) = FnNames(Children(d))
  BY <1>2, <1>4 DEF FirstIsStdlib, DepFns
<1>7. ~FromRir(d)
  BY <1>5, <1>6, ModuleFacts DEF CompIInv, Name, Main, StdlibName
<1> QED
  BY <1>5, <1>6, <1>7

(* The invariant has the names unique, and leaves no way to the assertions *)
(* of the first pass and of the backend.                                   *)
LEMMA InvariantIsSound == CompIInv => CompInv
<1> SUFFICES ASSUME CompIInv PROVE CompInv
  OBVIOUS
<1>1. CompTypeOK
  BY InvariantIsTyped
<1>2. UniqueNames
  <2>1. DOMAIN modules = Mods
    BY WalkedModules
  <2> QED
    BY <2>1 DEF CompIInv, NamesInv, UniqueNames, AfterNames
<1>3. PassedOnce /\ LinkSourceReady
  BY DEF CompIInv, ReportInv, PassedOnce, LinkSourceReady
<1> QED
  BY <1>1, <1>2, <1>3 DEF CompInv

(* A call that leaves the module goes to the library, and a module has no  *)
(* function of a module it imports.                                        *)
LEMMA OwnFunctionsFirst == CompIInv => OwnFunctionsAreCalled
<1> SUFFICES ASSUME CompIInv, NEW m \in DOMAIN rirs,
                    rirs[m] = "processed", ~IsRoot(m),
                    NEW name \in CallsOut(m) \cap FnNames(Children(m))
             PROVE  FALSE
  BY DEF OwnFunctionsAreCalled
<1>1. m \in DOMAIN modules
  BY FactsOfSeq, ModuleFacts DEF CompIInv, TablesInv
<1>2. /\ ~FromRir(m) /\ CallsOut(m) \subseteq DepFns(m) /\ FirstIsStdlib(m)
  BY <1>1 DEF CompIInv, TranslatedInv
<1>3. PICK d \in Imports(m) :
        DepFns(m) = FnNames(Children(d)) /\ ~FromRir(d)
  BY <1>1, <1>2, FirstDependency
<1>4. Analyzed(m)
  BY <1>2 DEF Analyzed
<1>5. FnNames(Children(m)) \cap FnNames(Children(d)) = {}
  BY <1>1, <1>3, <1>4 DEF CompIInv, SymbolsInv
<1> QED
  BY <1>2, <1>3, <1>5

(* The list of modules ends with those of the last front, and they with    *)
(* the file itself if it has a main().                                     *)
LEMMA FirstInputLast == CompIInv => FirstInputIsEmitted
<1> DEFINE first == Len(fronts)
<1> SUFFICES ASSUME CompIInv, phase = "tools", job.inputs # <<>>,
                    HasMain(fronts[first]) \/ ModuleItems(fronts[first]) # {}
             PROVE  /\ modules[emitted].front = first
                    /\ FileOf(emitted) = job.inputs[1]
                    /\ HasMain(fronts[first]) => IsRoot(emitted)
  BY DEF FirstInputIsEmitted
<1>1. /\ FrontsInv /\ ModulesInv /\ phase \in AfterParse
      /\ emitted = Len(modules)
  BY DEF CompIInv, EmitInv, AfterParse, AfterNames
<1>2. /\ Len(fronts) \in Nat /\ Len(fronts) # 0
      /\ fronts[first] = job.inputs[1]
  BY <1>1, FrontFacts
<1>3. IsParsed(first)
  BY <1>2 DEF IsParsed
<1>4. /\ Len(modules) \in Nat /\ DOMAIN modules = 1..Len(modules)
      /\ emitted \in DOMAIN modules
  BY <1>1, ModuleFacts, LibraryModule
<1>5. ASSUME NEW m \in DOMAIN modules, modules[m].front = first
      PROVE  modules[emitted].front = first /\ (IsRoot(m) => m = emitted)
  <2>1. CASE m = emitted
    BY <1>5, <2>1
  <2>2. CASE m # emitted
    <3>1. m < emitted
      BY <1>1, <1>4, <2>2
    <3>2. InOrder(m, emitted) /\ modules[emitted].front \in 1..first
      BY <1>1, <1>4, <3>1 DEF ModulesInv
    <3> QED
      BY <1>2, <1>5, <3>2 DEF InOrder
  <2> QED
    BY <2>1, <2>2
<1>6. modules[emitted].front = first
  <2>1. first \in 1..Len(fronts)
    BY <1>2
  <2>2. /\ HasMain(fronts[first]) =>
              \E m \in DOMAIN modules : modules[m].front = first
        /\ ModuleItems(fronts[first]) # {} =>
              \E m \in DOMAIN modules : modules[m].front = first
    BY <1>1, <1>3, <2>1 DEF ModulesInv
  <2> QED
    BY <1>5, <2>2
<1>7. ASSUME HasMain(fronts[first]) PROVE IsRoot(emitted)
  <2>1. PICK m \in DOMAIN modules : modules[m].front = first /\ modules[m].item = 0
    BY <1>1, <1>2, <1>3, <1>7 DEF ModulesInv
  <2>2. m = emitted
    BY <1>5, <2>1 DEF IsRoot
  <2> QED
    BY <2>1, <2>2 DEF IsRoot
<1>8. FileOf(emitted) = job.inputs[1]
  BY <1>2, <1>6 DEF FileOf
<1> QED
  BY <1>6, <1>7, <1>8

(* What the emitted module calls and does not have is in its first         *)
(* dependency, the library.                                                *)
LEMMA CallsAreLinked == CompIInv => EmittedIsLinkable
<1> SUFFICES ASSUME CompIInv, phase = "tools",
                    NEW k \in FnsOf(Children(emitted)),
                    NEW name \in Range(Children(emitted)[k].calls),
                    name \notin FnNames(Children(emitted))
             PROVE  name \in FnNames(Stdlib.items[1].body)
  BY DEF EmittedIsLinkable
<1>1. /\ FrontsInv /\ ModulesInv /\ phase \in AfterParse /\ phase \in AfterNames
      /\ emitted = Len(modules)
  BY DEF CompIInv, EmitInv, AfterParse, AfterNames
<1>2. emitted \in DOMAIN modules
  BY <1>1, ModuleFacts, LibraryModule
<1>3. PICK m \in DOMAIN modules : m = emitted
  BY <1>2
<1>4. ~FromRir(m)
  <2> SUFFICES ASSUME FromRir(m) PROVE FALSE
    OBVIOUS
  <2>1. Children(m) = <<>>
    BY <1>1, ModuleFacts DEF Children
  <2> QED
    BY <1>3, <2>1 DEF FnsOf
<1>5. rirs[m] = "processed"
  BY <1>4 DEF CompIInv, ProgressInv
<1>6. CallsOut(m) \subseteq DepFns(m) /\ (CallsOut(m) # {} => FirstIsStdlib(m))
  BY <1>5 DEF CompIInv, TranslatedInv
<1>7. name \in CallsOut(m)
  <2>1. InRir(m, k) \subseteq FnNames(Children(m))
    BY DEF InRir, FnNames
  <2> QED
    BY <1>3, <2>1 DEF CallsOut
<1>8. PICK d \in DOMAIN modules :
        DepFns(m) = FnNames(Children(d)) /\ Name(d) = StdlibName
  BY <1>6, <1>7, FirstDependency
<1>9. d = 1
  BY <1>1, <1>8, OneLibrary
<1>10. Children(1) = Stdlib.items[1].body
  BY <1>1, LibraryModule
<1> QED
  BY <1>6, <1>7, <1>8, <1>9, <1>10

(* Whatever the files of a command line declare, import and call: once the *)
(* imports are resolved the names of the modules are unique, the first     *)
(* pass comes by each statement once, and the backend meets the standard   *)
(* library, and only one, before all that is linked with it.               *)
THEOREM CompilerIsSound == CompSpec => []CompInv
  BY InvariantIsSound, CompInductive, PTL

(* No call to a function of the module itself is translated into a call    *)
(* to a function of that name in the standard library.                     *)
THEOREM OwnFunctionsWin == CompSpec => []OwnFunctionsAreCalled
  BY OwnFunctionsFirst, CompInductive, PTL

(* The module written out is the last one of the first input, and the code *)
(* it calls is in it or in the library linked into it.                     *)
THEOREM OutcomesAreRight == CompSpec => []OutcomeIsRight
<1>1. CompIInv => OutcomeIsRight
  BY FirstInputLast, CallsAreLinked DEF OutcomeIsRight
<1> QED
  BY <1>1, CompInductive, PTL

-----------------------------------------------------------------------------
(* The compiler does what StagedBuild promises.                            *)

Stages == [m \in DOMAIN modules |-> StageOf(m)]
Outcome ==
    CASE phase = "done" -> "built"
      [] phase \in {"failed", "unlinked", "aborted"} -> "refused"
      [] OTHER -> "open"

(* A step that builds, or one that the abstract build does not see.        *)
Builds == [Staged!BuildNext]_(Staged!buildVars)

StageFacts ==
    /\ Len(modules) \in Nat /\ DOMAIN Stages = 1..Len(modules)
    /\ Len(Stages) = Len(modules) /\ Len(deps) = Len(Stages)
    /\ \A m \in 1..Len(modules) : Stages[m] = StageOf(m)

(* The stages are a list as long as that of the modules.                   *)
LEMMA StageTable == CompIInv => StageFacts
<1> SUFFICES ASSUME CompIInv PROVE StageFacts
  OBVIOUS
<1>1. Len(modules) \in Nat /\ DOMAIN modules = 1..Len(modules)
  BY ModuleFacts DEF CompIInv
<1>2. /\ DOMAIN Stages = 1..Len(modules) /\ Stages = [m \in 1..Len(modules) |-> Stages[m]]
      /\ \A m \in 1..Len(modules) : Stages[m] = StageOf(m)
  BY <1>1 DEF Stages
<1>3. Len(Stages) = Len(modules)
  <2>1. PICK s : s = Stages
    OBVIOUS
  <2>2. DOMAIN s = 1..Len(modules) /\ s = [m \in 1..Len(modules) |-> s[m]]
    BY <1>2, <2>1
  <2> QED
    BY <1>1, <2>1, <2>2, MadeSeq
<1> QED
  BY <1>1, <1>2, <1>3 DEF CompIInv, TablesInv, StageFacts

(* Modules are declared.                                                   *)
LEMMA Declares ==
    ASSUME CompIInv, CompIInv', Outcome = "open", Outcome' \in {"open", "refused"},
           Len(modules') >= Len(modules),
           \A m \in 1..Len(modules) : StageOf(m) # 1 /\ StageOf(m)' = StageOf(m),
           \A m \in 1..Len(modules') : StageOf(m)' \in {0, 2}
    PROVE  Builds
<1>1. /\ Len(modules) \in Nat /\ DOMAIN Stages = 1..Len(modules)
      /\ Len(Stages) = Len(modules)
      /\ \A m \in 1..Len(modules) : Stages[m] = StageOf(m)
  BY StageTable DEF StageFacts
<1>2. /\ Len(modules') \in Nat /\ DOMAIN Stages' = 1..Len(modules')
      /\ Len(Stages') = Len(modules') /\ Len(deps') = Len(Stages')
      /\ \A m \in 1..Len(modules') : Stages'[m] = StageOf(m)'
  <2>1. StageFacts'
    BY StageTable, PTL
  <2> QED
    BY <2>1 DEF StageFacts
<1>3. /\ \A m \in DOMAIN Stages : Stages[m] # 1 /\ Stages'[m] = Stages[m]
      /\ \A m \in DOMAIN Stages' : Stages'[m] \in {0, 2}
      /\ Len(Stages') >= Len(Stages)
  BY <1>1, <1>2
<1> HIDE DEF Outcome, Stages
<1>4. Staged!Declare
  BY <1>2, <1>3 DEF Staged!Declare, Staged!Built, Staged!Analyzed, Staged!Parsed,
     Staged!Lowered, Outcome, Stages
<1> QED
  BY <1>4 DEF Builds, Staged!BuildNext

(* No stage changes while the files and the RIR of the modules do not.     *)
LEMMA SameStages ==
    ASSUME UNCHANGED <<fronts, modules, rirs>>
    PROVE  Stages' = Stages /\ \A m : StageOf(m)' = StageOf(m)
<1>1. \A m : StageOf(m)' = StageOf(m)
  BY SameFiles DEF StageOf
<1> QED
  BY <1>1 DEF Stages

(* The build is closed, or it goes on as it is.                            *)
LEMMA Closes ==
    ASSUME CompIInv, UNCHANGED <<deps, fronts, modules, rirs>>, Outcome = "open",
           Outcome' \in {"open", "refused", "built"},
           Outcome' = "built" => \A m \in 1..Len(modules) : StageOf(m) = 2
    PROVE  Builds
<1>1. Stages' = Stages
  BY SameStages
<1>2. StageFacts
  BY StageTable
<1>3. Outcome' = "built" => \A m \in DOMAIN Stages : Stages[m] = 2
  BY <1>2 DEF StageFacts
<1>4. CASE Outcome' = "open"
  BY <1>1, <1>4 DEF Builds, Staged!buildVars, Stages, Outcome
<1>5. CASE Outcome' # "open"
  <2>1. Staged!Close
    BY <1>1, <1>3, <1>5 DEF Staged!Close, Staged!Built, Staged!Lowered, Stages, Outcome
  <2> QED
    BY <2>1 DEF Builds, Staged!BuildNext
<1> QED
  BY <1>4, <1>5

(* A module takes its next step.                                           *)
LEMMA Climbs ==
    ASSUME CompIInv, NEW c \in DOMAIN modules, Outcome = "open", Outcome' = "open",
           UNCHANGED <<deps, fronts, modules>>,
           StageOf(c) \in {0, 1}, \A d \in Imports(c) : StageOf(d) > StageOf(c),
           StageOf(c)' = StageOf(c) + 1,
           \A m \in DOMAIN modules : m # c => StageOf(m)' = StageOf(m)
    PROVE  Builds
<1>1. StageFacts /\ DOMAIN modules = Mods /\ Mods = 1..Len(modules)
  BY StageTable, WalkedModules
<1>2. /\ DOMAIN Stages = Mods /\ Stages[c] = StageOf(c)
      /\ \A d \in Imports(c) : d \in Mods /\ Stages[d] > Stages[c]
  <2>1. \A d \in Imports(c) : d \in Mods
    BY <1>1, WalkedModules
  <2> QED
    BY <1>1, <2>1 DEF StageFacts
<1>3. Staged!Needs(c) = Imports(c)
  <2>1. deps[c] \in Seq(Mods)
    BY <1>1, WalkedModules
  <2>2. DOMAIN deps[c] = 1..Len(deps[c])
    BY <2>1, SeqsAreSeqs
  <2> QED
    BY <2>2 DEF Staged!Needs, Imports
<1>4. Stages' = [Stages EXCEPT ![c] = @ + 1]
  <2>1. Stages' = [m \in Mods |-> IF m = c THEN StageOf(c) + 1 ELSE StageOf(m)]
    BY <1>1 DEF Stages
  <2>2. Stages = [m \in Mods |-> StageOf(m)]
    BY <1>1 DEF Stages
  <2> QED
    BY <1>1, <2>1, <2>2
<1>5. Staged!Climb(c)
  BY <1>2, <1>3, <1>4 DEF Staged!Climb, Staged!Lowered, Stages, Outcome
<1>6. c \in Staged!Built
  BY <1>1, <1>2 DEF Staged!Built, Stages
<1> QED
  BY <1>5, <1>6 DEF Builds, Staged!BuildNext

(* What a front adds to the modules.                                       *)
LEMMA FrontAdds ==
    ASSUME CompIInv, ParseFront
    PROVE  /\ phase = "parse" /\ phase' \in {"parse", "names", "failed"}
           /\ fronts' = fronts
           /\ Len(modules) \in Nat /\ Len(modules') \in Nat
           /\ Len(modules') >= Len(modules)
           /\ \A m \in 1..Len(modules) : modules'[m] = modules[m]
           /\ \A m \in 1..Len(modules') :
                 rirs'[m] = IF FromRir(m)' THEN "created" ELSE "none"
<1>1. phase = "parse"
  BY DEF ParseFront, ParseJunk, ParseLibrary, ParseMain, ParseSecondMain
<1>2. FrontsInv /\ at \in 1..Len(fronts)
  BY <1>1 DEF CompIInv, OrderInv
<1>3. phase' \in {"parse", "names", "failed"}
  BY <1>1 DEF ParseFront, ParseJunk, ParseLibrary, ParseMain, ParseSecondMain, Step, ToFailed
<1>4. ParseUnchanged
  BY DEF ParseFront, ParseJunk, ParseLibrary, ParseMain, ParseSecondMain
<1>5. fronts' = fronts
  BY <1>4 DEF ParseUnchanged
<1>6. \E new : /\ Joining(new) /\ Create(new)
               /\ \/ mainFront' = mainFront /\ \A k \in 1..Len(new) : new[k].item # 0
                  \/ mainFront = 0 /\ mainFront' = at
  <2>1. CASE ParseJunk \/ ParseSecondMain \/ ParseLibrary
    <3>1. Create(NewModules(at)) /\ mainFront' = mainFront
      BY <2>1 DEF ParseJunk, ParseSecondMain, ParseLibrary
    <3>2. /\ Joining(NewModules(at))
          /\ \A k \in 1..Len(NewModules(at)) : NewModules(at)[k].item # 0
      BY <1>2, StatementsJoin
    <3> QED
      BY <3>1, <3>2
  <2>2. CASE ParseMain
    <3>1. /\ HasMain(fronts[at]) /\ mainFront = 0 /\ mainFront' = at
          /\ Create(NewModules(at) \o RootModule(at))
      BY <2>2 DEF ParseMain
    <3>2. Joining(NewModules(at) \o RootModule(at))
      BY <1>2, <3>1, FileJoins
    <3> QED
      BY <3>1, <3>2
  <2> QED
    BY <2>1, <2>2 DEF ParseFront
<1>7. PICK new : /\ Joining(new) /\ Create(new)
                 /\ \/ mainFront' = mainFront /\ \A k \in 1..Len(new) : new[k].item # 0
                    \/ mainFront = 0 /\ mainFront' = at
  BY <1>6
<1>8. /\ Len(modules') = Len(modules) + Len(new)
      /\ Len(modules) \in Nat /\ Len(new) \in Nat
      /\ \A m \in 1..Len(modules) : modules'[m] = modules[m]
      /\ \A m \in 1..Len(modules') :
            rirs'[m] = IF FromRir(m)' THEN "created" ELSE "none"
  BY <1>1, <1>3, <1>4, <1>7, ModulesGrow
<1> QED
  BY <1>1, <1>3, <1>5, <1>8

(* Until the imports are resolved no module is between the stages.         *)
LEMMA NoneIsWorkedOn ==
    ASSUME CompIInv, phase \in Sorting
    PROVE  \A m \in 1..Len(modules) : StageOf(m) \in {0, 2}
<1>1. DOMAIN modules = 1..Len(modules)
  BY ModuleFacts DEF CompIInv
<1>2. \A m \in DOMAIN modules : FromRir(m) \/ rirs[m] = "none"
  BY DEF CompIInv, ProgressInv
<1> QED
  BY <1>1, <1>2 DEF StageOf

(* After the walk over the list all modules are translated.                *)
LEMMA AllAreLowered ==
    ASSUME CompIInv, phase \in {"own", "tools"}
    PROVE  \A m \in 1..Len(modules) : StageOf(m) = 2
<1>1. DOMAIN modules = 1..Len(modules)
  BY ModuleFacts DEF CompIInv
<1>2. \A m \in DOMAIN modules : FromRir(m) \/ rirs[m] = "processed"
  BY DEF CompIInv, ProgressInv
<1> QED
  BY <1>1, <1>2 DEF StageOf

(* Fronts, modules and dependencies are declared.                          *)
LEMMA DeclaringSteps ==
    ASSUME CompIInv, CompIInv', AddInput \/ AddStdlib \/ ParseFront \/ ResolveName
    PROVE  Builds
<1>1. CASE AddInput \/ AddStdlib
  <2>1. /\ phase = "args" /\ phase' \in {"args", "parse"}
        /\ modules' = modules
    BY <1>1 DEF AddInput, AddStdlib
  <2>2. modules = <<>> /\ Len(modules) = 0 /\ Len(modules') = 0
    BY <2>1, ArgsState DEF NoModulesYet
  <2> QED
    BY <2>1, <2>2, Declares DEF Outcome
<1>2. CASE ParseFront
  <2>1. /\ phase = "parse" /\ phase' \in {"parse", "names", "failed"}
        /\ fronts' = fronts
        /\ Len(modules) \in Nat /\ Len(modules') \in Nat
        /\ Len(modules') >= Len(modules)
        /\ \A m \in 1..Len(modules) : modules'[m] = modules[m]
        /\ \A m \in 1..Len(modules') :
              rirs'[m] = IF FromRir(m)' THEN "created" ELSE "none"
    BY <1>2, FrontAdds
  <2>2. \A m \in 1..Len(modules') : StageOf(m)' = IF FromRir(m)' THEN 2 ELSE 0
    BY <2>1 DEF StageOf
  <2>3. \A m \in 1..Len(modules) : StageOf(m) = IF FromRir(m) THEN 2 ELSE 0
    <3>1. \A m \in DOMAIN modules : FromRir(m) \/ rirs[m] = "none"
      BY <2>1 DEF CompIInv, ProgressInv, Sorting
    <3> QED
      BY <3>1, ModuleFacts DEF CompIInv, StageOf
  <2>4. \A m \in 1..Len(modules) : m \in 1..Len(modules') /\ FromRir(m)' = FromRir(m)
    BY <2>1 DEF FromRir, FileOf
  <2>5. \A m \in 1..Len(modules) : StageOf(m) # 1 /\ StageOf(m)' = StageOf(m)
    BY <2>2, <2>3, <2>4
  <2>6. \A m \in 1..Len(modules') : StageOf(m)' \in {0, 2}
    BY <2>2
  <2>7. Outcome = "open" /\ Outcome' \in {"open", "refused"}
    BY <2>1 DEF Outcome
  <2> QED
    BY <2>1, <2>5, <2>6, <2>7, Declares
<1>3. CASE ResolveName
  <2>1. /\ phase = "names" /\ phase' \in {"names", "resolve"}
        /\ UNCHANGED <<fronts, modules, rirs>>
    BY <1>3 DEF ResolveName, Step, NamesUnchanged
  <2>2. \A m \in 1..Len(modules) : StageOf(m) \in {0, 2}
    BY <2>1, NoneIsWorkedOn DEF Sorting
  <2>3. \A m : StageOf(m)' = StageOf(m)
    BY <2>1, SameStages
  <2>4. Len(modules') >= Len(modules)
    BY <2>1, ModuleFacts DEF CompIInv
  <2>5. Outcome = "open" /\ Outcome' \in {"open", "refused"}
    BY <2>1 DEF Outcome
  <2> QED
    BY <2>1, <2>2, <2>3, <2>4, <2>5, Declares
<1> QED
  BY <1>1, <1>2, <1>3

(* The analysis of a module is its first step up.                          *)
LEMMA AnalyzingStep ==
    ASSUME CompIInv, AnalyzeModule
    PROVE  Builds
<1>1. phase = "analyze" /\ ~FromRir(Current) /\ ~ModuleNameClash(Current)
  BY DEF AnalyzeModule, Refused
<1>2. ~PassTwice(Current)
  BY <1>1, NoneIsPassedTwice
<1>3. PICK c : c = Current
  OBVIOUS
<1>4. /\ Step(Len(sorted), "rir") /\ rirs' = [rirs EXCEPT ![c] = "created"]
      /\ UNCHANGED <<sortVars, deps, fronts, modules>>
  BY <1>2, <1>3 DEF AnalyzeModule, AnalyzeUnchanged, sortVars
<1>5. phase' \in {"analyze", "rir"}
  BY <1>1, <1>4 DEF Step
<1>6. /\ c \in DOMAIN modules /\ ~Reached(c) /\ ~FromRir(c)
      /\ \A d \in Imports(c) : d \in DOMAIN modules /\ Reached(d)
  BY <1>1, <1>3, ListPosition
<1>7. \A m \in DOMAIN modules :
         ~FromRir(m) => rirs[m] = IF Reached(m) THEN "created" ELSE "none"
  BY <1>1 DEF CompIInv, ProgressInv
<1>8. StageOf(c) = 0 /\ \A d \in Imports(c) : StageOf(d) > 0
  BY <1>6, <1>7 DEF StageOf
<1>9. DOMAIN rirs = DOMAIN modules
  BY FactsOfSeq DEF CompIInv, TablesInv, ModulesInv
<1>10. /\ StageOf(c)' = 1
       /\ \A m \in DOMAIN modules : m # c => StageOf(m)' = StageOf(m)
  BY <1>4, <1>6, <1>9, SameFiles DEF StageOf
<1>11. Outcome = "open" /\ Outcome' = "open"
  BY <1>1, <1>5 DEF Outcome
<1> QED
  BY <1>4, <1>6, <1>8, <1>10, <1>11, Climbs

(* The translation of a module is its second.                              *)
LEMMA LoweringStep ==
    ASSUME CompIInv, CreateRir
    PROVE  Builds
<1>1. PICK c : c = Current
  OBVIOUS
<1>2. /\ phase = "rir" /\ ~FromRir(c)
      /\ Step(Len(sorted), "own") /\ rirs' = [rirs EXCEPT ![c] = "processed"]
      /\ UNCHANGED <<sortVars, deps, fronts, modules>>
  BY <1>1 DEF CreateRir, RirUnchanged, sortVars
<1>3. phase' \in {"rir", "own"}
  BY <1>2 DEF Step
<1>4. /\ c \in DOMAIN modules /\ ~Reached(c)
      /\ \A d \in Imports(c) : d \in DOMAIN modules /\ Reached(d)
  BY <1>1, <1>2, ListPosition
<1>5. \A m \in DOMAIN modules :
         ~FromRir(m) => rirs[m] = IF Reached(m) THEN "processed" ELSE "created"
  BY <1>2 DEF CompIInv, ProgressInv
<1>6. StageOf(c) = 1 /\ \A d \in Imports(c) : StageOf(d) > 1
  BY <1>2, <1>4, <1>5 DEF StageOf
<1>7. DOMAIN rirs = DOMAIN modules
  BY FactsOfSeq DEF CompIInv, TablesInv, ModulesInv
<1>8. /\ StageOf(c)' = 2
      /\ \A m \in DOMAIN modules : m # c => StageOf(m)' = StageOf(m)
  BY <1>2, <1>4, <1>7, SameFiles DEF StageOf
<1>9. Outcome = "open" /\ Outcome' = "open"
  BY <1>2, <1>3 DEF Outcome
<1> QED
  BY <1>2, <1>4, <1>6, <1>8, <1>9, Climbs

(* Every step is one of a staged build, or not seen by it.                 *)
LEMMA StepsAreStaged ==
    ASSUME CompIInv, CompIInv', [CompNext]_allVars
    PROVE  Builds
<1>1. CASE AddInput \/ AddStdlib \/ ParseFront \/ ResolveName
  BY <1>1, DeclaringSteps
<1>2. CASE RefuseName
  <2>1. /\ phase = "names" /\ phase' = "failed"
        /\ UNCHANGED <<deps, fronts, modules, rirs>>
    BY <1>2 DEF RefuseName, ToFailed, NamesUnchanged
  <2> QED
    BY <2>1, Closes DEF Outcome
<1>3. CASE ResolveImports
  <2>1. /\ phase = "resolve" /\ phase' \in {"resolve", "analyze", "failed"}
        /\ UNCHANGED <<fronts, modules, rirs>>
    BY <1>3 DEF ResolveImports
  <2>2. deps' = deps
    BY <1>3 DEF ResolveImports, BeginResolve, Resolve, ScanMarked, ScanVisit,
       ScanEnd, ImportMarked, ImportVisit, ImportOpen, VisitDone
  <2> QED
    BY <2>1, <2>2, Closes DEF Outcome
<1>4. CASE SkipRirInput \/ AnalysisError
  <2>1. /\ phase = "analyze" /\ phase' \in {"analyze", "rir", "failed"}
        /\ UNCHANGED <<deps, fronts, modules, rirs>>
    BY <1>4 DEF SkipRirInput, AnalysisError, Step, ToFailed, AnalyzeUnchanged, sortVars
  <2> QED
    BY <2>1, Closes DEF Outcome
<1>5. CASE AnalyzeModule
  BY <1>5, AnalyzingStep
<1>6. CASE SkipParsedRir \/ RirAborts
  <2>1. /\ phase = "rir" /\ phase' \in {"rir", "own", "aborted"}
        /\ UNCHANGED <<deps, fronts, modules, rirs>>
    BY <1>6 DEF SkipParsedRir, RirAborts, Step, ToAborted, RirUnchanged, sortVars
  <2> QED
    BY <2>1, Closes DEF Outcome
<1>7. CASE CreateRir
  BY <1>7, LoweringStep
<1>8. CASE OwnershipPass
  <2>1. /\ phase = "own" /\ phase' \in {"done", "emit"}
        /\ UNCHANGED <<deps, fronts, modules, rirs>>
    BY <1>8 DEF OwnershipPass, sortVars
  <2>2. \A m \in 1..Len(modules) : StageOf(m) = 2
    BY <2>1, AllAreLowered
  <2> QED
    BY <2>1, <2>2, Closes DEF Outcome
<1>9. CASE GenerateStdlib \/ GenerateModule
  <2>1. /\ phase = "emit" /\ phase' \in {"emit", "tools", "aborted"}
        /\ UNCHANGED <<deps, fronts, modules, rirs>>
    BY <1>9 DEF GenerateStdlib, GenerateModule, Step, ToAborted, EmitUnchanged, sortVars
  <2> QED
    BY <2>1, Closes DEF Outcome
<1>10. CASE ToolsSucceed \/ ToolsFail
  <2>1. /\ phase = "tools" /\ phase' \in {"done", "unlinked"}
        /\ UNCHANGED <<deps, fronts, modules, rirs>>
    BY <1>10 DEF ToolsSucceed, ToolsFail, EmitUnchanged, sortVars
  <2>2. \A m \in 1..Len(modules) : StageOf(m) = 2
    BY <2>1, AllAreLowered
  <2> QED
    BY <2>1, <2>2, Closes DEF Outcome
<1>11. CASE UNCHANGED allVars
  <2>1. UNCHANGED <<deps, fronts, modules, rirs, phase>>
    BY <1>11 DEF allVars, compVars, sortVars
  <2>2. Stages' = Stages
    BY <2>1, SameStages
  <2>3. Outcome' = Outcome
    BY <2>1 DEF Outcome
  <2> QED
    BY <2>1, <2>2, <2>3 DEF Builds, Staged!buildVars, Stages, Outcome
<1> QED
  BY <1>1, <1>2, <1>3, <1>4, <1>5, <1>6, <1>7, <1>8, <1>9, <1>10, <1>11
     DEF CompNext, Work

(* A compilation is a staged build: modules are declared before any work,  *)
(* no module is analyzed, or translated, before all it imports were, and   *)
(* it is finished only with all of them translated.                        *)
THEOREM CompilerIsStaged == CompSpec => ImplementsStages
<1>1. CompInit => Staged!BuildInit
  <2> SUFFICES ASSUME CompInit PROVE Staged!BuildInit
    OBVIOUS
  <2>1. deps = <<>> /\ modules = <<>> /\ phase = "args"
    BY DEF CompInit
  <2>2. [m \in DOMAIN modules |-> StageOf(m)] = <<>>
    BY <2>1
  <2> QED
    BY <2>1, <2>2 DEF Staged!BuildInit
<1>2. CompIInv /\ CompIInv' /\ [CompNext]_allVars => Builds
  BY StepsAreStaged
<1> QED
  BY <1>1, <1>2, CompInductive, PTL
     DEF CompSpec, ImplementsStages, Staged!BuildSpec, Builds
=============================================================================
