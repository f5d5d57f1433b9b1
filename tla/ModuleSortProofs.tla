-------------------------- MODULE ModuleSortProofs --------------------------
(***************************************************************************)
(* What ModuleSort promises, proved for every import graph over any number *)
(* of modules: the type invariant, the safety invariants the runs check,   *)
(* and that the walk implements DependencyOrder.                           *)
(***************************************************************************)
EXTENDS ModuleSort, SequenceTheorems, TLAPS

(* The marks are the list and the open visits, said module by module.      *)
MarksAreList ==
    sortpc # "idle" => \A m \in Mods : Marked(m) <=> m \in Delivered
OpenAreFrames ==
    sortpc = "walk" =>
        \A m \in Mods : IsOpen(m) <=> \E i \in 1..Len(stack) : stack[i].mod = m
FramesDistinct ==
    \A i, j \in 1..Len(stack) : stack[i].mod = stack[j].mod => i = j

(* Each open visit is past imports that are marked, and below the top it   *)
(* waits for the import whose visit is the next frame.                     *)
ImportsDone ==
    \A i \in 1..Len(stack) :
        /\ stack[i].next <= Len(deps[stack[i].mod]) + 1
        /\ \A k \in 1..(stack[i].next - 1) : Marked(deps[stack[i].mod][k])
FramesLinked ==
    \A i \in 1..(Len(stack) - 1) :
        /\ stack[i].next <= Len(deps[stack[i].mod])
        /\ deps[stack[i].mod][stack[i].next] = stack[i + 1].mod

(* The outer loop, the flag and the open visits.                           *)
ScanState ==
    /\ sortpc = "idle" => NotStarted
    /\ stack # <<>> => sortpc = "walk" /\ found /\ scan \in Mods
    /\ sortpc = "walk" /\ ~found => \A m \in 1..(scan - 1) : Marked(m)
    /\ sortpc = "sorted" => \A m \in Mods : Marked(m)

(* No module that is in the list is part of a ring.                        *)
RingsUnlisted ==
    \A C \in SUBSET Mods : CyclicSet(C) => C \cap Delivered = {}

SortIInv ==
    /\ SortTypeOK
    /\ MarksAreList
    /\ OpenAreFrames
    /\ FramesDistinct
    /\ ImportsDone
    /\ FramesLinked
    /\ ScanState
    /\ RingsUnlisted
    /\ ImportsFirst
    /\ ListedOnce
    /\ CycleIsReal

-----------------------------------------------------------------------------
(* The initial states: any import graph, and nothing begun.                *)
LEMMA GraphsAreTyped ==
    ASSUME deps \in ImportGraphs
    PROVE  /\ deps \in Seq(Seq(Nat \ {0}))
           /\ \A m \in Mods : deps[m] \in Seq(Mods)
<1>1. PICK n \in 0..MaxModules :
        deps \in [1..n -> UNION {[1..k -> 1..n] : k \in 0..MaxImports}]
  BY DEF ImportGraphs
<1>2. n \in Nat /\ deps = [m \in 1..n |-> deps[m]] /\ Len(deps) = n
  BY <1>1, BoundsAssumption
<1>3. ASSUME NEW m \in 1..n
      PROVE  deps[m] \in Seq(1..n) /\ deps[m] \in Seq(Nat \ {0})
  <2>1. deps[m] \in UNION {[1..k -> 1..n] : k \in 0..MaxImports}
    BY <1>1
  <2>2. PICK k \in 0..MaxImports : deps[m] \in [1..k -> 1..n]
    BY <2>1, Zenon
  <2>3. k \in Nat /\ 1..n \subseteq Nat \ {0}
    BY <1>2, BoundsAssumption
  <2>4. deps[m] \in [1..k -> Nat \ {0}]
    BY <2>2, <2>3
  <2> QED
    BY <2>2, <2>3, <2>4
<1>4. deps \in [1..n -> Seq(Nat \ {0})]
  BY <1>2, <1>3, Zenon
<1>5. deps \in Seq(Seq(Nat \ {0}))
  BY <1>2, <1>4
<1> QED
  BY <1>2, <1>3, <1>5 DEF Mods, N

(* A walk that has not begun, over imports that are modules.               *)
ImportsAreModules ==
    /\ deps \in Seq(Seq(Nat \ {0}))
    /\ \A m \in Mods : deps[m] \in Seq(Mods)

LEMMA BeforeTheWalk == NotStarted /\ ImportsAreModules => SortIInv
<1> SUFFICES ASSUME NotStarted, ImportsAreModules PROVE SortIInv
  OBVIOUS
<1> USE DEF ImportsAreModules
<1>2. N \in Nat
  BY DEF N
<1>3. stack = <<>> /\ sorted = <<>> /\ Len(stack) = 0 /\ Len(sorted) = 0
  BY DEF NotStarted
<1>4. SortTypeOK
  <2>1. \A m \in Mods : \A k \in 1..Len(deps[m]) : deps[m][k] \in Mods
    BY ElementOfSeq
  <2>2. stack \in Seq(Frame) /\ sorted \in Seq(Mods)
    BY <1>3, EmptySeq
  <2>3. scan \in 1..(N + 1) /\ offender \in 0..N
    <3>1. scan = 1 /\ offender = 0
      BY DEF NotStarted
    <3> QED
      BY <1>2, <3>1
  <2>6. found \in BOOLEAN
    BY Zenon DEF NotStarted
  <2>4. \A i \in 1..Len(stack) : stack[i].mod \in Mods
    BY <1>3
  <2>5. sortpc = "idle"
    BY DEF NotStarted
  <2> QED
    BY <2>1, <2>2, <2>3, <2>4, <2>5, <2>6 DEF SortTypeOK
<1> QED
  BY <1>3, <1>4 DEF NotStarted, SortIInv, MarksAreList, OpenAreFrames,
     FramesDistinct, ImportsDone, FramesLinked, ScanState, RingsUnlisted,
     ImportsFirst, ListedOnce, CycleIsReal, Delivered

LEMMA InitialStates == SortInit => SortIInv
  BY GraphsAreTyped, BeforeTheWalk DEF SortInit, ImportsAreModules

-----------------------------------------------------------------------------
(* A frame moved on to its next import.                                    *)
LEMMA FrameStep ==
    ASSUME NEW f \in Frame
    PROVE  /\ f.mod \in Nat \ {0} /\ f.next \in Nat \ {0}
           /\ [f EXCEPT !.next = @ + 1] \in Frame
           /\ [f EXCEPT !.next = @ + 1].mod = f.mod
           /\ [f EXCEPT !.next = @ + 1].next = f.next + 1
  BY DEF Frame

(* Facts of a typed state that the steps below cite.                       *)
LEMMA TypedState ==
    ASSUME SortTypeOK
    PROVE  /\ N \in Nat
           /\ Len(stack) \in Nat /\ Len(sorted) \in Nat
           /\ \A i \in 1..Len(stack) :
                 /\ stack[i] \in Frame
                 /\ stack[i].mod \in Mods /\ stack[i].next \in Nat \ {0}
           /\ \A p \in 1..Len(sorted) : sorted[p] \in Mods
           /\ \A m \in Mods : Len(deps[m]) \in Nat
           /\ \A m \in Mods : Imports(m) \subseteq Mods
<1> USE DEF SortTypeOK
<1>1. N \in Nat /\ Len(stack) \in Nat /\ Len(sorted) \in Nat
  BY LenProperties DEF N
<1>2. \A i \in 1..Len(stack) :
        stack[i] \in Frame /\ stack[i].mod \in Mods /\ stack[i].next \in Nat \ {0}
  <2>1. \A i \in 1..Len(stack) : stack[i] \in Frame
    BY ElementOfSeq
  <2> QED
    BY <2>1, FrameStep
<1>3. \A p \in 1..Len(sorted) : sorted[p] \in Mods
  BY ElementOfSeq
<1>4. \A m \in Mods : Len(deps[m]) \in Nat
  BY ElementOfSeq, LenProperties DEF Mods, N
<1>5. \A m \in Mods : Imports(m) \subseteq Mods
  BY DEF Imports
<1> QED
  BY <1>1, <1>2, <1>3, <1>4, <1>5

(* The imports are fixed before the walk, so what is said of them stays.   *)
LEMMA SameGraph ==
    ASSUME UNCHANGED deps
    PROVE  /\ N' = N /\ Mods' = Mods
           /\ \A m : Imports(m)' = Imports(m)
           /\ \A C : CyclicSet(C)' <=> CyclicSet(C)
  BY DEF N, Mods, Imports, CyclicSet

LEMMA SameList ==
    ASSUME SortIInv, UNCHANGED <<deps, sorted>>
    PROVE  ImportsFirst' /\ ListedOnce' /\ RingsUnlisted' /\ Delivered' = Delivered
<1>1. Delivered' = Delivered
  BY DEF Delivered
<1>2. ImportsFirst'
  BY SameGraph DEF SortIInv, ImportsFirst
<1>3. ListedOnce'
  BY DEF SortIInv, ListedOnce
<1>4. RingsUnlisted'
  BY <1>1, SameGraph DEF SortIInv, RingsUnlisted
<1> QED
  BY <1>1, <1>2, <1>3, <1>4

(* The three ways the stack of open visits changes.                        *)
LEMMA StackPush ==
    ASSUME SortTypeOK, NEW m \in Mods, stack' = Append(stack, Open(m))
    PROVE  /\ stack' \in Seq(Frame) /\ Len(stack') = Len(stack) + 1
           /\ \A i \in 1..Len(stack) : stack'[i] = stack[i]
           /\ stack'[Len(stack) + 1].mod = m /\ stack'[Len(stack) + 1].next = 1
  BY TypedState DEF SortTypeOK, Open, Frame, Mods

LEMMA StackAdvance ==
    ASSUME SortTypeOK, stack # <<>>,
           stack' = [stack EXCEPT ![Len(stack)].next = @ + 1]
    PROVE  /\ stack' \in Seq(Frame) /\ Len(stack') = Len(stack)
           /\ Len(stack) \in 1..Len(stack)
           /\ \A i \in 1..Len(stack) : stack'[i].mod = stack[i].mod
           /\ \A i \in 1..(Len(stack) - 1) : stack'[i] = stack[i]
           /\ stack'[Len(stack)].next = Top.next + 1
<1>1. Len(stack) \in 1..Len(stack)
  BY EmptySeq DEF SortTypeOK
<1>2. stack[Len(stack)] \in Frame
  BY <1>1, TypedState
<1>3. /\ [stack[Len(stack)] EXCEPT !.next = @ + 1] \in Frame
      /\ [stack[Len(stack)] EXCEPT !.next = @ + 1].mod = stack[Len(stack)].mod
      /\ [stack[Len(stack)] EXCEPT !.next = @ + 1].next = stack[Len(stack)].next + 1
  BY <1>2, FrameStep
<1>4. stack' = [stack EXCEPT ![Len(stack)] = [stack[Len(stack)] EXCEPT !.next = @ + 1]]
  OBVIOUS
<1>5. /\ stack' \in Seq(Frame) /\ Len(stack') = Len(stack)
      /\ \A j \in 1..Len(stack) : stack'[j] =
           IF j = Len(stack) THEN [stack[Len(stack)] EXCEPT !.next = @ + 1] ELSE stack[j]
  BY <1>1, <1>3, <1>4, ExceptSeq DEF SortTypeOK
<1> QED
  BY <1>1, <1>3, <1>5 DEF Top

LEMMA StackPop ==
    ASSUME SortTypeOK, stack # <<>>, stack' = Returned
    PROVE  /\ stack' \in Seq(Frame) /\ Len(stack') = Len(stack) - 1
           /\ Len(stack) \in 1..Len(stack)
           /\ \A i \in 1..(Len(stack) - 1) : stack'[i].mod = stack[i].mod
           /\ \A i \in 1..(Len(stack) - 2) : stack'[i] = stack[i]
           /\ Len(stack) > 1 =>
                 stack'[Len(stack) - 1].next = stack[Len(stack) - 1].next + 1
<1>1. Len(stack) \in 1..Len(stack)
  BY EmptySeq DEF SortTypeOK
<1>2. ASSUME NEW k \in 1..(Len(stack) - 1)
      PROVE  /\ stack[k] \in Frame
             /\ [stack[k] EXCEPT !.next = @ + 1] \in Frame
             /\ [stack[k] EXCEPT !.next = @ + 1].mod = stack[k].mod
             /\ [stack[k] EXCEPT !.next = @ + 1].next = stack[k].next + 1
  <2>1. stack[k] \in Frame
    BY <1>1, TypedState
  <2> QED
    BY <2>1, FrameStep
<1>3. Returned \in [1..(Len(stack) - 1) -> Frame]
  BY <1>2 DEF Returned
<1>4. Len(stack) \in Nat /\ Len(stack) - 1 \in Nat
  BY <1>1, TypedState
<1>5. stack' \in Seq(Frame) /\ Len(stack') = Len(stack) - 1
  BY <1>3, <1>4
<1>6. \A k \in 1..(Len(stack) - 1) : stack'[k] =
        IF k = Len(stack) - 1 THEN [stack[k] EXCEPT !.next = @ + 1] ELSE stack[k]
  BY DEF Returned
<1>7. \A i \in 1..(Len(stack) - 1) : stack'[i].mod = stack[i].mod
  BY <1>2, <1>6
<1>8. ASSUME NEW i \in 1..(Len(stack) - 2) PROVE stack'[i] = stack[i]
  <2>1. i \in 1..(Len(stack) - 1) /\ i # Len(stack) - 1
    BY <1>4
  <2> QED
    BY <1>6, <2>1
<1>9. ASSUME Len(stack) > 1
      PROVE  stack'[Len(stack) - 1].next = stack[Len(stack) - 1].next + 1
  <2>1. Len(stack) - 1 \in 1..(Len(stack) - 1)
    BY <1>4, <1>9
  <2> QED
    BY <1>2, <1>6, <2>1
<1> QED
  BY <1>1, <1>5, <1>7, <1>8, <1>9

(* A module is marked as open, when its visit begins.                      *)
LEMMA MarkOpen ==
    ASSUME SortTypeOK, sortpc = "walk", UNCHANGED deps,
           NEW m \in Mods, ~Marked(m), marks' = [marks EXCEPT ![m] = "temp"]
    PROVE  /\ marks' \in [Mods -> MarkStates]
           /\ \A x \in Mods : Marked(x)' <=> Marked(x)
           /\ \A x \in Mods : IsOpen(x)' <=> (IsOpen(x) \/ x = m)
  BY DEF SortTypeOK, MarkStates, Marked, IsOpen

(* Marks and stack untouched: so is what the invariant says of them.       *)
LEMMA SameWalk ==
    ASSUME SortIInv, sortpc = "walk", UNCHANGED <<deps, marks, stack, sorted>>
    PROVE  /\ MarksAreList' /\ FramesDistinct' /\ ImportsDone' /\ FramesLinked'
           /\ sortpc' = "walk" => OpenAreFrames'
<1>1. MarksAreList'
  BY SameGraph, SameList DEF SortIInv, MarksAreList, Marked
<1>2. FramesDistinct'
  BY DEF SortIInv, FramesDistinct
<1>3. ImportsDone'
  BY DEF SortIInv, ImportsDone, Marked
<1>4. FramesLinked'
  BY DEF SortIInv, FramesLinked
<1>5. sortpc' = "walk" => OpenAreFrames'
  BY SameGraph DEF SortIInv, OpenAreFrames, IsOpen
<1> QED
  BY <1>1, <1>2, <1>3, <1>4, <1>5

-----------------------------------------------------------------------------
(* One lemma per action of the walk.                                       *)
LEMMA BeginResolveStep == SortIInv /\ BeginResolve => SortIInv'
<1> SUFFICES ASSUME SortIInv, BeginResolve PROVE SortIInv'
  OBVIOUS
<1>1. /\ stack' = <<>> /\ Len(stack') = 0 /\ sorted' = sorted
      /\ sortpc' = "walk" /\ scan' = 1 /\ deps' = deps
      /\ stack = <<>> /\ sorted = <<>> /\ Len(sorted) = 0
  BY DEF BeginResolve, SortIInv, ScanState, NotStarted
<1>2. SortTypeOK
  BY DEF SortIInv
<1>3. SortTypeOK'
  <2>1. marks' \in [Mods -> MarkStates]
    BY DEF BeginResolve, MarkStates
  <2> QED
    BY <1>1, <1>2, <2>1, SameGraph DEF SortTypeOK, BeginResolve
<1>4. \A m \in Mods : ~Marked(m)' /\ ~IsOpen(m)'
  BY DEF BeginResolve, Marked, IsOpen
<1>5. Delivered = {}
  BY <1>1 DEF Delivered
<1>6. ImportsFirst' /\ ListedOnce' /\ RingsUnlisted' /\ Delivered' = Delivered
  BY <1>1, SameList
<1>7. MarksAreList' /\ OpenAreFrames'
  BY <1>1, <1>4, <1>5, <1>6, SameGraph DEF MarksAreList, OpenAreFrames
<1>8. FramesDistinct' /\ ImportsDone' /\ FramesLinked'
  BY <1>1 DEF FramesDistinct, ImportsDone, FramesLinked
<1>9. ScanState' /\ CycleIsReal'
  BY <1>1 DEF ScanState, CycleIsReal
<1> QED
  BY <1>3, <1>6, <1>7, <1>8, <1>9 DEF SortIInv

LEMMA ScanMarkedStep == SortIInv /\ ScanMarked => SortIInv'
<1> SUFFICES ASSUME SortIInv, ScanMarked PROVE SortIInv'
  OBVIOUS
<1>1. /\ UNCHANGED <<deps, sortpc, marks, found, stack, sorted, offender>>
      /\ sortpc = "walk" /\ stack = <<>>
      /\ scan \in Mods /\ Marked(scan) /\ scan' = scan + 1
  BY DEF ScanMarked, PassOver
<1>2. SortTypeOK /\ N \in Nat
  BY TypedState DEF SortIInv
<1>3. SortTypeOK'
  <2>1. scan' \in 1..(N + 1)
    BY <1>1, <1>2 DEF Mods
  <2> QED
    BY <1>1, <1>2, <2>1, SameGraph DEF SortTypeOK
<1>4. ScanState'
  <2>1. ~found' => \A m \in 1..(scan' - 1) : Marked(m)'
    BY <1>1, <1>2 DEF SortIInv, ScanState, Marked, Mods
  <2> QED
    BY <1>1, <2>1 DEF ScanState
<1> QED
  BY <1>1, <1>3, <1>4, SameWalk, SameList DEF SortIInv, CycleIsReal

LEMMA ScanEndStep == SortIInv /\ ScanEnd => SortIInv'
<1> SUFFICES ASSUME SortIInv, ScanEnd PROVE SortIInv'
  OBVIOUS
<1>1. /\ UNCHANGED <<deps, marks, stack, sorted, offender>>
      /\ sortpc = "walk" /\ stack = <<>> /\ scan \notin Mods
      /\ sortpc' = (IF found THEN "walk" ELSE "sorted")
      /\ scan' = (IF found THEN 1 ELSE scan)
      /\ found' = FALSE
  BY DEF ScanEnd, PassOver, Restart
<1>2. SortTypeOK /\ N \in Nat
  BY TypedState DEF SortIInv
<1>3. SortTypeOK'
  <2>1. scan' \in 1..(N + 1)
    BY <1>1, <1>2 DEF SortTypeOK
  <2>2. sortpc' \in {"walk", "sorted"} /\ found' \in BOOLEAN
    BY <1>1
  <2> QED
    BY <1>1, <1>2, <2>1, <2>2, SameGraph DEF SortTypeOK
<1>4. ~found => \A m \in Mods : Marked(m)
  BY <1>1, <1>2 DEF SortIInv, ScanState, SortTypeOK, Mods
<1>5. ScanState'
  <2>1. sortpc' = "walk" => \A m \in 1..(scan' - 1) : Marked(m)'
    BY <1>1
  <2>2. sortpc' = "sorted" => \A m \in Mods' : Marked(m)'
    BY <1>1, <1>4, SameGraph DEF Marked
  <2> QED
    BY <1>1, <2>1, <2>2 DEF ScanState
<1>6. CycleIsReal' /\ OpenAreFrames'
  <2>1. CycleIsReal'
    BY <1>1 DEF CycleIsReal
  <2>2. CASE sortpc' = "walk"
    BY <1>1, <2>1, <2>2, SameWalk
  <2>3. CASE sortpc' # "walk"
    BY <2>1, <2>3 DEF OpenAreFrames
  <2> QED
    BY <2>2, <2>3
<1> QED
  BY <1>1, <1>3, <1>5, <1>6, SameWalk, SameList DEF SortIInv

(* A visit begins, from the outer loop or from the import of an open one.  *)
LEMMA VisitBegins ==
    ASSUME SortIInv, sortpc = "walk", UNCHANGED <<deps, sortpc, sorted, scan, offender>>,
           NEW m \in Mods, ~Marked(m), ~IsOpen(m),
           marks' = [marks EXCEPT ![m] = "temp"],
           stack' = Append(stack, Open(m)),
           stack # <<>> => AtImport /\ Import = m,
           found' = TRUE, scan \in Mods
    PROVE  SortIInv'
<1> DEFINE L == Len(stack)
<1>1. SortTypeOK
  BY DEF SortIInv
<1>2. L \in Nat /\ \A i \in 1..L : stack[i].mod \in Mods /\ stack[i].next \in Nat \ {0}
  BY <1>1, TypedState
<1>3. /\ stack' \in Seq(Frame) /\ Len(stack') = L + 1
      /\ \A i \in 1..L : stack'[i] = stack[i]
      /\ stack'[L + 1].mod = m /\ stack'[L + 1].next = 1
  BY <1>1, StackPush
<1>4. /\ marks' \in [Mods -> MarkStates]
      /\ \A x \in Mods : Marked(x)' <=> Marked(x)
      /\ \A x \in Mods : IsOpen(x)' <=> (IsOpen(x) \/ x = m)
  BY <1>1, MarkOpen
<1>5. stack = <<>> <=> L = 0
  BY <1>1, EmptySeq DEF SortTypeOK
<1> HIDE DEF L
<1>6. \A i \in 1..L : stack[i].mod # m
  BY <1>2 DEF SortIInv, OpenAreFrames, L
<1>7. \A i \in 1..(L + 1) :
        /\ stack'[i].mod \in Mods
        /\ i \in 1..L \/ (i = L + 1 /\ stack'[i].mod = m /\ stack'[i].next = 1)
  BY <1>2, <1>3
<1>8. SortTypeOK'
  BY <1>1, <1>3, <1>4, <1>7, SameGraph DEF SortTypeOK
<1>9. MarksAreList'
  BY <1>4, SameGraph, SameList DEF SortIInv, MarksAreList
<1>10. OpenAreFrames'
  <2>1. ASSUME NEW x \in Mods
        PROVE  (\E i \in 1..(L + 1) : stack'[i].mod = x)
                 <=> ((\E i \in 1..L : stack[i].mod = x) \/ x = m)
    BY <1>2, <1>3
  <2> QED
    BY <1>3, <1>4, <2>1, SameGraph DEF SortIInv, OpenAreFrames, L
<1>11. FramesDistinct'
  <2>1. ASSUME NEW i \in 1..(L + 1), NEW j \in 1..(L + 1), stack'[i].mod = stack'[j].mod
        PROVE  i = j
    BY <1>3, <1>6, <1>7, <2>1 DEF SortIInv, FramesDistinct, L
  <2> QED
    BY <1>3, <2>1 DEF FramesDistinct
<1>12. ImportsDone'
  <2>1. ASSUME NEW i \in 1..(L + 1)
        PROVE  /\ stack'[i].next <= Len(deps[stack'[i].mod]) + 1
               /\ \A k \in 1..(stack'[i].next - 1) :
                     marks'[deps[stack'[i].mod][k]] = "marked"
    <3>1. CASE i \in 1..L
      <4>1. /\ stack'[i] = stack[i]
            /\ stack[i].next <= Len(deps[stack[i].mod]) + 1
            /\ \A k \in 1..(stack[i].next - 1) : marks[deps[stack[i].mod][k]] = "marked"
        BY <1>3, <3>1 DEF SortIInv, ImportsDone, Marked, L
      <4>2. ASSUME NEW k \in 1..(stack[i].next - 1)
            PROVE  deps[stack[i].mod][k] \in Mods
        <5>1. stack[i].mod \in Mods /\ Len(deps[stack[i].mod]) \in Nat
          BY <1>1, <1>2, <3>1, TypedState
        <5>2. k \in 1..Len(deps[stack[i].mod])
          BY SMTT(30), <1>2, <3>1, <4>1, <5>1
        <5> QED
          BY <1>1, <5>1, <5>2 DEF SortTypeOK
      <4> QED
        BY <1>4, <4>1, <4>2 DEF Marked
    <3>2. CASE i = L + 1
      <4>1. Len(deps[m]) \in Nat
        BY <1>1, TypedState
      <4> QED
        BY <1>3, <3>2, <4>1
    <3>3. i \in 1..L \/ i = L + 1
      BY <1>7
    <3> QED
      BY <3>1, <3>2, <3>3
  <2> QED
    BY <1>3, <2>1 DEF ImportsDone, Marked
<1>13. FramesLinked'
  <2>1. ASSUME NEW i \in 1..L
        PROVE  /\ stack'[i].next <= Len(deps[stack'[i].mod])
               /\ deps[stack'[i].mod][stack'[i].next] = stack'[i + 1].mod
    <3>1. CASE i < L
      <4>1. i \in 1..(L - 1) /\ i + 1 \in 1..L
        BY <1>2, <3>1
      <4> QED
        BY <1>3, <4>1 DEF SortIInv, FramesLinked, L
    <3>2. CASE i = L
      <4>1. stack # <<>>
        BY <1>2, <1>5, <3>2
      <4> QED
        BY <1>3, <3>2, <4>1 DEF AtImport, Import, Top, L
    <3>3. i < L \/ i = L
      BY <1>2
    <3> QED
      BY <3>1, <3>2, <3>3
  <2>2. Len(stack') - 1 = L
    BY <1>2, <1>3
  <2> QED
    BY <2>1, <2>2 DEF FramesLinked
<1>14. ScanState' /\ CycleIsReal'
  BY SameGraph DEF ScanState, CycleIsReal
<1> QED
  BY <1>8, <1>9, <1>10, <1>11, <1>12, <1>13, <1>14, SameList DEF SortIInv

LEMMA ScanVisitStep == SortIInv /\ ScanVisit => SortIInv'
<1> SUFFICES ASSUME SortIInv, ScanVisit PROVE SortIInv'
  OBVIOUS
<1>1. /\ UNCHANGED <<deps, sortpc, scan, sorted, offender>>
      /\ sortpc = "walk" /\ stack = <<>> /\ scan \in Mods /\ ~Marked(scan)
      /\ found' = TRUE /\ marks' = [marks EXCEPT ![scan] = "temp"]
      /\ stack' = <<Open(scan)>>
  BY DEF ScanVisit, PassOver
<1>2. ~IsOpen(scan)
  BY <1>1 DEF SortIInv, OpenAreFrames
<1>3. stack' = Append(stack, Open(scan))
  BY <1>1
<1> QED
  BY <1>1, <1>2, <1>3, VisitBegins

(* The import a visit is at is one of the modules.                         *)
LEMMA ImportIsModule ==
    ASSUME SortTypeOK, AtImport
    PROVE  /\ Len(stack) \in 1..Len(stack) /\ Len(stack) \in Nat
           /\ Top.mod \in Mods /\ Top.next \in 1..Len(deps[Top.mod])
           /\ Import \in Mods /\ Import \in Imports(Top.mod)
<1>1. stack # <<>> /\ Top.next <= Len(deps[Top.mod])
  BY DEF AtImport
<1>2. Len(stack) \in 1..Len(stack) /\ Len(stack) \in Nat
  BY <1>1, EmptySeq DEF SortTypeOK
<1>3. Top.mod \in Mods /\ Top.next \in Nat \ {0}
  BY <1>2, TypedState DEF Top
<1>4. Top.next \in 1..Len(deps[Top.mod])
  BY <1>1, <1>3, TypedState
<1> QED
  BY <1>2, <1>3, <1>4 DEF SortTypeOK, Import, Imports

LEMMA ImportVisitStep == SortIInv /\ ImportVisit => SortIInv'
<1> SUFFICES ASSUME SortIInv, ImportVisit PROVE SortIInv'
  OBVIOUS
<1>1. /\ UNCHANGED <<deps, sortpc, scan, found, sorted, offender>>
      /\ sortpc = "walk" /\ AtImport /\ ~Marked(Import) /\ ~IsOpen(Import)
      /\ marks' = [marks EXCEPT ![Import] = "temp"]
      /\ stack' = Append(stack, Open(Import))
  BY DEF ImportVisit
<1>2. Import \in Mods
  BY <1>1, ImportIsModule DEF SortIInv
<1>3. found = TRUE /\ scan \in Mods
  BY <1>1 DEF SortIInv, ScanState, AtImport, SortTypeOK
<1> QED
  BY <1>1, <1>2, <1>3, VisitBegins

LEMMA ImportMarkedStep == SortIInv /\ ImportMarked => SortIInv'
<1> SUFFICES ASSUME SortIInv, ImportMarked PROVE SortIInv'
  OBVIOUS
<1> DEFINE L == Len(stack)
<1>1. /\ UNCHANGED <<deps, sortpc, marks, scan, found, sorted, offender>>
      /\ sortpc = "walk" /\ AtImport /\ Marked(Import) /\ stack # <<>>
      /\ stack' = [stack EXCEPT ![L].next = @ + 1]
  BY DEF ImportMarked, AtImport
<1>2. SortTypeOK
  BY DEF SortIInv
<1>3. L \in Nat /\ \A i \in 1..L : stack[i].mod \in Mods /\ stack[i].next \in Nat \ {0}
  BY <1>2, TypedState
<1>4. /\ stack' \in Seq(Frame) /\ Len(stack') = L /\ L \in 1..L
      /\ \A i \in 1..L : stack'[i].mod = stack[i].mod
      /\ \A i \in 1..(L - 1) : stack'[i] = stack[i]
      /\ stack'[L].next = Top.next + 1
  BY <1>1, <1>2, StackAdvance
<1>5. /\ Top = stack[L] /\ Top.mod \in Mods /\ Top.next \in 1..Len(deps[Top.mod])
      /\ marks[deps[Top.mod][Top.next]] = "marked" /\ Len(deps[Top.mod]) \in Nat
  BY <1>1, <1>2, ImportIsModule, TypedState DEF Top, Import, Marked
<1> HIDE DEF L
<1>6. \A i \in 1..L : i = L \/ i \in 1..(L - 1)
  BY <1>3
<1>7. SortTypeOK'
  BY <1>1, <1>2, <1>3, <1>4, SameGraph DEF SortTypeOK
<1>8. MarksAreList'
  BY <1>1, SameGraph, SameList DEF SortIInv, MarksAreList, Marked
<1>9. OpenAreFrames'
  BY <1>1, <1>4, SameGraph DEF SortIInv, OpenAreFrames, IsOpen, L
<1>10. FramesDistinct'
  BY <1>4 DEF SortIInv, FramesDistinct, L
<1>11. ImportsDone'
  <2>1. ASSUME NEW i \in 1..L
        PROVE  /\ stack'[i].next <= Len(deps[stack'[i].mod]) + 1
               /\ \A k \in 1..(stack'[i].next - 1) :
                     marks[deps[stack'[i].mod][k]] = "marked"
    <3>1. CASE i \in 1..(L - 1)
      BY <1>4, <3>1 DEF SortIInv, ImportsDone, Marked, L
    <3>2. CASE i = L
      <4>1. \A k \in 1..(Top.next - 1) : marks[deps[Top.mod][k]] = "marked"
        BY <1>4, <1>5 DEF SortIInv, ImportsDone, Marked, L
      <4>2. \A k \in 1..Top.next : k \in 1..(Top.next - 1) \/ k = Top.next
        BY <1>5
      <4>3. stack'[i].mod = Top.mod /\ stack'[i].next = Top.next + 1
        BY <1>4, <1>5, <3>2
      <4>4. \A k \in 1..Top.next : marks[deps[Top.mod][k]] = "marked"
        BY <1>5, <4>1, <4>2
      <4>5. stack'[i].next - 1 = Top.next /\ stack'[i].next <= Len(deps[Top.mod]) + 1
        BY <1>5, <4>3
      <4> QED
        BY <4>3, <4>4, <4>5
    <3> QED
      BY <1>6, <3>1, <3>2
  <2> QED
    BY <1>1, <1>4, <2>1 DEF ImportsDone, Marked
<1>12. FramesLinked'
  <2>1. ASSUME NEW i \in 1..(L - 1)
        PROVE  stack'[i] = stack[i] /\ stack'[i + 1].mod = stack[i + 1].mod
    <3>1. i + 1 \in 1..L
      BY <1>3
    <3> QED
      BY <1>4, <3>1
  <2> QED
    BY <1>1, <1>4, <2>1 DEF SortIInv, FramesLinked, L
<1>13. ScanState' /\ CycleIsReal'
  BY <1>1, SameGraph DEF SortIInv, ScanState, CycleIsReal, Marked
<1> QED
  BY <1>1, <1>7, <1>8, <1>9, <1>10, <1>11, <1>12, <1>13, SameList DEF SortIInv

(* The open visits from the reported module up form a ring.                *)
LEMMA OpenVisitsRing ==
    ASSUME SortIInv, sortpc = "walk", AtImport, IsOpen(Import)
    PROVE  \E C \in SUBSET Mods : Import \in C /\ CyclicSet(C)
<1> DEFINE L == Len(stack)
<1>1. SortTypeOK
  BY DEF SortIInv
<1>2. /\ L \in Nat /\ L \in 1..L /\ Top.mod \in Mods
      /\ Import \in Mods /\ Import \in Imports(Top.mod)
      /\ \A i \in 1..L : stack[i].mod \in Mods /\ stack[i].next \in Nat \ {0}
  BY <1>1, ImportIsModule, TypedState
<1>3. PICK j \in 1..L : stack[j].mod = Import
  BY <1>2 DEF SortIInv, OpenAreFrames
<1> DEFINE C == {stack[i].mod : i \in j..L}
<1>4. C \in SUBSET Mods /\ Import \in C
  BY <1>2, <1>3
<1>5. ASSUME NEW i \in j..L
      PROVE  \E d \in Imports(stack[i].mod) : d \in C
  <2>1. CASE i = L
    BY <1>2, <1>4, <2>1 DEF Top
  <2>2. CASE i # L
    <3>1. i \in 1..(L - 1) /\ i + 1 \in j..L /\ i \in 1..L
      BY <1>2, <1>3, <2>2
    <3>2. /\ stack[i].next \in 1..Len(deps[stack[i].mod])
          /\ deps[stack[i].mod][stack[i].next] = stack[i + 1].mod
      BY <1>1, <1>2, <3>1, TypedState DEF SortIInv, FramesLinked
    <3>3. stack[i + 1].mod \in Imports(stack[i].mod)
      BY <3>2 DEF Imports
    <3> QED
      BY <3>1, <3>3
  <2> QED
    BY <2>1, <2>2
<1>6. CyclicSet(C)
  BY <1>4, <1>5 DEF CyclicSet
<1> QED
  BY <1>4, <1>6

LEMMA ImportOpenStep == SortIInv /\ ImportOpen => SortIInv'
<1> SUFFICES ASSUME SortIInv, ImportOpen PROVE SortIInv'
  OBVIOUS
<1>1. /\ UNCHANGED <<deps, marks, scan, found, sorted>>
      /\ sortpc = "walk" /\ AtImport /\ IsOpen(Import)
      /\ sortpc' = "cyclic" /\ offender' = Import
      /\ stack' = <<>> /\ Len(stack') = 0
  BY DEF ImportOpen
<1>2. SortTypeOK /\ N \in Nat /\ Import \in Mods
  BY <1>1, ImportIsModule, TypedState DEF SortIInv
<1>3. SortTypeOK'
  <2>1. offender' \in 0..N
    BY <1>1, <1>2 DEF Mods
  <2>2. stack' \in Seq(Frame) /\ sortpc' \in {"idle", "walk", "sorted", "cyclic"}
    BY <1>1
  <2>3. \A i \in 1..Len(stack') : stack'[i].mod \in Mods'
    BY <1>1
  <2> QED
    BY <1>1, <1>2, <2>1, <2>2, <2>3, SameGraph DEF SortTypeOK
<1>4. MarksAreList'
  BY <1>1, SameGraph, SameList DEF SortIInv, MarksAreList, Marked
<1>5. OpenAreFrames' /\ FramesDistinct' /\ ImportsDone' /\ FramesLinked' /\ ScanState'
  BY <1>1 DEF OpenAreFrames, FramesDistinct, ImportsDone, FramesLinked, ScanState
<1>6. CycleIsReal'
  BY <1>1, OpenVisitsRing, SameGraph DEF CycleIsReal
<1> QED
  BY <1>1, <1>3, <1>4, <1>5, <1>6, SameList DEF SortIInv

(* A visit that is past its imports finishes a module that is not listed,  *)
(* and all of whose imports are.                                           *)
LEMMA FinishedVisit ==
    ASSUME SortIInv, sortpc = "walk", stack # <<>>, ~AtImport
    PROVE  /\ Len(stack) \in 1..Len(stack) /\ Top.mod \in Mods
           /\ IsOpen(Top.mod) /\ Top.mod \notin Delivered
           /\ Imports(Top.mod) \subseteq Delivered
<1>1. SortTypeOK
  BY DEF SortIInv
<1>2. Len(stack) \in 1..Len(stack)
  BY <1>1, EmptySeq DEF SortTypeOK
<1>3. Top.mod \in Mods /\ Top.next \in Nat \ {0} /\ Len(deps[Top.mod]) \in Nat
  BY <1>1, <1>2, TypedState DEF Top
<1>4. IsOpen(Top.mod)
  BY <1>2, <1>3 DEF SortIInv, OpenAreFrames, Top
<1>5. Top.mod \notin Delivered
  BY <1>3, <1>4 DEF SortIInv, MarksAreList, IsOpen, Marked
<1>6. Top.next = Len(deps[Top.mod]) + 1
  BY <1>2, <1>3 DEF SortIInv, ImportsDone, AtImport, Top
<1>7. \A k \in 1..Len(deps[Top.mod]) : Marked(deps[Top.mod][k])
  BY <1>2, <1>3, <1>6 DEF SortIInv, ImportsDone, Top
<1>8. Imports(Top.mod) \subseteq Delivered
  BY <1>1, <1>3, <1>7 DEF SortIInv, MarksAreList, Imports, SortTypeOK
<1> QED
  BY <1>2, <1>3, <1>4, <1>5, <1>8

(* What the list gains when such a module is put at its end.               *)
LEMMA ListGrows ==
    ASSUME SortIInv, UNCHANGED deps, NEW m \in Mods, m \notin Delivered,
           Imports(m) \subseteq Delivered, sorted' = Append(sorted, m)
    PROVE  /\ sorted' \in Seq(Mods) /\ Delivered' = Delivered \cup {m}
           /\ ImportsFirst' /\ ListedOnce' /\ RingsUnlisted'
<1> DEFINE L == Len(sorted)
<1>1. SortTypeOK
  BY DEF SortIInv
<1>2. L \in Nat /\ sorted \in Seq(Mods)
  BY <1>1, TypedState DEF SortTypeOK
<1>3. /\ sorted' \in Seq(Mods) /\ Len(sorted') = L + 1
      /\ \A p \in 1..L : sorted'[p] = sorted[p]
      /\ sorted'[L + 1] = m
  BY <1>2
<1> HIDE DEF L
<1>4. \A p \in 1..(L + 1) : p \in 1..L \/ p = L + 1
  BY <1>2
<1>5. Delivered' = Delivered \cup {m}
  <2>1. ASSUME NEW p \in 1..L PROVE p \in 1..(L + 1)
    BY <1>2
  <2>2. L + 1 \in 1..(L + 1)
    BY <1>2
  <2>3. Delivered' \subseteq Delivered \cup {m}
    BY <1>3, <1>4 DEF Delivered, L
  <2>4. Delivered \cup {m} \subseteq Delivered'
    BY <1>3, <2>1, <2>2 DEF Delivered, L
  <2> QED
    BY <2>3, <2>4
<1>6. ImportsFirst'
  <2>1. ASSUME NEW p \in 1..(L + 1), NEW d \in Imports(sorted'[p])
        PROVE  \E q \in 1..(p - 1) : sorted'[q] = d
    <3>1. CASE p \in 1..L
      <4>1. PICK q \in 1..(p - 1) : sorted[q] = d
        BY <1>3, <2>1, <3>1 DEF SortIInv, ImportsFirst, L
      <4>2. q \in 1..L
        BY <1>2, <3>1
      <4> QED
        BY <1>3, <4>1, <4>2
    <3>2. CASE p = L + 1
      <4>1. d \in Delivered
        BY <1>3, <2>1, <3>2
      <4>2. PICK q \in 1..L : sorted[q] = d
        BY <4>1 DEF Delivered, L
      <4>3. q \in 1..(p - 1)
        BY <1>2, <3>2
      <4> QED
        BY <1>3, <4>2, <4>3
    <3> QED
      BY <1>4, <3>1, <3>2
  <2>2. deps' = deps
    OBVIOUS
  <2>3. \A p : Imports(sorted'[p]) =
          {deps'[sorted'[p]][k] : k \in 1..Len(deps'[sorted'[p]])}
    BY <2>2 DEF Imports
  <2>4. ASSUME NEW p \in 1..Len(sorted'),
               NEW d \in {deps'[sorted'[p]][k] : k \in 1..Len(deps'[sorted'[p]])}
        PROVE  \E q \in 1..(p - 1) : sorted'[q] = d
    <3>1. p \in 1..(L + 1)
      BY <1>3
    <3>2. d \in Imports(sorted'[p])
      BY <2>3, <2>4, Zenon
    <3> QED
      BY <2>1, <3>1, <3>2, Zenon
  <2> QED
    BY <2>4, Zenon DEF ImportsFirst, Imports
<1>7. ListedOnce'
  <2>1. \A p \in 1..L : sorted[p] # m
    BY DEF Delivered, L
  <2>2. ASSUME NEW p \in 1..(L + 1), NEW q \in 1..(L + 1), sorted'[p] = sorted'[q]
        PROVE  p = q
    BY <1>3, <1>4, <2>1, <2>2 DEF SortIInv, ListedOnce, L
  <2> QED
    BY <1>3, <2>2 DEF ListedOnce
<1>8. RingsUnlisted'
  <2>1. ASSUME NEW C \in SUBSET Mods, CyclicSet(C)
        PROVE  C \cap (Delivered \cup {m}) = {}
    <3>1. C \cap Delivered = {}
      BY <2>1 DEF SortIInv, RingsUnlisted
    <3>2. m \notin C
      BY <2>1, <3>1 DEF CyclicSet
    <3> QED
      BY <3>1, <3>2
  <2> QED
    BY <1>5, <2>1, SameGraph DEF RingsUnlisted
<1> QED
  BY <1>3, <1>5, <1>6, <1>7, <1>8

LEMMA VisitDoneStep == SortIInv /\ VisitDone => SortIInv'
<1> SUFFICES ASSUME SortIInv, VisitDone PROVE SortIInv'
  OBVIOUS
<1> DEFINE L == Len(stack)
           m == Top.mod
<1>1. /\ UNCHANGED <<deps, sortpc, found, offender>>
      /\ sortpc = "walk" /\ stack # <<>> /\ ~AtImport
      /\ marks' = [marks EXCEPT ![m] = "marked"]
      /\ sorted' = Append(sorted, m)
      /\ stack' = Returned
      /\ scan' = (IF L = 1 THEN scan + 1 ELSE scan)
  BY DEF VisitDone, ListTail, ScanNext
<1>2. SortTypeOK
  BY DEF SortIInv
<1>3. /\ N \in Nat /\ L \in Nat /\ L \in 1..L
      /\ \A i \in 1..L : stack[i].mod \in Mods /\ stack[i].next \in Nat \ {0}
      /\ \A x \in Mods : Len(deps[x]) \in Nat
  BY <1>1, <1>2, FinishedVisit, TypedState
<1>4. m \in Mods /\ m = stack[L].mod /\ IsOpen(m) /\ m \notin Delivered
  BY <1>1, FinishedVisit DEF Top
<1>5. /\ sorted' \in Seq(Mods) /\ Delivered' = Delivered \cup {m}
      /\ ImportsFirst' /\ ListedOnce' /\ RingsUnlisted'
  BY <1>1, FinishedVisit, ListGrows
<1>6. /\ stack' \in Seq(Frame) /\ Len(stack') = L - 1
      /\ \A i \in 1..(L - 1) : stack'[i].mod = stack[i].mod
      /\ \A i \in 1..(L - 2) : stack'[i] = stack[i]
      /\ L > 1 => stack'[L - 1].next = stack[L - 1].next + 1
  BY <1>1, <1>2, StackPop
<1> HIDE DEF L, m
<1>7. /\ marks' \in [Mods -> MarkStates]
      /\ \A x \in Mods : marks'[x] = "marked" <=> (marks[x] = "marked" \/ x = m)
      /\ \A x \in Mods : marks'[x] = "temp" <=> (marks[x] = "temp" /\ x # m)
  BY <1>1, <1>2, <1>4 DEF SortTypeOK, MarkStates
<1>8. \A i \in 1..(L - 1) : i \in 1..L /\ i # L
  BY <1>3
<1>9. \A i \in 1..L : i \in 1..(L - 1) \/ i = L
  BY <1>3
<1>10. found = TRUE /\ scan \in Mods
  BY <1>1 DEF SortIInv, ScanState, SortTypeOK
<1>11. SortTypeOK'
  <2>1. scan' \in 1..(N + 1)
    BY <1>1, <1>3, <1>10 DEF Mods
  <2>2. \A i \in 1..Len(stack') : stack'[i].mod \in Mods
    BY <1>3, <1>6, <1>8
  <2>3. sorted' \in Seq(Mods')
    BY <1>1, <1>5, SameGraph
  <2> QED
    BY <1>1, <1>2, <1>6, <1>7, <2>1, <2>2, <2>3, SameGraph DEF SortTypeOK
<1>12. MarksAreList'
  BY <1>1, <1>5, <1>7, SameGraph DEF SortIInv, MarksAreList, Marked
<1>13. OpenAreFrames'
  <2>1. ASSUME NEW x \in Mods
        PROVE  marks'[x] = "temp" <=> \E i \in 1..(L - 1) : stack'[i].mod = x
    <3>1. marks[x] = "temp" <=> \E i \in 1..L : stack[i].mod = x
      BY <1>1 DEF SortIInv, OpenAreFrames, IsOpen, L
    <3>2. ASSUME NEW i \in 1..(L - 1) PROVE stack[i].mod # m
      BY <1>3, <1>4, <1>8 DEF SortIInv, FramesDistinct, L
    <3> QED
      BY <1>4, <1>6, <1>7, <1>8, <1>9, <3>1, <3>2
  <2> QED
    BY <1>1, <1>6, <2>1, SameGraph DEF OpenAreFrames, IsOpen
<1>14. FramesDistinct'
  BY <1>6, <1>8 DEF SortIInv, FramesDistinct, L
<1>15. ImportsDone'
  <2>1. ASSUME NEW i \in 1..(L - 1)
        PROVE  /\ stack'[i].next <= Len(deps[stack'[i].mod]) + 1
               /\ \A k \in 1..(stack'[i].next - 1) :
                     marks'[deps[stack'[i].mod][k]] = "marked"
    <3> DEFINE f == stack[i]
    <3>1. i \in 1..L /\ f.mod \in Mods /\ f.next \in Nat \ {0}
      BY <1>3, <1>8
    <3>2. /\ f.next <= Len(deps[f.mod])
          /\ deps[f.mod][f.next] = stack[i + 1].mod
          /\ \A k \in 1..(f.next - 1) : marks[deps[f.mod][k]] = "marked"
      BY <3>1 DEF SortIInv, FramesLinked, ImportsDone, Marked, L
    <3>3. \A k \in 1..f.next : k \in 1..Len(deps[f.mod]) /\ deps[f.mod][k] \in Mods
      <4>1. \A k \in 1..f.next : k \in 1..Len(deps[f.mod])
        BY <1>3, <3>1, <3>2
      <4> QED
        BY <1>2, <3>1, <4>1 DEF SortTypeOK
    <3>4. \A k \in 1..(f.next - 1) : marks'[deps[f.mod][k]] = "marked"
      <4>1. \A k \in 1..(f.next - 1) : k \in 1..f.next
        BY <3>1
      <4> QED
        BY <1>7, <3>2, <3>3, <4>1
    <3>5. CASE i = L - 1
      <4>1. stack'[i].mod = f.mod /\ stack'[i].next = f.next + 1
        BY <1>3, <1>6, <3>5
      <4>2. marks'[deps[f.mod][f.next]] = "marked"
        BY <1>4, <1>7, <3>2, <3>5, <1>3
      <4>3. \A k \in 1..f.next : k \in 1..(f.next - 1) \/ k = f.next
        BY <3>1
      <4>4. stack'[i].next - 1 = f.next
        BY <3>1, <4>1
      <4>5. stack'[i].next <= Len(deps[f.mod]) + 1
        BY <1>3, <3>1, <3>2, <4>1
      <4> QED
        BY <3>4, <4>1, <4>2, <4>3, <4>4, <4>5
    <3>6. CASE i # L - 1
      <4>1. i \in 1..(L - 2)
        BY <1>3, <3>6
      <4>2. f.next <= Len(deps[f.mod]) + 1
        BY <1>3, <3>1, <3>2
      <4> QED
        BY <1>6, <3>4, <4>1, <4>2
    <3> QED
      BY <3>5, <3>6
  <2> QED
    BY <1>1, <1>6, <2>1 DEF ImportsDone, Marked
<1>16. FramesLinked'
  <2>1. ASSUME NEW i \in 1..(L - 2)
        PROVE  /\ stack'[i] = stack[i] /\ stack'[i + 1].mod = stack[i + 1].mod
               /\ i \in 1..(L - 1)
    <3>1. i + 1 \in 1..(L - 1) /\ i \in 1..(L - 1)
      BY <1>3
    <3> QED
      BY <1>6, <3>1
  <2>2. Len(stack') - 1 = L - 2
    BY <1>3, <1>6
  <2>3. ASSUME NEW i \in 1..(L - 2)
        PROVE  /\ stack'[i].next <= Len(deps[stack'[i].mod])
               /\ deps[stack'[i].mod][stack'[i].next] = stack'[i + 1].mod
    BY <2>1 DEF SortIInv, FramesLinked, L
  <2> QED
    BY <1>1, <2>2, <2>3 DEF FramesLinked
<1>17. ScanState' /\ CycleIsReal'
  <2>1. stack' # <<>> => L # 1
    <3>1. L = 1 => Len(stack') = 0
      BY <1>6
    <3> QED
      BY <1>6, <3>1, EmptySeq
  <2> QED
    BY <1>1, <1>10, <2>1, SameGraph DEF ScanState, CycleIsReal
<1> QED
  BY <1>5, <1>11, <1>12, <1>13, <1>14, <1>15, <1>16, <1>17 DEF SortIInv

-----------------------------------------------------------------------------
(* Every step of the specification preserves the invariant.                *)
LEMMA SortNextPreserves == SortIInv /\ [SortNext]_sortVars => SortIInv'
<1> SUFFICES ASSUME SortIInv, [SortNext]_sortVars PROVE SortIInv'
  OBVIOUS
<1>1. CASE BeginResolve
  BY <1>1, BeginResolveStep
<1>2. CASE ScanMarked
  BY <1>2, ScanMarkedStep
<1>3. CASE ScanVisit
  BY <1>3, ScanVisitStep
<1>4. CASE ScanEnd
  BY <1>4, ScanEndStep
<1>5. CASE ImportMarked
  BY <1>5, ImportMarkedStep
<1>6. CASE ImportVisit
  BY <1>6, ImportVisitStep
<1>7. CASE ImportOpen
  BY <1>7, ImportOpenStep
<1>8. CASE VisitDone
  BY <1>8, VisitDoneStep
<1>9. CASE UNCHANGED sortVars
  <2>1. SortTypeOK'
    BY <1>9, SameGraph DEF SortIInv, SortTypeOK, sortVars
  <2>2. ScanState' /\ CycleIsReal'
    BY <1>9, SameGraph DEF SortIInv, ScanState, NotStarted, CycleIsReal, Marked, sortVars
  <2>3. MarksAreList' /\ OpenAreFrames'
    BY <1>9, SameGraph DEF SortIInv, MarksAreList, OpenAreFrames, Marked, IsOpen,
       Delivered, sortVars
  <2>4. FramesDistinct' /\ ImportsDone' /\ FramesLinked'
    BY <1>9 DEF SortIInv, FramesDistinct, ImportsDone, FramesLinked, Marked, sortVars
  <2> QED
    BY <1>9, <2>1, <2>2, <2>3, <2>4, SameList DEF SortIInv, sortVars
<1> QED
  BY <1>1, <1>2, <1>3, <1>4, <1>5, <1>6, <1>7, <1>8, <1>9
     DEF SortNext, Resolve, SortDone

(* The inductive invariant holds in every state of every compilation.      *)
LEMMA SortInductive == SortSpec => []SortIInv
<1>1. SortInit => SortIInv
  BY InitialStates
<1>2. SortIInv /\ [SortNext]_sortVars => SortIInv'
  BY SortNextPreserves
<1> QED
  BY <1>1, <1>2, PTL DEF SortSpec

(* Whatever the imports are, the walk of compiler_resolve_dependencies()   *)
(* keeps to its types, and in the sorted list each module stands after     *)
(* everything it imports, and stands there once: the analysis reaches no   *)
(* module before its imports.                                              *)
THEOREM SortedInOrder == SortSpec => []SortInv
<1>1. SortIInv => SortInv
  BY DEF SortIInv, SortInv
<1> QED
  BY <1>1, SortInductive, PTL

(* When the sort has succeeded the list holds every module.                *)
LEMMA AllAreSorted == SortIInv => SortedIsComplete
<1> SUFFICES ASSUME SortIInv, sortpc = "sorted" PROVE Delivered = Mods
  BY DEF SortedIsComplete
<1>1. \A m \in Mods : m \in Delivered
  BY DEF SortIInv, ScanState, MarksAreList
<1>2. Delivered \subseteq Mods
  BY TypedState DEF SortIInv, Delivered
<1> QED
  BY <1>1, <1>2

(* Success means every module is listed and no ring was overlooked; a      *)
(* reported cycle is a ring through the reported module.                   *)
THEOREM VerdictIsRight == SortSpec => [](SortedIsComplete /\ NoCycleOverlooked /\ CycleIsReal)
<1>1. SortIInv => SortedIsComplete
  BY AllAreSorted
<1>2. SortIInv => NoCycleOverlooked
  <2> SUFFICES ASSUME SortIInv, sortpc = "sorted", NEW C \in SUBSET Mods, CyclicSet(C)
               PROVE  FALSE
    BY DEF NoCycleOverlooked
  <2>1. Delivered = Mods
    BY <1>1 DEF SortedIsComplete
  <2>2. C \cap Delivered = {} /\ C # {}
    BY DEF SortIInv, RingsUnlisted, CyclicSet
  <2> QED
    BY <2>1, <2>2
<1>3. SortIInv => CycleIsReal
  BY DEF SortIInv
<1> QED
  BY <1>1, <1>2, <1>3, SortInductive, PTL

(* The depth first walk, with its marks, its passes and its open visits,   *)
(* does what DependencyOrder promises: every step delivers one module that *)
(* is ready, ends the delivery, refuses a ring, or is invisible.           *)
THEOREM WalkImplementsPromise == SortSpec => ImplementsPromise
<1>1. SortInit => Promise!OrderInit
  <2> SUFFICES ASSUME SortInit PROVE Promise!OrderInit
    OBVIOUS
  <2>1. /\ deps \in Seq(Seq(Nat \ {0}))
        /\ \A m \in Mods : deps[m] \in Seq(Mods)
    BY GraphsAreTyped DEF SortInit
  <2>2. \A m \in Mods : {deps[m][k] : k \in 1..Len(deps[m])} \subseteq Mods
    BY <2>1, ElementOfSeq
  <2> QED
    BY <2>1, <2>2 DEF Promise!OrderInit, Promise!Mods, Promise!Imports, SortInit,
       NotStarted, Mods, N
<1>2. SortIInv /\ [SortNext]_sortVars => [Promise!OrderNext]_(Promise!depVars)
  <2> SUFFICES ASSUME SortIInv, [SortNext]_sortVars
               PROVE  [Promise!OrderNext]_(Promise!depVars)
    OBVIOUS
  <2> USE DEF Promise!depVars
  <2>1. CASE BeginResolve
    BY <2>1 DEF BeginResolve, SortIInv, ScanState, NotStarted
  <2>2. CASE ScanMarked \/ ScanVisit \/ ImportMarked \/ ImportVisit
    BY <2>2 DEF ScanMarked, ScanVisit, ImportMarked, ImportVisit
  <2>3. CASE ScanEnd
    <3>1. CASE found
      BY <2>3, <3>1 DEF ScanEnd
    <3>2. CASE ~found
      <4>1. sortpc = "walk" /\ sortpc' = "sorted" /\ UNCHANGED <<deps, sorted>>
        BY <2>3, <3>2 DEF ScanEnd
      <4>2. Mods \subseteq Delivered
        <5>1. scan = N + 1 /\ stack = <<>> /\ N \in Nat
          BY <2>3, TypedState DEF ScanEnd, PassOver, SortIInv, SortTypeOK, Mods
        <5> QED
          BY <3>2, <4>1, <5>1 DEF SortIInv, ScanState, MarksAreList, Mods
      <4> QED
        BY <4>1, <4>2 DEF Promise!OrderNext, Promise!Finish, Promise!Mods,
           Promise!Delivered, Mods, N, Delivered
    <3> QED
      BY <3>1, <3>2
  <2>4. CASE ImportOpen
    <3>1. /\ sortpc = "walk" /\ sortpc' = "cyclic" /\ UNCHANGED <<deps, sorted>>
          /\ AtImport /\ IsOpen(Import)
      BY <2>4 DEF ImportOpen
    <3>2. \E C \in SUBSET Mods : CyclicSet(C)
      BY <3>1, OpenVisitsRing
    <3> QED
      BY <3>1, <3>2 DEF Promise!OrderNext, Promise!Refuse, Promise!Mods,
         Promise!CyclicSet, Promise!Imports, Mods, N, CyclicSet, Imports
  <2>5. CASE VisitDone
    <3>1. /\ sortpc = "walk" /\ sortpc' = "walk" /\ UNCHANGED deps
          /\ sorted' = Append(sorted, Top.mod) /\ stack # <<>> /\ ~AtImport
      BY <2>5 DEF VisitDone, ListTail
    <3>2. /\ Top.mod \in Mods /\ Top.mod \notin Delivered
          /\ Imports(Top.mod) \subseteq Delivered
      BY <3>1, FinishedVisit
    <3>3. Promise!Deliver(Top.mod)
      BY <3>1, <3>2 DEF Promise!Deliver, Promise!Delivered, Promise!Imports,
         Delivered, Imports
    <3> QED
      BY <3>2, <3>3 DEF Promise!OrderNext, Promise!Mods, Mods, N
  <2>6. CASE UNCHANGED sortVars
    BY <2>6 DEF sortVars
  <2> QED
    BY <2>1, <2>2, <2>3, <2>4, <2>5, <2>6 DEF SortNext, Resolve, SortDone
<1> QED
  BY <1>1, <1>2, SortInductive, PTL DEF SortSpec, ImplementsPromise, Promise!OrderSpec
=============================================================================
