----------------------------- MODULE ModuleSort -----------------------------
(***************************************************************************)
(* compiler_resolve_dependencies() and compiler_visit_unmarked_module() of *)
(* src/compiler.c: a depth first walk over the import graph that appends a *)
(* module to the compiler's sorted list after everything it imports, and   *)
(* gives up at the first import of a module whose visit is still open.     *)
(*                                                                         *)
(* Modules are the positions of compiler.modules.  The recursion of the    *)
(* visit is a stack of frames, the innermost last: `mod' is the module     *)
(* being visited and `next' the position in its dependencies of the import *)
(* the frame is at.  One step is one comparison of the C code that can     *)
(* change the walk.                                                        *)
(***************************************************************************)
EXTENDS Naturals, Sequences

CONSTANTS
    MaxModules,   \* bound: modules of one compilation
    MaxImports    \* bound: imports of one module

ASSUME BoundsAssumption == MaxModules \in Nat /\ MaxImports \in Nat

VARIABLES
    deps,      \* module.dependencies of every module, set before the walk
    sortpc,    \* "idle", "walk", "sorted" (returned true) or "cyclic"
    marks,     \* the array of mark_states
    scan,      \* the index i of the outer loop
    found,     \* the flag unmarked_found of the outer loop
    stack,     \* the open calls of compiler_visit_unmarked_module
    sorted,    \* compiler.sorted_modules
    offender   \* the module the cycle error is reported at, 0 for none

sortVars == <<deps, sortpc, marks, scan, found, stack, sorted, offender>>

N == Len(deps)
Mods == 1..N

MarkStates == {"unmarked", "temp", "marked"}
Frame == [mod : Nat \ {0}, next : Nat \ {0}]

(* The dependency arrays of a compilation of at most MaxModules modules.   *)
ImportGraphs ==
    UNION {[1..n -> UNION {[1..k -> 1..n] : k \in 0..MaxImports}] :
              n \in 0..MaxModules}

NotStarted ==
    /\ sortpc = "idle"
    /\ marks = <<>>
    /\ scan = 1
    /\ found = FALSE
    /\ stack = <<>>
    /\ sorted = <<>>
    /\ offender = 0

SortInit == deps \in ImportGraphs /\ NotStarted

-----------------------------------------------------------------------------
(* A mutation of Marked: an open visit counts as done.                     *)
MarkedOrOpen(m) == marks[m] # "unmarked"

(* A mutation of ListTail: a finished module is put in front.              *)
ListHead(m) == <<m>> \o sorted

(* The comparisons of a mark, STATE_MARKED and STATE_TEMP_MARK.            *)
Marked(m) == marks[m] = "marked"
IsOpen(m) == marks[m] = "temp"

(* rf_ilist_add_tail of the finished module.                               *)
ListTail(m) == Append(sorted, m)

(* The outer loop has been through the whole array of modules.             *)
PassOver == scan \notin Mods

(* Another pass starts at the first module when this one visited any.      *)
Restart == IF found THEN 1 ELSE scan

Top == stack[Len(stack)]
Open(m) == [mod |-> m, next |-> 1]

(* The list head is emptied and the marks are allocated zeroed.            *)
BeginResolve ==
    /\ sortpc = "idle"
    /\ sortpc' = "walk"
    /\ marks' = [m \in Mods |-> "unmarked"]
    /\ sorted' = <<>>
    /\ UNCHANGED <<deps, scan, found, stack, offender>>

(* The outer loop steps over a module that is marked already.              *)
ScanMarked ==
    /\ sortpc = "walk" /\ stack = <<>> /\ ~PassOver
    /\ Marked(scan)
    /\ scan' = scan + 1
    /\ UNCHANGED <<deps, sortpc, marks, found, stack, sorted, offender>>

(* The outer loop visits a module that is not marked.                      *)
ScanVisit ==
    /\ sortpc = "walk" /\ stack = <<>> /\ ~PassOver
    /\ ~Marked(scan)
    /\ found' = TRUE
    /\ marks' = [marks EXCEPT ![scan] = "temp"]
    /\ stack' = <<Open(scan)>>
    /\ UNCHANGED <<deps, sortpc, scan, sorted, offender>>

(* A mutation of ScanEnd: the flag is not reset for the next pass.         *)
ScanEndKeepsFlag ==
    /\ sortpc = "walk" /\ stack = <<>> /\ PassOver
    /\ sortpc' = IF found THEN "walk" ELSE "sorted"
    /\ scan' = Restart
    /\ UNCHANGED <<deps, marks, found, stack, sorted, offender>>

(* The pass over all modules is over: another one if it visited anything,  *)
(* else the list is complete.                                              *)
ScanEnd ==
    /\ sortpc = "walk" /\ stack = <<>> /\ PassOver
    /\ sortpc' = IF found THEN "walk" ELSE "sorted"
    /\ scan' = Restart
    /\ found' = FALSE
    /\ UNCHANGED <<deps, marks, stack, sorted, offender>>

(* The import the innermost visit is at.                                   *)
AtImport == stack # <<>> /\ Top.next <= Len(deps[Top.mod])
Import == deps[Top.mod][Top.next]

(* The imported module is marked: its visit returns true at once.          *)
ImportMarked ==
    /\ sortpc = "walk" /\ AtImport
    /\ Marked(Import)
    /\ stack' = [stack EXCEPT ![Len(stack)].next = @ + 1]
    /\ UNCHANGED <<deps, sortpc, marks, scan, found, sorted, offender>>

(* The imported module is unmarked: its visit begins.                      *)
ImportVisit ==
    /\ sortpc = "walk" /\ AtImport
    /\ ~Marked(Import) /\ ~IsOpen(Import)
    /\ marks' = [marks EXCEPT ![Import] = "temp"]
    /\ stack' = Append(stack, Open(Import))
    /\ UNCHANGED <<deps, sortpc, scan, found, sorted, offender>>

(* The imported module is being visited further up: the error is added to  *)
(* its front and every open call returns false.                            *)
ImportOpen ==
    /\ sortpc = "walk" /\ AtImport
    /\ IsOpen(Import)
    /\ sortpc' = "cyclic"
    /\ offender' = Import
    /\ stack' = <<>>
    /\ UNCHANGED <<deps, marks, scan, found, sorted>>

(* Where the outer loop, or the frame below, continues after a visit.      *)
ScanNext == IF Len(stack) = 1 THEN scan + 1 ELSE scan
Returned ==
    [k \in 1..(Len(stack) - 1) |->
        IF k = Len(stack) - 1 THEN [stack[k] EXCEPT !.next = @ + 1]
                              ELSE stack[k]]

(* All imports are done: the module is marked, put at the end of the list, *)
(* and its visit returns true.                                             *)
VisitDone ==
    /\ sortpc = "walk" /\ stack # <<>> /\ ~AtImport
    /\ marks' = [marks EXCEPT ![Top.mod] = "marked"]
    /\ sorted' = ListTail(Top.mod)
    /\ stack' = Returned
    /\ scan' = ScanNext
    /\ UNCHANGED <<deps, sortpc, found, offender>>

Resolve ==
    \/ ScanMarked \/ ScanVisit \/ ScanEnd
    \/ ImportMarked \/ ImportVisit \/ ImportOpen
    \/ VisitDone

SortDone == sortpc \in {"sorted", "cyclic"} /\ UNCHANGED sortVars

SortNext == BeginResolve \/ Resolve \/ SortDone

(* The walk is one thread of straight C code: it never just stops.         *)
SortSpec == SortInit /\ [][SortNext]_sortVars /\ WF_sortVars(BeginResolve \/ Resolve)

-----------------------------------------------------------------------------
SortTypeOK ==
    /\ deps \in Seq(Seq(Nat \ {0}))
    /\ \A m \in Mods : \A k \in 1..Len(deps[m]) : deps[m][k] \in Mods
    /\ sortpc \in {"idle", "walk", "sorted", "cyclic"}
    /\ sortpc # "idle" => marks \in [Mods -> MarkStates]
    /\ scan \in 1..(N + 1)
    /\ found \in BOOLEAN
    /\ stack \in Seq(Frame)
    /\ \A i \in 1..Len(stack) : stack[i].mod \in Mods
    /\ sorted \in Seq(Mods)
    /\ offender \in 0..N

Imports(m) == {deps[m][k] : k \in 1..Len(deps[m])}
Delivered == {sorted[p] : p \in 1..Len(sorted)}
CyclicSet(C) == C # {} /\ \A m \in C : \E d \in Imports(m) : d \in C

(* Analysis, RIR creation and symbol lookup all take a module's imports to *)
(* be finished when the module is reached: every import of a module of the *)
(* sorted list stands before it (compiler.c:270-278).                      *)
ImportsFirst ==
    \A p \in 1..Len(sorted) : \A d \in Imports(sorted[p]) :
        \E q \in 1..(p - 1) : sorted[q] = d

(* No module is put in the intrusive list twice, which would tie its link  *)
(* into a loop and make every walk over the list endless.                  *)
ListedOnce ==
    \A p, q \in 1..Len(sorted) : sorted[p] = sorted[q] => p = q

(* The list that compiler_resolve_dependencies() builds is in order, at    *)
(* every step of the walk and not at its end only.                         *)
SortInv == SortTypeOK /\ ImportsFirst /\ ListedOnce

(* When the sort reports success the list holds every module, although the *)
(* outer loop only ever stops after a pass that visited nothing.           *)
SortedIsComplete == sortpc = "sorted" => Delivered = Mods

(* A cycle is reported only when the modules on the open visits really     *)
(* import each other in a ring through the reported module; a module that  *)
(* is merely imported along two paths is not taken for one.                *)
CycleIsReal ==
    sortpc = "cyclic" =>
        \E C \in SUBSET Mods : offender \in C /\ CyclicSet(C)

(* Conversely, when the sort succeeds no ring was overlooked.              *)
NoCycleOverlooked ==
    sortpc = "sorted" => \A C \in SUBSET Mods : ~CyclicSet(C)

(* The walk ends, whatever the import graph, with a list or an error.      *)
ResolveTerminates == <>(sortpc \in {"sorted", "cyclic"})

(* The depth first walk implements the promise of DependencyOrder.         *)
Promise == INSTANCE DependencyOrder WITH
    outcome <- IF sortpc \in {"idle", "walk"} THEN "working" ELSE sortpc

ImplementsPromise == Promise!OrderSpec
=============================================================================
