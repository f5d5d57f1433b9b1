-------------------------- MODULE DependencyOrder --------------------------
(***************************************************************************)
(* What compiler_resolve_dependencies() promises the stages after it,      *)
(* however it goes about it: the modules come out one at a time, each      *)
(* after everything it imports, until all of them are out; or the set of   *)
(* modules is refused, and then some modules import each other in a ring.  *)
(***************************************************************************)
EXTENDS Naturals, Sequences

VARIABLES
    deps,     \* deps[m] is the sequence of modules that module m imports
    sorted,   \* the modules delivered so far, in order of delivery
    outcome   \* "working", "sorted" or "cyclic"

depVars == <<deps, sorted, outcome>>

Mods == 1..Len(deps)

(* The modules that m imports. *)
Imports(m) == {deps[m][k] : k \in 1..Len(deps[m])}

(* A set of modules none of which can ever come first: every member        *)
(* imports a member.                                                       *)
CyclicSet(C) == C # {} /\ \A m \in C : \E d \in Imports(m) : d \in C

Delivered == {sorted[p] : p \in 1..Len(sorted)}

OrderInit ==
    /\ deps \in Seq(Seq(Nat \ {0}))
    /\ \A m \in Mods : Imports(m) \subseteq Mods
    /\ sorted = <<>>
    /\ outcome = "working"

Deliver(m) ==
    /\ outcome = "working"
    /\ m \notin Delivered
    /\ Imports(m) \subseteq Delivered
    /\ sorted' = Append(sorted, m)
    /\ UNCHANGED <<deps, outcome>>

Finish ==
    /\ outcome = "working"
    /\ Mods \subseteq Delivered
    /\ outcome' = "sorted"
    /\ UNCHANGED <<deps, sorted>>

Refuse ==
    /\ outcome = "working"
    /\ \E C \in SUBSET Mods : CyclicSet(C)
    /\ outcome' = "cyclic"
    /\ UNCHANGED <<deps, sorted>>

OrderNext == Finish \/ Refuse \/ \E m \in Mods : Deliver(m)

OrderSpec == OrderInit /\ [][OrderNext]_depVars
=============================================================================
