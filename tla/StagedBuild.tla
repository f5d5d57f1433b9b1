---------------------------- MODULE StagedBuild ----------------------------
(***************************************************************************)
(* What the compiler driver promises about the order of its work, whatever *)
(* the phases it is made of: modules are declared until the first one is   *)
(* worked on; from then on every module climbs from parsed to analyzed to  *)
(* lowered, never before each module it imports is a step further; and the *)
(* build succeeds only when every module has climbed to the top.           *)
(***************************************************************************)
EXTENDS Naturals, Sequences

VARIABLES
    imports,  \* imports[m] is the sequence of modules that module m imports
    stage,    \* stage[m]: Parsed, Analyzed or Lowered
    outcome   \* "open", "built" or "refused"

buildVars == <<imports, stage, outcome>>

Parsed == 0
Analyzed == 1
Lowered == 2

Built == DOMAIN stage
Needs(m) == {imports[m][k] : k \in DOMAIN imports[m]}

BuildInit == imports = <<>> /\ stage = <<>> /\ outcome = "open"

(* More modules and imports become known while no module is worked on, or  *)
(* what is declared is refused.  A module read from a RIR file comes       *)
(* lowered.                                                                *)
Declare ==
    /\ outcome = "open"
    /\ outcome' \in {"open", "refused"}
    /\ \A m \in Built : stage[m] # Analyzed
    /\ Len(stage') >= Len(stage)
    /\ Len(imports') = Len(stage')
    /\ \A m \in Built : stage'[m] = stage[m]
    /\ \A m \in DOMAIN stage' \ Built : stage'[m] \in {Parsed, Lowered}

(* A module takes its next step after all its imports took it.             *)
Climb(m) ==
    /\ outcome = "open"
    /\ stage[m] # Lowered
    /\ \A d \in Needs(m) : stage[d] > stage[m]
    /\ stage' = [stage EXCEPT ![m] = @ + 1]
    /\ UNCHANGED <<imports, outcome>>

Close ==
    /\ outcome = "open"
    /\ outcome' \in {"built", "refused"}
    /\ outcome' = "built" => \A m \in Built : stage[m] = Lowered
    /\ UNCHANGED <<imports, stage>>

BuildNext == Declare \/ Close \/ \E m \in Built : Climb(m)

BuildSpec == BuildInit /\ [][BuildNext]_buildVars
=============================================================================
