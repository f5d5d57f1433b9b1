---------------------------- MODULE FunctionRuns ----------------------------
(***************************************************************************)
(* What the blocks of a function promise: the properties of FunctionBlocks *)
(* against the meaning of the source (ControlFlow).                        *)
(***************************************************************************)
EXTENDS FunctionBlocks, ControlFlow

(* What is generated does what the source says, in its order and to the    *)
(* end: every run of the blocks is a run of the statements.  The functions *)
(* that return in a loop, go on after a return (see ReturnEndsFunction) or *)
(* have a match of one case, which the block before it jumps over, are the *)
(* exceptions.                                                             *)
RunFollowsSource ==
    stage = "returned" /\ Sound(fun) =>
        \E r \in Runs(fun.body, MaxTurns) : r.events = trace

(* A plain function comes to its return block: no jump leads out of a loop *)
(* that has taken its turns back into it.                                  *)
RunEnds == Plain(fun) ~> (stage = "returned")

-----------------------------------------------------------------------------
(* What comments and the documentation say, and the code does not do.      *)

(* After the value of a return is written, "jump to the return"            *)
(* (rir_process.c:51): nothing runs after it.                              *)
ReturnEndsFunction ==
    \A i \in DOMAIN trace : trace[i][1] = "return" => i = Len(trace)

=============================================================================
