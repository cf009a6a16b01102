--------------------------- MODULE MCExecutionFlow ---------------------------
(* Values for the model-checking runs of ExecutionFlow.                      *)
EXTENDS ExecutionFlow, TLC

CONSTANTS f1, d1, d2, chunk, nofile, ev1

OneDebugger  == {d1}
TwoDebuggers == {d1, d2}
OneFile      == {f1}
OneEvent     == {ev1}
OneChunk     == {chunk}
None         == {}
OneLine      == {1}
Stepping == {"block", "resume", "step"}
Stepper  == [d \in OneDebugger |-> Stepping]
\* One thread steps and counts, the other edits, looks on and resumes.
StepperAndEditor ==
  d1 :> {"block", "step", "set_count"}
  @@ d2 :> {"resume", "read", "set_name", "breakpoints", "events"}
TwoLines     == {1, 2}
=============================================================================
