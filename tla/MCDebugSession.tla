--------------------------- MODULE MCDebugSession ---------------------------
(* Values for the model-checking runs of DebugSession.                      *)
EXTENDS DebugSession

CONSTANTS f1, d1, chunk, nofile, ev1, ev2

OneDebugger == {d1}
AllUses     == [d \in OneDebugger |-> Operations]
TwoEvents   == {ev1, ev2}
OneFile     == {f1}
OneChunk    == {chunk}
None        == {}
OneLine     == {1}
TwoLines    == {1, 2}
=============================================================================
