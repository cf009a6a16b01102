---------------------------- MODULE MCHookHandler ----------------------------
(* Values for the constants of HookHandler.                                 *)
EXTENDS HookHandler

CONSTANTS l1, l2, c1

TwoLua == {l1, l2}
OneClient == {c1}
None == {}
TwoObjects == {1, 2}
TwoEvents == {"call", "line"}
OneEvent == {"line"}
TwoCounts == {3, 10}
Anything == {"exception", "other"}
\* l2 shares its handler with the client.
Shared == [h \in {l1, l2} |-> IF h = l1 THEN {l1} ELSE {l2, c1}]
\* A callback sets and removes the hooks of other objects, not its own.
OthersEdited == [o \in {1, 2} |-> {1, 2} \ {o}]
=============================================================================
