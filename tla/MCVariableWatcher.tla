-------------------------- MODULE MCVariableWatcher --------------------------
(* Values for the constants of VariableWatcher.                             *)
EXTENDS VariableWatcher, TLC

CONSTANTS c1, c2, g, lib, x

TwoClients == {c1, c2}
TwoGlobals == {g, lib}
OnlyLib == {lib}
OneName == {x}
TwoValues == {Nil, 0}
\* c1 locks, reads and fills the ignore list; c2 sets variables; both update.
Roles == [c \in {c1, c2} |-> Updates \cup
  (IF c = c1 THEN {"get", "lock", "updateIgnore", "clearIgnore"} ELSE Sets)]
=============================================================================
