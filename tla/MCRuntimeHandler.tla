-------------------------- MODULE MCRuntimeHandler --------------------------
(* Values for the constants of RuntimeHandler: two clients, two threads     *)
(* that have ids of their own or share one, as they may if they do not      *)
(* overlap.                                                                 *)
EXTENDS RuntimeHandler

CONSTANTS t1, t2, main, debugger

TwoThreads == {t1, t2}
TwoIds == [t \in {t1, t2} |-> IF t = t1 THEN 4 ELSE 8]
OneId == [t \in {t1, t2} |-> 4]
OnlyT1 == {t1}
OnlyT2 == {t2}
None == {}
OneClient == {main}
BothClients == {main, debugger}
OneFile == {"a.lua"}

Runtime == {"run_code", "load_file", "stop_program", "running", "destroy"}
Disciplined == [c \in {main, debugger} |->
  IF c = main THEN Runtime \cup {"run_execution", "handles", "join"}
              ELSE {"handles", "stop"}]
Alone == [c \in {main} |-> {"run_code", "stop_program", "run_execution", "handles",
                             "stop", "detach", "destroy"}]
=============================================================================
