--------------------------- MODULE PauseContract ---------------------------
(***************************************************************************)
(* What pausing promises to one debugger: the program pauses, shows one    *)
(* position for the whole of the pause, and goes on once, and only after a *)
(* command given during this very pause.                                   *)
(***************************************************************************)
CONSTANT Positions

VARIABLES mode, granted, shown

vars == <<mode, granted, shown>>

TypeOK == /\ mode \in {"running", "paused"}
          /\ granted \in BOOLEAN
          /\ shown \in Positions

Init == mode = "running" /\ ~granted /\ shown \in Positions

\* The program is at another position, or is about to pause at it.
Run == /\ mode = "running" /\ ~granted
       /\ shown' \in Positions
       /\ UNCHANGED <<mode, granted>>

Pause == /\ mode = "running" /\ ~granted
         /\ mode' = "paused"
         /\ UNCHANGED <<granted, shown>>

Command == /\ mode = "paused" /\ ~granted
           /\ granted' = TRUE
           /\ UNCHANGED <<mode, shown>>

Continue == /\ mode = "paused" /\ granted
            /\ mode' = "running" /\ granted' = FALSE
            /\ UNCHANGED shown

Next == Run \/ Pause \/ Command \/ Continue

Spec == Init /\ [][Next]_vars

\* A command is always obeyed.
FairSpec == Spec /\ WF_vars(Continue)
=============================================================================
