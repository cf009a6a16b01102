---------------------------- MODULE DebugSession ----------------------------
(***************************************************************************)
(* One debugger thread driving an execution_flow through the two events it *)
(* registers: it asks the thread to pause or sets breakpoints while it     *)
(* runs, waits for the pausing event, looks and edits, gives one command,  *)
(* and waits for the resuming event before it counts on the next pause.    *)
(* This is the client the event registration exists for; it shows under    *)
(* which protocol the pauses of ExecutionFlow are reliable.                *)
(***************************************************************************)
EXTENDS ExecutionFlow

CONSTANTS Client, PauseEvent, ResumeEvent

ASSUME SessionAssumption ==
  /\ Debuggers = {Client} /\ Uses[Client] = Operations
  /\ UserEvents = {PauseEvent, ResumeEvent} /\ PauseEvent # ResumeEvent

VARIABLE phase

sessionVars == <<vars, phase>>

Phases == {"setup", "running", "paused", "leaving"}

SessionTypeOK == TypeOK /\ phase \in Phases

SessionInit == Init /\ phase = "setup"

Take(event, from, to) ==
  /\ phase = from /\ call[Client] = "idle"
  /\ event \in signalled
  /\ signalled' = signalled \ {event}
  /\ phase' = to
  /\ UNCHANGED <<luaVars, stepVars, breakpoints, eventSets, call, argVars>>

Setup ==
  /\ phase = "setup" /\ phase' = "running"
  /\ RegisterEvents(Client, {PauseEvent}, {ResumeEvent})

\* While the program runs the client asks for a pause or edits breakpoints.
AskForPause ==
  /\ phase = "running"
  /\ BlockExecution(Client) \/ Edit(Client)
  /\ UNCHANGED phase

WaitPause == Take(PauseEvent, "running", "paused")

Inspect ==
  /\ phase = "paused"
  /\ \/ ReadTest(Client) \/ Edit(Client)
     \/ \E i \in 0..(MaxLayer - 1) : SetNameTest(Client, i)
  /\ UNCHANGED phase

GiveCommand ==
  /\ phase = "paused" /\ phase' = "leaving"
  /\ \/ ResumeExecution(Client)
     \/ \E st \in StepTypes \ {"none"} : StepExecution(Client, st)

WaitResume == Take(ResumeEvent, "leaving", "running")

ClientNext ==
  \/ Setup \/ AskForPause \/ WaitPause \/ Inspect \/ GiveCommand \/ WaitResume
  \/ CallStep(Client) /\ UNCHANGED phase

SessionNext == (LuaNext /\ UNCHANGED phase) \/ ClientNext

\* The client finishes the calls it begins and does not for ever prefer another
\* request to waiting for its event; it need not ever begin a call.
SessionFairness ==
  /\ WF_sessionVars((\E p \in Positions : LuaStep("line", p) \/ LuaCall(p)) /\ UNCHANGED phase)
  /\ WF_sessionVars((Announce \/ Park \/ WakeUp \/ Resumed) /\ UNCHANGED phase)
  /\ WF_sessionVars(CallStep(Client) /\ UNCHANGED phase)
  /\ SF_sessionVars(WaitPause \/ WaitResume)

SessionSpec == SessionInit /\ [][SessionNext]_sessionVars
FairSessionSpec == SessionSpec /\ SessionFairness

-----------------------------------------------------------------------------
(* Properties.                                                             *)

InPause == lua \in {"announced", "waiting", "woken"}

Granted == lua = "woken" \/ "execution_block" \in signalled

Contract == INSTANCE PauseContract WITH
  mode    <- IF InPause THEN "paused" ELSE "running",
  granted <- Granted,
  shown   <- pos

\* Under this protocol the auto-reset events lose nothing and leave nothing
\* over: every pause lasts until a command given during it and ends once.
ImplementsContract == Contract!Spec

\* The same with liveness: a command is followed by the program going on.
ImplementsFairContract == Contract!FairSpec

\* No signal is left in _execution_block_event when the program runs: a left
\* over one would let the next pause pass straight through.
NoLeftoverSignal == lua \in {"run", "block"} => "execution_block" \notin signalled

\* A getter that has tested the flag still reads a paused thread's field, and
\* set_function_name finds the entry whose index it has tested.
ReadsHold ==
  /\ call[Client] = "read" => ~executing
  /\ call[Client] = "set_name" => ~executing /\ name_idx[Client] < function_layer

\* A pause the client asked for comes, and the client gets to know.
PauseRequestServed ==
  (phase = "running" /\ do_block /\ stepping = "none" /\ call[Client] = "idle")
    ~> phase = "paused"
=============================================================================
