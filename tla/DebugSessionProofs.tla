------------------------- MODULE DebugSessionProofs -------------------------
(***************************************************************************)
(* A client that keeps to the protocol of DebugSession gets the pauses     *)
(* PauseContract promises, for every program, set of files and bound.      *)
(***************************************************************************)
EXTENDS DebugSession, ExecutionFlowProofs

Armed == "execution_block" \in signalled
Told  == PauseEvent \in signalled

CommandCalls == {"resume_signal", "step_block", "step_wait", "step_arm", "step_type",
                 "step_layer", "step_line", "step_signal"}

\* The four ways thread, block event and pausing event fit together.
Free    == lua \in {"run", "block"} /\ ~Armed /\ ~Told
Waiting == lua \in {"announced", "waiting"} /\ ~Armed
Going   == ~Told /\ (lua = "woken" <=> ~Armed) /\ InPause

\* Where the client is in its protocol fixes what the events may hold.
Protocol ==
  /\ phase = "setup" =>
       /\ lua = "run" /\ signalled = {} /\ ~do_block /\ breakpoints = {}
       /\ call[Client] = "idle"
  /\ phase = "running" =>
       /\ Free \/ (Waiting /\ Told)
       /\ ResumeEvent \notin signalled /\ call[Client] \in {"idle", "block_none"}
  /\ phase = "paused" =>
       /\ Waiting /\ ~Told
       /\ ResumeEvent \notin signalled /\ call[Client] \in {"idle", "read", "set_name"}
  /\ phase = "leaving" =>
       \/ /\ call[Client] \in CommandCalls /\ Waiting /\ ~Told
          /\ ResumeEvent \notin signalled
       \/ /\ call[Client] = "idle" /\ Going
          /\ ResumeEvent \notin signalled
       \/ /\ call[Client] = "idle" /\ (Free \/ (Waiting /\ Told))
          /\ ResumeEvent \in signalled

\* The client's handles are where it put them, and no handle of the client is
\* one of the object's own.
Registered ==
  /\ "execution_block" \notin event_pausing \cup event_resuming
  /\ ResumeEvent \notin event_pausing /\ PauseEvent \notin event_resuming
  /\ phase # "setup" => PauseEvent \in event_pausing /\ ResumeEvent \in event_resuming

SInv == IInv /\ phase \in Phases /\ Protocol /\ Registered

LEMMA Handles ==
  /\ Client \in Debuggers /\ \A d \in Debuggers : d = Client
  /\ PauseEvent # ResumeEvent
  /\ {PauseEvent, ResumeEvent} \cap {"execution_block", "self_pause", "self_resume"} = {}
  BY ConstAssumption, SessionAssumption

LEMMA InitSInv == SessionInit => SInv
  <1> SUFFICES ASSUME SessionInit PROVE SInv
    OBVIOUS
  <1>1. IInv
    BY InitIInv DEF SessionInit
  <1>2. Protocol /\ Registered
    BY Handles DEF SessionInit, Init, Protocol, Registered
  <1> QED
    BY <1>1, <1>2 DEF SInv, SessionInit, Phases

\* The client's steps are calls any debugger may make, except that it takes the
\* events it waits for.
LEMMA SessionIInv ==
  ASSUME IInv, SessionNext
  PROVE  IInv'
  <1> USE Handles, SessionAssumption
  <1>1. CASE LuaNext
    BY <1>1, LuaIInv
  <1>2. ASSUME NEW e, NEW from, NEW to, Take(e, from, to)
        PROVE  IInv'
    BY <1>2 DEF Take, IInv, TypeOK, LayersCoverStack, StoppedPosition, FlagMeansParked,
      ChecksOfStepTypes, StepDrift, luaVars, stepVars, eventSets, argVars
  <1>3. CASE Setup
    <2>1. EditEvents(Client)
      BY <1>3 DEF Setup, EditEvents
    <2> QED
      BY <2>1, DebuggerIInv DEF DebuggerNext, Begin, Operations
  <1>4. CASE AskForPause
    BY <1>4, DebuggerIInv DEF AskForPause, DebuggerNext, Begin, Operations
  <1>5. CASE Inspect
    BY <1>5, DebuggerIInv DEF Inspect, DebuggerNext, Begin, Operations
  <1>6. CASE GiveCommand
    BY <1>6, DebuggerIInv DEF GiveCommand, DebuggerNext, Begin, Operations
  <1>7. CASE CallStep(Client)
    BY <1>7, DebuggerIInv DEF DebuggerNext
  <1> QED
    BY <1>1, <1>2, <1>3, <1>4, <1>5, <1>6, <1>7
    DEF SessionNext, ClientNext, WaitPause, WaitResume

\* A hook in the Lua thread leaves the events alone; without a request and
\* without breakpoints it does not stop.
LEMMA HookEffect ==
  ASSUME NEW p \in Positions, NEW ev, HookCb(ev, p), LuaUnchanged
  PROVE  /\ lua' \in {"run", "block"} /\ pos' = p
         /\ UNCHANGED <<call, do_block, breakpoints, event_pausing, event_resuming>>
         /\ ~do_block /\ breakpoints = {} => lua' = "run"
  BY DEF HookCb, LuaUnchanged, AtBreakpoint, stepVars, eventSets, argVars

\* What a step of the Lua thread does to the events.
LEMMA LuaEffect ==
  ASSUME IInv, LuaNext
  PROVE  /\ UNCHANGED <<call, do_block, breakpoints, event_pausing, event_resuming>>
         /\ pos' \in Positions
         /\ \/ /\ lua = "run" /\ lua' \in {"run", "block"} /\ signalled' = signalled
               /\ ~do_block /\ breakpoints = {} => lua' = "run"
            \/ /\ lua = "block" /\ lua' = "announced" /\ pos' = pos
               /\ signalled' = signalled \cup event_pausing
            \/ /\ lua = "announced" /\ lua' = "waiting" /\ signalled' = signalled
               /\ pos' = pos
            \/ /\ lua = "waiting" /\ Armed /\ lua' = "woken" /\ pos' = pos
               /\ signalled' = signalled \ {"execution_block"}
            \/ /\ lua = "woken" /\ lua' = "run" /\ pos' = pos
               /\ signalled' = signalled \cup event_resuming
  <1> USE DEF IInv, TypeOK
  <1>1. ASSUME NEW p \in Positions, LuaCall(p) \/ LuaTailCall(p) \/ LuaReturn(p)
        PROVE  /\ lua = "run" /\ lua' \in {"run", "block"} /\ signalled' = signalled
               /\ ~do_block /\ breakpoints = {} => lua' = "run"
               /\ UNCHANGED <<call, do_block, breakpoints, event_pausing, event_resuming>>
               /\ pos' \in Positions
    BY <1>1, HookEffect DEF LuaCall, LuaTailCall, LuaReturn
  <1>2. ASSUME NEW p \in Positions, NEW ev \in {"line", "count"}, LuaStep(ev, p)
        PROVE  /\ lua = "run" /\ lua' \in {"run", "block"} /\ signalled' = signalled
               /\ ~do_block /\ breakpoints = {} => lua' = "run"
               /\ UNCHANGED <<call, do_block, breakpoints, event_pausing, event_resuming>>
               /\ pos' \in Positions
    BY <1>2, HookEffect DEF LuaStep
  <1>3. CASE LuaCFunction \/ LuaError
    BY <1>3 DEF LuaCFunction, LuaError, LuaUnchanged, stepVars, eventSets, argVars
  <1>4. CASE Announce \/ Park
    BY <1>4 DEF Announce, Park, LuaUnchanged, stepVars, eventSets, argVars
  <1>5. CASE WakeUp \/ Resumed
    BY <1>5 DEF WakeUp, Resumed, LuaUnchanged, stepVars, eventSets, argVars, Armed
  <1> QED
    BY <1>1, <1>2, <1>3, <1>4, <1>5 DEF LuaNext

\* What a step of the client does to them.
LEMMA CallEffect ==
  ASSUME NEW d \in Debuggers, IInv, CallStep(d)
  PROVE  /\ UNCHANGED <<lua, pos, breakpoints, event_pausing, event_resuming>>
         /\ \/ /\ call[d] \in {"block_none", "read", "set_name", "set_count"}
               /\ call'[d] = "idle" /\ signalled' = signalled
            \/ /\ call[d] \in CommandCalls /\ call'[d] \in CommandCalls
               /\ \/ signalled' = signalled
                  \/ signalled' = signalled \ {"self_pause"}
            \/ /\ call[d] \in {"resume_signal", "step_signal"} /\ call'[d] = "idle"
               /\ signalled' = signalled \cup {"execution_block"}
  <1> USE DEF IInv, TypeOK, Goto, luaVars, eventSets, argVars, stepVars, CommandCalls
  <1>1. CASE BlockNone(d) \/ ReadField(d) \/ SetNameWrite(d) \/ SetStepCountDone(d)
    BY <1>1 DEF BlockNone, ReadField, SetNameWrite, SetStepCountDone
  <1>2. CASE ResumeSignal(d) \/ StepSignal(d)
    BY <1>2 DEF ResumeSignal, StepSignal
  <1>3. CASE StepBlock(d) \/ StepWait(d) \/ StepArm(d)
    BY <1>3 DEF StepBlock, StepWait, StepArm
  <1>4. CASE StepType(d) \/ StepLayer(d) \/ StepLine(d)
    BY <1>4 DEF StepType, StepLayer, StepLine
  <1> QED
    BY <1>1, <1>2, <1>3, <1>4 DEF CallStep

LEMMA ProtocolStep ==
  ASSUME SInv, SessionNext
  PROVE  phase' \in Phases /\ Protocol' /\ Registered'
  <1> USE Handles DEF SInv, Phases
  <1>1. CASE LuaNext /\ UNCHANGED phase
    <2>1. Registered'
      BY <1>1, LuaEffect DEF Registered
    <2>2. Protocol'
      BY <1>1, LuaEffect DEF Protocol, Registered, Free, Waiting, Going, Armed, Told,
        InPause, CommandCalls
    <2> QED
      BY <1>1, <2>1, <2>2
  <1>2. CASE Setup
    BY <1>2 DEF Setup, RegisterEvents, luaVars, stepVars, argVars, Protocol, Registered,
      Free, Waiting, Armed, Told
  <1>3. CASE AskForPause
    <2>1. /\ UNCHANGED <<lua, signalled, event_pausing, event_resuming, phase>>
          /\ phase = "running" /\ call'[Client] \in {"idle", "block_none"}
      BY <1>3 DEF AskForPause, BlockExecution, Edit, AddBreakpoint, RemoveBreakpoints,
        Goto, luaVars, eventSets, IInv, TypeOK, Protocol
    <2> QED
      BY <2>1 DEF Protocol, Registered, Free, Waiting, Armed, Told
  <1>4. CASE WaitPause
    BY <1>4 DEF WaitPause, Take, luaVars, stepVars, eventSets, Protocol, Registered,
      Free, Waiting, Armed, Told
  <1>5. CASE WaitResume
    BY <1>5 DEF WaitResume, Take, luaVars, stepVars, eventSets, Protocol, Registered,
      Free, Waiting, Armed, Told, CommandCalls
  <1>6. CASE Inspect
    <2>1. /\ UNCHANGED <<lua, signalled, event_pausing, event_resuming, phase>>
          /\ phase = "paused" /\ call'[Client] \in {"idle", "read", "set_name"}
      BY <1>6 DEF Inspect, ReadTest, SetNameTest, Edit, AddBreakpoint, RemoveBreakpoints,
        Goto, luaVars, eventSets, IInv, TypeOK, Protocol
    <2> QED
      BY <2>1 DEF Protocol, Registered, Waiting, Armed, Told
  <1>7. CASE GiveCommand
    <2>1. /\ UNCHANGED <<lua, signalled, event_pausing, event_resuming>>
          /\ phase = "paused" /\ phase' = "leaving" /\ call'[Client] \in CommandCalls
      BY <1>7 DEF GiveCommand, ResumeExecution, StepExecution, Goto, luaVars, eventSets,
        IInv, TypeOK, CommandCalls
    <2> QED
      BY <2>1 DEF Protocol, Registered, Waiting, Armed, Told
  <1>8. CASE CallStep(Client) /\ UNCHANGED phase
    <2>1. Registered'
      BY <1>8, CallEffect DEF Registered
    <2>2. Protocol'
      BY <1>8, CallEffect DEF Protocol, Free, Waiting, Going, Armed, Told, InPause,
        CommandCalls
    <2> QED
      BY <1>8, <2>1, <2>2
  <1> QED
    BY <1>1, <1>2, <1>3, <1>4, <1>5, <1>6, <1>7, <1>8 DEF SessionNext, ClientNext

LEMMA StepSInv == SInv /\ [SessionNext]_sessionVars => SInv'
  <1>1. CASE UNCHANGED sessionVars
    BY <1>1 DEF sessionVars, vars, luaVars, stepVars, eventSets, argVars, SInv, IInv,
      TypeOK, LayersCoverStack, StoppedPosition, FlagMeansParked, ChecksOfStepTypes,
      StepDrift, Protocol, Registered, Free, Waiting, Going, Armed, Told, InPause
  <1> QED
    BY <1>1, SessionIInv, ProtocolStep DEF SInv

LEMMA SessionInvariant == SessionSpec => []SInv
  BY InitSInv, StepSInv, PTL DEF SessionSpec

\* The block event holds no signal while the program runs, so that no pause of
\* a client that keeps to the protocol passes straight through.
THEOREM NoSignalLeftOver == SessionSpec => []NoLeftoverSignal
  <1>1. SInv => NoLeftoverSignal
    BY DEF SInv, Protocol, Phases, NoLeftoverSignal, Free, Waiting, Going, Armed, InPause
  <1> QED
    BY <1>1, SessionInvariant, PTL

\* A reader is in the pause it has found, which nobody ends before it is done.
LEMMA ReadStep ==
  ASSUME SInv, ReadsHold, SessionNext
  PROVE  ReadsHold'
  <1> USE Handles DEF SInv
  <1>0. call \in [Debuggers -> Calls] /\ name_idx \in [Debuggers -> 0..MaxLayer]
    BY DEF IInv, TypeOK
  <1>1. call[Client] \in {"read", "set_name"} => phase = "paused" /\ lua = "waiting" /\ ~Armed
    BY DEF Protocol, Phases, Waiting, CommandCalls, ReadsHold, IInv, FlagMeansParked
  <1>2. CASE LuaNext
    <2>1. call'[Client] = call[Client] /\ call[Client] \notin {"read", "set_name"}
      BY <1>1, <1>2, LuaEffect
    <2> QED
      BY <2>1 DEF ReadsHold
  <1>3. ASSUME NEW e, NEW from, NEW to, Take(e, from, to)
        PROVE  ReadsHold'
    BY <1>3 DEF Take, ReadsHold
  <1>4. CASE Setup \/ AskForPause \/ GiveCommand
    <2>1. call'[Client] \notin {"read", "set_name"}
      BY <1>0, <1>4 DEF Setup, RegisterEvents, AskForPause, BlockExecution, Edit,
        AddBreakpoint, RemoveBreakpoints, GiveCommand, ResumeExecution, StepExecution, Goto
    <2> QED
      BY <2>1 DEF ReadsHold
  <1>5. CASE Inspect
    BY <1>0, <1>5 DEF Inspect, ReadTest, SetNameTest, Edit, AddBreakpoint,
      RemoveBreakpoints, Goto, ReadsHold, luaVars, argVars
  <1>6. CASE CallStep(Client)
    <2>1. call'[Client] \notin {"read", "set_name"}
      BY <1>6, CallEffect DEF CommandCalls
    <2> QED
      BY <2>1 DEF ReadsHold
  <1> QED
    BY <1>2, <1>3, <1>4, <1>5, <1>6 DEF SessionNext, ClientNext, WaitPause, WaitResume

\* A getter that has found the thread paused still reads the field of a paused
\* thread, and set_function_name writes the entry whose index it has tested,
\* although both test before they take the mutex.
THEOREM ReadsHoldInSession == SessionSpec => []ReadsHold
  <1>1. SessionInit => ReadsHold
    BY Handles DEF SessionInit, Init, ReadsHold
  <1>2. SInv /\ ReadsHold /\ [SessionNext]_sessionVars => ReadsHold'
    <2>1. ReadsHold /\ UNCHANGED sessionVars => ReadsHold'
      BY DEF ReadsHold, sessionVars, vars, luaVars, argVars
    <2> QED
      BY <2>1, ReadStep
  <1> QED
    BY <1>1, <1>2, SessionInvariant, PTL DEF SessionSpec

\* One step of the session is one step of the contract, or none.
LEMMA ContractStep ==
  ASSUME SInv, SInv', SessionNext
  PROVE  [Contract!Next]_(Contract!vars)
  <1> USE Handles DEF Contract!vars, Contract!Next, InPause, Granted, SInv
  <1>0. pos \in Positions /\ pos' \in Positions
    BY DEF IInv, TypeOK
  <1>1. CASE LuaNext
    <2>1. lua \in {"run", "block", "announced", "waiting", "woken"}
      BY DEF IInv, TypeOK
    <2>2. /\ lua \in {"run", "block"} => ~Armed
          /\ lua = "woken" => ~Armed
      BY DEF Protocol, Phases, Free, Waiting, Going, Armed
    <2>3. "execution_block" \notin event_pausing \cup event_resuming
      BY DEF Registered
    <2> QED
      BY <1>0, <1>1, <2>1, <2>2, <2>3, LuaEffect
      DEF Contract!Run, Contract!Pause, Contract!Continue, Armed
  <1>2. ASSUME NEW e \in {PauseEvent, ResumeEvent}, NEW from, NEW to, Take(e, from, to)
        PROVE  UNCHANGED Contract!vars
    BY <1>2 DEF Take, luaVars
  <1>3. CASE Setup \/ AskForPause \/ Inspect \/ GiveCommand
    BY <1>3 DEF Setup, RegisterEvents, AskForPause, BlockExecution, Edit, AddBreakpoint,
      RemoveBreakpoints, Inspect, ReadTest, SetNameTest, GiveCommand, ResumeExecution,
      StepExecution, luaVars
  <1>4. CASE CallStep(Client)
    <2>1. call[Client] \in {"resume_signal", "step_signal"}
            => lua \in {"announced", "waiting"} /\ ~Armed
      BY DEF Protocol, Phases, Waiting
    <2> QED
      BY <1>4, <2>1, CallEffect DEF Contract!Command, Armed
  <1> QED
    BY <1>1, <1>2, <1>3, <1>4 DEF SessionNext, ClientNext, WaitPause, WaitResume

\* The protocol makes the execution_flow keep the contract: a pause ends once,
\* after a command given during it, and shows one position throughout.
THEOREM SessionImplementsContract == SessionSpec => ImplementsContract
  <1>1. SessionInit => Contract!Init
    BY DEF SessionInit, Init, Contract!Init, InPause, Granted
  <1>2. SInv /\ SInv' /\ [SessionNext]_sessionVars => [Contract!Next]_(Contract!vars)
    <2>1. CASE UNCHANGED sessionVars
      BY <2>1 DEF sessionVars, vars, luaVars, Contract!vars, InPause, Granted
    <2> QED
      BY <2>1, ContractStep
  <1> QED
    BY <1>1, <1>2, SessionInvariant, PTL
    DEF SessionSpec, ImplementsContract, Contract!Spec
=============================================================================
