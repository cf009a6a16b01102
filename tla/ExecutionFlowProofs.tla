------------------------ MODULE ExecutionFlowProofs ------------------------
(***************************************************************************)
(* Proofs about ExecutionFlow, for every number of debuggers, files, lines *)
(* and every bound.                                                        *)
(***************************************************************************)
EXTENDS ExecutionFlow, TLAPS

\* From the decision to block until the Lua thread runs again, line and path
\* are those of the instruction it stopped at.  PausedPosition is not inductive
\* without it: the flag says "paused" only two steps after the decision.
StoppedPosition ==
  lua # "run" => /\ current_line = pos.line
                 /\ pos.file \in Files => current_file_path = pos.file

FlagMeansParked == ~executing => lua \in {"waiting", "woken"}

\* Only the step types that have a check get to the place that computes it.
ChecksOfStepTypes ==
  \A d \in Debuggers :
    call[d] = "step_layer" => step_arg[d] \in {"over", "in", "out"}

\* Errors only ever add to the layers that no frame stands for, so the check of
\* a step does not ask for fewer layers now than when it was computed.
StepDrift ==
  step_depth >= 0 => step_layer_check - step_depth <= function_layer - depth

IInv == TypeOK /\ LayersCoverStack /\ StoppedPosition /\ FlagMeansParked
        /\ ChecksOfStepTypes /\ StepDrift

\* The unsigned subtraction of step_execution stays within its width.
LEMMA ModInRange ==
  ASSUME NEW a \in Int, NEW m \in Nat \ {0}
  PROVE  a % m \in 0..(m - 1)
  OBVIOUS

LEMMA ModAtMost ==
  ASSUME NEW a \in Nat, NEW m \in Nat \ {0}
  PROVE  a % m <= a
  OBVIOUS

LEMMA InitIInv == Init => IInv
  <1> SUFFICES ASSUME Init PROVE IInv
    OBVIOUS
  <1> USE ConstAssumption DEF Init
  <1>1. pos \in Positions /\ step_layer_check \in 0..(UIntMod - 1) /\ step_depth \in Int
    OBVIOUS
  <1>2. function_layer \in 0..MaxLayer /\ depth \in 0..MaxDepth
    OBVIOUS
  <1>3. /\ call \in [Debuggers -> Calls]
        /\ step_arg \in [Debuggers -> StepTypes]
        /\ name_idx \in [Debuggers -> 0..MaxLayer]
    BY DEF Calls, StepTypes
  <1>4. TypeOK
    BY <1>1, <1>2, <1>3 DEF TypeOK, StepTypes, Events
  <1>5. LayersCoverStack /\ StoppedPosition /\ FlagMeansParked /\ ChecksOfStepTypes /\ StepDrift
    BY DEF LayersCoverStack, StoppedPosition, FlagMeansParked, ChecksOfStepTypes, StepDrift
  <1> QED
    BY <1>4, <1>5 DEF IInv

\* The hook changes the position, the layers and the place of the Lua thread,
\* and keeps them in range whatever it decides.
LEMMA HookCbIInv ==
  ASSUME IInv, lua = "run", NEW p \in Positions,
         NEW ev \in {"call", "ret", "tailcall", "line", "count"},
         depth' \in 0..MaxDepth,
         LayerAfter(ev) - depth' = function_layer - depth,
         HookCb(ev, p), LuaUnchanged, signalled' = signalled
  PROVE  IInv'
  <1> USE ConstAssumption DEF IInv, TypeOK, FlagMeansParked, ChecksOfStepTypes, StepDrift
  <1>1. LayerAfter(ev) \in 0..MaxLayer
    <2>1. LayerAfter(ev) \in Int
      BY DEF LayerAfter
    <2> QED
      BY <2>1 DEF LayersCoverStack
  <1>2. p.file \in Files \cup Chunks /\ p.line \in Lines
    BY DEF Positions
  <1>3. /\ executing' = TRUE
        /\ current_line' = p.line
        /\ current_file_path' = IF p.file \in Files THEN p.file ELSE current_file_path
        /\ function_layer' = LayerAfter(ev)
        /\ pos' = p
        /\ lua' \in {"block", "run"}
    BY DEF HookCb
  <1>4. UNCHANGED <<do_block, stepping, step_layer_check, step_line_check, step_depth,
                    breakpoints, event_pausing, event_resuming, call, step_arg,
                    name_idx, signalled>>
    BY DEF LuaUnchanged, stepVars, eventSets, argVars
  <1>5. TypeOK'
    BY <1>1, <1>2, <1>3, <1>4
  <1>6. LayersCoverStack' /\ StoppedPosition' /\ StepDrift'
    BY <1>1, <1>3, <1>4 DEF LayersCoverStack, StoppedPosition
  <1> QED
    BY <1>3, <1>4, <1>5, <1>6

LEMMA LuaIInv ==
  ASSUME IInv, LuaNext
  PROVE  IInv'
  <1> USE ConstAssumption DEF IInv, TypeOK, FlagMeansParked, ChecksOfStepTypes, StepDrift
  <1>1. ASSUME NEW p \in Positions, LuaCall(p)
        PROVE  IInv'
    <2>1. depth' \in 0..MaxDepth /\ LayerAfter("call") - depth' = function_layer - depth
      BY <1>1 DEF LuaCall, LayerAfter
    <2> QED
      BY <1>1, <2>1, HookCbIInv DEF LuaCall, LayersCoverStack
  <1>2. ASSUME NEW p \in Positions, LuaReturn(p)
        PROVE  IInv'
    <2>1. depth' \in 0..MaxDepth /\ LayerAfter("ret") - depth' = function_layer - depth
      BY <1>2 DEF LuaReturn, LayerAfter, LayersCoverStack
    <2> QED
      BY <1>2, <2>1, HookCbIInv DEF LuaReturn, LayersCoverStack
  <1>3. ASSUME NEW p \in Positions, LuaTailCall(p)
        PROVE  IInv'
    <2>1. depth' \in 0..MaxDepth /\ LayerAfter("tailcall") - depth' = function_layer - depth
      BY <1>3 DEF LuaTailCall, LayerAfter
    <2> QED
      BY <1>3, <2>1, HookCbIInv DEF LuaTailCall, LayersCoverStack
  <1>4. ASSUME NEW p \in Positions, NEW ev \in {"line", "count"}, LuaStep(ev, p)
        PROVE  IInv'
    <2>1. depth' \in 0..MaxDepth /\ LayerAfter(ev) - depth' = function_layer - depth
      BY <1>4 DEF LuaStep, LayerAfter
    <2> QED
      BY <1>4, <2>1, HookCbIInv DEF LuaStep, LayersCoverStack
  <1>5. CASE LuaCFunction
    BY <1>5 DEF LuaCFunction, LuaUnchanged, stepVars, eventSets, argVars,
                LayersCoverStack, StoppedPosition
  <1>6. CASE LuaError
    <2>1. PICK d \in 0..(depth - 1) :
            function_layer - d <= MaxLayer - MaxDepth /\ depth' = d
      BY <1>6 DEF LuaError
    <2>2. depth' \in 0..MaxDepth /\ function_layer - depth' \in 0..(MaxLayer - MaxDepth)
      BY <2>1 DEF LayersCoverStack
    <2> QED
      BY <1>6, <2>2 DEF LuaError, LuaUnchanged, stepVars, eventSets, argVars,
                        LayersCoverStack, StoppedPosition
  <1>7. CASE Announce \/ Park
    BY <1>7 DEF Announce, Park, LuaUnchanged, stepVars, eventSets, argVars,
                LayersCoverStack, StoppedPosition
  <1>8. CASE WakeUp \/ Resumed
    BY <1>8 DEF WakeUp, Resumed, LuaUnchanged, stepVars, eventSets, argVars,
                LayersCoverStack, StoppedPosition
  <1> QED
    BY <1>1, <1>2, <1>3, <1>4, <1>5, <1>6, <1>7, <1>8 DEF LuaNext

\* A call that leaves the Lua thread and the two numbers of StepDrift alone keeps
\* the invariant if it keeps the ranges.
LEMMA CallKeepsIInv ==
  ASSUME IInv, UNCHANGED luaVars,
         UNCHANGED <<step_layer_check, step_depth>>,
         do_block' \in BOOLEAN, stepping' \in StepTypes,
         step_line_check' \in Lines \cup {-1},
         breakpoints' \subseteq (Files \X Lines),
         event_pausing' \subseteq Events, event_resuming' \subseteq Events,
         signalled' \subseteq Events,
         call' \in [Debuggers -> Calls],
         step_arg' \in [Debuggers -> StepTypes],
         name_idx' \in [Debuggers -> 0..MaxLayer],
         ChecksOfStepTypes'
  PROVE  IInv'
  BY DEF luaVars, IInv, TypeOK, LayersCoverStack, StoppedPosition, FlagMeansParked,
         StepDrift

\* Where a call goes next is a place in a call.
LEMMA GotoCalls ==
  ASSUME IInv, NEW d \in Debuggers, NEW from, NEW to \in Calls, Goto(d, from, to)
  PROVE  /\ call' \in [Debuggers -> Calls]
         /\ \A e \in Debuggers : e # d => call'[e] = call[e]
         /\ call[d] = from /\ call'[d] = to
  BY DEF IInv, TypeOK, Goto

\* A call that is not on its way to compute a check.
LEMMA GotoKeepsChecks ==
  ASSUME IInv, NEW d \in Debuggers, NEW from, NEW to \in Calls \ {"step_layer"},
         Goto(d, from, to),
         \A e \in Debuggers : e # d => step_arg'[e] = step_arg[e]
  PROVE  ChecksOfStepTypes' /\ call' \in [Debuggers -> Calls]
  BY GotoCalls DEF IInv, ChecksOfStepTypes

LEMMA StepLayerIInv ==
  ASSUME IInv, NEW d \in Debuggers, StepLayer(d)
  PROVE  IInv'
  <1> USE ConstAssumption
  <1> DEFINE off == LayerOffset(step_arg[d])
             target == function_layer + off
  <1>1. step_arg[d] \in {"over", "in", "out"}
    BY DEF StepLayer, Goto, IInv, ChecksOfStepTypes
  <1>2. off \in {-1, 0, 1}
    BY <1>1 DEF LayerOffset
  <1>3. /\ function_layer \in Nat /\ depth \in Nat /\ UIntMod \in Nat \ {0}
        /\ function_layer >= depth
    BY DEF IInv, TypeOK, LayersCoverStack
  <1>4. /\ step_layer_check' = target % UIntMod
        /\ step_depth' = depth + off
        /\ UNCHANGED <<luaVars, do_block, stepping, step_line_check, breakpoints,
                       eventSets, signalled, argVars>>
    BY DEF StepLayer
  <1>5. call' \in [Debuggers -> Calls] /\ ChecksOfStepTypes'
    <2>1. (IF step_arg[d] = "over" THEN "step_line" ELSE "step_signal")
            \in Calls \ {"step_layer"}
      BY DEF Calls
    <2> QED
      BY <1>4, <2>1, GotoKeepsChecks DEF StepLayer, argVars
  <1> HIDE DEF off
  <1>6. /\ target \in Int /\ step_depth' \in Int
        /\ step_depth' >= 0 => target >= 0
        /\ target - step_depth' = function_layer - depth
    BY <1>2, <1>3, <1>4
  <1> HIDE DEF target
  <1>7. target % UIntMod \in 0..(UIntMod - 1)
    BY <1>3, <1>6, ModInRange
  <1>8. target >= 0 => target % UIntMod <= target
    BY <1>3, <1>6, ModAtMost
  <1>9. StepDrift'
    BY <1>3, <1>4, <1>6, <1>7, <1>8 DEF StepDrift, luaVars
  <1>10. TypeOK'
    BY <1>4, <1>5, <1>6, <1>7 DEF IInv, TypeOK, luaVars, eventSets, argVars
  <1> QED
    BY <1>4, <1>5, <1>9, <1>10
    DEF IInv, LayersCoverStack, StoppedPosition, FlagMeansParked, luaVars

LEMMA DebuggerIInv ==
  ASSUME IInv, NEW d \in Debuggers, DebuggerNext(d)
  PROVE  IInv'
  <1> USE CallKeepsIInv DEF stepVars, eventSets, argVars
  <1>0. /\ do_block \in BOOLEAN /\ stepping \in StepTypes
        /\ step_line_check \in Lines \cup {-1}
        /\ current_line \in Lines \cup {-1}
        /\ breakpoints \subseteq (Files \X Lines)
        /\ event_pausing \subseteq Events /\ event_resuming \subseteq Events
        /\ signalled \subseteq Events
        /\ call \in [Debuggers -> Calls]
        /\ step_arg \in [Debuggers -> StepTypes]
        /\ name_idx \in [Debuggers -> 0..MaxLayer]
        /\ ChecksOfStepTypes
    BY DEF IInv, TypeOK
  <1>1. CASE BlockNone(d) \/ StepBlock(d) \/ StepArm(d) \/ StepLine(d)
    <2>1. ChecksOfStepTypes' /\ call' \in [Debuggers -> Calls]
      BY <1>1, <1>0, GotoKeepsChecks DEF BlockNone, StepBlock, StepArm, StepLine, Calls
    <2> QED
      BY <1>1, <1>0, <2>1 DEF BlockNone, StepBlock, StepArm, StepLine, StepTypes
  <1>2. CASE ResumeSignal(d) \/ StepWait(d) \/ StepSignal(d)
    <2>1. ChecksOfStepTypes' /\ call' \in [Debuggers -> Calls]
      BY <1>2, <1>0, GotoKeepsChecks DEF ResumeSignal, StepWait, StepSignal, Calls
    <2> QED
      BY <1>2, <1>0, <2>1 DEF ResumeSignal, StepWait, StepSignal, Events, StepTypes
  <1>3. CASE ReadField(d) \/ SetNameWrite(d) \/ SetStepCountDone(d)
    <2>1. ChecksOfStepTypes' /\ call' \in [Debuggers -> Calls]
      BY <1>3, <1>0, GotoKeepsChecks DEF ReadField, SetNameWrite, SetStepCountDone, Calls
    <2> QED
      BY <1>3, <1>0, <2>1, ConstAssumption DEF ReadField, SetNameWrite, SetStepCountDone
  <1>4. CASE BlockExecution(d) \/ ResumeExecution(d)
    <2>1. ChecksOfStepTypes' /\ call' \in [Debuggers -> Calls]
      BY <1>4, <1>0, GotoKeepsChecks DEF BlockExecution, ResumeExecution, Calls
    <2> QED
      BY <1>4, <1>0, <2>1 DEF BlockExecution, ResumeExecution
  <1>5. CASE ReadTest(d) \/ SetStepCount(d)
    <2>1. ChecksOfStepTypes' /\ call' \in [Debuggers -> Calls]
      BY <1>5, <1>0, GotoKeepsChecks DEF ReadTest, SetStepCount, Calls
    <2> QED
      BY <1>5, <1>0, <2>1 DEF ReadTest, SetStepCount
  <1>6. CASE StepType(d)
    <2>1. call' \in [Debuggers -> Calls] /\ step_arg' = step_arg
      BY <1>6, GotoCalls DEF StepType, Calls
    <2>2. ChecksOfStepTypes'
      <3>1. \A e \in Debuggers : e # d => call'[e] = call[e]
        BY <1>6, <1>0 DEF StepType, Goto
      <3>2. call'[d] = "step_layer" => step_arg[d] \in {"over", "in", "out"}
        BY <1>6, <1>0 DEF StepType, Goto
      <3> QED
        BY <1>0, <2>1, <3>1, <3>2 DEF ChecksOfStepTypes
    <2> QED
      BY <1>6, <1>0, <2>1, <2>2 DEF StepType
  <1>7. CASE StepLayer(d)
    BY <1>7, StepLayerIInv
  <1>8. ASSUME NEW st \in StepTypes \ {"none"}, StepExecution(d, st)
        PROVE  IInv'
    <2>1. (IF executing THEN "step_block" ELSE "step_arm") \in Calls \ {"step_layer"}
      BY DEF Calls
    <2>2. ChecksOfStepTypes' /\ call' \in [Debuggers -> Calls]
      BY <1>8, <1>0, <2>1, GotoKeepsChecks DEF StepExecution
    <2> QED
      BY <1>8, <1>0, <2>2 DEF StepExecution
  <1>9. ASSUME NEW i \in 0..(MaxLayer - 1), SetNameTest(d, i)
        PROVE  IInv'
    <2>1. ChecksOfStepTypes' /\ call' \in [Debuggers -> Calls]
      BY <1>9, <1>0, GotoKeepsChecks DEF SetNameTest, Calls
    <2>2. i \in 0..MaxLayer
      BY ConstAssumption
    <2> QED
      BY <1>9, <1>0, <2>1, <2>2 DEF SetNameTest
  <1>10. CASE Edit(d)
    <2>1. ChecksOfStepTypes' /\ call' = call
      BY <1>10, <1>0 DEF Edit, AddBreakpoint, RemoveBreakpoints, ChecksOfStepTypes
    <2> QED
      BY <1>10, <1>0, <2>1 DEF Edit, AddBreakpoint, RemoveBreakpoints
  <1>11. CASE EditEvents(d)
    <2>1. ChecksOfStepTypes' /\ call' = call
      BY <1>11, <1>0 DEF EditEvents, RegisterEvents, RemoveEvents, ChecksOfStepTypes
    <2> QED
      BY <1>11, <1>0, <2>1 DEF EditEvents, RegisterEvents, RemoveEvents, Events
  <1> QED
    BY <1>1, <1>2, <1>3, <1>4, <1>5, <1>6, <1>7, <1>8, <1>9, <1>10, <1>11
    DEF DebuggerNext, CallStep, Begin

LEMMA StepIInv == IInv /\ [Next]_vars => IInv'
  <1>1. CASE UNCHANGED vars
    BY <1>1 DEF vars, luaVars, stepVars, eventSets, argVars, IInv, TypeOK,
      LayersCoverStack, StoppedPosition, FlagMeansParked, ChecksOfStepTypes, StepDrift
  <1> QED
    BY <1>1, LuaIInv, DebuggerIInv DEF Next

\* The invariant the other theorems rest on.
LEMMA InductiveInvariant == Spec => []IInv
  BY InitIInv, StepIInv, PTL DEF Spec

\* Every field keeps the range its type gives it, the unsigned step check and
\* the size of _function_layer included.
THEOREM TypeCorrect == Spec => []TypeOK
  <1>1. IInv => TypeOK
    BY DEF IInv
  <1> QED
    BY <1>1, InductiveInvariant, PTL

\* However many threads use the interface of _hookcb's execution_flow: while
\* the flag says "paused", the line and path shown are those the Lua thread is
\* parked at.
THEOREM PausedPositionCorrect == Spec => []PausedPosition
  <1>1. IInv => PausedPosition
    BY DEF IInv, PausedPosition, StoppedPosition, FlagMeansParked
  <1> QED
    BY <1>1, InductiveInvariant, PTL

\* Whatever errors the program raises, a return hook never finds
\* _function_layer short of an entry for a frame that is on the Lua stack.
THEOREM LayersCorrect == Spec => []LayersCoverStack
  <1>1. IInv => LayersCoverStack
    BY DEF IInv
  <1> QED
    BY <1>1, InductiveInvariant, PTL

\* A step over or out, armed by any thread at any moment, never stops at a line
\* deeper in the Lua stack than it was armed for, breakpoints apart.
THEOREM StepsStayShallow == Spec => StepStaysShallow
  <1> DEFINE Stops ==
        /\ lua = "run" /\ lua' = "block" /\ UNCHANGED depth
        /\ \E p \in Positions : LuaStep("line", p)
        /\ stepping \in {"over", "out"} /\ step_depth >= 0
        /\ <<current_file_path', current_line'>> \notin breakpoints
  <1>1. IInv /\ [Next]_vars => [Stops => depth <= step_depth]_vars
    <2> SUFFICES ASSUME IInv, Stops
                 PROVE  depth <= step_depth
      OBVIOUS
    <2>1. PICK p \in Positions : HookCb("line", p)
      BY DEF LuaStep
    <2>2. ~AtBreakpoint("line", current_file_path', p.line)
      BY <2>1 DEF HookCb, AtBreakpoint
    <2>3. ~(function_layer > step_layer_check)
      BY <2>1, <2>2 DEF HookCb, StepSkips, LayerAfter, IInv, TypeOK
    <2> QED
      BY <2>3, ConstAssumption DEF IInv, TypeOK, StepDrift
  <1> QED
    BY <1>1, InductiveInvariant, PTL DEF Spec, StepStaysShallow

\* No call of any thread, and no step of the Lua thread, changes what the
\* getters show while the flag says "paused".
THEOREM PauseIsSteady == Spec => SteadyWhilePaused
  <1>1. IInv /\ [Next]_vars =>
          [~executing => UNCHANGED <<pos, depth, current_line, current_file_path,
                                     function_layer>>]_vars
    <2> SUFFICES ASSUME IInv, Next, ~executing
                 PROVE  UNCHANGED <<pos, depth, current_line, current_file_path,
                                    function_layer>>
      OBVIOUS
    <2>1. lua \in {"waiting", "woken"}
      BY DEF IInv, FlagMeansParked
    <2>2. CASE LuaNext
      BY <2>1, <2>2 DEF LuaNext, LuaCall, LuaReturn, LuaTailCall, LuaStep, LuaCFunction,
        LuaError, Announce, Park, WakeUp, Resumed
    <2>3. ASSUME NEW d \in Debuggers, DebuggerNext(d)
          PROVE  UNCHANGED luaVars
      BY <2>3 DEF DebuggerNext, CallStep, Begin, BlockNone, ResumeSignal, StepBlock,
        StepWait, StepArm, StepType, StepLayer, StepLine, StepSignal, ReadField,
        SetNameWrite, SetStepCountDone, BlockExecution, ResumeExecution, StepExecution,
        ReadTest, SetNameTest, SetStepCount, Edit, AddBreakpoint, RemoveBreakpoints,
        EditEvents, RegisterEvents, RemoveEvents
    <2> QED
      BY <2>2, <2>3 DEF Next, luaVars
  <1> QED
    BY <1>1, InductiveInvariant, PTL DEF Spec, SteadyWhilePaused
-----------------------------------------------------------------------------
(* The pause a step asks for.                                              *)

\* One thread steps; the others may do whatever else the interface has.
OneStepper ==
  \A d, e \in Debuggers : "step" \in Uses[d] /\ "step" \in Uses[e] => d = e

\* Where a step_execution is once it knows that the thread has paused.
ArmCalls == {"step_arm", "step_type", "step_layer", "step_line", "step_signal"}
StepCalls == ArmCalls \cup {"step_block", "step_wait"}

\* A thread that pauses has told so, and the one who took the notice goes on to
\* wake it: as long as nobody is about to do that, one of the two events is set.
PauseTold ==
  /\ "self_pause" \in event_pausing
  /\ \A d \in Debuggers : call[d] \in StepCalls => "step" \in Uses[d]
  /\ lua \in {"announced", "waiting"} /\ (\A d \in Debuggers : call[d] \notin ArmCalls)
       => {"self_pause", "execution_block"} \cap signalled # {}

\* Only the Lua thread's wake-up takes the block event.
LEMMA LuaKeepsPauseTold ==
  ASSUME PauseTold, LuaNext
  PROVE  PauseTold'
  <1>1. UNCHANGED <<call, event_pausing>>
    BY DEF LuaNext, LuaCall, LuaReturn, LuaTailCall, LuaStep, LuaCFunction, LuaError,
      Announce, Park, WakeUp, Resumed, LuaUnchanged, eventSets
  <1>2. \/ lua' \notin {"announced", "waiting"}
        \/ lua' = "announced" /\ signalled' = signalled \cup event_pausing
        \/ lua \in {"announced", "waiting"} /\ signalled' = signalled
    BY DEF LuaNext, LuaCall, LuaReturn, LuaTailCall, LuaStep, HookCb, LuaCFunction,
      LuaError, Announce, Park, WakeUp, Resumed
  <1> QED
    BY <1>1, <1>2 DEF PauseTold

\* Only a step_execution takes the pausing event of the object, and not before
\* it is at a place from which it goes on to set the block event.
LEMMA CallsKeepPauseTold ==
  ASSUME IInv, PauseTold, NEW d \in Debuggers, DebuggerNext(d)
  PROVE  PauseTold'
  <1> USE DEF ArmCalls, StepCalls, eventSets, luaVars
  <1>0. call \in [Debuggers -> Calls]
    BY DEF IInv, TypeOK
  <1>1. CASE CallStep(d)
    <2>1. /\ UNCHANGED <<lua, event_pausing>>
          /\ \A e \in Debuggers \ {d} : call'[e] = call[e]
          /\ call'[d] \in StepCalls => call[d] \in StepCalls
          /\ \/ signalled \subseteq signalled' /\ call[d] \notin ArmCalls
             \/ call'[d] \in ArmCalls
             \/ "execution_block" \in signalled'
      BY <1>0, <1>1 DEF CallStep, BlockNone, ResumeSignal, StepBlock, StepWait, StepArm,
        StepType, StepLayer, StepLine, StepSignal, ReadField, SetNameWrite,
        SetStepCountDone, Goto
    <2> QED
      BY <2>1 DEF PauseTold
  <1>2. CASE Begin(d)
    <2>1. /\ UNCHANGED <<lua, signalled>>
          /\ \A e \in Debuggers \ {d} : call'[e] = call[e]
          /\ call[d] = "idle"
          /\ call'[d] \in StepCalls => "step" \in Uses[d]
      BY <1>0, <1>2 DEF Begin, BlockExecution, ResumeExecution, StepExecution, ReadTest,
        SetNameTest, SetStepCount, Edit, AddBreakpoint, RemoveBreakpoints, EditEvents,
        RegisterEvents, RemoveEvents, Goto
    <2>2. "self_pause" \in event_pausing'
      BY <1>2, ConstAssumption DEF PauseTold, Begin, BlockExecution, ResumeExecution,
        StepExecution, ReadTest, SetNameTest, SetStepCount, Edit, AddBreakpoint,
        RemoveBreakpoints, EditEvents, RegisterEvents, RemoveEvents
    <2> QED
      BY <2>1, <2>2 DEF PauseTold
  <1> QED
    BY <1>1, <1>2 DEF DebuggerNext

\* The wake-up of a step_execution that waits for the pause is not lost, also
\* when it raced with the pause, as long as one thread steps: the others may
\* block, resume, read and edit at any moment.
THEOREM NoPauseIsLost ==
  ASSUME OneStepper
  PROVE  Spec => []NoLostPause
  <1>1. Init => PauseTold
    BY DEF Init, PauseTold, StepCalls, ArmCalls
  <1>2. IInv /\ PauseTold /\ [Next]_vars => PauseTold'
    <2>1. PauseTold /\ UNCHANGED vars => PauseTold'
      BY DEF PauseTold, vars, luaVars, eventSets
    <2> QED
      BY <2>1, LuaKeepsPauseTold, CallsKeepPauseTold DEF Next
  <1>3. PauseTold => NoLostPause
    BY DEF PauseTold, NoLostPause, OneStepper, StepCalls, ArmCalls
  <1> QED
    BY <1>1, <1>2, <1>3, InductiveInvariant, PTL DEF Spec
=============================================================================
