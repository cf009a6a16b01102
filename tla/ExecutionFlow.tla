--------------------------- MODULE ExecutionFlow ---------------------------
(***************************************************************************)
(* lua::debug::execution_flow: the Lua thread enters _hookcb at every hook *)
(* event and parks there when it has to pause; debugger threads block,     *)
(* resume and step it, edit its breakpoints and read its position.         *)
(*                                                                         *)
(* The threads share plain volatile fields and Win32 auto-reset events: an *)
(* event is a flag in "signalled", SetEvent adds it, a wait that returns   *)
(* removes it.  _object_mutex is held by the Lua thread only where lua is  *)
(* "announced"; every other critical section is one step.                  *)
(*                                                                         *)
(* The Lua program is external: any sequence of hook events at any         *)
(* position.  depth counts its Lua frames, pos is where it stands.         *)
(***************************************************************************)
EXTENDS Integers

CONSTANTS
  Debuggers,   \* threads that call the I_execution_flow interface
  Files,       \* sources whose name starts with '@'
  Chunks,      \* other sources, string chunks for instance
  NoFile,      \* the empty _current_file_path
  Lines,       \* line numbers of the Lua program
  UserEvents,  \* handles a client registers
  Uses,        \* which operations each debugger thread calls
  MaxDepth,    \* bound: Lua frames
  MaxLayer,    \* bound: entries of _function_layer
  UIntMod      \* 2^w of the unsigned _step_layer_check

Operations == {"block", "resume", "step", "read", "set_name", "set_count",
               "breakpoints", "events"}

ASSUME ConstAssumption ==
  /\ Uses \in [Debuggers -> SUBSET Operations]
  /\ Lines \subseteq Nat /\ Lines # {}
  /\ Chunks \cap Files = {} /\ NoFile \notin Files
  /\ {"execution_block", "self_pause", "self_resume"} \cap UserEvents = {}
  /\ MaxDepth \in Nat /\ MaxLayer \in Nat /\ UIntMod \in Nat
  /\ MaxDepth <= MaxLayer /\ MaxLayer < UIntMod

VARIABLES
  \* the Lua thread
  lua, depth, pos,
  \* fields of execution_flow
  executing, do_block, stepping, step_layer_check, step_line_check,
  current_line, current_file_path, function_layer, breakpoints,
  event_pausing, event_resuming, signalled,
  \* the debugger threads: where each is in its call, its step type and index
  call, step_arg, name_idx,
  \* history: the depth step_layer_check stands for
  step_depth

luaVars   == <<lua, depth, pos, executing, current_line, current_file_path,
               function_layer>>
stepVars  == <<do_block, stepping, step_layer_check, step_line_check, step_depth>>
eventSets == <<event_pausing, event_resuming>>
argVars   == <<step_arg, name_idx>>
vars == <<luaVars, stepVars, breakpoints, eventSets, signalled, call, argVars>>

StepTypes == {"none", "per_line", "per_counts", "in", "out", "over"}
Calls == {"idle", "block_none", "resume_signal", "step_block", "step_wait",
          "step_arm", "step_type", "step_layer", "step_line", "step_signal",
          "read", "set_name", "set_count"}
Events == UserEvents \cup {"execution_block", "self_pause", "self_resume"}
Positions == [file : Files \cup Chunks, line : Lines]

TypeOK ==
  /\ lua \in {"run", "block", "announced", "waiting", "woken"}
  /\ depth \in 0..MaxDepth
  /\ pos \in Positions
  /\ executing \in BOOLEAN /\ do_block \in BOOLEAN
  /\ stepping \in StepTypes
  /\ step_layer_check \in 0..(UIntMod - 1)
  /\ step_line_check \in Lines \cup {-1}
  /\ current_line \in Lines \cup {-1}
  /\ current_file_path \in Files \cup {NoFile}
  /\ function_layer \in 0..MaxLayer
  /\ breakpoints \subseteq (Files \X Lines)
  /\ event_pausing \subseteq Events /\ event_resuming \subseteq Events
  /\ signalled \subseteq Events
  /\ call \in [Debuggers -> Calls]
  /\ step_arg \in [Debuggers -> StepTypes]
  /\ name_idx \in [Debuggers -> 0..MaxLayer]
  /\ step_depth \in Int

\* Mutant: the constructor does not register its own pausing event.
InitUnregistered ==
  /\ lua = "run" /\ depth = 0 /\ pos \in Positions
  /\ executing = TRUE /\ do_block = FALSE /\ stepping = "none"
  /\ step_layer_check = 0 /\ step_line_check = -1 /\ step_depth = 0
  /\ current_line = -1 /\ current_file_path = NoFile /\ function_layer = 0
  /\ breakpoints = {} /\ signalled = {}
  /\ event_pausing = {} /\ event_resuming = {}
  /\ call = [d \in Debuggers |-> "idle"]
  /\ step_arg = [d \in Debuggers |-> "none"]
  /\ name_idx = [d \in Debuggers |-> 0]

\* The constructor.  It leaves the two step checks unset, so any value may be
\* read from them; the line is unset too, but no one reads it before a hook.
Init ==
  /\ lua = "run" /\ depth = 0
  /\ pos \in Positions
  /\ executing = TRUE /\ do_block = FALSE
  /\ stepping = "none"
  /\ step_layer_check \in 0..MaxLayer
  /\ step_line_check \in Lines \cup {-1}
  /\ current_line = -1
  /\ current_file_path = NoFile
  /\ function_layer = 0
  /\ breakpoints = {}
  /\ event_pausing = {"self_pause"} /\ event_resuming = {"self_resume"}
  /\ signalled = {}
  /\ call = [d \in Debuggers |-> "idle"]
  /\ step_arg = [d \in Debuggers |-> "none"]
  /\ name_idx = [d \in Debuggers |-> 0]
  /\ step_depth = step_layer_check

-----------------------------------------------------------------------------
(* The Lua thread: _hookcb and _block_execution.                           *)

AtBreakpoint(ev, path, line) == ev = "line" /\ <<path, line>> \in breakpoints

\* Mutant: a step over does not look at the layer.
StepSkipsAnyLayer(ev, line, file_changed, layer) ==
  \/ ev = "count" /\ stepping # "per_counts"
  \/ ev = "line" /\ stepping = "per_counts"
  \/ ev = "line" /\ stepping = "out" /\ layer > step_layer_check
  \/ ev = "line" /\ stepping = "over" /\ line = step_line_check
  \/ ev \in {"call", "tailcall"} /\ stepping # "in"

\* The stepping filter: the events an armed step lets pass.
StepSkips(ev, line, file_changed, layer) ==
  \/ ev = "count" /\ stepping # "per_counts"
  \/ ev = "line" /\ stepping = "per_counts"
  \/ ev = "line" /\ stepping \in {"out", "over"} /\ layer > step_layer_check
  \/ ev = "line" /\ stepping = "over" /\ line = step_line_check
  \/ ev \in {"call", "tailcall"} /\ stepping # "in"
  \/ ev = "ret" /\ stepping = "per_line" /\ current_line = line /\ ~file_changed
  \/ ev = "ret" /\ stepping \in {"out", "over"} /\ layer >= step_layer_check

\* Mutant: a tail call pops the entry of the frame it replaces.
LayerAfterTail(ev) ==
  CASE ev = "call" -> function_layer + 1
    [] ev \in {"ret", "tailcall"} /\ function_layer > 0 -> function_layer - 1
    [] OTHER -> function_layer

\* Size of _function_layer after the event.
LayerAfter(ev) ==
  CASE ev = "call" -> function_layer + 1
    [] ev = "ret" /\ function_layer > 0 -> function_layer - 1
    [] OTHER -> function_layer

\* Mutant: the path is not updated.
HookCbStalePath(ev, p) ==
  /\ executing' = TRUE
  /\ current_line' = p.line
  /\ current_file_path' = current_file_path
  /\ function_layer' = LayerAfter(ev)
  /\ pos' = p
  /\ lua' = IF do_block THEN "block" ELSE "run"

\* One call of _hookcb in a Lua function, up to the decision to block.
HookCb(ev, p) ==
  LET path  == IF p.file \in Files THEN p.file ELSE current_file_path
      moved == path # current_file_path /\ current_file_path # NoFile
      layer == LayerAfter(ev)
      stops == \/ AtBreakpoint(ev, path, p.line)
               \/ do_block /\ (stepping # "none" => ~StepSkips(ev, p.line, moved, layer))
  IN /\ executing' = TRUE
     /\ current_line' = p.line
     /\ current_file_path' = path
     /\ function_layer' = layer
     /\ pos' = p
     /\ lua' = IF stops THEN "block" ELSE "run"

LuaUnchanged == UNCHANGED <<stepVars, breakpoints, eventSets, call, argVars>>

LuaCall(p) ==
  /\ lua = "run" /\ depth < MaxDepth
  /\ depth' = depth + 1
  /\ HookCb("call", p)
  /\ LuaUnchanged /\ UNCHANGED signalled

LuaReturn(p) ==
  /\ lua = "run" /\ depth > 0
  /\ depth' = depth - 1
  /\ HookCb("ret", p)
  /\ LuaUnchanged /\ UNCHANGED signalled

\* A tail call replaces the frame: its layer is only marked.
LuaTailCall(p) ==
  /\ lua = "run" /\ depth > 0
  /\ HookCb("tailcall", p)
  /\ LuaUnchanged /\ UNCHANGED <<depth, signalled>>

LuaStep(ev, p) ==
  /\ lua = "run" /\ depth > 0
  /\ ev \in {"line", "count"}
  /\ HookCb(ev, p)
  /\ LuaUnchanged /\ UNCHANGED <<depth, signalled>>

\* A C function is called or returns: currentline is -1 and nothing else is
\* looked at.
LuaCFunction ==
  /\ lua = "run"
  /\ executing' = TRUE /\ current_line' = -1
  /\ LuaUnchanged
  /\ UNCHANGED <<lua, depth, pos, current_file_path, function_layer, signalled>>

\* An error unwinds to a protected call; no return hook runs for the frames
\* that are dropped.  MaxLayer bounds how many of them _function_layer keeps.
LuaError ==
  /\ lua = "run"
  /\ \E d \in 0..(depth - 1) :
        /\ function_layer - d <= MaxLayer - MaxDepth
        /\ depth' = d
  /\ LuaUnchanged
  /\ UNCHANGED <<lua, pos, executing, current_line, current_file_path,
                 function_layer, signalled>>

\* _block_execution: under the lock, first the events, then the flag.
Announce ==
  /\ lua = "block"
  /\ signalled' = signalled \cup event_pausing
  /\ lua' = "announced"
  /\ LuaUnchanged
  /\ UNCHANGED <<depth, pos, executing, current_line, current_file_path,
                 function_layer>>

Park ==
  /\ lua = "announced"
  /\ executing' = FALSE
  /\ lua' = "waiting"
  /\ LuaUnchanged
  /\ UNCHANGED <<depth, pos, current_line, current_file_path, function_layer,
                 signalled>>

\* Mutant: the block event is not an auto-reset event.
WakeUpManualReset ==
  /\ lua = "waiting" /\ "execution_block" \in signalled
  /\ lua' = "woken"
  /\ LuaUnchanged
  /\ UNCHANGED <<depth, pos, executing, current_line, current_file_path,
                 function_layer, signalled>>

WakeUp ==
  /\ lua = "waiting" /\ "execution_block" \in signalled
  /\ signalled' = signalled \ {"execution_block"}
  /\ lua' = "woken"
  /\ LuaUnchanged
  /\ UNCHANGED <<depth, pos, executing, current_line, current_file_path,
                 function_layer>>

Resumed ==
  /\ lua = "woken"
  /\ executing' = TRUE
  /\ signalled' = signalled \cup event_resuming
  /\ lua' = "run"
  /\ LuaUnchanged
  /\ UNCHANGED <<depth, pos, current_line, current_file_path, function_layer>>

LuaNext ==
  \/ \E p \in Positions : LuaCall(p) \/ LuaTailCall(p) \/ LuaReturn(p)
  \/ \E p \in Positions, ev \in {"line", "count"} : LuaStep(ev, p)
  \/ LuaCFunction \/ LuaError
  \/ Announce \/ Park \/ WakeUp \/ Resumed

-----------------------------------------------------------------------------
(* The interface, called by debugger thread d.                             *)

MutexFree == lua # "announced"
Goto(d, from, to) == call[d] = from /\ call' = [call EXCEPT ![d] = to]

BlockExecution(d) ==
  /\ Goto(d, "idle", "block_none")
  /\ do_block' = TRUE
  /\ UNCHANGED <<luaVars, stepping, step_layer_check, step_line_check, step_depth,
                 breakpoints, eventSets, signalled, argVars>>

BlockNone(d) ==
  /\ Goto(d, "block_none", "idle")
  /\ stepping' = "none"
  /\ UNCHANGED <<luaVars, do_block, step_layer_check, step_line_check, step_depth,
                 breakpoints, eventSets, signalled, argVars>>

ResumeExecution(d) ==
  /\ Goto(d, "idle", "resume_signal")
  /\ do_block' = FALSE
  /\ UNCHANGED <<luaVars, stepping, step_layer_check, step_line_check, step_depth,
                 breakpoints, eventSets, signalled, argVars>>

ResumeSignal(d) ==
  /\ Goto(d, "resume_signal", "idle")
  /\ signalled' = signalled \cup {"execution_block"}
  /\ UNCHANGED <<luaVars, stepVars, breakpoints, eventSets, argVars>>

\* step_execution: a thread that is executing is blocked first.
StepExecution(d, st) ==
  /\ Goto(d, "idle", IF executing THEN "step_block" ELSE "step_arm")
  /\ step_arg' = [step_arg EXCEPT ![d] = st]
  /\ do_block' = (do_block \/ executing)
  /\ UNCHANGED <<luaVars, stepping, step_layer_check, step_line_check, step_depth,
                 breakpoints, eventSets, signalled, name_idx>>

StepBlock(d) ==
  /\ Goto(d, "step_block", "step_wait")
  /\ stepping' = "none"
  /\ UNCHANGED <<luaVars, do_block, step_layer_check, step_line_check, step_depth,
                 breakpoints, eventSets, signalled, argVars>>

StepWait(d) ==
  /\ Goto(d, "step_wait", "step_arm")
  /\ "self_pause" \in signalled
  /\ signalled' = signalled \ {"self_pause"}
  /\ UNCHANGED <<luaVars, stepVars, breakpoints, eventSets, argVars>>

StepArm(d) ==
  /\ Goto(d, "step_arm", "step_type")
  /\ do_block' = TRUE
  /\ UNCHANGED <<luaVars, stepping, step_layer_check, step_line_check, step_depth,
                 breakpoints, eventSets, signalled, argVars>>

StepType(d) ==
  /\ Goto(d, "step_type", IF step_arg[d] \in {"over", "in", "out"}
                          THEN "step_layer" ELSE "step_signal")
  /\ stepping' = step_arg[d]
  /\ UNCHANGED <<luaVars, do_block, step_layer_check, step_line_check, step_depth,
                 breakpoints, eventSets, signalled, argVars>>

\* How far from the current layer each step type puts its check.
LayerOffset(st) == CASE st = "over" -> 0 [] st = "in" -> 1 [] st = "out" -> -1

StepLayer(d) ==
  /\ Goto(d, "step_layer", IF step_arg[d] = "over" THEN "step_line" ELSE "step_signal")
  /\ MutexFree
  /\ step_layer_check' = (function_layer + LayerOffset(step_arg[d])) % UIntMod
  /\ step_depth' = depth + LayerOffset(step_arg[d])
  /\ UNCHANGED <<luaVars, do_block, stepping, step_line_check,
                 breakpoints, eventSets, signalled, argVars>>

StepLine(d) ==
  /\ Goto(d, "step_line", "step_signal")
  /\ step_line_check' = current_line
  /\ UNCHANGED <<luaVars, do_block, stepping, step_layer_check, step_depth,
                 breakpoints, eventSets, signalled, argVars>>

StepSignal(d) ==
  /\ Goto(d, "step_signal", "idle")
  /\ signalled' = signalled \cup {"execution_block"}
  /\ step_arg' = [step_arg EXCEPT ![d] = "none"]
  /\ UNCHANGED <<luaVars, stepVars, breakpoints, eventSets, name_idx>>

\* Mutant: the flag is not tested.
ReadUntested(d) ==
  /\ Goto(d, "idle", "read")
  /\ UNCHANGED <<luaVars, stepVars, breakpoints, eventSets, signalled, argVars>>

\* get_current_line, get_current_file_path, get_function_name and
\* get_debug_data: the flag is tested, then the field is read.
ReadTest(d) ==
  /\ Goto(d, "idle", "read")
  /\ ~executing
  /\ UNCHANGED <<luaVars, stepVars, breakpoints, eventSets, signalled, argVars>>

ReadField(d) ==
  /\ Goto(d, "read", "idle")
  /\ UNCHANGED <<luaVars, stepVars, breakpoints, eventSets, signalled, argVars>>

\* set_function_name: flag and index are tested before the lock is taken.
SetNameTest(d, i) ==
  /\ Goto(d, "idle", "set_name")
  /\ ~executing /\ i < function_layer
  /\ name_idx' = [name_idx EXCEPT ![d] = i]
  /\ UNCHANGED <<luaVars, stepVars, breakpoints, eventSets, signalled, step_arg>>

SetNameWrite(d) ==
  /\ Goto(d, "set_name", "idle")
  /\ MutexFree
  /\ name_idx' = [name_idx EXCEPT ![d] = 0]
  /\ UNCHANGED <<luaVars, stepVars, breakpoints, eventSets, signalled, step_arg>>

\* set_step_count needs the mutex of the hook_handler, which the Lua thread
\* holds for the whole of the hook, pauses included.
HookMutexFree == lua = "run"

SetStepCount(d) ==
  /\ Goto(d, "idle", "set_count")
  /\ UNCHANGED <<luaVars, stepVars, breakpoints, eventSets, signalled, argVars>>

SetStepCountDone(d) ==
  /\ Goto(d, "set_count", "idle")
  /\ HookMutexFree
  /\ UNCHANGED <<luaVars, stepVars, breakpoints, eventSets, signalled, argVars>>

AddBreakpoint(d, f, l) ==
  /\ call[d] = "idle" /\ MutexFree
  /\ breakpoints' = breakpoints \cup {<<f, l>>}
  /\ UNCHANGED <<luaVars, stepVars, eventSets, signalled, call, argVars>>

\* remove_breakpoint, and clear_breakpoints of one file or of all.
RemoveBreakpoints(d, fs, ls) ==
  /\ call[d] = "idle" /\ MutexFree
  /\ breakpoints' = breakpoints \ (fs \X ls)
  /\ UNCHANGED <<luaVars, stepVars, eventSets, signalled, call, argVars>>

\* Mutant: the two sets are swapped.
RegisterEventsSwapped(d, pausing, resuming) ==
  /\ call[d] = "idle" /\ MutexFree
  /\ event_pausing' = event_pausing \cup resuming
  /\ event_resuming' = event_resuming \cup pausing
  /\ UNCHANGED <<luaVars, stepVars, breakpoints, signalled, call, argVars>>

RegisterEvents(d, pausing, resuming) ==
  /\ call[d] = "idle" /\ MutexFree
  /\ event_pausing' = event_pausing \cup pausing
  /\ event_resuming' = event_resuming \cup resuming
  /\ UNCHANGED <<luaVars, stepVars, breakpoints, signalled, call, argVars>>

RemoveEvents(d, pausing, resuming) ==
  /\ call[d] = "idle" /\ MutexFree
  /\ event_pausing' = event_pausing \ pausing
  /\ event_resuming' = event_resuming \ resuming
  /\ UNCHANGED <<luaVars, stepVars, breakpoints, signalled, call, argVars>>

\* The unsynchronised answer of get_function_layer.
GetFunctionLayer == function_layer

\* The rest of a call once it has begun.
CallStep(d) ==
  \/ BlockNone(d) \/ ResumeSignal(d)
  \/ StepBlock(d) \/ StepWait(d) \/ StepArm(d) \/ StepType(d)
  \/ StepLayer(d) \/ StepLine(d) \/ StepSignal(d)
  \/ ReadField(d) \/ SetNameWrite(d) \/ SetStepCountDone(d)

Edit(d) ==
  \/ \E f \in Files, l \in Lines : AddBreakpoint(d, f, l)
  \/ \E fs \in {{f} : f \in Files} \cup {Files}, ls \in {{l} : l \in Lines} \cup {Lines} :
        RemoveBreakpoints(d, fs, ls)

EditEvents(d) ==
  \E p, r \in SUBSET UserEvents : RegisterEvents(d, p, r) \/ RemoveEvents(d, p, r)

Begin(d) ==
  \/ "block" \in Uses[d] /\ BlockExecution(d)
  \/ "resume" \in Uses[d] /\ ResumeExecution(d)
  \/ "step" \in Uses[d] /\ \E st \in StepTypes \ {"none"} : StepExecution(d, st)
  \/ "read" \in Uses[d] /\ ReadTest(d)
  \/ "set_name" \in Uses[d] /\ \E i \in 0..(MaxLayer - 1) : SetNameTest(d, i)
  \/ "set_count" \in Uses[d] /\ SetStepCount(d)
  \/ "breakpoints" \in Uses[d] /\ Edit(d)
  \/ "events" \in Uses[d] /\ EditEvents(d)

DebuggerNext(d) == CallStep(d) \/ Begin(d)

Next == LuaNext \/ \E d \in Debuggers : DebuggerNext(d)

\* The Lua program runs on: it keeps executing lines, and a thread that was
\* signalled is scheduled.  Every call that a debugger began goes on; an event
\* wakes its waiters in turn, so a waiter is not passed over for ever.
Fairness ==
  /\ WF_vars(\E p \in Positions : LuaStep("line", p) \/ LuaCall(p))
  /\ WF_vars(Announce \/ Park \/ WakeUp \/ Resumed)
  /\ \A d \in Debuggers : WF_vars(CallStep(d)) /\ SF_vars(StepWait(d))

Spec == Init /\ [][Next]_vars
FairSpec == Spec /\ Fairness

-----------------------------------------------------------------------------
(* Properties.                                                             *)

\* While the flag says "paused" the Lua thread really is parked in
\* _block_execution, and line and path are those of the instruction it is
\* parked at: what the getters show is never a leftover of an earlier event.
PausedPosition ==
  ~executing => /\ lua \in {"waiting", "woken"}
                /\ current_line = pos.line
                /\ pos.file \in Files => current_file_path = pos.file

\* _function_layer never has fewer entries than the Lua stack has frames, so
\* the event of a return always finds the entry it pops.  (It may have more:
\* frames dropped by an error stay.)
LayersCoverStack ==
  function_layer - depth \in 0..(MaxLayer - MaxDepth)

\* The pointers get_function_name and get_current_file_path hand out while the
\* thread is paused stay good until the flag is set back: nothing the other
\* threads call changes what they point to.
SteadyWhilePaused ==
  [][~executing => UNCHANGED <<pos, depth, current_line, current_file_path,
                               function_layer>>]_vars

\* "over and out should not be blocking when still in the upper layer": a step
\* over or out never stops at a line deeper in the stack than the depth it was
\* armed for, whatever errors, tail calls and other debuggers did meanwhile.
\* (Only a step out with no layer left, whose check wraps around, is exempt.)
StepStaysShallow ==
  [][(/\ lua = "run" /\ lua' = "block" /\ UNCHANGED depth
      /\ \E p \in Positions : LuaStep("line", p)
      /\ stepping \in {"over", "out"} /\ step_depth >= 0
      /\ <<current_file_path', current_line'>> \notin breakpoints)
     => depth <= step_depth]_vars

\* A step_execution that waits for the pause it asked for is never asleep
\* while the thread is parked for good: with one debugger thread the wake-up of
\* _self_pause_event is not lost, also when its last step raced with the pause.
NoLostPause ==
  \A d \in Debuggers :
    call[d] = "step_wait" /\ lua \in {"announced", "waiting"}
      => {"self_pause", "execution_block"} \cap signalled # {}

\* step_execution called while the program runs gets its pause and returns.
StepReturns ==
  \A d \in Debuggers : call[d] = "step_wait" ~> call[d] = "idle"

\* "Returns 0 if still executing." (luadebug_execution_flow.h, above
\* get_function_layer)
NoLayerWhileExecuting == executing => GetFunctionLayer = 0

\* The interface is marked thread-safe: set_function_name finds the entry whose
\* index it has tested.
NamedEntryExists ==
  \A d \in Debuggers : call[d] = "set_name" => name_idx[d] < function_layer

\* The interface is marked thread-safe: a step_execution that waits for the
\* program to pause returns although other threads use the interface too.
StepReturnsToEveryCaller == StepReturns

\* The interface is marked thread-safe: no debugger is stuck in set_step_count
\* with the program paused and every thread that could resume it stuck too.
SetStepCountReturns ==
  ~ /\ lua = "waiting" /\ "execution_block" \notin signalled
    /\ \A d \in Debuggers : call[d] = "set_count"
=============================================================================
