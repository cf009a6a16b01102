--------------------------- MODULE RuntimeHandler ---------------------------
(***************************************************************************)
(* lua::runtime_handler on top of thread_control: one Lua state, at most   *)
(* one program run, remembered by the id of its thread (_current_tid).     *)
(* run_code, load_file and the destructor first ask currently_running; the *)
(* question and what is done upon its answer are separate steps.           *)
(***************************************************************************)
EXTENDS ThreadControl

CONSTANT Files   \* the Lua files load_file can load

VARIABLES
  current_tid,  \* _current_tid
  main_func,    \* the file of _main_func, or "none"
  program       \* history: threads that were started by run_code

runtimeVars == <<current_tid, main_func, program>>
vars == <<controlVars, runtimeVars>>

\* The value of the Windows error code the field is initialised with.
ERROR_INVALID_THREAD_ID == 1444

TypeOK ==
  /\ ControlTypeOK
  /\ current_tid \in Ids \cup {0, ERROR_INVALID_THREAD_ID}
  /\ main_func \in Files \cup {"none"}
  /\ program \subseteq Threads

Init ==
  /\ ControlInit
  /\ current_tid = ERROR_INVALID_THREAD_ID /\ main_func = "none" /\ program = {}

-----------------------------------------------------------------------------
(* Operations that ask currently_running first.                            *)

Start(c, op, point) ==
  /\ Ready(c, op)
  /\ call' = [call EXCEPT ![c] = [op |-> op, at |-> point, t |-> NoThread]]
  /\ UNCHANGED <<threadVars, handleVars, tableVars, closed, runtimeVars>>

RunCode(c) == Start(c, "run_code", "check")
LoadFile(c) == Start(c, "load_file", "check")
CurrentlyRunning(c) == Start(c, "running", "check")
StopProgram(c) == Start(c, "stop_program", "stop_get")

\* The destructor needs the object for itself.
Destroy(c) ==
  /\ \A d \in Clients : call[d] = Idle
  /\ Start(c, "destroy", "check")

\* What the caller of currently_running does with the answer.
Answer(c, running) ==
  CASE call[c].op = "run_code" /\ ~running -> GotoOn(c, "create", NoThread)
    [] call[c].op = "load_file" /\ ~running -> GotoOn(c, "load", NoThread)
    [] call[c].op = "destroy" -> GotoOn(c, IF running THEN "stop_get" ELSE "stop_all", NoThread)
    [] OTHER -> Finish(c)

CheckInvalid(c) ==
  /\ At(c, "check") /\ current_tid = ERROR_INVALID_THREAD_ID
  /\ Answer(c, FALSE)
  /\ UNCHANGED <<threadVars, handleVars, tableVars, closed, runtimeVars>>

CheckTable(c) ==
  /\ At(c, "check") /\ current_tid # ERROR_INVALID_THREAD_ID
  /\ Find(current_tid)
  /\ IF Found(current_tid) = NoThread THEN Answer(c, FALSE)
                                      ELSE GotoOn(c, "is_stopped", Found(current_tid))
  /\ UNCHANGED <<threadVars, handleVars, refs, lost, closed, runtimeVars>>

CheckStopped(c) ==
  /\ At(c, "is_stopped")
  /\ Answer(c, ~IsStopped(call[c].t))
  /\ UNCHANGED <<threadVars, handleVars, tableVars, closed, runtimeVars>>

\* A file that does not compile leaves the old main function.
LoadMainFunction(c) ==
  /\ At(c, "load")
  /\ Finish(c)
  /\ \E f \in Files \cup {main_func} : main_func' = f
  /\ UNCHANGED <<threadVars, handleVars, tableVars, closed, current_tid, program>>

\* Mutant: the id of the new thread is not kept.
RunCodeForgetsId(c) ==
  /\ At(c, "returning") /\ call[c].op = "run_code"
  /\ Finish(c)
  /\ UNCHANGED <<threadVars, handleVars, tableVars, closed, runtimeVars>>

\* run_execution returned: its id, or 0 when there is no thread.
RunCodeReturn(c) ==
  /\ At(c, "returning") /\ call[c].op = "run_code"
  /\ current_tid' = IF call[c].t = NoThread THEN 0 ELSE Id[call[c].t]
  /\ Finish(c)
  /\ UNCHANGED <<threadVars, handleVars, tableVars, closed, main_func, program>>

\* stop_running takes a reference it never frees.
StopGet(c) ==
  LET t == Found(current_tid) IN
  /\ At(c, "stop_get")
  /\ Find(current_tid)
  /\ IF t = NoThread THEN EndCall(c) ELSE GotoOn(c, "signal", t)
  /\ lost' = lost \cup ({t} \ {NoThread})
  /\ UNCHANGED <<threadVars, handleVars, refs, closed, runtimeVars>>

-----------------------------------------------------------------------------

Request(c) == \/ RunCode(c) \/ LoadFile(c) \/ CurrentlyRunning(c)
              \/ StopProgram(c) \/ Destroy(c)

RuntimeStep(c) ==
  \/ CheckInvalid(c) \/ CheckTable(c) \/ CheckStopped(c) \/ LoadMainFunction(c)
  \/ RunCodeReturn(c) \/ StopGet(c)

\* The thread a run_code creates runs the program.
ControlStep ==
  /\ ControlNext
  /\ program' = program \cup {t \in Threads :
       \E c \in Clients : At(c, "create") /\ call[c].op = "run_code"
                          /\ call'[c].at = "waiting" /\ call'[c].t = t}
  /\ UNCHANGED <<current_tid, main_func>>

Next == ControlStep \/ \E c \in Clients : Request(c) \/ RuntimeStep(c)

Spec == Init /\ [][Next]_vars

\* A client goes on with what it called, and a thread with what it waits for.
\* A thread told to stop that keeps running ends: the error _hook_cb throws at
\* every line is assumed to get through the program sooner or later.
FairSpec ==
  /\ Spec
  /\ \A c \in Clients : WF_vars((ControlStep /\ CallStep(c)) \/ RuntimeStep(c))
  /\ \A t \in Threads :
       /\ WF_vars(ControlStep /\ (Register(t) \/ ThreadWake(t) \/ ThreadAnswered(t)))
       /\ SF_vars(ControlStep /\ t \in stop_thread /\ ThreadEnd(t))

-----------------------------------------------------------------------------
(* Safety.                                                                 *)

\* A thread that runs Lua code can be found under its id until the object is
\* destroyed: no lookup, join or later thread takes its entry (and with the
\* entry the thread_handle its hooks use) away.
LiveThreadListed == \A t \in Threads : Alive(t) /\ ~closed => thread_data[Id[t]] = t

\* run_code: "Return false if already running" -- the main function runs once
\* at a time.
OneRun == \A t, u \in program : os[t] # "ended" /\ os[u] # "ended" => t = u

\* stop_running of a handle and of the runtime handler come back only when the
\* thread they stop has ended.
StopMeansStopped ==
  [][\A c \in Clients : call[c].op \in {"stop", "stop_program"} /\ call[c].t # NoThread
        /\ call'[c] = Idle => os[call[c].t] = "ended"]_vars

\* Once the destructor has closed the Lua state no thread runs in it.
ClosedIsQuiet == closed => \A t \in Threads : os[t] \in {"none", "ended"}

\* load_file does not replace the main function of a program that runs.
LoadOnlyIdle ==
  [][main_func' # main_func => \A t \in program : os[t] = "ended"]_vars

\* The id run_execution returns is one get_thread_handle already knows: the
\* thread has listed itself by then.
ReturnedIdIsListed ==
  [][\A c \in Clients : At(c, "waiting") /\ call'[c].at = "returning"
        => os'[call[c].t] # "created"]_vars

\* run_code refuses only when the program runs.
RefusedOnlyWhileRunning ==
  [][\A c \in Clients : call[c].op = "run_code" /\ ~At(c, "returning") /\ call'[c] = Idle
        => \E t \in program : os[t] # "ended"]_vars

\* A kernel handle is closed once: who closes one finds it open.
HandleClosedOnce ==
  [][\A c \in Clients : At(c, "join_close") /\ call'[c].at = "join_clear"
        => call[c].t \in open]_vars

\* run_execution waits on the condition variable of the entry data, and wakes
\* with its mutex: the data is still there.
EntryDataOutlivesCreator ==
  \A c \in Clients : call[c].at \in {"waiting", "returning"} /\ call[c].t # NoThread
     => call[c].t \in entry_data

\* Every reference get_thread_handle hands out can be freed again.
EveryReferenceFreed == lost = {}

-----------------------------------------------------------------------------
(* Liveness.                                                               *)

\* stop_running comes back, also for a thread that is paused when it is called.
StopReturns ==
  \A c \in Clients : call[c].op \in {"stop", "stop_program"} ~> call[c] = Idle

\* run_code and run_execution come back.
RunReturns ==
  \A c \in Clients : call[c].op \in {"run_code", "run_execution"} ~> call[c] = Idle

\* The destructor ends, unless a thread it joins stays paused or waits for ever
\* for the mutex the destructor holds.
DestroyFinishes ==
  \/ \A c \in Clients : call[c].op = "destroy" ~> closed
  \/ \E t \in Threads : <>[](os[t] \in {"paused", "asking"})
=============================================================================
