---------------------------- MODULE ThreadControl ----------------------------
(***************************************************************************)
(* lua::thread_control and lua::thread_handle: it starts threads that run  *)
(* Lua code, keeps a handle for each in _thread_data under its id, lends   *)
(* references to those handles, and stops and joins the threads.           *)
(*                                                                         *)
(* A client is a thread that calls the interface; call[c] says which       *)
(* operation it is in, at which point, and on which thread.  Steps are the *)
(* accesses other threads can see: _object_mutex is held over more than    *)
(* one of them only by _stop_all_execution.                                *)
(*                                                                         *)
(* A thread handle has two faces: "open", the kernel handle, and "handle", *)
(* the member _thread_handle not yet set to INVALID_HANDLE_VALUE.          *)
(***************************************************************************)
EXTENDS Integers

CONSTANTS
  Clients,        \* threads that call the interface
  Threads,        \* the threads run_execution may create
  NoThread,
  Id,             \* their ids; an id is reused once its handle is closed
  Uses,           \* which operations each client calls
  SpuriousWakes,  \* whether a condition variable may wake without a notify
  Pausers,        \* threads that stop at a breakpoint
  LatePausers,    \* those that still do once they were told to stop
  Askers          \* threads whose Lua code calls back into the interface

Operations == {"run_execution", "handles", "stop", "join", "detach", "resume",
               "run_code", "load_file", "stop_program", "running", "destroy"}

ASSUME ControlAssumption ==
  /\ NoThread \notin Threads
  /\ Id \in [Threads -> Nat \ {0}]
  /\ Uses \in [Clients -> SUBSET Operations]
  /\ SpuriousWakes \in BOOLEAN
  /\ Pausers \subseteq Threads /\ LatePausers \subseteq Pausers
  /\ Askers \subseteq Threads

VARIABLES
  os,           \* what each thread is doing
  stop_thread,  \* threads whose _stop_thread is set
  block_event,  \* threads whose execution flow has its block event signalled
  open, handle, \* threads whose kernel handle is open; whose member is valid
  entry_data,   \* threads whose _t_entry_point_data exists
  thread_data,  \* the map: id -> the thread it lists
  refs,         \* the references each client holds
  lost,         \* threads with a reference nobody can free any more
  call,         \* where each client is
  closed        \* the object is gone

threadVars == <<os, stop_thread, block_event, entry_data>>
handleVars == <<open, handle>>
tableVars  == <<thread_data, refs, lost>>
controlVars == <<threadVars, handleVars, tableVars, call, closed>>

Ids == {Id[t] : t \in Threads}
Idle == [op |-> "none", at |-> "idle", t |-> NoThread]
Points == {"idle", "check", "is_stopped", "load", "create", "waiting", "returning",
           "stop_get", "signal", "resume", "join", "join_wait", "join_close",
           "join_clear", "stop_all", "join_all"}

ControlTypeOK ==
  /\ os \in [Threads -> {"none", "created", "running", "paused", "asking", "ended"}]
  /\ stop_thread \subseteq Threads /\ block_event \subseteq Threads
  /\ open \subseteq Threads /\ handle \subseteq Threads
  /\ entry_data \subseteq Threads
  /\ thread_data \in [Ids -> Threads \cup {NoThread}]
  /\ refs \in [Clients -> SUBSET Threads]
  /\ lost \subseteq Threads
  /\ call \in [Clients -> [op : Operations \cup {"none"}, at : Points,
                           t : Threads \cup {NoThread}]]
  /\ closed \in BOOLEAN

ControlInit ==
  /\ os = [t \in Threads |-> "none"]
  /\ stop_thread = {} /\ block_event = {}
  /\ open = {} /\ handle = {} /\ entry_data = {}
  /\ thread_data = [i \in Ids |-> NoThread]
  /\ refs = [c \in Clients |-> {}]
  /\ lost = {}
  /\ call = [c \in Clients |-> Idle]
  /\ closed = FALSE

At(c, point) == call[c].at = point
Goto(c, point) == call' = [call EXCEPT ![c].at = point]
GotoOn(c, point, t) ==
  call' = [call EXCEPT ![c] = [op |-> call[c].op, at |-> point, t |-> t]]
Finish(c) == call' = [call EXCEPT ![c] = Idle]

\* Clients may call while none of them destroys the object.
Ready(c, op) ==
  /\ call[c] = Idle /\ op \in Uses[c] /\ ~closed
  /\ \A d \in Clients : call[d].op # "destroy"
MutexFree == \A c \in Clients : ~At(c, "join_all")

Alive(t) == os[t] \in {"running", "paused", "asking"}

\* is_stopped: the wait fails on a closed handle and times out on an invalid one,
\* the process's own; both mean no.
IsStopped(t) == t \in handle /\ t \in open /\ os[t] = "ended"

Listed(i) == IF i \in Ids THEN thread_data[i] ELSE NoThread

\* The table part of get_thread_handle: the entry of a stopped thread goes.
Find(i) ==
  /\ MutexFree
  /\ thread_data' = IF Listed(i) # NoThread /\ IsStopped(Listed(i))
                      THEN [thread_data EXCEPT ![i] = NoThread] ELSE thread_data
Found(i) == IF Listed(i) # NoThread /\ ~IsStopped(Listed(i)) THEN Listed(i) ELSE NoThread

-----------------------------------------------------------------------------
(* run_execution and the thread it starts.                                 *)

IdFree(t) == \A u \in Threads \ {t} :
  Id[u] = Id[t] => os[u] = "none" \/ (os[u] = "ended" /\ u \notin open)

RunExecution(c) ==
  /\ Ready(c, "run_execution")
  /\ call' = [call EXCEPT ![c] = [op |-> "run_execution", at |-> "create", t |-> NoThread]]
  /\ UNCHANGED <<threadVars, handleVars, tableVars, closed>>

\* The creator holds init_mutex until it waits, so the thread starts there.
CreateThread(c, t) ==
  /\ At(c, "create") /\ os[t] = "none" /\ IdFree(t)
  /\ os' = [os EXCEPT ![t] = "created"]
  /\ entry_data' = entry_data \cup {t} /\ open' = open \cup {t}
  /\ GotoOn(c, "waiting", t)
  /\ UNCHANGED <<stop_thread, block_event, handle, tableVars, closed>>

CreateThreadFails(c) ==
  /\ At(c, "create")
  /\ GotoOn(c, "returning", NoThread)
  /\ UNCHANGED <<threadVars, handleVars, tableVars, closed>>

\* Mutant: the thread does not notify its creator.
RegisterSilently(t) ==
  /\ os[t] = "created" /\ MutexFree
  /\ os' = [os EXCEPT ![t] = "running"]
  /\ handle' = handle \cup {t}
  /\ thread_data' = [thread_data EXCEPT ![Id[t]] = t]
  /\ lost' = lost \cup ({thread_data[Id[t]]} \ {NoThread})
  /\ UNCHANGED <<stop_thread, block_event, entry_data, open, refs, call, closed>>

\* __thread_entry_point_generalize: a previous entry is overwritten, not freed.
Register(t) ==
  /\ os[t] = "created" /\ MutexFree
  /\ os' = [os EXCEPT ![t] = "running"]
  /\ handle' = handle \cup {t}
  /\ thread_data' = [thread_data EXCEPT ![Id[t]] = t]
  /\ lost' = lost \cup ({thread_data[Id[t]]} \ {NoThread})
  /\ call' = [c \in Clients |-> IF At(c, "waiting") /\ call[c].t = t
                                  THEN [call[c] EXCEPT !.at = "returning"] ELSE call[c]]
  /\ UNCHANGED <<stop_thread, block_event, entry_data, open, refs, closed>>

\* wait() has no predicate.
WakeSpuriously(c) ==
  /\ SpuriousWakes /\ At(c, "waiting")
  /\ Goto(c, "returning")
  /\ UNCHANGED <<threadVars, handleVars, tableVars, closed>>

RunExecutionReturn(c) ==
  /\ At(c, "returning") /\ call[c].op = "run_execution"
  /\ Finish(c)
  /\ UNCHANGED <<threadVars, handleVars, tableVars, closed>>

\* A breakpoint of the thread's execution flow.
ThreadPause(t) ==
  /\ os[t] = "running" /\ t \in Pausers
  /\ t \in stop_thread => t \in LatePausers
  /\ os' = [os EXCEPT ![t] = "paused"]
  /\ UNCHANGED <<stop_thread, block_event, entry_data, handleVars, tableVars, call, closed>>

ThreadWake(t) ==
  /\ os[t] = "paused" /\ t \in block_event
  /\ os' = [os EXCEPT ![t] = "running"] /\ block_event' = block_event \ {t}
  /\ UNCHANGED <<stop_thread, entry_data, handleVars, tableVars, call, closed>>

\* The callback is over, by itself or by the error _hook_cb throws; the entry
\* data goes with it.
ThreadEnd(t) ==
  /\ os[t] = "running"
  /\ os' = [os EXCEPT ![t] = "ended"] /\ entry_data' = entry_data \ {t}
  /\ UNCHANGED <<stop_thread, block_event, handleVars, tableVars, call, closed>>

\* Lua code of the thread calls a function that needs _object_mutex.
ThreadAsk(t) ==
  /\ os[t] = "running" /\ t \in Askers
  /\ os' = [os EXCEPT ![t] = "asking"]
  /\ UNCHANGED <<stop_thread, block_event, entry_data, handleVars, tableVars, call, closed>>

ThreadAnswered(t) ==
  /\ os[t] = "asking" /\ MutexFree
  /\ os' = [os EXCEPT ![t] = "running"]
  /\ UNCHANGED <<stop_thread, block_event, entry_data, handleVars, tableVars, call, closed>>

-----------------------------------------------------------------------------
(* References and the operations of a handle.                              *)

GetThreadHandle(c, i) ==
  /\ Ready(c, "handles") /\ Find(i)
  /\ refs' = [refs EXCEPT ![c] = @ \cup ({Found(i)} \ {NoThread})]
  /\ UNCHANGED <<threadVars, handleVars, lost, call, closed>>

FreeThreadHandle(c, t) ==
  /\ Ready(c, "handles") /\ t \in refs[c]
  /\ refs' = [refs EXCEPT ![c] = @ \ {t}]
  /\ UNCHANGED <<threadVars, handleVars, thread_data, lost, call, closed>>

StartOn(c, op, point, t) ==
  /\ Ready(c, op) /\ t \in refs[c]
  /\ call' = [call EXCEPT ![c] = [op |-> op, at |-> point, t |-> t]]
  /\ UNCHANGED <<threadVars, handleVars, tableVars, closed>>

StopRunning(c, t) == StartOn(c, "stop", "signal", t)
JoinHandle(c, t) == StartOn(c, "join", "join", t)
Detach(c, t) == t \in handle /\ StartOn(c, "detach", "join_close", t)

SignalStop(c) ==
  /\ At(c, "signal")
  /\ stop_thread' = stop_thread \cup {call[c].t}
  /\ Goto(c, "resume")
  /\ UNCHANGED <<os, block_event, entry_data, handleVars, tableVars, closed>>

\* Mutant: a stop does not resume the thread.
StopWithoutResume(c) ==
  /\ At(c, "resume")
  /\ Goto(c, "join")
  /\ UNCHANGED <<threadVars, handleVars, tableVars, closed>>

StopResume(c) ==
  /\ At(c, "resume")
  /\ block_event' = block_event \cup {call[c].t}
  /\ Goto(c, "join")
  /\ UNCHANGED <<os, stop_thread, entry_data, handleVars, tableVars, closed>>

\* A debugger resumes the thread it holds.
ResumeExecution(c, t) ==
  /\ Ready(c, "resume") /\ t \in refs[c]
  /\ block_event' = block_event \cup {t}
  /\ UNCHANGED <<os, stop_thread, entry_data, handleVars, tableVars, call, closed>>

\* The destructor goes on when its stop_running is over.
EndCall(c) ==
  IF call[c].op = "destroy" THEN GotoOn(c, "stop_all", NoThread) ELSE Finish(c)

JoinTest(c) ==
  /\ At(c, "join")
  /\ IF call[c].t \in handle THEN Goto(c, "join_wait") ELSE EndCall(c)
  /\ UNCHANGED <<threadVars, handleVars, tableVars, closed>>

\* Mutant: the wait has a limit.
JoinWaitTimed(c) ==
  /\ At(c, "join_wait")
  /\ IF call[c].t \in open /\ os[call[c].t] = "ended"
       THEN Goto(c, "join_close") ELSE EndCall(c)
  /\ UNCHANGED <<threadVars, handleVars, tableVars, closed>>

\* A wait that has begun ends with the thread, whoever closes the handle
\* meanwhile; one that begins on a closed handle fails.  One that begins when
\* the handle has been set to invalid is a wait for the process itself
\* (INVALID_HANDLE_VALUE is its pseudo-handle) and never ends: the call then
\* takes no step any more.  That needs a second client that joins or detaches.
JoinWait(c) ==
  /\ At(c, "join_wait")
  /\ \/ os[call[c].t] = "ended" /\ Goto(c, "join_close")
     \/ call[c].t \in handle \ open /\ EndCall(c)
  /\ UNCHANGED <<threadVars, handleVars, tableVars, closed>>

JoinClose(c) ==
  /\ At(c, "join_close")
  /\ open' = IF call[c].t \in handle THEN open \ {call[c].t} ELSE open
  /\ Goto(c, "join_clear")
  /\ UNCHANGED <<threadVars, handle, tableVars, closed>>

JoinClear(c) ==
  /\ At(c, "join_clear")
  /\ handle' = handle \ {call[c].t}
  /\ EndCall(c)
  /\ UNCHANGED <<threadVars, open, tableVars, closed>>

-----------------------------------------------------------------------------
(* The destructor: _stop_all_execution.                                    *)

ListedThreads == {thread_data[i] : i \in Ids} \ {NoThread}

\* Mutant: the threads are only signalled, not joined.
StopAllUnjoined(c) ==
  /\ At(c, "stop_all") /\ MutexFree
  /\ stop_thread' = stop_thread \cup ListedThreads
  /\ Finish(c)
  /\ closed' = TRUE
  /\ UNCHANGED <<os, block_event, entry_data, handleVars, tableVars>>

\* From here to the end _object_mutex is held.
StopAllSignal(c) ==
  /\ At(c, "stop_all") /\ MutexFree
  /\ stop_thread' = stop_thread \cup ListedThreads
  /\ Goto(c, "join_all")
  /\ UNCHANGED <<os, block_event, entry_data, handleVars, tableVars, closed>>

\* Each join of the loop waits for its thread, unless the handle is closed.
StopAllJoin(c) ==
  /\ At(c, "join_all")
  /\ \A t \in ListedThreads : t \in handle /\ t \in open => os[t] = "ended"
  /\ open' = open \ (ListedThreads \cap handle) /\ handle' = handle \ ListedThreads
  /\ thread_data' = [i \in Ids |-> NoThread]
  /\ Finish(c)
  /\ closed' = TRUE
  /\ UNCHANGED <<threadVars, refs, lost>>

-----------------------------------------------------------------------------

ThreadStep(t) ==
  \/ Register(t) \/ ThreadPause(t) \/ ThreadWake(t) \/ ThreadEnd(t)
  \/ ThreadAsk(t) \/ ThreadAnswered(t)

\* What goes on once a client has called.
CallStep(c) ==
  \/ \E t \in Threads : CreateThread(c, t)
  \/ CreateThreadFails(c) \/ RunExecutionReturn(c)
  \/ SignalStop(c) \/ StopResume(c)
  \/ JoinTest(c) \/ JoinWait(c) \/ JoinClose(c) \/ JoinClear(c)
  \/ StopAllSignal(c) \/ StopAllJoin(c)

ControlRequest(c) ==
  \/ RunExecution(c)
  \/ \E i \in Ids : GetThreadHandle(c, i)
  \/ \E t \in Threads : \/ FreeThreadHandle(c, t) \/ StopRunning(c, t)
                        \/ JoinHandle(c, t) \/ Detach(c, t) \/ ResumeExecution(c, t)

ControlNext ==
  \/ \E t \in Threads : ThreadStep(t)
  \/ \E c \in Clients : CallStep(c) \/ WakeSpuriously(c) \/ ControlRequest(c)
=============================================================================
