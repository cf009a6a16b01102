----------------------------- MODULE StateAccess -----------------------------
(***************************************************************************)
(* How OS threads share one Lua main state: thread dependent states        *)
(* (luathread_util.cpp), the state mutex that the patched Lua takes and    *)
(* leaves (lua_lock, lua_unlock), the code mutex of the table of dependent *)
(* states, and the variable watcher, which works on another thread's state.*)
(*                                                                         *)
(* Every API call first asks for the Lua state of the calling thread under *)
(* the code mutex; a thread that has none makes one there, which takes the *)
(* state mutex.  So the order is code mutex, then state mutex.  A watcher, *)
(* and lua_close, take them the other way round.                           *)
(*                                                                         *)
(* The state of thread t is called t.  The state mutex and the code mutex  *)
(* are recursive; a nested pair of lock and unlock changes nothing.        *)
(***************************************************************************)
EXTENDS Naturals, Sequences

CONSTANTS
  Threads,    \* OS threads
  Program,    \* the thread that runs Lua code
  Debugger,   \* the client that pauses it, watches it and closes the state
  Known,      \* threads that have used the state before, its maker included
  Leavers,    \* threads that end
  Passed,     \* the states clients hand to the API
  Main,       \* the main state
  NoThread

States == Threads \cup {Main}

ASSUME AccessAssumption ==
  /\ Program \in Threads /\ Debugger \in Threads /\ Program # Debugger
  /\ Known \subseteq Threads /\ Leavers \subseteq Threads
  /\ Passed \subseteq States
  /\ Main \notin Threads /\ NoThread \notin Threads

VARIABLES
  pc,      \* thread -> where it is
  next,    \* thread -> what its call does once it has its state
  inLua,   \* thread -> is it inside lua_pcall?
  from,    \* thread -> the state its call was given
  entry,   \* thread -> its entry for Main in _thread_data: "none", "disabled", "enabled"
  life,    \* thread -> what keeps its state: "stack", "storage", nothing ("loose"); or "freed"
  pushed,  \* state -> the new states that other threads have pushed on its stack
  code,    \* owner of _code_mutex
  lock,    \* owner of the state mutex
  closed   \* has lua_close begun?

vars == <<pc, next, inLua, from, entry, life, pushed, code, lock, closed>>
table == <<entry, life, pushed>>
mode == <<next, inLua, from, closed>>

\* Where a thread can be in a call; "out" is between calls, "gone" has ended.
Places == {"out", "swap", "new", "pop", "anchor", "body", "lua", "yield", "c", "paused",
  "watch", "off", "read", "on", "unwatch", "leave", "gone", "close", "closing"}

\* Every field of the table, the mutexes and the threads stays in its type.
TypeOK ==
  /\ pc \in [Threads -> Places]
  /\ next \in [Threads -> {"body", "off"}]
  /\ inLua \in [Threads -> BOOLEAN]
  /\ from \in [Threads -> States]
  /\ entry \in [Threads -> {"none", "disabled", "enabled"}]
  /\ life \in [Threads -> {"none", "stack", "loose", "storage", "freed"}]
  /\ pushed \in [States -> Seq(Threads)]
  /\ code \in Threads \cup {NoThread}
  /\ lock \in Threads \cup {NoThread}
  /\ closed \in BOOLEAN

\* lua_newstate: its maker has a dependent state already.
Init ==
  /\ pc = [t \in Threads |-> "out"]
  /\ next = [t \in Threads |-> "body"]
  /\ inLua = [t \in Threads |-> FALSE]
  /\ from = [t \in Threads |-> Main]
  /\ entry = [t \in Threads |-> IF t \in Known THEN "enabled" ELSE "none"]
  /\ life = [t \in Threads |-> IF t \in Known THEN "storage" ELSE "none"]
  /\ pushed = [s \in States |-> <<>>]
  /\ code = NoThread
  /\ lock = NoThread
  /\ closed = FALSE

CodeFree(t) == code \in {NoThread, t}
LockFree(t) == lock \in {NoThread, t}
Go(t, there) == pc' = [pc EXCEPT ![t] = there]
Home(t) == IF inLua[t] THEN "c" ELSE "out"

-----------------------------------------------------------------------------
(* lua_swapwithtdependent, require_dependent_state                          *)

\* Any API call of a thread that is outside, in a C function or in a hook.
Call(t) ==
  /\ pc[t] \in {"out", "c"} /\ ~closed
  /\ Go(t, "swap")
  /\ next' = [next EXCEPT ![t] = "body"]
  /\ \E s \in {s \in Passed : s = Main \/ life[s] # "none"} : from' = [from EXCEPT ![t] = s]
  /\ UNCHANGED <<inLua, closed, table, code, lock>>

Swap(t) ==
  /\ pc[t] = "swap" /\ CodeFree(t)
  /\ \/ /\ entry[t] # "none"
        /\ Go(t, next[t])
        /\ code' = code
     \/ /\ entry[t] = "none"
        /\ Go(t, "new")
        /\ code' = t
  /\ UNCHANGED <<mode, table, lock>>

\* lua_newthread pushes the new state on the stack of the one it is given.
NewThread(t) ==
  /\ pc[t] = "new" /\ LockFree(t)
  /\ Go(t, "pop")
  /\ pushed' = [pushed EXCEPT ![from[t]] = Append(@, t)]
  /\ life' = [life EXCEPT ![t] = "stack"]
  /\ entry' = [entry EXCEPT ![t] = "disabled"]
  /\ UNCHANGED <<mode, code, lock>>

\* Mutant: the new state stays on the stack.
PopNewForgotten(t) ==
  /\ pc[t] = "pop" /\ LockFree(t)
  /\ Go(t, "anchor")
  /\ entry' = [entry EXCEPT ![t] = "enabled"]
  /\ UNCHANGED <<mode, code, lock, pushed, life>>

\* lua_pop takes what is on top; until the next step nothing anchors it.  What
\* the owner of that stack pushes itself is not in `pushed`: see OwnersStandStill.
PopNew(t) ==
  /\ pc[t] = "pop" /\ LockFree(t)
  /\ Go(t, "anchor")
  /\ LET stack == pushed[from[t]]
         popped == stack[Len(stack)]
     IN  /\ pushed' = [pushed EXCEPT ![from[t]] = SubSeq(stack, 1, Len(stack) - 1)]
         /\ life' = [life EXCEPT ![popped] = IF @ = "stack" THEN "loose" ELSE @]
  /\ entry' = [entry EXCEPT ![t] = "enabled"]
  /\ UNCHANGED <<mode, code, lock>>

\* _register_thread_to_internal keeps the state in the internal storage.
Anchored(t) == [life EXCEPT ![t] = IF @ = "freed" THEN @ ELSE "storage"]

\* Mutant: the code mutex is not left.
AnchorKeepsCode(t) ==
  /\ pc[t] = "anchor" /\ LockFree(t)
  /\ Go(t, next[t])
  /\ life' = Anchored(t)
  /\ UNCHANGED <<mode, entry, pushed, code, lock>>

\* Another collection may have freed it by now.  The code mutex is left.
Anchor(t) ==
  /\ pc[t] = "anchor" /\ LockFree(t)
  /\ Go(t, next[t])
  /\ life' = Anchored(t)
  /\ code' = NoThread
  /\ UNCHANGED <<mode, entry, pushed, lock>>

-----------------------------------------------------------------------------
(* What a call does with the state mutex                                    *)

\* A collection by t frees the states nothing keeps; t's own is running.
Collected(t) == [u \in Threads |-> IF u # t /\ life[u] = "loose" THEN "freed" ELSE life[u]]

\* A call that does not run Lua code: lua_lock, its work, lua_unlock.
Body(t) ==
  /\ pc[t] = "body" /\ LockFree(t)
  /\ Go(t, Home(t))
  /\ life' \in {life, Collected(t)}
  /\ UNCHANGED <<mode, entry, pushed, code, lock>>

\* lua_pcall enters Lua code with the mutex held.
EnterLua(t) ==
  /\ pc[t] = "body" /\ t = Program /\ ~inLua[t] /\ lock = NoThread
  /\ Go(t, "lua")
  /\ inLua' = [inLua EXCEPT ![t] = TRUE]
  /\ lock' = t
  /\ UNCHANGED <<next, from, closed, table, code>>

Collect(t) ==
  /\ pc[t] = "lua"
  /\ life' = Collected(t)
  /\ UNCHANGED <<pc, mode, entry, pushed, code, lock>>

\* luai_threadyield leaves the mutex and takes it again.
ThreadYield(t) ==
  /\ pc[t] = "lua"
  /\ Go(t, "yield")
  /\ lock' = NoThread
  /\ UNCHANGED <<mode, table, code>>

\* Mutant: a C function is called with the mutex held.
CallCLocked(t) ==
  /\ pc[t] = "lua"
  /\ Go(t, "c")
  /\ UNCHANGED <<mode, table, code, lock>>

\* A C function or a hook is called with the mutex left.
CallC(t) ==
  /\ pc[t] = "lua"
  /\ Go(t, "c")
  /\ lock' = NoThread
  /\ UNCHANGED <<mode, table, code>>

\* Back in Lua code, after a C function, a hook or a yield.
BackToLua(t) ==
  /\ pc[t] \in {"yield", "c"} /\ inLua[t] /\ LockFree(t)
  /\ Go(t, "lua")
  /\ lock' = t
  /\ UNCHANGED <<mode, table, code>>

LeaveLua(t) ==
  /\ pc[t] = "lua"
  /\ Go(t, "out")
  /\ inLua' = [inLua EXCEPT ![t] = FALSE]
  /\ lock' = NoThread
  /\ UNCHANGED <<next, from, closed, table, code>>

\* The execution flow pauses the program in a hook; the debugger resumes it.
Pause(t) ==
  /\ pc[t] = "c"
  /\ Go(t, "paused")
  /\ UNCHANGED <<mode, table, code, lock>>

Resume(t) ==
  /\ t = Debugger /\ pc[t] = "out" /\ pc[Program] = "paused"
  /\ Go(Program, "c")
  /\ UNCHANGED <<mode, table, code, lock>>

-----------------------------------------------------------------------------
(* variable_watcher: _lock_state, a reading, _unlock_state                  *)

\* The debugger watches the program while it is paused.
Watch(t) ==
  /\ t = Debugger /\ pc[t] = "out" /\ pc[Program] = "paused" /\ ~closed
  /\ Go(t, "watch")
  /\ UNCHANGED <<mode, table, code, lock>>

\* lock_state, then thread_dependent_enable asks for the own state.
WatchLock(t) ==
  /\ pc[t] = "watch" /\ LockFree(t)
  /\ Go(t, "swap")
  /\ lock' = t
  /\ next' = [next EXCEPT ![t] = "off"]
  /\ from' = [from EXCEPT ![t] = Program]
  /\ UNCHANGED <<inLua, closed, table, code>>

\* thread_dependent_enable(_state, false); lua_close does the same.
Disable(t) ==
  /\ pc[t] = "off" /\ CodeFree(t)
  /\ Go(t, IF closed THEN "close" ELSE "read")
  /\ entry' = [entry EXCEPT ![t] = "disabled"]
  /\ UNCHANGED <<mode, life, pushed, code, lock>>

\* The API calls of the reading go to the watched state.
Read(t) ==
  /\ pc[t] = "read" /\ CodeFree(t)
  /\ Go(t, "on")
  /\ UNCHANGED <<mode, table, code, lock>>

Enable(t) ==
  /\ pc[t] = "on" /\ CodeFree(t)
  /\ Go(t, "unwatch")
  /\ entry' = [entry EXCEPT ![t] = "enabled"]
  /\ UNCHANGED <<mode, life, pushed, code, lock>>

Unwatch(t) ==
  /\ pc[t] = "unwatch"
  /\ Go(t, "out")
  /\ lock' = NoThread
  /\ UNCHANGED <<mode, table, code>>

-----------------------------------------------------------------------------
(* The end of a thread, and of the state                                    *)

\* _deinit_thread, called as the thread detaches.
Leave(t) ==
  /\ t \in Leavers /\ pc[t] = "out" /\ CodeFree(t)
  /\ \/ /\ entry[t] = "none"
        /\ Go(t, "gone")
        /\ code' = code
     \/ /\ entry[t] # "none"
        /\ Go(t, "leave")
        /\ code' = t
  /\ UNCHANGED <<mode, table, lock>>

\* It anchors its state once more, under the main state's name, and goes.
LeaveAnchor(t) ==
  /\ pc[t] = "leave" /\ LockFree(t)
  /\ Go(t, "gone")
  /\ entry' = [entry EXCEPT ![t] = "none"]
  /\ code' = NoThread
  /\ UNCHANGED <<mode, life, pushed, lock>>

\* The client closes the state once nobody will call the API with it again;
\* the program's thread has been joined, or never started.
Close(t) ==
  /\ t = Debugger /\ pc[t] = "out" /\ ~closed
  /\ \A u \in Threads \ {t} : pc[u] \in {"out", "leave", "gone"}
  /\ pc[Program] = "gone" \/ entry[Program] = "none"
  /\ closed' = TRUE
  /\ Go(t, "swap")
  /\ next' = [next EXCEPT ![t] = "off"]
  /\ from' = [from EXCEPT ![t] = Main]
  /\ UNCHANGED <<inLua, table, code, lock>>

\* lua_close keeps the state mutex to the end ...
CloseLock(t) ==
  /\ pc[t] = "close" /\ LockFree(t)
  /\ Go(t, "closing")
  /\ lock' = t
  /\ UNCHANGED <<mode, table, code>>

\* ... where reset_dependent_state empties the table and the mutex is deleted.
CloseFinish(t) ==
  /\ pc[t] = "closing" /\ CodeFree(t)
  /\ Go(t, "out")
  /\ entry' = [u \in Threads |-> "none"]
  /\ lock' = NoThread
  /\ UNCHANGED <<mode, life, pushed, code>>

-----------------------------------------------------------------------------
\* What a thread does by itself once it has begun a call.
Step(t) ==
  \/ Swap(t) \/ NewThread(t) \/ PopNew(t) \/ Anchor(t)
  \/ Body(t) \/ EnterLua(t) \/ ThreadYield(t) \/ CallC(t) \/ BackToLua(t) \/ LeaveLua(t)
  \/ WatchLock(t) \/ Disable(t) \/ Read(t) \/ Enable(t) \/ Unwatch(t)
  \/ LeaveAnchor(t) \/ CloseLock(t) \/ CloseFinish(t)

Next == \E t \in Threads :
  \/ Step(t) \/ Call(t) \/ Collect(t) \/ Pause(t) \/ Resume(t)
  \/ Watch(t) \/ Leave(t) \/ Close(t)

Spec == Init /\ [][Next]_vars

\* A thread that waits for a mutex gets it if it becomes free again and again
\* (Windows queues those who wait); Lua code comes to a point where it leaves
\* the mutex, which a loop without allocations, calls and hooks never does.
FairSpec == Spec /\ \A t \in Threads : SF_vars(Step(t))

-----------------------------------------------------------------------------
WantsCode(t) == pc[t] \in {"swap", "off", "read", "on", "closing"}
WantsLock(t) == pc[t] \in {"new", "pop", "anchor", "leave"}

\* Nobody waits for the state mutex with the code mutex in hand while the
\* owner of the state mutex waits for the code mutex.
NoLockCycle == ~ \E t, u \in Threads :
  /\ t # u
  /\ code = t /\ WantsLock(t)
  /\ lock = u /\ WantsCode(u)

\* The value require_dependent_state pops off the stack of the state it was
\* given is the state it has pushed there, not another thread's.
NewStateOnTop == \A t \in Threads :
  pc[t] = "pop" => LET stack == pushed[from[t]]
                   IN  stack # <<>> /\ stack[Len(stack)] = t

\* While a new state is pushed on a stack and popped again, the stack's owner
\* does not work on it: it belongs to the main state, whose calls go to the
\* states of the calling threads, or to a thread that is parked in a hook.
OwnersStandStill == \A t \in Threads :
  pc[t] \in {"new", "pop"} => from[t] = Main \/ pc[from[t]] = "paused"

\* A program that is not parked in a hook has only its own values on its
\* stack, whoever called the API with its state.
StackIsMine == pc[Program] \notin {"paused", "gone"} => pushed[Program] = <<>>

\* The state an entry points to has not been freed.  (Does not hold: see
\* PopNew.)
StatesStayAlive == \A t \in Threads : entry[t] # "none" => life[t] # "freed"

\* A thread that has gone leaves no state behind.  (Does not hold: see
\* LeaveAnchor.)
GoneLeaveNothing == \A t \in Threads : pc[t] = "gone" /\ ~closed => life[t] # "storage"

\* Every API call, watcher reading, detach and close comes to an end.
CallsReturn == \A t \in Threads :
  (pc[t] \notin {"out", "c", "lua", "paused", "gone"}) ~> (pc[t] \in {"out", "c", "lua", "gone"})
=============================================================================
