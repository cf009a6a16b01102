------------------------- MODULE StateAndPrintProofs ------------------------
(***************************************************************************)
(* For any number of threads, when only the program and the debugger are   *)
(* new to the Lua state or end: no cycle of waits for the two mutexes, no  *)
(* foreign value on the stack of a running program; and the state a thread *)
(* makes is the one it pops.                                               *)
(*                                                                         *)
(* The argument: states are made under the code mutex, one at a time; only *)
(* the debugger holds the state mutex while it wants the code mutex, and   *)
(* then the program is parked, or has gone, and a client that knows the    *)
(* state never wants the state mutex with the code mutex in hand.          *)
(***************************************************************************)
EXTENDS StateAccess, PrintOverride, TLAPS

Making == {"new", "pop", "anchor"}

\* Who has the code mutex, and where the one new state is pushed.
CodeInv ==
  /\ \A t \in Threads : code = t <=> pc[t] \in Making \cup {"leave"}
  /\ \A s \in States : \A t \in Threads :
       pc[t] = "pop" /\ from[t] = s => pushed[s] = <<t>>
  /\ \A s \in States :
       (\A t \in Threads : ~(pc[t] = "pop" /\ from[t] = s)) => pushed[s] = <<>>

AInv == TypeOK /\ CodeInv

LEMMA AInvInit == Init => AInv
<1> SUFFICES ASSUME Init PROVE AInv
  OBVIOUS
<1> USE AccessAssumption DEF Init, States
<1>1. pushed \in [States -> Seq(Threads)]
  OBVIOUS
<1>2. TypeOK
  BY <1>1 DEF TypeOK, Places
<1>3. CodeInv
  BY DEF CodeInv, Making
<1> QED BY <1>2, <1>3 DEF AInv

LEMMA AInvStep == AInv /\ [Next]_vars => AInv'
<1> SUFFICES ASSUME AInv, NEW t \in Threads,
                    \/ Step(t) \/ Call(t) \/ Collect(t) \/ Pause(t) \/ Resume(t)
                    \/ Watch(t) \/ Leave(t) \/ Close(t) \/ UNCHANGED vars
             PROVE  AInv'
  BY AccessAssumption DEF Next
<1> USE AccessAssumption DEF AInv, TypeOK, States, Places, Go, mode, table, CodeInv, Making
<1>1. CASE Swap(t)
  <2>. UNCHANGED <<next, inLua, from, closed, entry, life, pushed, lock>>
    BY <1>1 DEF Swap
  <2>1. CASE entry[t] # "none"
    <3>1. pc' = [pc EXCEPT ![t] = next[t]] /\ code' = code /\ pc[t] = "swap"
      BY <1>1, <2>1 DEF Swap
    <3> QED BY <3>1
  <2>2. CASE entry[t] = "none"
    <3>1. /\ pc' = [pc EXCEPT ![t] = "new"] /\ code' = t
          /\ pc[t] = "swap" /\ code \in {NoThread, t}
      BY <1>1, <2>2 DEF Swap, CodeFree
    <3> QED BY <3>1
  <2> QED BY <2>1, <2>2
<1>2. CASE NewThread(t)
  <2>1. pushed[from[t]] = <<>>
    BY <1>2 DEF NewThread
  <2>2. pushed' = [pushed EXCEPT ![from[t]] = <<t>>]
    BY <1>2, <2>1 DEF NewThread
  <2>3. TypeOK' BY <1>2 DEF NewThread
  <2>4. CodeInv'
    <3>1. /\ pc' = [pc EXCEPT ![t] = "pop"] /\ pc[t] = "new"
          /\ from' = from /\ code' = code
      BY <1>2 DEF NewThread
    <3> QED BY <2>2, <3>1
  <2> QED BY <2>3, <2>4
<1>3. CASE PopNew(t)
  <2>1. pushed[from[t]] = <<t>>
    BY <1>3 DEF PopNew
  <2>2. pushed' = [pushed EXCEPT ![from[t]] = <<>>]
    <3>1. SubSeq(<<t>>, 1, Len(<<t>>) - 1) = <<>>
      OBVIOUS
    <3> QED BY <1>3, <2>1, <3>1 DEF PopNew
  <2>3. life' = [life EXCEPT ![t] = IF @ = "stack" THEN "loose" ELSE @]
    <3>1. <<t>>[Len(<<t>>)] = t
      OBVIOUS
    <3> QED BY <1>3, <2>1, <3>1 DEF PopNew
  <2>4. TypeOK'
    <3>1. /\ pc' = [pc EXCEPT ![t] = "anchor"]
          /\ entry' = [entry EXCEPT ![t] = "enabled"]
          /\ UNCHANGED <<next, inLua, from, closed, code, lock>>
      BY <1>3 DEF PopNew
    <3>2. pushed' \in [States -> Seq(Threads)] BY <2>2
    <3>3. life' \in [Threads -> {"none", "stack", "loose", "storage", "freed"}] BY <2>3
    <3> QED BY <3>1, <3>2, <3>3
  <2>5. CodeInv' BY <1>3, <2>2, <2>4 DEF PopNew
  <2> QED BY <2>4, <2>5
<1>4. CASE Anchor(t)
  BY <1>4 DEF Anchor, Anchored
<1>5. CASE Call(t)
  BY <1>5 DEF Call
<1>6. CASE Body(t)
  BY <1>6 DEF Body, Home, Collected, LockFree
<1>7. CASE EnterLua(t)
  BY <1>7 DEF EnterLua
<1>8. CASE Collect(t)
  BY <1>8 DEF Collect, Collected
<1>9. CASE ThreadYield(t)
  BY <1>9 DEF ThreadYield
<1>10. CASE CallC(t)
  BY <1>10 DEF CallC
<1>11. CASE BackToLua(t)
  BY <1>11 DEF BackToLua
<1>12. CASE LeaveLua(t)
  BY <1>12 DEF LeaveLua
<1>13. CASE Pause(t)
  BY <1>13 DEF Pause
<1>14. CASE Resume(t)
  BY <1>14 DEF Resume
<1>15. CASE Watch(t)
  BY <1>15 DEF Watch
<1>16. CASE WatchLock(t)
  BY <1>16 DEF WatchLock
<1>17. CASE Disable(t)
  BY <1>17 DEF Disable
<1>18. CASE Read(t)
  BY <1>18 DEF Read
<1>19. CASE Enable(t)
  BY <1>19 DEF Enable
<1>20. CASE Unwatch(t)
  BY <1>20 DEF Unwatch
<1>21. CASE Leave(t)
  <2>. UNCHANGED <<next, inLua, from, closed, entry, life, pushed, lock>>
    BY <1>21 DEF Leave
  <2>1. CASE entry[t] = "none"
    <3>1. pc' = [pc EXCEPT ![t] = "gone"] /\ code' = code /\ pc[t] = "out"
      BY <1>21, <2>1 DEF Leave
    <3> QED BY <3>1
  <2>2. CASE entry[t] # "none"
    <3>1. /\ pc' = [pc EXCEPT ![t] = "leave"] /\ code' = t
          /\ pc[t] = "out" /\ code \in {NoThread, t}
      BY <1>21, <2>2 DEF Leave, CodeFree
    <3> QED BY <3>1
  <2> QED BY <2>1, <2>2
<1>22. CASE LeaveAnchor(t)
  BY <1>22 DEF LeaveAnchor
<1>23. CASE Close(t)
  BY <1>23 DEF Close
<1>24. CASE CloseLock(t)
  BY <1>24 DEF CloseLock
<1>25. CASE CloseFinish(t)
  BY <1>25 DEF CloseFinish
<1>26. CASE UNCHANGED vars
  BY <1>26 DEF vars
<1> QED
  BY <1>1, <1>2, <1>3, <1>4, <1>5, <1>6, <1>7, <1>8, <1>9, <1>10, <1>11,
    <1>12, <1>13, <1>14, <1>15, <1>16, <1>17, <1>18, <1>19, <1>20, <1>21,
    <1>22, <1>23, <1>24, <1>25, <1>26 DEF Step

\* Every thread, mutex and state keeps its range, for any number of threads.
THEOREM TypeCorrect == Spec => []TypeOK
<1>1. AInv => TypeOK
  BY DEF AInv
<1> QED BY <1>1, AInvInit, AInvStep, PTL DEF Spec

\* However many threads come new to the Lua state at once, they do not pop each
\* other's states: the code mutex is held from the push to the pop.  (The owner
\* of the stack may still push between the two: NewStatesOnTop.)
LEMMA NewStatesOrdered == AInv => NewStateOnTop
<1> SUFFICES ASSUME AInv, NEW t \in Threads, pc[t] = "pop"
           PROVE  pushed[from[t]] # <<>> /\ pushed[from[t]][Len(pushed[from[t]])] = t
  BY DEF NewStateOnTop
<1>1. pushed[from[t]] = <<t>>
  BY DEF AInv, TypeOK, CodeInv
<1>2. <<t>> # <<>> /\ <<t>>[Len(<<t>>)] = t
  OBVIOUS
<1> QED BY <1>1, <1>2

-----------------------------------------------------------------------------
\* Only the program and the debugger come new to the state, or end while it
\* is in use; nobody passes the program's state but the watcher.
OthersKnown == \A t \in Threads \ {Program, Debugger} : t \in Known /\ t \notin Leavers
Discipline == OthersKnown /\ Program \notin Passed

\* The watcher holds the state mutex from WatchLock to Unwatch.
Watching(t) ==
  \/ pc[t] \in {"read", "on", "unwatch"}
  \/ next[t] = "off" /\ ~closed /\ pc[t] \in Making \cup {"swap", "off"}

LockInv == \A t \in Threads : lock = t <=> pc[t] \in {"lua", "closing"} \/ Watching(t)

DebuggerInv ==
  /\ \A t \in Threads :
       next[t] = "off" \/ pc[t] \in {"watch", "off", "read", "on", "unwatch", "close", "closing"}
         => t = Debugger
  /\ pc[Debugger] = "watch" \/ Watching(Debugger) => pc[Program] = "paused" /\ ~closed
  /\ pc[Debugger] \in {"close", "closing"} => closed
  /\ pc[Debugger] = "off" => next[Debugger] = "off"

ClientInv ==
  /\ \A t \in Threads : pc[t] = "leave" => entry[t] # "none"
  /\ \A t \in Threads \ {Program, Debugger} :
       /\ pc[t] \notin Making \cup {"leave"}
       /\ pc[t] = "swap" => entry[t] # "none"
       /\ ~closed => entry[t] # "none"

ClosedInv == closed =>
  /\ \A t \in Threads \ {Debugger} : pc[t] \in {"out", "gone"}
  /\ pc[Program] = "gone" \/ entry[Program] = "none"

StackInv == \A t \in Threads :
   from[t] = Program /\ pc[t] \in Making \cup {"swap"} => Watching(t)

DInv == LockInv /\ DebuggerInv /\ ClientInv /\ ClosedInv /\ StackInv

LEMMA DInvInit == ASSUME Discipline PROVE Init => DInv
  BY AccessAssumption
  DEF Init, Discipline, OthersKnown, DInv, LockInv, DebuggerInv, ClientInv, ClosedInv,
    StackInv, Watching, Making

LEMMA DInvStep == ASSUME Discipline PROVE AInv /\ DInv /\ [Next]_vars => DInv'
<1> SUFFICES ASSUME TypeOK, DInv, NEW t \in Threads,
                    \/ Step(t) \/ Call(t) \/ Collect(t) \/ Pause(t) \/ Resume(t)
                    \/ Watch(t) \/ Leave(t) \/ Close(t) \/ UNCHANGED vars
             PROVE  DInv'
  BY AccessAssumption DEF Next, AInv
<1> USE AccessAssumption
    DEF TypeOK, States, Places, Go, mode, table, Discipline, OthersKnown, CodeFree, LockFree,
      DInv, LockInv, DebuggerInv, ClientInv, ClosedInv, StackInv, Watching, Making
<1>1. CASE Swap(t)
  <2>. UNCHANGED <<next, inLua, from, closed, entry, lock>>
    BY <1>1 DEF Swap
  <2>1. CASE entry[t] = "none"
    <3>. pc' = [pc EXCEPT ![t] = "new"] /\ pc[t] = "swap"
      BY <1>1, <2>1 DEF Swap
    <3>1. LockInv' BY <2>1
    <3>2. DebuggerInv' BY <2>1
    <3>3. ClientInv' BY <2>1
    <3>4. ClosedInv' BY <2>1
    <3>5. StackInv' BY <2>1
    <3> QED BY <3>1, <3>2, <3>3, <3>4, <3>5
  <2>2. CASE entry[t] # "none"
    <3>. pc' = [pc EXCEPT ![t] = next[t]] /\ pc[t] = "swap"
      BY <1>1, <2>2 DEF Swap
    <3>1. LockInv' BY <2>2
    <3>2. DebuggerInv' BY <2>2
    <3>3. ClientInv' BY <2>2
    <3>4. ClosedInv' BY <2>2
    <3>5. StackInv' BY <2>2
    <3> QED BY <3>1, <3>2, <3>3, <3>4, <3>5
  <2> QED BY <2>1, <2>2
<1>2. CASE NewThread(t)
  BY <1>2 DEF NewThread
<1>3. CASE PopNew(t)
  <2>1. LockInv' BY <1>3 DEF PopNew
  <2>2. DebuggerInv' BY <1>3 DEF PopNew
  <2>3. ClientInv' BY <1>3 DEF PopNew
  <2>4. ClosedInv' BY <1>3 DEF PopNew
  <2>5. StackInv' BY <1>3 DEF PopNew
  <2> QED BY <2>1, <2>2, <2>3, <2>4, <2>5
<1>4. CASE Anchor(t)
  BY <1>4 DEF Anchor, Anchored
<1>5. CASE Call(t)
  BY <1>5 DEF Call
<1>6. CASE Body(t)
  BY <1>6 DEF Body, Home, Collected
<1>7. CASE EnterLua(t)
  BY <1>7 DEF EnterLua
<1>8. CASE Collect(t)
  BY <1>8 DEF Collect, Collected
<1>9. CASE ThreadYield(t)
  BY <1>9 DEF ThreadYield
<1>10. CASE CallC(t)
  BY <1>10 DEF CallC
<1>11. CASE BackToLua(t)
  BY <1>11 DEF BackToLua
<1>12. CASE LeaveLua(t)
  BY <1>12 DEF LeaveLua
<1>13. CASE Pause(t)
  BY <1>13 DEF Pause
<1>14. CASE Resume(t)
  BY <1>14 DEF Resume
<1>15. CASE Watch(t)
  BY <1>15 DEF Watch
<1>16. CASE WatchLock(t)
  BY <1>16 DEF WatchLock
<1>17. CASE Disable(t)
  BY <1>17 DEF Disable
<1>18. CASE Read(t)
  BY <1>18 DEF Read
<1>19. CASE Enable(t)
  BY <1>19 DEF Enable
<1>20. CASE Unwatch(t)
  BY <1>20 DEF Unwatch
<1>21. CASE Leave(t)
  <2>. UNCHANGED <<next, inLua, from, closed, entry, lock>>
    BY <1>21 DEF Leave
  <2>1. CASE entry[t] = "none"
    <3>. pc' = [pc EXCEPT ![t] = "gone"] /\ pc[t] = "out"
      BY <1>21, <2>1 DEF Leave
    <3>1. LockInv' BY <2>1
    <3>2. DebuggerInv' BY <2>1
    <3>3. ClientInv' BY <2>1
    <3>4. ClosedInv' BY <2>1
    <3>5. StackInv' BY <2>1
    <3> QED BY <3>1, <3>2, <3>3, <3>4, <3>5
  <2>2. CASE entry[t] # "none"
    <3>. pc' = [pc EXCEPT ![t] = "leave"] /\ pc[t] = "out"
      BY <1>21, <2>2 DEF Leave
    <3>1. LockInv' BY <2>2
    <3>2. DebuggerInv' BY <2>2
    <3>3. ClientInv' BY <2>2, <1>21 DEF Leave
    <3>4. ClosedInv' BY <2>2, <1>21 DEF Leave
    <3>5. StackInv' BY <2>2
    <3> QED BY <3>1, <3>2, <3>3, <3>4, <3>5
  <2> QED BY <2>1, <2>2
<1>22. CASE LeaveAnchor(t)
  BY <1>22 DEF LeaveAnchor
<1>23. CASE Close(t)
  <2>1. LockInv'
    <3>1. /\ t = Debugger /\ pc[t] = "out" /\ pc' = [pc EXCEPT ![t] = "swap"]
          /\ closed' = TRUE /\ lock' = lock
          /\ \A u \in Threads \ {t} : pc[u] \in {"out", "leave", "gone"}
      BY <1>23 DEF Close
    <3>2. \A u \in Threads : ~Watching(u) /\ ~Watching(u)'
      BY <3>1
    <3> QED BY <3>1, <3>2
  <2>2. DebuggerInv' BY <1>23 DEF Close
  <2>3. ClientInv' BY <1>23 DEF Close
  <2>4. ClosedInv' BY <1>23 DEF Close
  <2>5. StackInv' BY <1>23 DEF Close
  <2> QED BY <2>1, <2>2, <2>3, <2>4, <2>5
<1>24. CASE CloseLock(t)
  BY <1>24 DEF CloseLock
<1>25. CASE CloseFinish(t)
  <2>1. LockInv' BY <1>25 DEF CloseFinish
  <2>2. DebuggerInv' BY <1>25 DEF CloseFinish
  <2>3. ClientInv'
    <3>1. t = Debugger /\ closed /\ pc' = [pc EXCEPT ![t] = "out"] /\ closed' = closed
      BY <1>25 DEF CloseFinish
    <3>2. \A u \in Threads : pc'[u] \in {"out", "gone"}
      BY <3>1
    <3> QED BY <3>1, <3>2
  <2>4. ClosedInv' BY <1>25 DEF CloseFinish
  <2>5. StackInv' BY <1>25 DEF CloseFinish
  <2> QED BY <2>1, <2>2, <2>3, <2>4, <2>5
<1>26. CASE UNCHANGED vars
  BY <1>26 DEF vars
<1> QED
  BY <1>1, <1>2, <1>3, <1>4, <1>5, <1>6, <1>7, <1>8, <1>9, <1>10, <1>11,
    <1>12, <1>13, <1>14, <1>15, <1>16, <1>17, <1>18, <1>19, <1>20, <1>21,
    <1>22, <1>23, <1>24, <1>25, <1>26 DEF Step

\* No thread waits for the state mutex with the code mutex in hand while the
\* owner of the state mutex waits for the code mutex, for any number of
\* clients that know the state.
THEOREM NoCycleOfWaits == ASSUME Discipline PROVE Spec => []NoLockCycle
<1>1. DInv => NoLockCycle
  BY DEF DInv, LockInv, DebuggerInv, ClientInv, ClosedInv, Watching, Making, NoLockCycle,
    WantsLock, WantsCode
<1> QED BY <1>1, AInvInit, AInvStep, DInvInit, DInvStep, PTL DEF Spec

\* A running program finds no foreign value on its stack.
THEOREM StacksAreKept == ASSUME Discipline PROVE Spec => []StackIsMine
<1>1. AInv /\ DInv => StackIsMine
  BY AccessAssumption
  DEF AInv, TypeOK, States, CodeInv, DInv, StackInv, DebuggerInv, Watching, Making, StackIsMine
<1> QED BY <1>1, AInvInit, AInvStep, DInvInit, DInvStep, PTL DEF Spec

\* Clients hand the main state to the API, the watcher the program's.
MainPassed == Passed = {Main}
FromInv == \A t \in Threads : from[t] \in {Main, Program}

LEMMA FromInvInit == Init => FromInv
  BY DEF Init, FromInv

LEMMA FromInvStep == ASSUME MainPassed PROVE AInv /\ FromInv /\ [Next]_vars => FromInv'
<1> SUFFICES ASSUME TypeOK, FromInv, NEW t \in Threads,
                    \/ Step(t) \/ Call(t) \/ Collect(t) \/ Pause(t) \/ Resume(t)
                    \/ Watch(t) \/ Leave(t) \/ Close(t) \/ UNCHANGED vars
             PROVE  FromInv'
  BY AccessAssumption DEF Next, AInv
<1> USE DEF FromInv, TypeOK
<1>1. CASE Call(t)
  BY <1>1 DEF Call, MainPassed
<1>2. CASE WatchLock(t)
  BY <1>2 DEF WatchLock
<1>3. CASE Close(t)
  BY <1>3 DEF Close
<1>4. CASE UNCHANGED from
  BY <1>4
<1>5. ASSUME Step(t), ~WatchLock(t) PROVE UNCHANGED from
  BY <1>5 DEF Step, mode, Swap, NewThread, PopNew, Anchor, Body, EnterLua, ThreadYield, CallC,
    BackToLua, LeaveLua, Disable, Read, Enable, Unwatch, LeaveAnchor, CloseLock, CloseFinish
<1>6. ASSUME Collect(t) \/ Pause(t) \/ Resume(t) \/ Watch(t) \/ Leave(t) \/ UNCHANGED vars
      PROVE  UNCHANGED from
  BY <1>6 DEF mode, vars, Collect, Pause, Resume, Watch, Leave
<1> QED BY <1>1, <1>2, <1>3, <1>4, <1>5, <1>6

\* require_dependent_state pops the state it has pushed: threads that come new
\* to the Lua state wait for each other, and the owner of the stack does not use
\* it meanwhile, provided clients hand over the main state only.  With the state
\* of a thread that runs, its owner moves the top between lua_newthread and
\* lua_pop (luathread_util.cpp:272-280).
THEOREM NewStatesOnTop == ASSUME Discipline, MainPassed
                          PROVE  Spec => [](NewStateOnTop /\ OwnersStandStill)
<1>1. AInv /\ DInv /\ FromInv => NewStateOnTop /\ OwnersStandStill
  <2> SUFFICES ASSUME DInv, FromInv, NEW t \in Threads,
                      pc[t] \in {"new", "pop"}, from[t] # Main
               PROVE  pc[from[t]] = "paused"
    BY NewStatesOrdered DEF OwnersStandStill
  <2>1. from[t] = Program
    BY DEF FromInv
  <2>2. Watching(t)
    BY <2>1 DEF DInv, StackInv, Making
  <2>3. t = Debugger
    BY <2>2 DEF DInv, DebuggerInv, Watching
  <2> QED BY <2>1, <2>2, <2>3 DEF DInv, DebuggerInv
<1>2. FromInv /\ AInv /\ [Next]_vars => FromInv'
  BY FromInvStep
<1>3. AInv /\ DInv /\ [Next]_vars => DInv'
  BY DInvStep
<1>4. Init => DInv
  BY DInvInit
<1> QED
  BY <1>1, <1>2, <1>3, <1>4, AInvInit, AInvStep, FromInvInit, PTL DEF Spec

-----------------------------------------------------------------------------
(***************************************************************************)
(* Every message stands in the output in one piece, for any number of      *)
(* printers, listeners and readers, messages of any size and a pipe of any *)
(* capacity; and a single reader never keeps the printers out.             *)
(*                                                                         *)
(* The argument for the first: a printer that has written a part of its    *)
(* message holds the mutex until it has counted the message, so its part   *)
(* is the end of the output; what is counted is not written any more.      *)
(***************************************************************************)

\* A printer in print has one of its messages left.
PrintsLeft == \A p \in Printers : op[p] = "print" => prints[p] < MaxPrints

\* A byte is of a message that is printed, or of the one its printer writes with
\* the mutex in hand; then it is in that message's piece at the end.
EndUnderWay ==
  \A i \in 1..Len(written) : \A p \in Printers : written[i][1] = p =>
    /\ written[i][2] <= prints[p] + 1
    /\ written[i][2] = prints[p] + 1 =>
         mutex = p /\ op[p] = "print" /\ written[Len(written)] = written[i]

PInv == PrintTypes /\ PrintsLeft /\ EndUnderWay /\ MessagesWhole

-----------------------------------------------------------------------------
(* Types.                                                                  *)

\* t goes on in an operation or to another one.
LEMMA BeginsTypes ==
  ASSUME PrintTypes, NEW t \in Callers, NEW o \in Operations, NEW k \in Nat, Begins(t, o, k)
  PROVE  /\ op' \in [Callers -> Operations] /\ n' \in [Callers -> Nat]
         /\ op'[t] = o /\ \A u \in Callers : u # t => op'[u] = op[u]
BY DEF PrintTypes, Begins

\* Enter a mutex, or go on without writing or reading.
LEMMA QuietTypes ==
  ASSUME PrintTypes, NEW t \in Callers, NEW o \in Operations, NEW k \in Nat,
         Begins(t, o, k) \/ UNCHANGED <<op, n>>, mutex' \in Callers \cup {Free},
         UNCHANGED <<pipe, written, prints>>,
         events' \in [Listeners -> BOOLEAN], registered' \subseteq Listeners,
         peeked' \in [Callers -> Seq(Bytes)], attached' = attached
  PROVE  PrintTypes'
<1>1. op' \in [Callers -> Operations] /\ n' \in [Callers -> Nat]
  BY BeginsTypes DEF PrintTypes
<1>. QED  BY <1>1 DEF PrintTypes

\* The pipe's front and what is left of it without its front are pipes.
LEMMA PipeParts ==
  ASSUME PrintTypes, NEW k \in Nat
  PROVE  /\ Front(k) \in Seq(Bytes)
         /\ SubSeq(pipe, Least(k, Len(pipe)) + 1, Len(pipe)) \in Seq(Bytes)
         /\ Len(SubSeq(pipe, Least(k, Len(pipe)) + 1, Len(pipe))) <= Capacity
<1>1. pipe \in Seq(Bytes) /\ Len(pipe) \in Nat /\ Len(pipe) <= Capacity
  BY DEF PrintTypes
<1>. DEFINE l == Least(k, Len(pipe))
<1>2. l \in 0..Len(pipe)
  BY <1>1 DEF Least
<1>. HIDE DEF l
<1>3. SubSeq(pipe, 1, l) \in Seq(Bytes)
  BY <1>1, <1>2
<1>4. SubSeq(pipe, l + 1, Len(pipe)) \in Seq(Bytes)
  BY <1>1, <1>2
<1>5. Len(SubSeq(pipe, l + 1, Len(pipe))) <= Len(pipe)
  BY <1>1, <1>2
<1>6. Len(SubSeq(pipe, l + 1, Len(pipe))) \in Nat
  BY <1>4
<1>7. Capacity \in Nat
  BY PrintAssumption
<1>. QED  BY <1>1, <1>3, <1>4, <1>5, <1>6, <1>7 DEF Front, l

-----------------------------------------------------------------------------
(* Steps that neither write nor count.                                     *)

\* A step that leaves the output alone, and a printer that has the mutex in print.
LEMMA QuietStep ==
  ASSUME PInv, PrintTypes', UNCHANGED <<written, prints>>,
         \A p \in Printers : op'[p] = "print" => op[p] = "print" \/ prints[p] < MaxPrints,
         \A p \in Printers : mutex = p /\ op[p] = "print" => mutex' = p /\ op'[p] = "print"
  PROVE  PInv'
<1>1. PrintsLeft'
  BY DEF PInv, PrintsLeft
<1>2. EndUnderWay'
  BY DEF PInv, EndUnderWay
<1>3. MessagesWhole'
  BY DEF PInv, MessagesWhole
<1>. QED  BY <1>1, <1>2, <1>3 DEF PInv

\* A thread that prints nothing goes on, and leaves the mutex or not.
LEMMA ReaderGoesOn ==
  ASSUME PInv, PrintTypes', NEW r \in Listeners \cup Others,
         NEW o \in Operations, NEW k \in Nat, Begins(r, o, k),
         UNCHANGED <<written, prints>>, mutex' = mutex \/ mutex = r
  PROVE  PInv'
<1>1. r \in Callers /\ r \notin Printers
  BY PrintAssumption DEF Callers
<1>2. \A p \in Printers : op'[p] = op[p]
  BY <1>1, BeginsTypes DEF PInv, Callers
<1>. QED  BY <1>1, <1>2, QuietStep DEF PInv

LEMMA EnterKeeps ==
  ASSUME PInv, NEW t \in Callers, Enter(t)
  PROVE  PInv'
<1>1. PrintTypes'
  BY DEF PInv, PrintTypes, Enter
<1>2. \A p \in Printers : mutex # p
  BY PrintAssumption DEF Enter, Callers
<1>. QED  BY <1>1, <1>2, QuietStep DEF Enter

LEMMA BeginPrintKeeps ==
  ASSUME PInv, NEW p \in Printers, BeginPrint(p)
  PROVE  PInv'
<1>1. p \in Callers /\ Size[p] \in Nat /\ "print" \in Operations
  BY PrintAssumption DEF Callers, Operations, Locking
<1>2. PrintTypes'
  BY <1>1, QuietTypes DEF PInv, PrintTypes, BeginPrint
<1>3. op'[p] = "print" /\ \A u \in Callers : u # p => op'[u] = op[u]
  BY <1>1, BeginsTypes DEF BeginPrint, PInv
<1>. QED  BY <1>2, <1>3, QuietStep DEF BeginPrint, Callers

-----------------------------------------------------------------------------
(* The printer with the mutex in hand.                                     *)

\* What WriteFile adds are l bytes of the message, at the end of the output.
LEMMA WriteFileAdds ==
  ASSUME PInv, NEW p \in Printers, WriteFile(p)
  PROVE  /\ PrintTypes' /\ Len(written') > Len(written)
         /\ \A i \in 1..Len(written) : written'[i] = written[i]
         /\ \A i \in (Len(written) + 1)..Len(written') : written'[i] = <<p, prints[p] + 1>>
         /\ op' = op
<1>. DEFINE l == Least(n[p], Capacity - Len(pipe))
            b == <<p, prints[p] + 1>>
            bytes == [i \in 1..l |-> b]
<1>1. /\ p \in Callers /\ op[p] = "print" /\ n[p] \in Nat /\ n[p] > 0 /\ "print" \in Operations
      /\ pipe \in Seq(Bytes) /\ written \in Seq(Bytes)
      /\ Len(pipe) \in Nat /\ Len(pipe) < Capacity /\ Capacity \in Nat /\ MaxPrints \in Nat
  BY PrintAssumption DEF PInv, PrintTypes, WriteFile, Inside, Callers, Operations, Locking
<1>2. prints[p] \in 0..MaxPrints /\ prints[p] < MaxPrints
  BY <1>1 DEF PInv, PrintTypes, PrintsLeft
<1>3. b \in Bytes
  BY <1>1, <1>2 DEF Bytes
<1>4. l \in Nat /\ l > 0 /\ l <= n[p] /\ l + Len(pipe) <= Capacity
  BY <1>1 DEF Least
<1>5. pipe' = pipe \o bytes /\ written' = written \o bytes /\ Begins(p, "print", n[p] - l)
  BY DEF WriteFile
<1>. HIDE DEF l, b
<1>6. bytes \in Seq(Bytes) /\ Len(bytes) = l
  BY <1>3, <1>4
<1>7. \A i \in 1..l : bytes[i] = b
  OBVIOUS
<1>. HIDE DEF bytes
<1>8. written' \in Seq(Bytes) /\ Len(written') = Len(written) + l
  <2>1. written' \in Seq(Bytes)
    BY <1>1, <1>5, <1>6
  <2>2. Len(written \o bytes) = Len(written) + Len(bytes)
    BY <1>1, <1>6
  <2>. QED  BY <2>1, <2>2, <1>5, <1>6
<1>9. pipe' \in Seq(Bytes) /\ Len(pipe') <= Capacity
  BY <1>1, <1>4, <1>5, <1>6
<1>10. \A i \in 1..Len(written) : written'[i] = written[i]
  BY <1>1, <1>4, <1>5, <1>6
<1>11. \A i \in (Len(written) + 1)..Len(written') : written'[i] = b
  <2>. SUFFICES ASSUME NEW i \in (Len(written) + 1)..Len(written')
                PROVE  written'[i] = b
    OBVIOUS
  <2>1. i - Len(written) \in 1..l
    BY <1>1, <1>4, <1>8
  <2>2. written'[i] = bytes[i - Len(written)]
    BY <1>1, <1>4, <1>5, <1>6, <1>8
  <2>. QED  BY <2>1, <2>2, <1>7
<1>12. op' = op /\ n' \in [Callers -> Nat]
  BY <1>1, <1>4, <1>5 DEF Begins, PInv, PrintTypes
<1>13. PrintTypes'
  BY <1>8, <1>9, <1>12 DEF WriteFile, PInv, PrintTypes
<1>14. Len(written') > Len(written)
  BY <1>1, <1>4, <1>8
<1>. QED  BY <1>10, <1>11, <1>12, <1>13, <1>14 DEF b

LEMMA WriteFileKeeps ==
  ASSUME PInv, NEW p \in Printers, WriteFile(p)
  PROVE  PInv'
<1>. DEFINE b == <<p, prints[p] + 1>>
<1>1. /\ PrintTypes' /\ Len(written') > Len(written) /\ op' = op
      /\ \A i \in 1..Len(written) : written'[i] = written[i]
      /\ \A i \in (Len(written) + 1)..Len(written') : written'[i] = b
  BY WriteFileAdds
<1>2. mutex = p /\ op[p] = "print" /\ mutex' = mutex /\ prints' = prints
  BY DEF WriteFile, Inside
<1>3. /\ written \in Seq(Printers \X (1..MaxPrints)) /\ Len(written) \in Nat /\ Len(written') \in Nat
      /\ prints[p] \in Nat
  <2>1. written \in Seq(Printers \X (1..MaxPrints)) /\ prints[p] \in 0..MaxPrints
    BY DEF PInv, PrintTypes, Bytes
  <2>2. written' \in Seq(Bytes)
    BY <1>1 DEF PrintTypes
  <2>. QED  BY <2>1, <2>2
<1>4. written'[Len(written')] = b
  BY <1>1, <1>3
\* A byte of the message was the last one before.
<1>5. ASSUME NEW i \in 1..Len(written), written[i] = b
      PROVE  written[Len(written)] = b
  <2>1. written[i][1] = p /\ written[i][2] = prints[p] + 1
    BY <1>5 DEF b
  <2>2. written[Len(written)] = written[i]
    BY <2>1 DEF PInv, EndUnderWay
  <2>. QED  BY <2>2, <1>5
<1>6. PrintsLeft'
  BY <1>1, <1>2 DEF PInv, PrintsLeft
<1>7. EndUnderWay'
  <2>. SUFFICES ASSUME NEW i \in 1..Len(written'), NEW q \in Printers, written'[i][1] = q
                PROVE  /\ written'[i][2] <= prints[q] + 1
                       /\ written'[i][2] = prints[q] + 1 =>
                            mutex = q /\ op[q] = "print" /\ written'[Len(written')] = written'[i]
    BY <1>1, <1>2 DEF EndUnderWay
  <2>1. CASE i \in 1..Len(written)
    <3>1. written'[i] = written[i] /\ written[i] \in Printers \X (1..MaxPrints)
      BY <1>1, <1>3, <2>1
    <3>2. written[i][2] <= prints[q] + 1
      BY <3>1, <2>1 DEF PInv, EndUnderWay
    <3>3. CASE written[i][2] = prints[q] + 1
      <4>1. mutex = q
        BY <3>1, <3>3, <2>1 DEF PInv, EndUnderWay
      <4>2. written[i] = b
        BY <4>1, <1>2, <3>1, <3>3
      <4>. QED  BY <4>1, <4>2, <3>1, <3>2, <1>2, <1>4
    <3>. QED  BY <3>1, <3>2, <3>3
  <2>2. CASE i \in (Len(written) + 1)..Len(written')
    BY <1>1, <1>2, <1>3, <1>4, <2>2
  <2>. QED  BY <2>1, <2>2, <1>1, <1>3
<1>8. MessagesWhole'
  <2>. SUFFICES ASSUME NEW i \in 1..Len(written'), NEW j \in 1..Len(written'), i < j,
                       written'[i] = written'[j], NEW k \in i..j
                PROVE  written'[k] = written'[i]
    BY DEF MessagesWhole
  <2>. DEFINE L == Len(written)
  <2>1. CASE j <= L
    <3>1. i \in 1..L /\ j \in 1..L /\ k \in 1..L
      BY <2>1, <1>3
    <3>2. written[i] = written[j] => written[k] = written[i]
      BY <3>1 DEF PInv, MessagesWhole
    <3>. QED  BY <3>1, <3>2, <1>1
  <2>2. CASE j > L /\ i <= L
    <3>1. i \in 1..L /\ j \in (L + 1)..Len(written')
      BY <2>2, <1>3
    <3>2. written'[i] = b /\ written[i] = b
      BY <3>1, <1>1
    <3>3. written[L] = b
      BY <3>1, <3>2, <1>5
    <3>4. CASE k <= L
      <4>1. k \in i..L /\ L \in 1..L
        BY <3>1, <3>4, <1>3
      <4>2. written[k] = written[i]
        BY <3>1, <3>2, <3>3, <4>1 DEF PInv, MessagesWhole
      <4>. QED  BY <4>1, <4>2, <3>1, <3>2, <1>1, <1>3
    <3>5. CASE k > L
      <4>1. k \in (L + 1)..Len(written')
        BY <3>5, <1>3
      <4>. QED  BY <4>1, <3>2, <1>1
    <3>. QED  BY <3>4, <3>5, <1>3
  <2>3. CASE i > L
    <3>1. i \in (L + 1)..Len(written') /\ k \in (L + 1)..Len(written')
      BY <2>3, <1>3
    <3>. QED  BY <3>1, <1>1
  <2>. QED  BY <2>1, <2>2, <2>3, <1>3
<1>. QED  BY <1>1, <1>6, <1>7, <1>8 DEF PInv

LEMMA SetEventsKeeps ==
  ASSUME PInv, NEW p \in Printers, SetEvents(p)
  PROVE  PInv'
<1>1. p \in Callers /\ mutex = p /\ op[p] = "print" /\ "none" \in Operations
  BY DEF SetEvents, Inside, Callers, Operations, Locking
<1>2. prints[p] \in 0..MaxPrints /\ prints[p] < MaxPrints /\ MaxPrints \in Nat
  BY <1>1, PrintAssumption DEF PInv, PrintTypes, PrintsLeft
<1>3. prints' \in [Printers -> 0..MaxPrints]
  BY <1>2 DEF PInv, PrintTypes, SetEvents
<1>4. /\ prints'[p] = prints[p] + 1 /\ \A q \in Printers : q # p => prints'[q] = prints[q]
      /\ written' = written
  BY DEF PInv, PrintTypes, SetEvents
<1>5. /\ op' \in [Callers -> Operations] /\ n' \in [Callers -> Nat] /\ op'[p] = "none"
      /\ \A u \in Callers : u # p => op'[u] = op[u]
  BY <1>1, BeginsTypes DEF PInv, SetEvents, Leaves
<1>6. PrintTypes'
  BY <1>3, <1>5 DEF PInv, PrintTypes, SetEvents, Leaves
<1>7. PrintsLeft'
  BY <1>4, <1>5 DEF PInv, PrintsLeft, Callers
<1>8. EndUnderWay'
  <2>. SUFFICES ASSUME NEW i \in 1..Len(written), NEW q \in Printers, written[i][1] = q
                PROVE  written[i][2] <= prints'[q] + 1 /\ written[i][2] # prints'[q] + 1
    BY <1>4 DEF EndUnderWay
  <2>1. written[i] \in Printers \X (1..MaxPrints) /\ prints[q] \in Nat
    BY DEF PInv, PrintTypes, Bytes
  <2>2. written[i][2] <= prints[q] + 1
    BY DEF PInv, EndUnderWay
  <2>3. CASE q = p
    BY <2>1, <2>2, <2>3, <1>4
  <2>4. CASE q # p
    <3>1. written[i][2] # prints[q] + 1
      BY <2>4, <1>1 DEF PInv, EndUnderWay
    <3>. QED  BY <3>1, <2>1, <2>2, <2>4, <1>4
  <2>. QED  BY <2>3, <2>4
<1>9. MessagesWhole'
  BY <1>4 DEF PInv, MessagesWhole
<1>. QED  BY <1>6, <1>7, <1>8, <1>9 DEF PInv

-----------------------------------------------------------------------------
(* Readers and listeners.                                                  *)

\* Beginning to read, to peek, to register or to remove.
LEMMA BeginsToRead ==
  ASSUME PInv, NEW r \in Listeners \cup Others,
         ReadAll(r) \/ ReadN(r) \/ PeekN(r)
  PROVE  PInv'
<1>1. r \in Callers /\ PeekSize \in Nat /\ Len(pipe) \in Nat
  BY PrintAssumption DEF Callers, PInv, PrintTypes
<1>2. PICK o \in Operations, k \in Nat : Begins(r, o, k)
  <2>1. {"read_all", "read_n", "peek_n", "wait", "none", After(r, "wait")} \subseteq Operations
    BY DEF Operations, Locking, Reads, After
  <2>. QED  BY <1>1, <2>1 DEF ReadAll, ReadN, PeekN
<1>3. UNCHANGED <<pipe, written, mutex, prints, events, registered, peeked, attached>>
  BY DEF ReadAll, ReadN, PeekN
<1>4. PrintTypes'
  BY <1>1, <1>2, <1>3, QuietTypes DEF PInv, PrintTypes
<1>. QED  BY <1>2, <1>3, <1>4, ReaderGoesOn

LEMMA ReadFileKeeps ==
  ASSUME PInv, NEW r \in Listeners \cup Others, ReadFile(r)
  PROVE  PInv'
<1>1. r \in Callers /\ n[r] \in Nat /\ mutex = r
  BY DEF Callers, PInv, PrintTypes, ReadFile, Inside
<1>2. PICK o \in Operations : Begins(r, o, 0)
  <2>1. \A o \in {"wait", "woken"} : After(r, o) \in Operations
    BY DEF Operations, Locking, Reads, After
  <2>. QED  BY <2>1 DEF ReadFile, Leaves
<1>3. op' \in [Callers -> Operations] /\ n' \in [Callers -> Nat]
  BY <1>1, <1>2, BeginsTypes DEF PInv
<1>4. pipe' \in Seq(Bytes) /\ Len(pipe') <= Capacity
  BY <1>1, PipeParts DEF PInv, ReadFile
<1>5. peeked' \in [Callers -> Seq(Bytes)]
  BY <1>1 DEF PInv, PrintTypes, ReadFile
<1>6. PrintTypes'
  BY <1>3, <1>4, <1>5 DEF PInv, PrintTypes, ReadFile, Leaves
<1>7. UNCHANGED <<written, prints>>
  BY DEF ReadFile
<1>. QED  BY <1>1, <1>2, <1>6, <1>7, ReaderGoesOn

LEMMA PeekNamedPipeKeeps ==
  ASSUME PInv, NEW r \in Listeners \cup Others, PeekNamedPipe(r)
  PROVE  PInv'
<1>1. r \in Callers /\ n[r] \in Nat /\ mutex = r
  BY DEF Callers, PInv, PrintTypes, PeekNamedPipe, Inside
<1>2. PICK o \in Operations : Begins(r, o, 0)
  <2>1. After(r, "peeked") \in Operations
    BY DEF Operations, Locking, Reads, After
  <2>. QED  BY <2>1 DEF PeekNamedPipe, Leaves
<1>3. op' \in [Callers -> Operations] /\ n' \in [Callers -> Nat]
  BY <1>1, <1>2, BeginsTypes DEF PInv
<1>4. peeked' \in [Callers -> Seq(Bytes)]
  BY <1>1, PipeParts DEF PInv, PrintTypes, PeekNamedPipe
<1>5. PrintTypes'
  BY <1>3, <1>4 DEF PInv, PrintTypes, PeekNamedPipe, Leaves
<1>6. UNCHANGED <<written, prints>>
  BY DEF PeekNamedPipe
<1>. QED  BY <1>1, <1>2, <1>5, <1>6, ReaderGoesOn

LEMMA ListenerKeeps ==
  ASSUME PInv, NEW r \in Listeners,
         \/ Register(r) \/ RegisterEventRead(r) \/ Remove(r) \/ RemoveEventRead(r) \/ Wake(r)
  PROVE  PInv'
<1>1. r \in Callers /\ {"register", "remove", "wait", "woken", "none"} \subseteq Operations
  BY DEF Callers, Operations, Locking
<1>2. PICK o \in Operations : Begins(r, o, 0)
  BY <1>1 DEF Register, RegisterEventRead, Remove, RemoveEventRead, Wake, Leaves
<1>3. /\ UNCHANGED <<pipe, written, prints, peeked, attached>> /\ registered' \subseteq Listeners
      /\ mutex' = mutex \/ (mutex = r /\ mutex' = Free)
  BY DEF PInv, PrintTypes, Register, RegisterEventRead, Remove, RemoveEventRead, Wake, Leaves, Inside
<1>4. events' \in [Listeners -> BOOLEAN]
  BY DEF PInv, PrintTypes, Register, RegisterEventRead, Remove, RemoveEventRead, Wake
<1>5. PrintTypes'
  BY <1>1, <1>2, <1>3, <1>4, QuietTypes DEF PInv, PrintTypes
<1>. QED  BY <1>2, <1>3, <1>5, ReaderGoesOn

LEMMA DeleteKeeps ==
  ASSUME PInv, Delete
  PROVE  PInv'
<1>1. pipe' \in Seq(Bytes) /\ Len(pipe') <= Capacity
  <2>1. <<>> \in Seq(Bytes) /\ Len(<<>>) = 0 /\ Capacity \in Nat
    BY PrintAssumption
  <2>. QED  BY <2>1 DEF Delete
<1>2. PrintTypes'
  BY <1>1 DEF PInv, PrintTypes, Delete
<1>. QED  BY <1>2, QuietStep DEF Delete

LEMMA InitPrints ==
  ASSUME PrintInit
  PROVE  PInv
<1>1. PrintTypes
  <2>1. "none" \in Operations /\ Capacity \in Nat /\ MaxPrints \in Nat /\ Free \in Callers \cup {Free}
    BY PrintAssumption DEF Operations
  <2>2. <<>> \in Seq(Bytes) /\ Len(<<>>) = 0
    OBVIOUS
  <2>. QED  BY <2>1, <2>2 DEF PrintTypes, PrintInit
<1>2. PrintsLeft
  BY DEF PrintsLeft, PrintInit, Callers
<1>3. EndUnderWay /\ MessagesWhole
  <2>1. Len(written) = 0
    BY DEF PrintInit
  <2>. QED  BY <2>1 DEF EndUnderWay, MessagesWhole
<1>. QED  BY <1>1, <1>2, <1>3 DEF PInv

LEMMA NextPrints ==
  ASSUME PInv, [PrintNext]_printVars
  PROVE  PInv'
<1>1. ASSUME NEW p \in Printers, PrinterStep(p)
      PROVE  PInv'
  BY <1>1, EnterKeeps, BeginPrintKeeps, WriteFileKeeps, SetEventsKeeps DEF PrinterStep, Callers
<1>2. ASSUME NEW r \in Listeners \cup Others, ReaderStep(r)
      PROVE  PInv'
  BY <1>2, EnterKeeps, BeginsToRead, ReadFileKeeps, PeekNamedPipeKeeps DEF ReaderStep, Callers
<1>3. ASSUME NEW r \in Listeners, ListenerStep(r) \/ Register(r) \/ Remove(r)
      PROVE  PInv'
  BY <1>2, <1>3, ListenerKeeps DEF ListenerStep
<1>4. CASE UNCHANGED printVars
  BY <1>4 DEF PInv, PrintTypes, PrintsLeft, EndUnderWay, MessagesWhole, printVars
<1>. QED  BY <1>1, <1>2, <1>3, <1>4, DeleteKeeps DEF PrintNext

\* A message stands in the output in one piece (on_print writes it with the
\* class mutex in hand, luaglobal_print_override.cpp:108).
THEOREM MessagesStayWhole == PrintSpec => []MessagesWhole
<1>1. PrintInit => PInv
  BY InitPrints
<1>2. PInv /\ [PrintNext]_printVars => PInv'
  BY NextPrints
<1>3. PInv => MessagesWhole
  BY DEF PInv
<1>. QED  BY <1>1, <1>2, <1>3, PTL DEF PrintSpec

-----------------------------------------------------------------------------
(* A single reader.                                                        *)

\* The threads that may read.
Readers == Listeners \cup {r \in Others : Allowed[r] \cap Reads # {}}

\* One thread reads, and read_n is for a listener, who has seen that there is
\* output: what read_all and read_n need, and what they do not check themselves.
OneReader ==
  /\ \A r, s \in Readers : r = s
  /\ \A r \in Others : "read_n" \notin Allowed[r]

\* Who has seen output, and not read since, still sees it.
ReaderSees ==
  \A r \in Listeners \cup Others :
    /\ op[r] \in Reads => pipe # <<>> /\ r \in Readers
    /\ r \in Listeners /\ op[r] \in {"peek_n", "peeked"} => pipe # <<>>

\* A step of t that takes nothing out of the pipe.
LEMMA SeesOn ==
  ASSUME PrintTypes, ReaderSees, NEW t \in Callers, NEW o \in Operations, NEW k \in Nat,
         Begins(t, o, k), pipe # <<>> => pipe' # <<>>,
         o \in Reads => pipe # <<>> /\ t \in Readers,
         t \in Listeners /\ o \in {"peek_n", "peeked"} => pipe # <<>>
  PROVE  ReaderSees'
<1>1. op'[t] = o /\ \A u \in Callers : u # t => op'[u] = op[u]
  BY BeginsTypes
<1>. QED  BY <1>1 DEF ReaderSees, Readers, Callers

LEMMA PrinterLeavesReaders ==
  ASSUME PInv, ReaderSees, NEW p \in Printers, PrinterStep(p)
  PROVE  ReaderSees'
<1>1. /\ p \in Callers /\ Size[p] \in Nat /\ {"print", "none"} \subseteq Operations
      /\ "print" \notin Reads /\ "none" \notin Reads /\ p \notin Listeners
  BY PrintAssumption DEF Callers, Operations, Locking, Reads
<1>2. CASE Enter(p)
  BY <1>2 DEF Enter, ReaderSees, Readers
<1>3. CASE BeginPrint(p)
  BY <1>1, <1>3, SeesOn DEF BeginPrint, PInv
<1>4. CASE WriteFile(p)
  <2>. DEFINE l == Least(n[p], Capacity - Len(pipe))
              bytes == [i \in 1..l |-> <<p, prints[p] + 1>>]
  <2>1. op' = op
    BY <1>4, WriteFileAdds
  <2>2. pipe \in Seq(Bytes) /\ pipe' = pipe \o bytes
    BY <1>4 DEF WriteFile, PInv, PrintTypes
  <2>3. l \in Nat
    BY <1>4, <1>1, PrintAssumption DEF WriteFile, PInv, PrintTypes, Least
  <2>. HIDE DEF l
  <2>4. bytes \in Seq(Printers \X {prints[p] + 1})
    BY <2>3
  <2>. HIDE DEF bytes
  <2>5. pipe # <<>> => pipe' # <<>>
    BY <2>2, <2>4
  <2>. QED  BY <2>1, <2>5 DEF ReaderSees, Readers
<1>5. CASE SetEvents(p)
  BY <1>1, <1>5, SeesOn DEF SetEvents, Leaves, PInv
<1>. QED  BY <1>2, <1>3, <1>4, <1>5 DEF PrinterStep

LEMMA ReaderSeesOutput ==
  ASSUME OneReader, PInv, ReaderSees, NEW r \in Listeners \cup Others, ReaderStep(r)
  PROVE  ReaderSees'
<1>1. /\ r \in Callers /\ PeekSize \in Nat /\ Len(pipe) \in Nat /\ n[r] \in Nat
      /\ {"read_all", "read_n", "peek_n", "peeked", "wait", "woken", "none"} \subseteq Operations
  BY PrintAssumption DEF Callers, PInv, PrintTypes, Operations, Locking, Reads
<1>2. r \in Others => r \notin Listeners /\ Allowed[r] \subseteq {"read_all", "read_n", "peek_n"}
  BY PrintAssumption
<1>3. /\ {"peek_n", "peeked", "wait", "woken", "none"} \cap Reads = {} /\ Reads = {"read_all", "read_n"}
      /\ r \in Others /\ Allowed[r] \cap Reads # {} => r \in Readers
      /\ r \in Listeners => r \in Readers
  BY DEF Reads, Readers
<1>4. CASE Enter(r)
  BY <1>4 DEF Enter, ReaderSees, Readers
<1>5. CASE ReadAll(r)
  <2>1. CASE pipe = <<>>
    <3>1. After(r, "wait") \in {"wait", "none"}
      BY DEF After
    <3>. QED  BY <3>1, <2>1, <1>1, <1>3, <1>5, SeesOn DEF ReadAll, PInv
  <2>2. CASE pipe # <<>>
    <3>1. r \in Readers
      BY <1>3, <1>5 DEF ReadAll, Calls
    <3>. QED  BY <3>1, <2>2, <1>1, <1>5, SeesOn DEF ReadAll, PInv
  <2>. QED  BY <2>1, <2>2
<1>6. CASE ReadN(r)
  <2>1. r \in Listeners /\ op[r] = "peeked"
    BY <1>6 DEF ReadN, Calls, OneReader
  <2>2. pipe # <<>> /\ r \in Readers
    BY <2>1, <1>3 DEF ReaderSees
  <2>. QED  BY <2>2, <1>1, <1>6, SeesOn DEF ReadN, PInv
<1>7. CASE PeekN(r)
  <2>1. CASE r \in Listeners /\ pipe = <<>>
    BY <2>1, <1>1, <1>3, <1>7, SeesOn DEF PeekN, PInv
  <2>2. CASE ~(r \in Listeners /\ pipe = <<>>)
    BY <2>2, <1>1, <1>3, <1>7, SeesOn DEF PeekN, PInv
  <2>. QED  BY <2>1, <2>2
<1>8. CASE PeekNamedPipe(r)
  <2>1. After(r, "peeked") \in {"peeked", "none"} /\ (r \notin Listeners => After(r, "peeked") = "none")
    BY DEF After
  <2>2. r \in Listeners => pipe # <<>>
    BY <1>8 DEF PeekNamedPipe, Inside, ReaderSees
  <2>3. Begins(r, After(r, "peeked"), 0) /\ pipe' = pipe
    BY <1>8 DEF PeekNamedPipe, Leaves
  <2>. QED  BY <2>1, <2>2, <2>3, <1>1, <1>3, SeesOn DEF PInv
\* The only reader reads: it has seen nothing afterwards, and nobody else had.
<1>9. CASE ReadFile(r)
  <2>1. r \in Readers
    BY <1>9 DEF ReadFile, Inside, ReaderSees
  <2>2. PICK o \in {"wait", "woken", "none"} : Begins(r, o, 0)
    BY <1>9 DEF ReadFile, Leaves, After
  <2>3. o \in Operations
    BY <1>1
  <2>4. op'[r] = o /\ \A u \in Callers : u # r => op'[u] = op[u]
    BY <1>1, <2>2, <2>3, BeginsTypes DEF PInv
  <2>5. \A u \in Listeners \cup Others : u # r => u \notin Readers
    BY <2>1 DEF OneReader
  <2>6. \A u \in Listeners : u \in Readers
    BY DEF Readers
  <2>. QED  BY <2>2, <2>4, <2>5, <2>6, <1>3 DEF ReaderSees, Callers, Readers
<1>. QED  BY <1>4, <1>5, <1>6, <1>7, <1>8, <1>9 DEF ReaderStep

LEMMA ListenerSeesOutput ==
  ASSUME PInv, ReaderSees, NEW r \in Listeners,
         \/ Register(r) \/ RegisterEventRead(r) \/ Remove(r) \/ RemoveEventRead(r) \/ Wake(r)
  PROVE  ReaderSees'
<1>1. r \in Callers /\ {"register", "remove", "wait", "woken", "none"} \subseteq Operations
  BY DEF Callers, Operations, Locking
<1>2. PICK o \in {"register", "remove", "wait", "woken", "none"} : Begins(r, o, 0)
  BY DEF Register, RegisterEventRead, Remove, RemoveEventRead, Wake, Leaves
<1>3. o \notin Reads /\ o \notin {"peek_n", "peeked"} /\ o \in Operations
  BY <1>1 DEF Reads
<1>4. pipe' = pipe
  BY DEF Register, RegisterEventRead, Remove, RemoveEventRead, Wake
<1>. QED  BY <1>1, <1>2, <1>3, <1>4, SeesOn DEF PInv

\* A single reader never waits for output with the mutex in hand, so it never
\* keeps the printers from writing what it waits for (read_all and read_n,
\* luaglobal_print_override.cpp:166).
THEOREM SingleReaderNeverWaits ==
  ASSUME OneReader
  PROVE  PrintSpec => []NeverWaitsForOutput
<1>1. PrintInit => PInv /\ ReaderSees
  <2>1. "none" \notin Reads
    BY DEF Reads
  <2>. QED  BY <2>1, InitPrints DEF PrintInit, ReaderSees, Callers
<1>2. PInv /\ ReaderSees /\ [PrintNext]_printVars => PInv' /\ ReaderSees'
  <2>. SUFFICES ASSUME PInv, ReaderSees, [PrintNext]_printVars
                PROVE  ReaderSees'
    BY NextPrints
  <2>1. ASSUME NEW r \in Listeners, ListenerStep(r) \/ Register(r) \/ Remove(r)
        PROVE  ReaderSees'
    BY <2>1, ReaderSeesOutput, ListenerSeesOutput DEF ListenerStep
  <2>2. CASE Delete
    <3>1. "none" \notin Reads /\ op' = op
      BY <2>2 DEF Reads, Delete
    <3>. QED  BY <3>1, <2>2 DEF ReaderSees, Delete, Callers
  <2>3. CASE UNCHANGED printVars
    BY <2>3 DEF ReaderSees, Readers, printVars
  <2>. QED  BY <2>1, <2>2, <2>3, PrinterLeavesReaders, ReaderSeesOutput DEF PrintNext
<1>3. ReaderSees => NeverWaitsForOutput
  BY DEF ReaderSees, NeverWaitsForOutput, Inside
<1>. QED  BY <1>1, <1>2, <1>3, PTL DEF PrintSpec
=============================================================================
