------------------------ MODULE RuntimeHandlerProofs ------------------------
(***************************************************************************)
(* The type invariant of RuntimeHandler and LiveThreadListed, for every    *)
(* set of clients and threads, every sharing of ids, with spurious wake-   *)
(* ups, detached threads and the destructor.                               *)
(*                                                                         *)
(* LiveThreadListed is not inductive: a thread that registers overwrites   *)
(* the entry of its id, so one must know that no other live thread has the *)
(* same id (IdsExclusive), which holds from the moment a thread is created.*)
(* The types need to know at which points a call is about a thread         *)
(* (CallsOnThreads).                                                       *)
(***************************************************************************)
EXTENDS RuntimeHandler, TLAPS

OnThread == {"waiting", "is_stopped", "signal", "resume", "join", "join_wait",
             "join_close", "join_clear"}
CallSet == {r \in [op : Operations \cup {"none"}, at : Points, t : Threads \cup {NoThread}] :
              r.at \in OnThread => r.t \in Threads}
CallsOnThreads == call \in [Clients -> CallSet]

IdsExclusive ==
  \A t, u \in Threads : t # u /\ Id[t] = Id[u]
     => os[t] \in {"none", "ended"} \/ os[u] \in {"none", "ended"}

IInv == TypeOK /\ CallsOnThreads /\ IdsExclusive /\ LiveThreadListed

\* Wherever a call goes, it stays one of the calls there are.
LEMMA CallMoves ==
  ASSUME CallsOnThreads, NEW c \in Clients
  PROVE  /\ call[c] \in CallSet
         /\ \A p \in Points : Goto(c, p) /\ (p \in OnThread => call[c].t \in Threads)
                               => CallsOnThreads'
         /\ \A p \in Points, t \in Threads \cup {NoThread} :
               GotoOn(c, p, t) /\ (p \in OnThread => t \in Threads) => CallsOnThreads'
         /\ Finish(c) => CallsOnThreads'
         /\ EndCall(c) => CallsOnThreads'
         /\ \A r \in BOOLEAN : Answer(c, r) => CallsOnThreads'
<1>1. call[c] \in CallSet
  BY DEF CallsOnThreads
<1>2. ASSUME NEW x \in CallSet, call' = [call EXCEPT ![c] = x]
      PROVE  CallsOnThreads'
  BY <1>2 DEF CallsOnThreads
<1>3. ASSUME NEW p \in Points, Goto(c, p), p \in OnThread => call[c].t \in Threads
      PROVE  CallsOnThreads'
  <2>1. [call[c] EXCEPT !.at = p] \in CallSet
    BY <1>1, <1>3 DEF CallSet
  <2>. QED  BY <2>1, <1>2, <1>3 DEF Goto
<1>4. ASSUME NEW p \in Points, NEW t \in Threads \cup {NoThread}, GotoOn(c, p, t),
             p \in OnThread => t \in Threads
      PROVE  CallsOnThreads'
  <2>1. [op |-> call[c].op, at |-> p, t |-> t] \in CallSet
    BY <1>1, <1>4 DEF CallSet
  <2>. QED  BY <2>1, <1>2, <1>4 DEF GotoOn
<1>5. ASSUME Finish(c)  PROVE CallsOnThreads'
  <2>1. Idle \in CallSet
    BY DEF CallSet, Idle, Points, OnThread
  <2>. QED  BY <2>1, <1>2, <1>5 DEF Finish
<1>6. ASSUME EndCall(c)  PROVE CallsOnThreads'
  <2>1. "stop_all" \in Points /\ "stop_all" \notin OnThread
    BY DEF Points, OnThread
  <2>. QED  BY <1>4, <1>5, <1>6, <2>1 DEF EndCall
<1>7. ASSUME NEW r \in BOOLEAN, Answer(c, r)  PROVE CallsOnThreads'
  <2>1. \A p \in {"create", "load", "stop_get", "stop_all"} : p \in Points /\ p \notin OnThread
    BY DEF Points, OnThread
  <2>. QED  BY <1>4, <1>5, <1>7, <2>1 DEF Answer
<1>. QED  BY <1>1, <1>3, <1>4, <1>5, <1>6, <1>7

LEMMA CallStart ==
  ASSUME CallsOnThreads, NEW c \in Clients, NEW op \in Operations, NEW p \in Points,
         NEW t \in Threads \cup {NoThread}, p \in OnThread => t \in Threads,
         call' = [call EXCEPT ![c] = [op |-> op, at |-> p, t |-> t]]
  PROVE  CallsOnThreads'
<1>1. [op |-> op, at |-> p, t |-> t] \in CallSet
  BY DEF CallSet
<1>. QED  BY <1>1 DEF CallsOnThreads

\* get_thread_handle finds a thread of the table and drops only a stopped one.
LEMMA FindKeeps ==
  ASSUME IInv, NEW i, Find(i)
  PROVE  /\ thread_data' \in [Ids -> Threads \cup {NoThread}]
         /\ Found(i) \in Threads \cup {NoThread}
         /\ \A t \in Threads : Alive(t) /\ ~closed => thread_data'[Id[t]] = t
<1>1. Listed(i) \in Threads \cup {NoThread}
  BY DEF IInv, TypeOK, ControlTypeOK, Listed
<1>2. /\ thread_data' \in [Ids -> Threads \cup {NoThread}]
      /\ Found(i) \in Threads \cup {NoThread}
  BY <1>1 DEF IInv, TypeOK, ControlTypeOK, Find, Found
<1>3. ASSUME NEW t \in Threads, Alive(t), ~closed
      PROVE  thread_data'[Id[t]] = t
  <2>1. Id[t] \in Ids /\ thread_data[Id[t]] = t
    BY <1>3 DEF Ids, IInv, LiveThreadListed
  <2>2. i = Id[t] => ~IsStopped(Listed(i))
    BY <1>3, <2>1 DEF Listed, IsStopped, Alive
  <2>. QED  BY <2>1, <2>2 DEF Find, IInv, TypeOK, ControlTypeOK
<1>. QED  BY <1>2, <1>3

-----------------------------------------------------------------------------
(* Steps that leave the threads and the table alone.                       *)

\* The types of what is neither a call nor a thread's state nor the table.
FieldTypes ==
  /\ stop_thread \subseteq Threads /\ block_event \subseteq Threads
  /\ open \subseteq Threads /\ handle \subseteq Threads
  /\ entry_data \subseteq Threads
  /\ refs \in [Clients -> SUBSET Threads] /\ lost \subseteq Threads
  /\ closed \in BOOLEAN
  /\ current_tid \in Ids \cup {0, ERROR_INVALID_THREAD_ID}
  /\ main_func \in Files \cup {"none"}
  /\ program \subseteq Threads
TableTypes ==
  /\ os \in [Threads -> {"none", "created", "running", "paused", "asking", "ended"}]
  /\ thread_data \in [Ids -> Threads \cup {NoThread}]

LEMMA TypesSplit ==
  /\ TypeOK => FieldTypes /\ TableTypes
  /\ FieldTypes /\ TableTypes /\ CallsOnThreads => TypeOK
  /\ FieldTypes' /\ TableTypes' /\ CallsOnThreads' => TypeOK'
<1>1. CallsOnThreads => call \in
        [Clients -> [op : Operations \cup {"none"}, at : Points, t : Threads \cup {NoThread}]]
  BY DEF CallsOnThreads, CallSet
<1>2. CallsOnThreads' => call' \in
        [Clients -> [op : Operations \cup {"none"}, at : Points, t : Threads \cup {NoThread}]]
  BY DEF CallsOnThreads, CallSet
<1>. QED  BY <1>1, <1>2 DEF TypeOK, ControlTypeOK, FieldTypes, TableTypes

LEMMA QuietKeepsIInv ==
  ASSUME IInv, UNCHANGED <<os, thread_data>>, closed => closed', FieldTypes', CallsOnThreads'
  PROVE  IInv'
BY TypesSplit DEF IInv, IdsExclusive, LiveThreadListed, Alive, TableTypes

-----------------------------------------------------------------------------
(* Clients.                                                                *)

\* The steps of a call that run_execution, a stop, a join or the destructor
\* has begun, and a wake-up out of turn.
LEMMA CallStepKeepsIInv ==
  ASSUME IInv, NEW c \in Clients, CallStep(c) \/ WakeSpuriously(c),
         UNCHANGED <<current_tid, main_func>>,
         program' \subseteq Threads
  PROVE  IInv'
<1>t. FieldTypes /\ TableTypes /\ CallsOnThreads /\ call[c] \in CallSet
  BY TypesSplit, CallMoves DEF IInv
<1>1. ASSUME NEW t \in Threads, CreateThread(c, t)  PROVE IInv'
  <2>1. CallsOnThreads'
    BY <1>1, <1>t, CallMoves DEF CreateThread, Points, OnThread
  <2>2. FieldTypes' /\ TableTypes'
    BY <1>1, <1>t DEF CreateThread, FieldTypes, TableTypes, tableVars
  <2>3. IdsExclusive'
    BY <1>1, <1>t DEF CreateThread, IdFree, IInv, IdsExclusive, TableTypes
  <2>4. LiveThreadListed'
    BY <1>1, <1>t DEF CreateThread, tableVars, IInv, LiveThreadListed, Alive, TableTypes
  <2>. QED  BY <2>1, <2>2, <2>3, <2>4, TypesSplit DEF IInv
<1>2. CASE CreateThreadFails(c)
  <2>1. CallsOnThreads'
    BY <1>2, <1>t, CallMoves DEF CreateThreadFails, At, CallSet, Points, OnThread
  <2>2. FieldTypes'
    BY <1>2, <1>t DEF CreateThreadFails, FieldTypes, threadVars, handleVars, tableVars
  <2>. QED  BY <1>2, <2>1, <2>2, QuietKeepsIInv DEF CreateThreadFails, threadVars, handleVars, tableVars
<1>3. CASE WakeSpuriously(c)
  <2>1. CallsOnThreads'
    BY <1>3, <1>t, CallMoves DEF WakeSpuriously, At, CallSet, Points, OnThread
  <2>2. FieldTypes'
    BY <1>3, <1>t DEF WakeSpuriously, FieldTypes, threadVars, handleVars, tableVars
  <2>. QED  BY <1>3, <2>1, <2>2, QuietKeepsIInv DEF WakeSpuriously, threadVars, handleVars, tableVars
<1>4. CASE RunExecutionReturn(c)
  <2>1. CallsOnThreads'
    BY <1>4, <1>t, CallMoves DEF RunExecutionReturn, At, CallSet, Points, OnThread
  <2>2. FieldTypes'
    BY <1>4, <1>t DEF RunExecutionReturn, FieldTypes, threadVars, handleVars, tableVars
  <2>. QED  BY <1>4, <2>1, <2>2, QuietKeepsIInv DEF RunExecutionReturn, threadVars, handleVars, tableVars
<1>5. CASE SignalStop(c)
  <2>1. CallsOnThreads'
    BY <1>5, <1>t, CallMoves DEF SignalStop, At, CallSet, Points, OnThread
  <2>2. FieldTypes'
    BY <1>5, <1>t DEF SignalStop, FieldTypes, threadVars, handleVars, tableVars, At, CallSet, OnThread
  <2>. QED  BY <1>5, <2>1, <2>2, QuietKeepsIInv DEF SignalStop, threadVars, handleVars, tableVars, At, CallSet, OnThread
<1>6. CASE StopResume(c)
  <2>1. CallsOnThreads'
    BY <1>6, <1>t, CallMoves DEF StopResume, At, CallSet, Points, OnThread
  <2>2. FieldTypes'
    BY <1>6, <1>t DEF StopResume, FieldTypes, threadVars, handleVars, tableVars, At, CallSet, OnThread
  <2>. QED  BY <1>6, <2>1, <2>2, QuietKeepsIInv DEF StopResume, threadVars, handleVars, tableVars, At, CallSet, OnThread
<1>7. CASE JoinTest(c)
  <2>1. CallsOnThreads'
    BY <1>7, <1>t, CallMoves DEF JoinTest, At, CallSet, Points, OnThread
  <2>2. FieldTypes'
    BY <1>7, <1>t DEF JoinTest, FieldTypes, threadVars, handleVars, tableVars
  <2>. QED  BY <1>7, <2>1, <2>2, QuietKeepsIInv DEF JoinTest, threadVars, handleVars, tableVars
<1>8. CASE JoinWait(c)
  <2>1. CallsOnThreads'
    BY <1>8, <1>t, CallMoves DEF JoinWait, At, CallSet, Points, OnThread
  <2>2. FieldTypes'
    BY <1>8, <1>t DEF JoinWait, FieldTypes, threadVars, handleVars, tableVars
  <2>. QED  BY <1>8, <2>1, <2>2, QuietKeepsIInv DEF JoinWait, threadVars, handleVars, tableVars
<1>9. CASE JoinClose(c)
  <2>1. CallsOnThreads'
    BY <1>9, <1>t, CallMoves DEF JoinClose, At, CallSet, Points, OnThread
  <2>2. FieldTypes'
    BY <1>9, <1>t DEF JoinClose, FieldTypes, threadVars, handleVars, tableVars
  <2>. QED  BY <1>9, <2>1, <2>2, QuietKeepsIInv DEF JoinClose, threadVars, handleVars, tableVars
<1>10. CASE JoinClear(c)
  <2>1. CallsOnThreads'
    BY <1>10, <1>t, CallMoves DEF JoinClear, At, CallSet, Points, OnThread
  <2>2. FieldTypes'
    BY <1>10, <1>t DEF JoinClear, FieldTypes, threadVars, handleVars, tableVars
  <2>. QED  BY <1>10, <2>1, <2>2, QuietKeepsIInv DEF JoinClear, threadVars, handleVars, tableVars
<1>11. CASE StopAllSignal(c)
  <2>1. CallsOnThreads'
    BY <1>11, <1>t, CallMoves DEF StopAllSignal, At, CallSet, Points, OnThread
  <2>2. FieldTypes'
    BY <1>11, <1>t DEF StopAllSignal, FieldTypes, threadVars, handleVars, tableVars, ListedThreads, TableTypes
  <2>. QED  BY <1>11, <2>1, <2>2, QuietKeepsIInv DEF StopAllSignal, threadVars, handleVars, tableVars, ListedThreads, TableTypes
<1>12. CASE StopAllJoin(c)
  <2>1. CallsOnThreads'
    BY <1>12, <1>t, CallMoves DEF StopAllJoin
  <2>2. FieldTypes' /\ TableTypes'
    BY <1>12, <1>t DEF StopAllJoin, FieldTypes, TableTypes, threadVars
  <2>3. IdsExclusive' /\ LiveThreadListed'
    BY <1>12 DEF StopAllJoin, threadVars, IInv, IdsExclusive, LiveThreadListed
  <2>. QED  BY <2>1, <2>2, <2>3, TypesSplit DEF IInv
<1>. QED  BY <1>1, <1>2, <1>3, <1>4, <1>5, <1>6, <1>7, <1>8, <1>9, <1>10, <1>11, <1>12
          DEF CallStep

\* What clients ask of the thread control.
LEMMA ControlRequestKeepsIInv ==
  ASSUME IInv, NEW c \in Clients, ControlRequest(c), UNCHANGED <<current_tid, main_func>>,
         program' \subseteq Threads
  PROVE  IInv'
<1>t. FieldTypes /\ TableTypes /\ CallsOnThreads
  BY TypesSplit DEF IInv
<1>1. ASSUME NEW op \in Operations, NEW p \in Points, NEW t \in Threads \cup {NoThread},
             p \in OnThread => t \in Threads,
             call' = [call EXCEPT ![c] = [op |-> op, at |-> p, t |-> t]],
             UNCHANGED <<threadVars, handleVars, tableVars, closed>>
      PROVE  IInv'
  <2>1. CallsOnThreads'
    BY <1>1, <1>t, CallStart
  <2>2. FieldTypes'
    BY <1>1, <1>t DEF FieldTypes, threadVars, handleVars, tableVars
  <2>. QED  BY <1>1, <2>1, <2>2, QuietKeepsIInv DEF threadVars, tableVars
<1>2. CASE RunExecution(c)
  BY <1>1, <1>2 DEF RunExecution, Operations, Points, OnThread
<1>3. ASSUME NEW i \in Ids, GetThreadHandle(c, i)  PROVE IInv'
  <2>1. /\ thread_data' \in [Ids -> Threads \cup {NoThread}]
        /\ Found(i) \in Threads \cup {NoThread}
        /\ \A t \in Threads : Alive(t) /\ ~closed => thread_data'[Id[t]] = t
    BY <1>3, FindKeeps DEF GetThreadHandle
  <2>2. CallsOnThreads'
    BY <1>3, <1>t DEF GetThreadHandle, CallsOnThreads
  <2>3. FieldTypes' /\ TableTypes'
    BY <1>3, <1>t, <2>1 DEF GetThreadHandle, FieldTypes, TableTypes, threadVars, handleVars
  <2>4. IdsExclusive' /\ LiveThreadListed'
    BY <1>3, <2>1 DEF GetThreadHandle, IInv, IdsExclusive, LiveThreadListed, Alive, threadVars
  <2>. QED  BY <2>2, <2>3, <2>4, TypesSplit DEF IInv
<1>4. ASSUME NEW t \in Threads, FreeThreadHandle(c, t)  PROVE IInv'
  <2>1. CallsOnThreads'
    BY <1>4, <1>t DEF FreeThreadHandle, CallsOnThreads
  <2>2. FieldTypes'
    BY <1>4, <1>t DEF FreeThreadHandle, FieldTypes, threadVars, handleVars
  <2>. QED  BY <1>4, <2>1, <2>2, QuietKeepsIInv DEF FreeThreadHandle, threadVars
<1>5. ASSUME NEW t \in Threads, StopRunning(c, t) \/ JoinHandle(c, t) \/ Detach(c, t)
      PROVE  IInv'
  BY <1>1, <1>5 DEF StopRunning, JoinHandle, Detach, StartOn, Operations, Points, OnThread
<1>6. ASSUME NEW t \in Threads, ResumeExecution(c, t)  PROVE IInv'
  <2>1. CallsOnThreads'
    BY <1>6, <1>t DEF ResumeExecution, CallsOnThreads
  <2>2. FieldTypes'
    BY <1>6, <1>t DEF ResumeExecution, FieldTypes, handleVars, tableVars
  <2>. QED  BY <1>6, <2>1, <2>2, QuietKeepsIInv DEF ResumeExecution, tableVars
<1>. QED  BY <1>2, <1>3, <1>4, <1>5, <1>6 DEF ControlRequest

\* The operations of the runtime handler.
LEMMA RuntimeKeepsIInv ==
  ASSUME IInv, NEW c \in Clients, Request(c) \/ RuntimeStep(c)
  PROVE  IInv'
<1>t. FieldTypes /\ TableTypes /\ CallsOnThreads /\ call[c] \in CallSet
  BY TypesSplit, CallMoves DEF IInv
<1>1. ASSUME NEW op \in Operations, NEW p \in Points \ OnThread, Start(c, op, p)
      PROVE  IInv'
  <2>1. CallsOnThreads'
    BY <1>1, <1>t, CallStart DEF Start
  <2>2. FieldTypes'
    BY <1>1, <1>t DEF Start, FieldTypes, threadVars, handleVars, tableVars, runtimeVars
  <2>. QED  BY <1>1, <2>1, <2>2, QuietKeepsIInv DEF Start, threadVars, tableVars
<1>2. CASE Request(c)
  BY <1>1, <1>2 DEF Request, RunCode, LoadFile, CurrentlyRunning, StopProgram, Destroy,
     Operations, Points, OnThread
<1>3. CASE CheckInvalid(c)
  <2>1. CallsOnThreads'
    BY <1>3, <1>t, CallMoves DEF CheckInvalid
  <2>2. FieldTypes'
    BY <1>3, <1>t DEF CheckInvalid, FieldTypes, threadVars, handleVars, tableVars, runtimeVars
  <2>. QED  BY <1>3, <2>1, <2>2, QuietKeepsIInv DEF CheckInvalid, threadVars, tableVars
<1>4. CASE CheckTable(c)
  <2>1. /\ thread_data' \in [Ids -> Threads \cup {NoThread}]
        /\ Found(current_tid) \in Threads \cup {NoThread}
        /\ \A t \in Threads : Alive(t) /\ ~closed => thread_data'[Id[t]] = t
    BY <1>4, FindKeeps DEF CheckTable
  <2>2. CallsOnThreads'
    BY <1>4, <1>t, <2>1, CallMoves DEF CheckTable, Points, OnThread
  <2>3. FieldTypes' /\ TableTypes'
    BY <1>4, <1>t, <2>1 DEF CheckTable, FieldTypes, TableTypes, threadVars, handleVars, runtimeVars
  <2>4. IdsExclusive' /\ LiveThreadListed'
    BY <1>4, <2>1 DEF CheckTable, IInv, IdsExclusive, LiveThreadListed, Alive, threadVars
  <2>. QED  BY <2>2, <2>3, <2>4, TypesSplit DEF IInv
<1>5. CASE CheckStopped(c)
  <2>1. CallsOnThreads'
    BY <1>5, <1>t, CallMoves DEF CheckStopped, IsStopped
  <2>2. FieldTypes'
    BY <1>5, <1>t DEF CheckStopped, FieldTypes, threadVars, handleVars, tableVars, runtimeVars
  <2>. QED  BY <1>5, <2>1, <2>2, QuietKeepsIInv DEF CheckStopped, threadVars, tableVars
<1>6. CASE LoadMainFunction(c)
  <2>1. CallsOnThreads'
    BY <1>6, <1>t, CallMoves DEF LoadMainFunction
  <2>2. FieldTypes'
    BY <1>6, <1>t DEF LoadMainFunction, FieldTypes, threadVars, handleVars, tableVars
  <2>. QED  BY <1>6, <2>1, <2>2, QuietKeepsIInv DEF LoadMainFunction, threadVars, tableVars
<1>7. CASE RunCodeReturn(c)
  <2>1. CallsOnThreads'
    BY <1>7, <1>t, CallMoves DEF RunCodeReturn
  <2>2. FieldTypes'
    BY <1>7, <1>t DEF RunCodeReturn, FieldTypes, threadVars, handleVars, tableVars, Ids, CallSet
  <2>. QED  BY <1>7, <2>1, <2>2, QuietKeepsIInv DEF RunCodeReturn, threadVars, tableVars
<1>8. CASE StopGet(c)
  <2>1. /\ thread_data' \in [Ids -> Threads \cup {NoThread}]
        /\ Found(current_tid) \in Threads \cup {NoThread}
        /\ \A t \in Threads : Alive(t) /\ ~closed => thread_data'[Id[t]] = t
    BY <1>8, FindKeeps DEF StopGet
  <2>2. CallsOnThreads'
    BY <1>8, <1>t, <2>1, CallMoves DEF StopGet, Points, OnThread
  <2>3. FieldTypes' /\ TableTypes'
    BY <1>8, <1>t, <2>1 DEF StopGet, FieldTypes, TableTypes, threadVars, handleVars, runtimeVars
  <2>4. IdsExclusive' /\ LiveThreadListed'
    BY <1>8, <2>1 DEF StopGet, IInv, IdsExclusive, LiveThreadListed, Alive, threadVars
  <2>. QED  BY <2>2, <2>3, <2>4, TypesSplit DEF IInv
<1>. QED  BY <1>2, <1>3, <1>4, <1>5, <1>6, <1>7, <1>8 DEF RuntimeStep

-----------------------------------------------------------------------------
(* Threads.                                                                *)

LEMMA ThreadStepKeepsIInv ==
  ASSUME IInv, NEW t \in Threads, ThreadStep(t), UNCHANGED <<current_tid, main_func>>,
         program' \subseteq Threads
  PROVE  IInv'
<1>t. FieldTypes /\ TableTypes /\ CallsOnThreads
  BY TypesSplit DEF IInv
<1>i. Id[t] \in Ids
  BY DEF Ids
<1>1. CASE Register(t)
  <2>1. CallsOnThreads'
    <3>1. \A c \in Clients : call[c] \in CallSet /\ [call[c] EXCEPT !.at = "returning"] \in CallSet
      BY <1>t DEF CallsOnThreads, CallSet, Points, OnThread
    <3>. QED  BY <1>1, <3>1 DEF Register, CallsOnThreads
  <2>2. FieldTypes' /\ TableTypes'
    BY <1>1, <1>t, <1>i DEF Register, FieldTypes, TableTypes
  <2>3. IdsExclusive'
    BY <1>1, <1>t DEF Register, IInv, IdsExclusive, TableTypes
  <2>4. ASSUME NEW u \in Threads, Alive(u)', ~closed'
        PROVE  thread_data'[Id[u]] = u
    <3>1. CASE u = t
      BY <1>1, <1>t, <1>i, <3>1 DEF Register, TableTypes
    <3>2. CASE u # t
      <4>1. Alive(u) /\ ~closed
        BY <1>1, <1>t, <2>4, <3>2 DEF Register, Alive, TableTypes
      <4>2. Id[u] # Id[t]
        BY <1>1, <3>2, <4>1 DEF Register, IInv, IdsExclusive, Alive
      <4>. QED  BY <1>1, <1>t, <1>i, <4>1, <4>2 DEF Register, IInv, LiveThreadListed, TableTypes, Ids
    <3>. QED  BY <3>1, <3>2
  <2>. QED  BY <2>1, <2>2, <2>3, <2>4, TypesSplit DEF IInv, LiveThreadListed
<1>2. CASE ThreadPause(t) \/ ThreadWake(t) \/ ThreadEnd(t) \/ ThreadAsk(t) \/ ThreadAnswered(t)
  <2>1. CallsOnThreads'
    BY <1>2, <1>t DEF ThreadPause, ThreadWake, ThreadEnd, ThreadAsk, ThreadAnswered, CallsOnThreads
  <2>2. FieldTypes' /\ TableTypes'
    BY <1>2, <1>t DEF ThreadPause, ThreadWake, ThreadEnd, ThreadAsk, ThreadAnswered,
       FieldTypes, TableTypes, handleVars, tableVars
  <2>3. /\ Alive(t)
        /\ \E x \in {"running", "paused", "asking", "ended"} : os' = [os EXCEPT ![t] = x]
        /\ UNCHANGED <<thread_data, closed>>
    BY <1>2 DEF ThreadPause, ThreadWake, ThreadEnd, ThreadAsk, ThreadAnswered, tableVars, Alive
  <2>4. IdsExclusive' /\ LiveThreadListed'
    BY <1>t, <2>3 DEF IInv, IdsExclusive, LiveThreadListed, Alive, TableTypes
  <2>. QED  BY <2>1, <2>2, <2>4, TypesSplit DEF IInv
<1>. QED  BY <1>1, <1>2 DEF ThreadStep

-----------------------------------------------------------------------------
(* The specification.                                                      *)

LEMMA InitIInv == Init => IInv
<1>. SUFFICES ASSUME Init PROVE IInv  OBVIOUS
<1>1. CallsOnThreads
  BY DEF Init, ControlInit, CallsOnThreads, CallSet, Idle, Points, OnThread
<1>2. FieldTypes /\ TableTypes
  BY DEF Init, ControlInit, FieldTypes, TableTypes
<1>3. IdsExclusive /\ LiveThreadListed
  BY DEF Init, ControlInit, IdsExclusive, LiveThreadListed, Alive
<1>. QED  BY <1>1, <1>2, <1>3, TypesSplit DEF IInv

LEMMA NextIInv == IInv /\ [Next]_vars => IInv'
<1>. SUFFICES ASSUME IInv, [Next]_vars PROVE IInv'  OBVIOUS
<1>1. CASE ControlStep
  <2>1. program' \subseteq Threads /\ UNCHANGED <<current_tid, main_func>>
    BY <1>1 DEF ControlStep, IInv, TypeOK
  <2>. QED  BY <1>1, <2>1, ThreadStepKeepsIInv, CallStepKeepsIInv, ControlRequestKeepsIInv
            DEF ControlStep, ControlNext
<1>2. CASE \E c \in Clients : Request(c) \/ RuntimeStep(c)
  BY <1>2, RuntimeKeepsIInv
<1>3. CASE UNCHANGED vars
  <2>1. CallsOnThreads' /\ FieldTypes'
    BY <1>3, TypesSplit DEF IInv, vars, controlVars, threadVars, handleVars, tableVars,
       runtimeVars, CallsOnThreads, FieldTypes
  <2>. QED  BY <1>3, <2>1, QuietKeepsIInv DEF vars, controlVars, threadVars, tableVars
<1>. QED  BY <1>1, <1>2, <1>3 DEF Next

\* The fields of the thread control and of the runtime handler keep their types.
THEOREM TypeCorrect == Spec => []TypeOK
<1>1. IInv => TypeOK  BY DEF IInv
<1>. QED  BY InitIInv, NextIInv, <1>1, PTL DEF Spec

\* A thread that runs Lua code stays in the table under its id until the
\* object is destroyed: get_thread_handle always finds it, and never deletes
\* the handle under its feet.
THEOREM LiveThreadsStayListed == Spec => []LiveThreadListed
<1>1. IInv => LiveThreadListed  BY DEF IInv
<1>. QED  BY InitIInv, NextIInv, <1>1, PTL DEF Spec

-----------------------------------------------------------------------------
(***************************************************************************)
(* What a stop, the destructor and run_code promise.  A client that        *)
(* detaches a thread closes its handle under the feet of those who wait    *)
(* for it, so the rest is about clients that do not.                       *)
(***************************************************************************)
NoDetach == \A c \in Clients : "detach" \notin Uses[c]

Stops == {"stop", "stop_program", "destroy"}

\* Which operations come to a point.
Placed(o, p, t) ==
  /\ o = "none" <=> p = "idle"
  /\ p \in {"check", "is_stopped"} => o \in {"run_code", "load_file", "running", "destroy"}
  /\ p = "load" => o = "load_file"
  /\ p \in {"create", "waiting", "returning"} => o \in {"run_code", "run_execution"}
  /\ p = "create" => t = NoThread
  /\ p = "stop_get" => o \in {"stop_program", "destroy"} /\ t = NoThread
  /\ p \in {"signal", "resume"} => o \in Stops
  /\ p \in {"join", "join_wait"} => o \in Stops \cup {"join"}
  /\ p \in {"join_close", "join_clear"} => o \in Stops \cup {"join", "detach"}
  /\ p \in {"stop_all", "join_all"} => o = "destroy"

\* Every client is in an operation it uses, at one of its points.
OpsPlaced ==
  \A c \in Clients : /\ Placed(call[c].op, call[c].at, call[c].t)
                     /\ call[c].op \in Uses[c] \cup {"none"}

\* c alone goes on.
Moved(c, o, p, t) ==
  /\ call'[c].op = o /\ call'[c].at = p /\ call'[c].t = t
  /\ \A d \in Clients \ {c} : call'[d] = call[d]

LEMMA CallFields ==
  ASSUME CallsOnThreads, NEW c \in Clients
  PROVE  /\ \A p : Goto(c, p) => Moved(c, call[c].op, p, call[c].t)
         /\ \A p, t : GotoOn(c, p, t) => Moved(c, call[c].op, p, t)
         /\ Finish(c) => Moved(c, "none", "idle", NoThread)
         /\ EndCall(c) => IF call[c].op = "destroy" THEN Moved(c, "destroy", "stop_all", NoThread)
                                                    ELSE Moved(c, "none", "idle", NoThread)
         /\ \A o, p, t : call' = [call EXCEPT ![c] = [op |-> o, at |-> p, t |-> t]]
                           => Moved(c, o, p, t)
<1>1. call[c] \in CallSet /\ call \in [Clients -> CallSet]
  BY DEF CallsOnThreads
<1>2. ASSUME NEW p, Goto(c, p)  PROVE Moved(c, call[c].op, p, call[c].t)
  BY <1>1, <1>2 DEF Goto, Moved, CallSet
<1>3. ASSUME NEW o, NEW p, NEW t, call' = [call EXCEPT ![c] = [op |-> o, at |-> p, t |-> t]]
      PROVE  Moved(c, o, p, t)
  BY <1>1, <1>3 DEF Moved
<1>4. \A p, t : GotoOn(c, p, t) => Moved(c, call[c].op, p, t)
  BY <1>3 DEF GotoOn
<1>5. Finish(c) => Moved(c, "none", "idle", NoThread)
  BY <1>3 DEF Finish, Idle
<1>. QED  BY <1>2, <1>3, <1>4, <1>5 DEF EndCall

LEMMA MovesPlaced ==
  ASSUME OpsPlaced, NEW c \in Clients, NEW o \in Uses[c] \cup {"none"}, NEW p, NEW t,
         Moved(c, o, p, t), Placed(o, p, t)
  PROVE  OpsPlaced'
BY DEF OpsPlaced, Moved

\* The threads that have registered themselves.
Known == {t \in Threads : os[t] \notin {"none", "created"}}

\* A thread that runs has both faces of its handle; what is listed, referenced
\* or in a call has registered itself; a join closes only what has ended.
Faces ==
  \A t \in Threads : /\ Alive(t) => t \in open /\ t \in handle
                     /\ os[t] = "created" => t \in open
OnKnown ==
  /\ \A c \in Clients : refs[c] \subseteq Known
  /\ \A i \in Ids : thread_data[i] \in Known \cup {NoThread}
  /\ \A c \in Clients : call[c].at \in OnThread \ {"waiting"} => call[c].t \in Known
ClosesEnded ==
  \A c \in Clients : call[c].at \in {"join_close", "join_clear"} => os[call[c].t] = "ended"

Handles == Faces /\ OnKnown /\ ClosesEnded

HInv == IInv /\ OpsPlaced /\ Handles

-----------------------------------------------------------------------------
(* Where the calls are.                                                    *)

LEMMA CallStepPlaced ==
  ASSUME IInv, OpsPlaced, NEW c \in Clients, CallStep(c) \/ WakeSpuriously(c)
  PROVE  OpsPlaced'
<1>. DEFINE o == call[c].op  p == call[c].at  t == call[c].t
<1>1. Placed(o, p, t) /\ o \in Uses[c] \cup {"none"} /\ CallsOnThreads
  BY DEF OpsPlaced, IInv
<1>2. ASSUME NEW q, NEW u, Moved(c, o, q, u), Placed(o, q, u)
      PROVE  OpsPlaced'
  BY <1>1, <1>2, MovesPlaced
<1>3. ASSUME Moved(c, "none", "idle", NoThread)
      PROVE  OpsPlaced'
  BY <1>3, MovesPlaced DEF Placed
<1>4. ASSUME EndCall(c)
      PROVE  OpsPlaced'
  <2>1. o = "destroy" => Placed(o, "stop_all", NoThread)
    BY DEF Placed
  <2>. QED  BY <1>1, <1>2, <1>3, <1>4, <2>1, CallFields
<1>5. ASSUME NEW u \in Threads, CreateThread(c, u)
      PROVE  OpsPlaced'
  <2>1. Placed(o, "waiting", u) /\ Moved(c, o, "waiting", u)
    BY <1>1, <1>5, CallFields DEF CreateThread, At, Placed
  <2>. QED  BY <2>1, <1>2
<1>6. CASE CreateThreadFails(c)
  <2>1. Placed(o, "returning", NoThread) /\ Moved(c, o, "returning", NoThread)
    BY <1>1, <1>6, CallFields DEF CreateThreadFails, At, Placed
  <2>. QED  BY <2>1, <1>2
<1>7. CASE RunExecutionReturn(c)
  BY <1>1, <1>3, <1>7, CallFields DEF RunExecutionReturn
<1>8. ASSUME NEW q, Goto(c, q), Placed(o, q, t)
      PROVE  OpsPlaced'
  BY <1>1, <1>2, <1>8, CallFields
<1>9. CASE SignalStop(c)
  BY <1>1, <1>8, <1>9 DEF SignalStop, At, Placed
<1>10. CASE StopResume(c)
  BY <1>1, <1>8, <1>10 DEF StopResume, At, Placed
<1>11. CASE JoinTest(c)
  <2>1. Placed(o, "join_wait", t)
    BY <1>1, <1>11 DEF JoinTest, At, Placed
  <2>. QED  BY <2>1, <1>4, <1>8, <1>11 DEF JoinTest
<1>12. CASE JoinWait(c)
  <2>1. Placed(o, "join_close", t)
    BY <1>1, <1>12 DEF JoinWait, At, Placed
  <2>. QED  BY <2>1, <1>4, <1>8, <1>12 DEF JoinWait
<1>13. CASE JoinClose(c)
  BY <1>1, <1>8, <1>13 DEF JoinClose, At, Placed
<1>14. CASE JoinClear(c)
  BY <1>4, <1>14 DEF JoinClear
<1>15. CASE StopAllSignal(c)
  BY <1>1, <1>8, <1>15 DEF StopAllSignal, At, Placed
<1>16. CASE StopAllJoin(c)
  BY <1>1, <1>3, <1>16, CallFields DEF StopAllJoin
<1>17. CASE WakeSpuriously(c)
  BY <1>1, <1>8, <1>17 DEF WakeSpuriously, At, Placed
<1>. QED  BY <1>5, <1>6, <1>7, <1>9, <1>10, <1>11, <1>12, <1>13, <1>14, <1>15, <1>16, <1>17
          DEF CallStep

LEMMA RequestPlaced ==
  ASSUME IInv, OpsPlaced, NEW c \in Clients, ControlRequest(c) \/ Request(c)
  PROVE  OpsPlaced'
<1>1. ASSUME NEW o \in Uses[c], NEW p, NEW t, Placed(o, p, t),
             call' = [call EXCEPT ![c] = [op |-> o, at |-> p, t |-> t]]
      PROVE  OpsPlaced'
  BY <1>1, CallFields, MovesPlaced DEF IInv
<1>2. CASE call' = call
  BY <1>2 DEF OpsPlaced
<1>3. CASE RunExecution(c)
  <2>1. Placed("run_execution", "create", NoThread)
    BY DEF Placed
  <2>. QED  BY <1>1, <1>3, <2>1 DEF RunExecution, Ready
<1>4. ASSUME NEW t \in Threads, StopRunning(c, t) \/ JoinHandle(c, t) \/ Detach(c, t)
      PROVE  OpsPlaced'
  <2>1. /\ Placed("stop", "signal", t) /\ Placed("join", "join", t)
        /\ Placed("detach", "join_close", t)
    BY DEF Placed, Stops
  <2>. QED  BY <1>1, <1>4, <2>1 DEF StopRunning, JoinHandle, Detach, StartOn, Ready
<1>5. CASE ControlRequest(c)
  BY <1>2, <1>3, <1>4, <1>5 DEF ControlRequest, GetThreadHandle, FreeThreadHandle, ResumeExecution
<1>6. CASE Request(c)
  <2>1. /\ \A o \in {"run_code", "load_file", "running", "destroy"} : Placed(o, "check", NoThread)
        /\ Placed("stop_program", "stop_get", NoThread)
    BY DEF Placed
  <2>2. PICK o, q : Start(c, o, q) /\ Placed(o, q, NoThread)
    BY <1>6, <2>1 DEF Request, RunCode, LoadFile, CurrentlyRunning, StopProgram, Destroy
  <2>. QED  BY <1>1, <2>2 DEF Start, Ready
<1>. QED  BY <1>5, <1>6

\* What currently_running leads to.
LEMMA AnswerMoves ==
  ASSUME IInv, OpsPlaced, NEW c \in Clients, call[c].at \in {"check", "is_stopped"},
         NEW r \in BOOLEAN, Answer(c, r)
  PROVE  \/ call[c].op = "run_code" /\ ~r /\ Moved(c, "run_code", "create", NoThread)
         \/ call[c].op = "load_file" /\ ~r /\ Moved(c, "load_file", "load", NoThread)
         \/ call[c].op = "destroy" /\ r /\ Moved(c, "destroy", "stop_get", NoThread)
         \/ call[c].op = "destroy" /\ ~r /\ Moved(c, "destroy", "stop_all", NoThread)
         \/ Moved(c, "none", "idle", NoThread)
BY CallFields DEF Answer, IInv

LEMMA RuntimeStepPlaced ==
  ASSUME IInv, OpsPlaced, NEW c \in Clients, RuntimeStep(c)
  PROVE  OpsPlaced'
<1>. DEFINE o == call[c].op  p == call[c].at  t == call[c].t
<1>1. Placed(o, p, t) /\ o \in Uses[c] \cup {"none"} /\ CallsOnThreads
  BY DEF OpsPlaced, IInv
<1>2. ASSUME NEW q, NEW u, Moved(c, o, q, u), Placed(o, q, u)
      PROVE  OpsPlaced'
  BY <1>1, <1>2, MovesPlaced
<1>3. ASSUME Moved(c, "none", "idle", NoThread)
      PROVE  OpsPlaced'
  BY <1>3, MovesPlaced DEF Placed
<1>4. ASSUME NEW r \in BOOLEAN, Answer(c, r), p \in {"check", "is_stopped"}
      PROVE  OpsPlaced'
  <2>1. /\ o = "run_code" => Placed(o, "create", NoThread)
        /\ o = "load_file" => Placed(o, "load", NoThread)
        /\ o = "destroy" => Placed(o, "stop_get", NoThread) /\ Placed(o, "stop_all", NoThread)
    BY DEF Placed
  <2>. QED  BY <1>2, <1>3, <1>4, <2>1, AnswerMoves
<1>5. CASE CheckInvalid(c)
  BY <1>4, <1>5 DEF CheckInvalid, At
<1>6. CASE CheckTable(c)
  <2>1. \A u : Placed(o, "is_stopped", u)
    BY <1>1, <1>6 DEF CheckTable, At, Placed
  <2>. QED  BY <2>1, <1>1, <1>2, <1>4, <1>6, CallFields DEF CheckTable, At
<1>7. CASE CheckStopped(c)
  BY <1>4, <1>7 DEF CheckStopped, At, IsStopped
<1>8. CASE LoadMainFunction(c) \/ RunCodeReturn(c)
  BY <1>1, <1>3, <1>8, CallFields DEF LoadMainFunction, RunCodeReturn
<1>9. CASE StopGet(c)
  <2>1. \A u : Placed(o, "signal", u)
    BY <1>1, <1>9 DEF StopGet, At, Placed, Stops
  <2>2. o = "destroy" => Placed(o, "stop_all", NoThread)
    BY DEF Placed
  <2>. QED  BY <2>1, <2>2, <1>1, <1>2, <1>3, <1>9, CallFields DEF StopGet
<1>. QED  BY <1>5, <1>6, <1>7, <1>8, <1>9 DEF RuntimeStep

\* A thread that registers wakes those who wait for it; threads do nothing else
\* to a call.
LEMMA ThreadStepCalls ==
  ASSUME IInv, NEW t \in Threads, ThreadStep(t), NEW c \in Clients
  PROVE  /\ call'[c].op = call[c].op /\ call'[c].t = call[c].t
         /\ \/ call'[c].at = call[c].at /\ ~(os[t] = "created" /\ call[c].at = "waiting" /\ call[c].t = t)
            \/ /\ call[c].at = "waiting" /\ call[c].t = t /\ call'[c].at = "returning"
               /\ Register(t)
<1>1. call[c] \in CallSet
  BY CallMoves DEF IInv
<1>2. CASE Register(t)
  BY <1>1, <1>2 DEF Register, At, CallSet
<1>3. CASE os[t] # "created" /\ call' = call
  BY <1>3
<1>. QED  BY <1>2, <1>3 DEF ThreadStep, ThreadPause, ThreadWake, ThreadEnd, ThreadAsk, ThreadAnswered

LEMMA AlwaysPlaced == IInv /\ OpsPlaced /\ [Next]_vars => OpsPlaced'
<1>. SUFFICES ASSUME IInv, OpsPlaced, [Next]_vars PROVE OpsPlaced'  OBVIOUS
<1>1. ASSUME NEW t \in Threads, ThreadStep(t)  PROVE OpsPlaced'
  <2>. SUFFICES ASSUME NEW c \in Clients
                PROVE  Placed(call[c].op, call[c].at, call[c].t)' /\ call'[c].op \in Uses[c] \cup {"none"}
    BY DEF OpsPlaced
  <2>1. Placed(call[c].op, call[c].at, call[c].t) /\ call[c].op \in Uses[c] \cup {"none"}
    BY DEF OpsPlaced
  <2>. QED  BY <1>1, <2>1, ThreadStepCalls DEF Placed
<1>2. CASE UNCHANGED vars
  BY <1>2 DEF vars, controlVars, OpsPlaced
<1>. QED  BY <1>1, <1>2, CallStepPlaced, RequestPlaced, RuntimeStepPlaced
          DEF Next, ControlStep, ControlNext

-----------------------------------------------------------------------------
(* Handles of threads.                                                     *)

\* A step of a call that leaves threads, handles and the table alone.
LEMMA QuietHandles ==
  ASSUME HInv, UNCHANGED <<os, open, handle, refs, thread_data>>,
         NEW c \in Clients, NEW o, NEW p, NEW t, Moved(c, o, p, t),
         p \in OnThread \ {"waiting"} => t \in Known,
         p \in {"join_close", "join_clear"} => os[t] = "ended"
  PROVE  Handles'
BY DEF HInv, Handles, Faces, OnKnown, ClosesEnded, Moved, Known, Alive

LEMMA CallOnKnown ==
  ASSUME HInv, NEW c \in Clients, call[c].at \in OnThread \ {"waiting"}
  PROVE  call[c].t \in Known /\ call[c].t \in Threads
BY DEF HInv, Handles, OnKnown, Known

\* The end of a call leads to no thread.
LEMMA EndsQuietly ==
  ASSUME HInv, UNCHANGED <<os, open, handle, refs, thread_data>>, NEW c \in Clients,
         EndCall(c) \/ Finish(c)
  PROVE  Handles'
<1>1. \/ Moved(c, "none", "idle", NoThread)
      \/ Moved(c, "destroy", "stop_all", NoThread)
  BY CallFields DEF HInv, IInv
<1>. QED  BY <1>1, QuietHandles DEF OnThread

\* A call goes to another point on its thread.
LEMMA GoesQuietly ==
  ASSUME HInv, UNCHANGED <<os, open, handle, refs, thread_data>>, NEW c \in Clients,
         call[c].at \in OnThread \ {"waiting"}, NEW p, Goto(c, p),
         p \in {"join_close", "join_clear"} => os[call[c].t] = "ended"
  PROVE  Handles'
BY CallFields, CallOnKnown, QuietHandles DEF HInv, IInv

\* What a lookup finds has registered.
LEMMA FindsKnown ==
  ASSUME HInv, NEW i, Find(i)
  PROVE  /\ Found(i) \in Known \cup {NoThread}
         /\ \A j \in Ids : thread_data'[j] \in Known \cup {NoThread}
<1>1. Listed(i) \in Known \cup {NoThread}
  BY DEF HInv, Handles, OnKnown, Listed
<1>2. thread_data \in [Ids -> Threads \cup {NoThread}]
  BY DEF HInv, IInv, TypeOK, ControlTypeOK
<1>3. \A j \in Ids : thread_data'[j] \in {thread_data[j], NoThread}
  BY <1>2 DEF Find
<1>. QED  BY <1>1, <1>3 DEF HInv, Handles, OnKnown, Found

\* A step of a call after a lookup.
LEMMA FoundHandles ==
  ASSUME HInv, UNCHANGED <<os, open, handle, refs>>, NEW i, Find(i),
         NEW c \in Clients, NEW o, NEW p, NEW t \in Known \cup {NoThread}, Moved(c, o, p, t),
         p \in OnThread \ {"waiting"} => t # NoThread,
         p \notin {"join_close", "join_clear"}
  PROVE  Handles'
<1>1. \A j \in Ids : thread_data'[j] \in Known \cup {NoThread}
  BY FindsKnown
<1>2. Known' = Known
  BY DEF Known
<1>3. Faces'
  BY DEF HInv, Handles, Faces, Alive
<1>4. ClosesEnded'
  BY DEF HInv, Handles, ClosesEnded, Moved
<1>5. OnKnown'
  BY <1>1, <1>2 DEF HInv, Handles, OnKnown, Moved
<1>. QED  BY <1>3, <1>4, <1>5 DEF Handles

LEMMA CallStepHandles ==
  ASSUME HInv, NEW c \in Clients, CallStep(c) \/ WakeSpuriously(c)
  PROVE  Handles'
<1>. DEFINE u == call[c].t
<1>1. os \in [Threads -> {"none", "created", "running", "paused", "asking", "ended"}] /\ CallsOnThreads
  BY DEF HInv, IInv, TypeOK, ControlTypeOK
<1>2. ASSUME NEW t \in Threads, CreateThread(c, t)  PROVE Handles'
  <2>1. /\ os[t] = "none" /\ os' = [os EXCEPT ![t] = "created"] /\ open' = open \cup {t}
        /\ UNCHANGED <<handle, thread_data, refs>>
    BY <1>2 DEF CreateThread, tableVars
  <2>2. Known' = Known
    BY <1>1, <2>1 DEF Known
  <2>3. Moved(c, call[c].op, "waiting", t)
    BY <1>1, <1>2, CallFields DEF CreateThread
  <2>4. Faces'
    BY <1>1, <2>1 DEF HInv, Handles, Faces, Alive
  <2>5. OnKnown'
    BY <2>1, <2>2, <2>3 DEF HInv, Handles, OnKnown, Moved
  <2>6. ClosesEnded'
    BY <1>1, <2>1, <2>3 DEF HInv, Handles, ClosesEnded, Moved
  <2>. QED  BY <2>4, <2>5, <2>6 DEF Handles
<1>3. CASE CreateThreadFails(c) \/ WakeSpuriously(c)
  <2>1. Moved(c, call[c].op, "returning", NoThread) \/ Moved(c, call[c].op, "returning", u)
    BY <1>1, <1>3, CallFields DEF CreateThreadFails, WakeSpuriously
  <2>. QED  BY <1>3, <2>1, QuietHandles DEF CreateThreadFails, WakeSpuriously, threadVars, handleVars,
            tableVars, OnThread
<1>4. CASE RunExecutionReturn(c)
  BY <1>4, EndsQuietly DEF RunExecutionReturn, threadVars, handleVars, tableVars
<1>5. CASE SignalStop(c) \/ StopResume(c)
  BY <1>5, GoesQuietly DEF SignalStop, StopResume, handleVars, tableVars, At, OnThread
<1>6. CASE JoinTest(c) \/ JoinWait(c)
  BY <1>6, GoesQuietly, EndsQuietly DEF JoinTest, JoinWait, threadVars, handleVars, tableVars, At, OnThread
<1>7. CASE JoinClose(c) \/ JoinClear(c)
  <2>1. u \in Known /\ os[u] = "ended"
    BY <1>7, CallOnKnown DEF JoinClose, JoinClear, At, OnThread, HInv, Handles, ClosesEnded
  <2>2. /\ UNCHANGED <<os, thread_data, refs>>
        /\ \A t \in Threads \ {u} : /\ t \in open => t \in open'
                                    /\ t \in handle => t \in handle'
    BY <1>7 DEF JoinClose, JoinClear, threadVars, tableVars
  <2>3. Faces'
    BY <2>1, <2>2 DEF HInv, Handles, Faces, Alive
  <2>4. Known' = Known
    BY <2>2 DEF Known
  <2>5. \/ Moved(c, call[c].op, "join_clear", u)
        \/ Moved(c, "none", "idle", NoThread)
        \/ Moved(c, "destroy", "stop_all", NoThread)
    BY <1>1, <1>7, CallFields DEF JoinClose, JoinClear
  <2>6. OnKnown' /\ ClosesEnded'
    BY <2>1, <2>2, <2>4, <2>5 DEF HInv, Handles, OnKnown, ClosesEnded, Moved, OnThread
  <2>. QED  BY <2>3, <2>6 DEF Handles
<1>8. CASE StopAllSignal(c)
  <2>1. Moved(c, call[c].op, "join_all", u)
    BY <1>1, <1>8, CallFields DEF StopAllSignal
  <2>. QED  BY <1>8, <2>1, QuietHandles DEF StopAllSignal, handleVars, tableVars, OnThread
<1>9. CASE StopAllJoin(c)
  <2>1. /\ UNCHANGED <<os, refs>> /\ Known' = Known
        /\ \A i \in Ids : thread_data'[i] = NoThread
    BY <1>9 DEF StopAllJoin, threadVars, Known
  <2>2. \A t \in Threads : Alive(t) => t \notin ListedThreads
    BY <1>9 DEF StopAllJoin, HInv, Handles, Faces, Alive
  <2>3. \A t \in Threads : os[t] = "created" => t \notin ListedThreads
    BY DEF HInv, Handles, OnKnown, Known, ListedThreads
  <2>4. Faces'
    BY <1>9, <2>1, <2>2, <2>3 DEF StopAllJoin, HInv, Handles, Faces, Alive
  <2>5. Moved(c, "none", "idle", NoThread)
    BY <1>1, <1>9, CallFields DEF StopAllJoin
  <2>6. OnKnown' /\ ClosesEnded'
    BY <2>1, <2>5 DEF HInv, Handles, OnKnown, ClosesEnded, Moved, OnThread
  <2>. QED  BY <2>4, <2>6 DEF Handles
<1>. QED  BY <1>2, <1>3, <1>4, <1>5, <1>6, <1>7, <1>8, <1>9 DEF CallStep

LEMMA RequestHandles ==
  ASSUME NoDetach, HInv, NEW c \in Clients, ControlRequest(c) \/ Request(c)
  PROVE  Handles'
<1>1. CallsOnThreads /\ \A t \in refs[c] : t \in Known
  BY DEF HInv, IInv, Handles, OnKnown
<1>2. ASSUME NEW o, NEW p, NEW t,
             call' = [call EXCEPT ![c] = [op |-> o, at |-> p, t |-> t]],
             UNCHANGED <<threadVars, handleVars, tableVars, closed>>,
             p \notin OnThread \/ (t \in Known /\ p \in {"signal", "join"})
      PROVE  Handles'
  <2>1. Moved(c, o, p, t)
    BY <1>1, <1>2, CallFields
  <2>2. p \notin {"join_close", "join_clear"}
    BY <1>2 DEF OnThread
  <2>. QED  BY <1>2, <2>1, <2>2, QuietHandles DEF threadVars, handleVars, tableVars
<1>3. CASE RunExecution(c)
  BY <1>2, <1>3 DEF RunExecution, OnThread
<1>4. ASSUME NEW t \in Threads, StopRunning(c, t) \/ JoinHandle(c, t) \/ Detach(c, t)
      PROVE  Handles'
  BY <1>1, <1>2, <1>4 DEF StopRunning, JoinHandle, Detach, StartOn, Ready, NoDetach
<1>5. CASE Request(c)
  BY <1>2, <1>5 DEF Request, RunCode, LoadFile, CurrentlyRunning, StopProgram, Destroy, Start, OnThread
<1>6. ASSUME NEW i \in Ids, GetThreadHandle(c, i)
      PROVE  Handles'
  <2>1. /\ Found(i) \in Known \cup {NoThread}
        /\ \A j \in Ids : thread_data'[j] \in Known \cup {NoThread}
    BY <1>6, FindsKnown DEF GetThreadHandle
  <2>2. UNCHANGED <<os, open, handle, call>> /\ Known' = Known
    BY <1>6 DEF GetThreadHandle, threadVars, handleVars, Known
  <2>3. refs \in [Clients -> SUBSET Threads]
    BY DEF HInv, IInv, TypeOK, ControlTypeOK
  <2>4. \A d \in Clients : refs'[d] \subseteq refs[d] \cup ({Found(i)} \ {NoThread})
    BY <1>6, <2>3 DEF GetThreadHandle
  <2>. QED  BY <2>1, <2>2, <2>4 DEF HInv, Handles, Faces, OnKnown, ClosesEnded, Alive
<1>7. ASSUME NEW t \in Threads, FreeThreadHandle(c, t) \/ ResumeExecution(c, t)
      PROVE  Handles'
  <2>1. UNCHANGED <<os, open, handle, call, thread_data>> /\ Known' = Known
    BY <1>7 DEF FreeThreadHandle, ResumeExecution, threadVars, handleVars, tableVars, Known
  <2>2. refs \in [Clients -> SUBSET Threads]
    BY DEF HInv, IInv, TypeOK, ControlTypeOK
  <2>3. \A d \in Clients : refs'[d] \subseteq refs[d]
    BY <1>7, <2>2 DEF FreeThreadHandle, ResumeExecution, tableVars
  <2>. QED  BY <2>1, <2>3 DEF HInv, Handles, Faces, OnKnown, ClosesEnded, Alive
<1>. QED  BY <1>3, <1>4, <1>5, <1>6, <1>7 DEF ControlRequest

LEMMA RuntimeStepHandles ==
  ASSUME HInv, NEW c \in Clients, RuntimeStep(c)
  PROVE  Handles'
<1>1. CallsOnThreads
  BY DEF HInv, IInv
<1>2. ASSUME NEW r \in BOOLEAN, Answer(c, r), call[c].at \in {"check", "is_stopped"}
      PROVE  \E o, p : Moved(c, o, p, NoThread) /\ p \notin OnThread
  BY <1>2, AnswerMoves DEF HInv, OnThread
<1>3. CASE CheckInvalid(c) \/ CheckStopped(c)
  BY <1>2, <1>3, QuietHandles DEF CheckInvalid, CheckStopped, At, IsStopped, threadVars, handleVars,
     tableVars, OnThread
<1>4. CASE CheckTable(c)
  <2>1. Found(current_tid) \in Known \cup {NoThread} /\ UNCHANGED <<os, open, handle, refs>>
    BY <1>4, FindsKnown DEF CheckTable, threadVars, handleVars
  <2>2. \/ \E o, p : Moved(c, o, p, NoThread) /\ p \notin OnThread
        \/ Found(current_tid) # NoThread /\ Moved(c, call[c].op, "is_stopped", Found(current_tid))
    BY <1>1, <1>2, <1>4, CallFields DEF CheckTable, At
  <2>. QED  BY <1>4, <2>1, <2>2, FoundHandles DEF CheckTable, OnThread
<1>5. CASE LoadMainFunction(c) \/ RunCodeReturn(c)
  BY <1>5, EndsQuietly DEF LoadMainFunction, RunCodeReturn, threadVars, handleVars, tableVars
<1>6. CASE StopGet(c)
  <2>1. Found(current_tid) \in Known \cup {NoThread} /\ UNCHANGED <<os, open, handle, refs>>
    BY <1>6, FindsKnown DEF StopGet, threadVars, handleVars
  <2>2. \/ Moved(c, "none", "idle", NoThread)
        \/ Moved(c, "destroy", "stop_all", NoThread)
        \/ Found(current_tid) # NoThread /\ Moved(c, call[c].op, "signal", Found(current_tid))
    BY <1>1, <1>6, CallFields DEF StopGet
  <2>. QED  BY <1>6, <2>1, <2>2, FoundHandles DEF StopGet, OnThread
<1>. QED  BY <1>3, <1>4, <1>5, <1>6 DEF RuntimeStep

LEMMA ThreadStepHandles ==
  ASSUME HInv, NEW t \in Threads, ThreadStep(t)
  PROVE  Handles'
<1>1. os \in [Threads -> {"none", "created", "running", "paused", "asking", "ended"}]
  BY DEF HInv, IInv, TypeOK, ControlTypeOK
<1>2. CASE Register(t)
  <2>1. /\ os[t] = "created" /\ os' = [os EXCEPT ![t] = "running"] /\ handle' = handle \cup {t}
        /\ thread_data' = [thread_data EXCEPT ![Id[t]] = t] /\ UNCHANGED <<open, refs>>
    BY <1>2 DEF Register
  <2>2. Known' = Known \cup {t}
    BY <1>1, <2>1 DEF Known
  <2>3. thread_data \in [Ids -> Threads \cup {NoThread}]
    BY DEF HInv, IInv, TypeOK, ControlTypeOK
  <2>4. Faces'
    BY <1>1, <2>1 DEF HInv, Handles, Faces, Alive
  <2>5. \A c \in Clients : /\ call'[c].t = call[c].t
                           /\ call'[c].at = call[c].at \/ call'[c].at = "returning"
    BY <1>2, ThreadStepCalls DEF ThreadStep, HInv
  <2>6. OnKnown'
    BY <2>1, <2>2, <2>3, <2>5 DEF HInv, Handles, OnKnown, OnThread
  <2>7. ClosesEnded'
    BY <1>1, <2>1, <2>5 DEF HInv, Handles, ClosesEnded
  <2>. QED  BY <2>4, <2>6, <2>7 DEF Handles
<1>3. CASE ThreadPause(t) \/ ThreadWake(t) \/ ThreadEnd(t) \/ ThreadAsk(t) \/ ThreadAnswered(t)
  <2>1. /\ Alive(t) /\ UNCHANGED <<open, handle, thread_data, refs, call>>
        /\ \E x \in {"running", "paused", "asking", "ended"} : os' = [os EXCEPT ![t] = x]
    BY <1>3 DEF ThreadPause, ThreadWake, ThreadEnd, ThreadAsk, ThreadAnswered, Alive, handleVars, tableVars
  <2>2. Known' = Known
    BY <1>1, <2>1 DEF Known, Alive
  <2>3. Faces'
    BY <1>1, <2>1 DEF HInv, Handles, Faces, Alive
  <2>4. OnKnown'
    BY <2>1, <2>2 DEF HInv, Handles, OnKnown
  <2>5. ClosesEnded'
    BY <1>1, <2>1 DEF HInv, Handles, ClosesEnded, Alive
  <2>. QED  BY <2>3, <2>4, <2>5 DEF Handles
<1>. QED  BY <1>2, <1>3 DEF ThreadStep

LEMMA InitHInv == Init => HInv
<1>. SUFFICES ASSUME Init PROVE HInv  OBVIOUS
<1>1. OpsPlaced
  BY DEF Init, ControlInit, OpsPlaced, Placed, Idle
<1>2. Handles
  BY DEF Init, ControlInit, Handles, Faces, OnKnown, ClosesEnded, OnThread, Idle, Alive
<1>. QED  BY <1>1, <1>2, InitIInv DEF HInv

LEMMA NextHInv == NoDetach /\ HInv /\ [Next]_vars => HInv'
<1>. SUFFICES ASSUME NoDetach, HInv, [Next]_vars PROVE HInv'  OBVIOUS
<1>1. IInv' /\ OpsPlaced'
  BY NextIInv, AlwaysPlaced DEF HInv
<1>2. Handles'
  <2>1. CASE UNCHANGED vars
    BY <2>1 DEF vars, controlVars, threadVars, handleVars, tableVars, HInv, Handles, Faces, OnKnown,
       ClosesEnded, Known, Alive
  <2>. QED  BY <2>1, CallStepHandles, RequestHandles, RuntimeStepHandles, ThreadStepHandles
            DEF Next, ControlStep, ControlNext
<1>. QED  BY <1>1, <1>2 DEF HInv

\* A client moves nobody else's call.
LEMMA OthersStay ==
  ASSUME IInv, NEW c \in Clients, NEW d \in Clients, d # c,
         CallStep(c) \/ WakeSpuriously(c) \/ ControlRequest(c) \/ Request(c) \/ RuntimeStep(c)
  PROVE  call'[d] = call[d]
<1>1. call \in [Clients -> CallSet]
  BY DEF IInv, CallsOnThreads
<1>2. ASSUME \/ call' = call \/ Finish(c) \/ EndCall(c) \/ Answer(c, TRUE) \/ Answer(c, FALSE)
             \/ \E p : Goto(c, p)
             \/ \E p, t : GotoOn(c, p, t)
             \/ \E r : call' = [call EXCEPT ![c] = r]
      PROVE  call'[d] = call[d]
  BY <1>1, <1>2 DEF Finish, EndCall, Answer, Goto, GotoOn
<1>3. CASE CallStep(c) \/ WakeSpuriously(c)
  BY <1>2, <1>3 DEF CallStep, WakeSpuriously, CreateThread, CreateThreadFails, RunExecutionReturn,
     SignalStop, StopResume, JoinTest, JoinWait, JoinClose, JoinClear, StopAllSignal, StopAllJoin
<1>4. CASE ControlRequest(c)
  BY <1>2, <1>4 DEF ControlRequest, RunExecution, GetThreadHandle, FreeThreadHandle, StopRunning,
     JoinHandle, Detach, StartOn, ResumeExecution
<1>5. CASE Request(c)
  BY <1>2, <1>5 DEF Request, RunCode, LoadFile, CurrentlyRunning, StopProgram, Destroy, Start
<1>6. CASE RuntimeStep(c)
  BY <1>2, <1>6 DEF RuntimeStep, CheckInvalid, CheckTable, CheckStopped, LoadMainFunction,
     RunCodeReturn, StopGet, IsStopped
<1>. QED  BY <1>3, <1>4, <1>5, <1>6

\* How a stop ends: the handle was invalid, or closed, or this client cleared it.
LEMMA StopEnds ==
  ASSUME HInv, [Next]_vars, NEW c \in Clients, call[c].op \in {"stop", "stop_program"},
         call[c].t # NoThread, call'[c] = Idle
  PROVE  os[call[c].t] = "ended"
<1>. DEFINE t == call[c].t
<1>1. /\ call'[c].op = "none" /\ call'[c].at = "idle" /\ call[c] # Idle
      /\ Placed(call[c].op, call[c].at, t)
  BY DEF Idle, HInv, OpsPlaced
<1>2. call[c].at \in {"signal", "resume", "join", "join_wait", "join_close", "join_clear"}
  <2>1. call[c].at \in Points
    BY CallMoves DEF HInv, IInv, CallSet
  <2>. QED  BY <1>1, <2>1 DEF Placed, Points
<1>3. t \in Known /\ t \in Threads
  BY <1>2, CallOnKnown DEF OnThread
<1>4. os[t] \in {"none", "created", "running", "paused", "asking", "ended"}
  BY <1>3 DEF HInv, IInv, TypeOK, ControlTypeOK
<1>5. t \notin handle \/ t \notin open => os[t] = "ended"
  BY <1>3, <1>4 DEF HInv, Handles, Faces, Alive, Known
<1>6. CallStep(c) \/ WakeSpuriously(c)
  <2>1. call' # call
    BY <1>1
  <2>2. ASSUME NEW u \in Threads, ThreadStep(u)  PROVE FALSE
    BY <1>1, <2>2, ThreadStepCalls DEF HInv
  <2>3. ~ControlRequest(c) /\ ~Request(c)
    BY <1>1 DEF ControlRequest, RunExecution, GetThreadHandle, FreeThreadHandle, StopRunning,
       JoinHandle, Detach, StartOn, ResumeExecution, Request, RunCode, LoadFile, CurrentlyRunning,
       StopProgram, Destroy, Start, Ready
  <2>4. ~RuntimeStep(c)
    BY <1>2 DEF RuntimeStep, CheckInvalid, CheckTable, CheckStopped, LoadMainFunction,
       RunCodeReturn, StopGet, At
  <2>5. \A d \in Clients : CallStep(d) \/ WakeSpuriously(d) \/ ControlRequest(d) \/ Request(d)
                             \/ RuntimeStep(d) => d = c
    BY <1>1, OthersStay DEF HInv
  <2>. QED  BY <2>1, <2>2, <2>3, <2>4, <2>5 DEF Next, ControlStep, ControlNext, vars, controlVars
<1>7. \A p : Goto(c, p) => p = "idle"
  BY <1>1, CallFields DEF HInv, IInv, Moved
<1>8. \A p, u : GotoOn(c, p, u) => p = "idle"
  BY <1>1, CallFields DEF HInv, IInv, Moved
<1>9. CASE call[c].at \in {"join_close", "join_clear"}
  BY <1>9 DEF HInv, Handles, ClosesEnded
<1>10. CASE call[c].at \in {"signal", "resume", "join", "join_wait"}
  BY <1>5, <1>6, <1>7, <1>8, <1>10 DEF CallStep, WakeSpuriously, CreateThread, CreateThreadFails,
     RunExecutionReturn, SignalStop, StopResume, JoinTest, JoinWait, JoinClose, JoinClear,
     StopAllSignal, StopAllJoin, At
<1>. QED  BY <1>2, <1>9, <1>10

\* stop_running, of a handle or of the runtime handler, comes back only when the
\* thread has ended, if nobody detaches threads (luathread_control.cpp,
\* thread_handle_impl::stop_running and join).
THEOREM StoppedWhenBack ==
  ASSUME NoDetach
  PROVE  Spec => StopMeansStopped
<1>1. HInv /\ [Next]_vars =>
        [\A c \in Clients : call[c].op \in {"stop", "stop_program"} /\ call[c].t # NoThread
           /\ call'[c] = Idle => os[call[c].t] = "ended"]_vars
  BY StopEnds
<1>. QED  BY <1>1, InitHInv, NextHInv, PTL DEF Spec, StopMeansStopped

-----------------------------------------------------------------------------
(***************************************************************************)
(* The destructor.  It waits for the threads it finds in the table, so a   *)
(* thread that has not listed itself yet must not be there: its creator,   *)
(* who waits for it, would still be in its call, and the destructor has    *)
(* the object for itself.                                                  *)
(***************************************************************************)
Waited ==
  \A t \in Threads : os[t] = "created" =>
    \E c \in Clients : call[c].at = "waiting" /\ call[c].t = t
DestroyAlone ==
  \A c, d \in Clients : call[c].op = "destroy" /\ d # c => call[d].op = "none"
ClosedIdle == closed => \A c \in Clients : call[c].op = "none"

QInv == HInv /\ Waited /\ DestroyAlone /\ ClosedIdle /\ ClosedIsQuiet

\* A client begins a call.
Asks(c) == ControlRequest(c) \/ Request(c)

\* Who goes on is in an operation and stays in it until it is over; who asks
\* is in none.
LEMMA OpGoesOn ==
  ASSUME HInv, NEW c \in Clients, CallStep(c) \/ WakeSpuriously(c) \/ RuntimeStep(c)
  PROVE  call[c].op # "none" /\ call'[c].op \in {call[c].op, "none"}
<1>1. Placed(call[c].op, call[c].at, call[c].t) /\ CallsOnThreads
  BY DEF HInv, IInv, OpsPlaced
<1>2. call[c].at # "idle"
  BY DEF CallStep, WakeSpuriously, RuntimeStep, CreateThread, CreateThreadFails, RunExecutionReturn,
     SignalStop, StopResume, JoinTest, JoinWait, JoinClose, JoinClear, StopAllSignal, StopAllJoin,
     CheckInvalid, CheckTable, CheckStopped, LoadMainFunction, RunCodeReturn, StopGet, At
<1>3. \/ Finish(c) \/ EndCall(c) \/ Answer(c, TRUE) \/ Answer(c, FALSE)
      \/ \E p : Goto(c, p)
      \/ \E p, t : GotoOn(c, p, t)
  BY DEF CallStep, WakeSpuriously, RuntimeStep, CreateThread, CreateThreadFails, RunExecutionReturn,
     SignalStop, StopResume, JoinTest, JoinWait, JoinClose, JoinClear, StopAllSignal, StopAllJoin,
     CheckInvalid, CheckTable, CheckStopped, LoadMainFunction, RunCodeReturn, StopGet, IsStopped
<1>4. call'[c].op \in {call[c].op, "none"}
  BY <1>1, <1>3, CallFields DEF Answer, Moved
<1>. QED  BY <1>1, <1>2, <1>4 DEF Placed

\* Where a call begins.
First(o, p) == \/ p \in {"check", "stop_get", "signal", "join", "join_close"}
               \/ o = "run_execution" /\ p = "create"

LEMMA AskerIdle ==
  ASSUME HInv, NEW c \in Clients, Asks(c)
  PROVE  /\ call[c] = Idle /\ ~closed /\ \A d \in Clients : call[d].op # "destroy"
         /\ UNCHANGED <<os, closed>>
         /\ \/ call' = call
            \/ \E o \in Operations : \E p :
                 /\ Moved(c, o, p, call'[c].t) /\ First(o, p)
                 /\ o = "destroy" => \A d \in Clients : call[d] = Idle
<1>1. CallsOnThreads
  BY DEF HInv, IInv
<1>2. ASSUME NEW o \in Operations, NEW p, NEW t,
             call' = [call EXCEPT ![c] = [op |-> o, at |-> p, t |-> t]]
      PROVE  Moved(c, o, p, call'[c].t)
  <2>1. Moved(c, o, p, t)
    BY <1>1, <1>2, CallFields
  <2>. QED  BY <2>1 DEF Moved
<1>3. ASSUME NEW o \in Operations, NEW p, Start(c, o, p),
             o = "destroy" => \A d \in Clients : call[d] = Idle
      PROVE  /\ call[c] = Idle /\ ~closed /\ \A d \in Clients : call[d].op # "destroy"
             /\ UNCHANGED <<os, closed>>
             /\ Moved(c, o, p, call'[c].t)
  BY <1>2, <1>3 DEF Start, Ready, threadVars
<1>4. CASE Request(c)
  <2>1. PICK o \in Operations, p \in {"check", "stop_get"} :
          Start(c, o, p) /\ (o = "destroy" => \A d \in Clients : call[d] = Idle)
    BY <1>4 DEF Request, RunCode, LoadFile, CurrentlyRunning, StopProgram, Destroy, Operations
  <2>2. First(o, p)
    BY DEF First
  <2>. QED  BY <1>3, <2>1, <2>2
<1>5. ASSUME NEW o \in Operations \ {"destroy"}, NEW p, NEW t, First(o, p), Ready(c, o),
             UNCHANGED <<threadVars, handleVars, tableVars, closed>>,
             call' = [call EXCEPT ![c] = [op |-> o, at |-> p, t |-> t]]
      PROVE  /\ call[c] = Idle /\ ~closed /\ \A d \in Clients : call[d].op # "destroy"
             /\ UNCHANGED <<os, closed>>
             /\ Moved(c, o, p, call'[c].t)
  BY <1>2, <1>5 DEF Ready, threadVars
<1>6. CASE RunExecution(c)
  <2>1. "run_execution" \in Operations \ {"destroy"}
    BY DEF Operations
  <2>3. First("run_execution", "create")
    BY DEF First
  <2>2. /\ Ready(c, "run_execution") /\ UNCHANGED <<threadVars, handleVars, tableVars, closed>>
        /\ call' = [call EXCEPT ![c] = [op |-> "run_execution", at |-> "create", t |-> NoThread]]
    BY <1>6 DEF RunExecution
  <2>. QED  BY <1>5, <2>1, <2>2, <2>3
<1>7. ASSUME NEW t \in Threads, StopRunning(c, t) \/ JoinHandle(c, t) \/ Detach(c, t)
      PROVE  \E o \in Operations \ {"destroy"} : \E p :
               /\ First(o, p) /\ Ready(c, o) /\ UNCHANGED <<threadVars, handleVars, tableVars, closed>>
               /\ call' = [call EXCEPT ![c] = [op |-> o, at |-> p, t |-> t]]
  <2>1. \A o : First(o, "signal") /\ First(o, "join") /\ First(o, "join_close")
    BY DEF First
  <2>. QED  BY <1>7, <2>1 DEF StopRunning, JoinHandle, Detach, StartOn, Operations
<1>8. ASSUME \/ \E i \in Ids : GetThreadHandle(c, i)
             \/ \E t \in Threads : FreeThreadHandle(c, t) \/ ResumeExecution(c, t)
      PROVE  /\ call[c] = Idle /\ ~closed /\ \A d \in Clients : call[d].op # "destroy"
             /\ UNCHANGED <<os, closed>> /\ call' = call
  BY <1>8 DEF GetThreadHandle, FreeThreadHandle, ResumeExecution, Ready, threadVars
<1>9. CASE ControlRequest(c)
  BY <1>5, <1>6, <1>7, <1>8, <1>9 DEF ControlRequest
<1>. QED  BY <1>4, <1>9 DEF Asks

\* Who waits for the thread it has created is not the one who goes on.
LEMMA WaiterStays ==
  ASSUME HInv, ~SpuriousWakes, NEW c \in Clients, NEW d \in Clients, call[d].at = "waiting",
         CallStep(c) \/ WakeSpuriously(c) \/ RuntimeStep(c) \/ Asks(c)
  PROVE  call'[d] = call[d]
<1>1. c # d
  <2>1. CASE CallStep(c) \/ WakeSpuriously(c) \/ RuntimeStep(c)
    BY <2>1 DEF CallStep, WakeSpuriously, RuntimeStep, CreateThread, CreateThreadFails, RunExecutionReturn,
     SignalStop, StopResume, JoinTest, JoinWait, JoinClose, JoinClear, StopAllSignal, StopAllJoin,
     CheckInvalid, CheckTable, CheckStopped, LoadMainFunction, RunCodeReturn, StopGet, At
  <2>2. CASE Asks(c)
    BY <2>2, AskerIdle DEF Idle
  <2>. QED  BY <2>1, <2>2
<1>. QED  BY <1>1, OthersStay DEF HInv, Asks

\* Everything a step can be.
LEMMA StepsOf ==
  ASSUME [Next]_vars
  PROVE  \/ \E t \in Threads : ThreadStep(t)
         \/ \E c \in Clients : CallStep(c) \/ WakeSpuriously(c) \/ RuntimeStep(c) \/ Asks(c)
         \/ UNCHANGED vars
BY DEF Next, ControlStep, ControlNext, Asks

LEMMA WaitedStays ==
  ASSUME QInv, ~SpuriousWakes, [Next]_vars
  PROVE  Waited'
<1>1. os \in [Threads -> {"none", "created", "running", "paused", "asking", "ended"}]
  BY DEF QInv, HInv, IInv, TypeOK, ControlTypeOK
<1>. SUFFICES ASSUME NEW t \in Threads, os'[t] = "created"
              PROVE  \E c \in Clients : call'[c].at = "waiting" /\ call'[c].t = t
  BY DEF Waited
<1>2. ASSUME NEW c \in Clients, CreateThread(c, t)
      PROVE  call'[c].at = "waiting" /\ call'[c].t = t
  BY <1>2, CallFields DEF CreateThread, QInv, HInv, IInv, Moved
<1>3. CASE os[t] = "created"
  <2>1. PICK c \in Clients : call[c].at = "waiting" /\ call[c].t = t
    BY <1>3 DEF QInv, Waited
  <2>2. ASSUME NEW d \in Clients, CallStep(d) \/ WakeSpuriously(d) \/ RuntimeStep(d) \/ Asks(d)
        PROVE  call'[c] = call[c]
    BY <2>1, <2>2, WaiterStays DEF QInv
  <2>3. ASSUME NEW u \in Threads, ThreadStep(u)
        PROVE  call'[c].at = "waiting" /\ call'[c].t = t
    <3>1. Register(u) => u # t
      BY <1>1 DEF Register
    <3>. QED  BY <2>1, <2>3, <3>1, ThreadStepCalls DEF QInv, HInv
  <2>4. CASE UNCHANGED vars
    BY <2>1, <2>4 DEF vars, controlVars
  <2>. QED  BY <2>1, <2>2, <2>3, <2>4, StepsOf
<1>4. CASE os[t] # "created"
  <2>1. ASSUME NEW u \in Threads, ThreadStep(u)
        PROVE  FALSE
    BY <1>1, <1>4, <2>1 DEF ThreadStep, Register, ThreadPause, ThreadWake, ThreadEnd, ThreadAsk, ThreadAnswered
  <2>2. ASSUME NEW c \in Clients, CallStep(c) \/ WakeSpuriously(c) \/ RuntimeStep(c) \/ Asks(c)
        PROVE  \E u \in Threads : CreateThread(c, u)
    <3>1. Asks(c) => UNCHANGED os
      BY AskerIdle DEF QInv
    <3>. QED  BY <1>4, <2>2, <3>1 DEF CallStep, WakeSpuriously, RuntimeStep, CreateThreadFails,
         RunExecutionReturn, SignalStop, StopResume, JoinTest, JoinWait, JoinClose, JoinClear,
         StopAllSignal, StopAllJoin, CheckInvalid, CheckTable, CheckStopped, LoadMainFunction,
         RunCodeReturn, StopGet, threadVars
  <2>3. ASSUME NEW c \in Clients, NEW u \in Threads, CreateThread(c, u)
        PROVE  u = t
    BY <1>1, <1>4, <2>3 DEF CreateThread
  <2>. QED  BY <1>2, <1>4, <2>1, <2>2, <2>3, StepsOf DEF vars, controlVars, threadVars
<1>. QED  BY <1>3, <1>4

LEMMA AloneStays ==
  ASSUME QInv, [Next]_vars
  PROVE  DestroyAlone'
<1>. SUFFICES ASSUME NEW c \in Clients, NEW d \in Clients, d # c, call'[c].op = "destroy"
              PROVE  call'[d].op = "none"
  BY DEF DestroyAlone
<1>1. ASSUME NEW t \in Threads, ThreadStep(t)
      PROVE  call'[d].op = "none"
  BY <1>1, ThreadStepCalls DEF QInv, HInv, DestroyAlone
<1>2. ASSUME NEW e \in Clients, CallStep(e) \/ WakeSpuriously(e) \/ RuntimeStep(e)
      PROVE  call'[d].op = "none"
  <2>1. call[e].op # "none" /\ call'[e].op \in {call[e].op, "none"}
    BY <1>2, OpGoesOn DEF QInv
  <2>2. \A f \in Clients : f # e => call'[f] = call[f]
    BY <1>2, OthersStay DEF QInv, HInv
  <2>3. call[c].op = "destroy"
    BY <2>1, <2>2
  <2>. QED  BY <2>1, <2>2, <2>3 DEF QInv, DestroyAlone
<1>3. ASSUME NEW e \in Clients, Asks(e)
      PROVE  call'[d].op = "none"
  <2>1. call' # call
    BY <1>3, AskerIdle DEF QInv
  <2>2. PICK o \in Operations :
          \E p : /\ Moved(e, o, p, call'[e].t)
                 /\ o = "destroy" => \A f \in Clients : call[f] = Idle
    BY <1>3, <2>1, AskerIdle DEF QInv
  <2>3. PICK p : Moved(e, o, p, call'[e].t)
    BY <2>2
  <2>4. c = e /\ o = "destroy"
    BY <1>3, <2>3, AskerIdle DEF Moved, QInv
  <2>. QED  BY <2>2, <2>3, <2>4 DEF Moved, Idle
<1>4. CASE UNCHANGED vars
  BY <1>4 DEF vars, controlVars, QInv, DestroyAlone
<1>. QED  BY <1>1, <1>2, <1>3, <1>4, StepsOf

\* The step that closes the object is the destructor's last.
LEMMA ClosesLast ==
  ASSUME QInv, [Next]_vars, ~closed, closed'
  PROVE  \E c \in Clients : StopAllJoin(c) /\ call[c].op = "destroy"
<1>1. ASSUME NEW t \in Threads, ThreadStep(t)
      PROVE  FALSE
  BY <1>1 DEF ThreadStep, Register, ThreadPause, ThreadWake, ThreadEnd, ThreadAsk, ThreadAnswered
<1>2. ASSUME NEW c \in Clients, CallStep(c) \/ WakeSpuriously(c) \/ RuntimeStep(c) \/ Asks(c)
      PROVE  StopAllJoin(c)
  <2>1. Asks(c) => UNCHANGED closed
    BY AskerIdle DEF QInv
  <2>. QED  BY <1>2, <2>1 DEF CallStep, WakeSpuriously, RuntimeStep, CreateThread, CreateThreadFails,
         RunExecutionReturn, SignalStop, StopResume, JoinTest, JoinWait, JoinClose, JoinClear,
         StopAllSignal, CheckInvalid, CheckTable, CheckStopped, LoadMainFunction,
         RunCodeReturn, StopGet
<1>3. ASSUME NEW c \in Clients, StopAllJoin(c)
      PROVE  call[c].op = "destroy"
  BY <1>3 DEF StopAllJoin, At, QInv, HInv, OpsPlaced, Placed
<1>. QED  BY <1>1, <1>2, <1>3, StepsOf DEF vars, controlVars

\* Nothing begins any more in a closed object.
LEMMA ClosedStays ==
  ASSUME QInv, [Next]_vars, closed
  PROVE  UNCHANGED vars
<1>1. ASSUME NEW c \in Clients, CallStep(c) \/ WakeSpuriously(c) \/ RuntimeStep(c) \/ Asks(c)
      PROVE  FALSE
  BY <1>1, OpGoesOn, AskerIdle DEF QInv, ClosedIdle
<1>2. ASSUME NEW t \in Threads, ThreadStep(t)
      PROVE  FALSE
  BY <1>2 DEF ThreadStep, Register, ThreadPause, ThreadWake, ThreadEnd, ThreadAsk, ThreadAnswered,
     QInv, ClosedIsQuiet
<1>. QED  BY <1>1, <1>2, StepsOf

LEMMA QuietWhenClosed ==
  ASSUME QInv, [Next]_vars, closed'
  PROVE  /\ \A c \in Clients : call'[c].op = "none"
         /\ \A t \in Threads : os'[t] \in {"none", "ended"}
<1>1. CASE closed
  BY <1>1, ClosedStays DEF vars, controlVars, threadVars, QInv, ClosedIdle, ClosedIsQuiet
<1>2. CASE ~closed
  <2>1. PICK c \in Clients : StopAllJoin(c) /\ call[c].op = "destroy"
    BY <1>2, ClosesLast
  <2>2. Moved(c, "none", "idle", NoThread) /\ UNCHANGED os
    BY <2>1, CallFields DEF StopAllJoin, threadVars, QInv, HInv, IInv
  <2>3. \A d \in Clients : call'[d].op = "none"
    BY <2>1, <2>2 DEF Moved, QInv, DestroyAlone
  <2>4. ASSUME NEW t \in Threads
        PROVE  os[t] \in {"none", "ended"}
    <3>1. os[t] \in {"none", "created", "running", "paused", "asking", "ended"} /\ Id[t] \in Ids
      BY DEF QInv, HInv, IInv, TypeOK, ControlTypeOK, Ids
    <3>2. os[t] # "created"
      <4>1. \A d \in Clients : call[d].at = "waiting" => call[d].op \in {"run_code", "run_execution"}
        BY DEF QInv, HInv, OpsPlaced, Placed
      <4>. QED  BY <2>1, <4>1 DEF QInv, Waited, DestroyAlone
    <3>3. ~Alive(t)
      <4>1. Alive(t) => t \in handle /\ t \in open
        BY DEF QInv, HInv, Handles, Faces
      <4>2. Alive(t) => thread_data[Id[t]] = t
        BY <1>2 DEF QInv, HInv, IInv, LiveThreadListed
      <4>3. t # NoThread
        BY ControlAssumption
      <4>4. Alive(t) => t \in ListedThreads
        BY <3>1, <4>2, <4>3 DEF ListedThreads
      <4>. QED  BY <2>1, <4>1, <4>4 DEF StopAllJoin, Alive
    <3>. QED  BY <3>1, <3>2, <3>3 DEF Alive
  <2>. QED  BY <2>2, <2>3, <2>4
<1>. QED  BY <1>1, <1>2

LEMMA InitQInv == Init => QInv
BY InitHInv DEF Init, ControlInit, QInv, Waited, DestroyAlone, ClosedIdle, ClosedIsQuiet, Idle

LEMMA NextQInv ==
  ASSUME NoDetach, ~SpuriousWakes, QInv, [Next]_vars
  PROVE  QInv'
BY NextHInv, WaitedStays, AloneStays, QuietWhenClosed DEF QInv, ClosedIdle, ClosedIsQuiet

\* When the destructor has closed the Lua state no thread runs in it, if nobody
\* detaches threads and a condition variable wakes only when it is notified
\* (luathread_control.cpp, _stop_all_execution).
THEOREM QuietAfterDestroy ==
  ASSUME NoDetach, ~SpuriousWakes
  PROVE  Spec => []ClosedIsQuiet
<1>1. QInv => ClosedIsQuiet
  BY DEF QInv
<1>. QED  BY <1>1, InitQInv, NextQInv, PTL DEF Spec

-----------------------------------------------------------------------------
(***************************************************************************)
(* run_code.  It asks first and creates the thread later, so two clients   *)
(* can both be told that nothing runs; one client alone cannot, because    *)
(* _current_tid is the id of what it ran last, the table lists that thread *)
(* while it lives, and no thread has the id that stands for none.          *)
(***************************************************************************)
OneRunner ==
  /\ \A c, d \in Clients : "run_code" \in Uses[c] /\ "run_code" \in Uses[d] => c = d
  /\ ERROR_INVALID_THREAD_ID \notin Ids

Live(t) == t \in program /\ os[t] # "ended"
Runs(c) == call[c].op = "run_code"

RunsOne ==
  /\ \A t \in program : os[t] # "none"
  /\ \A c \in Clients : Runs(c) /\ call[c].at \in {"create", "waiting", "returning", "is_stopped"} =>
       \A u \in Threads : Live(u) => u = call[c].t
  /\ \A c \in Clients : call[c].at = "returning" /\ call[c].t # NoThread => call[c].t \in Known
  /\ \A u \in Threads : Live(u) =>
       \/ \E c \in Clients : Runs(c) /\ call[c].at \in {"waiting", "returning"} /\ call[c].t = u
       \/ current_tid = Id[u] /\ os[u] # "created"

\* Only a run_code makes a program, of the thread it creates.
LEMMA ProgramSteps ==
  ASSUME QInv, [Next]_vars
  PROVE  \/ program' = program
         \/ \E c \in Clients, t \in Threads : Runs(c) /\ CreateThread(c, t) /\ program' = program \cup {t}
<1>1. CASE ControlStep
  <2>1. ASSUME NEW t \in Threads, NEW c \in Clients, At(c, "create"), Runs(c),
               call'[c].at = "waiting", call'[c].t = t
        PROVE  CreateThread(c, t)
    <3>1. ASSUME NEW u \in Threads, ThreadStep(u)  PROVE FALSE
      BY <2>1, <3>1, ThreadStepCalls DEF At, QInv, HInv
    <3>2. ~Asks(c)
      BY <2>1, AskerIdle DEF QInv, At, Idle
    <3>3. \A d \in Clients : CallStep(d) \/ WakeSpuriously(d) \/ Asks(d) => d = c
      BY <2>1, OthersStay DEF At, QInv, HInv, Asks
    <3>4. CallStep(c)
      BY <1>1, <2>1, <3>1, <3>2, <3>3 DEF ControlStep, ControlNext, Asks, WakeSpuriously, At
    <3>5. ~CreateThreadFails(c)
      BY <2>1, CallFields DEF CreateThreadFails, Moved, QInv, HInv, IInv
    <3>6. \E u \in Threads : CreateThread(c, u)
      BY <2>1, <3>4, <3>5 DEF CallStep, RunExecutionReturn, SignalStop, StopResume, JoinTest, JoinWait,
         JoinClose, JoinClear, StopAllSignal, StopAllJoin, At
    <3>7. \A u \in Threads : CreateThread(c, u) => u = t
      BY <2>1, CallFields DEF CreateThread, Moved, QInv, HInv, IInv
    <3>. QED  BY <3>6, <3>7
  <2>2. CASE \E t \in Threads, c \in Clients : At(c, "create") /\ Runs(c) /\ call'[c].at = "waiting"
                                                 /\ call'[c].t = t
    <3>1. PICK t \in Threads, c \in Clients : At(c, "create") /\ Runs(c) /\ call'[c].at = "waiting"
                                                /\ call'[c].t = t
      BY <2>2
    <3>2. CreateThread(c, t)
      BY <2>1, <3>1
    <3>3. \A u \in Threads, d \in Clients : At(d, "create") /\ Runs(d) /\ call'[d].at = "waiting"
                                              /\ call'[d].t = u => u = t
      <4>. SUFFICES ASSUME NEW u \in Threads, NEW d \in Clients, At(d, "create"), Runs(d),
                           call'[d].at = "waiting", call'[d].t = u
                    PROVE  u = t
        OBVIOUS
      <4>1. CreateThread(d, u)
        BY <2>1
      <4>2. os' = [os EXCEPT ![t] = "created"] /\ os' = [os EXCEPT ![u] = "created"] /\ os[u] = "none"
        BY <3>2, <4>1 DEF CreateThread
      <4>. QED  BY <4>2 DEF QInv, HInv, IInv, TypeOK, ControlTypeOK
    <3>4. program' = program \cup {t}
      BY <1>1, <3>1, <3>3 DEF ControlStep, Runs
    <3>. QED  BY <3>1, <3>2, <3>4
  <2>. QED  BY <1>1, <2>2 DEF ControlStep, Runs
<1>2. CASE ~ControlStep
  BY <1>2 DEF Next, Request, RuntimeStep, RunCode, LoadFile, CurrentlyRunning, StopProgram, Destroy,
     Start, CheckInvalid, CheckTable, CheckStopped, LoadMainFunction, RunCodeReturn, StopGet,
     vars, runtimeVars
<1>. QED  BY <1>1, <1>2

RInv == QInv /\ RunsOne

\* A call that goes on, with nothing running that it should know of.
LEMMA RunsGoOn ==
  ASSUME RInv, UNCHANGED <<os, program, current_tid>>, NEW c \in Clients, NEW o, NEW p, NEW t,
         Moved(c, o, p, t), call[c].at \notin {"waiting", "returning"} \/ ~Runs(c),
         p # "waiting", p = "returning" => t = NoThread,
         o = "run_code" /\ p \in {"create", "returning", "is_stopped"} =>
           \A u \in Threads : Live(u) => u = t
  PROVE  RunsOne'
<1>1. Known' = Known
  BY DEF Known
<1>2. \A t1 \in program : os[t1] # "none"
  BY DEF RInv, RunsOne
<1>3. ASSUME NEW d \in Clients, call'[d].op = "run_code",
             call'[d].at \in {"create", "waiting", "returning", "is_stopped"},
             NEW u \in Threads, Live(u)
      PROVE  u = call'[d].t
  BY <1>3 DEF RInv, RunsOne, Moved, Runs
<1>4. ASSUME NEW d \in Clients, call'[d].at = "returning", call'[d].t # NoThread
      PROVE  call'[d].t \in Known
  BY <1>4 DEF RInv, RunsOne, Moved
<1>5. ASSUME NEW u \in Threads, Live(u)
      PROVE  \/ \E d \in Clients : /\ call'[d].op = "run_code" /\ call'[d].at \in {"waiting", "returning"}
                                   /\ call'[d].t = u
             \/ current_tid = Id[u] /\ os[u] # "created"
  BY <1>5 DEF RInv, RunsOne, Moved, Runs
<1>. QED  BY <1>1, <1>2, <1>3, <1>4, <1>5 DEF RunsOne, Runs, Live

\* A run_code that creates its thread: nothing else of the program lives.
LEMMA RunsNew ==
  ASSUME OneRunner, RInv, NEW c \in Clients, NEW t \in Threads, Runs(c), CreateThread(c, t),
         program' = program \cup {t}
  PROVE  RunsOne'
<1>1. /\ call[c].at = "create" /\ os[t] = "none" /\ os' = [os EXCEPT ![t] = "created"]
      /\ os \in [Threads -> {"none", "created", "running", "paused", "asking", "ended"}]
      /\ NoThread \notin Threads
  BY ControlAssumption DEF CreateThread, At, RInv, QInv, HInv, IInv, TypeOK, ControlTypeOK
<1>2. Moved(c, "run_code", "waiting", t)
  BY CallFields DEF CreateThread, Runs, RInv, QInv, HInv, IInv
<1>3. \A u \in Threads : ~Live(u)
  <2>1. call[c].t = NoThread
    BY <1>1 DEF RInv, QInv, HInv, OpsPlaced, Placed
  <2>. QED  BY <1>1, <2>1 DEF RInv, RunsOne
<1>4. \A u \in Threads : Live(u)' => u = t
  BY <1>1, <1>3 DEF Live, RInv, QInv, HInv, IInv, TypeOK
<1>5. \A d \in Clients : Runs(d)' => d = c
  <2>1. \A d \in Clients : Runs(d) => "run_code" \in Uses[d]
    BY DEF RInv, QInv, HInv, OpsPlaced, Runs
  <2>. QED  BY <1>2, <2>1 DEF OneRunner, Moved, Runs
<1>6. \A u \in Known : os'[u] = os[u]
  BY <1>1 DEF Known
<1>7. ASSUME NEW d \in Clients, call'[d].at = "returning", call'[d].t # NoThread
      PROVE  call'[d].t \in Known'
  <2>1. call'[d] = call[d] /\ call[d].t \in Known
    BY <1>2, <1>7 DEF Moved, RInv, RunsOne
  <2>. QED  BY <1>6, <2>1 DEF Known
<1>8. \A u \in program' : os'[u] # "none"
  BY <1>1 DEF RInv, RunsOne, QInv, HInv, IInv, TypeOK
<1>9. /\ call'[c].t = t /\ call'[c].at = "waiting" /\ Runs(c)'
  BY <1>2 DEF Moved, Runs
<1>. QED  BY <1>4, <1>5, <1>7, <1>8, <1>9 DEF RunsOne

\* Any other creation is of a thread that is not of the program.
LEMMA RunsBeside ==
  ASSUME RInv, NEW c \in Clients, NEW t \in Threads, CreateThread(c, t),
         UNCHANGED <<program, current_tid>>
  PROVE  RunsOne'
<1>1. /\ call[c].at = "create" /\ os[t] = "none" /\ os' = [os EXCEPT ![t] = "created"]
      /\ os \in [Threads -> {"none", "created", "running", "paused", "asking", "ended"}]
      /\ NoThread \notin Threads
  BY ControlAssumption DEF CreateThread, At, RInv, QInv, HInv, IInv, TypeOK, ControlTypeOK
<1>2. Moved(c, call[c].op, "waiting", t) /\ call[c].t = NoThread
  <2>1. Moved(c, call[c].op, "waiting", t)
    BY CallFields DEF CreateThread, RInv, QInv, HInv, IInv
  <2>2. call[c].t = NoThread
    BY <1>1 DEF RInv, QInv, HInv, OpsPlaced, Placed
  <2>. QED  BY <2>1, <2>2
<1>3. \A u \in program : u \in Threads /\ u # t /\ os'[u] = os[u] /\ os'[u] # "none"
  BY <1>1 DEF RInv, RunsOne, QInv, HInv, IInv, TypeOK
<1>4. \A u \in Threads : Live(u)' => Live(u) /\ os'[u] = os[u]
  BY <1>3 DEF Live
<1>5. \A u \in Known : os'[u] = os[u]
  BY <1>1 DEF Known
<1>6. ASSUME NEW d \in Clients, call'[d].at = "returning", call'[d].t # NoThread
      PROVE  call'[d].t \in Known'
  <2>1. call'[d] = call[d] /\ call[d].t \in Known
    BY <1>2, <1>6 DEF Moved, RInv, RunsOne
  <2>. QED  BY <1>5, <2>1 DEF Known
<1>7. ASSUME NEW d \in Clients, Runs(d)', call'[d].at \in {"create", "waiting", "returning", "is_stopped"},
             NEW u \in Threads, Live(u)'
      PROVE  u = call'[d].t
  <2>1. CASE d = c
    BY <1>1, <1>2, <1>4, <1>7, <2>1 DEF RInv, RunsOne, Runs, Moved
  <2>2. CASE d # c
    BY <1>2, <1>4, <1>7, <2>2 DEF RInv, RunsOne, Runs, Moved
  <2>. QED  BY <2>1, <2>2
<1>8. ASSUME NEW u \in Threads, Live(u)'
      PROVE  \/ \E d \in Clients : Runs(d)' /\ call'[d].at \in {"waiting", "returning"} /\ call'[d].t = u
             \/ current_tid' = Id[u] /\ os'[u] # "created"
  <2>1. \/ \E d \in Clients : Runs(d) /\ call[d].at \in {"waiting", "returning"} /\ call[d].t = u
        \/ current_tid = Id[u] /\ os[u] # "created"
    BY <1>4, <1>8 DEF RInv, RunsOne
  <2>. QED  BY <1>1, <1>2, <1>4, <1>8, <2>1 DEF Moved, Runs
<1>. QED  BY <1>3, <1>6, <1>7, <1>8 DEF RunsOne

LEMMA RunsThread ==
  ASSUME RInv, NEW t \in Threads, ThreadStep(t), UNCHANGED <<program, current_tid>>
  PROVE  RunsOne'
<1>1. os \in [Threads -> {"none", "created", "running", "paused", "asking", "ended"}] /\ NoThread \notin Threads
  BY ControlAssumption DEF RInv, QInv, HInv, IInv, TypeOK, ControlTypeOK
<1>2. /\ os[t] \in {"created", "running", "paused", "asking"}
      /\ os'[t] \in {"running", "paused", "asking", "ended"}
      /\ \A u \in Threads \ {t} : os'[u] = os[u]
  BY <1>1 DEF ThreadStep, Register, ThreadPause, ThreadWake, ThreadEnd, ThreadAsk, ThreadAnswered
<1>3. \A u \in Threads : Live(u)' => Live(u)
  BY <1>2 DEF Live
<1>4. \A c \in Clients :
        /\ call'[c].op = call[c].op /\ call'[c].t = call[c].t
        /\ \/ call'[c].at = call[c].at
           \/ call[c].at = "waiting" /\ call[c].t = t /\ call'[c].at = "returning"
  BY ThreadStepCalls DEF RInv, QInv, HInv
<1>5. Known \cup {t} \subseteq Known'
  BY <1>2 DEF Known
<1>6. \A c \in Clients : call'[c].at = "returning" /\ call'[c].t # NoThread => call'[c].t \in Known'
  BY <1>4, <1>5 DEF RInv, RunsOne
<1>7. \A u \in program' : os'[u] # "none"
  BY <1>1, <1>2 DEF RInv, RunsOne, QInv, HInv, IInv, TypeOK
<1>8. \A c \in Clients : Runs(c)' /\ call'[c].at \in {"create", "waiting", "returning", "is_stopped"} =>
        \A u \in Threads : Live(u)' => u = call'[c].t
  BY <1>3, <1>4 DEF RInv, RunsOne, Runs
<1>9. ASSUME NEW u \in Threads, Live(u)'
      PROVE  \/ \E c \in Clients : Runs(c)' /\ call'[c].at \in {"waiting", "returning"} /\ call'[c].t = u
             \/ current_tid' = Id[u] /\ os'[u] # "created"
  <2>1. \/ \E c \in Clients : Runs(c) /\ call[c].at \in {"waiting", "returning"} /\ call[c].t = u
        \/ current_tid = Id[u] /\ os[u] # "created"
    BY <1>3, <1>9 DEF RInv, RunsOne
  <2>2. os[u] # "created" => os'[u] # "created"
    BY <1>2
  <2>. QED  BY <1>4, <2>1, <2>2 DEF Runs
<1>. QED  BY <1>6, <1>7, <1>8, <1>9 DEF RunsOne

LEMMA RunsCall ==
  ASSUME ~SpuriousWakes, RInv, NEW c \in Clients, CallStep(c) \/ WakeSpuriously(c),
         UNCHANGED <<program, current_tid>>
  PROVE  RunsOne'
<1>1. CallsOnThreads /\ Placed(call[c].op, call[c].at, call[c].t)
  BY DEF RInv, QInv, HInv, IInv, OpsPlaced
<1>2. CASE \E t \in Threads : CreateThread(c, t)
  BY <1>2, RunsBeside
<1>3. CASE CreateThreadFails(c)
  <2>1. /\ Moved(c, call[c].op, "returning", NoThread) /\ UNCHANGED os
        /\ call[c].at = "create" /\ call[c].t = NoThread
    BY <1>1, <1>3, CallFields DEF CreateThreadFails, threadVars, At, Placed
  <2>2. call[c].op = "run_code" => \A u \in Threads : Live(u) => u = NoThread
    BY <2>1 DEF RInv, RunsOne, Runs
  <2>. QED  BY <2>1, <2>2, RunsGoOn
<1>4. CASE RunExecutionReturn(c)
  <2>1. Moved(c, "none", "idle", NoThread) /\ UNCHANGED os /\ ~Runs(c)
    BY <1>1, <1>4, CallFields DEF RunExecutionReturn, threadVars, Runs
  <2>. QED  BY <2>1, RunsGoOn
<1>5. ASSUME UNCHANGED os, call[c].at \notin {"waiting", "returning"}, NEW p, NEW t, NEW o, Moved(c, o, p, t),
             p \in {"resume", "join", "join_wait", "join_close", "join_clear", "join_all", "stop_all", "idle"}
      PROVE  RunsOne'
  BY <1>5, RunsGoOn
<1>6. CASE SignalStop(c) \/ StopResume(c) \/ JoinClose(c) \/ StopAllSignal(c)
  <2>1. \E p \in {"resume", "join", "join_clear", "join_all"} : Goto(c, p)
    BY <1>6 DEF SignalStop, StopResume, JoinClose, StopAllSignal
  <2>2. UNCHANGED os /\ call[c].at \notin {"waiting", "returning"}
    BY <1>6 DEF SignalStop, StopResume, JoinClose, StopAllSignal, threadVars, At
  <2>. QED  BY <1>1, <1>5, <2>1, <2>2, CallFields
<1>7. CASE JoinTest(c) \/ JoinWait(c) \/ JoinClear(c) \/ StopAllJoin(c)
  <2>1. Goto(c, "join_wait") \/ Goto(c, "join_close") \/ EndCall(c) \/ Finish(c)
    BY <1>7 DEF JoinTest, JoinWait, JoinClear, StopAllJoin
  <2>2. UNCHANGED os /\ call[c].at \notin {"waiting", "returning"}
    BY <1>7 DEF JoinTest, JoinWait, JoinClear, StopAllJoin, threadVars, At
  <2>3. \E o, t : \E p \in {"join_wait", "join_close", "stop_all", "idle"} : Moved(c, o, p, t)
    BY <1>1, <2>1, CallFields
  <2>. QED  BY <1>5, <2>2, <2>3
<1>. QED  BY <1>2, <1>3, <1>4, <1>6, <1>7 DEF CallStep, WakeSpuriously

LEMMA RunsAsk ==
  ASSUME RInv, NEW c \in Clients, Asks(c), UNCHANGED <<program, current_tid>>
  PROVE  RunsOne'
<1>1. CASE call' = call
  BY <1>1, AskerIdle DEF RInv, QInv, RunsOne, Runs, Live, Known
<1>2. CASE call' # call
  <2>1. PICK o \in Operations : \E p : Moved(c, o, p, call'[c].t) /\ First(o, p)
    BY <1>2, AskerIdle DEF RInv, QInv
  <2>2. PICK p : Moved(c, o, p, call'[c].t) /\ First(o, p)
    BY <2>1
  <2>3. UNCHANGED os /\ call[c].at = "idle"
    BY AskerIdle DEF RInv, QInv, Idle
  <2>. QED  BY <2>2, <2>3, RunsGoOn DEF First
<1>. QED  BY <1>1, <1>2

\* A program that lives is known by its id, and listed under it.
LEMMA LiveIsFound ==
  ASSUME OneRunner, RInv, NEW c \in Clients, Runs(c), call[c].at = "check",
         NEW u \in Threads, Live(u)
  PROVE  current_tid = Id[u] /\ current_tid \in Ids /\ Found(current_tid) = u
<1>1. \A d \in Clients : Runs(d) => d = c
  BY DEF OneRunner, Runs, RInv, QInv, HInv, OpsPlaced
<1>2. current_tid = Id[u] /\ os[u] # "created" /\ Id[u] \in Ids
  BY <1>1 DEF RInv, RunsOne, Ids
<1>3. ~closed
  BY DEF RInv, QInv, ClosedIdle, Runs
<1>4. Alive(u)
  BY <1>2 DEF Alive, Live, RInv, RunsOne, QInv, HInv, IInv, TypeOK, ControlTypeOK
<1>5. thread_data[Id[u]] = u /\ u # NoThread
  BY <1>3, <1>4, ControlAssumption DEF RInv, QInv, HInv, IInv, LiveThreadListed
<1>. QED  BY <1>2, <1>4, <1>5 DEF Found, Listed, IsStopped, Alive

LEMMA RunsRuntime ==
  ASSUME OneRunner, RInv, NEW c \in Clients, RuntimeStep(c), UNCHANGED program
  PROVE  RunsOne'
<1>1. /\ CallsOnThreads /\ Placed(call[c].op, call[c].at, call[c].t)
      /\ NoThread \notin Threads
  BY ControlAssumption DEF RInv, QInv, HInv, IInv, OpsPlaced
<1>2. ASSUME NEW r \in BOOLEAN, Answer(c, r), call[c].at \in {"check", "is_stopped"},
             UNCHANGED <<os, current_tid>>,
             Runs(c) /\ ~r => \A u \in Threads : ~Live(u)
      PROVE  RunsOne'
  <2>1. \/ Runs(c) /\ ~r /\ Moved(c, "run_code", "create", NoThread)
        \/ \E o, p : Moved(c, o, p, NoThread) /\ p \in {"load", "stop_get", "stop_all", "idle"}
    BY <1>2, AnswerMoves DEF RInv, QInv, HInv, Runs
  <2>. QED  BY <1>2, <2>1, RunsGoOn
<1>3. CASE CheckInvalid(c)
  <2>1. /\ call[c].at = "check" /\ Answer(c, FALSE) /\ UNCHANGED <<os, current_tid>>
        /\ current_tid = ERROR_INVALID_THREAD_ID
    BY <1>3 DEF CheckInvalid, At, threadVars, runtimeVars
  <2>2. Runs(c) => \A u \in Threads : ~Live(u)
    BY <2>1, LiveIsFound DEF OneRunner
  <2>. QED  BY <1>2, <2>1, <2>2
<1>4. CASE CheckTable(c)
  <2>1. /\ call[c].at = "check" /\ UNCHANGED <<os, current_tid>>
        /\ \/ Found(current_tid) = NoThread /\ Answer(c, FALSE)
           \/ GotoOn(c, "is_stopped", Found(current_tid))
    BY <1>4 DEF CheckTable, At, threadVars, runtimeVars
  <2>2. Runs(c) => \A u \in Threads : Live(u) => u = Found(current_tid)
    BY <2>1, LiveIsFound
  <2>3. CASE Found(current_tid) = NoThread /\ Answer(c, FALSE)
    BY <1>1, <1>2, <2>1, <2>2, <2>3
  <2>4. CASE GotoOn(c, "is_stopped", Found(current_tid))
    <3>1. Moved(c, call[c].op, "is_stopped", Found(current_tid))
      BY <1>1, <2>4, CallFields
    <3>. QED  BY <2>1, <2>2, <3>1, RunsGoOn DEF Runs
  <2>. QED  BY <2>1, <2>3, <2>4
<1>5. CASE CheckStopped(c)
  <2>1. /\ call[c].at = "is_stopped" /\ Answer(c, ~IsStopped(call[c].t)) /\ UNCHANGED <<os, current_tid>>
    BY <1>5 DEF CheckStopped, At, threadVars, runtimeVars
  <2>2. Runs(c) => \A u \in Threads : Live(u) => u = call[c].t
    BY <2>1 DEF RInv, RunsOne
  <2>3. Runs(c) /\ IsStopped(call[c].t) => \A u \in Threads : ~Live(u)
    BY <2>2 DEF IsStopped, Live
  <2>4. IsStopped(call[c].t) \in BOOLEAN
    BY DEF IsStopped
  <2>. QED  BY <1>2, <2>1, <2>3, <2>4
<1>6. CASE LoadMainFunction(c)
  <2>1. Moved(c, "none", "idle", NoThread) /\ UNCHANGED <<os, current_tid>> /\ call[c].at = "load"
    BY <1>1, <1>6, CallFields DEF LoadMainFunction, threadVars, At
  <2>. QED  BY <2>1, RunsGoOn
<1>7. CASE StopGet(c)
  <2>1. /\ UNCHANGED <<os, current_tid>> /\ call[c].at = "stop_get"
        /\ EndCall(c) \/ GotoOn(c, "signal", Found(current_tid))
    BY <1>7 DEF StopGet, At, threadVars, runtimeVars
  <2>2. \E o, t : \E p \in {"idle", "stop_all", "signal"} : Moved(c, o, p, t)
    BY <1>1, <2>1, CallFields
  <2>. QED  BY <2>1, <2>2, RunsGoOn
<1>8. CASE RunCodeReturn(c)
  <2>1. /\ Moved(c, "none", "idle", NoThread) /\ UNCHANGED os
        /\ Runs(c) /\ call[c].at = "returning"
        /\ call[c].t # NoThread => current_tid' = Id[call[c].t]
    BY <1>1, <1>8, CallFields DEF RunCodeReturn, threadVars, At, Runs
  <2>2. \A u \in Threads : Live(u) => u = call[c].t
    BY <2>1 DEF RInv, RunsOne
  <2>3. ASSUME NEW u \in Threads, Live(u)
        PROVE  current_tid' = Id[u] /\ os[u] # "created"
    <3>1. call[c].t = u /\ call[c].t # NoThread
      BY <1>1, <2>2, <2>3
    <3>2. u \in Known
      BY <2>1, <3>1 DEF RInv, RunsOne
    <3>. QED  BY <2>1, <3>1, <3>2 DEF Known
  <2>4. Known' = Known
    BY <2>1 DEF Known
  <2>5. \A d \in Clients : Runs(d) => d = c
    BY <2>1 DEF OneRunner, Runs, RInv, QInv, HInv, OpsPlaced
  <2>6. \A d \in Clients : ~Runs(d)'
    BY <2>1, <2>5 DEF Moved, Runs
  <2>7. \A d \in Clients : call'[d].at = "returning" /\ call'[d].t # NoThread => call'[d].t \in Known
    BY <2>1 DEF Moved, RInv, RunsOne
  <2>8. \A t \in program : os[t] # "none"
    BY DEF RInv, RunsOne
  <2>. QED  BY <2>1, <2>3, <2>4, <2>6, <2>7, <2>8 DEF RunsOne, Live
<1>. QED  BY <1>3, <1>4, <1>5, <1>6, <1>7, <1>8 DEF RuntimeStep

LEMMA NextRInv ==
  ASSUME NoDetach, ~SpuriousWakes, OneRunner, RInv, [Next]_vars
  PROVE  RInv'
<1>. SUFFICES RunsOne'
  BY NextQInv DEF RInv
<1>1. QInv
  BY DEF RInv
<1>2. CASE \E c \in Clients, t \in Threads : Runs(c) /\ CreateThread(c, t) /\ program' = program \cup {t}
  BY <1>2, RunsNew
<1>3. CASE program' = program
  <2>1. CASE ControlStep
    BY <1>3, <2>1, RunsThread, RunsCall, RunsAsk DEF ControlStep, ControlNext, Asks
  <2>2. CASE \E c \in Clients : Request(c) \/ RuntimeStep(c)
    <3>1. ASSUME NEW c \in Clients, Request(c)
          PROVE  UNCHANGED current_tid
      BY <3>1 DEF Request, RunCode, LoadFile, CurrentlyRunning, StopProgram, Destroy, Start, runtimeVars
    <3>. QED  BY <1>3, <2>2, <3>1, RunsAsk, RunsRuntime DEF Asks
  <2>3. CASE UNCHANGED vars
    BY <2>3 DEF vars, controlVars, threadVars, runtimeVars, RInv, RunsOne, Runs, Live, Known
  <2>. QED  BY <2>1, <2>2, <2>3 DEF Next
<1>. QED  BY <1>1, <1>2, <1>3, ProgramSteps

LEMMA RunsOneIsOne ==
  ASSUME OneRunner, RInv
  PROVE  OneRun
<1>. SUFFICES ASSUME NEW t \in program, NEW u \in program, os[t] # "ended", os[u] # "ended"
              PROVE  t = u
  BY DEF OneRun
<1>1. Live(t) /\ Live(u) /\ t \in Threads /\ u \in Threads
  BY DEF Live, RInv, QInv, HInv, IInv, TypeOK
<1>2. ASSUME NEW c \in Clients, Runs(c), call[c].at \in {"waiting", "returning"},
             call[c].t = t \/ call[c].t = u
      PROVE  t = u
  BY <1>1, <1>2 DEF RInv, RunsOne
<1>3. CASE current_tid = Id[t] /\ current_tid = Id[u]
  BY <1>1, <1>3 DEF RInv, RunsOne, QInv, HInv, IInv, IdsExclusive, Live
<1>. QED  BY <1>1, <1>2, <1>3 DEF RInv, RunsOne

\* The main function runs once at a time, if one client alone runs it, nobody
\* detaches threads, a condition variable wakes only when it is notified and no
\* thread has the id ERROR_INVALID_THREAD_ID (run_code and currently_running,
\* luaruntime_handler.cpp:200 and :229).
THEOREM MainFunctionRunsOnce ==
  ASSUME NoDetach, ~SpuriousWakes, OneRunner
  PROVE  Spec => []OneRun
<1>1. Init => RInv
  BY InitQInv DEF Init, ControlInit, RInv, RunsOne, Live, Runs, Idle
<1>. QED  BY <1>1, NextRInv, RunsOneIsOne, PTL DEF Spec
=============================================================================
