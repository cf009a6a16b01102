------------------------ MODULE VariableWatcherProofs ------------------------
(***************************************************************************)
(* What variable_watcher promises its clients, for any number of them, of  *)
(* variables and of stack levels: a pointer lives while the client that    *)
(* got it has locked the object, unless it calls update_global_ignore; an  *)
(* update of the globals is of one moment; a local is set where its name   *)
(* means it.                                                               *)
(*                                                                         *)
(* All of it rests on who has which mutex at which point of a call         *)
(* (Locked).  update_global_ignore, which leaves the mutexes it should     *)
(* take, is part of it: nobody else calls while it goes on.                *)
(***************************************************************************)
EXTENDS VariableWatcher, TLAPS

Variables == [name : Names, value : Values]
Entries == [name : Names \cup Globals, value : Values]

\* The types of the variables, without the bounds of the model.
Typed ==
  /\ stack \in Seq(Seq(Variables)) /\ stack # <<>> /\ globals \in [Globals -> Values]
  /\ lock \in Clients \cup {Nobody} /\ mutex \in Clients \cup {Nobody} /\ depth \in 0..2
  /\ pc \in [Clients -> {"out", "state", "work", "read", "free"}]
  /\ call \in [Clients -> Calls] /\ unread \in [Clients -> SUBSET Globals]
  /\ list \in Seq(Entries) /\ slots \in [Names -> Nat] /\ level \in Int
  /\ ignore \subseteq Globals /\ holds \in [Clients -> {"no", "yes", "lost"}]
  /\ held \in [Clients -> {"none", "live", "deleted"}] /\ moved \in BOOLEAN

Ignoring(c) == pc[c] = "read" /\ call[c] = "updateIgnore"

\* Who has which mutex, and how often: once for lock_object, once for a call.
Locked ==
  /\ mutex = Nobody <=> depth = 0
  /\ \A c \in Clients :
       /\ pc[c] # "out" => mutex = c \/ Ignoring(c)
       /\ pc[c] = "out" /\ mutex = c => depth = 1 /\ holds[c] = "yes"
       /\ pc[c] # "out" /\ mutex = c => depth = IF holds[c] = "yes" THEN 2 ELSE 1
       /\ holds[c] = "yes" => mutex = c
       /\ pc[c] \in {"work", "read", "free"} /\ NeedsState(call[c]) => lock = c
       /\ Ignoring(c) => mutex = Nobody /\ \A d \in Clients \ {c} : pc[d] = "out"

\* A pointer is held by who has locked the object.
Holding ==
  \A c \in Clients : /\ held[c] = "live" => holds[c] # "no"
                     /\ held[c] = "deleted" => holds[c] = "lost"

LInv == Typed /\ Locked /\ Holding

-----------------------------------------------------------------------------
(* Types.                                                                  *)

\* The activation the cache is of is a sequence of variables.
LEMMA FrameTyped ==
  ASSUME Typed
  PROVE  Frame \in Seq(Variables)
<1>1. CASE level \in 0..Len(stack) - 1
  <2>1. level + 1 \in 1..Len(stack)
    BY <1>1 DEF Typed
  <2>2. stack[level + 1] \in Seq(Variables)
    BY <2>1 DEF Typed
  <2>. QED  BY <1>1, <2>2 DEF Frame
<1>2. CASE level \notin 0..Len(stack) - 1
  BY <1>2 DEF Frame
<1>. QED  BY <1>1, <1>2

\* The program's steps keep its stack a stack.
LEMMA ProgramTyped ==
  ASSUME WatcherAssumption, Typed, Program
  PROVE  Typed'
<1>1. lock = Nobody /\ moved' = TRUE /\ UNCHANGED <<locks, pc, call, unread, cache, settings>>
  BY DEF Program, Declare, EndBlock, CallFunction, Return, Assign, Runs
<1>2. stack \in Seq(Seq(Variables)) /\ Len(stack) \in Nat /\ Len(stack) > 0
  BY DEF Typed
<1>3. stack[1] \in Seq(Variables)
  BY <1>2
<1>4. ASSUME NEW f \in Seq(Variables), stack' = [stack EXCEPT ![1] = f]
      PROVE  stack' \in Seq(Seq(Variables)) /\ stack' # <<>>
  <2>1. stack' \in Seq(Seq(Variables)) /\ Len(stack') = Len(stack)
    BY <1>2, <1>4
  <2>. QED  BY <1>2, <2>1
<1>5. stack' \in Seq(Seq(Variables)) /\ stack' # <<>> /\ globals' \in [Globals -> Values]
  <2>1. CASE Declare
    <3>1. PICK n \in Names : stack' = [stack EXCEPT ![1] = Append(stack[1], [name |-> n, value |-> 0])]
      BY <2>1 DEF Declare
    <3>2. [name |-> n, value |-> 0] \in Variables
      BY DEF Variables, WatcherAssumption
    <3>3. Append(stack[1], [name |-> n, value |-> 0]) \in Seq(Variables)
      BY <1>3, <3>2
    <3>. QED  BY <1>4, <2>1, <3>1, <3>3 DEF Declare, Typed
  <2>2. CASE EndBlock
    <3>. DEFINE f == SubSeq(stack[1], 1, Len(stack[1]) - 1)
    <3>1. f \in Seq(Variables)
      BY <1>3
    <3>2. stack' = [stack EXCEPT ![1] = f]
      BY <2>2 DEF EndBlock
    <3>. HIDE DEF f
    <3>. QED  BY <1>4, <2>2, <3>1, <3>2 DEF EndBlock, Typed
  <2>3. CASE CallFunction
    <3>1. << <<>> >> \in Seq(Seq(Variables)) /\ Len(<< <<>> >>) = 1
      OBVIOUS
    <3>2. stack' = << <<>> >> \o stack
      BY <2>3 DEF CallFunction
    <3>3. stack' \in Seq(Seq(Variables)) /\ Len(stack') > 0
      BY <1>2, <3>1, <3>2
    <3>. QED  BY <2>3, <3>3 DEF CallFunction, Typed
  <2>4. CASE Return
    <3>1. Len(stack) > 1 /\ stack' = Tail(stack)
      BY <2>4 DEF Return
    <3>2. stack' \in Seq(Seq(Variables)) /\ Len(stack') = Len(stack) - 1
      BY <1>2, <3>1
    <3>3. stack' # <<>>
      <4>1. Len(stack') > 0
        BY <1>2, <3>1, <3>2
      <4>. QED  BY <4>1
    <3>. QED  BY <2>4, <3>2, <3>3 DEF Return, Typed
  <2>5. CASE Assign
    BY <1>2, <2>5 DEF Assign, Typed
  <2>. QED  BY <2>1, <2>2, <2>3, <2>4, <2>5 DEF Program
<1>. QED  BY <1>1, <1>5 DEF Typed, locks, cache, settings

\* What a client calls and where it goes.
LEMMA CallTyped ==
  ASSUME Typed, NEW c \in Clients
  PROVE  /\ \A there \in {"out", "state", "work", "read", "free"} :
              Go(c, there) => /\ pc' \in [Clients -> {"out", "state", "work", "read", "free"}]
                              /\ pc'[c] = there
                              /\ \A d \in Clients : d # c => pc'[d] = pc[d]
         /\ \A op \in Calls : call' = [call EXCEPT ![c] = op] =>
              /\ call' \in [Clients -> Calls]
              /\ call'[c] = op /\ \A d \in Clients : d # c => call'[d] = call[d]
BY DEF Typed, Go

\* Leaving the object.
LEMMA LeaveTyped ==
  ASSUME WatcherAssumption, LInv, NEW c \in Clients, LeaveObject(c)
  PROVE  /\ mutex' \in Clients \cup {Nobody} /\ depth' \in 0..2
         /\ mutex' = Nobody <=> depth' = 0
         /\ mutex' = c => mutex = c /\ depth = 2 /\ depth' = 1
         /\ mutex # c => mutex' = mutex /\ depth' = depth
         /\ mutex = c /\ depth = 1 => mutex' = Nobody
         /\ mutex = c /\ depth = 2 => mutex' = c
<1>1. /\ mutex \in Clients \cup {Nobody} /\ depth \in 0..2 /\ Nobody \notin Clients
      /\ mutex = Nobody <=> depth = 0
  BY DEF LInv, Typed, Locked, WatcherAssumption
<1>2. CASE mutex = c /\ depth = 1
  BY <1>1, <1>2 DEF LeaveObject
<1>3. CASE mutex = c /\ depth # 1
  <2>1. depth = 2
    BY <1>1, <1>3
  <2>. QED  BY <1>1, <1>3, <2>1 DEF LeaveObject
<1>4. CASE mutex # c
  BY <1>1, <1>4 DEF LeaveObject
<1>. QED  BY <1>2, <1>3, <1>4

-----------------------------------------------------------------------------
(* Locks.                                                                  *)

\* What a client does inside a call, and with the cache.
Inside(c) ==
  \/ UpdateGlobals(c) \/ ReadGlobal(c) \/ ReadGlobalsEnd(c)
  \/ UpdateLocals(c) \/ ReadLocal(c) \/ ReadLocalsEnd(c)
  \/ Get(c) \/ SetGlobal(c) \/ SetLocal(c) \/ ClearIgnore(c)

\* It has the object, and goes on with the mutexes as they are.
LEMMA InsideLocked ==
  ASSUME WatcherAssumption, LInv, NEW c \in Clients, Inside(c)
  PROVE  /\ Locked' /\ mutex = c /\ UNCHANGED <<locks, call>>
         /\ pc[c] \in {"work", "read"} /\ pc'[c] \in {"read", "free"} /\ pc' \in [Clients -> {"out", "state", "work", "read", "free"}]
         /\ \A d \in Clients : d # c => pc'[d] = pc[d]
<1>1. /\ pc[c] \in {"work", "read"} /\ call[c] # "updateIgnore" /\ UNCHANGED <<locks, call>>
      /\ Go(c, "read") \/ Go(c, "free") \/ (pc[c] = "read" /\ pc' = pc)
  BY DEF Inside, UpdateGlobals, ReadGlobal, ReadGlobalsEnd, UpdateLocals, ReadLocal, ReadLocalsEnd,
     Get, SetGlobal, SetLocal, ClearIgnore
<1>2. /\ pc'[c] \in {"read", "free"} /\ pc' \in [Clients -> {"out", "state", "work", "read", "free"}]
      /\ \A d \in Clients : d # c => pc'[d] = pc[d]
  BY <1>1, CallTyped DEF LInv, Typed
<1>3. mutex = c
  BY <1>1 DEF LInv, Locked, Ignoring
<1>4. Locked'
  BY <1>1, <1>2, <1>3 DEF LInv, Locked, Ignoring, locks, NeedsState
<1>. QED  BY <1>1, <1>2, <1>3, <1>4

\* Clearing the cache takes a pointer away only from clients that have lost the
\* object: nobody else has it.
LEMMA ClearedHolds ==
  ASSUME WatcherAssumption, LInv, NEW c \in Clients, mutex = c, Cleared(c), holds' = holds
  PROVE  held' \in [Clients -> {"none", "live", "deleted"}] /\ list' = <<>> /\ Holding'
<1>1. \A d \in Clients : d # c => holds[d] # "yes"
  BY DEF LInv, Locked
<1>2. /\ held \in [Clients -> {"none", "live", "deleted"}]
      /\ holds \in [Clients -> {"no", "yes", "lost"}] /\ Holding
  BY DEF LInv, Typed
<1>3. \A d \in Clients : held'[d] = IF d = c THEN "none" ELSE
                                  IF held[d] = "live" THEN "deleted" ELSE held[d]
  BY DEF Cleared
<1>4. held' \in [Clients -> {"none", "live", "deleted"}] /\ list' = <<>>
  BY <1>2 DEF Cleared
<1>. QED  BY <1>1, <1>2, <1>3, <1>4 DEF Holding

LEMMA InsideHolds ==
  ASSUME WatcherAssumption, LInv, NEW c \in Clients, Inside(c)
  PROVE  Holding' /\ held' \in [Clients -> {"none", "live", "deleted"}]
<1>1. mutex = c /\ holds' = holds
  BY InsideLocked DEF locks
<1>2. CASE UNCHANGED held
  BY <1>1, <1>2 DEF LInv, Typed, Holding
<1>3. CASE Cleared(c)
  BY <1>1, <1>3, ClearedHolds
<1>4. CASE Get(c)
  BY <1>1, <1>4 DEF Get, LInv, Typed, Holding
<1>. QED  BY <1>2, <1>3, <1>4 DEF Inside, UpdateGlobals, ReadGlobal, ReadGlobalsEnd, UpdateLocals,
     ReadLocal, ReadLocalsEnd, SetGlobal, SetLocal, ClearIgnore, cache

\* A client that has no other in update_global_ignore makes a call.
LEMMA CallLocked ==
  ASSUME WatcherAssumption, LInv, NEW c \in Clients, NEW op \in Calls, ~CallsIgnore, Call(c, op)
  PROVE  LInv'
<1>1. /\ pc[c] = "out" /\ mutex \in {Nobody, c} /\ mutex' = c /\ depth' = depth + 1
      /\ UNCHANGED <<program, lock, unread, cache, settings>> /\ op # "updateIgnore"
      /\ \/ op = "lock" /\ holds[c] = "no" /\ holds' = [holds EXCEPT ![c] = "yes"] /\ UNCHANGED <<pc, call>>
         \/ UNCHANGED holds /\ call' = [call EXCEPT ![c] = op]
            /\ Go(c, IF NeedsState(op) THEN "state" ELSE "work")
  BY DEF Call
<1>2. /\ depth \in 0..1 /\ (mutex = Nobody <=> depth = 0) /\ Nobody \notin Clients
  BY <1>1 DEF LInv, Typed, Locked, WatcherAssumption
<1>3. \A d \in Clients : ~Ignoring(d)
  BY DEF CallsIgnore, Ignoring
<1>4. \A d \in Clients : d # c => pc[d] = "out"
  BY <1>1, <1>2, <1>3 DEF LInv, Locked
<1>5. CASE op = "lock" /\ holds[c] = "no" /\ holds' = [holds EXCEPT ![c] = "yes"] /\ UNCHANGED <<pc, call>>
  <2>1. /\ holds' \in [Clients -> {"no", "yes", "lost"}] /\ holds'[c] = "yes" /\ mutex = Nobody
        /\ \A d \in Clients : d # c => holds'[d] = holds[d]
    BY <1>1, <1>5 DEF LInv, Typed, Locked
  <2>2. Locked'
    BY <1>1, <1>2, <1>3, <1>4, <1>5, <2>1 DEF LInv, Locked, Ignoring
  <2>3. Typed' /\ Holding'
    BY <1>1, <1>2, <1>5, <2>1 DEF LInv, Typed, Holding, program, cache, settings
  <2>. QED  BY <2>2, <2>3 DEF LInv
<1>6. CASE UNCHANGED holds /\ call' = [call EXCEPT ![c] = op] /\ Go(c, IF NeedsState(op) THEN "state" ELSE "work")
  <2>1. /\ pc' \in [Clients -> {"out", "state", "work", "read", "free"}]
        /\ pc'[c] = IF NeedsState(op) THEN "state" ELSE "work"
        /\ \A d \in Clients : d # c => pc'[d] = "out"
        /\ call' \in [Clients -> Calls] /\ call'[c] = op
    <3>. DEFINE there == IF NeedsState(op) THEN "state" ELSE "work"
    <3>1. there \in {"out", "state", "work", "read", "free"} /\ Go(c, there)
      BY <1>6
    <3>. HIDE DEF there
    <3>2. /\ pc' \in [Clients -> {"out", "state", "work", "read", "free"}] /\ pc'[c] = there
          /\ \A d \in Clients : d # c => pc'[d] = pc[d]
      BY <3>1, CallTyped DEF LInv
    <3>3. call' \in [Clients -> Calls] /\ call'[c] = op
      BY <1>6, CallTyped DEF LInv
    <3>. QED  BY <1>4, <3>2, <3>3 DEF there
  <2>2. Locked'
    BY <1>1, <1>2, <1>6, <2>1 DEF LInv, Locked, Ignoring
  <2>3. Typed' /\ Holding'
    BY <1>1, <1>2, <1>6, <2>1 DEF LInv, Typed, Holding, program, cache, settings
  <2>. QED  BY <2>2, <2>3 DEF LInv
<1>. QED  BY <1>1, <1>5, <1>6

LEMMA LockLocked ==
  ASSUME WatcherAssumption, LInv, NEW c \in Clients, LockState(c)
  PROVE  LInv'
<1>1. /\ pc[c] = "state" /\ lock' = c /\ UNCHANGED <<program, mutex, depth, holds, call, unread, cache, settings>>
      /\ lock = Nobody /\ Go(c, "work") /\ Nobody \notin Clients
  BY DEF LockState, WatcherAssumption
<1>2. /\ pc' \in [Clients -> {"out", "state", "work", "read", "free"}] /\ pc'[c] = "work"
      /\ \A d \in Clients : d # c => pc'[d] = pc[d]
  BY <1>1, CallTyped DEF LInv
<1>3. Typed' /\ Holding'
  BY <1>1, <1>2 DEF LInv, Typed, Holding, program, cache, settings
<1>4. Locked'
  BY <1>1, <1>2 DEF LInv, Locked, Ignoring
<1>. QED  BY <1>3, <1>4 DEF LInv

\* The end of a call, in or out of the object.
LEMMA UnlockLocked ==
  ASSUME WatcherAssumption, LInv, NEW c \in Clients, Unlock(c) \/ UnlockObject(c) \/ UpdateIgnoreEnd(c)
  PROVE  LInv'
<1>1. /\ LeaveObject(c) /\ UNCHANGED <<program, list, slots, level, settings>>
      /\ lock' = lock \/ (lock = c /\ lock' = Nobody)
      /\ unread' \in [Clients -> SUBSET Globals]
  BY DEF Unlock, UnlockObject, UpdateIgnoreEnd, LInv, Typed, cache
<1>2. /\ pc' \in [Clients -> {"out", "state", "work", "read", "free"}] /\ pc'[c] = "out"
      /\ \A d \in Clients : d # c => pc'[d] = pc[d] /\ call'[d] = call[d]
      /\ call' \in [Clients -> Calls]
  <2>1. UnlockObject(c) \/ Done(c)
    BY DEF Unlock, UpdateIgnoreEnd
  <2>2. "none" \in Calls
    BY DEF Calls
  <2>. QED  BY <2>1, <2>2, CallTyped DEF UnlockObject, Done, Go, LInv, Typed
<1>3. /\ mutex' \in Clients \cup {Nobody} /\ depth' \in 0..2
      /\ mutex' = Nobody <=> depth' = 0
      /\ mutex' = c => mutex = c /\ depth = 2 /\ depth' = 1
      /\ mutex # c => mutex' = mutex /\ depth' = depth
      /\ mutex = c /\ depth = 1 => mutex' = Nobody
      /\ mutex = c /\ depth = 2 => mutex' = c
  BY <1>1, LeaveTyped
<1>4. /\ holds' \in [Clients -> {"no", "yes", "lost"}] /\ held' \in [Clients -> {"none", "live", "deleted"}]
      /\ \A d \in Clients : d # c => holds'[d] = holds[d] /\ held'[d] = held[d]
      /\ \/ holds'[c] = holds[c] /\ held'[c] = held[c] /\ pc[c] # "out"
         \/ holds'[c] = "no" /\ held'[c] = "none" /\ pc[c] = "out"
  BY DEF Unlock, UnlockObject, UpdateIgnoreEnd, LInv, Typed, cache
<1>5. Typed'
  BY <1>1, <1>2, <1>3, <1>4 DEF LInv, Typed, program, settings
<1>6. Holding'
  BY <1>4 DEF LInv, Holding
\* c: what it keeps, it keeps for lock_object.
<1>7. /\ mutex' = c => depth' = 1 /\ holds'[c] = "yes"
      /\ holds'[c] = "yes" => mutex' = c
  <2>1. CASE pc[c] = "out"
    BY <1>3, <1>4, <2>1 DEF LInv, Locked
  <2>2. CASE pc[c] # "out" /\ mutex = c
    BY <1>3, <1>4, <2>2 DEF LInv, Locked
  <2>3. CASE pc[c] # "out" /\ mutex # c
    BY <1>3, <1>4, <2>3 DEF LInv, Locked
  <2>. QED  BY <2>1, <2>2, <2>3
<1>8. ASSUME NEW d \in Clients, d # c
      PROVE  /\ Ignoring(d)' <=> Ignoring(d)
             /\ pc'[d] # "out" => mutex' = d \/ Ignoring(d)'
             /\ pc'[d] = "out" /\ mutex' = d => depth' = 1 /\ holds'[d] = "yes"
             /\ pc'[d] # "out" /\ mutex' = d => depth' = IF holds'[d] = "yes" THEN 2 ELSE 1
             /\ holds'[d] = "yes" => mutex' = d
             /\ pc'[d] \in {"work", "read", "free"} /\ NeedsState(call'[d]) => lock' = d
             /\ Ignoring(d)' => mutex' = Nobody /\ \A e \in Clients \ {d} : pc'[e] = "out"
  <2>1. pc'[d] = pc[d] /\ call'[d] = call[d] /\ holds'[d] = holds[d] /\ (Ignoring(d)' <=> Ignoring(d))
    BY <1>2, <1>4, <1>8 DEF Ignoring
  <2>2. mutex' = d => mutex = d /\ depth' = depth
    <3>1. mutex = c => mutex' \in {c, Nobody}
      BY <1>1 DEF LeaveObject
    <3>. QED  BY <1>3, <1>8, <3>1 DEF WatcherAssumption
  <2>3. mutex = d => mutex' = d /\ depth' = depth
    BY <1>3, <1>8
  <2>4. mutex = Nobody => mutex' = Nobody
    BY <1>3, WatcherAssumption DEF WatcherAssumption
  <2>5. lock = d => lock' = d
    BY <1>1, <1>8
  <2>6. \A e \in Clients : pc[e] = "out" => pc'[e] = "out"
    BY <1>2
  <2>. QED  BY <2>1, <2>2, <2>3, <2>4, <2>5, <2>6 DEF LInv, Locked
<1>9. Locked'
  BY <1>2, <1>3, <1>7, <1>8 DEF Locked, Ignoring
<1>. QED  BY <1>5, <1>6, <1>9 DEF LInv

LEMMA IgnoreLocked ==
  ASSUME WatcherAssumption, LInv, NEW c \in Clients,
         UpdateIgnore(c) \/ IgnoreGlobal(c) \/ IgnoreInternal(c)
  PROVE  LInv'
<1>1. CASE UpdateIgnore(c)
  <2>1. /\ LeaveObject(c) /\ UNCHANGED <<program, lock, cache>> /\ ignore' = {}
        /\ holds' = [holds EXCEPT ![c] = IF @ = "yes" THEN "lost" ELSE @]
        /\ pc[c] = "out" /\ \A d \in Clients \ {c} : pc[d] = "out"
        /\ call' = [call EXCEPT ![c] = "updateIgnore"] /\ Go(c, "read") /\ mutex \in {c, Nobody}
        /\ unread' \in [Clients -> SUBSET Globals]
    BY <1>1 DEF UpdateIgnore, LInv, Typed
  <2>2. /\ pc' \in [Clients -> {"out", "state", "work", "read", "free"}] /\ pc'[c] = "read"
        /\ \A d \in Clients : d # c => pc'[d] = "out" /\ call'[d] = call[d]
        /\ call' \in [Clients -> Calls] /\ call'[c] = "updateIgnore"
    <3>1. "updateIgnore" \in Calls
      BY DEF Calls
    <3>2. /\ call' \in [Clients -> Calls] /\ call'[c] = "updateIgnore"
          /\ \A d \in Clients : d # c => call'[d] = call[d]
      BY <2>1, <3>1, CallTyped DEF LInv
    <3>3. /\ pc' \in [Clients -> {"out", "state", "work", "read", "free"}] /\ pc'[c] = "read"
          /\ \A d \in Clients : d # c => pc'[d] = pc[d]
      BY <2>1, CallTyped DEF LInv
    <3>. QED  BY <2>1, <3>2, <3>3
  <2>3. /\ mutex' = Nobody /\ depth' = 0 /\ Nobody \notin Clients
        /\ \A d \in Clients : d # c => holds[d] # "yes"
    <3>1. mutex = c => depth = 1
      BY <2>1 DEF LInv, Locked
    <3>2. /\ mutex' = Nobody <=> depth' = 0
          /\ mutex # c => mutex' = mutex
          /\ mutex = c /\ depth = 1 => mutex' = Nobody
      BY <2>1, LeaveTyped
    <3>3. Nobody \notin Clients
      BY DEF WatcherAssumption
    <3>. QED  BY <2>1, <3>1, <3>2, <3>3 DEF LInv, Locked
  <2>4. /\ holds' \in [Clients -> {"no", "yes", "lost"}] /\ holds'[c] # "yes"
        /\ \A d \in Clients : d # c => holds'[d] = holds[d]
        /\ holds[c] # "no" => holds'[c] = "lost"
    BY <2>1 DEF LInv, Typed
  <2>5. Typed'
    BY <2>1, <2>2, <2>3, <2>4 DEF LInv, Typed, program, cache
  <2>6. Holding'
    BY <2>1, <2>4 DEF LInv, Holding, cache
  <2>7. Locked'
    BY <2>1, <2>2, <2>3, <2>4 DEF Locked, Ignoring, NeedsState, Updates, Sets
  <2>. QED  BY <2>5, <2>6, <2>7 DEF LInv
<1>2. CASE IgnoreGlobal(c) \/ IgnoreInternal(c)
  <2>1. /\ UNCHANGED <<program, locks, pc, call, cache>>
        /\ unread' \in [Clients -> SUBSET Globals] /\ ignore' \subseteq Globals
    <3>1. CASE IgnoreGlobal(c)
      BY <3>1 DEF IgnoreGlobal, LInv, Typed, Left
    <3>2. CASE IgnoreInternal(c)
      BY <3>2 DEF IgnoreInternal, LInv, Typed
    <3>. QED  BY <1>2, <3>1, <3>2
  <2>. QED  BY <2>1 DEF LInv, Typed, Locked, Holding, Ignoring, program, locks, cache
<1>. QED  BY <1>1, <1>2

\* Replacing an element of a sequence.
LEMMA PutIn ==
  ASSUME NEW S, NEW q \in Seq(S), NEW k \in 1..Len(q), NEW x \in S
  PROVE  /\ [q EXCEPT ![k] = x] \in Seq(S) /\ Len([q EXCEPT ![k] = x]) = Len(q)
         /\ [q EXCEPT ![k] = x][k] = x
<1>. DEFINE r == [q EXCEPT ![k] = x]
<1>1. DOMAIN r = 1..Len(q) /\ Len(q) \in Nat
  OBVIOUS
<1>2. \A i \in 1..Len(q) : r[i] \in S
  OBVIOUS
<1>3. r[k] = x
  OBVIOUS
<1>4. r = [i \in 1..Len(q) |-> r[i]]
  OBVIOUS
<1>. HIDE DEF r
<1>5. r \in Seq(S)
  BY <1>1, <1>2, <1>4
<1>6. Len(r) = Len(q)
  BY <1>1, <1>5
<1>. QED  BY <1>3, <1>5, <1>6 DEF r

\* Setting a local changes the value of one variable of one activation.
LEMMA SetTyped ==
  ASSUME Typed, NEW s \in Nat, NEW v \in Values, level >= 0, level < Len(stack), s \in 1..Len(Frame),
         stack' = [stack EXCEPT ![level + 1][s].value = v]
  PROVE  /\ stack' \in Seq(Seq(Variables)) /\ Len(stack') = Len(stack)
         /\ Len(stack'[level + 1]) = Len(Frame)
         /\ \A i \in 1..Len(Frame) : stack'[level + 1][i].name = Frame[i].name
<1>. DEFINE k == level + 1
            g == [Frame EXCEPT ![s] = [Frame[s] EXCEPT !.value = v]]
<1>1. /\ stack \in Seq(Seq(Variables)) /\ Len(stack) \in Nat /\ level \in Int /\ k \in 1..Len(stack)
      /\ level \in 0..Len(stack) - 1
  BY DEF Typed
<1>2. Frame = stack[k] /\ Frame \in Seq(Variables)
  BY <1>1, FrameTyped DEF Frame
<1>3. stack' = [stack EXCEPT ![k] = g]
  BY <1>2
<1>4. Frame[s] \in Variables
  BY <1>2
<1>5. [Frame[s] EXCEPT !.value = v] \in Variables /\ [Frame[s] EXCEPT !.value = v].name = Frame[s].name
  BY <1>4 DEF Variables
<1>. DEFINE r == [Frame[s] EXCEPT !.value = v]
<1>. HIDE DEF r, k
<1>6. g \in Seq(Variables) /\ Len(g) = Len(Frame)
  BY <1>2, <1>5 DEF r
<1>7. \A i \in 1..Len(Frame) : g[i].name = Frame[i].name
  BY <1>2, <1>5 DEF r
<1>. HIDE DEF g
<1>8. stack' \in Seq(Seq(Variables)) /\ Len(stack') = Len(stack) /\ stack'[k] = g
  <2>. DEFINE S == Seq(Variables)
  <2>1. stack \in Seq(S) /\ g \in S /\ k \in 1..Len(stack)
    BY <1>1, <1>6 DEF k
  <2>. HIDE DEF S
  <2>2. /\ [stack EXCEPT ![k] = g] \in Seq(S) /\ Len([stack EXCEPT ![k] = g]) = Len(stack)
        /\ [stack EXCEPT ![k] = g][k] = g
    BY <2>1, PutIn
  <2>3. stack' \in Seq(S) /\ Len(stack') = Len(stack) /\ stack'[k] = g
    BY <1>3, <2>2, Zenon
  <2>. QED  BY <2>3 DEF S
<1>. QED  BY <1>6, <1>7, <1>8 DEF k

LEMMA InsideTyped ==
  ASSUME WatcherAssumption, LInv, NEW c \in Clients, Inside(c)
  PROVE  Typed'
<1>1. /\ UNCHANGED <<locks, call>> /\ pc' \in [Clients -> {"out", "state", "work", "read", "free"}]
      /\ held' \in [Clients -> {"none", "live", "deleted"}]
  BY InsideLocked, InsideHolds
<1>2. ASSUME stack' \in Seq(Seq(Variables)), stack' # <<>>, globals' \in [Globals -> Values],
             unread' \in [Clients -> SUBSET Globals], list' \in Seq(Entries),
             slots' \in [Names -> Nat], level' \in Int, ignore' \subseteq Globals, moved' \in BOOLEAN
      PROVE  Typed'
  BY <1>1, <1>2 DEF LInv, Typed, locks
<1>3. CASE UpdateGlobals(c) \/ ReadGlobalsEnd(c) \/ ReadLocalsEnd(c) \/ Get(c) \/ SetGlobal(c) \/ ClearIgnore(c)
  <2>1. list' = list \/ list' = <<>>
    BY <1>3 DEF UpdateGlobals, Cleared, ReadGlobalsEnd, ReadLocalsEnd, Get, SetGlobal, ClearIgnore, cache
  <2>2. list' \in Seq(Entries)
    <3>1. list \in Seq(Entries)
      BY DEF LInv, Typed
    <3>2. <<>> \in Seq(Entries)
      OBVIOUS
    <3>. QED  BY <2>1, <3>1, <3>2, Zenon
  <2>3. /\ stack' = stack /\ slots' = slots /\ level' = level
        /\ moved' \in {moved, FALSE} /\ ignore' \in {ignore, {}}
    BY <1>3 DEF UpdateGlobals, ReadGlobalsEnd, ReadLocalsEnd, Get, SetGlobal, ClearIgnore, cache,
       program, settings
  <2>4. globals' \in [Globals -> Values]
    BY <1>3 DEF UpdateGlobals, ReadGlobalsEnd, ReadLocalsEnd, Get, SetGlobal, ClearIgnore, program,
       LInv, Typed
  <2>5. unread' \in [Clients -> SUBSET Globals]
    BY <1>3 DEF UpdateGlobals, ReadGlobalsEnd, ReadLocalsEnd, Get, SetGlobal, ClearIgnore, LInv, Typed
  <2>. QED  BY <1>2, <2>2, <2>3, <2>4, <2>5 DEF LInv, Typed
<1>4. CASE ReadGlobal(c)
  <2>1. PICK g \in Left(c) : /\ unread' = [unread EXCEPT ![c] = @ \ {g}]
                             /\ list' = IF Hidden(g) THEN list ELSE Append(list, [name |-> g, value |-> globals[g]])
    BY <1>4 DEF ReadGlobal
  <2>2. g \in Globals
    BY DEF Left, LInv, Typed
  <2>3. [name |-> g, value |-> globals[g]] \in Entries
    BY <2>2 DEF Entries, LInv, Typed
  <2>4. list' \in Seq(Entries)
    BY <2>1, <2>3 DEF LInv, Typed
  <2>. QED  BY <1>2, <1>4, <2>1, <2>4 DEF ReadGlobal, program, settings, LInv, Typed
<1>5. CASE UpdateLocals(c)
  <2>1. list' = list \/ list' = <<>>
    BY <1>5 DEF UpdateLocals, Cleared, cache
  <2>2. list' \in Seq(Entries)
    <3>1. list \in Seq(Entries)
      BY DEF LInv, Typed
    <3>2. <<>> \in Seq(Entries)
      OBVIOUS
    <3>. QED  BY <2>1, <3>1, <3>2, Zenon
  <2>3. MaxLevels \in Nat
    BY DEF WatcherAssumption
  <2>. QED  BY <1>2, <1>5, <2>2, <2>3 DEF UpdateLocals, cache, program, settings, LInv, Typed
<1>6. CASE ReadLocal(c)
  <2>1. Slot \in 1..Len(Frame) /\ Frame \in Seq(Variables)
    BY <1>6, FrameTyped DEF ReadLocal, Slot, LInv, Typed
  <2>2. Frame[Slot] \in Variables
    BY <2>1
  <2>3. Frame[Slot] \in Entries /\ Frame[Slot].name \in Names
    BY <2>2 DEF Variables, Entries
  <2>4. list' \in Seq(Entries)
    BY <1>6, <2>3 DEF ReadLocal, LInv, Typed
  <2>5. slots' \in [Names -> Nat]
    BY <1>6, <2>1, <2>3 DEF ReadLocal, LInv, Typed
  <2>. QED  BY <1>2, <1>6, <2>4, <2>5 DEF ReadLocal, program, settings, LInv, Typed
<1>7. CASE SetLocal(c)
  <2>1. PICK n \in Names, v \in Values :
          \/ stack' = stack
          \/ Settable(n) /\ stack' = [stack EXCEPT ![level + 1][slots[n]].value = v]
    BY <1>7 DEF SetLocal
  <2>2. CASE Settable(n) /\ stack' = [stack EXCEPT ![level + 1][slots[n]].value = v]
    <3>1. stack' \in Seq(Seq(Variables)) /\ Len(stack') = Len(stack)
      BY <2>2, SetTyped DEF Settable, LInv, Typed
    <3>2. stack' # <<>>
      BY <3>1 DEF LInv, Typed
    <3>. QED  BY <1>2, <1>7, <3>1, <3>2 DEF SetLocal, cache, settings, LInv, Typed
  <2>. QED  BY <1>2, <1>7, <2>1, <2>2 DEF SetLocal, cache, settings, LInv, Typed
<1>. QED  BY <1>3, <1>4, <1>5, <1>6, <1>7 DEF Inside

LEMMA InitLInv == WatcherAssumption /\ Init => LInv
<1>. SUFFICES ASSUME WatcherAssumption, Init PROVE LInv  OBVIOUS
<1>1. stack \in Seq(Seq(Variables)) /\ stack # <<>> /\ list \in Seq(Entries)
  BY DEF Init
<1>2. globals \in [Globals -> Values] /\ "none" \in Calls
  BY DEF Init, WatcherAssumption, Nil, Calls
<1>3. Typed
  BY <1>1, <1>2 DEF Init, Typed
<1>4. Locked /\ Holding
  BY DEF Init, Locked, Holding, Ignoring, WatcherAssumption
<1>. QED  BY <1>3, <1>4 DEF LInv

LEMMA NextLInv == WatcherAssumption /\ LInv /\ [Next]_vars => LInv'
<1>. SUFFICES ASSUME WatcherAssumption, LInv, [Next]_vars PROVE LInv'  OBVIOUS
<1>1. CASE Program
  <2>1. Typed'
    BY <1>1, ProgramTyped DEF LInv
  <2>2. UNCHANGED <<locks, pc, call, cache>>
    BY <1>1 DEF Program, Declare, EndBlock, CallFunction, Return, Assign, Runs
  <2>. QED  BY <2>1, <2>2 DEF LInv, Locked, Holding, Ignoring, locks, cache
<1>2. ASSUME NEW c \in Clients, Inside(c)
      PROVE  LInv'
  BY <1>2, InsideLocked, InsideHolds, InsideTyped DEF LInv
<1>3. CASE UNCHANGED vars
  BY <1>3 DEF vars, program, locks, cache, settings, LInv, Typed, Locked, Holding, Ignoring
<1>. QED  BY <1>1, <1>2, <1>3, CallLocked, LockLocked, UnlockLocked, IgnoreLocked DEF Next, Inside

\* What a getter gave a client that has locked the object is not deleted before
\* that client unlocks it, whatever the others call (lock_object and the getters,
\* luadebug_variable_watcher.cpp:234), unless the client itself calls
\* update_global_ignore meanwhile, which gives the object away (:244).
THEOREM PointersStayLive == Spec => []PointersLive
<1>1. LInv => PointersLive
  BY DEF LInv, Holding, PointersLive
<1>. QED  BY <1>1, InitLInv, NextLInv, WatcherAssumption, PTL DEF Spec

\* A client that locks the object leaves the ignore list to others.
NobodyLoses == \A c \in Clients : ~({"lock", "updateIgnore"} \subseteq Uses[c])

Kept == \A c \in Clients : holds[c] # "lost" /\ (holds[c] = "yes" => "lock" \in Uses[c])

LEMMA NextKept ==
  ASSUME WatcherAssumption, NobodyLoses, LInv, Kept, [Next]_vars
  PROVE  Kept'
<1>1. ASSUME holds' = holds  PROVE Kept'
  BY <1>1 DEF Kept
<1>2. ASSUME NEW c \in Clients, NEW h \in {"no", "yes"}, h = "yes" => "lock" \in Uses[c],
             holds' = [holds EXCEPT ![c] = h]
      PROVE  Kept'
  BY <1>2 DEF Kept, LInv, Typed
<1>3. ASSUME NEW c \in Clients, NEW op \in Calls, Call(c, op)  PROVE Kept'
  BY <1>1, <1>2, <1>3 DEF Call
<1>4. ASSUME NEW c \in Clients, UpdateIgnore(c)  PROVE Kept'
  <2>1. holds[c] # "yes" /\ holds' = [holds EXCEPT ![c] = holds[c]]
    BY <1>4 DEF UpdateIgnore, Kept, NobodyLoses
  <2>. QED  BY <1>1, <2>1 DEF LInv, Typed
<1>5. ASSUME NEW c \in Clients, UnlockObject(c)  PROVE Kept'
  BY <1>2, <1>5 DEF UnlockObject
<1>6. CASE Program
  BY <1>1, <1>6 DEF Program, Declare, EndBlock, CallFunction, Return, Assign, Runs, locks
<1>7. ASSUME NEW c \in Clients,
             \/ LockState(c) \/ Unlock(c) \/ IgnoreInternal(c)
             \/ IgnoreGlobal(c) \/ UpdateIgnoreEnd(c) \/ Inside(c)
      PROVE  Kept'
  <2>1. Inside(c) => holds' = holds
    BY InsideLocked DEF locks
  <2>. QED  BY <1>1, <1>7, <2>1 DEF LockState, Unlock, IgnoreInternal, IgnoreGlobal, UpdateIgnoreEnd, locks
<1>8. CASE UNCHANGED vars
  BY <1>1, <1>8 DEF vars, locks
<1>. QED  BY <1>3, <1>4, <1>5, <1>6, <1>7, <1>8 DEF Next, Inside

\* Without exception, as long as who calls lock_object does not call
\* update_global_ignore.
THEOREM LockedPointersStayLive ==
  ASSUME NobodyLoses PROVE Spec => []LockedPointersLive
<1>1. Init => Kept
  BY DEF Init, Kept
<1>2. LInv /\ Kept => LockedPointersLive
  BY DEF LInv, Typed, Kept, Holding, LockedPointersLive
<1>3. LInv /\ Kept /\ [Next]_vars => Kept'
  BY NextKept, WatcherAssumption
<1>. QED  BY <1>1, <1>2, <1>3, InitLInv, NextLInv, WatcherAssumption, PTL DEF Spec

-----------------------------------------------------------------------------
(* An update of the globals.                                               *)

OnGlobals(c) == pc[c] \in {"read", "free"} /\ call[c] = "globals"

\* Every entry is of now and none is ignored.
OfNow ==
  \A i \in 1..Len(list) : /\ list[i].name \in Globals \ ignore
                          /\ list[i].value = globals[list[i].name]

\* What is to be shown is in the cache, or still to be read.
GInv ==
  \A c \in Clients : OnGlobals(c) =>
    /\ OfNow
    /\ \A g \in Globals : Shown(g) => g \in Cached \/ (pc[c] = "read" /\ g \in unread[c])

\* The program stands still and nobody else is at the cache while an update
\* goes on.
LEMMA OthersLeaveGlobals ==
  ASSUME WatcherAssumption, LInv, [Next]_vars, NEW d \in Clients, OnGlobals(d), ~Inside(d), ~Unlock(d)
  PROVE  /\ UNCHANGED <<globals, list, ignore>>
         /\ pc'[d] = pc[d] /\ call'[d] = call[d] /\ unread'[d] = unread[d]
<1>1. /\ mutex = d /\ lock = d /\ d # Nobody /\ \A c \in Clients : ~Ignoring(c)
      /\ \A c \in Clients : c # d => pc[c] = "out"
  BY DEF LInv, Locked, OnGlobals, Ignoring, NeedsState, Updates, WatcherAssumption
<1>2. ~Program
  BY <1>1 DEF Program, Declare, EndBlock, CallFunction, Return, Assign, Runs
<1>3. ASSUME NEW c \in Clients, Inside(c) \/ Unlock(c) \/ LockState(c)
      PROVE  FALSE
  <2>1. c # d
    BY <1>3 DEF LockState, OnGlobals
  <2>2. pc[c] # "out"
    BY <1>3, InsideLocked DEF Unlock, LockState
  <2>. QED  BY <1>1, <2>1, <2>2
<1>4. ASSUME NEW c \in Clients, NEW op \in Calls, Call(c, op)
      PROVE  FALSE
  BY <1>1, <1>4 DEF Call, OnGlobals
<1>5. ASSUME NEW c \in Clients, UpdateIgnore(c) \/ IgnoreGlobal(c) \/ UpdateIgnoreEnd(c)
      PROVE  FALSE
  BY <1>1, <1>5 DEF UpdateIgnore, IgnoreGlobal, UpdateIgnoreEnd, Ignoring, OnGlobals
<1>6. ASSUME NEW c \in Clients, UnlockObject(c) \/ IgnoreInternal(c)
      PROVE  UNCHANGED <<globals, list, ignore, pc, call, unread>>
  BY <1>6 DEF UnlockObject, IgnoreInternal, program, cache, settings
<1>7. UNCHANGED vars => UNCHANGED <<globals, list, ignore, pc, call, unread>>
  BY DEF vars, program, cache, settings
<1>. QED  BY <1>2, <1>3, <1>4, <1>5, <1>6, <1>7 DEF Next, Inside

\* The update's own steps.
LEMMA UpdateOfNow ==
  ASSUME WatcherAssumption, LInv, GInv, NEW c \in Clients, Inside(c), OnGlobals(c)'
  PROVE  /\ OfNow'
         /\ \A g \in Globals : Shown(g)' => g \in Cached' \/ (pc'[c] = "read" /\ g \in unread'[c])
<1>1. /\ call[c] = "globals" /\ pc[c] \in {"work", "read"} /\ pc \in [Clients -> {"out", "state", "work", "read", "free"}]
      /\ list \in Seq(Entries)
  BY InsideLocked DEF OnGlobals, LInv, Typed
<1>2. CASE UpdateGlobals(c)
  <2>1. list' = <<>> /\ unread'[c] = Globals /\ pc'[c] = "read"
    BY <1>1, <1>2 DEF UpdateGlobals, Cleared, Go, LInv, Typed
  <2>2. Len(list') = 0
    BY <2>1
  <2>. QED  BY <2>1, <2>2 DEF OfNow
<1>3. CASE ReadGlobal(c)
  <2>1. PICK g \in Left(c) : /\ unread' = [unread EXCEPT ![c] = @ \ {g}]
                             /\ list' = IF Hidden(g) THEN list ELSE Append(list, [name |-> g, value |-> globals[g]])
    BY <1>3 DEF ReadGlobal
  <2>2. /\ UNCHANGED <<globals, ignore, hide, pc>> /\ pc[c] = "read" /\ OnGlobals(c)
    BY <1>1, <1>3 DEF ReadGlobal, program, settings, OnGlobals
  <2>3. OfNow /\ \A h \in Globals : Shown(h) => h \in Cached \/ h \in unread[c]
    BY <2>2 DEF GInv
  <2>4. g \in Globals
    BY DEF Left, LInv, Typed
  <2>5. \A h \in unread[c] : h # g => h \in unread'[c]
    BY <2>1 DEF LInv, Typed
  <2>6. CASE Hidden(g)
    <3>1. ~Shown(g)
      BY <2>6 DEF Hidden, Shown
    <3>. QED  BY <2>1, <2>2, <2>3, <2>5, <2>6, <3>1 DEF OfNow, Cached, Shown
  <2>7. CASE ~Hidden(g)
    <3>. DEFINE e == [name |-> g, value |-> globals[g]]
    <3>1. e.name = g /\ e.value = globals[g] /\ e \in Entries
      BY <2>4 DEF Entries, LInv, Typed
    <3>2. list' = Append(list, e) /\ g \notin ignore
      BY <2>1, <2>7 DEF Hidden
    <3>. HIDE DEF e
    <3>3. /\ Len(list') = Len(list) + 1 /\ list'[Len(list) + 1] = e /\ Len(list) \in Nat
          /\ \A i \in 1..Len(list) : list'[i] = list[i]
      BY <1>1, <3>1, <3>2
    <3>4. OfNow'
      <4>. SUFFICES ASSUME NEW i \in 1..Len(list')
                    PROVE  list'[i].name \in Globals \ ignore /\ list'[i].value = globals[list'[i].name]
        BY <2>2 DEF OfNow
      <4>1. CASE i \in 1..Len(list)
        BY <2>3, <3>3, <4>1 DEF OfNow
      <4>2. CASE i = Len(list) + 1
        BY <2>4, <3>1, <3>2, <3>3, <4>2
      <4>. QED  BY <3>3, <4>1, <4>2
    <3>5. list' \in Seq(Entries)
      BY <1>1, <3>1, <3>2
    <3>6. g \in Cached' /\ Cached \subseteq Cached'
      <4>1. DOMAIN list' = 1..Len(list') /\ DOMAIN list = 1..Len(list)
        BY <1>1, <3>5
      <4>. QED  BY <3>1, <3>3, <4>1 DEF Cached
    <3>. QED  BY <2>2, <2>3, <2>5, <3>4, <3>6 DEF Shown
  <2>. QED  BY <2>6, <2>7
<1>4. CASE ReadGlobalsEnd(c)
  <2>1. /\ UNCHANGED <<globals, ignore, list>> /\ pc[c] = "read" /\ OnGlobals(c) /\ Left(c) = {}
    BY <1>1, <1>4 DEF ReadGlobalsEnd, program, settings, cache, OnGlobals
  <2>2. OfNow /\ \A h \in Globals : Shown(h) => h \in Cached \/ h \in unread[c]
    BY <2>1 DEF GInv
  <2>3. \A h \in unread[c] : ~Shown(h)
    BY <2>1 DEF Left, Shown
  <2>. QED  BY <2>1, <2>2, <2>3 DEF OfNow, Cached, Shown
<1>. QED  BY <1>1, <1>2, <1>3, <1>4 DEF Inside, UpdateLocals, ReadLocal, ReadLocalsEnd, Get, SetGlobal,
     SetLocal, ClearIgnore

LEMMA NextGInv ==
  ASSUME WatcherAssumption, LInv, GInv, [Next]_vars
  PROVE  GInv'
<1>. SUFFICES ASSUME NEW d \in Clients, OnGlobals(d)'
              PROVE  /\ OfNow'
                     /\ \A g \in Globals : Shown(g)' => g \in Cached' \/ (pc'[d] = "read" /\ g \in unread'[d])
  BY DEF GInv
<1>1. CASE Inside(d)
  BY <1>1, UpdateOfNow
<1>2. CASE OnGlobals(d) /\ ~Inside(d)
  <2>1. ~Unlock(d)
    BY DEF Unlock, Done, OnGlobals, LInv, Typed
  <2>2. /\ UNCHANGED <<globals, list, ignore>>
        /\ pc'[d] = pc[d] /\ call'[d] = call[d] /\ unread'[d] = unread[d]
    BY <1>2, <2>1, OthersLeaveGlobals
  <2>. QED  BY <1>2, <2>2 DEF GInv, OfNow, Cached, Shown
\* Nobody comes into an update but by its first step.
<1>3. CASE ~OnGlobals(d) /\ ~Inside(d)
  <2>1. pc' \in [Clients -> {"out", "state", "work", "read", "free"}] /\ pc \in [Clients -> {"out", "state", "work", "read", "free"}]
        /\ call \in [Clients -> Calls]
    BY NextLInv DEF LInv, Typed
  <2>2. ASSUME NEW c \in Clients, Inside(c)
        PROVE  pc'[d] = pc[d] /\ call' = call
    BY <1>3, <2>2, InsideLocked
  <2>3. ASSUME NEW c \in Clients, NEW op \in Calls, Call(c, op)
        PROVE  pc'[d] \in {pc[d], "state", "work"} /\ (pc'[d] = pc[d] => call'[d] = call[d] \/ pc[d] = "out")
    BY <2>1, <2>3 DEF Call, Go
  <2>4. ASSUME NEW c \in Clients, LockState(c) \/ Unlock(c) \/ UnlockObject(c)
        PROVE  pc'[d] \in {pc[d], "work", "out"} /\ (pc'[d] = pc[d] => call'[d] = call[d] \/ pc'[d] = "out")
    BY <2>1, <2>4 DEF LockState, Unlock, UnlockObject, Done, Go
  <2>5. ASSUME NEW c \in Clients, UpdateIgnore(c) \/ IgnoreGlobal(c) \/ UpdateIgnoreEnd(c) \/ IgnoreInternal(c)
        PROVE  (pc'[d] = pc[d] /\ call'[d] = call[d]) \/ pc'[d] = "out" \/ call'[d] = "updateIgnore"
    BY <2>1, <2>5 DEF UpdateIgnore, IgnoreGlobal, UpdateIgnoreEnd, IgnoreInternal, Done, Go
  <2>6. Program \/ UNCHANGED vars => UNCHANGED <<pc, call>>
    BY DEF Program, Declare, EndBlock, CallFunction, Return, Assign, Runs, vars
  <2>. QED  BY <1>3, <2>2, <2>3, <2>4, <2>5, <2>6 DEF Next, Inside, OnGlobals
<1>. QED  BY <1>1, <1>2, <1>3

\* When an update of the globals ends, the cache is one moment of the program
\* (update_global_variables, luadebug_variable_watcher.cpp).
THEOREM GlobalsReadAtOnce == Spec => []GlobalsOfOneMoment
<1>1. Init => GInv
  BY DEF Init, GInv, OnGlobals
<1>2. LInv /\ GInv => GlobalsOfOneMoment
  <2>. SUFFICES ASSUME LInv, GInv, NEW c \in Clients, pc[c] = "free", call[c] = "globals"
                PROVE  /\ \A i \in DOMAIN list : list[i].value = globals[list[i].name]
                       /\ {g \in Globals : Shown(g)} \subseteq Cached /\ Cached \cap ignore = {}
    BY DEF GlobalsOfOneMoment
  <2>1. DOMAIN list = 1..Len(list)
    BY DEF LInv, Typed
  <2>. QED  BY <2>1 DEF GInv, OnGlobals, OfNow, Cached
<1>. QED  BY <1>1, <1>2, InitLInv, NextLInv, NextGInv, WatcherAssumption, PTL DEF Spec

-----------------------------------------------------------------------------
(* An update of the locals, and what a client sets after it.               *)

Reading(c) == pc[c] = "read" /\ call[c] = "locals"

\* The slot of a name is the last one it has among the first k variables.
LastAmong(k) ==
  \A n \in Names :
    /\ slots[n] \in 0..k
    /\ slots[n] > 0 => Frame[slots[n]].name = n
    /\ \A j \in slots[n] + 1..k : Frame[j].name # n

\* The slots are right for what has been read, and for the whole activation
\* from then on until the program runs.
SInv ==
  /\ \A c \in Clients : Reading(c) => Len(list) <= Len(Frame) /\ LastAmong(Len(list))
  /\ ~moved /\ (\A c \in Clients : ~Reading(c)) => LastAmong(Len(Frame))

\* Who is inside a call is the only one that can be reading locals.
LEMMA InsideAlone ==
  ASSUME WatcherAssumption, LInv, NEW c \in Clients, Inside(c), NEW d \in Clients, d # c
  PROVE  ~Reading(d) /\ ~Reading(d)'
<1>1. mutex = c /\ pc'[d] = pc[d] /\ call' = call
  BY InsideLocked
<1>2. ~Reading(d)
  BY <1>1 DEF Reading, LInv, Locked, Ignoring
<1>. QED  BY <1>1, <1>2 DEF Reading

\* The steps that leave the cache, the activation and who reads alone.
LEMMA NotLocals ==
  ASSUME WatcherAssumption, LInv, NEW c \in Clients,
         \/ LockState(c) \/ Unlock(c) \/ UnlockObject(c) \/ IgnoreInternal(c)
         \/ UpdateIgnore(c) \/ IgnoreGlobal(c) \/ UpdateIgnoreEnd(c)
         \/ \E op \in Calls : Call(c, op)
  PROVE  UNCHANGED <<stack, list, slots, level, moved>> /\ \A d \in Clients : Reading(d)' <=> Reading(d)
<1>1. UNCHANGED <<stack, list, slots, level, moved>>
  BY DEF LockState, Unlock, UnlockObject, IgnoreInternal, UpdateIgnore, IgnoreGlobal, UpdateIgnoreEnd,
     Call, program, cache
<1>2. pc \in [Clients -> {"out", "state", "work", "read", "free"}] /\ call \in [Clients -> Calls]
  BY DEF LInv, Typed
<1>3. CASE LockState(c) \/ UnlockObject(c) \/ IgnoreInternal(c) \/ IgnoreGlobal(c)
  BY <1>1, <1>2, <1>3 DEF LockState, UnlockObject, IgnoreInternal, IgnoreGlobal, Go, Reading
<1>4. CASE Unlock(c) \/ UpdateIgnoreEnd(c)
  BY <1>1, <1>2, <1>4 DEF Unlock, UpdateIgnoreEnd, Done, Reading
<1>5. CASE UpdateIgnore(c)
  BY <1>1, <1>2, <1>5 DEF UpdateIgnore, Go, Reading
<1>6. ASSUME NEW op \in Calls, Call(c, op)
      PROVE  \A d \in Clients : Reading(d)' <=> Reading(d)
  BY <1>2, <1>6 DEF Call, Go, Reading
<1>. QED  BY <1>1, <1>3, <1>4, <1>5, <1>6

\* One more local is read.
LEMMA ReadLast ==
  ASSUME WatcherAssumption, LInv, NEW c \in Clients, ReadLocal(c), LastAmong(Len(list))
  PROVE  Len(list') <= Len(Frame)' /\ LastAmong(Len(list))'
<1>0. PICK k \in Nat : k = Len(list)
  BY DEF LInv, Typed
<1>. DEFINE m == Frame[k + 1].name
<1>1. k \in Nat /\ k + 1 <= Len(Frame) /\ Frame' = Frame
  BY <1>0 DEF ReadLocal, Slot, LInv, Typed, program, Frame
<1>2. m \in Names
  <2>1. Frame \in Seq(Variables) /\ k + 1 \in 1..Len(Frame)
    BY <1>1, FrameTyped DEF LInv
  <2>2. Frame[k + 1] \in Variables
    BY <2>1
  <2>. QED  BY <2>2 DEF Variables
<1>3. Len(list') = k + 1
  <2>1. Frame[k + 1] \in Entries
    <3>1. Frame \in Seq(Variables) /\ k + 1 \in 1..Len(Frame)
      BY <1>1, FrameTyped DEF LInv
    <3>2. Frame[k + 1] \in Variables
      BY <3>1
    <3>. QED  BY <3>2 DEF Variables, Entries
  <2>2. list' = Append(list, Frame[k + 1]) /\ list \in Seq(Entries)
    BY <1>0 DEF ReadLocal, Slot, LInv, Typed
  <2>. QED  BY <1>0, <2>1, <2>2
<1>4. slots' = [slots EXCEPT ![m] = k + 1] /\ slots \in [Names -> Nat]
  BY <1>0 DEF ReadLocal, Slot, LInv, Typed
<1>. HIDE DEF m
<1>5. \A n \in Names : slots'[n] = IF n = m THEN k + 1 ELSE slots[n]
  BY <1>2, <1>4
<1>6. \A n \in Names : /\ slots[n] \in 0..k
                       /\ slots[n] > 0 => Frame[slots[n]].name = n
                       /\ \A j \in slots[n] + 1..k : Frame[j].name # n
  BY <1>0 DEF LastAmong
<1>7. \A n \in Names : /\ slots'[n] \in 0..k + 1
                       /\ slots'[n] > 0 => Frame[slots'[n]].name = n
                       /\ \A j \in slots'[n] + 1..k + 1 : Frame[j].name # n
  <2>. SUFFICES ASSUME NEW n \in Names
                PROVE  /\ slots'[n] \in 0..k + 1
                       /\ slots'[n] > 0 => Frame[slots'[n]].name = n
                       /\ \A j \in slots'[n] + 1..k + 1 : Frame[j].name # n
    OBVIOUS
  <2>1. CASE n = m
    BY <1>1, <1>5, <2>1 DEF m
  <2>2. CASE n # m
    BY <1>1, <1>5, <1>6, <2>2 DEF m
  <2>. QED  BY <2>1, <2>2
<1>8. LastAmong(k + 1)'
  BY <1>1, <1>7 DEF LastAmong
<1>. QED  BY <1>1, <1>3, <1>8

LEMMA NextSInv ==
  ASSUME WatcherAssumption, LInv, SInv, [Next]_vars
  PROVE  SInv'
\* Nothing that matters changes.
<1>1. ASSUME UNCHANGED <<stack, list, slots, level, moved>>, \A d \in Clients : Reading(d)' <=> Reading(d)
      PROVE  SInv'
  BY <1>1 DEF SInv, LastAmong, Frame
\* Nobody reads locals, before and after.
<1>2. ASSUME UNCHANGED <<slots, moved>>, \A d \in Clients : ~Reading(d) /\ ~Reading(d)',
             Len(Frame)' = Len(Frame), \A j \in 1..Len(Frame) : Frame'[j].name = Frame[j].name
      PROVE  SInv'
  <2>1. ~moved => LastAmong(Len(Frame))
    BY <1>2 DEF SInv
  <2>2. LastAmong(Len(Frame)) => LastAmong(Len(Frame))'
    <3>. SUFFICES ASSUME LastAmong(Len(Frame)) PROVE LastAmong(Len(Frame))'
      OBVIOUS
    <3>. DEFINE k == Len(Frame)
    <3>1. LastAmong(k) /\ k' = k /\ \A j \in 1..k : Frame'[j].name = Frame[j].name
      BY <1>2
    <3>2. k \in Nat
      BY FrameTyped DEF LInv
    <3>. HIDE DEF k
    <3>3. \A n \in Names : /\ slots'[n] \in 0..k'
                           /\ slots'[n] > 0 => Frame'[slots'[n]].name = n
                           /\ \A j \in slots'[n] + 1..k' : Frame'[j].name # n
      BY <1>2, <3>1, <3>2 DEF LastAmong
    <3>. QED  BY <3>3 DEF LastAmong, k
  <2>. QED  BY <1>2, <2>1, <2>2 DEF SInv
<1>3. CASE Program
  <2>1. lock = Nobody /\ moved' = TRUE /\ UNCHANGED <<pc, call>>
    BY <1>3 DEF Program, Declare, EndBlock, CallFunction, Return, Assign, Runs
  <2>2. \A c \in Clients : ~Reading(c)
    BY <2>1 DEF Reading, LInv, Locked, NeedsState, Updates, WatcherAssumption
  <2>. QED  BY <2>1, <2>2 DEF SInv, Reading
<1>4. ASSUME NEW c \in Clients, Inside(c)
      PROVE  SInv'
  <2>1. /\ \A d \in Clients : d # c => ~Reading(d) /\ ~Reading(d)'
        /\ pc'[c] \in {"read", "free"} /\ call' = call
        /\ pc \in [Clients -> {"out", "state", "work", "read", "free"}]
    BY <1>4, InsideAlone, InsideLocked DEF LInv, Typed
  <2>2. CASE UpdateGlobals(c) \/ ReadGlobal(c) \/ ReadGlobalsEnd(c) \/ Get(c) \/ SetGlobal(c) \/ ClearIgnore(c)
    <3>1. UNCHANGED <<stack, slots, level, moved>> /\ ~Reading(c) /\ ~Reading(c)'
      BY <2>1, <2>2 DEF UpdateGlobals, ReadGlobal, ReadGlobalsEnd, Get, SetGlobal, ClearIgnore, Reading,
         program, cache
    <3>2. Frame' = Frame
      BY <3>1 DEF Frame
    <3>. QED  BY <1>2, <2>1, <3>1, <3>2
  <2>3. CASE UpdateLocals(c)
    <3>1. ~Reading(c) /\ UNCHANGED <<stack, moved>>
      BY <2>3 DEF UpdateLocals, Reading, program
    <3>2. PICK l \in 0..MaxLevels :
            \/ Go(c, "free") /\ UNCHANGED cache
            \/ l < Len(stack) /\ list' = <<>> /\ slots' = [n \in Names |-> 0] /\ level' = l /\ Go(c, "read")
      BY <2>3 DEF UpdateLocals, Cleared
    <3>3. CASE Go(c, "free") /\ UNCHANGED cache
      <4>1. ~Reading(c)' /\ UNCHANGED <<slots, level>>
        BY <2>1, <3>3 DEF Go, Reading, cache
      <4>2. Frame' = Frame
        BY <3>1, <4>1 DEF Frame
      <4>. QED  BY <1>2, <2>1, <3>1, <4>1, <4>2
    <3>4. CASE l < Len(stack) /\ list' = <<>> /\ slots' = [n \in Names |-> 0] /\ level' = l /\ Go(c, "read")
      <4>1. Reading(c)'
        BY <2>1, <2>3, <3>4 DEF UpdateLocals, Reading, Go
      <4>2. Len(list)' = 0 /\ Len(Frame)' \in Nat
        <5>1. stack \in Seq(Seq(Variables)) /\ l + 1 \in 1..Len(stack)
          BY <3>4 DEF LInv, Typed
        <5>2. stack[l + 1] \in Seq(Variables)
          BY <5>1
        <5>3. Frame' \in Seq(Variables)
          BY <3>1, <3>4, <5>1, <5>2 DEF Frame
        <5>. QED  BY <3>4, <5>3
      <4>3. LastAmong(0)'
        BY <3>4 DEF LastAmong
      <4>. QED  BY <2>1, <4>1, <4>2, <4>3 DEF SInv
    <3>. QED  BY <3>2, <3>3, <3>4
  <2>4. CASE ReadLocal(c)
    <3>1. Reading(c) /\ Reading(c)'
      BY <2>4 DEF ReadLocal, Reading
    <3>2. Len(list') <= Len(Frame)' /\ LastAmong(Len(list))'
      BY <2>4, <3>1, ReadLast DEF SInv
    <3>. QED  BY <2>1, <3>1, <3>2 DEF SInv
  <2>5. CASE ReadLocalsEnd(c)
    <3>1. Reading(c) /\ ~Reading(c)' /\ UNCHANGED <<stack, slots, level>>
      BY <2>1, <2>5 DEF ReadLocalsEnd, Reading, Go, cache
    <3>2. Len(list) = Len(Frame) /\ LastAmong(Len(list))
      <4>1. Frame \in Seq(Variables) /\ list \in Seq(Entries)
        BY FrameTyped DEF LInv, Typed
      <4>2. Len(list) <= Len(Frame) /\ LastAmong(Len(list)) /\ Len(list) + 1 > Len(Frame)
        BY <2>5, <3>1 DEF ReadLocalsEnd, Slot, SInv
      <4>. QED  BY <4>1, <4>2
    <3>3. LastAmong(Len(Frame))'
      BY <3>1, <3>2 DEF LastAmong, Frame
    <3>. QED  BY <2>1, <3>1, <3>3 DEF SInv
  <2>6. CASE SetLocal(c)
    <3>1. ~Reading(c) /\ ~Reading(c)' /\ UNCHANGED <<slots, level, moved>>
      BY <2>6 DEF SetLocal, Reading, cache
    <3>2. PICK n \in Names, v \in Values :
            \/ stack' = stack
            \/ Settable(n) /\ stack' = [stack EXCEPT ![level + 1][slots[n]].value = v]
      BY <2>6 DEF SetLocal
    <3>3. CASE stack' = stack
      <4>1. Frame' = Frame
        BY <3>1, <3>3 DEF Frame
      <4>. QED  BY <1>2, <2>1, <3>1, <4>1
    <3>4. CASE Settable(n) /\ stack' = [stack EXCEPT ![level + 1][slots[n]].value = v]
      <4>1. /\ Len(stack') = Len(stack)
            /\ Len(stack'[level + 1]) = Len(Frame)
            /\ \A i \in 1..Len(Frame) : stack'[level + 1][i].name = Frame[i].name
        BY <3>4, SetTyped DEF Settable, LInv, Typed
      <4>2. Frame' = stack'[level + 1]
        BY <3>1, <3>4, <4>1 DEF Frame, Settable, LInv, Typed
      <4>. QED  BY <1>2, <2>1, <3>1, <4>1, <4>2
    <3>. QED  BY <3>2, <3>3, <3>4
  <2>. QED  BY <1>4, <2>2, <2>3, <2>4, <2>5, <2>6 DEF Inside
<1>5. UNCHANGED vars => SInv'
  BY <1>1 DEF vars, program, cache, Reading
<1>. QED  BY <1>1, <1>3, <1>4, <1>5, NotLocals DEF Next, Inside

\* The slot of a name is the variable the name means.
LEMMA SlotIsVisible ==
  ASSUME Typed, LastAmong(Len(Frame)), NEW n \in Names, slots[n] > 0
  PROVE  slots[n] \in 1..Len(Frame) /\ Frame[slots[n]].name = n /\ Visible(Frame, n) = slots[n]
<1>. DEFINE s == slots[n]
<1>1. Frame \in Seq(Variables) /\ Len(Frame) \in Nat /\ DOMAIN Frame = 1..Len(Frame)
  BY FrameTyped
<1>2. s \in 1..Len(Frame) /\ Frame[s].name = n /\ \A j \in s + 1..Len(Frame) : Frame[j].name # n
  BY <1>1 DEF LastAmong
<1>. HIDE DEF s
<1>3. \A i \in 1..Len(Frame) : Frame[i].name = n /\ (\A j \in i + 1..Len(Frame) : Frame[j].name # n) => i = s
  <2>. SUFFICES ASSUME NEW i \in 1..Len(Frame), Frame[i].name = n,
                       \A j \in i + 1..Len(Frame) : Frame[j].name # n, i # s
                PROVE  FALSE
    OBVIOUS
  <2>1. i < s => s \in i + 1..Len(Frame)
    BY <1>1, <1>2
  <2>2. s < i => i \in s + 1..Len(Frame)
    BY <1>1, <1>2
  <2>. QED  BY <1>1, <1>2, <2>1, <2>2
<1>4. Visible(Frame, n) = s
  BY <1>1, <1>2, <1>3 DEF Visible
<1>. QED  BY <1>2, <1>4 DEF s

\* As long as the program has not run since the update, a local is set where
\* its name means it, even when the name has been declared twice
\* (set_local_variable and the map update_local_variables fills,
\* luadebug_variable_watcher.cpp:470).
THEOREM LocalsSetByName == Spec => SetsWhatIsNamed
<1>1. Init => SInv
  BY DEF Init, SInv, Reading
<1>2. LInv /\ SInv /\ [Next]_vars =>
        [~moved /\ stack' # stack /\ ~moved' =>
           \E n \in Names : \E v \in Values :
             /\ n \in {Frame[i].name : i \in DOMAIN Frame}
             /\ stack' = [stack EXCEPT ![level + 1][Visible(Frame, n)].value = v]]_vars
  <2>. SUFFICES ASSUME LInv, SInv, Next, ~moved, stack' # stack, ~moved'
                PROVE  \E n \in Names : \E v \in Values :
                         /\ n \in {Frame[i].name : i \in DOMAIN Frame}
                         /\ stack' = [stack EXCEPT ![level + 1][Visible(Frame, n)].value = v]
    BY DEF vars, program
  <2>1. ~Program
    BY DEF Program, Declare, EndBlock, CallFunction, Return, Assign, Runs
  <2>2. PICK c \in Clients : Inside(c)
    BY <2>1, NotLocals, WatcherAssumption DEF Next, Inside
  <2>3. SetLocal(c)
    BY <2>2 DEF Inside, UpdateGlobals, ReadGlobal, ReadGlobalsEnd, UpdateLocals, ReadLocal, ReadLocalsEnd,
       Get, SetGlobal, ClearIgnore, program
  <2>4. PICK n \in Names, v \in Values :
          Settable(n) /\ stack' = [stack EXCEPT ![level + 1][slots[n]].value = v]
    BY <2>3 DEF SetLocal
  <2>5. \A d \in Clients : ~Reading(d)
    BY <2>2, <2>3, InsideAlone, WatcherAssumption DEF SetLocal, Reading
  <2>6. LastAmong(Len(Frame))
    BY <2>5 DEF SInv
  <2>7. slots[n] \in 1..Len(Frame) /\ Frame[slots[n]].name = n /\ Visible(Frame, n) = slots[n]
    BY <2>4, <2>6, SlotIsVisible DEF Settable, LInv
  <2>8. DOMAIN Frame = 1..Len(Frame)
    BY FrameTyped DEF LInv
  <2>9. n \in {Frame[i].name : i \in DOMAIN Frame}
    BY <2>7, <2>8
  <2>10. stack' = [stack EXCEPT ![level + 1][Visible(Frame, n)].value = v]
    BY <2>4, <2>7
  <2>. QED  BY <2>9, <2>10
<1>. QED  BY <1>1, <1>2, InitLInv, NextLInv, NextSInv, WatcherAssumption, PTL DEF Spec, SetsWhatIsNamed
=============================================================================
