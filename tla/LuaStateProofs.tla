-------------------------- MODULE LuaStateProofs --------------------------
(***************************************************************************)
(* Two results about Lua states.                                           *)
(*                                                                         *)
(* As long as no state is opened or closed while another one is, the       *)
(* library tells states apart: a state is used by one thread at a time,    *)
(* through dependent states of its own, for any number of threads and      *)
(* addresses and however often an address is used again.  The argument: an *)
(* open state has its own mutex in its metadata, and no thread keeps a     *)
(* dependent state of an earlier one; a thread that is inside holds that   *)
(* mutex, so two of them would hold the same one.                          *)
(*                                                                         *)
(* What a state counts about its calls agrees with the calls under way,    *)
(* however calls, yields, errors, hooks and resumes follow each other and  *)
(* however deep they nest; see the second part.                            *)
(***************************************************************************)
EXTENDS StateMetadata, LuaCalls, FiniteSetTheorems, SequenceTheorems, TLAPS

Users == {"call", "lock", "inside"}
Openers == {"init", "mutex", "reset", "dependent"}
Stages == {"out"} \cup Users \cup Openers \cup {"finish", "forget"}

\* Nothing has crashed.
MetadataTypes ==
  /\ number \in [Addresses -> Numbers \cup {None}]
  /\ open \in SUBSET Addresses
  /\ metadata \in [Addresses -> Numbers \cup {0, None}]
  /\ dependents \in [Threads -> [Addresses -> Numbers \cup {None}]]
  /\ held \in [Numbers -> Threads \cup {None}]
  /\ pc \in [Threads -> Stages]
  /\ at \in [Threads -> Addresses \cup {None}]
  /\ mine \in [Threads -> Numbers \cup {None}]
  /\ states \in Nat
  /\ \A t \in Threads : pc[t] # "out" => at[t] \in Addresses

\* Numbers are used once.
Numbered ==
  \A a, b \in Addresses :
    /\ number[a] # None => number[a] <= states
    /\ number[a] = number[b] /\ number[a] # None => a = b

OneAtATime == \A t, u \in Threads : OpensOrCloses(t) /\ OpensOrCloses(u) => t = u

\* An open state is complete and whole.
OpenKept ==
  \A a \in open :
    /\ number[a] # None /\ metadata[a] = number[a]
    /\ \A u \in Threads : dependents[u][a] = None \/ dependents[u][a] = number[a]
    /\ \A u \in Threads : OpensOrCloses(u) => at[u] # a

\* A thread uses an open state, with its mutex.
UsersKept ==
  \A t \in Threads : pc[t] \in Users =>
    /\ at[t] \in open /\ dependents[t][at[t]] = number[at[t]]
    /\ pc[t] # "call" => mine[t] = number[at[t]]
    /\ pc[t] = "inside" => held[mine[t]] = t

\* How far a state that is opened has come.
OpenersKept ==
  \A t \in Threads :
    /\ pc[t] \in Openers => number[at[t]] # None
    /\ pc[t] = "mutex" => metadata[at[t]] = 0
    /\ pc[t] \in {"reset", "dependent"} => metadata[at[t]] = number[at[t]]
    /\ pc[t] = "dependent" => \A u \in Threads : dependents[u][at[t]] = None

MInv == MetadataTypes /\ Numbered /\ OneAtATime /\ OpenKept /\ UsersKept /\ OpenersKept

\* None is no number and no thread.
NoneApart == MaxStates \in Nat /\ None \notin Nat /\ None \notin Threads

-----------------------------------------------------------------------------
(* Dependent states, one at a time.                                        *)

LEMMA RequiredIs ==
  ASSUME NoneApart, MetadataTypes, NEW t \in Threads, NEW a \in Addresses
  PROVE  /\ Required(t, a) \in [Threads -> [Addresses -> Numbers \cup {None}]]
         /\ \A u \in Threads, b \in Addresses :
              Required(t, a)[u][b] = IF u = t /\ b = a /\ dependents[u][b] = None THEN number[b]
                                     ELSE dependents[u][b]
<1>1. number[a] \in Numbers \cup {None} /\ dependents[t] \in [Addresses -> Numbers \cup {None}]
  BY DEF MetadataTypes
<1>. DEFINE d == [dependents[t] EXCEPT ![a] = IF @ = None THEN number[a] ELSE @]
<1>2. d \in [Addresses -> Numbers \cup {None}]
  BY <1>1
<1>3. \A b \in Addresses : d[b] = IF b = a /\ dependents[t][b] = None THEN number[b] ELSE dependents[t][b]
  BY <1>1
<1>4. Required(t, a) = [dependents EXCEPT ![t] = d]
  BY DEF Required, MetadataTypes
<1>. HIDE DEF d
<1>. QED  BY <1>2, <1>3, <1>4 DEF MetadataTypes

LEMMA ForgottenIs ==
  ASSUME MetadataTypes, NEW t \in Threads, NEW a \in Addresses
  PROVE  /\ Forgotten(t, a) \in [Threads -> [Addresses -> Numbers \cup {None}]]
         /\ \A u \in Threads, b \in Addresses :
              Forgotten(t, a)[u][b] = IF b = a THEN None ELSE dependents[u][b]
BY DEF Forgotten, MetadataTypes

-----------------------------------------------------------------------------
(* Types.                                                                  *)

LEMMA TypesInit == ASSUME NoneApart PROVE MetadataInit => MInv
BY DEF NoneApart, MetadataInit, MInv, MetadataTypes, Numbered, OneAtATime, OpenKept, UsersKept,
       OpenersKept, OpensOrCloses, Users, Openers, Stages

LEMMA TypesStep ==
  ASSUME NoneApart, MInv, MetadataNext PROVE MetadataTypes'
<1>. USE DEF Stages, Users, Openers
<1>0. PICK t \in Threads :
        \/ \E a \in Addresses : NewState(t, a) \/ Swap(t, a) \/ CloseState(t, a)
        \/ InitiateMetadata(t) \/ RequireStateMutex(t) \/ ResetDependentState(t) \/ InitStateEnds(t)
        \/ FindMutex(t) \/ Lock(t) \/ Unlock(t)
        \/ FinishDependents(t) \/ FinishMetadata(t)
  BY DEF MetadataNext
<1>. USE DEF MInv
<1>1. ASSUME NEW a \in Addresses, NewState(t, a) PROVE MetadataTypes'
  <2>1. states + 1 \in Numbers
    BY <1>1 DEF NewState, MetadataTypes, Numbers, NoneApart
  <2>. QED  BY <1>1, <2>1 DEF NewState, MetadataTypes
<1>2. ASSUME NEW a \in Addresses, Swap(t, a) PROVE MetadataTypes'
  BY <1>2, RequiredIs DEF Swap, MetadataTypes
<1>3. ASSUME NEW a \in Addresses, CloseState(t, a) PROVE MetadataTypes'
  BY <1>3, RequiredIs DEF CloseState, MetadataTypes
<1>4. CASE InitiateMetadata(t)
  BY <1>4 DEF InitiateMetadata, MetadataTypes, At
<1>5. CASE RequireStateMutex(t)
  <2>1. at[t] \in Addresses /\ metadata[at[t]] = 0 /\ number[at[t]] \in Numbers
    BY <1>5 DEF RequireStateMutex, At, MetadataTypes, OpenersKept
  <2>2. metadata' = [metadata EXCEPT ![at[t]] = number[at[t]]]
    BY <1>5, <2>1 DEF RequireStateMutex, MetadataTypes
  <2>3. pc' = [pc EXCEPT ![t] = "reset"]
    <3>1. metadata[at[t]] # None
      BY <2>1 DEF NoneApart
    <3>. QED  BY <1>5, <3>1 DEF RequireStateMutex, At
  <2>. QED  BY <1>5, <2>1, <2>2, <2>3 DEF RequireStateMutex, At, MetadataTypes
<1>6. CASE ResetDependentState(t)
  <2>1. at[t] \in Addresses
    BY <1>6 DEF ResetDependentState, At, MetadataTypes
  <2>. QED  BY <1>6, <2>1, ForgottenIs DEF ResetDependentState, At, MetadataTypes
<1>7. CASE InitStateEnds(t)
  <2>1. at[t] \in Addresses
    BY <1>7 DEF InitStateEnds, At, MetadataTypes
  <2>. QED  BY <1>7, <2>1, RequiredIs DEF InitStateEnds, At, MetadataTypes
<1>8. CASE FindMutex(t)
  BY <1>8 DEF FindMutex, At, MutexOf, MetadataTypes
<1>9. CASE Lock(t)
  <2>1. mine[t] # None => mine[t] \in Numbers
    BY DEF MetadataTypes
  <2>. QED  BY <1>9, <2>1 DEF Lock, At, MetadataTypes
<1>10. CASE Unlock(t)
  BY <1>10 DEF Unlock, At, MutexOf, MetadataTypes
<1>11. CASE FinishDependents(t)
  <2>1. at[t] \in Addresses
    BY <1>11 DEF FinishDependents, At, MetadataTypes
  <2>. QED  BY <1>11, <2>1, ForgottenIs DEF FinishDependents, At, MetadataTypes
<1>12. CASE FinishMetadata(t)
  BY <1>12 DEF FinishMetadata, At, MetadataTypes
<1>. QED
  BY <1>0, <1>1, <1>2, <1>3, <1>4, <1>5, <1>6, <1>7, <1>8, <1>9, <1>10, <1>11, <1>12

-----------------------------------------------------------------------------
(* The rest of the invariant, action by action.                            *)

LEMMA NewStateKeeps ==
  ASSUME NoneApart, ~MayOverlap, MInv, MetadataTypes', NEW t \in Threads, NEW a \in Addresses, NewState(t, a)
  PROVE  MInv'
<1>. USE DEF MInv, Users, Openers
<1>1. /\ number' = [number EXCEPT ![a] = states'] /\ states' = states + 1 /\ number[a] = None
      /\ pc' = [pc EXCEPT ![t] = "init"] /\ at' = [at EXCEPT ![t] = a]
      /\ pc[t] = "out" /\ \A u \in Threads : ~OpensOrCloses(u)
      /\ UNCHANGED <<open, metadata, dependents, held, mine>>
  BY DEF NewState, Alone
<1>2. Numbered'
  <2>1. ASSUME NEW b \in Addresses, number[b] # None
        PROVE  number[b] \in Nat /\ number[b] <= states
    <3>1. number[b] \in Numbers
      BY <2>1 DEF MetadataTypes
    <3>2. number[b] \in Nat
      BY <3>1 DEF Numbers, NoneApart
    <3>. QED  BY <2>1, <3>2 DEF Numbered
  <2>2. states + 1 # None /\ states' = states + 1 /\ states \in Nat
    BY <1>1 DEF MetadataTypes, NoneApart
  <2>3. \A b \in Addresses : number'[b] = IF b = a THEN states + 1 ELSE number[b]
    BY <1>1 DEF MetadataTypes
  <2>4. \A b \in Addresses : number[b] # states + 1
    BY <2>1, <2>2
  <2>5. \A b \in Addresses : number'[b] # None => number'[b] <= states'
    BY <2>1, <2>2, <2>3
  <2>6. \A b, c \in Addresses : number'[b] = number'[c] /\ number'[b] # None => b = c
    BY <2>3, <2>4 DEF Numbered
  <2>. QED  BY <2>5, <2>6 DEF Numbered
<1>3. OneAtATime'
  BY <1>1 DEF OneAtATime, OpensOrCloses, MetadataTypes
<1>4. a \notin open
  BY <1>1 DEF OpenKept
<1>5. OpenKept'
  BY <1>1, <1>4 DEF OpenKept, OpensOrCloses, MetadataTypes
<1>6. UsersKept'
  BY <1>1, <1>4 DEF UsersKept, MetadataTypes
<1>7. OpenersKept'
  BY <1>1, states + 1 # None DEF OpenersKept, MetadataTypes, OpensOrCloses, NoneApart
<1>. QED  BY <1>2, <1>3, <1>5, <1>6, <1>7

LEMMA InitiateMetadataKeeps ==
  ASSUME NoneApart, MInv, MetadataTypes', NEW t \in Threads, InitiateMetadata(t) PROVE MInv'
<1>. USE DEF MInv, Users, Openers
<1>1. /\ pc[t] = "init" /\ pc' = [pc EXCEPT ![t] = "mutex"]
      /\ metadata' = [metadata EXCEPT ![at[t]] = 0]
      /\ UNCHANGED <<number, open, dependents, held, at, mine, states>>
  BY DEF InitiateMetadata, At
<1>2. OneAtATime'
  BY <1>1 DEF OneAtATime, OpensOrCloses, MetadataTypes
<1>3. at[t] \in Addresses \ open
  BY <1>1 DEF OpenKept, OpensOrCloses, MetadataTypes
<1>4. \A u \in Threads : OpensOrCloses(u) => u = t
  BY <1>1 DEF OneAtATime, OpensOrCloses
<1>5. OpenKept'
  BY <1>1, <1>3 DEF OpenKept, OpensOrCloses, MetadataTypes
<1>6. UsersKept'
  BY <1>1 DEF UsersKept, MetadataTypes
<1>7. OpenersKept'
  BY <1>1, <1>3, <1>4 DEF OpenersKept, MetadataTypes, OpensOrCloses
<1>. QED  BY <1>1, <1>2, <1>5, <1>6, <1>7 DEF Numbered

LEMMA RequireStateMutexKeeps ==
  ASSUME NoneApart, MInv, MetadataTypes', NEW t \in Threads, RequireStateMutex(t) PROVE MInv'
<1>. USE DEF MInv, Users, Openers
<1>0. pc[t] = "mutex" /\ metadata[at[t]] = 0 /\ metadata[at[t]] # None /\ at[t] \in Addresses
  BY DEF RequireStateMutex, At, OpenersKept, NoneApart, MetadataTypes
<1>1. /\ pc[t] = "mutex" /\ pc' = [pc EXCEPT ![t] = "reset"]
      /\ metadata' = [metadata EXCEPT ![at[t]] = number[at[t]]]
      /\ UNCHANGED <<number, open, dependents, held, at, mine, states>>
  BY <1>0 DEF RequireStateMutex, At, MetadataTypes
<1>2. OneAtATime'
  BY <1>1 DEF OneAtATime, OpensOrCloses, MetadataTypes
<1>3. at[t] \notin open
  BY <1>1 DEF OpenKept, OpensOrCloses
<1>4. \A u \in Threads : OpensOrCloses(u) => u = t
  BY <1>1 DEF OneAtATime, OpensOrCloses
<1>5. OpenKept'
  BY <1>1, <1>3 DEF OpenKept, OpensOrCloses, MetadataTypes
<1>6. UsersKept'
  BY <1>1 DEF UsersKept, MetadataTypes
<1>7. OpenersKept'
  BY <1>0, <1>1, <1>4 DEF OpenersKept, MetadataTypes, OpensOrCloses
<1>. QED  BY <1>1, <1>2, <1>5, <1>6, <1>7 DEF Numbered

LEMMA ResetDependentStateKeeps ==
  ASSUME NoneApart, MInv, MetadataTypes', NEW t \in Threads, ResetDependentState(t) PROVE MInv'
<1>. USE DEF MInv, Users, Openers
<1>0. pc[t] = "reset" /\ at[t] \in Addresses \ open
  BY DEF ResetDependentState, At, MetadataTypes, OpenKept, OpensOrCloses
<1>1. /\ pc' = [pc EXCEPT ![t] = "dependent"]
      /\ \A u \in Threads, b \in Addresses :
           dependents'[u][b] = IF b = at[t] THEN None ELSE dependents[u][b]
      /\ UNCHANGED <<number, open, metadata, held, at, mine, states>>
  BY <1>0, ForgottenIs DEF ResetDependentState, At
<1>2. OneAtATime'
  BY <1>0, <1>1 DEF OneAtATime, OpensOrCloses, MetadataTypes
<1>4. \A u \in Threads : OpensOrCloses(u) => u = t
  BY <1>0 DEF OneAtATime, OpensOrCloses
<1>5. OpenKept'
  BY <1>0, <1>1 DEF OpenKept, OpensOrCloses, MetadataTypes
<1>6. UsersKept'
  BY <1>0, <1>1 DEF UsersKept, MetadataTypes
<1>7. OpenersKept'
  BY <1>0, <1>1, <1>4 DEF OpenersKept, MetadataTypes, OpensOrCloses
<1>. QED  BY <1>1, <1>2, <1>5, <1>6, <1>7 DEF Numbered

LEMMA InitStateEndsKeeps ==
  ASSUME NoneApart, MInv, MetadataTypes', NEW t \in Threads, InitStateEnds(t) PROVE MInv'
<1>. USE DEF MInv, Users, Openers
<1>0. pc[t] = "dependent" /\ at[t] \in Addresses \ open
  BY DEF InitStateEnds, At, MetadataTypes, OpenKept, OpensOrCloses
<1>1. /\ pc' = [pc EXCEPT ![t] = "out"] /\ open' = open \cup {at[t]}
      /\ \A u \in Threads, b \in Addresses :
           dependents'[u][b] = IF u = t /\ b = at[t] /\ dependents[u][b] = None THEN number[b]
                               ELSE dependents[u][b]
      /\ UNCHANGED <<number, metadata, held, at, mine, states>>
  BY <1>0, RequiredIs DEF InitStateEnds, At
<1>2. OneAtATime'
  BY <1>0, <1>1 DEF OneAtATime, OpensOrCloses, MetadataTypes
<1>4. \A u \in Threads : OpensOrCloses(u) => u = t
  BY <1>0 DEF OneAtATime, OpensOrCloses
<1>5. OpenKept'
  BY <1>0, <1>1, <1>4 DEF OpenKept, OpensOrCloses, OpenersKept, MetadataTypes
<1>6. UsersKept'
  BY <1>0, <1>1 DEF UsersKept, MetadataTypes
<1>7. OpenersKept'
  BY <1>0, <1>1, <1>4 DEF OpenersKept, MetadataTypes, OpensOrCloses
<1>. QED  BY <1>1, <1>2, <1>5, <1>6, <1>7 DEF Numbered

LEMMA SwapKeeps ==
  ASSUME NoneApart, MInv, MetadataTypes', NEW t \in Threads, NEW a \in Addresses, Swap(t, a) PROVE MInv'
<1>. USE DEF MInv, Users, Openers
<1>1. /\ pc[t] = "out" /\ a \in open
      /\ pc' = [pc EXCEPT ![t] = "call"] /\ at' = [at EXCEPT ![t] = a]
      /\ \A u \in Threads, b \in Addresses :
           dependents'[u][b] = IF u = t /\ b = a /\ dependents[u][b] = None THEN number[b]
                               ELSE dependents[u][b]
      /\ UNCHANGED <<number, open, metadata, held, mine, states>>
  BY RequiredIs DEF Swap
<1>2. OneAtATime'
  BY <1>1 DEF OneAtATime, OpensOrCloses, MetadataTypes
<1>5. OpenKept'
  BY <1>1 DEF OpenKept, OpensOrCloses, MetadataTypes
<1>6. UsersKept'
  BY <1>1 DEF UsersKept, OpenKept, MetadataTypes
<1>7. OpenersKept'
  <2>1. \A u \in Threads : pc[u] \in Openers => at[u] # a
    BY <1>1 DEF OpenKept, OpensOrCloses
  <2>2. \A u \in Threads : pc'[u] \in Openers =>
          pc'[u] = pc[u] /\ at'[u] = at[u] /\ at[u] \in Addresses
    BY <1>1 DEF MetadataTypes
  <2>3. \A u \in Threads, b \in Addresses : b # a => dependents'[u][b] = dependents[u][b]
    BY <1>1
  <2>. QED  BY <1>1, <2>1, <2>2, <2>3 DEF OpenersKept
<1>. QED  BY <1>1, <1>2, <1>5, <1>6, <1>7 DEF Numbered

LEMMA FindMutexKeeps ==
  ASSUME NoneApart, MInv, MetadataTypes', NEW t \in Threads, FindMutex(t) PROVE MInv'
<1>. USE DEF MInv, Users, Openers
<1>0. pc[t] = "call" /\ at[t] \in open /\ MutexOf(at[t]) = number[at[t]]
  BY DEF FindMutex, At, UsersKept, OpenKept, MutexOf, MetadataTypes
<1>1. /\ pc' = [pc EXCEPT ![t] = "lock"] /\ mine' = [mine EXCEPT ![t] = number[at[t]]]
      /\ UNCHANGED <<number, open, metadata, dependents, held, at, states>>
  BY <1>0 DEF FindMutex, At
<1>2. OneAtATime'
  BY <1>0, <1>1 DEF OneAtATime, OpensOrCloses, MetadataTypes
<1>5. OpenKept'
  BY <1>0, <1>1 DEF OpenKept, OpensOrCloses, MetadataTypes
<1>6. UsersKept'
  BY <1>0, <1>1 DEF UsersKept, MetadataTypes
<1>7. OpenersKept'
  BY <1>0, <1>1 DEF OpenersKept, MetadataTypes
<1>. QED  BY <1>1, <1>2, <1>5, <1>6, <1>7 DEF Numbered

LEMMA LockKeeps ==
  ASSUME NoneApart, MInv, MetadataTypes', NEW t \in Threads, Lock(t) PROVE MInv'
<1>. USE DEF MInv, Users, Openers
<1>. DEFINE m == mine[t]
<1>0. /\ pc[t] = "lock" /\ at[t] \in open /\ m = number[at[t]] /\ m \in Numbers /\ m # None
      /\ metadata[at[t]] = m
  BY DEF Lock, At, UsersKept, OpenKept, MetadataTypes
<1>1. /\ pc' = [pc EXCEPT ![t] = "inside"] /\ held' = [held EXCEPT ![m] = t]
      /\ held[m] = None \/ held[m] = t
      /\ UNCHANGED <<number, open, metadata, dependents, at, mine, states>>
  BY <1>0 DEF Lock, At, Exists, MetadataTypes
<1>2. OneAtATime'
  BY <1>0, <1>1 DEF OneAtATime, OpensOrCloses, MetadataTypes
<1>5. OpenKept'
  BY <1>0, <1>1 DEF OpenKept, OpensOrCloses, MetadataTypes
<1>6. UsersKept'
  BY <1>0, <1>1 DEF UsersKept, MetadataTypes, NoneApart
<1>7. OpenersKept'
  BY <1>0, <1>1 DEF OpenersKept, MetadataTypes
<1>. QED  BY <1>1, <1>2, <1>5, <1>6, <1>7 DEF Numbered

LEMMA UnlockKeeps ==
  ASSUME NoneApart, MInv, MetadataTypes', NEW t \in Threads, Unlock(t) PROVE MInv'
<1>. USE DEF MInv, Users, Openers
<1>. DEFINE m == mine[t]
<1>0. /\ pc[t] = "inside" /\ m \in Numbers /\ m # None /\ held[m] = t /\ MutexOf(at[t]) = m
  BY DEF Unlock, At, UsersKept, OpenKept, MutexOf, MetadataTypes
<1>1. /\ pc' = [pc EXCEPT ![t] = "out"] /\ held' = [held EXCEPT ![m] = None]
      /\ mine' = [mine EXCEPT ![t] = None]
      /\ UNCHANGED <<number, open, metadata, dependents, at, states>>
  BY <1>0 DEF Unlock, At
<1>2. OneAtATime'
  BY <1>0, <1>1 DEF OneAtATime, OpensOrCloses, MetadataTypes
<1>5. OpenKept'
  BY <1>0, <1>1 DEF OpenKept, OpensOrCloses, MetadataTypes
<1>6. UsersKept'
  BY <1>0, <1>1 DEF UsersKept, MetadataTypes
<1>7. OpenersKept'
  BY <1>0, <1>1 DEF OpenersKept, MetadataTypes
<1>. QED  BY <1>1, <1>2, <1>5, <1>6, <1>7 DEF Numbered

LEMMA CloseStateKeeps ==
  ASSUME NoneApart, ~MayOverlap, MInv, MetadataTypes', NEW t \in Threads, NEW a \in Addresses, CloseState(t, a)
  PROVE  MInv'
<1>. USE DEF MInv, Users, Openers
<1>1. /\ pc[t] = "out" /\ a \in open /\ \A u \in Threads : ~OpensOrCloses(u)
      /\ \A u \in Threads : pc[u] \in Users => at[u] # a
      /\ pc' = [pc EXCEPT ![t] = "finish"] /\ at' = [at EXCEPT ![t] = a]
      /\ open' = open \ {a} /\ number' = [number EXCEPT ![a] = None]
      /\ \A u \in Threads, b \in Addresses :
           dependents'[u][b] = IF u = t /\ b = a /\ dependents[u][b] = None THEN number[b]
                               ELSE dependents[u][b]
      /\ UNCHANGED <<metadata, held, mine, states>>
  BY RequiredIs DEF CloseState, Alone
<1>2. OneAtATime'
  BY <1>1 DEF OneAtATime, OpensOrCloses, MetadataTypes
<1>3. Numbered'
  BY <1>1 DEF Numbered, MetadataTypes
<1>5. OpenKept'
  BY <1>1 DEF OpenKept, OpensOrCloses, MetadataTypes
<1>6. UsersKept'
  BY <1>1 DEF UsersKept, MetadataTypes
<1>7. OpenersKept'
  BY <1>1 DEF OpenersKept, OpensOrCloses, MetadataTypes
<1>. QED  BY <1>2, <1>3, <1>5, <1>6, <1>7

LEMMA FinishDependentsKeeps ==
  ASSUME NoneApart, MInv, MetadataTypes', NEW t \in Threads, FinishDependents(t) PROVE MInv'
<1>. USE DEF MInv, Users, Openers
<1>0. pc[t] = "finish" /\ at[t] \in Addresses \ open
  BY DEF FinishDependents, At, MetadataTypes, OpenKept, OpensOrCloses
<1>1. /\ pc' = [pc EXCEPT ![t] = "forget"]
      /\ \A u \in Threads, b \in Addresses :
           dependents'[u][b] = IF b = at[t] THEN None ELSE dependents[u][b]
      /\ UNCHANGED <<number, open, metadata, held, at, mine, states>>
  BY <1>0, ForgottenIs DEF FinishDependents, At
<1>2. OneAtATime'
  BY <1>0, <1>1 DEF OneAtATime, OpensOrCloses, MetadataTypes
<1>5. OpenKept'
  BY <1>0, <1>1 DEF OpenKept, OpensOrCloses, MetadataTypes
<1>6. UsersKept'
  BY <1>0, <1>1 DEF UsersKept, MetadataTypes
<1>7. OpenersKept'
  BY <1>0, <1>1 DEF OpenersKept, MetadataTypes
<1>. QED  BY <1>1, <1>2, <1>5, <1>6, <1>7 DEF Numbered

LEMMA FinishMetadataKeeps ==
  ASSUME NoneApart, MInv, MetadataTypes', NEW t \in Threads, FinishMetadata(t) PROVE MInv'
<1>. USE DEF MInv, Users, Openers
<1>0. pc[t] = "forget" /\ at[t] \in Addresses \ open
  BY DEF FinishMetadata, At, MetadataTypes, OpenKept, OpensOrCloses
<1>1. /\ pc' = [pc EXCEPT ![t] = "out"] /\ metadata' = [metadata EXCEPT ![at[t]] = None]
      /\ UNCHANGED <<number, open, dependents, held, at, mine, states>>
  BY <1>0 DEF FinishMetadata, At
<1>2. OneAtATime'
  BY <1>0, <1>1 DEF OneAtATime, OpensOrCloses, MetadataTypes
<1>4. \A u \in Threads : OpensOrCloses(u) => u = t
  BY <1>0 DEF OneAtATime, OpensOrCloses
<1>5. OpenKept'
  BY <1>0, <1>1 DEF OpenKept, OpensOrCloses, MetadataTypes
<1>6. UsersKept'
  BY <1>0, <1>1 DEF UsersKept, MetadataTypes
<1>7. OpenersKept'
  BY <1>0, <1>1, <1>4 DEF OpenersKept, MetadataTypes, OpensOrCloses
<1>. QED  BY <1>1, <1>2, <1>5, <1>6, <1>7 DEF Numbered

-----------------------------------------------------------------------------
(* The theorem.                                                            *)

LEMMA MInvStep ==
  ASSUME NoneApart, ~MayOverlap, MInv, [MetadataNext]_metadataVars PROVE MInv'
<1>1. CASE MetadataNext
  <2>1. MetadataTypes'
    BY <1>1, TypesStep
  <2>. QED
    BY <1>1, <2>1, NewStateKeeps, InitiateMetadataKeeps, RequireStateMutexKeeps, ResetDependentStateKeeps,
       InitStateEndsKeeps, SwapKeeps, FindMutexKeeps, LockKeeps, UnlockKeeps, CloseStateKeeps,
       FinishDependentsKeeps, FinishMetadataKeeps DEF MetadataNext
<1>2. CASE UNCHANGED metadataVars
  BY <1>2 DEF metadataVars, MInv, MetadataTypes, Numbered, OneAtATime, OpenKept, UsersKept, OpenersKept,
              OpensOrCloses
<1>. QED  BY <1>1, <1>2

\* As long as states are opened and closed one at a time, and not while another is
\* (lua_newstate and lua_close of the library), a state is used by one thread at a
\* time, and by each through a dependent state of its own (lock_state,
\* require_dependent_state), however often its address has been used before.
THEOREM StatesStayApart ==
  ASSUME NoneApart, ~MayOverlap PROVE MetadataSpec => []StatesKeptApart
<1>1. MInv => StatesKeptApart
  <2>. SUFFICES ASSUME MInv, NEW t \in Threads, NEW u \in Threads
                PROVE  /\ t # u /\ pc[t] = "inside" /\ pc[u] = "inside" => at[t] # at[u]
                       /\ pc[t] \in {"call", "lock", "inside"} => dependents[t][at[t]] = number[at[t]]
    BY DEF StatesKeptApart
  <2>. QED  BY DEF MInv, UsersKept, Users
<1>. QED  BY <1>1, TypesInit, MInvStep, PTL DEF MetadataSpec

\* "Mutex will automatically deleted when lua_State is closed." (luathread_util.h:22):
\* when states are opened and closed one at a time, not before.
THEOREM MutexStaysUntilClosed ==
  ASSUME NoneApart, ~MayOverlap PROVE MetadataSpec => []MutexUntilClosed
<1>1. MInv => MutexUntilClosed
  BY DEF MInv, OpenKept, MutexUntilClosed
<1>. QED  BY <1>1, TypesInit, MInvStep, PTL DEF MetadataSpec

-----------------------------------------------------------------------------
(***************************************************************************)
(* The counters of calls (LuaCalls).                                       *)
(*                                                                         *)
(* The argument: the C stack of a coroutine that runs is a list of         *)
(* activations, and each of them has its part of the CallInfo list.  With  *)
(* below[j] the length of that list before activation j began, every       *)
(* activation has the frames it should have, was begun by one that begins  *)
(* such a thing, and has saved what the counters were then; where nothing  *)
(* below forbids a yield, every frame can be gone on with after one; and a *)
(* frame in a protected call with a continuation has saved the handler of  *)
(* the frames below it.  So whatever the C stack is cut down to, the       *)
(* values put back are those that the activations left behind add up to.   *)
(***************************************************************************)

Frames == [lua : BOOLEAN, k : BOOLEAN, pcall : BOOLEAN, handler : BOOLEAN, oah : BOOLEAN, old : Nat]

Acts ==
  [kind : {"execute"}, base : Nat] \cup
  [kind : {"body"}, stage : {"entering", "running", "leaving"}] \cup
  [kind : {"hook"}, trace : BOOLEAN] \cup
  [kind : {"call"}, by : {"metamethod", "api", "ypcall", "f_call", "handler"}, noyield : BOOLEAN] \cup
  [kind : {"rawrun"}, of : {"resume", "unroll", "pcall"}, nCcalls : Nat] \cup
  [kind : {"raise"}] \cup
  [kind : {"resume"}, nny : Nat] \cup
  [kind : {"pcall"}, ci : Nat, allowhook : BOOLEAN, nny : Nat, errfunc : Nat, handler : BOOLEAN]

States ==
  [ci : Seq(Frames), cs : Seq(Acts), nCcalls : Nat, nny : Nat, allowhook : BOOLEAN, errfunc : Nat,
   status : {"ok", "yield", "errrun", "errerr"}, lock : Int]

RunsC(a) == a.kind = "hook" \/ (a.kind = "body" /\ a.stage = "running")
RunsHook(a) == a.kind = "hook" /\ a.trace
NoYield(a) == a.kind = "call" /\ a.noyield

\* Of the first j activations.
CallsTo(cs, j) == Cardinality({i \in 1..j : cs[i].kind = "call"})
NoYieldsTo(cs, j) == Cardinality({i \in 1..j : NoYield(cs[i])})
Unhooked(cs, j) == \A i \in 1..j : cs[i].kind # "hook"
Free(cs, j) == \A i \in 1..j : ~NoYield(cs[i])

\* The number of frames while activation j is on top; below[j] is that before it
\* began.
Level(cs, ci, below, j) == IF j < Len(cs) THEN below[j + 1] ELSE Len(ci)

\* A frame that can be gone on with after a yield.
Good(f) == f.lua \/ f.k

\* e is the message handler that the frames up to m give.
FrameHandler(e, ci, m) ==
  \/ (\A i \in 1..m : ~ci[i].pcall) /\ e = 0
  \/ \E i \in 1..m : ci[i].pcall /\ (\A k \in i + 1 .. m : ~ci[k].pcall) /\ e = IF ci[i].handler THEN i ELSE 0

\* e is the message handler of the first j activations and the frames up to m.
HandlerIs(e, cs, ci, j, m) ==
  \/ (\A i \in 1..j : cs[i].kind # "pcall") /\ FrameHandler(e, ci, m)
  \/ \E i \in 1..j : /\ cs[i].kind = "pcall" /\ (\A k \in i + 1 .. j : cs[k].kind # "pcall")
                     /\ e = IF cs[i].handler THEN cs[i].ci ELSE 0

\* The frames of activation j, when lv is the number of frames while it is on top.
FramesOf(cs, ci, below, j, lv) ==
  /\ cs[j].kind = "execute" =>
       /\ cs[j].base = below[j] + 1 /\ cs[j].base <= lv
       /\ \A i \in below[j] + 1 .. lv : ci[i].lua
  /\ cs[j].kind = "body" => lv = below[j] + 1 /\ ~ci[lv].lua
  /\ cs[j].kind \notin {"execute", "body"} => lv = below[j]

\* What it has been begun by.
BegunBy(cs, ci, below, j) ==
  /\ cs[j].kind = "execute" => cs[j - 1].kind \in {"call", "rawrun"}
  /\ cs[j].kind = "body" => cs[j - 1].kind \in {"call", "rawrun", "execute"}
  /\ cs[j].kind = "hook" =>
       \/ cs[j - 1].kind = "execute"
       \/ cs[j - 1].kind = "body" /\ cs[j - 1].stage # "running" /\ ~cs[j].trace
  /\ cs[j].kind = "call" =>
       /\ cs[j].by = "api" => RunsC(cs[j - 1]) /\ (cs[j - 1].kind = "hook" => cs[j].noyield)
       /\ cs[j].by = "ypcall" =>
            /\ cs[j - 1].kind = "body" /\ cs[j - 1].stage = "running" /\ ~cs[j].noyield
            /\ below[j] >= 1 /\ ci[below[j]].pcall
       /\ cs[j].by = "metamethod" => cs[j - 1].kind = "execute"
       /\ cs[j].by = "f_call" => cs[j - 1].kind = "rawrun" /\ cs[j - 1].of = "pcall"
       /\ cs[j].by \in {"f_call", "handler"} => cs[j].noyield
  /\ cs[j].kind = "pcall" => RunsC(cs[j - 1])
  /\ cs[j].kind = "rawrun" => cs[j].of = "pcall" /\ cs[j - 1].kind = "pcall"
  /\ cs[j].kind # "resume"

\* What it has saved to be restored.
Saved(cs, ci, below, j) ==
  /\ cs[j].kind = "hook" => Unhooked(cs, j - 1)
  /\ cs[j].kind = "rawrun" => cs[j].nCcalls = cs[2].nCcalls + CallsTo(cs, j)
  /\ cs[j].kind = "pcall" =>
       /\ cs[j].ci = below[j] /\ cs[j].nny = NoYieldsTo(cs, j) /\ cs[j].allowhook = Unhooked(cs, j)
       /\ HandlerIs(cs[j].errfunc, cs, ci, j - 1, below[j])

\* As long as a yield is possible, whoever called goes on after one.
GoesOn(cs, ci, j, lv) ==
  Free(cs, j) =>
    /\ \A i \in 1 .. lv - 1 : Good(ci[i])
    /\ (j = 2 \/ cs[j].kind \in {"call", "execute"}) /\ lv >= 1 => Good(ci[lv])

Local(cs, ci, below, j, lv) ==
  FramesOf(cs, ci, below, j, lv) /\ BegunBy(cs, ci, below, j) /\ Saved(cs, ci, below, j)

\* What activation j has begun, a; lv is the number of frames meanwhile.
Begins(cs, ci, j, lv, a) ==
  /\ cs[j].kind = "body" /\ ci[lv].pcall => a.kind = "call" /\ a.by = "ypcall"
  /\ cs[j].kind = "hook" => a.kind \in {"pcall", "raise"} \/ NoYield(a)
  /\ cs[j].kind = "pcall" => a.kind = "rawrun"
  /\ cs[j].kind = "rawrun" => NoYield(a)
  /\ cs[j].kind # "raise"

\* And when nothing else has begun.
OnTop(cs, ci) ==
  LET a == cs[Len(cs)] IN a.kind # "pcall" /\ (a.kind = "body" => ~ci[Len(ci)].pcall)

\* A frame in a protected call with a continuation.
FlaggedFrame(cs, ci, i) ==
  ci[i].pcall =>
    /\ ~ci[i].lua /\ ci[i].oah /\ FrameHandler(ci[i].old, ci, i - 1)
    /\ \A k \in 1 .. i - 1 : Good(ci[k])
    /\ \A j \in 1..Len(cs) : cs[j].kind = "pcall" => i < cs[j].ci

Levels(cs, ci, below) ==
  /\ below \in Seq(Nat) /\ Len(below) = Len(cs)
  /\ \A i, j \in 1..Len(cs) : i <= j => below[i] <= below[j]
  /\ below[Len(cs)] <= Len(ci)

Bottom(cs) ==
  /\ Len(cs) >= 2
  /\ cs[1].kind = "resume" /\ cs[1].nny = 1
  /\ cs[2].kind = "rawrun" /\ cs[2].of # "pcall" /\ cs[2].nCcalls >= 1

Places(cs, ci, below) ==
  \A j \in 3..Len(cs) : Local(cs, ci, below, j, Level(cs, ci, below, j))
Neighbours(cs, ci, below) ==
  \A j \in 3..Len(cs) - 1 : Begins(cs, ci, j, below[j + 1], cs[j + 1])
Going(cs, ci, below) ==
  \A j \in 2..Len(cs) : GoesOn(cs, ci, j, Level(cs, ci, below, j))
Flagged(cs, ci) == \A i \in 1..Len(ci) : FlaggedFrame(cs, ci, i)

Joined(cs, ci, below) ==
  /\ Bottom(cs) /\ Levels(cs, ci, below) /\ Places(cs, ci, below) /\ Neighbours(cs, ci, below)
  /\ Going(cs, ci, below) /\ Flagged(cs, ci)

Counted(t) ==
  /\ t.nCcalls = t.cs[2].nCcalls + CallsTo(t.cs, Len(t.cs))
  /\ t.nny = NoYieldsTo(t.cs, Len(t.cs))
  /\ t.allowhook = Unhooked(t.cs, Len(t.cs))
  /\ HandlerIs(t.errfunc, t.cs, t.ci, Len(t.cs), Len(t.ci))

Bound == MaxCCalls + MaxCCalls \div 8
Limits(cs) == \A j \in 2..Len(cs) : cs[j].kind = "rawrun" => cs[j].nCcalls <= Bound

Ready(t, below) == t \in States /\ Joined(t.cs, t.ci, below) /\ Counted(t) /\ Limits(t.cs)

LockKept(t) == t.lock = IF RunsC(t.cs[Len(t.cs)]) THEN 0 ELSE 1
StatusKept(t) ==
  t.status = "ok" \/ (t.status = "yield" /\ RunsHook(t.cs[Len(t.cs)]) /\ t.nny = 0)

RunsFine(t) ==
  /\ \E below \in Seq(Nat) : Ready(t, below)
  /\ OnTop(t.cs, t.ci) /\ t.nCcalls <= Bound /\ LockKept(t) /\ StatusKept(t)

Suspended(t) ==
  /\ t.lock = 0 /\ t.nny = 1 /\ t.nCcalls <= Bound
  /\ t.status \in {"ok", "yield"} =>
       /\ t.allowhook /\ FrameHandler(t.errfunc, t.ci, Len(t.ci))
       /\ \A i \in 1..Len(t.ci) - 1 : Good(t.ci[i])
       /\ Flagged(<<>>, t.ci)
  /\ t.status = "ok" => t.ci = <<>>
  /\ t.status = "yield" => t.ci # <<>> /\ ~t.ci[Len(t.ci)].pcall

Fine(t) ==
  /\ t \in States
  /\ t.cs = <<>> => Suspended(t)
  /\ t.cs # <<>> => RunsFine(t)

-----------------------------------------------------------------------------
(* Counting activations.                                                   *)

LEMMA SubsetCounted ==
  ASSUME NEW n \in Nat, NEW D \in SUBSET (1..n)
  PROVE  IsFiniteSet(D) /\ Cardinality(D) \in Nat
<1>1. IsFiniteSet(1..n)
  BY FS_Interval
<1>2. IsFiniteSet(D)
  BY <1>1, FS_Subset
<1>. QED  BY <1>2, FS_CardinalityType

LEMMA CountsAre ==
  ASSUME NEW cs, NEW j \in Nat
  PROVE  /\ CallsTo(cs, j) \in Nat /\ NoYieldsTo(cs, j) \in Nat
         /\ NoYieldsTo(cs, j) = 0 <=> Free(cs, j)
<1>. DEFINE C == {i \in 1..j : cs[i].kind = "call"}
            N == {i \in 1..j : NoYield(cs[i])}
<1>1. IsFiniteSet(C) /\ Cardinality(C) \in Nat /\ IsFiniteSet(N) /\ Cardinality(N) \in Nat
  BY SubsetCounted
<1>2. Cardinality(N) = 0 <=> N = {}
  BY <1>1, FS_EmptySet
<1>. QED  BY <1>1, <1>2 DEF CallsTo, NoYieldsTo, Free

\* They depend on the activations counted only.
LEMMA CountsSame ==
  ASSUME NEW cs, NEW ds, NEW j \in Nat, \A i \in 1..j : ds[i] = cs[i]
  PROVE  /\ CallsTo(ds, j) = CallsTo(cs, j) /\ NoYieldsTo(ds, j) = NoYieldsTo(cs, j)
         /\ Unhooked(ds, j) = Unhooked(cs, j) /\ Free(ds, j) = Free(cs, j)
<1>1. {i \in 1..j : ds[i].kind = "call"} = {i \in 1..j : cs[i].kind = "call"}
  OBVIOUS
<1>2. {i \in 1..j : NoYield(ds[i])} = {i \in 1..j : NoYield(cs[i])}
  BY DEF NoYield
<1>3. Unhooked(ds, j) = Unhooked(cs, j)
  BY DEF Unhooked
<1>4. Free(ds, j) = Free(cs, j)
  BY DEF Free, NoYield
<1>. QED  BY <1>1, <1>2, <1>3, <1>4 DEF CallsTo, NoYieldsTo

\* Only calls and hooks count.
LEMMA CountsStay ==
  ASSUME NEW cs, NEW k \in Nat, NEW j \in Nat, k <= j,
         \A i \in k + 1 .. j : cs[i].kind \notin {"call", "hook"}
  PROVE  /\ CallsTo(cs, j) = CallsTo(cs, k) /\ NoYieldsTo(cs, j) = NoYieldsTo(cs, k)
         /\ Unhooked(cs, j) = Unhooked(cs, k) /\ Free(cs, j) = Free(cs, k)
<1>0. (\A i \in 1..j : i \in 1..k \/ i \in k + 1 .. j) /\ \A i \in 1..k : i \in 1..j
  OBVIOUS
<1>1. {i \in 1..j : cs[i].kind = "call"} = {i \in 1..k : cs[i].kind = "call"}
  BY <1>0
<1>2. {i \in 1..j : NoYield(cs[i])} = {i \in 1..k : NoYield(cs[i])}
  BY <1>0 DEF NoYield
<1>3. Unhooked(cs, j) = Unhooked(cs, k)
  BY <1>0 DEF Unhooked
<1>4. Free(cs, j) = Free(cs, k)
  BY <1>0 DEF Free, NoYield
<1>. QED  BY <1>1, <1>2, <1>3, <1>4 DEF CallsTo, NoYieldsTo

LEMMA CountsNext ==
  ASSUME NEW cs, NEW j \in Nat \ {0}
  PROVE  /\ CallsTo(cs, j) = CallsTo(cs, j - 1) + IF cs[j].kind = "call" THEN 1 ELSE 0
         /\ NoYieldsTo(cs, j) = NoYieldsTo(cs, j - 1) + IF NoYield(cs[j]) THEN 1 ELSE 0
         /\ Unhooked(cs, j) <=> Unhooked(cs, j - 1) /\ cs[j].kind # "hook"
         /\ Free(cs, j) <=> Free(cs, j - 1) /\ ~NoYield(cs[j])
<1>. DEFINE C(k) == {i \in 1..k : cs[i].kind = "call"}
            N(k) == {i \in 1..k : NoYield(cs[i])}
<1>0. 1..j = (1..j - 1) \cup {j} /\ j \notin 1..j - 1 /\ j - 1 \in Nat
  OBVIOUS
<1>1. C(j) = IF cs[j].kind = "call" THEN C(j - 1) \cup {j} ELSE C(j - 1)
  BY <1>0
<1>2. N(j) = IF NoYield(cs[j]) THEN N(j - 1) \cup {j} ELSE N(j - 1)
  BY <1>0
<1>3. /\ IsFiniteSet(C(j - 1)) /\ Cardinality(C(j - 1)) \in Nat
      /\ IsFiniteSet(N(j - 1)) /\ Cardinality(N(j - 1)) \in Nat
  BY <1>0, SubsetCounted
<1>4. j \notin C(j - 1) /\ j \notin N(j - 1)
  BY <1>0
<1>9. /\ Cardinality(C(j - 1) \cup {j}) = Cardinality(C(j - 1)) + 1
      /\ Cardinality(N(j - 1) \cup {j}) = Cardinality(N(j - 1)) + 1
  BY <1>3, <1>4, FS_AddElement
<1>. HIDE DEF C, N
<1>5. Cardinality(C(j)) = Cardinality(C(j - 1)) + IF cs[j].kind = "call" THEN 1 ELSE 0
  BY <1>1, <1>3, <1>9
<1>6. Cardinality(N(j)) = Cardinality(N(j - 1)) + IF NoYield(cs[j]) THEN 1 ELSE 0
  BY <1>2, <1>3, <1>9
<1>7. Unhooked(cs, j) <=> Unhooked(cs, j - 1) /\ cs[j].kind # "hook"
  BY <1>0 DEF Unhooked
<1>8. Free(cs, j) <=> Free(cs, j - 1) /\ ~NoYield(cs[j])
  BY <1>0 DEF Free
<1>. QED  BY <1>5, <1>6, <1>7, <1>8 DEF CallsTo, NoYieldsTo, C, N

-----------------------------------------------------------------------------
(* What is said of an activation depends on what is below it only.         *)

\* Frames of di are those of ci up to m, but for what a call may set in the frame
\* above low.
Alike(ci, di, low, m) ==
  /\ \A i \in 1..low : di[i].pcall = ci[i].pcall /\ di[i].handler = ci[i].handler
  /\ \A i \in 1..m : di[i].lua = ci[i].lua /\ (Good(ci[i]) => Good(di[i]))

LEMMA FrameHandlerSame ==
  ASSUME NEW e, NEW ci, NEW di, NEW m \in Nat,
         \A i \in 1..m : di[i].pcall = ci[i].pcall /\ di[i].handler = ci[i].handler,
         FrameHandler(e, ci, m)
  PROVE  FrameHandler(e, di, m)
<1>1. CASE (\A i \in 1..m : ~ci[i].pcall) /\ e = 0
  BY <1>1 DEF FrameHandler
<1>2. CASE \E i \in 1..m : ci[i].pcall /\ (\A k \in i + 1 .. m : ~ci[k].pcall) /\ e = IF ci[i].handler THEN i ELSE 0
  <2>1. PICK i \in 1..m : ci[i].pcall /\ (\A k \in i + 1 .. m : ~ci[k].pcall) /\ e = IF ci[i].handler THEN i ELSE 0
    BY <1>2
  <2>2. \A k \in i + 1 .. m : k \in 1..m
    OBVIOUS
  <2>. QED  BY <2>1, <2>2 DEF FrameHandler
<1>. QED  BY <1>1, <1>2 DEF FrameHandler

LEMMA HandlerSame ==
  ASSUME NEW e, NEW cs, NEW ds, NEW ci, NEW di, NEW j \in Nat, NEW m \in Nat,
         \A i \in 1..j : ds[i] = cs[i],
         \A i \in 1..m : di[i].pcall = ci[i].pcall /\ di[i].handler = ci[i].handler,
         HandlerIs(e, cs, ci, j, m)
  PROVE  HandlerIs(e, ds, di, j, m)
<1>1. CASE (\A i \in 1..j : cs[i].kind # "pcall") /\ FrameHandler(e, ci, m)
  BY <1>1, FrameHandlerSame DEF HandlerIs
<1>2. CASE \E i \in 1..j : /\ cs[i].kind = "pcall" /\ (\A k \in i + 1 .. j : cs[k].kind # "pcall")
                          /\ e = IF cs[i].handler THEN cs[i].ci ELSE 0
  <2>1. PICK i \in 1..j : /\ cs[i].kind = "pcall" /\ (\A k \in i + 1 .. j : cs[k].kind # "pcall")
                         /\ e = IF cs[i].handler THEN cs[i].ci ELSE 0
    BY <1>2
  <2>2. \A k \in i + 1 .. j : k \in 1..j
    OBVIOUS
  <2>. QED  BY <2>1, <2>2 DEF HandlerIs
<1>. QED  BY <1>1, <1>2 DEF HandlerIs

LEMMA LocalSame ==
  ASSUME NEW cs, NEW ds, NEW ci, NEW di, NEW below, NEW b, NEW j \in Nat, NEW lv \in Nat,
         j >= 3, \A i \in 1..j : ds[i] = cs[i], b[j] = below[j], below[j] \in Nat, below[j] <= lv,
         Alike(ci, di, below[j], lv), Local(cs, ci, below, j, lv)
  PROVE  Local(ds, di, b, j, lv)
<1>0. ds[j] = cs[j] /\ ds[j - 1] = cs[j - 1] /\ ds[2] = cs[2]
  OBVIOUS
<1>1. FramesOf(ds, di, b, j, lv)
  <2>1. \A i \in below[j] + 1 .. lv : i \in 1..lv
    OBVIOUS
  <2>2. cs[j].kind = "body" => lv \in 1..lv
    BY DEF Local, FramesOf
  <2>. QED  BY <1>0, <2>1, <2>2 DEF Local, FramesOf, Alike
<1>2. BegunBy(ds, di, b, j)
  BY <1>0 DEF Local, BegunBy, Alike
<1>3. Saved(ds, di, b, j)
  <2>1. CallsTo(ds, j) = CallsTo(cs, j) /\ NoYieldsTo(ds, j) = NoYieldsTo(cs, j) /\ Unhooked(ds, j) = Unhooked(cs, j)
    BY CountsSame
  <2>4. Unhooked(ds, j - 1) = Unhooked(cs, j - 1)
    BY DEF Unhooked
  <2>2. cs[j].kind = "pcall" => HandlerIs(cs[j].errfunc, cs, ci, j - 1, below[j])
    BY DEF Local, Saved
  <2>3. cs[j].kind = "pcall" => HandlerIs(cs[j].errfunc, ds, di, j - 1, below[j])
    <3>1. j - 1 \in Nat /\ \A i \in 1..j - 1 : ds[i] = cs[i]
      OBVIOUS
    <3>. QED  BY <2>2, <3>1, HandlerSame DEF Alike
  <2>. QED  BY <1>0, <2>1, <2>3, <2>4 DEF Local, Saved
<1>. QED  BY <1>1, <1>2, <1>3 DEF Local

LEMMA GoesOnSame ==
  ASSUME NEW cs, NEW ds, NEW ci, NEW di, NEW j \in Nat, NEW lv \in Nat,
         j >= 2, \A i \in 1..j : ds[i] = cs[i], \A i \in 1..lv : Good(ci[i]) => Good(di[i]),
         GoesOn(cs, ci, j, lv)
  PROVE  GoesOn(ds, di, j, lv)
<1>1. Free(ds, j) = Free(cs, j) /\ ds[j] = cs[j]
  BY CountsSame
<1>2. \A i \in 1 .. lv - 1 : i \in 1..lv
  OBVIOUS
<1>. QED  BY <1>1, <1>2 DEF GoesOn

\* The first k activations stay, and those above them fit.
LEMMA Assemble ==
  ASSUME NEW cs, NEW ds, NEW ci, NEW di, NEW below, NEW b, NEW k \in Nat,
         Joined(cs, ci, below), k >= 2, k <= Len(cs), Len(cs) \in Nat, k <= Len(ds), Len(ds) \in Nat,
         \A i \in 1..k : ds[i] = cs[i] /\ b[i] = below[i],
         Alike(ci, di, below[k], below[k]), Levels(ds, di, b),
         \A j \in k..Len(ds) : j >= 3 => Local(ds, di, b, j, Level(ds, di, b, j)),
         \A j \in k..Len(ds) - 1 : j >= 3 => Begins(ds, di, j, b[j + 1], ds[j + 1]),
         \A j \in k..Len(ds) : GoesOn(ds, di, j, Level(ds, di, b, j)),
         Flagged(ds, di)
  PROVE  Joined(ds, di, b)
<1>1. /\ below \in Seq(Nat) /\ Len(below) = Len(cs)
      /\ \A i, j \in 1..Len(cs) : i <= j => below[i] <= below[j]
      /\ Bottom(cs)
  BY DEF Joined, Levels
<1>2. Bottom(ds)
  BY <1>1 DEF Bottom
<1>3. ASSUME NEW j \in Nat, 2 <= j, j <= k - 1
      PROVE  /\ Level(cs, ci, below, j) = below[j + 1] /\ Level(ds, di, b, j) = below[j + 1]
             /\ b[j + 1] = below[j + 1] /\ b[j] = below[j] /\ ds[j] = cs[j] /\ ds[j + 1] = cs[j + 1]
             /\ below[j] \in Nat /\ below[j + 1] \in Nat /\ below[j] <= below[j + 1]
             /\ below[j + 1] <= below[k] /\ below[k] \in Nat
             /\ Alike(ci, di, below[j], below[j + 1])
             /\ \A i \in 1..j : ds[i] = cs[i]
  <2>1. j \in 1..Len(cs) /\ j + 1 \in 1..Len(cs) /\ j + 1 \in 1..k /\ j \in 1..k /\ k \in 1..Len(cs)
    BY <1>3
  <2>2. /\ below[j] \in Nat /\ below[j + 1] \in Nat /\ below[j] <= below[j + 1]
        /\ below[j + 1] <= below[k] /\ below[k] \in Nat
    BY <1>1, <1>3, <2>1, SMTT(45)
  <2>3. Alike(ci, di, below[j], below[j + 1])
    BY <2>2, SMTT(45) DEF Alike
  <2>4. Level(cs, ci, below, j) = below[j + 1] /\ Level(ds, di, b, j) = below[j + 1]
    BY <1>3, <2>1 DEF Level
  <2>. QED  BY <1>3, <2>1, <2>2, <2>3, <2>4
<1>4. ASSUME NEW j \in Nat, 3 <= j, j <= k - 1
      PROVE  Local(ds, di, b, j, Level(ds, di, b, j)) /\ Begins(ds, di, j, b[j + 1], ds[j + 1])
  <2>1. j \in 3..Len(cs) /\ j \in 3..Len(cs) - 1
    BY <1>4
  <2>2. Local(cs, ci, below, j, below[j + 1]) /\ Begins(cs, ci, j, below[j + 1], cs[j + 1])
    BY <1>3, <1>4, <2>1 DEF Joined, Places, Neighbours
  <2>3. Local(ds, di, b, j, below[j + 1])
    BY <1>3, <1>4, <2>2, LocalSame
  <2>4. Begins(ds, di, j, b[j + 1], ds[j + 1])
    <3>1. cs[j].kind = "body" => below[j + 1] \in 1..below[k]
      BY <1>3, <1>4, <2>2 DEF Local, FramesOf
    <3>. QED  BY <1>3, <1>4, <2>2, <3>1 DEF Begins, Alike
  <2>. QED  BY <1>3, <1>4, <2>3, <2>4
<1>5. ASSUME NEW j \in Nat, 2 <= j, j <= k - 1
      PROVE  GoesOn(ds, di, j, Level(ds, di, b, j))
  <2>1. GoesOn(cs, ci, j, below[j + 1])
    BY <1>3, <1>5 DEF Joined, Going
  <2>2. \A i \in 1..below[j + 1] : Good(ci[i]) => Good(di[i])
    BY <1>3, <1>5 DEF Alike
  <2>3. GoesOn(ds, di, j, below[j + 1])
    <3>. DEFINE lv == below[j + 1]
    <3>1. /\ \A i \in 1..j : ds[i] = cs[i]
          /\ lv \in Nat
      BY <1>3, <1>5
    <3>2. GoesOn(cs, ci, j, lv) /\ \A i \in 1..lv : Good(ci[i]) => Good(di[i])
      BY <2>1, <2>2
    <3>. HIDE DEF lv
    <3>3. GoesOn(ds, di, j, lv)
      BY <1>5, <3>1, <3>2, GoesOnSame
    <3>. QED  BY <3>3 DEF lv
  <2>. QED  BY <1>3, <1>5, <2>3
<1>6. Places(ds, di, b)
  BY <1>4 DEF Places
<1>7. Neighbours(ds, di, b)
  BY <1>4 DEF Neighbours
<1>8. Going(ds, di, b)
  BY <1>5 DEF Going
<1>. QED  BY <1>2, <1>6, <1>7, <1>8 DEF Joined

LEMMA PushJoined ==
  ASSUME NEW cs \in Seq(Acts), NEW ci \in Seq(Frames), NEW di \in Seq(Frames), NEW below,
         NEW a \in Acts, NEW m \in Nat,
         Joined(cs, ci, below), m <= Len(ci), m <= Len(di), m = Len(ci) \/ Len(cs) = 2, below[Len(cs)] <= m,
         Alike(ci, di, below[Len(cs)], m),
         Local(Append(cs, a), di, Append(below, m), Len(cs) + 1, Len(di)),
         Len(cs) >= 3 => Begins(cs, di, Len(cs), m, a),
         GoesOn(Append(cs, a), di, Len(cs) + 1, Len(di)),
         Flagged(Append(cs, a), di)
  PROVE  Joined(Append(cs, a), di, Append(below, m))
<1>. DEFINE n == Len(cs)
            ds == Append(cs, a)
            b == Append(below, m)
<1>1. /\ below \in Seq(Nat) /\ Len(below) = n /\ n \in Nat /\ n >= 2
      /\ \A i, j \in 1..n : i <= j => below[i] <= below[j]
      /\ below[n] \in Nat
  BY DEF Joined, Levels, Bottom
<1>2. Len(ds) = n + 1 /\ Len(b) = n + 1 /\ b \in Seq(Nat) /\ ds[n + 1] = a /\ b[n + 1] = m
  BY <1>1
<1>3. \A i \in 1..n : ds[i] = cs[i] /\ b[i] = below[i]
  BY <1>1
<1>. HIDE DEF ds, b
<1>4. Levels(ds, di, b)
  <2>1. \A i \in 1..n : b[i] <= m
    BY <1>1, <1>3, SMTT(45)
  <2>2. ASSUME NEW i \in 1..n + 1, NEW j \in 1..n + 1, i <= j PROVE b[i] <= b[j]
    <3>1. CASE j = n + 1
      <4>1. i = n + 1 \/ i \in 1..n
        BY <1>1
      <4>. QED  BY <1>2, <2>1, <3>1, <4>1
    <3>2. CASE j # n + 1
      <4>1. i \in 1..n /\ j \in 1..n
        <5>1. n \in Nat
          BY <1>1
        <5>. HIDE DEF n
        <5>. QED  BY <2>2, <3>2, <5>1
      <4>. QED  BY <1>1, <1>3, <2>2, <4>1
    <3>. QED  BY <3>1, <3>2
  <2>. QED  BY <1>1, <1>2, <2>2 DEF Levels
<1>5. Level(ds, di, b, n) = m /\ Level(ds, di, b, n + 1) = Len(di)
  BY <1>1, <1>2, SMTT(45) DEF Level
<1>6. Alike(ci, di, below[n], below[n])
  BY <1>1, SMTT(45) DEF Alike
<1>7. n >= 3 => Local(ds, di, b, n, m)
  <2>. SUFFICES ASSUME n >= 3 PROVE Local(ds, di, b, n, m)
    OBVIOUS
  <2>0. n \in 3..Len(cs) /\ Level(cs, ci, below, n) = m
    <3>1. n \in Nat /\ n = Len(cs) /\ n # 2
      <4>1. n \in Nat /\ n = Len(cs)
        BY <1>1
      <4>. HIDE DEF n
      <4>. QED  BY <4>1
    <3>2. Level(cs, ci, below, n) = Len(ci)
      BY DEF Level
    <3>. HIDE DEF n
    <3>. QED  BY <3>1, <3>2
  <2>1. Local(cs, ci, below, n, m)
    BY <2>0 DEF Joined, Places
  <2>2. b[n] = below[n] /\ \A i \in 1..n : ds[i] = cs[i]
    <3>1. n \in 1..n
      BY <1>1
    <3>. HIDE DEF n
    <3>. QED  BY <1>3, <3>1
  <2>. QED  BY <1>1, <2>1, <2>2, LocalSame
<1>8. n >= 3 => Begins(ds, di, n, b[n + 1], ds[n + 1])
  <2>1. ds[n] = cs[n]
    BY <1>1, <1>3
  <2>. QED  BY <1>2, <2>1 DEF Begins
<1>9. GoesOn(ds, di, n, m)
  <2>1. GoesOn(cs, ci, n, Len(ci))
    BY <1>1, SMTT(45) DEF Joined, Going, Level
  <2>2. GoesOn(cs, ci, n, m)
    <3>1. n = 2 => \A i \in 1..Len(ci) : i = Len(ci) \/ i \in 1..Len(ci) - 1
      OBVIOUS
    <3>. QED  BY <2>1, <3>1 DEF GoesOn
  <2>3. \A i \in 1..m : Good(ci[i]) => Good(di[i])
    BY DEF Alike
  <2>. QED  BY <1>1, <1>3, <2>2, <2>3, GoesOnSame
<1>10. ASSUME NEW j \in n..Len(ds)
       PROVE  (j >= 3 => Local(ds, di, b, j, Level(ds, di, b, j))) /\ GoesOn(ds, di, j, Level(ds, di, b, j))
  <2>1. j = n \/ j = n + 1
    BY <1>1, <1>2
  <2>2. Local(ds, di, b, n + 1, Len(di)) /\ GoesOn(ds, di, n + 1, Len(di))
    BY DEF ds, b
  <2>. QED  BY <1>5, <1>7, <1>9, <2>1, <2>2
<1>11. \A j \in n..Len(ds) - 1 : j >= 3 => Begins(ds, di, j, b[j + 1], ds[j + 1])
  BY <1>1, <1>2, <1>8, SMTT(45)
<1>12. Flagged(ds, di)
  BY DEF ds
<1>13. Joined(ds, di, b)
  <2>1. n \in Nat /\ n >= 2 /\ n <= Len(cs) /\ n <= Len(ds) /\ Len(ds) \in Nat /\ Len(cs) \in Nat
    BY <1>1, <1>2
  <2>. HIDE DEF n
  <2>. QED  BY <1>3, <1>4, <1>6, <1>10, <1>11, <1>12, <2>1, Assemble
<1>. QED  BY <1>13 DEF ds, b

\* What Joined says of the top, and of what is under it.
LEMMA TopJoined ==
  ASSUME NEW cs \in Seq(Acts), NEW ci \in Seq(Frames), NEW below, NEW n, n = Len(cs), NEW l, l = Len(ci),
         Joined(cs, ci, below)
  PROVE  /\ n \in Nat /\ n >= 2 /\ l \in Nat /\ below[n] \in Nat /\ below[n] <= l
         /\ n >= 3 => Local(cs, ci, below, n, l)
         /\ GoesOn(cs, ci, n, l)
         /\ below \in Seq(Nat) /\ Len(below) = n
<1>1. n \in Nat /\ n >= 2 /\ l \in Nat /\ below \in Seq(Nat) /\ Len(below) = n /\ below[Len(cs)] <= Len(ci)
  BY DEF Joined, Bottom, Levels
<1>2. Level(cs, ci, below, n) = l
  BY DEF Level
<1>3. GoesOn(cs, ci, n, l)
  <2>1. n \in 2..Len(cs)
    BY <1>1
  <2>. QED  BY <1>2, <2>1 DEF Joined, Going
<1>4. n >= 3 => Local(cs, ci, below, n, l)
  <2>1. n >= 3 => n \in 3..Len(cs)
    BY <1>1
  <2>. QED  BY <1>2, <2>1 DEF Joined, Places
<1>. QED  BY <1>1, <1>3, <1>4

LEMMA UnderJoined ==
  ASSUME NEW cs \in Seq(Acts), NEW ci \in Seq(Frames), NEW below, NEW k \in Nat,
         Joined(cs, ci, below), 2 <= k, k < Len(cs)
  PROVE  /\ below[k] \in Nat /\ below[k + 1] \in Nat /\ below[k] <= below[k + 1] /\ below[k + 1] <= Len(ci)
         /\ k >= 3 => Local(cs, ci, below, k, below[k + 1]) /\ Begins(cs, ci, k, below[k + 1], cs[k + 1])
         /\ GoesOn(cs, ci, k, below[k + 1])
<1>. DEFINE n == Len(cs)
            l == Len(ci)
<1>1. /\ n \in Nat /\ l \in Nat /\ below \in Seq(Nat) /\ Len(below) = n /\ below[n] <= l
      /\ \A i, j \in 1..n : i <= j => below[i] <= below[j]
  BY DEF Joined, Levels
<1>2. k < n /\ Level(cs, ci, below, k) = below[k + 1]
  BY DEF Level
<1>3. GoesOn(cs, ci, k, below[k + 1])
  BY <1>2 DEF Joined, Going
<1>4. k >= 3 => Local(cs, ci, below, k, below[k + 1]) /\ Begins(cs, ci, k, below[k + 1], cs[k + 1])
  BY <1>2 DEF Joined, Places, Neighbours
<1>. HIDE DEF n, l
<1>5. k \in 1..n /\ k + 1 \in 1..n /\ n \in 1..n
  BY <1>1, <1>2
<1>6. below[k] \in Nat /\ below[k + 1] \in Nat /\ below[n] \in Nat /\ below[k] <= below[k + 1] /\ below[k + 1] <= below[n]
  BY <1>1, <1>2, <1>5
<1>7. below[k + 1] <= l
  BY <1>1, <1>6
<1>. QED  BY <1>3, <1>4, <1>6, <1>7 DEF l

\* The top changes, and the frames it has.
LEMMA ChangeJoined ==
  ASSUME NEW cs \in Seq(Acts), NEW ci \in Seq(Frames), NEW di \in Seq(Frames), NEW below,
         NEW ds \in Seq(Acts), NEW n, n = Len(cs), Len(ds) = n,
         Joined(cs, ci, below), n >= 3,
         \A i \in 1..n - 1 : ds[i] = cs[i],
         below[n] <= Len(di), Alike(ci, di, below[n], below[n]),
         Local(ds, di, below, n, Len(di)),
         n >= 4 => Begins(cs, di, n - 1, below[n], ds[n]),
         GoesOn(ds, di, n, Len(di)), Flagged(ds, di)
  PROVE  Joined(ds, di, below)
<1>. DEFINE k == n - 1
<1>1. n \in Nat /\ k \in Nat /\ k >= 2 /\ k < n /\ k + 1 = n
  BY DEF Joined, Bottom
<1>2. /\ below \in Seq(Nat) /\ Len(below) = n /\ \A i, j \in 1..n : i <= j => below[i] <= below[j]
  BY DEF Joined, Levels
<1>3. /\ below[k] \in Nat /\ below[n] \in Nat /\ below[k] <= below[n]
      /\ k >= 3 => Local(cs, ci, below, k, below[n])
      /\ GoesOn(cs, ci, k, below[n])
  BY <1>1, UnderJoined, ZenonT(45)
<1>4. Levels(ds, di, below)
  BY <1>2 DEF Levels
<1>5. \A i \in 1..k : ds[i] = cs[i] /\ below[i] = below[i]
  OBVIOUS
<1>6. Level(ds, di, below, k) = below[n] /\ Level(ds, di, below, n) = Len(di)
  BY <1>1 DEF Level
<1>. HIDE DEF k
<1>7. k >= 3 => Local(ds, di, below, k, below[n])
  <2>1. Alike(ci, di, below[k], below[n])
    BY <1>3 DEF Alike
  <2>. DEFINE lv == below[n]
  <2>2. lv \in Nat /\ below[k] <= lv /\ Alike(ci, di, below[k], lv) /\ (k >= 3 => Local(cs, ci, below, k, lv))
    BY <1>3, <2>1
  <2>. HIDE DEF lv
  <2>3. k >= 3 => Local(ds, di, below, k, lv)
    BY <1>1, <1>3, <1>5, <2>2, LocalSame
  <2>. QED  BY <2>3 DEF lv
<1>8. GoesOn(ds, di, k, below[n])
  <2>. DEFINE lv == below[n]
  <2>1. lv \in Nat /\ GoesOn(cs, ci, k, lv) /\ \A i \in 1..lv : Good(ci[i]) => Good(di[i])
    BY <1>3 DEF Alike
  <2>. HIDE DEF lv
  <2>2. GoesOn(ds, di, k, lv)
    BY <1>1, <1>5, <2>1, GoesOnSame
  <2>. QED  BY <2>2 DEF lv
<1>9. k >= 3 => Begins(ds, di, k, below[n], ds[n])
  <2>1. k >= 3 => n >= 4 /\ k = n - 1 /\ ds[k] = cs[k]
    BY <1>1, <1>5 DEF k
  <2>. QED  BY <2>1 DEF Begins
<1>10. ASSUME NEW j \in k..Len(ds)
       PROVE  (j >= 3 => Local(ds, di, below, j, Level(ds, di, below, j))) /\ GoesOn(ds, di, j, Level(ds, di, below, j))
  <2>1. j = k \/ j = n
    BY <1>1
  <2>2. Local(ds, di, below, n, Len(di)) /\ GoesOn(ds, di, n, Len(di))
    OBVIOUS
  <2>. QED  BY <1>6, <1>7, <1>8, <2>1, <2>2
<1>11. \A j \in k..Len(ds) - 1 : j >= 3 => Begins(ds, di, j, below[j + 1], ds[j + 1])
  <2>1. \A j \in k..Len(ds) - 1 : j = k /\ j + 1 = n
    BY <1>1
  <2>. QED  BY <1>9, <2>1
<1>12. Alike(ci, di, below[k], below[k])
  BY <1>3 DEF Alike
<1>13. k <= Len(cs) /\ k <= Len(ds) /\ Len(cs) \in Nat /\ Len(ds) \in Nat
  BY <1>1
<1>. QED  BY <1>1, <1>4, <1>5, <1>10, <1>11, <1>12, <1>13, Assemble

\* The stacks are cut down to where activation k is on top.
LEMMA CutJoined ==
  ASSUME NEW cs \in Seq(Acts), NEW ci \in Seq(Frames), NEW di \in Seq(Frames), NEW below,
         NEW ds \in Seq(Acts), NEW k \in Nat, 2 <= k, k < Len(cs), Joined(cs, ci, below),
         Len(ds) = k, \A i \in 1..k : ds[i] = cs[i],
         Len(di) = below[k + 1], Alike(ci, di, below[k], below[k + 1]),
         Flagged(ds, di)
  PROVE  /\ SubSeq(below, 1, k) \in Seq(Nat)
         /\ Joined(ds, di, SubSeq(below, 1, k))
<1>. DEFINE n == Len(cs)
            b == SubSeq(below, 1, k)
            lv == below[k + 1]
<1>1. /\ n \in Nat /\ below \in Seq(Nat) /\ Len(below) = n /\ \A i, j \in 1..n : i <= j => below[i] <= below[j]
  BY DEF Joined, Levels
<1>2. /\ below[k] \in Nat /\ lv \in Nat /\ below[k] <= lv
      /\ k >= 3 => Local(cs, ci, below, k, lv)
      /\ GoesOn(cs, ci, k, lv)
  BY UnderJoined
<1>3. b \in Seq(Nat) /\ Len(b) = k /\ \A i \in 1..k : b[i] = below[i]
  BY <1>1, SMTT(45)
<1>. HIDE DEF b, lv
<1>4. Levels(ds, di, b)
  <2>1. \A i \in 1..k : i \in 1..n
    BY <1>1
  <2>2. \A i, j \in 1..k : i <= j => b[i] <= b[j]
    BY <1>1, <1>3, <2>1
  <2>3. b[k] <= Len(di)
    BY <1>2, <1>3 DEF lv
  <2>. QED  BY <1>3, <2>2, <2>3 DEF Levels
<1>5. Level(ds, di, b, k) = lv
  BY DEF Level, lv
<1>6. Alike(ci, di, below[k], lv) /\ Alike(ci, di, below[k], below[k])
  BY <1>2 DEF Alike, lv
<1>7. k >= 3 => Local(ds, di, b, k, lv)
  <2>1. b[k] = below[k]
    BY <1>3
  <2>. QED  BY <1>2, <1>6, <2>1, LocalSame
<1>8. GoesOn(ds, di, k, lv)
  <2>1. \A i \in 1..lv : Good(ci[i]) => Good(di[i])
    BY <1>6 DEF Alike
  <2>. QED  BY <1>2, <2>1, GoesOnSame
<1>9. \A j \in k..Len(ds) : j = k
  OBVIOUS
<1>10. \A i \in 1..k : ds[i] = cs[i] /\ b[i] = below[i]
  BY <1>3
<1>11. /\ \A j \in k..Len(ds) : j >= 3 => Local(ds, di, b, j, Level(ds, di, b, j))
       /\ \A j \in k..Len(ds) : GoesOn(ds, di, j, Level(ds, di, b, j))
  BY <1>5, <1>7, <1>8, <1>9
<1>12. \A j \in k..Len(ds) - 1 : j >= 3 => Begins(ds, di, j, b[j + 1], ds[j + 1])
  OBVIOUS
<1>13. k <= Len(cs) /\ k <= Len(ds) /\ Len(cs) \in Nat /\ Len(ds) \in Nat
  BY <1>1
<1>14. Joined(ds, di, b)
  BY <1>4, <1>6, <1>10, <1>11, <1>12, <1>13, Assemble
<1>. QED  BY <1>3, <1>14 DEF b

-----------------------------------------------------------------------------
(* The message handler.                                                     *)

\* It is that of the first r frames, if no other has one.
LEMMA FrameHandlerMoves ==
  ASSUME NEW e, NEW ci, NEW di, NEW r \in Nat, NEW m \in Nat, NEW p \in Nat, r <= m, r <= p,
         \A i \in 1..r : di[i].pcall = ci[i].pcall /\ di[i].handler = ci[i].handler,
         \A i \in r + 1 .. m : ~ci[i].pcall, \A i \in r + 1 .. p : ~di[i].pcall,
         FrameHandler(e, ci, m)
  PROVE  FrameHandler(e, di, p)
<1>0. /\ \A i \in 1..p : i \in 1..r \/ i \in r + 1 .. p
      /\ \A i \in 1..m : i \in 1..r \/ i \in r + 1 .. m
      /\ \A i \in 1..r : i \in 1..m /\ i \in 1..p
  OBVIOUS
<1>1. CASE (\A i \in 1..m : ~ci[i].pcall) /\ e = 0
  <2>1. \A i \in 1..p : ~di[i].pcall
    BY <1>0, <1>1
  <2>. QED  BY <1>1, <2>1 DEF FrameHandler
<1>2. CASE \E i \in 1..m : ci[i].pcall /\ (\A k \in i + 1 .. m : ~ci[k].pcall) /\ e = IF ci[i].handler THEN i ELSE 0
  <2>1. PICK i \in 1..m : ci[i].pcall /\ (\A k \in i + 1 .. m : ~ci[k].pcall) /\ e = IF ci[i].handler THEN i ELSE 0
    BY <1>2
  <2>2. i \in 1..r /\ i \in 1..p
    BY <1>0, <2>1
  <2>3. \A k \in i + 1 .. p : ~di[k].pcall
    <3>1. \A k \in i + 1 .. p : k \in r + 1 .. p \/ (k \in 1..r /\ k \in i + 1 .. m)
      BY <2>2
    <3>. QED  BY <2>1, <3>1
  <2>4. di[i].pcall /\ e = IF di[i].handler THEN i ELSE 0
    BY <2>1, <2>2
  <2>. QED  BY <2>2, <2>3, <2>4 DEF FrameHandler
<1>. QED  BY <1>1, <1>2 DEF FrameHandler

\* It is that of the first q activations and r frames, if no other has one.
LEMMA HandlerMoves ==
  ASSUME NEW e, NEW cs, NEW ds, NEW ci, NEW di,
         NEW q \in Nat, NEW j \in Nat, NEW k \in Nat, q <= j, q <= k,
         \A i \in 1..q : ds[i] = cs[i],
         \A i \in q + 1 .. j : cs[i].kind # "pcall", \A i \in q + 1 .. k : ds[i].kind # "pcall",
         NEW r \in Nat, NEW m \in Nat, NEW p \in Nat, r <= m, r <= p,
         \A i \in 1..r : di[i].pcall = ci[i].pcall /\ di[i].handler = ci[i].handler,
         \A i \in r + 1 .. m : ~ci[i].pcall, \A i \in r + 1 .. p : ~di[i].pcall,
         HandlerIs(e, cs, ci, j, m)
  PROVE  HandlerIs(e, ds, di, k, p)
<1>0. /\ \A i \in 1..k : i \in 1..q \/ i \in q + 1 .. k
      /\ \A i \in 1..j : i \in 1..q \/ i \in q + 1 .. j
      /\ \A i \in 1..q : i \in 1..j /\ i \in 1..k
  OBVIOUS
<1>1. CASE (\A i \in 1..j : cs[i].kind # "pcall") /\ FrameHandler(e, ci, m)
  <2>1. \A i \in 1..k : ds[i].kind # "pcall"
    BY <1>0, <1>1
  <2>2. FrameHandler(e, di, p)
    BY <1>1, FrameHandlerMoves
  <2>. QED  BY <2>1, <2>2 DEF HandlerIs
<1>2. CASE \E i \in 1..j : /\ cs[i].kind = "pcall" /\ (\A h \in i + 1 .. j : cs[h].kind # "pcall")
                          /\ e = IF cs[i].handler THEN cs[i].ci ELSE 0
  <2>1. PICK i \in 1..j : /\ cs[i].kind = "pcall" /\ (\A h \in i + 1 .. j : cs[h].kind # "pcall")
                         /\ e = IF cs[i].handler THEN cs[i].ci ELSE 0
    BY <1>2
  <2>2. i \in 1..q /\ i \in 1..k
    BY <1>0, <2>1
  <2>3. \A h \in i + 1 .. k : ds[h].kind # "pcall"
    <3>1. \A h \in i + 1 .. k : h \in q + 1 .. k \/ (h \in 1..q /\ h \in i + 1 .. j)
      BY <2>2
    <3>. QED  BY <2>1, <3>1
  <2>4. ds[i].kind = "pcall" /\ e = IF ds[i].handler THEN ds[i].ci ELSE 0
    BY <2>1, <2>2
  <2>. QED  BY <2>2, <2>3, <2>4 DEF HandlerIs
<1>. QED  BY <1>1, <1>2 DEF HandlerIs

-----------------------------------------------------------------------------
(* Where a yield is possible, and where functions run.                      *)

\* Where a yield is possible, no hook and no protected call is under way in C.
LEMMA FreeMeans ==
  ASSUME NEW cs \in Seq(Acts), NEW ci \in Seq(Frames), NEW below, NEW n, n = Len(cs),
         Joined(cs, ci, below), Free(cs, n), cs[n].kind \in {"body", "execute"}
  PROVE  \A j \in 1..n : cs[j].kind \notin {"hook", "pcall"} /\ (cs[j].kind = "rawrun" => j = 2)
<1>1. n \in Nat /\ n >= 2 /\ cs[1].kind = "resume" /\ cs[2].kind = "rawrun"
  BY DEF Joined, Bottom
<1>2. ASSUME NEW j \in Nat, 3 <= j, j < n
      PROVE  Begins(cs, ci, j, below[j + 1], cs[j + 1]) /\ ~NoYield(cs[j + 1])
  <2>1. 2 <= j /\ j < Len(cs) /\ j + 1 \in 1..n
    BY <1>1, <1>2
  <2>2. Begins(cs, ci, j, below[j + 1], cs[j + 1])
    BY <1>2, <2>1, UnderJoined
  <2>. QED  BY <2>1, <2>2 DEF Free
<1>3. ASSUME NEW j \in Nat, 3 <= j, j < n PROVE cs[j].kind \notin {"rawrun", "raise"}
  BY <1>2, <1>3 DEF Begins
<1>4. ASSUME NEW j \in Nat, 3 <= j, j < n PROVE cs[j].kind # "pcall"
  <2>1. SUFFICES ASSUME cs[j].kind = "pcall" PROVE FALSE
    OBVIOUS
  <2>2. cs[j + 1].kind = "rawrun"
    BY <1>2, <1>4, <2>1 DEF Begins
  <2>3. j + 1 # n
    BY <2>2
  <2>4. j + 1 \in Nat /\ 3 <= j + 1 /\ j + 1 < n
    BY <1>1, <1>4, <2>3
  <2>. QED  BY <1>3, <2>2, <2>4
<1>5. ASSUME NEW j \in Nat, 3 <= j, j < n PROVE cs[j].kind # "hook"
  <2>1. SUFFICES ASSUME cs[j].kind = "hook" PROVE FALSE
    OBVIOUS
  <2>2. cs[j + 1].kind \in {"pcall", "raise"}
    BY <1>2, <1>5, <2>1 DEF Begins
  <2>3. j + 1 # n
    BY <2>2
  <2>4. j + 1 \in Nat /\ 3 <= j + 1 /\ j + 1 < n
    BY <1>1, <1>5, <2>3
  <2>. QED  BY <1>3, <1>4, <2>2, <2>4
<1>6. \A j \in 1..n : j = 1 \/ j = 2 \/ j = n \/ (j \in Nat /\ 3 <= j /\ j < n)
  BY <1>1
<1>. QED  BY <1>1, <1>3, <1>4, <1>5, <1>6

\* A C function or hook that runs is not called under protection on top of it.
LEMMA TopUnflagged ==
  ASSUME NEW cs \in Seq(Acts), NEW ci \in Seq(Frames), NEW below, NEW n, n = Len(cs), NEW l, l = Len(ci),
         Joined(cs, ci, below), OnTop(cs, ci), cs[n].kind \in {"body", "hook"}
  PROVE  /\ n >= 3 /\ l \in Nat /\ l >= 1 /\ ~ci[l].pcall
         /\ cs[n].kind = "body" => ~ci[l].lua /\ below[n] = l - 1
         /\ cs[n].kind = "hook" => below[n] = l
<1>1. /\ n \in Nat /\ n >= 2 /\ l \in Nat /\ below[n] \in Nat
      /\ n >= 3 => Local(cs, ci, below, n, l)
  BY TopJoined
<1>2. n # 2
  BY DEF Joined, Bottom
<1>3. n >= 3 /\ Local(cs, ci, below, n, l)
  BY <1>1, <1>2
<1>4. CASE cs[n].kind = "body"
  <2>1. l = below[n] + 1 /\ ~ci[l].lua
    BY <1>3, <1>4 DEF Local, FramesOf
  <2>2. ~ci[l].pcall
    BY <1>4 DEF OnTop
  <2>. QED  BY <1>1, <1>3, <1>4, <2>1, <2>2
<1>5. CASE cs[n].kind = "hook"
  <2>. DEFINE k == n - 1
  <2>1. below[n] = l /\ cs[k].kind \in {"execute", "body"}
    BY <1>3, <1>5 DEF Local, FramesOf, BegunBy
  <2>2. k \in Nat /\ 2 <= k /\ k < Len(cs) /\ k + 1 = n
    BY <1>1, <1>3
  <2>3. k # 2
    BY <2>1 DEF Joined, Bottom
  <2>. HIDE DEF k
  <2>4. k >= 3 /\ below[k] \in Nat /\ Local(cs, ci, below, k, l) /\ Begins(cs, ci, k, l, cs[n])
    <3>1. k >= 3 /\ below[k + 1] = l /\ cs[k + 1] = cs[n]
      BY <2>1, <2>2, <2>3
    <3>2. /\ below[k] \in Nat /\ Local(cs, ci, below, k, below[k + 1])
          /\ Begins(cs, ci, k, below[k + 1], cs[k + 1])
      BY <2>2, <3>1, UnderJoined
    <3>. QED  BY <3>1, <3>2
  <2>5. l >= 1 /\ (cs[k].kind = "execute" => ci[l].lua)
    BY <1>1, <2>1, <2>4 DEF Local, FramesOf
  <2>6. ci[l].pcall => ~ci[l].lua
    BY <1>1, <2>5 DEF Joined, Flagged, FlaggedFrame
  <2>7. ~ci[l].pcall
    BY <1>5, <2>1, <2>4, <2>5, <2>6 DEF Begins
  <2>. QED  BY <1>1, <1>3, <1>5, <2>1, <2>5, <2>7
<1>. QED  BY <1>4, <1>5

-----------------------------------------------------------------------------
(* lua_resume begins or goes on.                                            *)

LEMMA BaseJoined ==
  ASSUME NEW c1 \in Acts, NEW c2 \in Acts, c1.kind = "resume", c1.nny = 1,
         c2.kind = "rawrun", c2.of # "pcall", c2.nCcalls >= 1,
         NEW ci \in Seq(Frames), \A i \in 1..Len(ci) : Good(ci[i]), Flagged(<<>>, ci)
  PROVE  Joined(<<c1, c2>>, ci, <<0, 0>>)
<1>. DEFINE cs == <<c1, c2>>
            b == <<0, 0>>
<1>1. Len(cs) = 2 /\ cs[1] = c1 /\ cs[2] = c2 /\ Len(b) = 2 /\ b[1] = 0 /\ b[2] = 0 /\ b \in Seq(Nat)
  OBVIOUS
<1>. HIDE DEF cs, b
<1>2. Bottom(cs)
  BY <1>1 DEF Bottom
<1>3. Levels(cs, ci, b)
  <2>1. \A i \in 1..Len(cs) : i = 1 \/ i = 2
    BY <1>1
  <2>. QED  BY <1>1, <2>1 DEF Levels
<1>4. Places(cs, ci, b) /\ Neighbours(cs, ci, b)
  BY <1>1 DEF Places, Neighbours
<1>5. Going(cs, ci, b)
  <2>1. \A j \in 2..Len(cs) : Level(cs, ci, b, j) = Len(ci)
    BY <1>1 DEF Level
  <2>2. \A j \in 2..Len(cs) : GoesOn(cs, ci, j, Len(ci))
    BY DEF GoesOn
  <2>. QED  BY <2>1, <2>2 DEF Going
<1>6. Flagged(cs, ci)
  <2>1. \A j \in 1..Len(cs) : cs[j].kind # "pcall"
    <3>1. \A j \in 1..Len(cs) : j = 1 \/ j = 2
      BY <1>1
    <3>. QED  BY <1>1, <3>1
  <2>. QED  BY <2>1 DEF Flagged, FlaggedFrame
<1>. QED  BY <1>2, <1>3, <1>4, <1>5, <1>6 DEF Joined, cs, b

LEMMA NoneCounted ==
  ASSUME NEW cs, NEW j \in Nat, \A i \in 1..j : cs[i].kind \notin {"call", "hook"}
  PROVE  CallsTo(cs, j) = 0 /\ NoYieldsTo(cs, j) = 0 /\ Unhooked(cs, j)
<1>1. {i \in 1..j : cs[i].kind = "call"} = {} /\ {i \in 1..j : NoYield(cs[i])} = {}
  BY DEF NoYield
<1>2. Cardinality({}) = 0
  BY FS_EmptySet
<1>3. Unhooked(cs, j)
  BY DEF Unhooked
<1>. QED  BY <1>1, <1>2, <1>3 DEF CallsTo, NoYieldsTo

\* The frame on top is run, by itself.
LEMMA Restarts ==
  ASSUME NEW c1 \in Acts, NEW c2 \in Acts, c1.kind = "resume", c1.nny = 1,
         c2.kind = "rawrun", c2.of # "pcall", c2.nCcalls >= 1, c2.nCcalls <= Bound,
         NEW a \in Acts, NEW u \in States, NEW l, l = Len(u.ci), l >= 1,
         \A i \in 1 .. l - 1 : Good(u.ci[i]), Flagged(<<>>, u.ci), ~u.ci[l].pcall,
         \/ a.kind = "execute" /\ a.base = l /\ u.ci[l].lua
         \/ a.kind = "body" /\ ~u.ci[l].lua,
         u.cs = Append(<<c1, c2>>, a), u.nCcalls = c2.nCcalls, u.nny = 0, u.allowhook,
         FrameHandler(u.errfunc, u.ci, l), u.status = "ok", u.lock = IF RunsC(a) THEN 0 ELSE 1
  PROVE  Fine(u)
<1>. DEFINE cs == <<c1, c2>>
            di == u.ci
            ci == SubSeq(di, 1, l - 1)
            m == l - 1
            ds == Append(cs, a)
            b == <<0, 0>>
<1>1. /\ di \in Seq(Frames) /\ l \in Nat /\ m \in Nat /\ ci \in Seq(Frames) /\ Len(ci) = m
      /\ \A i \in 1..m : ci[i] = di[i]
  <2>1. di \in Seq(Frames)
    BY DEF States
  <2>2. l = Len(di)
    OBVIOUS
  <2>. HIDE DEF di
  <2>. QED  BY <2>1, <2>2
<1>2. cs \in Seq(Acts) /\ Len(cs) = 2 /\ b[2] = 0 /\ ds = u.cs /\ cs[1] = c1 /\ cs[2] = c2
  OBVIOUS
<1>3. Len(ds) = 3 /\ ds[1] = c1 /\ ds[2] = c2 /\ ds[3] = a
  OBVIOUS
<1>4. Flagged(<<>>, ci)
  <2>1. ASSUME NEW i \in 1..m, ci[i].pcall PROVE FlaggedFrame(<<>>, ci, i)
    <3>1. i \in 1..Len(di) /\ di[i].pcall
      BY <1>1, <2>1
    <3>2. FlaggedFrame(<<>>, di, i)
      BY <3>1 DEF Flagged
    <3>3. FrameHandler(di[i].old, ci, i - 1)
      <4>1. i - 1 \in Nat /\ \A k \in 1 .. i - 1 : ci[k].pcall = di[k].pcall /\ ci[k].handler = di[k].handler
        BY <1>1
      <4>2. FrameHandler(di[i].old, di, i - 1)
        BY <3>1, <3>2 DEF FlaggedFrame
      <4>. HIDE DEF ci, di
      <4>. QED  BY <4>1, <4>2, FrameHandlerSame
    <3>4. \A k \in 1 .. i - 1 : ci[k] = di[k]
      BY <1>1
    <3>5. ci[i] = di[i]
      BY <1>1
    <3>. HIDE DEF ci, di
    <3>. QED  BY <3>1, <3>2, <3>3, <3>4, <3>5 DEF FlaggedFrame
  <2>2. \A i \in 1..m : ~ci[i].pcall => FlaggedFrame(<<>>, ci, i)
    BY DEF FlaggedFrame
  <2>. HIDE DEF ci
  <2>. QED  BY <1>1, <2>1, <2>2 DEF Flagged
<1>5. \A i \in 1..Len(ci) : Good(ci[i])
  BY <1>1
<1>6. Joined(cs, ci, b)
  <2>. HIDE DEF ci
  <2>. QED  BY <1>1, <1>4, <1>5, BaseJoined
<1>. HIDE DEF cs, di, ci, ds, m, b
<1>7. \A i \in 1..3 : ds[i].kind \notin {"call", "hook", "pcall"}
  <2>1. \A i \in 1..3 : i = 1 \/ i = 2 \/ i = 3
    OBVIOUS
  <2>. QED  BY <1>3, <2>1
<1>8. CallsTo(ds, 3) = 0 /\ NoYieldsTo(ds, 3) = 0 /\ Unhooked(ds, 3)
  BY <1>7, NoneCounted
<1>9. Joined(ds, di, Append(b, m))
  <2>1. Alike(ci, di, b[2], m)
    BY <1>1, <1>2 DEF Alike
  <2>2. Append(b, m)[3] = m /\ Append(b, m) \in Seq(Nat)
    BY <1>1 DEF b
  <2>3. Local(ds, di, Append(b, m), 3, Len(di))
    <3>1. Len(di) = m + 1 /\ Len(di) = l
      BY <1>1 DEF di, m
    <3>2. FramesOf(ds, di, Append(b, m), 3, l)
      <4>1. \A i \in m + 1 .. l : i = l
        BY <1>1, <3>1
      <4>. QED  BY <1>1, <1>3, <2>2, <3>1, <4>1 DEF FramesOf, di
    <3>3. BegunBy(ds, di, Append(b, m), 3)
      BY <1>3 DEF BegunBy
    <3>4. Saved(ds, di, Append(b, m), 3)
      BY <1>3 DEF Saved
    <3>. QED  BY <3>1, <3>2, <3>3, <3>4 DEF Local
  <2>4. GoesOn(ds, di, 3, Len(di))
    BY <1>1, <1>3 DEF GoesOn, Good, di
  <2>5. Flagged(ds, di)
    <3>1. \A j \in 1..Len(ds) : ds[j].kind # "pcall"
      BY <1>3, <1>7
    <3>. QED  BY <3>1 DEF Flagged, FlaggedFrame, di
  <2>6. m <= Len(ci) /\ m <= Len(di) /\ b[Len(cs)] <= m /\ Len(cs) + 1 = 3
    BY <1>1, <1>2 DEF m, di
  <2>7. /\ Alike(ci, di, b[Len(cs)], m) /\ m = Len(ci) /\ ~(Len(cs) >= 3)
        /\ Local(Append(cs, a), di, Append(b, m), Len(cs) + 1, Len(di))
        /\ GoesOn(Append(cs, a), di, Len(cs) + 1, Len(di))
        /\ Flagged(Append(cs, a), di)
    BY <1>1, <1>2, <2>1, <2>3, <2>4, <2>5, <2>6 DEF ds
  <2>8. Joined(Append(cs, a), di, Append(b, m))
    BY <1>1, <1>2, <1>6, <2>6, <2>7, PushJoined
  <2>. QED  BY <2>8 DEF ds
<1>10. Counted(u)
  <2>1. HandlerIs(u.errfunc, ds, di, 3, l)
    BY <1>7 DEF HandlerIs, di
  <2>2. u.cs = ds /\ Len(ds) = 3 /\ ds[2] = c2 /\ Len(u.ci) = l /\ u.ci = di /\ u.nCcalls \in Nat
    BY <1>2, <1>3 DEF di, States
  <2>3. u.nCcalls = u.cs[2].nCcalls + CallsTo(ds, 3)
    BY <1>8, <2>2
  <2>4. u.nny = NoYieldsTo(ds, 3) /\ u.allowhook = Unhooked(ds, 3)
    <3>1. u.allowhook \in BOOLEAN
      BY DEF States
    <3>. QED  BY <1>8, <3>1
  <2>. HIDE DEF States
  <2>. QED  BY <2>1, <2>2, <2>3, <2>4 DEF Counted
<1>11. Limits(u.cs)
  <2>1. \A j \in 2..3 : j = 2 \/ j = 3
    OBVIOUS
  <2>. QED  BY <1>2, <1>3, <2>1 DEF Limits
<1>12. Append(b, m) \in Seq(Nat)
  BY <1>1 DEF b
<1>13. OnTop(u.cs, u.ci)
  BY <1>2, <1>3 DEF OnTop
<1>14. LockKept(u) /\ StatusKept(u)
  BY <1>2, <1>3 DEF LockKept, StatusKept
<1>15. Ready(u, Append(b, m))
  BY <1>2, <1>9, <1>10, <1>11 DEF Ready, di
<1>16. u.cs # <<>>
  OBVIOUS
<1>. QED  BY <1>12, <1>13, <1>14, <1>15, <1>16 DEF Fine, RunsFine

-----------------------------------------------------------------------------
(* What the operations on lua_State change.                                 *)

Fields(u, ci, cs, nC, nny, hook, errfunc, status, lock) ==
  /\ u.ci = ci /\ u.cs = cs /\ u.nCcalls = nC /\ u.nny = nny /\ u.allowhook = hook
  /\ u.errfunc = errfunc /\ u.status = status /\ u.lock = lock

LEMMA StateFields ==
  ASSUME NEW t \in States
  PROVE  /\ t.ci \in Seq(Frames) /\ t.cs \in Seq(Acts) /\ t.nCcalls \in Nat /\ t.nny \in Nat
         /\ t.allowhook \in BOOLEAN /\ t.errfunc \in Nat
         /\ t.status \in {"ok", "yield", "errrun", "errerr"} /\ t.lock \in Int
BY DEF States

LEMMA PushDoes ==
  ASSUME NEW t \in States, NEW a \in Acts
  PROVE  /\ Push(t, a) \in States
         /\ Fields(Push(t, a), t.ci, Append(t.cs, a), t.nCcalls, t.nny, t.allowhook, t.errfunc, t.status, t.lock)
<1>1. Append(t.cs, a) \in Seq(Acts)
  BY StateFields
<1>. QED  BY <1>1 DEF Push, States, Fields

LEMMA PopDoes ==
  ASSUME NEW t \in States, t.cs # <<>>
  PROVE  /\ Pop(t) \in States
         /\ Fields(Pop(t), t.ci, Front(t.cs), t.nCcalls, t.nny, t.allowhook, t.errfunc, t.status, t.lock)
<1>1. Front(t.cs) \in Seq(Acts)
  BY StateFields DEF Front
<1>. QED  BY <1>1 DEF Pop, States, Fields

LEMMA LockDoes ==
  ASSUME NEW t \in States
  PROVE  /\ Locked(t) \in States /\ Unlocked(t) \in States
         /\ Fields(Locked(t), t.ci, t.cs, t.nCcalls, t.nny, t.allowhook, t.errfunc, t.status, t.lock + 1)
         /\ Fields(Unlocked(t), t.ci, t.cs, t.nCcalls, t.nny, t.allowhook, t.errfunc, t.status, t.lock - 1)
BY SMTT(45) DEF Locked, Unlocked, States, Fields

LEMMA FrontIs ==
  ASSUME NEW S, NEW q \in Seq(S), q # <<>>
  PROVE  /\ Front(q) \in Seq(S) /\ Len(Front(q)) = Len(q) - 1 /\ Len(q) \in Nat /\ Len(q) >= 1
         /\ \A i \in 1 .. Len(q) - 1 : Front(q)[i] = q[i]
<1>1. Len(q) \in Nat /\ Len(q) >= 1
  OBVIOUS
<1>. DEFINE m == Len(q) - 1
<1>2. m \in Nat /\ m <= Len(q)
  BY <1>1
<1>. HIDE DEF m
<1>3. SubSeq(q, 1, m) \in Seq(S) /\ Len(SubSeq(q, 1, m)) = m /\ \A i \in 1..m : SubSeq(q, 1, m)[i] = q[i]
  BY <1>2
<1>. QED  BY <1>1, <1>3 DEF Front, m

\* The last frame changed.
WithLast(ci, f) == [ci EXCEPT ![Len(ci)] = f]

LEMMA LastChanged ==
  ASSUME NEW ci \in Seq(Frames), NEW f \in Frames, ci # <<>>
  PROVE  /\ WithLast(ci, f) \in Seq(Frames) /\ Len(WithLast(ci, f)) = Len(ci) /\ Len(ci) \in Nat /\ Len(ci) >= 1
         /\ WithLast(ci, f)[Len(ci)] = f
         /\ \A i \in 1 .. Len(ci) - 1 : WithLast(ci, f)[i] = ci[i]
<1>1. Len(ci) \in Nat /\ Len(ci) >= 1
  OBVIOUS
<1>. QED  BY <1>1 DEF WithLast

LEMMA SetFrameDoes ==
  ASSUME NEW t \in States, NEW f \in Frames, t.ci # <<>>
  PROVE  /\ SetFrame(t, f) \in States
         /\ Fields(SetFrame(t, f), WithLast(t.ci, f), t.cs, t.nCcalls, t.nny, t.allowhook, t.errfunc, t.status, t.lock)
<1>1. WithLast(t.ci, f) \in Seq(Frames)
  BY StateFields, LastChanged
<1>2. SetFrame(t, f) = [t EXCEPT !.ci = WithLast(t.ci, f)]
  BY DEF SetFrame, WithLast, States
<1>. QED  BY <1>1, <1>2 DEF States, Fields

-----------------------------------------------------------------------------
(* Cutting the stacks down.                                                 *)

LEMMA FlaggedCut ==
  ASSUME NEW cs, NEW ds, NEW ci, NEW di, NEW k \in Nat, NEW n \in Nat, NEW m \in Nat, NEW l \in Nat,
         k <= n, m <= l, Len(cs) = n, Len(ds) = k, Len(ci) = l, Len(di) = m,
         \A i \in 1..k : ds[i] = cs[i], \A i \in 1..m : di[i] = ci[i], Flagged(cs, ci)
  PROVE  Flagged(ds, di)
<1>1. ASSUME NEW i \in 1..m PROVE FlaggedFrame(ds, di, i)
  <2>1. FlaggedFrame(cs, ci, i) /\ di[i] = ci[i]
    BY DEF Flagged
  <2>2. \A h \in 1 .. i - 1 : di[h] = ci[h]
    OBVIOUS
  <2>3. \A j \in 1..k : j \in 1..n /\ ds[j] = cs[j]
    OBVIOUS
  <2>4. FrameHandler(ci[i].old, ci, i - 1) => FrameHandler(ci[i].old, di, i - 1)
    <3>1. i - 1 \in Nat
      OBVIOUS
    <3>. QED  BY <2>2, <3>1, FrameHandlerSame
  <2>. QED  BY <2>1, <2>2, <2>3, <2>4 DEF FlaggedFrame
<1>. QED  BY <1>1 DEF Flagged

\* What holds of every activation.
LEMMA PlaceOf ==
  ASSUME NEW cs \in Seq(Acts), NEW ci \in Seq(Frames), NEW below, Joined(cs, ci, below), NEW j \in 3..Len(cs)
  PROVE  BegunBy(cs, ci, below, j) /\ Saved(cs, ci, below, j)
BY DEF Joined, Places, Local

LEMMA CutReady ==
  ASSUME NEW t, NEW below, Ready(t, below), NEW k \in Nat, 2 <= k, k < Len(t.cs), NEW u \in States,
         Len(u.cs) = k, \A i \in 1..k : u.cs[i] = t.cs[i],
         Len(u.ci) = below[k + 1], \A i \in 1..below[k + 1] : u.ci[i] = t.ci[i],
         u.nCcalls = t.cs[2].nCcalls + CallsTo(t.cs, k), u.nny = NoYieldsTo(t.cs, k),
         u.allowhook = Unhooked(t.cs, k), HandlerIs(u.errfunc, t.cs, t.ci, k, below[k + 1])
  PROVE  SubSeq(below, 1, k) \in Seq(Nat) /\ Ready(u, SubSeq(below, 1, k))
<1>. DEFINE cs == t.cs
            ci == t.ci
            ds == u.cs
            di == u.ci
            lv == below[k + 1]
            n == Len(cs)
<1>1. /\ cs \in Seq(Acts) /\ ci \in Seq(Frames) /\ ds \in Seq(Acts) /\ di \in Seq(Frames)
      /\ Joined(cs, ci, below) /\ Limits(cs)
  BY StateFields DEF Ready
<1>2. /\ 2 <= k /\ k < n /\ Len(ds) = k /\ Len(di) = lv /\ n = Len(cs) /\ n \in Nat
      /\ \A i \in 1..k : ds[i] = cs[i]
      /\ \A i \in 1..lv : di[i] = ci[i]
      /\ lv = below[k + 1]
  BY <1>1
<1>3. u.nCcalls = cs[2].nCcalls + CallsTo(cs, k) /\ u.nny = NoYieldsTo(cs, k)
  OBVIOUS
<1>4. u.allowhook = Unhooked(cs, k) /\ HandlerIs(u.errfunc, cs, ci, k, lv)
  OBVIOUS
<1>. HIDE DEF cs, ci, ds, di, lv, n
<1>5. below[k] \in Nat /\ lv \in Nat /\ below[k] <= lv /\ lv <= Len(ci) /\ Len(ci) \in Nat
  BY <1>1, <1>2, UnderJoined
<1>6. Flagged(ds, di)
  <2>1. Flagged(cs, ci)
    BY <1>1 DEF Joined
  <2>. DEFINE l == Len(ci)
  <2>2. k <= n /\ lv <= l /\ l \in Nat /\ Len(ci) = l /\ Len(cs) = n
    BY <1>2, <1>5
  <2>. HIDE DEF l
  <2>3. /\ k \in Nat /\ n \in Nat /\ lv \in Nat /\ Len(ds) = k /\ Len(di) = lv
        /\ \A i \in 1..k : ds[i] = cs[i]
        /\ \A i \in 1..lv : di[i] = ci[i]
    BY <1>2, <1>5
  <2>. QED  BY ONLY <2>1, <2>2, <2>3, FlaggedCut
<1>7. Alike(ci, di, below[k], lv)
  BY <1>2, <1>5, SMTT(45) DEF Alike
<1>8. SubSeq(below, 1, k) \in Seq(Nat) /\ Joined(ds, di, SubSeq(below, 1, k))
  <2>1. Len(di) = below[k + 1] /\ Alike(ci, di, below[k], below[k + 1]) /\ k < Len(cs)
    BY <1>2, <1>7
  <2>. QED  BY <1>1, <1>2, <1>6, <2>1, CutJoined
<1>9. Counted(u)
  <2>1. CallsTo(ds, k) = CallsTo(cs, k) /\ NoYieldsTo(ds, k) = NoYieldsTo(cs, k) /\ Unhooked(ds, k) = Unhooked(cs, k)
    BY <1>2, CountsSame, SMTT(45)
  <2>2. HandlerIs(u.errfunc, ds, di, k, lv)
    <3>1. \A i \in 1..lv : di[i].pcall = ci[i].pcall /\ di[i].handler = ci[i].handler
      BY <1>2
    <3>2. /\ k \in Nat /\ lv \in Nat /\ \A i \in 1..k : ds[i] = cs[i]
          /\ HandlerIs(u.errfunc, cs, ci, k, lv)
      BY <1>2, <1>4, <1>5
    <3>. QED  BY ONLY <3>1, <3>2, HandlerSame
  <2>3. ds[2] = cs[2]
    BY <1>2
  <2>4. /\ u.nCcalls = ds[2].nCcalls + CallsTo(ds, k) /\ u.nny = NoYieldsTo(ds, k)
        /\ u.allowhook = Unhooked(ds, k) /\ HandlerIs(u.errfunc, ds, di, Len(ds), Len(di)) /\ Len(ds) = k
    BY <1>2, <1>3, <1>4, <2>1, <2>2, <2>3
  <2>. QED  BY <2>4 DEF Counted, ds, di
<1>10. Limits(ds)
  BY <1>1, <1>2, SMTT(45) DEF Limits
<1>. QED  BY <1>8, <1>9, <1>10 DEF Ready, ds, di

LEMMA CutFine ==
  ASSUME NEW t, NEW below, Ready(t, below), NEW k \in Nat, 2 <= k, k < Len(t.cs), NEW u \in States,
         Len(u.cs) = k, \A i \in 1..k : u.cs[i] = t.cs[i],
         Len(u.ci) = below[k + 1], \A i \in 1..below[k + 1] : u.ci[i] = t.ci[i],
         u.nCcalls = t.cs[2].nCcalls + CallsTo(t.cs, k), u.nny = NoYieldsTo(t.cs, k),
         u.allowhook = Unhooked(t.cs, k), HandlerIs(u.errfunc, t.cs, t.ci, k, below[k + 1]),
         t.cs[k].kind # "pcall", t.cs[k].kind = "body" => ~t.ci[below[k + 1]].pcall /\ below[k + 1] >= 1,
         u.nCcalls <= Bound, u.status = "ok", u.lock = IF RunsC(t.cs[k]) THEN 0 ELSE 1
  PROVE  Fine(u)
<1>1. SubSeq(below, 1, k) \in Seq(Nat) /\ Ready(u, SubSeq(below, 1, k))
  BY CutReady, ZenonT(45)
<1>2. u.cs[Len(u.cs)] = t.cs[k] /\ u.cs # <<>> /\ u.cs \in Seq(Acts) /\ u.ci \in Seq(Frames)
  BY StateFields
<1>3. OnTop(u.cs, u.ci)
  BY <1>2, SMTT(45) DEF OnTop
<1>4. LockKept(u) /\ StatusKept(u)
  BY <1>2 DEF LockKept, StatusKept
<1>. QED  BY <1>1, <1>2, <1>3, <1>4 DEF Fine, RunsFine

-----------------------------------------------------------------------------
(* Errors and yields.                                                       *)

LEMMA LeastElement ==
  ASSUME NEW T \in SUBSET Nat, T # {}
  PROVE  \E m \in T : \A y \in T : m <= y
<1>. DEFINE Before(n) == 0 .. n - 1
            D == {Before(n) : n \in T}
<1>1. D \subseteq FiniteSubsetsOf(Nat) /\ D # {}
  <2>1. \A n \in T : IsFiniteSet(Before(n)) /\ Before(n) \subseteq Nat
    BY FS_Interval
  <2>. QED  BY <2>1 DEF FiniteSubsetsOf
<1>2. PICK x \in D : \A y \in D : <<y, x>> \notin StrictSubsetOrdering(Nat)
  <2>. HIDE DEF D
  <2>1. IsWellFoundedOn(StrictSubsetOrdering(Nat), FiniteSubsetsOf(Nat))
    BY FS_StrictSubsetOrderingWellFounded
  <2>. QED  BY <1>1, <2>1, WFMin
<1>3. PICK m \in T : x = Before(m)
  OBVIOUS
<1>4. ASSUME NEW y \in T, y < m PROVE FALSE
  <2>1. Before(y) \in D /\ Before(y) \subseteq Before(m) /\ y \in Before(m) /\ y \notin Before(y) /\ Before(m) \subseteq Nat
    BY <1>4
  <2>. HIDE DEF Before, D
  <2>. QED  BY <1>2, <1>3, <2>1 DEF StrictSubsetOrdering
<1>. QED  BY <1>4

LEMMA MaxIs ==
  ASSUME NEW n \in Nat, NEW S \in SUBSET (1..n), S # {}
  PROVE  Max(S) \in S /\ \A y \in S : y <= Max(S)
<1>. DEFINE T == {n - i : i \in S}
<1>0. \A i \in S : i \in 1..n /\ n - i \in Nat
  OBVIOUS
<1>1. T \in SUBSET Nat /\ T # {}
  BY <1>0
<1>2. PICK m \in T : \A y \in T : m <= y
  <2>. HIDE DEF T
  <2>. QED  BY <1>1, LeastElement
<1>3. PICK x \in S : m = n - x
  OBVIOUS
<1>4. ASSUME NEW y \in S PROVE x >= y
  <2>1. n - x <= n - y
    BY <1>2, <1>3
  <2>2. x \in 1..n /\ y \in 1..n
    BY <1>0
  <2>. QED  BY ONLY <2>1, <2>2, n \in Nat
<1>5. \E z \in S : \A y \in S : z >= y
  BY <1>4
<1>6. Max(S) \in S /\ \A y \in S : Max(S) >= y
  <2>. HIDE DEF T
  <2>. QED  BY <1>5 DEF Max
<1>7. \A y \in S : Max(S) >= y => y <= Max(S)
  BY <1>6
<1>. QED  BY <1>6, <1>7

ThrowAt(t, j) == [t EXCEPT !.cs = SubSeq(@, 1, j - 1), !.nCcalls = t.cs[j].nCcalls]

\* A protected call in C, the j-th activation being its luaD_rawrunprotected:
\* what it saved, and who made it.
LEMMA PCallUnder ==
  ASSUME NEW t, NEW below, Ready(t, below), NEW j \in 3..Len(t.cs), t.cs[j].kind = "rawrun",
         NEW k, k = j - 2, NEW p, p = t.cs[j - 1]
  PROVE  /\ t.cs[j].of = "pcall" /\ p.kind = "pcall" /\ t.cs[j].nCcalls = t.cs[2].nCcalls + CallsTo(t.cs, j)
         /\ j - 1 \in 3..Len(t.cs) /\ k \in Nat /\ 3 <= k /\ k < Len(t.cs) /\ k + 1 = j - 1 /\ j = k + 2
         /\ RunsC(t.cs[k]) /\ p.ci = below[k + 1] /\ p.nny = NoYieldsTo(t.cs, j - 1) /\ p.allowhook = Unhooked(t.cs, j - 1)
         /\ HandlerIs(p.errfunc, t.cs, t.ci, k, below[k + 1])
         /\ Begins(t.cs, t.ci, k, below[k + 1], p) /\ below[k + 1] \in Nat /\ below[k + 1] <= Len(t.ci)
         /\ Local(t.cs, t.ci, below, k, below[k + 1]) /\ below[k] \in Nat
         /\ CallsTo(t.cs, j) = CallsTo(t.cs, k) /\ NoYieldsTo(t.cs, j - 1) = NoYieldsTo(t.cs, k)
         /\ NoYieldsTo(t.cs, j) = NoYieldsTo(t.cs, k) /\ Unhooked(t.cs, j) = Unhooked(t.cs, k)
         /\ Unhooked(t.cs, j - 1) = Unhooked(t.cs, k)
<1>. DEFINE cs == t.cs
            ci == t.ci
            n == Len(cs)
<1>1. /\ t \in States /\ cs \in Seq(Acts) /\ ci \in Seq(Frames) /\ n \in Nat /\ j \in Nat /\ j <= n /\ j >= 3
      /\ Joined(cs, ci, below) /\ Limits(cs) /\ n = Len(cs)
  BY StateFields DEF Ready
<1>2. BegunBy(cs, ci, below, j) /\ Saved(cs, ci, below, j)
  BY <1>1, PlaceOf
<1>3. cs[j].of = "pcall" /\ p.kind = "pcall" /\ cs[j].nCcalls = cs[2].nCcalls + CallsTo(cs, j)
  BY <1>2 DEF BegunBy, Saved
<1>4. cs[1].kind = "resume" /\ cs[2].kind = "rawrun"
  BY <1>1 DEF Joined, Bottom
<1>5. j - 1 \in 3..n
  <2>1. j - 1 # 2
    BY <1>3, <1>4
  <2>. HIDE DEF cs, n
  <2>. QED  BY <1>1, <2>1
<1>6. BegunBy(cs, ci, below, j - 1) /\ Saved(cs, ci, below, j - 1)
  BY <1>1, <1>5, PlaceOf
<1>7. /\ RunsC(cs[k]) /\ p.ci = below[k + 1] /\ p.nny = NoYieldsTo(cs, j - 1) /\ p.allowhook = Unhooked(cs, j - 1)
      /\ HandlerIs(p.errfunc, cs, ci, k, below[k + 1])
  <2>1. j - 1 - 1 = k /\ k + 1 = j - 1
    BY <1>1
  <2>. QED  BY <1>3, <1>6, <2>1 DEF BegunBy, Saved
<1>8. k \in Nat /\ 3 <= k /\ k < n /\ k + 1 = j - 1 /\ j = k + 2
  <2>1. k \in Nat /\ k >= 1 /\ k < n /\ k + 1 = j - 1 /\ j = k + 2
    BY <1>1
  <2>2. cs[k].kind \notin {"resume", "rawrun"}
    BY <1>7 DEF RunsC
  <2>3. k # 1 /\ k # 2
    BY <1>4, <2>2
  <2>. QED  BY ONLY <2>1, <2>3
<1>9. /\ Begins(cs, ci, k, below[k + 1], p) /\ below[k + 1] \in Nat /\ below[k + 1] <= Len(ci) /\ Local(cs, ci, below, k, below[k + 1])
      /\ below[k] \in Nat
  <2>1. p = cs[k + 1]
    BY <1>8
  <2>2. k < Len(cs) /\ 2 <= k
    BY <1>8
  <2>. HIDE DEF cs, ci
  <2>. QED  BY <1>1, <1>8, <2>1, <2>2, UnderJoined, SMTT(45)
<1>10. /\ CallsTo(cs, j) = CallsTo(cs, k) /\ NoYieldsTo(cs, j - 1) = NoYieldsTo(cs, k)
       /\ NoYieldsTo(cs, j) = NoYieldsTo(cs, k) /\ Unhooked(cs, j) = Unhooked(cs, k)
       /\ Unhooked(cs, j - 1) = Unhooked(cs, k)
  <2>1. \A i \in k + 1 .. j : i = j - 1 \/ i = j
    BY <1>8
  <2>2. \A i \in k + 1 .. j : cs[i].kind \notin {"call", "hook"}
    BY <1>3, <2>1
  <2>3. j - 1 \in Nat /\ k <= j - 1 /\ k <= j /\ \A i \in k + 1 .. j - 1 : i \in k + 1 .. j
    BY <1>1, <1>8
  <2>4. CallsTo(cs, j) = CallsTo(cs, k) /\ NoYieldsTo(cs, j) = NoYieldsTo(cs, k) /\ Unhooked(cs, j) = Unhooked(cs, k)
    BY <1>1, <1>8, <2>2, <2>3, CountsStay
  <2>5. NoYieldsTo(cs, j - 1) = NoYieldsTo(cs, k) /\ Unhooked(cs, j - 1) = Unhooked(cs, k)
    BY <1>8, <2>2, <2>3, CountsStay
  <2>. QED  BY <2>4, <2>5
<1>. QED  BY <1>3, <1>5, <1>7, <1>8, <1>9, <1>10 DEF cs, n

LEMMA PCallFailsFine ==
  ASSUME NEW t, NEW below, Ready(t, below), t.lock = 1, t.status = "ok",
         NEW j \in 3..Len(t.cs), t.cs[j].kind = "rawrun"
  PROVE  t.cs[j].of = "pcall" /\ Fine(PCallFails(ThrowAt(t, j)))
<1>. DEFINE cs == t.cs
            ci == t.ci
            n == Len(cs)
            k == j - 2
            p == cs[j - 1]
            c == ThrowAt(t, j)
            v == [c EXCEPT !.ci = SubSeq(@, 1, p.ci), !.allowhook = p.allowhook,
                           !.nny = p.nny, !.errfunc = p.errfunc]
            u == PCallFails(c)
<1>1. /\ t \in States /\ cs \in Seq(Acts) /\ ci \in Seq(Frames) /\ n \in Nat /\ j \in Nat /\ j <= n /\ j >= 3
      /\ Joined(cs, ci, below) /\ Limits(cs) /\ n = Len(cs)
  BY StateFields DEF Ready
<1>2. /\ cs[j].of = "pcall" /\ p.kind = "pcall" /\ cs[j].nCcalls = cs[2].nCcalls + CallsTo(cs, j)
      /\ j - 1 \in 3..n /\ k \in Nat /\ 3 <= k /\ k < n /\ k + 1 = j - 1 /\ j = k + 2
      /\ RunsC(cs[k]) /\ p.ci = below[k + 1] /\ p.nny = NoYieldsTo(cs, j - 1) /\ p.allowhook = Unhooked(cs, j - 1)
      /\ HandlerIs(p.errfunc, cs, ci, k, below[k + 1])
      /\ Begins(cs, ci, k, below[k + 1], p) /\ below[k + 1] \in Nat /\ below[k + 1] <= Len(ci)
      /\ Local(cs, ci, below, k, below[k + 1]) /\ below[k] \in Nat
      /\ CallsTo(cs, j) = CallsTo(cs, k) /\ NoYieldsTo(cs, j - 1) = NoYieldsTo(cs, k)
      /\ Unhooked(cs, j - 1) = Unhooked(cs, k)
  BY PCallUnder, SMTT(45)
<1>3. p.ci \in Nat /\ p.nny \in Nat /\ p.allowhook \in BOOLEAN /\ p.errfunc \in Nat /\ cs[j].nCcalls \in Nat
  <2>1. p \in Acts /\ cs[j] \in Acts /\ cs[j].kind = "rawrun"
    BY <1>1, <1>2
  <2>. HIDE DEF p, cs
  <2>. QED  BY <1>2, <2>1 DEF Acts
<1>4. /\ c \in States
       /\ Fields(c, ci, SubSeq(cs, 1, j - 1), cs[j].nCcalls, t.nny, t.allowhook, t.errfunc, t.status, t.lock)
  <2>1. SubSeq(cs, 1, j - 1) \in Seq(Acts)
    BY <1>1
  <2>. QED  BY <1>1, <1>3, <2>1 DEF ThrowAt, States, Fields
<1>5. SubSeq(cs, 1, j - 1)[j - 1] = p /\ Len(SubSeq(cs, 1, j - 1)) = j - 1 /\ SubSeq(cs, 1, j - 1) # <<>>
  BY <1>1
<1>6. SubSeq(ci, 1, p.ci) \in Seq(Frames) /\ Len(SubSeq(ci, 1, p.ci)) = p.ci /\ \A i \in 1..p.ci : SubSeq(ci, 1, p.ci)[i] = ci[i]
  BY <1>1, <1>2, <1>3, SMTT(45)
<1>7. /\ v \in States
       /\ Fields(v, SubSeq(ci, 1, p.ci), SubSeq(cs, 1, j - 1), cs[j].nCcalls, p.nny, p.allowhook, p.errfunc, t.status, t.lock)
  <2>1. c.ci = ci
    BY <1>4 DEF Fields
  <2>. HIDE DEF c, p, cs, ci
  <2>. QED  BY <1>3, <1>4, <1>6, <2>1 DEF States, Fields
<1>8. u = Unlocked(Pop(v))
  <2>1. Last(c.cs) = p
    BY <1>4, <1>5 DEF Fields, Last
  <2>. HIDE DEF p
  <2>. QED  BY <2>1 DEF PCallFails
<1>. HIDE DEF c, v, u, k
<1>9. /\ Pop(v) \in States
       /\ Fields(Pop(v), v.ci, Front(v.cs), v.nCcalls, v.nny, v.allowhook, v.errfunc, v.status, v.lock)
  BY <1>5, <1>7, PopDoes DEF Fields
<1>10. /\ u \in States
       /\ Fields(u, v.ci, Front(v.cs), v.nCcalls, v.nny, v.allowhook, v.errfunc, v.status, v.lock - 1)
  BY <1>8, <1>9, LockDoes DEF Fields
<1>11. Len(Front(v.cs)) = k /\ \A i \in 1..k : Front(v.cs)[i] = cs[i]
  <2>1. v.cs = SubSeq(cs, 1, j - 1) /\ v.cs \in Seq(Acts)
    BY <1>7, StateFields DEF Fields
  <2>2. \A i \in 1..k : i \in 1 .. j - 1 /\ i \in 1 .. Len(v.cs) - 1
    BY <1>2, <1>5, <2>1
  <2>3. \A i \in 1 .. j - 1 : v.cs[i] = cs[i]
    BY <1>1, <2>1
  <2>4. Len(v.cs) - 1 = k
    BY <1>2, <1>5, <2>1
  <2>5. v.cs # <<>>
    BY <1>5, <2>1
  <2>6. Len(Front(v.cs)) = Len(v.cs) - 1 /\ \A i \in 1 .. Len(v.cs) - 1 : Front(v.cs)[i] = v.cs[i]
    BY ONLY <2>1, <2>5, FrontIs
  <2>. QED  BY <2>2, <2>3, <2>4, <2>6
<1>12. Fine(u)
  <2>1. /\ Len(u.cs) = k /\ \A i \in 1..k : u.cs[i] = cs[i]
    BY <1>10, <1>11 DEF Fields
  <2>2. /\ Len(u.ci) = below[k + 1] /\ \A i \in 1..below[k + 1] : u.ci[i] = ci[i]
    BY <1>2, <1>6, <1>7, <1>10 DEF Fields
  <2>3. /\ u.nCcalls = cs[2].nCcalls + CallsTo(cs, k) /\ u.nny = NoYieldsTo(cs, k)
        /\ u.allowhook = Unhooked(cs, k) /\ HandlerIs(u.errfunc, cs, ci, k, below[k + 1])
    BY <1>2, <1>7, <1>10 DEF Fields
  <2>4. u.nCcalls <= Bound /\ u.status = "ok" /\ u.lock = 0
    <3>1. cs[j].nCcalls <= Bound
      BY <1>1, <1>2 DEF Limits
    <3>. QED  BY <1>7, <1>10, <3>1 DEF Fields
  <2>5. cs[k].kind # "pcall" /\ (cs[k].kind = "body" => ~ci[below[k + 1]].pcall /\ below[k + 1] >= 1)
    <3>1. cs[k].kind # "pcall" /\ (cs[k].kind = "body" => ~ci[below[k + 1]].pcall)
      BY <1>2 DEF RunsC, Begins
    <3>2. cs[k].kind = "body" => below[k + 1] = below[k] + 1
      BY <1>2 DEF Local, FramesOf
    <3>. QED  BY <1>2, <3>1, <3>2
  <2>6. /\ Ready(t, below) /\ 2 <= k /\ k < Len(t.cs) /\ k \in Nat
        /\ u.lock = IF RunsC(cs[k]) THEN 0 ELSE 1
    BY <1>1, <1>2, <2>4
  <2>. QED  BY ONLY <1>10, <2>1, <2>2, <2>3, <2>4, <2>5, <2>6, CutFine DEF cs, ci
<1>. QED  BY <1>2, <1>12 DEF u, c, cs

\* What is flagged stays so, as long as no protected call or flag comes.
LEMMA FlaggedMoves ==
  ASSUME NEW cs, NEW ds, NEW ci, NEW di, NEW n \in Nat, NEW h \in Nat, NEW l \in Nat, NEW p \in Nat, NEW m \in Nat,
         m <= l, Len(cs) = n, Len(ds) = h, Len(ci) = l, Len(di) = p,
         \A j \in 1..h : ds[j].kind = "pcall" => j \in 1..n /\ ds[j] = cs[j],
         \A i \in 1..p : (i <= m /\ di[i] = ci[i]) \/ ~di[i].pcall,
         \A i \in 1..m : di[i].pcall = ci[i].pcall /\ di[i].handler = ci[i].handler /\ (Good(ci[i]) => Good(di[i])),
         Flagged(cs, ci)
  PROVE  Flagged(ds, di)
<1>1. ASSUME NEW i \in 1..p, di[i].pcall PROVE FlaggedFrame(ds, di, i)
  <2>1. i \in 1..m /\ i \in 1..l /\ di[i] = ci[i]
    BY <1>1
  <2>2. FlaggedFrame(cs, ci, i)
    BY <2>1 DEF Flagged
  <2>3. /\ \A k \in 1 .. i - 1 : k \in 1..m /\ di[k].pcall = ci[k].pcall /\ di[k].handler = ci[k].handler
        /\ \A k \in 1 .. i - 1 : Good(ci[k]) => Good(di[k])
    BY <2>1
  <2>4. FrameHandler(ci[i].old, ci, i - 1) => FrameHandler(ci[i].old, di, i - 1)
    <3>1. i - 1 \in Nat
      BY <2>1
    <3>. QED  BY ONLY <2>3, <3>1, FrameHandlerSame
  <2>. QED  BY <1>1, <2>1, <2>2, <2>3, <2>4 DEF FlaggedFrame
<1>2. \A i \in 1..p : ~di[i].pcall => FlaggedFrame(ds, di, i)
  BY DEF FlaggedFrame
<1>. QED  BY <1>1, <1>2 DEF Flagged

LEMMA BoundIs ==
  ASSUME MaxCCalls \in Nat \ {0}
  PROVE  Bound \in Nat /\ Bound >= MaxCCalls
<1>1. MaxCCalls \div 8 \in Nat
  OBVIOUS
<1>. QED  BY <1>1 DEF Bound

\* lua_resume comes back.
LEMMA ResumeEndsFine ==
  ASSUME MaxCCalls \in Nat \ {0},
         NEW t \in States, t.cs # <<>>, t.cs[1].kind = "resume", t.cs[1].nny = 1, t.lock = 1,
         t.nCcalls >= 1, t.nCcalls <= Bound,
         t.status \in {"ok", "yield"} =>
           /\ t.allowhook /\ FrameHandler(t.errfunc, t.ci, Len(t.ci))
           /\ \A i \in 1..Len(t.ci) - 1 : Good(t.ci[i])
           /\ Flagged(<<>>, t.ci),
         t.status = "ok" => t.ci = <<>>,
         t.status = "yield" => t.ci # <<>> /\ ~t.ci[Len(t.ci)].pcall
  PROVE  Fine(ResumeEnds(t))
<1>. DEFINE v == [t EXCEPT !.cs = <<>>, !.nny = t.cs[1].nny, !.nCcalls = @ - 1]
            u == ResumeEnds(t)
<1>1. t.nCcalls \in Nat
  BY StateFields
<1>2. v \in States /\ Fields(v, t.ci, <<>>, t.nCcalls - 1, 1, t.allowhook, t.errfunc, t.status, t.lock)
  <2>1. <<>> \in Seq(Acts) /\ t.nCcalls - 1 \in Nat /\ t.cs[1].nny = 1 /\ 1 \in Nat
    BY <1>1
  <2>. QED  BY ONLY <2>1, t \in States DEF States, Fields
<1>3. u = Unlocked(v)
  BY DEF ResumeEnds
<1>. HIDE DEF v, u
<1>4. u \in States /\ Fields(u, t.ci, <<>>, t.nCcalls - 1, 1, t.allowhook, t.errfunc, t.status, 0)
  BY <1>2, <1>3, LockDoes DEF Fields
<1>5. t.nCcalls - 1 <= Bound
  BY <1>1, BoundIs
<1>6. Suspended(u)
  BY <1>4, <1>5 DEF Suspended, Fields
<1>. QED  BY <1>4, <1>6 DEF Fine, Fields, u

LEMMA ContinueDoes ==
  ASSUME NEW t \in States, t.ci # <<>>, NEW f, f = LastFrame(t), NEW g, g = [f EXCEPT !.pcall = FALSE]
  PROVE  /\ f \in Frames /\ f = t.ci[Len(t.ci)] /\ g \in Frames /\ g.lua = f.lua /\ g.k = f.k /\ ~g.pcall
         /\ Continue(t) \in States
         /\ Fields(Continue(t), WithLast(t.ci, g), Append(t.cs, Body("running")), t.nCcalls, t.nny,
                   t.allowhook, IF f.pcall THEN f.old ELSE t.errfunc, t.status, t.lock - 1)
<1>. DEFINE e == IF f.pcall THEN f.old ELSE t.errfunc
            v == [t EXCEPT !.errfunc = e]
            w == SetFrame(v, g)
            x == Push(w, Body("running"))
<1>1. f \in Frames /\ f = t.ci[Len(t.ci)]
  BY StateFields DEF LastFrame
<1>2. g \in Frames /\ g.lua = f.lua /\ g.k = f.k /\ ~g.pcall
  BY <1>1 DEF Frames
<1>3. e \in Nat
  BY <1>1, StateFields DEF Frames
<1>4. v \in States /\ Fields(v, t.ci, t.cs, t.nCcalls, t.nny, t.allowhook, e, t.status, t.lock)
  <2>. HIDE DEF e
  <2>. QED  BY ONLY <1>3, t \in States DEF States, Fields
<1>5. Continue(t) = Unlocked(x)
  BY DEF Continue
<1>6. Body("running") \in Acts
  BY DEF Body, Acts
<1>. HIDE DEF v, w, x, e
<1>7. w \in States /\ Fields(w, WithLast(t.ci, g), t.cs, t.nCcalls, t.nny, t.allowhook, e, t.status, t.lock)
  BY <1>2, <1>4, SetFrameDoes DEF Fields, w
<1>8. x \in States /\ Fields(x, WithLast(t.ci, g), Append(t.cs, Body("running")), t.nCcalls, t.nny, t.allowhook, e, t.status, t.lock)
  BY <1>6, <1>7, PushDoes, SMTT(45) DEF Fields, x
<1>9. /\ Continue(t) \in States
      /\ Fields(Continue(t), WithLast(t.ci, g), Append(t.cs, Body("running")), t.nCcalls, t.nny, t.allowhook, e, t.status, t.lock - 1)
  BY <1>5, <1>8, LockDoes DEF Fields
<1>. QED  BY <1>1, <1>2, <1>9 DEF e

\* An error that no protected call in C takes goes to one with a continuation,
\* and otherwise ends the coroutine.
LEMMA RecoverFine ==
  ASSUME MaxCCalls \in Nat \ {0},
         NEW t \in States, Len(t.cs) = 1, t.cs[1].kind = "resume", t.cs[1].nny = 1, t.lock = 1, t.status = "ok",
         t.nCcalls >= 1, t.nCcalls <= Bound, Flagged(<<>>, t.ci), NEW error \in {"errrun", "errerr"}
  PROVE  Fine(Recover(t, error))
<1>0. t.ci \in Seq(Frames) /\ t.cs \in Seq(Acts) /\ t.nCcalls \in Nat /\ t.cs # <<>> /\ Len(t.ci) \in Nat
  BY StateFields
<1>1. CASE PCalls(t) = {}
  <2>. DEFINE v == [t EXCEPT !.status = error]
  <2>1. v \in States /\ Fields(v, t.ci, t.cs, t.nCcalls, t.nny, t.allowhook, t.errfunc, error, t.lock)
    BY ONLY t \in States, error \in {"errrun", "errerr"} DEF States, Fields
  <2>2. Recover(t, error) = ResumeEnds(v)
    BY <1>1 DEF Recover
  <2>. HIDE DEF v
  <2>3. v.status \notin {"ok", "yield"}
    BY <2>1 DEF Fields
  <2>4. v.cs # <<>> /\ v.cs[1].kind = "resume" /\ v.cs[1].nny = 1 /\ v.lock = 1 /\ v.nCcalls >= 1 /\ v.nCcalls <= Bound
    BY <1>0, <2>1 DEF Fields
  <2>. QED  BY <2>1, <2>2, <2>3, <2>4, ResumeEndsFine
<1>2. CASE PCalls(t) # {}
  <2>. DEFINE i == Max(PCalls(t))
              f == t.ci[i]
              g == [f EXCEPT !.pcall = FALSE]
              c2 == [kind |-> "rawrun", of |-> "unroll", nCcalls |-> t.nCcalls]
              di == SubSeq(t.ci, 1, i)
              v == [t EXCEPT !.ci = SubSeq(@, 1, i), !.allowhook = t.ci[i].oah, !.nny = 0]
              w == Push(v, c2)
              u == Recover(t, error)
  <2>1. i \in 1 .. Len(t.ci) /\ f.pcall
    <3>1. PCalls(t) \in SUBSET (1 .. Len(t.ci))
      BY <1>0 DEF PCalls
    <3>2. i \in PCalls(t)
      <4>. HIDE DEF i
      <4>. QED  BY <1>0, <1>2, <3>1, MaxIs DEF i
    <3>. HIDE DEF i
    <3>. QED  BY <3>1, <3>2 DEF PCalls
  <2>2. f \in Frames /\ ~f.lua /\ f.oah /\ FrameHandler(f.old, t.ci, i - 1) /\ \A k \in 1 .. i - 1 : Good(t.ci[k])
    <3>. HIDE DEF i
    <3>1. FlaggedFrame(<<>>, t.ci, i)
      BY <2>1 DEF Flagged
    <3>. QED  BY <1>0, <2>1, <3>1 DEF FlaggedFrame
  <2>. HIDE DEF i
  <2>3. di \in Seq(Frames) /\ Len(di) = i /\ i \in Nat /\ i >= 1 /\ \A k \in 1..i : di[k] = t.ci[k]
    BY <1>0, <2>1
  <2>4. c2 \in Acts
    BY <1>0 DEF Acts
  <2>. HIDE DEF f, di, c2
  <2>5. v \in States /\ Fields(v, di, t.cs, t.nCcalls, 0, TRUE, t.errfunc, "ok", 1)
    <3>1. f.oah = TRUE
      BY <2>2 DEF Frames
    <3>. QED  BY ONLY <2>3, <3>1, t \in States, t.status = "ok", t.lock = 1 DEF States, Fields, di, f
  <2>6. u = Continue(w)
    BY <1>2 DEF Recover, i, c2
  <2>. HIDE DEF v, w, u
  <2>7. w \in States /\ Fields(w, di, Append(t.cs, c2), t.nCcalls, 0, TRUE, t.errfunc, "ok", 1)
    BY <2>4, <2>5, PushDoes DEF Fields, w
  <2>8. w.ci # <<>> /\ LastFrame(w) = f
    BY <2>3, <2>7 DEF Fields, LastFrame, f
  <2>9. /\ g \in Frames /\ g.lua = f.lua /\ g.k = f.k /\ ~g.pcall
        /\ u \in States
        /\ Fields(u, WithLast(di, g), Append(Append(t.cs, c2), Body("running")), t.nCcalls, 0, TRUE, f.old, "ok", 0)
    <3>1. w.lock - 1 = 0
      BY <2>7 DEF Fields
    <3>2. /\ g \in Frames /\ g.lua = f.lua /\ g.k = f.k /\ ~g.pcall
          /\ Continue(w) \in States
          /\ Fields(Continue(w), WithLast(w.ci, g), Append(w.cs, Body("running")), w.nCcalls, w.nny,
                    w.allowhook, IF f.pcall THEN f.old ELSE w.errfunc, w.status, w.lock - 1)
      BY <2>7, <2>8, ContinueDoes
    <3>. QED  BY <2>1, <2>6, <2>7, <3>1, <3>2 DEF Fields
  <2>. HIDE DEF g
  <2>10. /\ u.ci \in Seq(Frames) /\ Len(u.ci) = i /\ u.ci[i] = g
         /\ \A k \in 1 .. i - 1 : u.ci[k] = t.ci[k]
    <3>1. di # <<>>
      BY <2>3
    <3>2. /\ WithLast(di, g) \in Seq(Frames) /\ Len(WithLast(di, g)) = i /\ WithLast(di, g)[i] = g
          /\ \A k \in 1 .. i - 1 : WithLast(di, g)[k] = di[k]
      BY ONLY <2>3, <2>9, <3>1, LastChanged
    <3>. QED  BY <2>3, <2>9, <3>2, SMTT(45) DEF Fields
  <2>11. Append(t.cs, c2) = <<t.cs[1], c2>>
    <3>1. t.cs = <<t.cs[1]>>
      BY ONLY <1>0, Len(t.cs) = 1
    <3>2. ASSUME NEW x, NEW y PROVE Append(<<x>>, y) = <<x, y>>
      <4>. DEFINE S == {x, y}
      <4>1. <<x>> \in Seq(S) /\ <<x, y>> \in Seq(S) /\ y \in S /\ Len(<<x>>) = 1
        OBVIOUS
      <4>. HIDE DEF S
      <4>2. /\ Append(<<x>>, y) \in Seq(S) /\ Len(Append(<<x>>, y)) = 2
            /\ Append(<<x>>, y)[1] = x /\ Append(<<x>>, y)[2] = y
        BY <4>1
      <4>3. /\ Len(<<x, y>>) = 2 /\ <<x, y>>[1] = x /\ <<x, y>>[2] = y
        OBVIOUS
      <4>4. \A k \in 1..2 : Append(<<x>>, y)[k] = <<x, y>>[k]
        BY <4>2, <4>3
      <4>. QED  BY ONLY <4>1, <4>2, <4>3, <4>4, SeqEqual
    <3>3. Append(<<t.cs[1]>>, c2) = <<t.cs[1], c2>>
      BY ONLY <3>2
    <3>. QED  BY <3>1, <3>3
  <2>12. u.cs = Append(<<t.cs[1], c2>>, Body("running"))
    BY <2>9, <2>11 DEF Fields
  <2>. DEFINE m == i - 1
  <2>20. /\ m \in Nat /\ m <= i /\ m <= m /\ m <= Len(t.ci) /\ m + 1 = i /\ Len(<<>>) = 0 /\ 0 \in Nat
         /\ \A k \in 1..i : k <= m \/ k = i
         /\ \A k \in 1..m : u.ci[k] = t.ci[k]
    BY <1>0, <2>1, <2>3, <2>10
  <2>21. FrameHandler(f.old, t.ci, m)
    BY <2>2
  <2>. HIDE DEF m
  <2>22. \A k \in 1..m : u.ci[k].pcall = t.ci[k].pcall /\ u.ci[k].handler = t.ci[k].handler /\ (Good(t.ci[k]) => Good(u.ci[k]))
    BY <2>20
  <2>13. Flagged(<<>>, u.ci)
    <3>1. \A k \in 1..i : (k <= m /\ u.ci[k] = t.ci[k]) \/ ~u.ci[k].pcall
      BY <2>3, <2>9, <2>10, <2>20
    <3>2. \A j \in 1..0 : FALSE
      OBVIOUS
    <3>. DEFINE e == <<>>
    <3>3. Len(e) = 0 /\ Flagged(e, t.ci) /\ \A j \in 1..0 : e[j].kind = "pcall" => j \in 1..0 /\ e[j] = e[j]
      BY <2>20, <3>2
    <3>. HIDE DEF e
    <3>4. Flagged(e, u.ci)
      BY ONLY <1>0, <2>3, <2>10, <2>20, <2>22, <3>1, <3>3, FlaggedMoves
    <3>. QED  BY <3>4 DEF e
  <2>14. FrameHandler(u.errfunc, u.ci, i)
    <3>1. \A k \in m + 1 .. i : ~u.ci[k].pcall
      BY <2>3, <2>9, <2>10, <2>20
    <3>2. \A k \in m + 1 .. m : ~t.ci[k].pcall
      BY <2>20
    <3>3. u.errfunc = f.old
      BY <2>9 DEF Fields
    <3>. QED  BY ONLY <2>21, <2>3, <2>20, <2>22, <3>1, <3>2, <3>3, FrameHandlerMoves
  <2>15. /\ t.cs[1] \in Acts /\ Body("running") \in Acts /\ Body("running").kind = "body"
         /\ RunsC(Body("running")) /\ c2.kind = "rawrun" /\ c2.of # "pcall" /\ c2.nCcalls = t.nCcalls
    BY <1>0 DEF Body, Acts, RunsC, c2
  <2>16. /\ u.nCcalls = c2.nCcalls /\ u.nny = 0 /\ u.allowhook /\ u.status = "ok" /\ u.lock = 0
    BY <2>9, <2>15 DEF Fields
  <2>17. \A k \in 1 .. i - 1 : Good(u.ci[k])
    BY <2>2, <2>10
  <2>18. /\ ~u.ci[i].pcall /\ ~u.ci[i].lua /\ c2.nCcalls >= 1 /\ c2.nCcalls <= Bound
         /\ u.lock = IF RunsC(Body("running")) THEN 0 ELSE 1
    BY <2>2, <2>9, <2>10, <2>15, <2>16
  <2>19. Fine(u)
    BY ONLY <2>3, <2>4, <2>9, <2>10, <2>12, <2>13, <2>14, <2>15, <2>16, <2>17, <2>18, Restarts,
            t.cs[1].kind = "resume", t.cs[1].nny = 1
  <2>. QED  BY <2>19 DEF u
<1>. QED  BY <1>1, <1>2

RawRuns(t) == {i \in DOMAIN t.cs : t.cs[i].kind = "rawrun"}

\* The innermost luaD_rawrunprotected.
LEMMA RawRunOf ==
  ASSUME NEW t, NEW below, Ready(t, below), NEW j, j = Max(RawRuns(t))
  PROVE  /\ j \in 2..Len(t.cs) /\ j \in Nat /\ t.cs[j].kind = "rawrun"
         /\ \A i \in j + 1 .. Len(t.cs) : t.cs[i].kind # "rawrun"
<1>1. t.cs \in Seq(Acts) /\ Len(t.cs) \in Nat /\ Len(t.cs) >= 2 /\ t.cs[2].kind = "rawrun" /\ t.cs[1].kind = "resume"
  BY StateFields DEF Ready, Joined, Bottom
<1>2. RawRuns(t) = {i \in 1..Len(t.cs) : t.cs[i].kind = "rawrun"}
  BY <1>1 DEF RawRuns
<1>3. RawRuns(t) \in SUBSET (1..Len(t.cs)) /\ RawRuns(t) # {}
  BY <1>1, <1>2
<1>4. j \in RawRuns(t) /\ \A i \in RawRuns(t) : i <= j
  BY <1>1, <1>3, MaxIs
<1>5. j \in 1..Len(t.cs) /\ t.cs[j].kind = "rawrun" /\ j # 1
  BY <1>1, <1>2, <1>4
<1>6. \A i \in j + 1 .. Len(t.cs) : t.cs[i].kind # "rawrun"
  <2>1. \A i \in j + 1 .. Len(t.cs) : i \in 1..Len(t.cs) /\ ~(i <= j)
    BY <1>1, <1>5
  <2>. QED  BY <1>2, <1>4, <2>1
<1>. QED  BY <1>1, <1>5, <1>6

\* What is thrown to lua_resume.
LEMMA CaughtAtBase ==
  ASSUME NEW t, NEW below, Ready(t, below), NEW c, c = ThrowAt(t, 2)
  PROVE  /\ c \in States /\ Len(c.cs) = 1 /\ c.cs # <<>> /\ c.cs[1].kind = "resume" /\ c.cs[1].nny = 1
         /\ c.nCcalls >= 1 /\ c.nCcalls <= Bound /\ Flagged(<<>>, c.ci) /\ t.cs[2].of # "pcall"
         /\ c.ci = t.ci /\ c.lock = t.lock /\ c.status = t.status /\ c.allowhook = t.allowhook
         /\ c.errfunc = t.errfunc
<1>1. /\ t \in States /\ t.cs \in Seq(Acts) /\ Len(t.cs) \in Nat /\ Len(t.cs) >= 2 /\ Bottom(t.cs)
      /\ Flagged(t.cs, t.ci) /\ Limits(t.cs) /\ t.ci \in Seq(Frames) /\ Len(t.ci) \in Nat
  BY StateFields DEF Ready, Joined, Bottom
<1>2. t.cs[2] \in Acts /\ t.cs[2].kind = "rawrun" /\ t.cs[2].of # "pcall" /\ t.cs[2].nCcalls >= 1
  BY <1>1 DEF Bottom
<1>3. t.cs[2].nCcalls \in Nat
  BY <1>2 DEF Acts
<1>4. t.cs[2].nCcalls <= Bound
  BY <1>1, <1>2 DEF Limits
<1>. DEFINE q == SubSeq(t.cs, 1, 2 - 1)
<1>5. q \in Seq(Acts) /\ Len(q) = 1 /\ q[1] = t.cs[1] /\ q # <<>>
  BY <1>1
<1>. HIDE DEF q
<1>6. c \in States /\ Fields(c, t.ci, q, t.cs[2].nCcalls, t.nny, t.allowhook, t.errfunc, t.status, t.lock)
  <2>. DEFINE N == t.cs[2].nCcalls
  <2>1. c = [t EXCEPT !.cs = q, !.nCcalls = N]
    BY DEF ThrowAt, q
  <2>2. N \in Nat
    BY <1>3
  <2>. HIDE DEF N
  <2>3. c \in States /\ Fields(c, t.ci, q, N, t.nny, t.allowhook, t.errfunc, t.status, t.lock)
    <3>1. q \in Seq(Acts)
      BY <1>5
    <3>2. t \in States
      BY <1>1
    <3>3. c \in States
      BY ONLY <3>1, <3>2, <2>1, <2>2 DEF States
    <3>. QED  BY ONLY <3>2, <3>3, <2>1 DEF States, Fields
  <2>. QED  BY <2>3 DEF N
<1>7. Flagged(<<>>, t.ci)
  <2>. DEFINE e == <<>>
  <2>1. Len(e) = 0 /\ 0 \in Nat /\ 0 <= Len(t.cs) /\ Len(t.ci) <= Len(t.ci) /\ \A i \in 1..0 : e[i] = t.cs[i]
    BY <1>1
  <2>. HIDE DEF e
  <2>2. Flagged(e, t.ci)
    BY ONLY <1>1, <2>1, FlaggedCut
  <2>. QED  BY <2>2 DEF e
<1>8. t.cs[1].kind = "resume" /\ t.cs[1].nny = 1
  BY <1>1 DEF Bottom
<1>. QED  BY <1>2, <1>4, <1>5, <1>6, <1>7, <1>8 DEF Fields

\* An error is taken by the innermost protected call.
LEMMA ErrorFine ==
  ASSUME MaxCCalls \in Nat \ {0}, NEW t, NEW below, Ready(t, below), t.lock = 1, t.status = "ok",
         NEW error \in {"errrun", "errerr"}
  PROVE  Fine(Throw(t, error))
<1>. DEFINE j == Max(RawRuns(t))
<1>1. j \in 2..Len(t.cs) /\ j \in Nat /\ t.cs[j].kind = "rawrun"
  BY RawRunOf
<1>2. Throw(t, error) = IF t.cs[j].of = "pcall" THEN PCallFails(ThrowAt(t, j)) ELSE Recover(ThrowAt(t, j), error)
  <2>1. error # "yield"
    OBVIOUS
  <2>. QED  BY <2>1 DEF Throw, ThrowAt, RawRuns
<1>. HIDE DEF j
<1>3. CASE j = 2
  <2>. DEFINE c == ThrowAt(t, 2)
  <2>1. /\ c \in States /\ Len(c.cs) = 1 /\ c.cs[1].kind = "resume" /\ c.cs[1].nny = 1
        /\ c.nCcalls >= 1 /\ c.nCcalls <= Bound /\ Flagged(<<>>, c.ci) /\ t.cs[2].of # "pcall"
        /\ c.lock = 1 /\ c.status = "ok"
    BY CaughtAtBase
  <2>. HIDE DEF c
  <2>2. Fine(Recover(c, error))
    BY <2>1, RecoverFine
  <2>. QED  BY <1>2, <1>3, <2>1, <2>2 DEF c
<1>4. CASE j # 2
  <2>1. j \in 3..Len(t.cs)
    BY <1>1, <1>4
  <2>2. t.cs[j].of = "pcall" /\ Fine(PCallFails(ThrowAt(t, j)))
    BY <1>1, <2>1, PCallFailsFine
  <2>. QED  BY <1>2, <2>2
<1>. QED  BY <1>3, <1>4

\* A yield goes to lua_resume: no protected call in C is under way.
LEMMA YieldFine ==
  ASSUME MaxCCalls \in Nat \ {0}, NEW t, NEW below, Ready(t, below), t.lock = 1, t.status = "yield", t.nny = 0,
         t.cs[Len(t.cs)].kind \in {"body", "execute"}, Len(t.ci) >= 1, ~t.ci[Len(t.ci)].pcall
  PROVE  Fine(Throw(t, "yield"))
<1>. DEFINE j == Max(RawRuns(t))
            c == ThrowAt(t, 2)
            n == Len(t.cs)
            l == Len(t.ci)
<1>0. t.cs \in Seq(Acts) /\ t.ci \in Seq(Frames) /\ Joined(t.cs, t.ci, below) /\ Counted(t) /\ n \in Nat /\ l \in Nat
  BY StateFields DEF Ready
<1>1. j \in 2..n /\ j \in Nat /\ t.cs[j].kind = "rawrun"
  BY RawRunOf
<1>2. Throw(t, "yield") = IF t.cs[j].of = "pcall" THEN PCallFails(ThrowAt(t, j)) ELSE ResumeEnds(ThrowAt(t, j))
  BY DEF Throw, ThrowAt, RawRuns
<1>. HIDE DEF j
<1>3. Free(t.cs, n)
  BY <1>0, CountsAre DEF Counted
<1>4. \A i \in 1..n : t.cs[i].kind \notin {"hook", "pcall"} /\ (t.cs[i].kind = "rawrun" => i = 2)
  BY <1>0, <1>3, FreeMeans
<1>5. j = 2
  BY <1>1, <1>4
<1>6. t.allowhook
  BY <1>0, <1>4 DEF Counted, Unhooked
<1>7. FrameHandler(t.errfunc, t.ci, l)
  BY <1>0, <1>4 DEF Counted, HandlerIs
<1>8. \A i \in 1..l - 1 : Good(t.ci[i])
  <2>1. GoesOn(t.cs, t.ci, n, l)
    BY <1>0, TopJoined
  <2>. QED  BY <1>3, <2>1 DEF GoesOn
<1>9. /\ c \in States /\ Len(c.cs) = 1 /\ c.cs # <<>> /\ c.cs[1].kind = "resume" /\ c.cs[1].nny = 1
      /\ c.nCcalls >= 1 /\ c.nCcalls <= Bound /\ Flagged(<<>>, c.ci) /\ t.cs[2].of # "pcall"
      /\ c.ci = t.ci /\ c.lock = t.lock /\ c.status = t.status /\ c.allowhook = t.allowhook
      /\ c.errfunc = t.errfunc
  BY CaughtAtBase
<1>10. t.ci # <<>>
  BY <1>0
<1>. HIDE DEF c
<1>11. Fine(ResumeEnds(c))
  BY <1>6, <1>7, <1>8, <1>9, <1>10, ResumeEndsFine
<1>. QED  BY <1>2, <1>5, <1>9, <1>11 DEF c

-----------------------------------------------------------------------------
(* Calls.                                                                   *)

\* ds is cs, of length n, with a on top.
Pushed(ds, cs, a, n, h) ==
  /\ ds \in Seq(Acts) /\ n \in Nat /\ h \in Nat /\ n = Len(cs) /\ h = n + 1 /\ Len(ds) = h /\ ds[h] = a
  /\ \A i \in 1..n : ds[i] = cs[i]

LEMMA PushIs ==
  ASSUME NEW cs \in Seq(Acts), NEW a \in Acts, NEW n, n = Len(cs), NEW ds, ds = Append(cs, a), NEW h, h = n + 1
  PROVE  Pushed(ds, cs, a, n, h)
BY DEF Pushed

LEMMA PushCounts ==
  ASSUME NEW cs, NEW a, NEW n, NEW ds, NEW h, Pushed(ds, cs, a, n, h)
  PROVE  /\ CallsTo(ds, h) = CallsTo(cs, n) + IF a.kind = "call" THEN 1 ELSE 0
         /\ NoYieldsTo(ds, h) = NoYieldsTo(cs, n) + IF NoYield(a) THEN 1 ELSE 0
         /\ Unhooked(ds, h) <=> Unhooked(cs, n) /\ a.kind # "hook"
         /\ Free(ds, h) <=> Free(cs, n) /\ ~NoYield(a)
         /\ Unhooked(ds, n) = Unhooked(cs, n)
<1>1. /\ ds \in Seq(Acts) /\ n \in Nat /\ h \in Nat \ {0} /\ h - 1 = n /\ Len(ds) = h /\ ds[h] = a
      /\ \A i \in 1..n : ds[i] = cs[i]
  BY DEF Pushed
<1>2. /\ CallsTo(ds, n) = CallsTo(cs, n) /\ NoYieldsTo(ds, n) = NoYieldsTo(cs, n)
      /\ Unhooked(ds, n) = Unhooked(cs, n) /\ Free(ds, n) = Free(cs, n)
  BY ONLY <1>1, CountsSame
<1>3. /\ CallsTo(ds, h) = CallsTo(ds, h - 1) + IF ds[h].kind = "call" THEN 1 ELSE 0
      /\ NoYieldsTo(ds, h) = NoYieldsTo(ds, h - 1) + IF NoYield(ds[h]) THEN 1 ELSE 0
      /\ Unhooked(ds, h) <=> Unhooked(ds, h - 1) /\ ds[h].kind # "hook"
      /\ Free(ds, h) <=> Free(ds, h - 1) /\ ~NoYield(ds[h])
  BY ONLY <1>1, CountsNext
<1>. QED  BY ONLY <1>1, <1>2, <1>3

\* Something begins on top.
LEMMA PushReady ==
  ASSUME NEW t, NEW below, Ready(t, below), NEW n, n = Len(t.cs), NEW l, l = Len(t.ci),
         NEW a \in Acts, NEW u \in States, u.cs = Append(t.cs, a), l <= Len(u.ci),
         Alike(t.ci, u.ci, below[n], l),
         Local(u.cs, u.ci, Append(below, l), n + 1, Len(u.ci)),
         n >= 3 => Begins(t.cs, u.ci, n, l, a),
         GoesOn(u.cs, u.ci, n + 1, Len(u.ci)), Flagged(u.cs, u.ci),
         a.kind = "rawrun" => a.nCcalls <= Bound, Counted(u)
  PROVE  Ready(u, Append(below, l)) /\ Append(below, l) \in Seq(Nat)
<1>1. /\ t.cs \in Seq(Acts) /\ t.ci \in Seq(Frames) /\ u.ci \in Seq(Frames) /\ l \in Nat /\ Joined(t.cs, t.ci, below)
      /\ Limits(t.cs)
  BY StateFields DEF Ready
<1>2. below[n] <= l /\ below \in Seq(Nat) /\ n \in Nat /\ n >= 2
  BY <1>1, TopJoined
<1>3. Joined(u.cs, u.ci, Append(below, l))
  <2>1. /\ below[Len(t.cs)] <= l /\ l <= Len(t.ci) /\ l <= Len(u.ci) /\ (l = Len(t.ci) \/ Len(t.cs) = 2)
        /\ Alike(t.ci, u.ci, below[Len(t.cs)], l)
    BY <1>1, <1>2
  <2>2. /\ Local(Append(t.cs, a), u.ci, Append(below, l), Len(t.cs) + 1, Len(u.ci))
        /\ GoesOn(Append(t.cs, a), u.ci, Len(t.cs) + 1, Len(u.ci)) /\ Flagged(Append(t.cs, a), u.ci)
        /\ (Len(t.cs) >= 3 => Begins(t.cs, u.ci, Len(t.cs), l, a))
    OBVIOUS
  <2>3. Joined(Append(t.cs, a), u.ci, Append(below, l))
    BY ONLY <1>1, <2>1, <2>2, a \in Acts, PushJoined
  <2>. QED  BY <2>3
<1>4. Limits(u.cs)
  <2>1. Len(u.cs) = n + 1 /\ u.cs[n + 1] = a /\ \A i \in 1..n : u.cs[i] = t.cs[i]
    BY <1>1
  <2>2. \A i \in 2 .. n + 1 : i \in 2..n \/ i = n + 1
    BY <1>2
  <2>3. \A i \in 2..n : i \in 1..n
    OBVIOUS
  <2>. QED  BY <1>1, <2>1, <2>2, <2>3 DEF Limits
<1>5. Append(below, l) \in Seq(Nat)
  BY <1>1, <1>2
<1>. QED  BY <1>3, <1>4, <1>5 DEF Ready

\* What may be on top when an error is raised.
Raises(t) ==
  \/ t.cs[Len(t.cs)].kind \in {"call", "execute", "hook"}
  \/ t.cs[Len(t.cs)].kind = "body" /\ ~t.ci[Len(t.ci)].pcall

LEMMA AlikeSelf ==
  ASSUME NEW ci, NEW low, NEW m
  PROVE  Alike(ci, ci, low, m)
BY DEF Alike

\* The message handler is the same when what begins is not a protected call.
LEMMA HandlerPush ==
  ASSUME NEW e, NEW cs \in Seq(Acts), NEW ci, NEW n, n = Len(cs), NEW l \in Nat, NEW a \in Acts, a.kind # "pcall",
         HandlerIs(e, cs, ci, n, l), NEW ds, ds = Append(cs, a), NEW h, h = n + 1
  PROVE  HandlerIs(e, ds, ci, h, l)
<1>1. /\ n \in Nat /\ h \in Nat /\ \A i \in 1..n : ds[i] = cs[i] /\ n <= n /\ n <= h
      /\ \A i \in n + 1 .. n : FALSE
      /\ \A i \in l + 1 .. l : FALSE
      /\ \A i \in n + 1 .. h : i = h
  OBVIOUS
<1>2. ds[h] = a /\ n <= n /\ n <= h /\ l <= l
  OBVIOUS
<1>3. \A i \in n + 1 .. h : ds[i].kind # "pcall"
  BY <1>1, <1>2
<1>4. \A i \in n + 1 .. n : cs[i].kind # "pcall"
  BY <1>1
<1>5. \A i \in l + 1 .. l : ~ci[i].pcall
  BY <1>1
<1>. QED  BY ONLY <1>1, <1>2, <1>3, <1>4, <1>5, l \in Nat, HandlerIs(e, cs, ci, n, l), HandlerMoves

\* And so is what is flagged.
LEMMA FlaggedPush ==
  ASSUME NEW cs \in Seq(Acts), NEW ci \in Seq(Frames), NEW a \in Acts, a.kind # "pcall",
         Flagged(cs, ci), NEW ds, ds = Append(cs, a)
  PROVE  Flagged(ds, ci)
<1>. DEFINE n == Len(cs)
            h == n + 1
            l == Len(ci)
<1>1. /\ n \in Nat /\ h \in Nat /\ l \in Nat /\ Len(ds) = h /\ ds[h] = a /\ l <= l
      /\ \A j \in 1..h : j = h \/ (j \in 1..n /\ ds[j] = cs[j])
      /\ n = Len(cs) /\ l = Len(ci)
  OBVIOUS
<1>2. \A j \in 1..h : ds[j].kind = "pcall" => j \in 1..n /\ ds[j] = cs[j]
  BY <1>1
<1>3. \A i \in 1..l : (i <= l /\ ci[i] = ci[i]) \/ ~ci[i].pcall
  BY <1>1
<1>. HIDE DEF n, h, l
<1>. QED  BY ONLY <1>1, <1>2, <1>3, Flagged(cs, ci), FlaggedMoves, SMTT(45)

\* The lengths of t's stacks, and what the levels are with one more activation.
Above(t, below, n, l, h, b) ==
  n = Len(t.cs) /\ l = Len(t.ci) /\ h = n + 1 /\ b = Append(below, l)

\* u is t with a on top.
Begun(t, a, u) ==
  /\ u \in States /\ u.cs = Append(t.cs, a) /\ u.ci = t.ci
  /\ u.nCcalls = t.nCcalls + IF a.kind = "call" THEN 1 ELSE 0
  /\ u.nny = t.nny + IF NoYield(a) THEN 1 ELSE 0
  /\ u.allowhook <=> t.allowhook /\ a.kind # "hook"
  /\ u.errfunc = t.errfunc

\* It may be, on top of n activations and l frames.
MayBegin(t, a, n, l) ==
  /\ n >= 3 => Begins(t.cs, t.ci, n, l, a)
  /\ a.kind = "hook" => t.allowhook
  /\ a.kind = "call" /\ Free(t.cs, n) /\ ~NoYield(a) /\ l >= 1 => Good(t.ci[l])

\* A call, a hook or an error begins.
LEMMA BeginReady ==
  ASSUME NEW t, NEW below, Ready(t, below), NEW n, NEW l, NEW h, NEW b, Above(t, below, n, l, h, b),
         NEW a \in Acts, a.kind \in {"call", "hook", "raise"}, NEW u, Begun(t, a, u),
         BegunBy(u.cs, t.ci, b, h), MayBegin(t, a, n, l)
  PROVE  Ready(u, b) /\ b \in Seq(Nat) /\ u.cs[Len(u.cs)] = a /\ Len(u.cs) = h
<1>1. n = Len(t.cs) /\ l = Len(t.ci) /\ h = n + 1 /\ b = Append(below, l)
  BY DEF Above
<1>3. /\ u \in States /\ u.cs = Append(t.cs, a) /\ u.ci = t.ci
      /\ u.nCcalls = t.nCcalls + IF a.kind = "call" THEN 1 ELSE 0
      /\ u.nny = t.nny + IF NoYield(a) THEN 1 ELSE 0
      /\ u.allowhook <=> t.allowhook /\ a.kind # "hook"
      /\ u.errfunc = t.errfunc
      /\ n >= 3 => Begins(t.cs, t.ci, n, l, a)
      /\ a.kind = "hook" => t.allowhook
      /\ a.kind = "call" /\ Free(t.cs, n) /\ ~NoYield(a) /\ l >= 1 => Good(t.ci[l])
  BY DEF Begun, MayBegin
<1>2. /\ t \in States /\ t.cs \in Seq(Acts) /\ t.ci \in Seq(Frames) /\ l \in Nat /\ n \in Nat
      /\ Joined(t.cs, t.ci, below) /\ Counted(t) /\ l = Len(t.ci) /\ n = Len(t.cs) /\ Flagged(t.cs, t.ci)
      /\ t.nCcalls \in Nat /\ t.nny \in Nat /\ t.allowhook \in BOOLEAN /\ u.allowhook \in BOOLEAN
  BY <1>1, <1>3, StateFields, SMTT(45) DEF Ready, Joined
<1>4. Pushed(u.cs, t.cs, a, n, h)
  BY ONLY <1>1, <1>2, <1>3, a \in Acts, PushIs
<1>5. /\ u.cs \in Seq(Acts) /\ n \in Nat /\ h \in Nat /\ Len(u.cs) = h /\ u.cs[h] = a /\ \A i \in 1..n : u.cs[i] = t.cs[i]
      /\ h = n + 1
  BY ONLY <1>4 DEF Pushed
<1>6. /\ CallsTo(u.cs, h) = CallsTo(t.cs, n) + IF a.kind = "call" THEN 1 ELSE 0
      /\ NoYieldsTo(u.cs, h) = NoYieldsTo(t.cs, n) + IF NoYield(a) THEN 1 ELSE 0
      /\ Unhooked(u.cs, h) <=> Unhooked(t.cs, n) /\ a.kind # "hook"
      /\ Free(u.cs, h) <=> Free(t.cs, n) /\ ~NoYield(a)
      /\ Unhooked(u.cs, n) = Unhooked(t.cs, n)
  BY ONLY <1>4, PushCounts
<1>7. /\ CallsTo(t.cs, n) \in Nat /\ NoYieldsTo(t.cs, n) \in Nat
      /\ Unhooked(t.cs, n) \in BOOLEAN /\ Unhooked(u.cs, h) \in BOOLEAN
  BY <1>2, CountsAre DEF Unhooked
<1>8. /\ n >= 2 /\ below[n] <= l /\ GoesOn(t.cs, t.ci, n, l) /\ below \in Seq(Nat) /\ Len(below) = n
  BY ONLY <1>2, TopJoined
<1>9. b[h] = l /\ h >= 3 /\ h - 1 = n
  <2>1. Append(below, l)[Len(below) + 1] = l
    BY ONLY <1>2, <1>8
  <2>. QED  BY ONLY <1>1, <1>2, <1>8, <2>1
<1>10. Local(u.cs, u.ci, b, h, l)
  <2>1. FramesOf(u.cs, u.ci, b, h, l)
    BY <1>5, <1>9 DEF FramesOf
  <2>2. Saved(u.cs, u.ci, b, h)
    BY <1>2, <1>3, <1>5, <1>6, <1>9 DEF Saved, Counted
  <2>. QED  BY <1>3, <2>1, <2>2 DEF Local
<1>11. n >= 3 => Begins(t.cs, u.ci, n, l, a)
  BY <1>3
<1>12. GoesOn(u.cs, u.ci, h, l)
  BY <1>3, <1>5, <1>6, <1>8, <1>9 DEF GoesOn
<1>13. Flagged(u.cs, u.ci)
  <2>1. a.kind # "pcall"
    OBVIOUS
  <2>. QED  BY <1>2, <1>3, <2>1, FlaggedPush
<1>14. Counted(u)
  <2>1. HandlerIs(t.errfunc, t.cs, t.ci, n, l)
    BY <1>2 DEF Counted
  <2>2. HandlerIs(t.errfunc, u.cs, t.ci, h, l)
    <3>1. a.kind # "pcall"
      OBVIOUS
    <3>2. u.cs = Append(t.cs, a) /\ a \in Acts
      BY <1>3
    <3>. QED  BY ONLY <1>1, <1>2, <2>1, <3>1, <3>2, HandlerPush
  <2>3. u.cs[2] = t.cs[2]
    BY <1>5, <1>8
  <2>4. u.nny = NoYieldsTo(u.cs, h)
    BY <1>2, <1>3, <1>6, <1>7 DEF Counted
  <2>5. u.nCcalls = u.cs[2].nCcalls + CallsTo(u.cs, h)
    <3>1. t.cs[2].nCcalls \in Nat
      <4>1. t.cs[2] \in Acts /\ t.cs[2].kind = "rawrun"
        BY <1>2, <1>8 DEF Joined, Bottom
      <4>. QED  BY <4>1 DEF Acts
    <3>2. t.nCcalls = t.cs[2].nCcalls + CallsTo(t.cs, n)
      BY <1>2 DEF Counted
    <3>3. u.nCcalls = t.nCcalls + IF a.kind = "call" THEN 1 ELSE 0
      BY <1>3
    <3>. QED  BY ONLY <1>2, <1>6, <1>7, <2>3, <3>1, <3>2, <3>3, SMTT(45)
  <2>6. u.allowhook = Unhooked(u.cs, h)
    BY <1>2, <1>3, <1>6, <1>7 DEF Counted
  <2>. QED  BY <1>2, <1>3, <1>5, <2>2, <2>4, <2>5, <2>6 DEF Counted
<1>15. Ready(u, b) /\ b \in Seq(Nat)
  <2>1. l <= l /\ Alike(t.ci, u.ci, below[n], l) /\ Len(u.ci) = l /\ (a.kind = "rawrun" => a.nCcalls <= Bound)
    BY <1>2, <1>3, AlikeSelf
  <2>. QED  BY <1>1, <1>2, <1>3, <1>5, <1>10, <1>11, <1>12, <1>13, <1>14, <2>1, PushReady, ZenonT(45)
<1>. QED  BY <1>5, <1>15

LEMMA RaiseFine ==
  ASSUME NEW t, NEW below, Ready(t, below), t.lock = 1, t.status = "ok", t.nCcalls <= Bound, Raises(t),
         Len(t.cs) >= 3
  PROVE  Fine(Push(t, Raise))
<1>. DEFINE n == Len(t.cs)
            h == n + 1
            l == Len(t.ci)
            u == Push(t, Raise)
            b == Append(below, l)
<1>1. Raise \in Acts /\ Raise.kind = "raise" /\ ~RunsC(Raise) /\ ~NoYield(Raise)
  BY DEF Raise, Acts, RunsC, NoYield
<1>2. t \in States /\ t.cs \in Seq(Acts) /\ t.ci \in Seq(Frames) /\ n \in Nat /\ t.nCcalls \in Nat /\ t.nny \in Nat
  BY StateFields DEF Ready
<1>3. /\ u \in States
      /\ Fields(u, t.ci, Append(t.cs, Raise), t.nCcalls, t.nny, t.allowhook, t.errfunc, t.status, t.lock)
  BY <1>1, <1>2, PushDoes
<1>. HIDE DEF u
<1>4. /\ u.cs = Append(t.cs, Raise) /\ u.ci = t.ci /\ u.nCcalls = t.nCcalls /\ u.nny = t.nny
      /\ u.allowhook = t.allowhook /\ u.errfunc = t.errfunc /\ u.status = "ok" /\ u.lock = 1
  BY <1>3 DEF Fields
<1>5. /\ Raise.kind \in {"call", "hook", "raise"}
      /\ u.nCcalls = t.nCcalls + IF Raise.kind = "call" THEN 1 ELSE 0
      /\ u.nny = t.nny + IF NoYield(Raise) THEN 1 ELSE 0
      /\ u.allowhook <=> t.allowhook /\ Raise.kind # "hook"
      /\ Raise.kind # "hook" /\ Raise.kind # "call"
  BY <1>1, <1>2, <1>4
<1>6. BegunBy(u.cs, t.ci, b, h)
  <2>1. u.cs[h] = Raise
    BY <1>1, <1>2, <1>4
  <2>. HIDE DEF h, b
  <2>. QED  BY <1>1, <2>1 DEF BegunBy
<1>7. Begins(t.cs, t.ci, n, l, Raise)
  BY <1>1 DEF Begins, Raises
<1>8. Above(t, below, n, l, h, b)
  BY DEF Above
<1>. HIDE DEF h, b, n, l
<1>9. Ready(u, b) /\ b \in Seq(Nat) /\ u.cs[Len(u.cs)] = Raise /\ Len(u.cs) = h
  <2>1. MayBegin(t, Raise, n, l)
    BY <1>5, <1>7 DEF MayBegin
  <2>2. Begun(t, Raise, u)
    BY <1>3, <1>4, <1>5 DEF Begun
  <2>3. Raise \in Acts /\ Raise.kind \in {"call", "hook", "raise"}
    BY <1>1
  <2>. QED  BY ONLY <1>6, <1>8, <2>1, <2>2, <2>3, Ready(t, below), BeginReady
<1>10. OnTop(u.cs, u.ci) /\ LockKept(u) /\ StatusKept(u)
  BY <1>1, <1>4, <1>9 DEF OnTop, LockKept, StatusKept
<1>11. u.cs # <<>>
  BY <1>2, <1>8, <1>9 DEF Above
<1>12. Fine(u)
  BY <1>3, <1>4, <1>9, <1>10, <1>11 DEF Fine, RunsFine
<1>. QED  BY <1>12 DEF u

\* di is ci, of length l, with f on top.
Grown(di, ci, f, l, m) ==
  /\ di \in Seq(Frames) /\ ci \in Seq(Frames) /\ l \in Nat /\ m \in Nat /\ l = Len(ci) /\ m = l + 1 /\ Len(di) = m
  /\ di[m] = f /\ \A i \in 1..l : di[i] = ci[i]

LEMMA GrownIs ==
  ASSUME NEW ci \in Seq(Frames), NEW f \in Frames, NEW l, l = Len(ci), NEW di, di = Append(ci, f), NEW m, m = l + 1
  PROVE  Grown(di, ci, f, l, m)
BY DEF Grown

LEMMA GrownKeeps ==
  ASSUME NEW di, NEW ci, NEW f, NEW l, NEW m, Grown(di, ci, f, l, m), ~f.pcall
  PROVE  /\ \A low \in Nat : low <= l => Alike(ci, di, low, l)
         /\ \A e, cs : \A j \in Nat : HandlerIs(e, cs, ci, j, l) => HandlerIs(e, cs, di, j, m)
         /\ \A cs \in Seq(Acts) : Flagged(cs, ci) => Flagged(cs, di)
<1>1. /\ di \in Seq(Frames) /\ ci \in Seq(Frames) /\ l \in Nat /\ m \in Nat /\ l = Len(ci) /\ Len(di) = m
      /\ di[m] = f /\ (\A i \in 1..l : di[i] = ci[i]) /\ l <= m /\ l <= l
      /\ (\A i \in l + 1 .. m : i = m) /\ (\A i \in 1..m : i \in 1..l \/ i = m) /\ (\A i \in l + 1 .. l : FALSE)
  BY DEF Grown
<1>2. \A low \in Nat : low <= l => Alike(ci, di, low, l)
  <2>1. \A low \in Nat : low <= l => \A i \in 1..low : i \in 1..l
    BY <1>1
  <2>. QED  BY <1>1, <2>1 DEF Alike
<1>3. /\ \A i \in 1..l : di[i].pcall = ci[i].pcall /\ di[i].handler = ci[i].handler
      /\ \A i \in l + 1 .. l : ~ci[i].pcall
      /\ \A i \in l + 1 .. m : ~di[i].pcall
  BY <1>1
<1>4. ASSUME NEW e, NEW cs, NEW j \in Nat, HandlerIs(e, cs, ci, j, l) PROVE HandlerIs(e, cs, di, j, m)
  <2>1. j <= j /\ \A i \in 1..j : cs[i] = cs[i]
    OBVIOUS
  <2>2. \A i \in j + 1 .. j : cs[i].kind # "pcall"
    OBVIOUS
  <2>. QED  BY ONLY <1>1, <1>3, <1>4, <2>1, <2>2, j \in Nat, HandlerMoves
<1>5. ASSUME NEW cs \in Seq(Acts), Flagged(cs, ci) PROVE Flagged(cs, di)
  <2>. DEFINE n == Len(cs)
  <2>1. n \in Nat /\ n = Len(cs) /\ \A j \in 1..n : cs[j].kind = "pcall" => j \in 1..n /\ cs[j] = cs[j]
    OBVIOUS
  <2>2. \A i \in 1..m : (i <= l /\ di[i] = ci[i]) \/ ~di[i].pcall
    BY <1>1
  <2>3. \A i \in 1..l : Good(ci[i]) => Good(di[i])
    BY <1>1
  <2>. HIDE DEF n
  <2>. QED  BY ONLY <1>1, <1>3, <1>5, <2>1, <2>2, <2>3, FlaggedMoves, ZenonT(45)
<1>. QED  BY <1>2, <1>4, <1>5

\* What a function may be called on top of.
Calls(t) == Len(t.cs) = 2 \/ t.cs[Len(t.cs)].kind \in {"call", "execute"}

\* a runs a function whose frame is f, the m-th.
Runs(t, a, f, m) ==
  \/ a.kind = "body" /\ ~f.lua
  \/ a.kind = "execute" /\ f.lua /\ a.base = m /\ t.cs[Len(t.cs)].kind # "execute"

\* A function begins.
LEMMA EnterReady ==
  ASSUME NEW t, NEW below, Ready(t, below), Calls(t),
         NEW n, NEW l, NEW h, NEW b, Above(t, below, n, l, h, b),
         NEW a \in Acts, NEW f, ~f.pcall, NEW u \in States, NEW m, Grown(u.ci, t.ci, f, l, m),
         Runs(t, a, f, m), u.cs = Append(t.cs, a),
         u.nCcalls = t.nCcalls, u.nny = t.nny, u.allowhook = t.allowhook, u.errfunc = t.errfunc
  PROVE  Ready(u, b) /\ b \in Seq(Nat) /\ u.cs[Len(u.cs)] = a /\ u.ci[Len(u.ci)] = f
<1>1. n = Len(t.cs) /\ l = Len(t.ci) /\ h = n + 1 /\ b = Append(below, l)
  BY DEF Above
<1>2. /\ t \in States /\ t.cs \in Seq(Acts) /\ t.ci \in Seq(Frames) /\ l \in Nat /\ n \in Nat
      /\ Joined(t.cs, t.ci, below) /\ Counted(t) /\ l = Len(t.ci) /\ n = Len(t.cs) /\ Flagged(t.cs, t.ci)
  BY <1>1, StateFields DEF Ready, Joined
<1>3. /\ m \in Nat /\ m = l + 1 /\ Len(u.ci) = m /\ u.ci[m] = f /\ u.ci \in Seq(Frames)
      /\ \A i \in 1..l : u.ci[i] = t.ci[i]
  BY DEF Grown
<1>4. Pushed(u.cs, t.cs, a, n, h)
  BY ONLY <1>1, <1>2, a \in Acts, u.cs = Append(t.cs, a), PushIs
<1>5. /\ u.cs \in Seq(Acts) /\ h \in Nat /\ Len(u.cs) = h /\ u.cs[h] = a /\ (\A i \in 1..n : u.cs[i] = t.cs[i])
  BY ONLY <1>4 DEF Pushed
<1>6. /\ CallsTo(u.cs, h) = CallsTo(t.cs, n) + IF a.kind = "call" THEN 1 ELSE 0
      /\ NoYieldsTo(u.cs, h) = NoYieldsTo(t.cs, n) + IF NoYield(a) THEN 1 ELSE 0
      /\ Unhooked(u.cs, h) <=> Unhooked(t.cs, n) /\ a.kind # "hook"
      /\ Free(u.cs, h) <=> Free(t.cs, n) /\ ~NoYield(a)
  BY ONLY <1>4, PushCounts
<1>0. \/ a.kind = "body" /\ ~f.lua
      \/ a.kind = "execute" /\ f.lua /\ a.base = m /\ t.cs[n].kind # "execute"
  BY <1>1 DEF Runs
<1>7. a.kind \in {"body", "execute"} /\ ~NoYield(a)
  BY <1>0 DEF NoYield
<1>8. /\ CallsTo(t.cs, n) \in Nat /\ NoYieldsTo(t.cs, n) \in Nat
      /\ Unhooked(t.cs, n) \in BOOLEAN /\ Unhooked(u.cs, h) \in BOOLEAN
  BY <1>2, CountsAre DEF Unhooked
<1>9. /\ n >= 2 /\ below[n] \in Nat /\ below[n] <= l /\ GoesOn(t.cs, t.ci, n, l) /\ below \in Seq(Nat) /\ Len(below) = n
  BY ONLY <1>2, TopJoined
<1>10. b[h] = l /\ h >= 3 /\ h - 1 = n
  <2>1. Append(below, l)[Len(below) + 1] = l
    BY ONLY <1>2, <1>9
  <2>. QED  BY ONLY <1>1, <1>2, <1>9, <2>1
<1>11. t.cs[n].kind \in {"call", "execute", "rawrun"} /\ (t.cs[n].kind = "rawrun" => n = 2)
  BY <1>1, <1>2 DEF Calls, Joined, Bottom
<1>12. Local(u.cs, u.ci, b, h, m)
  <2>1. FramesOf(u.cs, u.ci, b, h, m)
    <3>1. \A i \in b[h] + 1 .. m : i = m
      BY <1>2, <1>3, <1>10
    <3>. QED  BY <1>0, <1>3, <1>5, <1>7, <1>10, <3>1 DEF FramesOf
  <2>2. BegunBy(u.cs, u.ci, b, h)
    <3>1. u.cs[h - 1] = t.cs[n]
      BY <1>5, <1>9, <1>10
    <3>. QED  BY <1>0, <1>5, <1>7, <1>11, <3>1 DEF BegunBy
  <2>3. Saved(u.cs, u.ci, b, h)
    BY <1>5, <1>7 DEF Saved
  <2>. QED  BY <2>1, <2>2, <2>3 DEF Local
<1>13. n >= 3 => Begins(t.cs, u.ci, n, l, a)
  BY <1>11 DEF Begins
<1>14. GoesOn(u.cs, u.ci, h, m)
  <2>1. Free(t.cs, n) => \A i \in 1..l : Good(t.ci[i])
    <3>1. \A i \in 1..l : i \in 1 .. l - 1 \/ (i = l /\ l >= 1)
      BY <1>2
    <3>2. n = 2 \/ t.cs[n].kind \in {"call", "execute"}
      BY <1>11
    <3>. QED  BY <1>9, <3>1, <3>2 DEF GoesOn
  <2>2. \A i \in 1 .. m - 1 : i \in 1..l
    BY <1>2, <1>3
  <2>3. f.lua => Good(f)
    BY DEF Good
  <2>4. h # 2 /\ a.kind # "call" /\ (a.kind = "execute" => f.lua)
    BY <1>0, <1>7, <1>10
  <2>. QED  BY <1>3, <1>5, <1>6, <1>7, <2>1, <2>2, <2>3, <2>4 DEF GoesOn
<1>15. Flagged(u.cs, u.ci)
  <2>1. Flagged(t.cs, u.ci)
    BY <1>2, GrownKeeps
  <2>2. a.kind # "pcall"
    BY <1>7
  <2>. QED  BY <1>2, <1>3, <2>1, <2>2, FlaggedPush
<1>16. Counted(u)
  <2>1. HandlerIs(t.errfunc, t.cs, u.ci, n, m)
    <3>1. HandlerIs(t.errfunc, t.cs, t.ci, n, l)
      BY <1>2 DEF Counted
    <3>. QED  BY <1>2, <3>1, GrownKeeps
  <2>2. HandlerIs(t.errfunc, u.cs, u.ci, h, m)
    <3>1. a.kind # "pcall" /\ u.cs = Append(t.cs, a) /\ a \in Acts
      BY <1>7
    <3>. QED  BY ONLY <1>1, <1>2, <1>3, <2>1, <3>1, HandlerPush
  <2>3. u.cs[2] = t.cs[2]
    BY ONLY <1>2, <1>5, <1>9
  <2>4. u.nny = NoYieldsTo(u.cs, h)
    BY <1>2, <1>6, <1>7, <1>8 DEF Counted
  <2>5. u.nCcalls = u.cs[2].nCcalls + CallsTo(u.cs, h)
    BY <1>2, <1>6, <1>7, <1>8, <2>3 DEF Counted
  <2>6. u.allowhook = Unhooked(u.cs, h)
    BY <1>2, <1>6, <1>7, <1>8 DEF Counted
  <2>. QED  BY <1>3, <1>5, <2>2, <2>4, <2>5, <2>6 DEF Counted
<1>17. Ready(u, b) /\ b \in Seq(Nat)
  <2>1. Alike(t.ci, u.ci, below[n], l)
    BY <1>9, GrownKeeps
  <2>2. l <= Len(u.ci) /\ (a.kind = "rawrun" => a.nCcalls <= Bound) /\ Len(u.ci) = m
    BY <1>2, <1>3, <1>7
  <2>. QED  BY <1>1, <1>2, <1>3, <1>5, <1>12, <1>13, <1>14, <1>15, <1>16, <2>1, <2>2, PushReady, ZenonT(45)
<1>. QED  BY <1>3, <1>5, <1>17

\* The top stays, with other frames.
LEMMA ChangeReady ==
  ASSUME NEW t, NEW below, Ready(t, below), NEW n, n = Len(t.cs), n >= 3, NEW u \in States, Len(u.cs) = n,
         \A i \in 1..n - 1 : u.cs[i] = t.cs[i],
         below[n] <= Len(u.ci), Alike(t.ci, u.ci, below[n], below[n]),
         Local(u.cs, u.ci, below, n, Len(u.ci)),
         n >= 4 => Begins(t.cs, u.ci, n - 1, below[n], u.cs[n]),
         GoesOn(u.cs, u.ci, n, Len(u.ci)), Flagged(u.cs, u.ci),
         u.cs[n].kind # "rawrun", Counted(u)
  PROVE  Ready(u, below)
<1>1. /\ t.cs \in Seq(Acts) /\ t.ci \in Seq(Frames) /\ u.ci \in Seq(Frames) /\ u.cs \in Seq(Acts)
      /\ n \in Nat /\ Joined(t.cs, t.ci, below) /\ Limits(t.cs)
  BY StateFields DEF Ready
<1>2. Joined(u.cs, u.ci, below)
  BY <1>1, ChangeJoined
<1>3. Limits(u.cs)
  <2>1. \A i \in 2..n : i = n \/ (i \in 2..Len(t.cs) /\ u.cs[i] = t.cs[i])
    BY <1>1, SMTT(45)
  <2>. QED  BY <1>1, <2>1 DEF Limits
<1>. QED  BY <1>2, <1>3 DEF Ready

\* luaV_execute goes on with a Lua function that it calls.
LEMMA GrowReady ==
  ASSUME NEW t, NEW below, Ready(t, below), t.cs[Len(t.cs)].kind = "execute",
         NEW l, NEW f, ~f.pcall, f.lua, NEW u \in States, NEW m, Grown(u.ci, t.ci, f, l, m), u.cs = t.cs,
         u.nCcalls = t.nCcalls, u.nny = t.nny, u.allowhook = t.allowhook, u.errfunc = t.errfunc
  PROVE  Ready(u, below)
<1>. DEFINE n == Len(t.cs)
<1>1. /\ m \in Nat /\ l \in Nat /\ m = l + 1 /\ l = Len(t.ci) /\ Len(u.ci) = m /\ u.ci[m] = f /\ u.ci \in Seq(Frames)
      /\ \A i \in 1..l : u.ci[i] = t.ci[i]
  BY DEF Grown
<1>2. /\ t \in States /\ t.cs \in Seq(Acts) /\ t.ci \in Seq(Frames) /\ n \in Nat
      /\ Joined(t.cs, t.ci, below) /\ Counted(t) /\ Flagged(t.cs, t.ci) /\ n = Len(t.cs)
  BY StateFields DEF Ready, Joined
<1>3. /\ n >= 2 /\ below[n] \in Nat /\ below[n] <= l /\ GoesOn(t.cs, t.ci, n, l) /\ below \in Seq(Nat) /\ Len(below) = n
      /\ (n >= 3 => Local(t.cs, t.ci, below, n, l))
  BY ONLY <1>1, <1>2, TopJoined
<1>4. n >= 3 /\ t.cs[n].kind = "execute"
  BY <1>2, <1>3 DEF Joined, Bottom
<1>. HIDE DEF n
<1>5. Alike(t.ci, u.ci, below[n], l) /\ Alike(t.ci, u.ci, below[n], below[n])
  <2>1. Alike(t.ci, u.ci, below[n], l)
    BY <1>3, GrownKeeps
  <2>2. \A i \in 1..below[n] : i \in 1..l
    BY <1>1, <1>3
  <2>. QED  BY <2>1, <2>2 DEF Alike
<1>6. Local(u.cs, u.ci, below, n, m)
  <2>1. BegunBy(u.cs, u.ci, below, n)
    BY <1>3, <1>4 DEF Local, BegunBy
  <2>2. Saved(u.cs, u.ci, below, n)
    BY <1>4 DEF Saved
  <2>3. FramesOf(u.cs, u.ci, below, n, m)
    <3>1. /\ t.cs[n].base \in Nat /\ t.cs[n].base = below[n] + 1 /\ t.cs[n].base <= l
          /\ \A i \in below[n] + 1 .. l : t.ci[i].lua
      <4>1. t.cs[n] \in Acts
        BY <1>2, <1>4
      <4>2. t.cs[n].base \in Nat
        BY ONLY <1>4, <4>1 DEF Acts
      <4>. QED  BY <1>3, <1>4, <4>2 DEF Local, FramesOf
    <3>2. \A i \in below[n] + 1 .. m : i = m \/ (i \in below[n] + 1 .. l /\ i \in 1..l)
      BY <1>1, <1>3, SMTT(45)
    <3>3. \A i \in below[n] + 1 .. m : u.ci[i].lua
      BY <1>1, <3>1, <3>2
    <3>4. t.cs[n].base <= m
      BY <1>1, <3>1
    <3>. QED  BY <1>4, <3>1, <3>3, <3>4 DEF FramesOf
  <2>. QED  BY <2>1, <2>2, <2>3 DEF Local
<1>7. n >= 4 => Begins(t.cs, u.ci, n - 1, below[n], u.cs[n])
  <2>1. ASSUME n >= 4 PROVE Begins(t.cs, t.ci, n - 1, below[n], t.cs[n]) /\ Local(t.cs, t.ci, below, n - 1, below[n]) /\ below[n - 1] \in Nat
    <3>. DEFINE k == n - 1
    <3>1. k \in Nat /\ 2 <= k /\ k < Len(t.cs) /\ k >= 3 /\ k + 1 = n
      BY <1>2, <2>1
    <3>. HIDE DEF k
    <3>2. Begins(t.cs, t.ci, k, below[k + 1], t.cs[k + 1]) /\ Local(t.cs, t.ci, below, k, below[k + 1]) /\ below[k] \in Nat
      BY ONLY <1>2, <3>1, UnderJoined
    <3>. QED  BY <3>1, <3>2 DEF k
  <2>2. ASSUME n >= 4, t.cs[n - 1].kind = "body" PROVE below[n] \in 1..l
    BY <1>1, <1>3, <2>1, <2>2, SMTT(45) DEF Local, FramesOf
  <2>. QED  BY <1>1, <2>1, <2>2 DEF Begins
<1>8. GoesOn(u.cs, u.ci, n, m)
  <2>1. Free(t.cs, n) => \A i \in 1..l : Good(t.ci[i])
    <3>1. \A i \in 1..l : i \in 1 .. l - 1 \/ (i = l /\ l >= 1)
      BY <1>1
    <3>. QED  BY <1>3, <1>4, <3>1 DEF GoesOn
  <2>2. (\A i \in 1 .. m - 1 : i \in 1..l) /\ Good(f)
    BY <1>1 DEF Good
  <2>. QED  BY <1>1, <2>1, <2>2 DEF GoesOn
<1>9. Flagged(u.cs, u.ci)
  BY <1>2, GrownKeeps
<1>10. Counted(u)
  <2>1. HandlerIs(t.errfunc, t.cs, u.ci, n, m)
    <3>1. HandlerIs(t.errfunc, t.cs, t.ci, n, l)
      BY <1>1, <1>2 DEF Counted
    <3>. QED  BY <1>2, <3>1, GrownKeeps
  <2>. QED  BY <1>1, <1>2, <2>1 DEF Counted
<1>. QED
  <2>1. below[n] <= Len(u.ci) /\ u.cs[n].kind # "rawrun" /\ Len(u.cs) = n /\ \A i \in 1 .. n - 1 : u.cs[i] = t.cs[i]
    BY <1>1, <1>2, <1>3, <1>4, SMTT(45)
  <2>. QED  BY <1>1, <1>2, <1>4, <1>5, <1>6, <1>7, <1>8, <1>9, <1>10, <2>1, ChangeReady, ZenonT(45)

\* luaD_precall.
LEMMA PrecallFine ==
  ASSUME NEW t, NEW below, Ready(t, below), Calls(t), t.lock = 1, t.status = "ok", t.nCcalls <= Bound,
         NEW lua \in BOOLEAN
  PROVE  Fine(Precall(t, lua))
<1>. DEFINE n == Len(t.cs)
            l == Len(t.ci)
            h == n + 1
            b == Append(below, l)
            m == l + 1
            f == Frame(lua)
            e == [t EXCEPT !.ci = Append(@, f)]
            u == Precall(t, lua)
<1>1. /\ t \in States /\ t.cs \in Seq(Acts) /\ t.ci \in Seq(Frames) /\ n \in Nat /\ l \in Nat /\ n >= 2
      /\ t.cs # <<>> /\ t.nCcalls \in Nat
  <2>1. t \in States /\ t.cs \in Seq(Acts) /\ t.ci \in Seq(Frames) /\ Len(t.cs) >= 2 /\ t.nCcalls \in Nat
    BY StateFields DEF Ready, Joined, Bottom
  <2>. QED  BY <2>1
<1>2. f \in Frames /\ ~f.pcall /\ f.lua = lua
  BY DEF Frame, Frames
<1>3. Append(t.ci, f) \in Seq(Frames)
  BY <1>1, <1>2
<1>4. e \in States /\ Fields(e, Append(t.ci, f), t.cs, t.nCcalls, t.nny, t.allowhook, t.errfunc, t.status, t.lock)
  <2>1. e = [t EXCEPT !.ci = Append(t.ci, f)]
    OBVIOUS
  <2>. DEFINE q == Append(t.ci, f)
  <2>. HIDE DEF q, e, f
  <2>. QED  BY ONLY <1>1, <1>3, <2>1 DEF States, Fields, q
<1>5. Grown(Append(t.ci, f), t.ci, f, l, m)
  <2>1. m = l + 1
    OBVIOUS
  <2>. HIDE DEF m, f
  <2>. QED  BY ONLY <1>1, <1>2, <2>1, GrownIs
<1>6. Above(t, below, n, l, h, b)
  BY DEF Above
<1>7. Len(Append(t.ci, f)) = m /\ m \in Nat
  BY <1>1
<1>8. u = IF ~lua THEN Push(e, Body("entering")) ELSE IF t.cs[n].kind = "execute" THEN e ELSE Push(e, Execute(m))
  <2>1. Len(e.ci) = m
    BY <1>4, <1>7 DEF Fields
  <2>. HIDE DEF m
  <2>. QED  BY <2>1 DEF Precall, Last
<1>9. Calls(t) /\ (n = 2 => t.cs[n].kind # "execute") /\ t.cs[n].kind # "body" /\ t.cs[n].kind # "hook"
  BY DEF Calls, Ready, Joined, Bottom
<1>. HIDE DEF n, l, h, b, m, f, e, u
<1>10. ASSUME NEW a \in Acts, u = Push(e, a), a.kind # "hook", a.kind # "pcall", ~RunsC(a),
              \/ a.kind = "body" /\ ~f.lua
              \/ a.kind = "execute" /\ f.lua /\ a.base = m /\ t.cs[n].kind # "execute"
       PROVE  Fine(u)
  <2>1. /\ u \in States
        /\ Fields(u, Append(t.ci, f), Append(t.cs, a), t.nCcalls, t.nny, t.allowhook, t.errfunc, t.status, t.lock)
    BY <1>4, <1>10, PushDoes, SMTT(45) DEF Fields
  <2>2. /\ u.cs = Append(t.cs, a) /\ u.ci = Append(t.ci, f) /\ u.nCcalls = t.nCcalls /\ u.nny = t.nny
        /\ u.allowhook = t.allowhook /\ u.errfunc = t.errfunc /\ u.lock = 1 /\ u.status = "ok"
    BY <2>1 DEF Fields
  <2>3. Ready(u, b) /\ b \in Seq(Nat) /\ u.cs[Len(u.cs)] = a /\ u.ci[Len(u.ci)] = f
    <3>1. Grown(u.ci, t.ci, f, l, m)
      BY <1>5, <2>2
    <3>2. /\ u \in States /\ a \in Acts /\ Ready(t, below) /\ Calls(t) /\ ~f.pcall
      BY <1>2, <1>9, <2>1
    <3>3. /\ u.cs = Append(t.cs, a) /\ u.nCcalls = t.nCcalls /\ u.nny = t.nny
          /\ u.allowhook = t.allowhook /\ u.errfunc = t.errfunc
      BY <2>2
    <3>4. Runs(t, a, f, m)
      BY <1>10 DEF Runs, n
    <3>. QED  BY ONLY <1>6, <3>1, <3>2, <3>3, <3>4, EnterReady
  <2>4. OnTop(u.cs, u.ci)
    BY <1>2, <1>10, <2>3 DEF OnTop
  <2>5. u.cs # <<>>
    BY ONLY <1>1, <2>2, SMTT(45)
  <2>6. LockKept(u) /\ StatusKept(u)
    BY <1>10, <2>2, <2>3 DEF LockKept, StatusKept
  <2>. QED  BY <2>1, <2>2, <2>3, <2>4, <2>5, <2>6 DEF Fine, RunsFine
<1>11. CASE ~lua
  <2>1. /\ Body("entering") \in Acts /\ Body("entering").kind = "body" /\ ~RunsC(Body("entering"))
    BY DEF Body, Acts, RunsC
  <2>. QED  BY <1>2, <1>8, <1>10, <1>11, <2>1 DEF u
<1>12. CASE lua /\ t.cs[n].kind # "execute"
  <2>1. Execute(m) \in Acts /\ Execute(m).kind = "execute" /\ Execute(m).base = m /\ ~RunsC(Execute(m))
    BY <1>7 DEF Execute, Acts, RunsC
  <2>. QED  BY <1>2, <1>8, <1>10, <1>12, <2>1 DEF u
<1>13. CASE lua /\ t.cs[n].kind = "execute"
  <2>1. u = e
    BY <1>8, <1>13
  <2>2. /\ u.cs = t.cs /\ u.ci = Append(t.ci, f) /\ u.nCcalls = t.nCcalls /\ u.nny = t.nny
        /\ u.allowhook = t.allowhook /\ u.errfunc = t.errfunc /\ u.lock = 1 /\ u.status = "ok"
    BY <1>4, <2>1 DEF Fields
  <2>3. Ready(u, below)
    <3>1. Grown(u.ci, t.ci, f, l, m) /\ u \in States /\ f.lua
      BY <1>2, <1>4, <1>5, <1>13, <2>1, <2>2
    <3>2. t.cs[Len(t.cs)].kind = "execute"
      BY <1>13 DEF n
    <3>. QED  BY <1>2, <2>2, <3>1, <3>2, GrowReady
  <2>4. OnTop(u.cs, u.ci) /\ LockKept(u) /\ StatusKept(u) /\ u.cs # <<>>
    BY <1>1, <1>13, <2>2 DEF OnTop, LockKept, StatusKept, RunsC, n
  <2>5. below \in Seq(Nat)
    BY <2>3 DEF Ready, Joined, Levels
  <2>6. Fine(u)
    BY <1>4, <2>1, <2>2, <2>3, <2>4, <2>5 DEF Fine, RunsFine
  <2>. QED  BY <2>6 DEF u
<1>. QED  BY <1>11, <1>12, <1>13

\* luaD_call and luaD_callnoyield.
LEMMA DoCallFine ==
  ASSUME MaxCCalls \in Nat \ {0}, NEW t, NEW below, Ready(t, below), t.lock = 1, t.status = "ok",
         NEW by, NEW noyield \in BOOLEAN, NEW lua \in BOOLEAN,
         NEW n, NEW l, NEW h, NEW b, Above(t, below, n, l, h, b),
         NEW a \in Acts, a = CallOf(by, noyield), NEW ds, ds = Append(t.cs, a),
         BegunBy(ds, t.ci, b, h), MayBegin(t, a, n, l)
  PROVE  Fine(DoCall(t, by, noyield, lua))
<1>. DEFINE N == t.nCcalls + 1
            v == [t EXCEPT !.nCcalls = N, !.nny = IF noyield THEN @ + 1 ELSE @]
            c == Push(v, a)
<1>1. /\ t \in States /\ t.cs \in Seq(Acts) /\ t.ci \in Seq(Frames) /\ t.nCcalls \in Nat /\ t.nny \in Nat
      /\ n = Len(t.cs) /\ h = n + 1 /\ Len(t.cs) >= 2
  BY StateFields DEF Ready, Above, Joined, Bottom
<1>2. a.kind = "call" /\ a.noyield = noyield /\ ~RunsC(a) /\ (NoYield(a) <=> noyield)
  BY DEF CallOf, NoYield, RunsC
<1>3. /\ v \in States
      /\ Fields(v, t.ci, t.cs, N, IF noyield THEN t.nny + 1 ELSE t.nny, t.allowhook, t.errfunc, t.status, t.lock)
  <2>. DEFINE y == IF noyield THEN t.nny + 1 ELSE t.nny
  <2>1. v = [t EXCEPT !.nCcalls = N, !.nny = y]
    OBVIOUS
  <2>2. N \in Nat /\ y \in Nat
    BY <1>1
  <2>. HIDE DEF N, y, v
  <2>3. v \in States /\ Fields(v, t.ci, t.cs, N, y, t.allowhook, t.errfunc, t.status, t.lock)
    BY ONLY <1>1, <2>1, <2>2 DEF States, Fields
  <2>. QED  BY <2>3 DEF y
<1>4. DoCall(t, by, noyield, lua) =
        IF N = MaxCCalls THEN Push(c, Raise)
        ELSE IF N >= Bound THEN Throw(c, "errerr")
        ELSE Precall(c, lua)
  BY DEF DoCall, Bound
<1>. HIDE DEF v
<1>5. /\ c \in States
      /\ Fields(c, t.ci, Append(t.cs, a), N, IF noyield THEN t.nny + 1 ELSE t.nny, t.allowhook, t.errfunc, t.status, t.lock)
  BY <1>3, PushDoes, SMTT(45) DEF Fields
<1>. HIDE DEF c
<1>6. c.lock = 1 /\ c.status = "ok" /\ c.nCcalls = N /\ c.cs = ds
  BY <1>5 DEF Fields
<1>7. Begun(t, a, c)
  <2>1. /\ c.cs = Append(t.cs, a) /\ c.ci = t.ci /\ c.nCcalls = t.nCcalls + 1
        /\ c.nny = IF noyield THEN t.nny + 1 ELSE t.nny
        /\ c.allowhook = t.allowhook /\ c.errfunc = t.errfunc
    BY <1>5 DEF Fields
  <2>2. c.nny = t.nny + IF NoYield(a) THEN 1 ELSE 0
    BY <1>1, <1>2, <2>1
  <2>. QED  BY <1>2, <1>5, <2>1, <2>2 DEF Begun
<1>8. Ready(c, b) /\ b \in Seq(Nat) /\ c.cs[Len(c.cs)] = a /\ Len(c.cs) = h
  <2>1. a.kind \in {"call", "hook", "raise"} /\ BegunBy(c.cs, t.ci, b, h)
    BY <1>2, <1>6
  <2>. QED  BY ONLY <1>7, <2>1, a \in Acts, Ready(t, below), Above(t, below, n, l, h, b), MayBegin(t, a, n, l), BeginReady
<1>9. N \in Nat /\ Bound \in Nat /\ Bound >= MaxCCalls
  BY <1>1, BoundIs
<1>. HIDE DEF N
<1>10. CASE N = MaxCCalls
  <2>1. Raises(c) /\ c.nCcalls <= Bound /\ Len(c.cs) >= 3
    BY <1>1, <1>2, <1>6, <1>8, <1>9, <1>10 DEF Raises
  <2>. QED  BY <1>4, <1>6, <1>8, <1>10, <2>1, RaiseFine
<1>11. CASE N # MaxCCalls /\ N >= Bound
  BY <1>4, <1>6, <1>8, <1>11, ErrorFine
<1>12. CASE N # MaxCCalls /\ ~(N >= Bound)
  <2>1. Calls(c) /\ c.nCcalls <= Bound
    BY <1>2, <1>6, <1>8, <1>9, <1>12 DEF Calls
  <2>. QED  BY <1>4, <1>6, <1>8, <1>12, <2>1, PrecallFine
<1>. QED  BY <1>10, <1>11, <1>12

-----------------------------------------------------------------------------
(* The actions.                                                             *)

\* What holds while the coroutine runs.
LEMMA RunsAs ==
  ASSUME Fine(s), s.cs # <<>>, NEW n, n = Len(s.cs), NEW l, l = Len(s.ci)
  PROVE  /\ s \in States /\ s.cs \in Seq(Acts) /\ s.ci \in Seq(Frames) /\ n \in Nat /\ n >= 2 /\ l \in Nat
         /\ s.nCcalls \in Nat /\ s.nny \in Nat /\ s.errfunc \in Nat /\ s.allowhook \in BOOLEAN
         /\ Top = s.cs[n] /\ s.cs[n] \in Acts
         /\ OnTop(s.cs, s.ci) /\ s.nCcalls <= Bound
         /\ s.lock = IF RunsC(s.cs[n]) THEN 0 ELSE 1
         /\ s.status = "ok" \/ (s.status = "yield" /\ RunsHook(s.cs[n]) /\ s.nny = 0)
         /\ \E below \in Seq(Nat) : Ready(s, below)
         /\ s.cs[1].kind = "resume" /\ s.cs[2].kind = "rawrun" /\ s.cs[2].of # "pcall"
<1>1. /\ s \in States /\ s.cs \in Seq(Acts) /\ s.ci \in Seq(Frames) /\ l \in Nat /\ n \in Nat
      /\ s.nCcalls \in Nat /\ s.nny \in Nat /\ s.errfunc \in Nat /\ s.allowhook \in BOOLEAN
  BY StateFields DEF Fine
<1>2. PICK below \in Seq(Nat) : Ready(s, below)
  BY DEF Fine, RunsFine
<1>3. n >= 2 /\ s.cs[1].kind = "resume" /\ s.cs[2].kind = "rawrun" /\ s.cs[2].of # "pcall"
  BY <1>2 DEF Ready, Joined, Bottom
<1>4. Top = s.cs[n] /\ s.cs[n] \in Acts
  BY <1>1, <1>3 DEF Top, Last
<1>. QED  BY <1>1, <1>2, <1>3, <1>4 DEF Fine, RunsFine, LockKept, StatusKept

\* Which frames and activations there are does not depend on the state mutex.
LEMMA SameReady ==
  ASSUME NEW t, NEW below, Ready(t, below), NEW u \in States, u.ci = t.ci, u.cs = t.cs, u.nCcalls = t.nCcalls,
         u.nny = t.nny, u.allowhook = t.allowhook, u.errfunc = t.errfunc
  PROVE  Ready(u, below)
BY DEF Ready, Counted

LEMMA TopAbove ==
  ASSUME NEW kind, Is(kind), Fine(s), kind \notin {"resume", "rawrun"}, NEW n, n = Len(s.cs)
  PROVE  s.cs # <<>> /\ s.cs[n].kind = kind /\ n >= 3
<1>1. s.cs # <<>>
  BY DEF Is
<1>2. n \in Nat /\ n >= 2 /\ Top = s.cs[n] /\ s.cs[2].kind = "rawrun"
  BY <1>1, RunsAs
<1>. QED  BY <1>1, <1>2 DEF Is

LEMMA LuaCallFine ==
  ASSUME Fine(s), NEW lua \in BOOLEAN, LuaCall(lua)
  PROVE  Fine(s')
<1>. DEFINE n == Len(s.cs)
<1>1. s.cs # <<>> /\ s.cs[n].kind = "execute"
  BY TopAbove DEF LuaCall
<1>2. PICK below \in Seq(Nat) : Ready(s, below)
  BY <1>1, RunsAs
<1>3. s.lock = 1 /\ s.status = "ok" /\ s.nCcalls <= Bound
  BY <1>1, RunsAs DEF RunsC, RunsHook
<1>4. Calls(s) /\ s' = Precall(s, lua)
  BY <1>1 DEF Calls, LuaCall
<1>5. Fine(Precall(s, lua))
  BY <1>2, <1>3, <1>4, PrecallFine
<1>. QED  BY <1>4, <1>5

LEMMA LuaErrorFine ==
  ASSUME Fine(s), LuaError
  PROVE  Fine(s')
<1>. DEFINE n == Len(s.cs)
<1>1. s.cs # <<>> /\ s.cs[n].kind = "execute" /\ n >= 3
  BY TopAbove DEF LuaError
<1>2. PICK below \in Seq(Nat) : Ready(s, below)
  BY <1>1, RunsAs
<1>3. s.lock = 1 /\ s.status = "ok" /\ s.nCcalls <= Bound
  BY <1>1, RunsAs DEF RunsC, RunsHook
<1>4. Raises(s) /\ s' = Push(s, Raise)
  BY <1>1 DEF Raises, LuaError
<1>5. Fine(Push(s, Raise))
  BY <1>1, <1>2, <1>3, <1>4, RaiseFine
<1>. QED  BY <1>4, <1>5

\* A C function or hook raises an error.
LEMMA CRaiseFine ==
  ASSUME Fine(s), s.cs # <<>>, RunsC(s.cs[Len(s.cs)]), s.status = "ok"
  PROVE  Fine(Push(Locked(s), Raise))
<1>. DEFINE n == Len(s.cs)
            t == Locked(s)
<1>1. /\ s \in States /\ s.cs \in Seq(Acts) /\ s.ci \in Seq(Frames) /\ n \in Nat /\ n >= 2 /\ s.lock = 0 /\ s.nCcalls <= Bound
      /\ OnTop(s.cs, s.ci) /\ s.cs[2].kind = "rawrun"
  BY RunsAs
<1>2. PICK below \in Seq(Nat) : Ready(s, below)
  BY RunsAs
<1>3. /\ t \in States
      /\ Fields(t, s.ci, s.cs, s.nCcalls, s.nny, s.allowhook, s.errfunc, s.status, s.lock + 1)
  BY <1>1, LockDoes
<1>. HIDE DEF t
<1>4. Ready(t, below)
  BY <1>2, <1>3, SameReady DEF Fields
<1>5. Raises(t) /\ Len(t.cs) >= 3
  BY <1>1, <1>3 DEF Fields, Raises, OnTop, RunsC
<1>6. t.lock = 1 /\ t.status = "ok" /\ t.nCcalls <= Bound
  BY <1>1, <1>3 DEF Fields
<1>7. Fine(Push(t, Raise))
  BY <1>4, <1>5, <1>6, RaiseFine
<1>. QED  BY <1>7 DEF t

LEMMA InCIs ==
  ASSUME Fine(s), InC
  PROVE  s.cs # <<>> /\ RunsC(s.cs[Len(s.cs)]) /\ s.status = "ok" /\ Len(s.cs) >= 3
<1>1. s.cs # <<>>
  BY DEF InC, Is
<1>2. /\ Top = s.cs[Len(s.cs)] /\ Len(s.cs) >= 2 /\ s.cs[2].kind = "rawrun" /\ Len(s.cs) \in Nat
      /\ s.status = "ok" \/ (s.status = "yield" /\ RunsHook(s.cs[Len(s.cs)]))
  BY <1>1, RunsAs
<1>3. RunsC(Top) /\ Top.kind # "rawrun" /\ (Top.kind = "hook" => s.status = "ok")
  BY DEF InC, Is, RunsC
<1>. QED  BY <1>1, <1>2, <1>3 DEF RunsHook

LEMMA CallErrorFine ==
  ASSUME Fine(s), CallError
  PROVE  Fine(s')
<1>1. s.cs # <<>> /\ RunsC(s.cs[Len(s.cs)]) /\ s.status = "ok" /\ s' = Push(Locked(s), Raise)
  BY InCIs DEF CallError
<1>2. Fine(Push(Locked(s), Raise))
  BY <1>1, CRaiseFine
<1>. QED  BY <1>1, <1>2

\* The frame of a Lua function on top.
LEMMA LuaOnTop ==
  ASSUME NEW cs \in Seq(Acts), NEW ci \in Seq(Frames), NEW below, Joined(cs, ci, below),
         NEW n, n = Len(cs), NEW l, l = Len(ci), cs[n].kind = "execute"
  PROVE  /\ cs[n].base \in Nat /\ cs[n].base = below[n] + 1 /\ cs[n].base <= l /\ l \in Nat /\ l >= 1 /\ n >= 3
         /\ below[n] \in Nat /\ n \in Nat
         /\ \A i \in below[n] + 1 .. l : ci[i].lua
         /\ ci[l].lua /\ ~ci[l].pcall /\ Good(ci[l])
<1>1. /\ n \in Nat /\ n >= 2 /\ l \in Nat /\ below[n] \in Nat /\ below[n] <= l
      /\ n >= 3 => Local(cs, ci, below, n, l)
  BY TopJoined
<1>2. n >= 3
  BY <1>1 DEF Joined, Bottom
<1>3. cs[n].base \in Nat
  <2>1. cs[n] \in Acts
    BY <1>1
  <2>. QED  BY ONLY <2>1, cs[n].kind = "execute" DEF Acts
<1>4. cs[n].base = below[n] + 1 /\ cs[n].base <= l /\ \A i \in below[n] + 1 .. l : ci[i].lua
  BY <1>1, <1>2 DEF Local, FramesOf
<1>5. l >= 1 /\ ci[l].lua
  <2>1. l \in below[n] + 1 .. l
    BY <1>1, <1>3, <1>4
  <2>. QED  BY <1>1, <1>3, <1>4, <2>1
<1>6. ~ci[l].pcall
  <2>1. FlaggedFrame(cs, ci, l)
    BY <1>1, <1>5 DEF Joined, Flagged
  <2>. QED  BY <1>5, <2>1 DEF FlaggedFrame
<1>. QED  BY <1>1, <1>2, <1>3, <1>4, <1>5, <1>6 DEF Good

LEMMA AppendTops ==
  ASSUME NEW cs \in Seq(Acts), NEW a \in Acts, NEW n \in Nat, n = Len(cs), n >= 1
  PROVE  Append(cs, a)[n + 1] = a /\ Append(cs, a)[n + 1 - 1] = cs[n]
<1>1. n + 1 - 1 = n /\ n \in 1..Len(cs)
  OBVIOUS
<1>2. Append(cs, a)[n] = cs[n]
  BY <1>1
<1>. QED  BY <1>1, <1>2

LEMMA LuaMetamethodFine ==
  ASSUME MaxCCalls \in Nat \ {0}, Fine(s), NEW lua \in BOOLEAN, LuaMetamethod(lua)
  PROVE  Fine(s')
<1>. DEFINE n == Len(s.cs)
            l == Len(s.ci)
            h == n + 1
            a == CallOf("metamethod", FALSE)
            ds == Append(s.cs, a)
<1>1. s.cs # <<>> /\ s.cs[n].kind = "execute" /\ n >= 3
  BY TopAbove DEF LuaMetamethod
<1>2. PICK below \in Seq(Nat) : Ready(s, below)
  BY <1>1, RunsAs
<1>3. s.lock = 1 /\ s.status = "ok" /\ s.cs \in Seq(Acts) /\ s.ci \in Seq(Frames) /\ n \in Nat
  BY <1>1, RunsAs DEF RunsC, RunsHook
<1>. DEFINE b == Append(below, l)
<1>4. Good(s.ci[l])
  BY <1>1, <1>2, <1>3, LuaOnTop DEF Ready
<1>5. a \in Acts /\ a.kind = "call" /\ a.by = "metamethod" /\ ~a.noyield
  BY DEF CallOf, Acts
<1>6. BegunBy(ds, s.ci, b, h)
  <2>1. ds[h] = a /\ ds[h - 1] = s.cs[n]
    <3>1. n = Len(s.cs) /\ n >= 1
      BY <1>1
    <3>. HIDE DEF n, a
    <3>. QED  BY <1>3, <1>5, <3>1, AppendTops
  <2>. HIDE DEF h, a, ds, b
  <2>. QED  BY <1>1, <1>5, <2>1 DEF BegunBy
<1>7. MayBegin(s, a, n, l)
  BY <1>1, <1>4, <1>5 DEF MayBegin, Begins
<1>8. Above(s, below, n, l, h, b)
  BY DEF Above
<1>. HIDE DEF n, l, h, b
<1>9. Fine(DoCall(s, "metamethod", FALSE, lua))
  BY <1>2, <1>3, <1>5, <1>6, <1>7, <1>8, DoCallFine
<1>. QED  BY <1>9 DEF LuaMetamethod

\* The frame of a C function on top.
LEMMA CFrameOnTop ==
  ASSUME NEW cs \in Seq(Acts), NEW ci \in Seq(Frames), NEW below, Joined(cs, ci, below),
         NEW n, n = Len(cs), NEW l, l = Len(ci), cs[n].kind = "body"
  PROVE  /\ n \in Nat /\ n >= 3 /\ l \in Nat /\ l >= 1 /\ below[n] \in Nat /\ l = below[n] + 1 /\ ~ci[l].lua
         /\ Local(cs, ci, below, n, l) /\ GoesOn(cs, ci, n, l) /\ ci # <<>>
         /\ n >= 4 => Begins(cs, ci, n - 1, below[n], cs[n])
<1>1. /\ n \in Nat /\ n >= 2 /\ l \in Nat /\ below[n] \in Nat /\ below[n] <= l
      /\ (n >= 3 => Local(cs, ci, below, n, l)) /\ GoesOn(cs, ci, n, l)
  BY TopJoined
<1>2. n >= 3
  BY <1>1 DEF Joined, Bottom
<1>3. l = below[n] + 1 /\ ~ci[l].lua
  BY <1>1, <1>2 DEF Local, FramesOf
<1>4. ASSUME n >= 4 PROVE Begins(cs, ci, n - 1, below[n], cs[n])
  <2>. DEFINE k == n - 1
  <2>1. k \in Nat /\ 2 <= k /\ k < Len(cs) /\ k >= 3 /\ k + 1 = n
    BY <1>1, <1>4
  <2>. HIDE DEF k
  <2>2. Begins(cs, ci, k, below[k + 1], cs[k + 1])
    BY <2>1, UnderJoined
  <2>. QED  BY <2>1, <2>2 DEF k
<1>5. ci # <<>> /\ l >= 1
  <2>1. l >= 1
    BY ONLY <1>1, <1>3
  <2>. QED  BY ONLY <2>1, ci \in Seq(Frames), l = Len(ci)
<1>. QED  BY ONLY <1>1, <1>2, <1>3, <1>4, <1>5

\* What is flagged below the frame on top, when that changes.
LEMMA FlaggedWithLast ==
  ASSUME NEW cs \in Seq(Acts), NEW ci \in Seq(Frames), ci # <<>>, NEW g \in Frames, NEW l, l = Len(ci),
         NEW di, di = WithLast(ci, g), Flagged(cs, ci),
         g.pcall => FlaggedFrame(cs, di, l)
  PROVE  Flagged(cs, di)
<1>1. /\ di \in Seq(Frames) /\ Len(di) = l /\ l \in Nat /\ l >= 1 /\ di[l] = g
      /\ \A i \in 1 .. l - 1 : di[i] = ci[i]
  BY LastChanged
<1>2. ASSUME NEW i \in 1 .. l - 1 PROVE FlaggedFrame(cs, di, i)
  <2>1. FlaggedFrame(cs, ci, i) /\ di[i] = ci[i] /\ i - 1 \in Nat
    BY <1>1 DEF Flagged
  <2>2. \A k \in 1 .. i - 1 : k \in 1 .. l - 1 /\ di[k] = ci[k]
    BY <1>1
  <2>3. FrameHandler(ci[i].old, ci, i - 1) => FrameHandler(ci[i].old, di, i - 1)
    BY <2>1, <2>2, FrameHandlerSame
  <2>. QED  BY <2>1, <2>2, <2>3 DEF FlaggedFrame
<1>3. FlaggedFrame(cs, di, l)
  BY <1>1 DEF FlaggedFrame
<1>4. \A i \in 1..l : i \in 1 .. l - 1 \/ i = l
  BY <1>1
<1>. QED  BY <1>1, <1>2, <1>3, <1>4 DEF Flagged

\* The frame of the C function on top changes, and with it the message handler.
LEMMA TopFrameReady ==
  ASSUME NEW t, NEW below, Ready(t, below), NEW n, n = Len(t.cs), NEW l, l = Len(t.ci),
         t.cs[n].kind = "body", NEW g \in Frames, ~g.lua, NEW u \in States, u.ci = WithLast(t.ci, g), u.cs = t.cs,
         u.nCcalls = t.nCcalls, u.nny = t.nny, u.allowhook = t.allowhook,
         HandlerIs(u.errfunc, u.cs, u.ci, n, l), g.pcall => FlaggedFrame(u.cs, u.ci, l)
  PROVE  Ready(u, below)
<1>1. /\ t.cs \in Seq(Acts) /\ t.ci \in Seq(Frames) /\ Joined(t.cs, t.ci, below) /\ Counted(t) /\ Flagged(t.cs, t.ci)
  BY StateFields DEF Ready, Joined
<1>2. /\ n \in Nat /\ n >= 3 /\ l \in Nat /\ l >= 1 /\ below[n] \in Nat /\ l = below[n] + 1
      /\ Local(t.cs, t.ci, below, n, l) /\ GoesOn(t.cs, t.ci, n, l) /\ t.ci # <<>>
      /\ (n >= 4 => Begins(t.cs, t.ci, n - 1, below[n], t.cs[n]))
  BY <1>1, CFrameOnTop, SMTT(45)
<1>3. /\ u.ci \in Seq(Frames) /\ Len(u.ci) = l /\ u.ci[l] = g /\ \A i \in 1 .. l - 1 : u.ci[i] = t.ci[i]
  <2>1. /\ WithLast(t.ci, g) \in Seq(Frames) /\ Len(WithLast(t.ci, g)) = Len(t.ci)
        /\ WithLast(t.ci, g)[Len(t.ci)] = g
        /\ \A i \in 1 .. Len(t.ci) - 1 : WithLast(t.ci, g)[i] = t.ci[i]
    BY ONLY <1>1, <1>2, g \in Frames, LastChanged
  <2>. QED  BY <2>1
<1>4. \A i \in 1..below[n] : i \in 1 .. l - 1
  BY <1>2
<1>5. Alike(t.ci, u.ci, below[n], below[n])
  BY <1>3, <1>4 DEF Alike
<1>6. Local(u.cs, u.ci, below, n, l)
  <2>1. FramesOf(u.cs, u.ci, below, n, l)
    BY <1>2, <1>3 DEF FramesOf
  <2>2. BegunBy(u.cs, u.ci, below, n)
    BY <1>2 DEF Local, BegunBy
  <2>3. Saved(u.cs, u.ci, below, n)
    BY DEF Saved
  <2>. QED  BY <2>1, <2>2, <2>3 DEF Local
<1>7. n >= 4 => Begins(t.cs, u.ci, n - 1, below[n], u.cs[n])
  <2>1. ASSUME n >= 4, t.cs[n - 1].kind = "body" PROVE below[n] \in 1 .. l - 1
    <3>. DEFINE k == n - 1
    <3>1. k \in Nat /\ 2 <= k /\ k < Len(t.cs) /\ k >= 3 /\ k + 1 = n
      BY <1>2, <2>1
    <3>2. t.cs[k].kind = "body"
      BY <2>1
    <3>. HIDE DEF k
    <3>3. Local(t.cs, t.ci, below, k, below[k + 1]) /\ below[k] \in Nat /\ below[k + 1] \in Nat
      BY ONLY <1>1, <3>1, UnderJoined
    <3>4. below[k + 1] = below[k] + 1
      BY <3>2, <3>3 DEF Local, FramesOf
    <3>. QED  BY <1>2, <3>1, <3>3, <3>4
  <2>. QED  BY <1>2, <1>3, <2>1 DEF Begins
<1>8. GoesOn(u.cs, u.ci, n, l)
  BY <1>2, <1>3, SMTT(45) DEF GoesOn
<1>9. Flagged(u.cs, u.ci)
  BY <1>1, <1>2, FlaggedWithLast
<1>10. Counted(u)
  BY <1>1, <1>3 DEF Counted
<1>. QED
  <2>1. /\ below[n] <= Len(u.ci) /\ Len(u.cs) = n /\ u.cs[n].kind # "rawrun"
        /\ \A i \in 1 .. n - 1 : u.cs[i] = t.cs[i]
    BY <1>2, <1>3
  <2>. QED  BY <1>2, <1>3, <1>5, <1>6, <1>7, <1>8, <1>9, <1>10, <2>1, ChangeReady

\* Whether the C function on top has a continuation.
KeepK(t, k) == SetFrame(t, [LastFrame(t) EXCEPT !.k = k])

LEMMA ContinuationSet ==
  ASSUME NEW t, NEW below, Ready(t, below), t.cs[Len(t.cs)].kind = "body", ~t.ci[Len(t.ci)].pcall,
         NEW k \in BOOLEAN
  PROVE  /\ KeepK(t, k) \in States /\ Len(KeepK(t, k).ci) = Len(t.ci) /\ KeepK(t, k).ci[Len(t.ci)].k = k
         /\ ~KeepK(t, k).ci[Len(t.ci)].pcall /\ Ready(KeepK(t, k), below)
         /\ KeepK(t, k).cs = t.cs /\ KeepK(t, k).nny = t.nny /\ KeepK(t, k).status = t.status
         /\ KeepK(t, k).lock = t.lock
<1>. DEFINE n == Len(t.cs)
            l == Len(t.ci)
            f == LastFrame(t)
            g == [f EXCEPT !.k = k]
            u == SetFrame(t, g)
<1>1. /\ t.cs \in Seq(Acts) /\ t.ci \in Seq(Frames) /\ Joined(t.cs, t.ci, below) /\ Counted(t) /\ t \in States
  BY StateFields DEF Ready
<1>2. n \in Nat /\ l \in Nat /\ l >= 1 /\ t.ci # <<>> /\ ~t.ci[l].lua
  BY <1>1, CFrameOnTop
<1>3. f \in Frames /\ f = t.ci[l]
  BY <1>1, <1>2 DEF LastFrame
<1>. HIDE DEF f
<1>4. /\ g \in Frames /\ g.k = k /\ g.pcall = f.pcall /\ g.lua = f.lua /\ g.handler = f.handler
  BY <1>3 DEF Frames
<1>. HIDE DEF g, u
<1>5. /\ u \in States
      /\ Fields(u, WithLast(t.ci, g), t.cs, t.nCcalls, t.nny, t.allowhook, t.errfunc, t.status, t.lock)
  BY <1>1, <1>2, <1>4, SetFrameDoes DEF u
<1>6. /\ u.status = t.status /\ u.lock = t.lock /\ u.ci = WithLast(t.ci, g) /\ u.cs = t.cs /\ u.nCcalls = t.nCcalls /\ u.nny = t.nny
      /\ u.allowhook = t.allowhook /\ u.errfunc = t.errfunc
  BY <1>5 DEF Fields
<1>7. /\ Len(u.ci) = l /\ u.ci[l] = g /\ \A i \in 1 .. l - 1 : u.ci[i] = t.ci[i]
  <2>1. /\ Len(WithLast(t.ci, g)) = Len(t.ci) /\ WithLast(t.ci, g)[Len(t.ci)] = g
        /\ \A i \in 1 .. Len(t.ci) - 1 : WithLast(t.ci, g)[i] = t.ci[i]
    BY ONLY <1>1, <1>2, <1>4, LastChanged
  <2>. QED  BY <1>6, <2>1
<1>8. HandlerIs(u.errfunc, u.cs, u.ci, n, l)
  <2>1. \A i \in 1..l : u.ci[i].pcall = t.ci[i].pcall /\ u.ci[i].handler = t.ci[i].handler
    <3>1. \A i \in 1..l : i \in 1 .. l - 1 \/ i = l
      BY <1>2
    <3>. QED  BY <1>3, <1>4, <1>7, <3>1
  <2>2. HandlerIs(t.errfunc, t.cs, t.ci, n, l)
    BY <1>1 DEF Counted
  <2>. QED  BY <1>2, <1>6, <2>1, <2>2, HandlerSame, SMTT(45)
<1>9. ~g.pcall /\ ~g.lua
  BY <1>2, <1>3, <1>4
<1>10. Ready(u, below)
  BY <1>4, <1>5, <1>6, <1>8, <1>9, TopFrameReady
<1>11. u = KeepK(t, k)
  BY DEF u, g, f, KeepK
<1>. QED  BY <1>4, <1>5, <1>6, <1>7, <1>9, <1>10, <1>11

LEMMA CallKFine ==
  ASSUME MaxCCalls \in Nat \ {0}, Fine(s), NEW k \in BOOLEAN, NEW lua \in BOOLEAN, CallK(k, lua)
  PROVE  Fine(s')
<1>. DEFINE n == Len(s.cs)
            l == Len(s.ci)
            h == n + 1
            w == IF Continues(k) THEN KeepK(s, TRUE) ELSE s
            t == Locked(w)
            a == CallOf("api", ~Continues(k))
            ds == Append(t.cs, a)
<1>1. s.cs # <<>> /\ RunsC(s.cs[n]) /\ s.status = "ok" /\ n >= 3
  BY InCIs DEF CallK
<1>2. PICK below \in Seq(Nat) : Ready(s, below)
  BY <1>1, RunsAs
<1>3. /\ s \in States /\ s.cs \in Seq(Acts) /\ s.ci \in Seq(Frames) /\ n \in Nat /\ l \in Nat /\ s.lock = 0 /\ OnTop(s.cs, s.ci)
      /\ Top = s.cs[n] /\ Joined(s.cs, s.ci, below)
  BY <1>1, <1>2, RunsAs DEF Ready
<1>4. ~s.ci[l].pcall
  <2>1. s.cs[n].kind \in {"body", "hook"} /\ n = Len(s.cs) /\ l = Len(s.ci)
    BY <1>1 DEF RunsC
  <2>. HIDE DEF n, l
  <2>. QED  BY ONLY <1>3, <2>1, TopUnflagged
<1>5. Continues(k) => s.cs[n].kind = "body"
  BY <1>3 DEF CallK, MayContinue, Continues, Is
<1>. DEFINE b == Append(below, l)
<1>6. /\ w \in States /\ w.cs = s.cs /\ w.lock = 0 /\ w.status = "ok" /\ Ready(w, below) /\ Len(w.ci) = l
      /\ ~w.ci[l].pcall /\ (Continues(k) => w.ci[l].k)
  <2>1. CASE Continues(k)
    <3>1. w = KeepK(s, TRUE) /\ Len(KeepK(s, TRUE).ci) = l
      BY <1>2, <1>4, <1>5, <2>1, ContinuationSet
    <3>2. /\ KeepK(s, TRUE) \in States /\ KeepK(s, TRUE).ci[Len(s.ci)].k = TRUE
          /\ ~KeepK(s, TRUE).ci[Len(s.ci)].pcall /\ Ready(KeepK(s, TRUE), below)
          /\ KeepK(s, TRUE).cs = s.cs /\ KeepK(s, TRUE).status = s.status
          /\ KeepK(s, TRUE).lock = s.lock
      BY <1>2, <1>4, <1>5, <2>1, ContinuationSet
    <3>. HIDE DEF w
    <3>. QED  BY <1>1, <1>3, <3>1, <3>2
  <2>2. CASE ~Continues(k)
    BY <1>1, <1>2, <1>3, <1>4, <2>2
  <2>. QED  BY <2>1, <2>2
<1>. HIDE DEF w
<1>7. t \in States /\ Fields(t, w.ci, w.cs, w.nCcalls, w.nny, w.allowhook, w.errfunc, w.status, w.lock + 1)
  BY <1>6, LockDoes
<1>. HIDE DEF t
<1>8. t.lock = 1 /\ t.status = "ok" /\ t.cs = s.cs /\ t.ci = w.ci /\ Ready(t, below)
  BY <1>6, <1>7, SameReady DEF Fields
<1>9. a \in Acts /\ a.kind = "call" /\ a.by = "api" /\ a.noyield = ~Continues(k)
  BY DEF CallOf, Acts
<1>10. BegunBy(ds, t.ci, b, h)
  <2>1. ds[h] = a /\ ds[h - 1] = s.cs[n]
    <3>1. n = Len(s.cs) /\ n >= 1
      BY <1>1
    <3>. HIDE DEF n, a
    <3>. QED  BY <1>3, <1>8, <1>9, <3>1, AppendTops
  <2>. HIDE DEF h, a, ds, b, n
  <2>. QED  BY <1>1, <1>5, <1>9, <2>1 DEF BegunBy
<1>11. MayBegin(t, a, n, l)
  <2>1. Begins(t.cs, t.ci, n, l, a)
    <3>1. s.cs[n].kind = "hook" => NoYield(a)
      BY <1>5, <1>9 DEF NoYield
    <3>. HIDE DEF n, l, a
    <3>. QED  BY <1>1, <1>6, <1>8, <3>1 DEF Begins, RunsC
  <2>2. a.kind # "hook" /\ (~NoYield(a) => Good(t.ci[l]))
    BY <1>6, <1>8, <1>9 DEF NoYield, Good
  <2>. HIDE DEF n, l, a
  <2>. QED  BY <2>1, <2>2 DEF MayBegin
<1>12. Above(t, below, n, l, h, b)
  BY <1>6, <1>8 DEF Above
<1>. HIDE DEF n, l, h, b, a
<1>13. Fine(DoCall(t, "api", ~Continues(k), lua))
  <2>1. a = CallOf("api", ~Continues(k)) /\ (~Continues(k)) \in BOOLEAN
    BY DEF a
  <2>. DEFINE y == ~Continues(k)
  <2>2. a = CallOf("api", y) /\ y \in BOOLEAN
    BY <2>1
  <2>. HIDE DEF y
  <2>3. Fine(DoCall(t, "api", y, lua))
    BY <1>8, <1>9, <1>10, <1>11, <1>12, <2>2, DoCallFine
  <2>. QED  BY <2>3 DEF y
<1>14. s' = DoCall(t, "api", ~Continues(k), lua)
  BY DEF CallK, t, w, KeepK
<1>. QED  BY <1>13, <1>14

LEMMA YieldKFine ==
  ASSUME MaxCCalls \in Nat \ {0}, Fine(s), NEW k \in BOOLEAN, YieldK(k)
  PROVE  Fine(s')
<1>. DEFINE n == Len(s.cs)
            l == Len(s.ci)
            v == [s EXCEPT !.status = "yield"]
            w == KeepK(v, k)
            t == Locked(w)
<1>1. s.cs # <<>> /\ RunsC(s.cs[n]) /\ s.status = "ok" /\ n >= 3
  BY InCIs DEF YieldK
<1>2. PICK below \in Seq(Nat) : Ready(s, below)
  BY <1>1, RunsAs
<1>3. /\ s \in States /\ s.cs \in Seq(Acts) /\ s.ci \in Seq(Frames) /\ n \in Nat /\ l \in Nat /\ s.lock = 0 /\ OnTop(s.cs, s.ci)
      /\ Top = s.cs[n] /\ Joined(s.cs, s.ci, below) /\ s.nny \in Nat
  BY <1>1, <1>2, RunsAs DEF Ready
<1>4. ~s.ci[l].pcall /\ l >= 1
  <2>1. s.cs[n].kind \in {"body", "hook"} /\ n = Len(s.cs) /\ l = Len(s.ci)
    BY <1>1 DEF RunsC
  <2>. HIDE DEF n, l
  <2>. QED  BY ONLY <1>3, <2>1, TopUnflagged
<1>5. s.cs[n].kind = "body"
  BY <1>3 DEF YieldK, Is
<1>6. CASE s.nny > 0
  <2>1. Fine(Push(Locked(s), Raise))
    BY <1>1, CRaiseFine
  <2>. QED  BY <1>6, <2>1 DEF YieldK
<1>7. CASE ~(s.nny > 0)
  <2>1. v \in States /\ Fields(v, s.ci, s.cs, s.nCcalls, s.nny, s.allowhook, s.errfunc, "yield", s.lock)
    BY ONLY <1>3 DEF States, Fields
  <2>2. Ready(v, below) /\ LastFrame(v) = LastFrame(s)
    BY <1>2, <2>1, SameReady DEF Fields, LastFrame
  <2>. HIDE DEF v
  <2>3. /\ w \in States /\ Len(w.ci) = l /\ ~w.ci[l].pcall /\ Ready(w, below)
        /\ w.cs = s.cs /\ w.nny = s.nny /\ w.status = "yield" /\ w.lock = 0
    <3>1. v.cs[Len(v.cs)].kind = "body" /\ ~v.ci[Len(v.ci)].pcall /\ Len(v.ci) = l
      BY <1>4, <1>5, <2>1 DEF Fields
    <3>2. /\ KeepK(v, k) \in States /\ Len(KeepK(v, k).ci) = Len(v.ci)
          /\ ~KeepK(v, k).ci[Len(v.ci)].pcall /\ Ready(KeepK(v, k), below)
          /\ KeepK(v, k).cs = v.cs /\ KeepK(v, k).nny = v.nny /\ KeepK(v, k).status = v.status
          /\ KeepK(v, k).lock = v.lock
      BY <2>2, <3>1, ContinuationSet
    <3>. QED  BY <1>3, <2>1, <3>1, <3>2 DEF Fields
  <2>. HIDE DEF w
  <2>4. t \in States /\ Fields(t, w.ci, w.cs, w.nCcalls, w.nny, w.allowhook, w.errfunc, w.status, w.lock + 1)
    BY <2>3, LockDoes
  <2>. HIDE DEF t
  <2>5. Ready(t, below)
    BY <2>3, <2>4, SameReady DEF Fields
  <2>6. t.lock = 1 /\ t.status = "yield" /\ t.nny = 0 /\ t.cs = s.cs /\ t.ci = w.ci
    BY <1>3, <1>7, <2>3, <2>4 DEF Fields
  <2>7. t.cs[Len(t.cs)].kind \in {"body", "execute"} /\ Len(t.ci) >= 1 /\ ~t.ci[Len(t.ci)].pcall
    BY <1>4, <1>5, <2>3, <2>6
  <2>8. Fine(Throw(t, "yield"))
    BY ONLY MaxCCalls \in Nat \ {0}, <2>5, <2>6, <2>7, YieldFine
  <2>9. s' = Throw(t, "yield")
    BY <1>7, <2>2 DEF YieldK, t, w, v, KeepK
  <2>. QED  BY <2>8, <2>9
<1>. QED  BY <1>6, <1>7

\* Where a yield is possible, what a protected call with a continuation saves is
\* what an error needs.
LEMMA YieldablePCallFine ==
  ASSUME MaxCCalls \in Nat \ {0}, Fine(s), InC, Is("body"), s.nny = 0, NEW handler \in BOOLEAN, NEW lua \in BOOLEAN
  PROVE  Fine(YieldablePCall(handler, lua))
<1>. DEFINE n == Len(s.cs)
            l == Len(s.ci)
            h == n + 1
            e == ErrFunc(handler)
            v == [s EXCEPT !.errfunc = e]
            f == LastFrame(s)
            g == [f EXCEPT !.k = TRUE, !.pcall = TRUE, !.handler = handler, !.oah = s.allowhook, !.old = s.errfunc]
            w == SetFrame(v, g)
            t == Locked(w)
            a == CallOf("ypcall", FALSE)
            ds == Append(t.cs, a)
<1>1. s.cs # <<>> /\ RunsC(s.cs[n]) /\ s.status = "ok" /\ n >= 3
  BY InCIs
<1>2. PICK below \in Seq(Nat) : Ready(s, below)
  BY <1>1, RunsAs
<1>. DEFINE b == Append(below, l)
<1>3. /\ s \in States /\ s.cs \in Seq(Acts) /\ s.ci \in Seq(Frames) /\ n \in Nat /\ l \in Nat /\ s.lock = 0 /\ OnTop(s.cs, s.ci)
      /\ Top = s.cs[n] /\ Joined(s.cs, s.ci, below) /\ Counted(s) /\ s.allowhook \in BOOLEAN /\ s.errfunc \in Nat
      /\ Flagged(s.cs, s.ci)
  BY <1>1, <1>2, RunsAs DEF Ready, Joined
<1>4. s.cs[n].kind = "body" /\ s.cs[n].stage = "running"
  BY <1>1, <1>3 DEF RunsC, Is
<1>5. /\ l >= 1 /\ s.ci # <<>> /\ ~s.ci[l].lua /\ GoesOn(s.cs, s.ci, n, l)
  BY <1>3, <1>4, CFrameOnTop
<1>6. ~s.ci[l].pcall
  BY <1>4, <1>3 DEF OnTop
<1>7. Free(s.cs, n)
  BY <1>3, CountsAre DEF Counted
<1>8. \A j \in 1..n : s.cs[j].kind \notin {"hook", "pcall"}
  BY <1>3, <1>4, <1>7, FreeMeans
<1>9. s.allowhook = TRUE
  BY <1>3, <1>8 DEF Counted, Unhooked
<1>10. f \in Frames /\ f = s.ci[l] /\ e \in Nat /\ e = IF handler THEN l ELSE 0
  BY <1>3, <1>5 DEF LastFrame, ErrFunc
<1>. HIDE DEF f, e
<1>11. /\ g \in Frames /\ g.k = TRUE /\ g.pcall = TRUE /\ g.handler = handler /\ g.oah = TRUE /\ g.old = s.errfunc
       /\ g.lua = f.lua
  BY <1>3, <1>9, <1>10 DEF Frames
<1>12. v \in States /\ Fields(v, s.ci, s.cs, s.nCcalls, s.nny, s.allowhook, e, s.status, s.lock)
  BY ONLY <1>3, <1>10 DEF States, Fields
<1>. HIDE DEF g, v
<1>13. w \in States /\ Fields(w, WithLast(s.ci, g), s.cs, s.nCcalls, s.nny, s.allowhook, e, s.status, s.lock)
  BY <1>5, <1>11, <1>12, SetFrameDoes DEF Fields
<1>. HIDE DEF w
<1>14. t \in States /\ Fields(t, WithLast(s.ci, g), s.cs, s.nCcalls, s.nny, s.allowhook, e, s.status, s.lock + 1)
  BY <1>13, LockDoes DEF Fields
<1>. HIDE DEF t
<1>15. /\ t.ci = WithLast(s.ci, g) /\ t.cs = s.cs /\ t.nCcalls = s.nCcalls /\ t.nny = s.nny /\ t.allowhook = s.allowhook
       /\ t.errfunc = e /\ t.lock = 1 /\ t.status = "ok"
  BY <1>1, <1>3, <1>14 DEF Fields
<1>16. Len(t.ci) = l /\ t.ci[l] = g /\ \A i \in 1 .. l - 1 : t.ci[i] = s.ci[i]
  <2>1. /\ Len(WithLast(s.ci, g)) = Len(s.ci) /\ WithLast(s.ci, g)[Len(s.ci)] = g
        /\ \A i \in 1 .. Len(s.ci) - 1 : WithLast(s.ci, g)[i] = s.ci[i]
    BY ONLY <1>3, <1>5, <1>11, LastChanged
  <2>. QED  BY <1>15, <2>1
<1>17. HandlerIs(e, s.cs, t.ci, n, l)
  <2>1. FrameHandler(e, t.ci, l)
    <3>1. l \in 1..l /\ \A i \in l + 1 .. l : ~t.ci[i].pcall
      BY <1>3, <1>5
    <3>. HIDE DEF l
    <3>. QED  BY <1>10, <1>11, <1>16, <3>1 DEF FrameHandler
  <2>. QED  BY <1>8, <2>1 DEF HandlerIs
<1>18. FlaggedFrame(s.cs, t.ci, l)
  <2>. DEFINE m == l - 1
  <2>1. m \in Nat /\ m <= l /\ m <= m /\ \A i \in m + 1 .. l : i = l
    BY <1>3, <1>5
  <2>2. FrameHandler(s.errfunc, s.ci, l)
    BY <1>3, <1>8 DEF Counted, HandlerIs
  <2>3. \A i \in 1..m : t.ci[i].pcall = s.ci[i].pcall /\ t.ci[i].handler = s.ci[i].handler
    BY <1>16
  <2>5. \A i \in 1..m : Good(s.ci[i]) /\ t.ci[i] = s.ci[i]
    BY <1>7, <1>5, <1>16 DEF GoesOn
  <2>. HIDE DEF m, l
  <2>4. FrameHandler(s.errfunc, t.ci, m)
    <3>1. (\A i \in m + 1 .. l : ~s.ci[i].pcall) /\ \A i \in m + 1 .. m : ~t.ci[i].pcall
      BY <1>6, <2>1
    <3>. QED  BY ONLY <1>3, <2>1, <2>2, <2>3, <3>1, FrameHandlerMoves
  <2>6. ~t.ci[l].lua /\ t.ci[l].oah /\ t.ci[l].old = s.errfunc
    BY <1>5, <1>10, <1>11, <1>16
  <2>. QED  BY <1>8, <2>4, <2>5, <2>6 DEF FlaggedFrame, m, n
<1>19. Ready(t, below)
  <2>1. ~g.lua
    BY <1>5, <1>10, <1>11
  <2>. QED  BY <1>2, <1>4, <1>11, <1>14, <1>15, <1>17, <1>18, <2>1, TopFrameReady
<1>20. a \in Acts /\ a.kind = "call" /\ a.by = "ypcall" /\ a.noyield = FALSE
  BY DEF CallOf, Acts
<1>21. BegunBy(ds, t.ci, b, h)
  <2>1. ds[h] = a /\ ds[h - 1] = s.cs[n]
    <3>1. n = Len(s.cs) /\ n >= 1
      BY <1>1
    <3>. HIDE DEF n, a
    <3>. QED  BY <1>3, <1>15, <1>20, <3>1, AppendTops
  <2>2. b[h] = l
    <3>1. below \in Seq(Nat) /\ Len(below) = n
      BY <1>3 DEF Joined, Levels
    <3>. QED  BY <1>3, <3>1
  <2>. HIDE DEF h, a, ds, b, n, l
  <2>. QED  BY <1>4, <1>5, <1>11, <1>16, <1>20, <2>1, <2>2 DEF BegunBy
<1>22. MayBegin(t, a, n, l)
  <2>1. Begins(t.cs, t.ci, n, l, a)
    BY <1>4, <1>15, <1>20 DEF Begins
  <2>2. Good(t.ci[l])
    BY <1>11, <1>16 DEF Good
  <2>. HIDE DEF n, l, a
  <2>. QED  BY <1>20, <2>1, <2>2 DEF MayBegin
<1>23. Above(t, below, n, l, h, b)
  BY <1>15, <1>16 DEF Above
<1>. HIDE DEF n, l, h, b
<1>24. Fine(DoCall(t, "ypcall", FALSE, lua))
  <2>. HIDE DEF ds
  <2>. QED  BY <1>15, <1>19, <1>20, <1>21, <1>22, <1>23, DoCallFine DEF ds
<1>. QED  BY <1>24 DEF YieldablePCall, t, w, v, g, f, e

\* A protected call in C: what to go back to is saved.
LEMMA PCallReady ==
  ASSUME NEW t, NEW below, Ready(t, below), NEW n, NEW l, NEW h, NEW b, Above(t, below, n, l, h, b), n >= 3,
         RunsC(t.cs[n]), ~t.ci[l].pcall,
         NEW p \in Acts, p.kind = "pcall", p.ci = l, p.nny = t.nny, p.allowhook = t.allowhook,
         p.errfunc = t.errfunc,
         NEW u \in States, u.cs = Append(t.cs, p), u.ci = t.ci, u.nCcalls = t.nCcalls, u.nny = t.nny,
         u.allowhook = t.allowhook, u.errfunc = IF p.handler THEN l ELSE 0
  PROVE  Ready(u, b) /\ b \in Seq(Nat) /\ u.cs[Len(u.cs)] = p /\ Len(u.cs) = h
<1>1. n = Len(t.cs) /\ l = Len(t.ci) /\ h = n + 1 /\ b = Append(below, l)
  BY DEF Above
<1>2. /\ t \in States /\ t.cs \in Seq(Acts) /\ t.ci \in Seq(Frames) /\ l \in Nat /\ n \in Nat
      /\ Joined(t.cs, t.ci, below) /\ Counted(t) /\ l = Len(t.ci) /\ n = Len(t.cs) /\ Flagged(t.cs, t.ci)
      /\ t.allowhook \in BOOLEAN
  BY <1>1, StateFields DEF Ready, Joined
<1>3. Pushed(u.cs, t.cs, p, n, h)
  <2>1. u.cs = Append(t.cs, p) /\ p \in Acts
    OBVIOUS
  <2>. QED  BY ONLY <1>1, <1>2, <2>1, PushIs
<1>4. /\ u.cs \in Seq(Acts) /\ h \in Nat /\ Len(u.cs) = h /\ u.cs[h] = p /\ (\A i \in 1..n : u.cs[i] = t.cs[i])
      /\ h = n + 1 /\ h - 1 = n
  BY ONLY <1>3 DEF Pushed
<1>5. /\ CallsTo(u.cs, h) = CallsTo(t.cs, n) + IF p.kind = "call" THEN 1 ELSE 0
      /\ NoYieldsTo(u.cs, h) = NoYieldsTo(t.cs, n) + IF NoYield(p) THEN 1 ELSE 0
      /\ Unhooked(u.cs, h) <=> Unhooked(t.cs, n) /\ p.kind # "hook"
      /\ Free(u.cs, h) <=> Free(t.cs, n) /\ ~NoYield(p)
  BY ONLY <1>3, PushCounts
<1>6. /\ CallsTo(t.cs, n) \in Nat /\ NoYieldsTo(t.cs, n) \in Nat /\ ~NoYield(p)
      /\ Unhooked(t.cs, n) \in BOOLEAN /\ Unhooked(u.cs, h) \in BOOLEAN
  BY <1>2, CountsAre DEF Unhooked, NoYield
<1>7. /\ below[n] \in Nat /\ below[n] <= l /\ GoesOn(t.cs, t.ci, n, l) /\ below \in Seq(Nat) /\ Len(below) = n
      /\ (n >= 3 => Local(t.cs, t.ci, below, n, l))
  BY ONLY <1>2, TopJoined
<1>8. b[h] = l
  <2>1. Append(below, l)[Len(below) + 1] = l
    BY ONLY <1>2, <1>7
  <2>. QED  BY ONLY <1>1, <1>2, <1>7, <2>1
<1>9. /\ NoYieldsTo(u.cs, h) = NoYieldsTo(t.cs, n) /\ CallsTo(u.cs, h) = CallsTo(t.cs, n)
      /\ Unhooked(u.cs, h) = Unhooked(t.cs, n)
  BY ONLY <1>5, <1>6, p.kind = "pcall"
<1>10. HandlerIs(t.errfunc, u.cs, t.ci, n, l)
  <2>1. HandlerIs(t.errfunc, t.cs, t.ci, n, l)
    BY <1>2 DEF Counted
  <2>2. \A i \in 1..l : t.ci[i].pcall = t.ci[i].pcall /\ t.ci[i].handler = t.ci[i].handler
    OBVIOUS
  <2>. QED  BY ONLY <1>2, <1>4, <2>1, <2>2, HandlerSame
<1>11. Local(u.cs, u.ci, b, h, l)
  <2>1. FramesOf(u.cs, u.ci, b, h, l)
    BY <1>4, <1>8 DEF FramesOf
  <2>2. BegunBy(u.cs, u.ci, b, h)
    BY <1>2, <1>4 DEF BegunBy
  <2>3. Saved(u.cs, u.ci, b, h)
    BY <1>2, <1>4, <1>8, <1>9, <1>10 DEF Saved, Counted
  <2>. QED  BY <2>1, <2>2, <2>3 DEF Local
<1>12. Begins(t.cs, u.ci, n, l, p)
  BY DEF Begins, RunsC
<1>13. GoesOn(u.cs, u.ci, h, l)
  BY <1>2, <1>4, <1>5, <1>7 DEF GoesOn
<1>14. Flagged(u.cs, u.ci)
  <2>1. ASSUME NEW i \in 1..l, t.ci[i].pcall PROVE FlaggedFrame(u.cs, t.ci, i)
    <3>1. FlaggedFrame(t.cs, t.ci, i) /\ i < l
      BY <1>2, <2>1 DEF Flagged
    <3>2. \A j \in 1..h : j = h \/ (j \in 1..n /\ u.cs[j] = t.cs[j])
      BY <1>2, <1>4
    <3>. QED  BY <1>2, <1>4, <2>1, <3>1, <3>2 DEF FlaggedFrame
  <2>2. \A i \in 1..l : ~t.ci[i].pcall => FlaggedFrame(u.cs, t.ci, i)
    BY DEF FlaggedFrame
  <2>. QED  BY <1>2, <2>1, <2>2 DEF Flagged
<1>15. Counted(u)
  <2>1. HandlerIs(u.errfunc, u.cs, u.ci, h, l)
    <3>1. h \in 1..h /\ \A k \in h + 1 .. h : u.cs[k].kind # "pcall"
      BY <1>2, <1>4
    <3>2. u.cs[h].kind = "pcall" /\ u.errfunc = IF u.cs[h].handler THEN u.cs[h].ci ELSE 0
      BY <1>4
    <3>. QED  BY <3>1, <3>2 DEF HandlerIs
  <2>2. u.cs[2] = t.cs[2]
    BY ONLY <1>2, <1>4, n >= 3
  <2>. QED  BY <1>2, <1>4, <1>9, <2>1, <2>2 DEF Counted
<1>16. Ready(u, b) /\ b \in Seq(Nat)
  <2>1. l <= Len(u.ci) /\ Alike(t.ci, u.ci, below[n], l) /\ Len(u.ci) = l /\ (p.kind = "rawrun" => p.nCcalls <= Bound)
    BY <1>2, AlikeSelf
  <2>. QED  BY <1>1, <1>2, <1>4, <1>11, <1>12, <1>13, <1>14, <1>15, <2>1, PushReady, ZenonT(45)
<1>. QED  BY <1>4, <1>16

\* luaD_rawrunprotected for it.
LEMMA RawRunReady ==
  ASSUME NEW t, NEW below, Ready(t, below), NEW n, NEW l, NEW h, NEW b, Above(t, below, n, l, h, b), n >= 3,
         t.cs[n].kind = "pcall", t.nCcalls <= Bound,
         NEW a \in Acts, a.kind = "rawrun", a.of = "pcall", a.nCcalls = t.nCcalls,
         NEW u \in States, u.cs = Append(t.cs, a), u.ci = t.ci, u.nCcalls = t.nCcalls, u.nny = t.nny,
         u.allowhook = t.allowhook, u.errfunc = t.errfunc
  PROVE  Ready(u, b) /\ b \in Seq(Nat) /\ u.cs[Len(u.cs)] = a /\ Len(u.cs) = h
<1>1. n = Len(t.cs) /\ l = Len(t.ci) /\ h = n + 1 /\ b = Append(below, l)
  BY DEF Above
<1>2. /\ t \in States /\ t.cs \in Seq(Acts) /\ t.ci \in Seq(Frames) /\ l \in Nat /\ n \in Nat
      /\ Joined(t.cs, t.ci, below) /\ Counted(t) /\ l = Len(t.ci) /\ n = Len(t.cs) /\ Flagged(t.cs, t.ci)
      /\ t.allowhook \in BOOLEAN
  BY <1>1, StateFields DEF Ready, Joined
<1>3. Pushed(u.cs, t.cs, a, n, h)
  <2>1. u.cs = Append(t.cs, a) /\ a \in Acts
    OBVIOUS
  <2>. QED  BY ONLY <1>1, <1>2, <2>1, PushIs
<1>4. /\ u.cs \in Seq(Acts) /\ h \in Nat /\ Len(u.cs) = h /\ u.cs[h] = a /\ (\A i \in 1..n : u.cs[i] = t.cs[i])
      /\ h = n + 1 /\ h - 1 = n
  BY ONLY <1>3 DEF Pushed
<1>5. /\ CallsTo(u.cs, h) = CallsTo(t.cs, n) + IF a.kind = "call" THEN 1 ELSE 0
      /\ NoYieldsTo(u.cs, h) = NoYieldsTo(t.cs, n) + IF NoYield(a) THEN 1 ELSE 0
      /\ Unhooked(u.cs, h) <=> Unhooked(t.cs, n) /\ a.kind # "hook"
      /\ Free(u.cs, h) <=> Free(t.cs, n) /\ ~NoYield(a)
  BY ONLY <1>3, PushCounts
<1>6. /\ CallsTo(t.cs, n) \in Nat /\ NoYieldsTo(t.cs, n) \in Nat /\ ~NoYield(a)
      /\ Unhooked(t.cs, n) \in BOOLEAN /\ Unhooked(u.cs, h) \in BOOLEAN
  BY <1>2, CountsAre DEF Unhooked, NoYield
<1>7. /\ below[n] \in Nat /\ below[n] <= l /\ GoesOn(t.cs, t.ci, n, l) /\ below \in Seq(Nat) /\ Len(below) = n
      /\ (n >= 3 => Local(t.cs, t.ci, below, n, l))
  BY ONLY <1>2, TopJoined
<1>8. b[h] = l
  <2>1. Append(below, l)[Len(below) + 1] = l
    BY ONLY <1>2, <1>7
  <2>. QED  BY ONLY <1>1, <1>2, <1>7, <2>1
<1>9. /\ NoYieldsTo(u.cs, h) = NoYieldsTo(t.cs, n) /\ CallsTo(u.cs, h) = CallsTo(t.cs, n)
      /\ Unhooked(u.cs, h) = Unhooked(t.cs, n) /\ u.cs[2] = t.cs[2]
  BY ONLY <1>2, <1>4, <1>5, <1>6, a.kind = "rawrun", n >= 3
<1>11. Local(u.cs, u.ci, b, h, l)
  <2>1. FramesOf(u.cs, u.ci, b, h, l)
    BY <1>4, <1>8 DEF FramesOf
  <2>2. BegunBy(u.cs, u.ci, b, h)
    BY <1>2, <1>4 DEF BegunBy
  <2>3. Saved(u.cs, u.ci, b, h)
    BY <1>2, <1>4, <1>9 DEF Saved, Counted
  <2>. QED  BY <2>1, <2>2, <2>3 DEF Local
<1>12. Begins(t.cs, u.ci, n, l, a)
  BY DEF Begins
<1>13. GoesOn(u.cs, u.ci, h, l)
  BY <1>2, <1>4, <1>5, <1>7 DEF GoesOn
<1>14. Flagged(u.cs, u.ci)
  <2>1. a.kind # "pcall"
    OBVIOUS
  <2>. QED  BY <1>2, <2>1, FlaggedPush
<1>15. Counted(u)
  <2>1. HandlerIs(t.errfunc, t.cs, t.ci, n, l)
    BY <1>2 DEF Counted
  <2>2. HandlerIs(t.errfunc, u.cs, t.ci, h, l)
    <3>1. a.kind # "pcall" /\ a \in Acts /\ u.cs = Append(t.cs, a)
      OBVIOUS
    <3>. QED  BY ONLY <1>1, <1>2, <2>1, <3>1, HandlerPush
  <2>. QED  BY <1>2, <1>4, <1>9, <2>2 DEF Counted
<1>16. Ready(u, b) /\ b \in Seq(Nat)
  <2>1. l <= Len(u.ci) /\ Alike(t.ci, u.ci, below[n], l) /\ Len(u.ci) = l /\ (a.kind = "rawrun" => a.nCcalls <= Bound)
    BY <1>2, AlikeSelf
  <2>. QED  BY <1>1, <1>2, <1>4, <1>11, <1>12, <1>13, <1>14, <1>15, <2>1, PushReady
<1>. QED  BY <1>4, <1>16

LEMMA ConventionalPCallFine ==
  ASSUME MaxCCalls \in Nat \ {0}, Fine(s), InC, NEW handler \in BOOLEAN, NEW lua \in BOOLEAN
  PROVE  Fine(ConventionalPCall(handler, lua))
<1>. DEFINE n == Len(s.cs)
            l == Len(s.ci)
            e == ErrFunc(handler)
            saved == [kind |-> "pcall", ci |-> Len(s.ci), allowhook |-> s.allowhook, nny |-> s.nny,
                      errfunc |-> s.errfunc, handler |-> handler]
            r == RawRun("pcall")
            v == [s EXCEPT !.errfunc = e]
            t == Locked(v)
            w == Push(t, saved)
            x == Push(w, r)
            a == CallOf("f_call", TRUE)
<1>1. s.cs # <<>> /\ RunsC(s.cs[n]) /\ s.status = "ok" /\ n >= 3
  BY InCIs
<1>2. PICK below \in Seq(Nat) : Ready(s, below)
  BY <1>1, RunsAs
<1>3. /\ s \in States /\ s.cs \in Seq(Acts) /\ s.ci \in Seq(Frames) /\ n \in Nat /\ l \in Nat /\ s.lock = 0 /\ OnTop(s.cs, s.ci)
      /\ Joined(s.cs, s.ci, below) /\ s.allowhook \in BOOLEAN /\ s.errfunc \in Nat /\ s.nny \in Nat /\ s.nCcalls \in Nat
      /\ s.nCcalls <= Bound
  BY <1>1, <1>2, RunsAs DEF Ready
<1>4. ~s.ci[l].pcall
  <2>1. s.cs[n].kind \in {"body", "hook"} /\ n = Len(s.cs) /\ l = Len(s.ci)
    BY <1>1 DEF RunsC
  <2>. HIDE DEF n, l
  <2>. QED  BY ONLY <1>3, <2>1, TopUnflagged
<1>5. e \in Nat /\ e = IF handler THEN l ELSE 0
  BY <1>3 DEF ErrFunc
<1>6. /\ saved \in Acts /\ saved.kind = "pcall" /\ saved.ci = l /\ saved.nny = s.nny /\ saved.allowhook = s.allowhook
      /\ saved.errfunc = s.errfunc /\ saved.handler = handler
  BY <1>3 DEF Acts
<1>7. r \in Acts /\ r.kind = "rawrun" /\ r.of = "pcall" /\ r.nCcalls = s.nCcalls
  BY <1>3 DEF RawRun, Acts
<1>8. a \in Acts /\ a.kind = "call" /\ a.by = "f_call" /\ a.noyield = TRUE
  BY DEF CallOf, Acts
<1>. HIDE DEF e, saved, r, a
<1>9. v \in States /\ Fields(v, s.ci, s.cs, s.nCcalls, s.nny, s.allowhook, e, s.status, s.lock)
  BY ONLY <1>3, <1>5 DEF States, Fields
<1>. HIDE DEF v
<1>10. t \in States /\ Fields(t, s.ci, s.cs, s.nCcalls, s.nny, s.allowhook, e, s.status, s.lock + 1)
  BY <1>9, LockDoes DEF Fields
<1>. HIDE DEF t
<1>11. w \in States /\ Fields(w, s.ci, Append(s.cs, saved), s.nCcalls, s.nny, s.allowhook, e, s.status, s.lock + 1)
  BY <1>6, <1>10, PushDoes, SMTT(45) DEF Fields
<1>. HIDE DEF w
<1>12. x \in States /\ Fields(x, s.ci, Append(w.cs, r), s.nCcalls, s.nny, s.allowhook, e, s.status, s.lock + 1)
  BY <1>7, <1>11, PushDoes DEF Fields
<1>. HIDE DEF x
<1>. DEFINE h == n + 1
            b == Append(below, l)
            h2 == h + 1
            b2 == Append(b, l)
            h3 == h2 + 1
            b3 == Append(b2, l)
            ds == Append(x.cs, a)
<1>13. Above(s, below, n, l, h, b)
  BY DEF Above
<1>. HIDE DEF b
<1>14. Ready(w, b) /\ b \in Seq(Nat) /\ w.cs[Len(w.cs)] = saved /\ Len(w.cs) = h
  <2>1. /\ w.cs = Append(s.cs, saved) /\ w.ci = s.ci /\ w.nCcalls = s.nCcalls /\ w.nny = s.nny
        /\ w.allowhook = s.allowhook /\ w.errfunc = IF saved.handler THEN l ELSE 0
    BY <1>5, <1>6, <1>11 DEF Fields
  <2>2. RunsC(s.cs[n]) /\ n >= 3 /\ saved \in Acts /\ w \in States
    BY <1>1, <1>6, <1>11
  <2>. HIDE DEF n, l, h
  <2>. QED  BY ONLY <1>2, <1>4, <1>6, <1>13, <2>1, <2>2, PCallReady, SMTT(45)
<1>15. h \in Nat /\ h >= 3 /\ h2 \in Nat /\ h2 >= 3 /\ h2 - 1 = h
  BY <1>1, <1>3
<1>16. Above(w, b, h, l, h2, b2)
  BY <1>11, <1>14 DEF Above, Fields
<1>. HIDE DEF b2
<1>17. Ready(x, b2) /\ b2 \in Seq(Nat) /\ x.cs[Len(x.cs)] = r /\ Len(x.cs) = h2
  <2>1. /\ x.cs = Append(w.cs, r) /\ x.ci = w.ci /\ x.nCcalls = w.nCcalls /\ x.nny = w.nny
        /\ x.allowhook = w.allowhook /\ x.errfunc = w.errfunc /\ w.nCcalls = s.nCcalls
    BY <1>11, <1>12 DEF Fields
  <2>2. w.cs[h].kind = "pcall" /\ w.nCcalls <= Bound /\ r.nCcalls = w.nCcalls /\ h >= 3 /\ r \in Acts /\ x \in States
    BY <1>3, <1>6, <1>7, <1>12, <1>14, <1>15, <2>1
  <2>. HIDE DEF n, l, h, h2
  <2>. QED  BY ONLY <1>7, <1>14, <1>16, <2>1, <2>2, RawRunReady
<1>18. Above(x, b2, h2, l, h3, b3)
  BY <1>12, <1>17 DEF Above, Fields
<1>19. BegunBy(ds, x.ci, b3, h3)
  <2>1. ds[h3] = a /\ ds[h3 - 1] = r
    <3>1. h2 = Len(x.cs) /\ h2 >= 1 /\ h2 \in Nat /\ x.cs \in Seq(Acts)
      BY <1>12, <1>15, <1>17, StateFields
    <3>. HIDE DEF h2
    <3>. QED  BY <1>8, <1>17, <3>1, AppendTops
  <2>. HIDE DEF h3, ds, b3
  <2>. QED  BY <1>7, <1>8, <2>1 DEF BegunBy
<1>20. MayBegin(x, a, h2, l)
  <2>1. x.cs[h2] = r
    BY <1>17
  <2>2. NoYield(a)
    BY <1>8 DEF NoYield
  <2>. HIDE DEF h2, l
  <2>. QED  BY <1>7, <1>8, <2>1, <2>2 DEF MayBegin, Begins
<1>21. x.lock = 1 /\ x.status = "ok"
  BY <1>1, <1>3, <1>12 DEF Fields
<1>. HIDE DEF n, l, h, h2, h3, b3, ds
<1>22. Fine(DoCall(x, "f_call", TRUE, lua))
  <2>1. a = CallOf("f_call", TRUE) /\ TRUE \in BOOLEAN /\ ds = Append(x.cs, a)
    BY DEF a, ds
  <2>. QED  BY <1>8, <1>17, <1>18, <1>19, <1>20, <1>21, <2>1, DoCallFine
<1>23. ConventionalPCall(handler, lua) = DoCall(x, "f_call", TRUE, lua)
  BY DEF ConventionalPCall, x, w, t, v, e, saved, r
<1>. QED  BY <1>22, <1>23

LEMMA PCallKFine ==
  ASSUME MaxCCalls \in Nat \ {0}, Fine(s), NEW k \in BOOLEAN, NEW handler \in BOOLEAN, NEW lua \in BOOLEAN,
         PCallK(k, handler, lua)
  PROVE  Fine(s')
<1>1. CASE Continues(k)
  <2>1. InC /\ Is("body") /\ s.nny = 0
    BY <1>1 DEF PCallK, MayContinue, Continues
  <2>2. Fine(YieldablePCall(handler, lua))
    BY <2>1, YieldablePCallFine
  <2>. QED  BY <1>1, <2>2 DEF PCallK
<1>2. CASE ~Continues(k)
  <2>1. Fine(ConventionalPCall(handler, lua))
    BY ConventionalPCallFine DEF PCallK
  <2>. QED  BY <1>2, <2>1 DEF PCallK
<1>. QED  BY <1>1, <1>2

\* A C function gets on.
LEMMA StageReady ==
  ASSUME NEW t, NEW below, Ready(t, below), NEW n, n = Len(t.cs), t.cs[n].kind = "body",
         NEW u \in States, Len(u.cs) = n, \A i \in 1 .. n - 1 : u.cs[i] = t.cs[i], u.cs[n].kind = "body",
         u.ci = t.ci, u.nCcalls = t.nCcalls, u.nny = t.nny, u.allowhook = t.allowhook, u.errfunc = t.errfunc
  PROVE  Ready(u, below)
<1>. DEFINE l == Len(t.ci)
            m == n - 1
<1>1. /\ t.cs \in Seq(Acts) /\ t.ci \in Seq(Frames) /\ Joined(t.cs, t.ci, below) /\ Counted(t) /\ Flagged(t.cs, t.ci)
      /\ l \in Nat /\ l = Len(t.ci) /\ u.cs \in Seq(Acts) /\ t.allowhook \in BOOLEAN
  <2>1. t \in States /\ Joined(t.cs, t.ci, below) /\ Counted(t)
    BY DEF Ready
  <2>2. Flagged(t.cs, t.ci)
    BY <2>1 DEF Joined
  <2>3. u.cs \in Seq(Acts) /\ t.ci \in Seq(Frames) /\ t.cs \in Seq(Acts) /\ t.allowhook \in BOOLEAN
    BY <2>1, StateFields
  <2>4. l \in Nat /\ l = Len(t.ci)
    BY <2>3
  <2>. QED  BY ONLY <2>1, <2>2, <2>3, <2>4
<1>. HIDE DEF l
<1>2. /\ n \in Nat /\ n >= 3 /\ l >= 1 /\ below[n] \in Nat /\ l = below[n] + 1 /\ ~t.ci[l].lua
      /\ Local(t.cs, t.ci, below, n, l) /\ GoesOn(t.cs, t.ci, n, l)
      /\ (n >= 4 => Begins(t.cs, t.ci, n - 1, below[n], t.cs[n]))
  BY <1>1, CFrameOnTop, SMTT(45)
<1>3. /\ m \in Nat /\ n \in Nat \ {0} /\ n - 1 = m /\ \A i \in 1..m : u.cs[i] = t.cs[i]
      /\ m <= n
  <2>1. m \in Nat /\ n \in Nat \ {0} /\ n - 1 = m /\ m <= n
    BY ONLY <1>2
  <2>2. \A i \in 1..m : u.cs[i] = t.cs[i]
    OBVIOUS
  <2>. QED  BY ONLY <2>1, <2>2
<1>4. ~NoYield(t.cs[n]) /\ ~NoYield(u.cs[n]) /\ t.cs[n].kind # "call" /\ u.cs[n].kind # "call"
  BY DEF NoYield
<1>. HIDE DEF m
<1>5. /\ CallsTo(u.cs, m) = CallsTo(t.cs, m) /\ NoYieldsTo(u.cs, m) = NoYieldsTo(t.cs, m)
      /\ Unhooked(u.cs, m) = Unhooked(t.cs, m) /\ Free(u.cs, m) = Free(t.cs, m)
      /\ CallsTo(t.cs, m) \in Nat /\ NoYieldsTo(t.cs, m) \in Nat
  BY <1>3, CountsSame, CountsAre, SMTT(45)
<1>6. /\ CallsTo(t.cs, n) = CallsTo(t.cs, n - 1) + IF t.cs[n].kind = "call" THEN 1 ELSE 0
      /\ NoYieldsTo(t.cs, n) = NoYieldsTo(t.cs, n - 1) + IF NoYield(t.cs[n]) THEN 1 ELSE 0
      /\ Unhooked(t.cs, n) <=> Unhooked(t.cs, n - 1) /\ t.cs[n].kind # "hook"
      /\ Free(t.cs, n) <=> Free(t.cs, n - 1) /\ ~NoYield(t.cs[n])
  BY <1>3, CountsNext
<1>7. /\ CallsTo(u.cs, n) = CallsTo(u.cs, n - 1) + IF u.cs[n].kind = "call" THEN 1 ELSE 0
      /\ NoYieldsTo(u.cs, n) = NoYieldsTo(u.cs, n - 1) + IF NoYield(u.cs[n]) THEN 1 ELSE 0
      /\ Unhooked(u.cs, n) <=> Unhooked(u.cs, n - 1) /\ u.cs[n].kind # "hook"
      /\ Free(u.cs, n) <=> Free(u.cs, n - 1) /\ ~NoYield(u.cs[n])
  BY <1>3, CountsNext
<1>8. CallsTo(u.cs, n) = CallsTo(t.cs, n) /\ NoYieldsTo(u.cs, n) = NoYieldsTo(t.cs, n)
  BY ONLY <1>3, <1>4, <1>5, <1>6, <1>7
<1>9. (Unhooked(u.cs, n) <=> Unhooked(t.cs, n)) /\ (Free(u.cs, n) <=> Free(t.cs, n))
  BY ONLY <1>3, <1>4, <1>5, <1>6, <1>7, t.cs[n].kind = "body", u.cs[n].kind = "body"
<1>10. Unhooked(u.cs, n) = Unhooked(t.cs, n)
  BY <1>9 DEF Unhooked
<1>11. Local(u.cs, u.ci, below, n, l)
  <2>1. u.cs[n - 1] = t.cs[n - 1]
    BY <1>2
  <2>2. FramesOf(u.cs, u.ci, below, n, l)
    BY <1>2 DEF FramesOf
  <2>3. BegunBy(u.cs, u.ci, below, n)
    BY <1>2, <2>1 DEF Local, BegunBy
  <2>4. Saved(u.cs, u.ci, below, n)
    BY DEF Saved
  <2>. QED  BY <2>2, <2>3, <2>4 DEF Local
<1>12. n >= 4 => Begins(t.cs, u.ci, n - 1, below[n], u.cs[n])
  BY <1>2, <1>4 DEF Begins
<1>13. GoesOn(u.cs, u.ci, n, l)
  BY <1>2, <1>9 DEF GoesOn
<1>14. Flagged(u.cs, u.ci)
  <2>1. \A j \in 1..n : u.cs[j].kind = "pcall" => j \in 1..n /\ u.cs[j] = t.cs[j]
    <3>1. \A j \in 1..n : j = n \/ j \in 1..m
      BY <1>3
    <3>. QED  BY <1>3, <3>1
  <2>2. \A i \in 1..l : FlaggedFrame(t.cs, t.ci, i)
    BY <1>1 DEF Flagged
  <2>3. \A i \in 1..l : FlaggedFrame(u.cs, t.ci, i)
    BY <2>1, <2>2 DEF FlaggedFrame
  <2>. QED  BY <1>1, <2>3 DEF Flagged
<1>15. HandlerIs(t.errfunc, u.cs, t.ci, n, l)
  <2>1. HandlerIs(t.errfunc, t.cs, t.ci, n, l)
    BY <1>1 DEF Counted
  <2>2. /\ \A i \in m + 1 .. n : i = n
        /\ \A i \in l + 1 .. l : FALSE
    BY <1>1, <1>3
  <2>3. /\ \A i \in m + 1 .. n : t.cs[i].kind # "pcall"
        /\ \A i \in m + 1 .. n : u.cs[i].kind # "pcall"
        /\ \A i \in l + 1 .. l : ~t.ci[i].pcall
        /\ \A i \in 1..l : t.ci[i].pcall = t.ci[i].pcall /\ t.ci[i].handler = t.ci[i].handler
        /\ l <= l
    BY <1>1, <2>2
  <2>. QED  BY ONLY <1>1, <1>2, <1>3, <2>1, <2>3, HandlerMoves
<1>16. Counted(u)
  <2>1. u.cs[2] = t.cs[2]
    BY <1>2
  <2>. QED  BY <1>1, <1>8, <1>10, <1>15, <2>1 DEF Counted
<1>. QED
  <2>1. below[n] <= Len(u.ci) /\ Alike(t.ci, u.ci, below[n], below[n]) /\ u.cs[n].kind # "rawrun" /\ Len(u.ci) = l
    BY <1>1, <1>2, AlikeSelf
  <2>. QED  BY <1>1, <1>2, <1>11, <1>12, <1>13, <1>14, <1>16, <2>1, ChangeReady

LEMMA FrontAppended ==
  ASSUME NEW cs \in Seq(Acts), cs # <<>>, NEW a \in Acts
  PROVE  /\ Append(Front(cs), a) \in Seq(Acts) /\ Len(Append(Front(cs), a)) = Len(cs)
         /\ Append(Front(cs), a)[Len(cs)] = a
         /\ \A i \in 1 .. Len(cs) - 1 : Append(Front(cs), a)[i] = cs[i]
<1>. DEFINE q == Front(cs)
            n == Len(cs)
<1>1. q \in Seq(Acts) /\ Len(q) = n - 1 /\ n \in Nat /\ n >= 1 /\ \A i \in 1 .. n - 1 : q[i] = cs[i]
  BY FrontIs
<1>. HIDE DEF q
<1>2. Append(q, a) \in Seq(Acts) /\ Len(Append(q, a)) = n /\ Append(q, a)[n] = a
      /\ \A i \in 1 .. n - 1 : Append(q, a)[i] = q[i]
  BY <1>1
<1>. QED  BY <1>1, <1>2 DEF q

\* What a C function on top does next: u is s with it at another stage.
LEMMA StageFine ==
  ASSUME Fine(s), Is("body"), NEW stage \in {"entering", "running", "leaving"}, NEW u \in States,
         u.ci = s.ci, u.cs = Append(Front(s.cs), Body(stage)), u.nCcalls = s.nCcalls, u.nny = s.nny,
         u.allowhook = s.allowhook, u.errfunc = s.errfunc, u.status = "ok",
         u.lock = IF stage = "running" THEN 0 ELSE 1
  PROVE  Fine(u)
<1>. DEFINE n == Len(s.cs)
            a == Body(stage)
<1>1. s.cs # <<>> /\ s.cs[n].kind = "body" /\ n >= 3
  BY TopAbove
<1>2. PICK below \in Seq(Nat) : Ready(s, below)
  BY <1>1, RunsAs
<1>3. /\ s.cs \in Seq(Acts) /\ n \in Nat /\ OnTop(s.cs, s.ci) /\ s.nCcalls <= Bound
  BY <1>1, RunsAs
<1>4. a \in Acts /\ a.kind = "body" /\ a.stage = stage
  BY DEF Body, Acts
<1>. HIDE DEF a
<1>5. Len(u.cs) = n /\ u.cs[n] = a /\ \A i \in 1 .. n - 1 : u.cs[i] = s.cs[i]
  <2>1. u.cs = Append(Front(s.cs), a)
    BY DEF a
  <2>3. /\ Len(Append(Front(s.cs), a)) = n /\ Append(Front(s.cs), a)[n] = a
        /\ \A i \in 1 .. n - 1 : Append(Front(s.cs), a)[i] = s.cs[i]
    BY <1>1, <1>3, <1>4, FrontAppended
  <2>. QED  BY <2>1, <2>3
<1>6. Ready(u, below)
  BY <1>1, <1>2, <1>4, <1>5, StageReady
<1>7. OnTop(u.cs, u.ci)
  BY <1>1, <1>3, <1>4, <1>5 DEF OnTop
<1>8. LockKept(u) /\ StatusKept(u)
  BY <1>4, <1>5 DEF LockKept, StatusKept, RunsC
<1>9. u.cs # <<>>
  BY <1>1, <1>5
<1>. QED  BY <1>3, <1>6, <1>7, <1>8, <1>9 DEF Fine, RunsFine

LEMMA BodyBeginFine ==
  ASSUME Fine(s), BodyBegin
  PROVE  Fine(s')
<1>. DEFINE a == Body("running")
            v == Pop(s)
            w == Push(v, a)
            u == Unlocked(w)
<1>1. s.cs # <<>> /\ Is("body") /\ Top.stage = "entering" /\ s.cs[Len(s.cs)].kind = "body"
  BY TopAbove DEF BodyBegin
<1>2. s \in States /\ s.lock = 1 /\ s.status = "ok"
  BY <1>1, RunsAs DEF RunsC, RunsHook
<1>3. a \in Acts
  BY DEF Body, Acts
<1>4. v \in States /\ Fields(v, s.ci, Front(s.cs), s.nCcalls, s.nny, s.allowhook, s.errfunc, s.status, s.lock)
  BY <1>1, <1>2, PopDoes
<1>. HIDE DEF v, a
<1>5. w \in States /\ Fields(w, s.ci, Append(Front(s.cs), a), s.nCcalls, s.nny, s.allowhook, s.errfunc, s.status, s.lock)
  BY <1>3, <1>4, PushDoes DEF Fields
<1>. HIDE DEF w
<1>6. u \in States /\ Fields(u, s.ci, Append(Front(s.cs), a), s.nCcalls, s.nny, s.allowhook, s.errfunc, s.status, s.lock - 1)
  BY <1>5, LockDoes DEF Fields
<1>. HIDE DEF u
<1>7. /\ u.ci = s.ci /\ u.cs = Append(Front(s.cs), Body("running")) /\ u.nCcalls = s.nCcalls /\ u.nny = s.nny
      /\ u.allowhook = s.allowhook /\ u.errfunc = s.errfunc /\ u.status = "ok" /\ u.lock = 0
  BY <1>2, <1>6 DEF Fields, a
<1>8. Fine(u)
  BY <1>1, <1>6, <1>7, StageFine
<1>. QED  BY <1>8 DEF BodyBegin, u, w, v, a

LEMMA BodyReturnFine ==
  ASSUME Fine(s), BodyReturn
  PROVE  Fine(s')
<1>. DEFINE a == Body("leaving")
            v == Pop(s)
            w == Push(v, a)
            u == Locked(w)
<1>1. s.cs # <<>> /\ Is("body") /\ Top.stage = "running" /\ s.cs[Len(s.cs)].kind = "body" /\ Top = s.cs[Len(s.cs)]
  BY TopAbove, RunsAs DEF BodyReturn
<1>2. s \in States /\ s.lock = 0 /\ s.status = "ok"
  BY <1>1, RunsAs DEF RunsC, RunsHook
<1>3. a \in Acts
  BY DEF Body, Acts
<1>4. v \in States /\ Fields(v, s.ci, Front(s.cs), s.nCcalls, s.nny, s.allowhook, s.errfunc, s.status, s.lock)
  BY <1>1, <1>2, PopDoes
<1>. HIDE DEF v, a
<1>5. w \in States /\ Fields(w, s.ci, Append(Front(s.cs), a), s.nCcalls, s.nny, s.allowhook, s.errfunc, s.status, s.lock)
  BY <1>3, <1>4, PushDoes DEF Fields
<1>. HIDE DEF w
<1>6. u \in States /\ Fields(u, s.ci, Append(Front(s.cs), a), s.nCcalls, s.nny, s.allowhook, s.errfunc, s.status, s.lock + 1)
  BY <1>5, LockDoes DEF Fields
<1>. HIDE DEF u
<1>7. /\ u.ci = s.ci /\ u.cs = Append(Front(s.cs), Body("leaving")) /\ u.nCcalls = s.nCcalls /\ u.nny = s.nny
      /\ u.allowhook = s.allowhook /\ u.errfunc = s.errfunc /\ u.status = "ok" /\ u.lock = 1
  BY <1>2, <1>6 DEF Fields, a
<1>8. Fine(u)
  BY <1>1, <1>6, <1>7, StageFine
<1>. QED  BY <1>8 DEF BodyReturn, u, w, v, a

\* n is the number of activations, k that of those below the top.
Under(t, k, n) == k \in Nat /\ n \in Nat /\ n = Len(t.cs) /\ k + 1 = n /\ k >= 2

\* What is on top returns.
LEMMA PopIs ==
  ASSUME NEW t, NEW below, Ready(t, below), NEW k, NEW n, Under(t, k, n), NEW u \in States, u.cs = Front(t.cs),
         u.nCcalls = t.nCcalls - IF t.cs[n].kind = "call" THEN 1 ELSE 0,
         u.nny = t.nny - IF NoYield(t.cs[n]) THEN 1 ELSE 0
  PROVE  /\ Len(u.cs) = k /\ (\A i \in 1..k : u.cs[i] = t.cs[i]) /\ u.cs[k] = t.cs[k]
         /\ u.nCcalls = t.cs[2].nCcalls + CallsTo(t.cs, k) /\ u.nny = NoYieldsTo(t.cs, k)
         /\ t.cs # <<>> /\ k \in Nat /\ 2 <= k /\ k < Len(t.cs)
<1>1. k \in Nat /\ n \in Nat \ {0} /\ n = Len(t.cs) /\ k + 1 = n /\ k >= 2 /\ n - 1 = k
  BY DEF Under
<1>2. /\ t \in States /\ t.cs \in Seq(Acts) /\ Joined(t.cs, t.ci, below) /\ Counted(t) /\ t.nny \in Nat /\ t.nCcalls \in Nat
  BY StateFields DEF Ready
<1>3. t.cs # <<>>
  BY <1>1, <1>2
<1>4. Len(Front(t.cs)) = n - 1 /\ \A i \in 1 .. n - 1 : Front(t.cs)[i] = t.cs[i]
  BY ONLY <1>1, <1>2, <1>3, FrontIs
<1>5. /\ CallsTo(t.cs, n) = CallsTo(t.cs, n - 1) + IF t.cs[n].kind = "call" THEN 1 ELSE 0
      /\ NoYieldsTo(t.cs, n) = NoYieldsTo(t.cs, n - 1) + IF NoYield(t.cs[n]) THEN 1 ELSE 0
  BY <1>1, CountsNext
<1>6. CallsTo(t.cs, k) \in Nat /\ NoYieldsTo(t.cs, k) \in Nat
  BY <1>1, CountsAre
<1>7. t.nCcalls = t.cs[2].nCcalls + CallsTo(t.cs, n) /\ t.nny = NoYieldsTo(t.cs, n)
  BY <1>1, <1>2 DEF Counted
<1>8. t.cs[2].nCcalls \in Nat
  <2>1. t.cs[2] \in Acts /\ t.cs[2].kind = "rawrun"
    BY <1>1, <1>2 DEF Joined, Bottom
  <2>. QED  BY <2>1 DEF Acts
<1>9. u.nny = NoYieldsTo(t.cs, k)
  <2>1. u.nny = t.nny - IF NoYield(t.cs[n]) THEN 1 ELSE 0
    OBVIOUS
  <2>. QED  BY ONLY <1>1, <1>5, <1>6, <1>7, <2>1
<1>10. u.nCcalls = t.cs[2].nCcalls + CallsTo(t.cs, k)
  <2>1. u.nCcalls = t.nCcalls - IF t.cs[n].kind = "call" THEN 1 ELSE 0
    OBVIOUS
  <2>. QED  BY ONLY <1>1, <1>5, <1>6, <1>7, <1>8, <2>1
<1>11. Len(u.cs) = k /\ (\A i \in 1..k : u.cs[i] = t.cs[i]) /\ u.cs[k] = t.cs[k]
  BY <1>1, <1>4
<1>12. k \in Nat /\ 2 <= k /\ k < Len(t.cs)
  BY ONLY <1>1
<1>. QED  BY ONLY <1>3, <1>9, <1>10, <1>11, <1>12

LEMMA PopReady ==
  ASSUME NEW t, NEW below, Ready(t, below), NEW k, NEW n, Under(t, k, n), NEW u \in States, u.cs = Front(t.cs),
         u.nCcalls = t.nCcalls - IF t.cs[n].kind = "call" THEN 1 ELSE 0,
         u.nny = t.nny - IF NoYield(t.cs[n]) THEN 1 ELSE 0,
         Len(u.ci) = below[n], \A i \in 1..below[n] : u.ci[i] = t.ci[i],
         u.allowhook = Unhooked(t.cs, k), HandlerIs(u.errfunc, t.cs, t.ci, k, below[n])
  PROVE  /\ Ready(u, SubSeq(below, 1, k)) /\ SubSeq(below, 1, k) \in Seq(Nat)
         /\ Len(u.cs) = k /\ u.cs[k] = t.cs[k] /\ u.cs # <<>>
<1>1. /\ Len(u.cs) = k /\ (\A i \in 1..k : u.cs[i] = t.cs[i]) /\ u.cs[k] = t.cs[k]
      /\ u.nCcalls = t.cs[2].nCcalls + CallsTo(t.cs, k) /\ u.nny = NoYieldsTo(t.cs, k)
      /\ k \in Nat /\ 2 <= k /\ k < Len(t.cs)
  BY PopIs
<1>2. below[k + 1] = below[n]
  BY DEF Under
<1>3. u.cs # <<>>
  BY <1>1
<1>4. Len(u.ci) = below[k + 1] /\ (\A i \in 1..below[k + 1] : u.ci[i] = t.ci[i])
      /\ HandlerIs(u.errfunc, t.cs, t.ci, k, below[k + 1])
  BY <1>2
<1>5. u.allowhook = Unhooked(t.cs, k) /\ u \in States
  OBVIOUS
<1>6. SubSeq(below, 1, k) \in Seq(Nat) /\ Ready(u, SubSeq(below, 1, k))
  BY ONLY <1>1, <1>4, <1>5, Ready(t, below), CutReady, SMTT(45), ZenonT(45)
<1>. QED  BY <1>1, <1>3, <1>6

\* And what it returns to goes on.
LEMMA PopFine ==
  ASSUME NEW t, NEW below, Ready(t, below), NEW k, NEW n, Under(t, k, n), NEW u \in States, u.cs = Front(t.cs),
         u.nCcalls = t.nCcalls - IF t.cs[n].kind = "call" THEN 1 ELSE 0,
         u.nny = t.nny - IF NoYield(t.cs[n]) THEN 1 ELSE 0,
         Len(u.ci) = below[n], \A i \in 1..below[n] : u.ci[i] = t.ci[i],
         u.allowhook = Unhooked(t.cs, k), HandlerIs(u.errfunc, t.cs, t.ci, k, below[n]),
         t.cs[k].kind # "pcall", t.cs[k].kind = "body" => ~t.ci[below[n]].pcall /\ below[n] >= 1,
         u.nCcalls <= Bound, u.status = "ok", u.lock = IF RunsC(t.cs[k]) THEN 0 ELSE 1
  PROVE  Fine(u)
<1>1. /\ Ready(u, SubSeq(below, 1, k)) /\ SubSeq(below, 1, k) \in Seq(Nat)
      /\ Len(u.cs) = k /\ u.cs[k] = t.cs[k] /\ u.cs # <<>>
  BY PopReady
<1>2. OnTop(u.cs, u.ci)
  <2>1. below[n] \in 1..below[n] \/ ~(below[n] >= 1)
    <3>1. below[n] \in Nat
      BY DEF Ready, Joined, Levels, Under
    <3>. QED  BY <3>1
  <2>. QED  BY <1>1, <2>1 DEF OnTop
<1>3. LockKept(u) /\ StatusKept(u)
  BY <1>1 DEF LockKept, StatusKept
<1>. QED  BY <1>1, <1>2, <1>3 DEF Fine, RunsFine

\* The message handler, when what returns is no protected call.
LEMMA HandlerPop ==
  ASSUME NEW t, NEW below, Ready(t, below), NEW k, NEW n, Under(t, k, n), NEW l, l = Len(t.ci),
         t.cs[n].kind # "pcall", \A i \in below[n] + 1 .. l : ~t.ci[i].pcall
  PROVE  HandlerIs(t.errfunc, t.cs, t.ci, k, below[n])
<1>1. k \in Nat /\ n \in Nat /\ n = Len(t.cs) /\ k + 1 = n /\ k <= n /\ k <= k
  BY DEF Under
<1>2. /\ t.cs \in Seq(Acts) /\ t.ci \in Seq(Frames) /\ Joined(t.cs, t.ci, below)
      /\ HandlerIs(t.errfunc, t.cs, t.ci, n, l)
  BY <1>1, StateFields DEF Ready, Counted
<1>3. below[n] \in Nat /\ below[n] <= l /\ l \in Nat
  BY <1>1, <1>2, TopJoined
<1>. DEFINE m == below[n]
<1>4. m \in Nat /\ m <= l /\ m <= m /\ (\A i \in m + 1 .. m : FALSE) /\ (\A i \in k + 1 .. k : FALSE)
      /\ (\A i \in k + 1 .. n : i = n) /\ (\A i \in m + 1 .. l : ~t.ci[i].pcall)
  BY <1>1, <1>3
<1>. HIDE DEF m
<1>5. /\ \A i \in k + 1 .. n : t.cs[i].kind # "pcall"
      /\ \A i \in k + 1 .. k : t.cs[i].kind # "pcall"
      /\ \A i \in m + 1 .. m : ~t.ci[i].pcall
      /\ \A i \in 1..k : t.cs[i] = t.cs[i]
      /\ \A i \in 1..m : t.ci[i].pcall = t.ci[i].pcall /\ t.ci[i].handler = t.ci[i].handler
  BY <1>4
<1>6. HandlerIs(t.errfunc, t.cs, t.ci, k, m)
  BY ONLY <1>1, <1>2, <1>3, <1>4, <1>5, HandlerMoves
<1>. QED  BY <1>6 DEF m

-----------------------------------------------------------------------------
(* Hooks.                                                                   *)

LEMMA HookSet ==
  ASSUME NEW t \in States, NEW hook \in BOOLEAN
  PROVE  /\ [t EXCEPT !.allowhook = hook] \in States
         /\ Fields([t EXCEPT !.allowhook = hook], t.ci, t.cs, t.nCcalls, t.nny, hook, t.errfunc, t.status, t.lock)
BY DEF States, Fields

LEMMA StatusSet ==
  ASSUME NEW t \in States, NEW status \in {"ok", "yield", "errrun", "errerr"}
  PROVE  /\ [t EXCEPT !.status = status] \in States
         /\ Fields([t EXCEPT !.status = status], t.ci, t.cs, t.nCcalls, t.nny, t.allowhook, t.errfunc, status, t.lock)
BY DEF States, Fields

LEMMA HookBeginFine ==
  ASSUME Fine(s), NEW trace \in BOOLEAN, HookBegin(trace)
  PROVE  Fine(s')
<1>. DEFINE n == Len(s.cs)
            l == Len(s.ci)
            h == n + 1
            a == Hook(trace)
            v == [s EXCEPT !.allowhook = FALSE]
            w == Push(v, a)
            u == Unlocked(w)
<1>1. s.cs # <<>> /\ s.cs[n].kind \in {"execute", "body"} /\ n >= 3 /\ s.allowhook
  BY TopAbove DEF HookBegin
<1>2. s.cs[n].kind = "body" => s.cs[n].stage # "running" /\ ~trace
  BY <1>1, RunsAs DEF HookBegin, Is
<1>3. PICK below \in Seq(Nat) : Ready(s, below)
  BY <1>1, RunsAs
<1>4. /\ s \in States /\ s.lock = 1 /\ s.status = "ok" /\ s.cs \in Seq(Acts) /\ s.ci \in Seq(Frames)
      /\ n \in Nat /\ l \in Nat /\ s.nCcalls \in Nat /\ s.nny \in Nat /\ s.nCcalls <= Bound /\ OnTop(s.cs, s.ci)
  BY <1>1, <1>2, RunsAs DEF RunsC, RunsHook
<1>. DEFINE b == Append(below, l)
<1>5. a \in Acts /\ a.kind = "hook" /\ a.trace = trace /\ RunsC(a) /\ ~NoYield(a)
  BY DEF Hook, Acts, RunsC, NoYield
<1>6. v \in States /\ Fields(v, s.ci, s.cs, s.nCcalls, s.nny, FALSE, s.errfunc, s.status, s.lock)
  BY <1>4, HookSet
<1>. HIDE DEF v, a
<1>7. w \in States /\ Fields(w, s.ci, Append(s.cs, a), s.nCcalls, s.nny, FALSE, s.errfunc, s.status, s.lock)
  BY <1>5, <1>6, PushDoes DEF Fields
<1>. HIDE DEF w
<1>8. u \in States /\ Fields(u, s.ci, Append(s.cs, a), s.nCcalls, s.nny, FALSE, s.errfunc, s.status, s.lock - 1)
  BY <1>7, LockDoes DEF Fields
<1>. HIDE DEF u
<1>9. BegunBy(u.cs, s.ci, b, h)
  <2>1. u.cs[h] = a /\ u.cs[h - 1] = s.cs[n]
    <3>1. n = Len(s.cs) /\ n >= 1 /\ u.cs = Append(s.cs, a)
      BY <1>1, <1>8 DEF Fields
    <3>. HIDE DEF n
    <3>. QED  BY <1>4, <1>5, <3>1, AppendTops
  <2>. HIDE DEF h, b, n
  <2>. QED  BY <1>1, <1>2, <1>5, <2>1 DEF BegunBy
<1>10. MayBegin(s, a, n, l)
  BY <1>1, <1>4, <1>5 DEF MayBegin, Begins, OnTop
<1>11. Begun(s, a, u)
  BY <1>1, <1>4, <1>5, <1>8 DEF Begun, Fields
<1>12. Above(s, below, n, l, h, b)
  BY DEF Above
<1>13. u.status = "ok" /\ u.lock = 0 /\ u.nCcalls <= Bound
  BY <1>4, <1>8 DEF Fields
<1>14. h >= 1
  BY <1>4
<1>. HIDE DEF n, l, h, b
<1>15. Ready(u, b) /\ b \in Seq(Nat) /\ u.cs[Len(u.cs)] = a /\ Len(u.cs) = h
  <2>1. a \in Acts /\ a.kind \in {"call", "hook", "raise"}
    BY <1>5
  <2>. QED  BY ONLY <1>3, <1>9, <1>10, <1>11, <1>12, <2>1, BeginReady
<1>16. OnTop(u.cs, u.ci) /\ LockKept(u) /\ StatusKept(u)
  BY <1>5, <1>13, <1>15 DEF OnTop, LockKept, StatusKept
<1>17. u.cs # <<>>
  BY <1>14, <1>15
<1>18. Fine(u)
  BY <1>8, <1>13, <1>15, <1>16, <1>17 DEF Fine, RunsFine
<1>. QED  BY <1>18 DEF HookBegin, u, w, v, a

LEMMA HookYieldFine ==
  ASSUME Fine(s), HookYield
  PROVE  Fine(s')
<1>. DEFINE n == Len(s.cs)
            u == [s EXCEPT !.status = "yield"]
<1>1. s.cs # <<>> /\ s.cs[n].kind = "hook" /\ n >= 3 /\ s.status = "ok"
  BY TopAbove DEF HookYield
<1>2. RunsC(s.cs[n]) /\ RunsHook(s.cs[n])
  BY <1>1, RunsAs DEF HookYield, RunsC, RunsHook
<1>3. CASE s.nny > 0
  <2>1. Fine(Push(Locked(s), Raise))
    BY <1>1, <1>2, CRaiseFine
  <2>. QED  BY <1>3, <2>1 DEF HookYield
<1>4. CASE ~(s.nny > 0)
  <2>1. /\ s \in States /\ s.nny = 0 /\ s.nCcalls <= Bound /\ OnTop(s.cs, s.ci)
        /\ s.lock = IF RunsC(s.cs[n]) THEN 0 ELSE 1
    <3>1. s \in States /\ s.nny \in Nat /\ s.nCcalls <= Bound /\ OnTop(s.cs, s.ci)
      BY <1>1, RunsAs
    <3>2. s.lock = IF RunsC(s.cs[n]) THEN 0 ELSE 1
      BY <1>1, RunsAs
    <3>. QED  BY <1>4, <3>1, <3>2
  <2>2. PICK below \in Seq(Nat) : Ready(s, below)
    BY <1>1, RunsAs
  <2>3. u \in States /\ Fields(u, s.ci, s.cs, s.nCcalls, s.nny, s.allowhook, s.errfunc, "yield", s.lock)
    BY <2>1, StatusSet
  <2>. HIDE DEF u
  <2>4. Ready(u, below)
    BY <2>2, <2>3, SameReady DEF Fields
  <2>5. OnTop(u.cs, u.ci) /\ LockKept(u) /\ StatusKept(u) /\ u.nCcalls <= Bound /\ u.cs # <<>>
    BY <1>1, <1>2, <2>1, <2>3 DEF LockKept, StatusKept, Fields
  <2>6. Fine(u)
    BY <2>3, <2>4, <2>5 DEF Fine, RunsFine
  <2>. QED  BY <1>4, <2>6 DEF HookYield, u
<1>. QED  BY <1>3, <1>4

\* What is under the top goes on when that returns: it was begun by it.
LEMMA BelowTop ==
  ASSUME NEW t, NEW below, Ready(t, below), NEW k, NEW n, Under(t, k, n)
  PROVE  /\ t \in States /\ t.cs \in Seq(Acts) /\ t.ci \in Seq(Frames) /\ Joined(t.cs, t.ci, below) /\ Counted(t)
         /\ k \in Nat /\ n \in Nat /\ n >= 3 /\ n = Len(t.cs) /\ n - 1 = k /\ t.cs # <<>>
         /\ below[n] \in Nat /\ below[n] <= Len(t.ci) /\ Len(t.ci) \in Nat
         /\ FramesOf(t.cs, t.ci, below, n, Len(t.ci)) /\ BegunBy(t.cs, t.ci, below, n) /\ Saved(t.cs, t.ci, below, n)
         /\ k >= 3 => Local(t.cs, t.ci, below, k, below[n]) /\ Begins(t.cs, t.ci, k, below[n], t.cs[n])
         /\ GoesOn(t.cs, t.ci, k, below[n])
<1>1. k \in Nat /\ n \in Nat /\ n >= 3 /\ n = Len(t.cs) /\ n - 1 = k /\ 2 <= k /\ k < Len(t.cs) /\ k + 1 = n
  BY DEF Under
<1>2. t \in States /\ t.cs \in Seq(Acts) /\ t.ci \in Seq(Frames) /\ Joined(t.cs, t.ci, below) /\ Counted(t) /\ Len(t.ci) \in Nat
  BY StateFields DEF Ready
<1>3. t.cs # <<>>
  BY <1>1, <1>2
<1>4. below[n] \in Nat /\ below[n] <= Len(t.ci) /\ Local(t.cs, t.ci, below, n, Len(t.ci))
  BY ONLY <1>1, <1>2, TopJoined
<1>5. /\ k >= 3 => Local(t.cs, t.ci, below, k, below[k + 1]) /\ Begins(t.cs, t.ci, k, below[k + 1], t.cs[k + 1])
      /\ GoesOn(t.cs, t.ci, k, below[k + 1])
  BY ONLY <1>1, <1>2, UnderJoined
<1>6. /\ k >= 3 => Local(t.cs, t.ci, below, k, below[n]) /\ Begins(t.cs, t.ci, k, below[n], t.cs[n])
      /\ GoesOn(t.cs, t.ci, k, below[n])
  BY <1>1, <1>5
<1>. QED  BY <1>1, <1>2, <1>3, <1>4, <1>6 DEF Local

\* luaD_hook returns to luaV_execute, or to the call of a C function.
LEMMA HookEndFine ==
  ASSUME MaxCCalls \in Nat \ {0}, Fine(s), HookEnd
  PROVE  Fine(s')
<1>. DEFINE n == Len(s.cs)
            k == n - 1
            l == Len(s.ci)
            v == [s EXCEPT !.allowhook = TRUE]
            w == Pop(v)
            u == Locked(w)
<1>1. s.cs # <<>> /\ s.cs[n].kind = "hook" /\ n >= 3
  BY TopAbove DEF HookEnd
<1>2. PICK below \in Seq(Nat) : Ready(s, below)
  BY <1>1, RunsAs
<1>3. /\ s \in States /\ s.cs \in Seq(Acts) /\ s.ci \in Seq(Frames) /\ n \in Nat /\ l \in Nat /\ s.nCcalls \in Nat /\ s.nny \in Nat
      /\ s.nCcalls <= Bound /\ s.cs[2].kind = "rawrun"
  BY <1>1, RunsAs
<1>4. s.lock = 0 /\ (s.status = "ok" \/ (s.status = "yield" /\ s.cs[n].trace /\ s.nny = 0))
  BY <1>1, RunsAs DEF RunsC, RunsHook
<1>5. Under(s, k, n) /\ n = Len(s.cs) /\ l = Len(s.ci)
  BY <1>1, <1>3 DEF Under
<1>. HIDE DEF n, k, l
<1>6. /\ FramesOf(s.cs, s.ci, below, n, l) /\ BegunBy(s.cs, s.ci, below, n) /\ Saved(s.cs, s.ci, below, n)
      /\ k >= 3 => Local(s.cs, s.ci, below, k, below[n]) /\ Begins(s.cs, s.ci, k, below[n], s.cs[n])
      /\ n - 1 = k /\ k \in Nat /\ k >= 2 /\ below[n] \in Nat
  BY <1>2, <1>5, BelowTop DEF Under
<1>7. l = below[n] /\ Unhooked(s.cs, k)
  BY <1>1, <1>6 DEF FramesOf, Saved
<1>8. \/ s.cs[k].kind = "execute"
      \/ s.cs[k].kind = "body" /\ s.cs[k].stage # "running" /\ ~s.cs[n].trace
  BY <1>1, <1>6 DEF BegunBy
<1>9. k >= 3
  <2>1. k # 2
    BY <1>3, <1>8
  <2>. QED  BY <1>6, <2>1
<1>10. v \in States /\ Fields(v, s.ci, s.cs, s.nCcalls, s.nny, TRUE, s.errfunc, s.status, s.lock)
  BY <1>3, HookSet
<1>. HIDE DEF v
<1>11. w \in States /\ Fields(w, s.ci, Front(s.cs), s.nCcalls, s.nny, TRUE, s.errfunc, s.status, s.lock)
  BY <1>1, <1>10, PopDoes DEF Fields
<1>. HIDE DEF w
<1>12. u \in States /\ Fields(u, s.ci, Front(s.cs), s.nCcalls, s.nny, TRUE, s.errfunc, s.status, s.lock + 1)
  BY <1>11, LockDoes DEF Fields
<1>. HIDE DEF u
<1>13. AfterHook(s) = u
  BY DEF AfterHook, u, w, v
<1>14. /\ u.cs = Front(s.cs)
       /\ u.nCcalls = s.nCcalls - IF s.cs[n].kind = "call" THEN 1 ELSE 0
       /\ u.nny = s.nny - IF NoYield(s.cs[n]) THEN 1 ELSE 0
       /\ Len(u.ci) = below[n] /\ \A i \in 1..below[n] : u.ci[i] = s.ci[i]
       /\ u.nCcalls <= Bound /\ u.lock = 1 /\ u.status = s.status /\ u.ci = s.ci /\ u.nny = s.nny
  <2>1. /\ u.cs = Front(s.cs) /\ u.nCcalls = s.nCcalls /\ u.nny = s.nny /\ u.ci = s.ci /\ u.status = s.status
        /\ u.lock = s.lock + 1
    BY <1>12 DEF Fields
  <2>2. s.cs[n].kind # "call" /\ ~NoYield(s.cs[n])
    BY <1>1 DEF NoYield
  <2>3. /\ u.nCcalls = s.nCcalls - IF s.cs[n].kind = "call" THEN 1 ELSE 0
        /\ u.nny = s.nny - IF NoYield(s.cs[n]) THEN 1 ELSE 0
    BY <1>3, <2>1, <2>2
  <2>4. Len(u.ci) = below[n] /\ \A i \in 1..below[n] : u.ci[i] = s.ci[i]
    BY <1>5, <1>7, <2>1
  <2>5. u.nCcalls <= Bound /\ u.lock = 1
    BY <1>3, <1>4, <2>1
  <2>. QED  BY <2>1, <2>3, <2>4, <2>5
<1>15. u.allowhook = Unhooked(s.cs, k)
  BY <1>7, <1>12 DEF Fields, Unhooked
<1>16. HandlerIs(u.errfunc, s.cs, s.ci, k, below[n])
  <2>1. \A i \in below[n] + 1 .. l : ~s.ci[i].pcall
    BY <1>3, <1>7
  <2>2. HandlerIs(s.errfunc, s.cs, s.ci, k, below[n])
    BY <1>1, <1>2, <1>5, <2>1, HandlerPop
  <2>. QED  BY <1>12, <2>2 DEF Fields
<1>17. CASE s.status = "ok"
  <2>1. s.cs[k].kind # "pcall" /\ (s.cs[k].kind = "body" => ~s.ci[below[n]].pcall /\ below[n] >= 1)
    <3>1. s.cs[k].kind = "body" => below[n] = below[k] + 1 /\ ~s.ci[below[n]].pcall
      BY <1>1, <1>6, <1>9 DEF Local, FramesOf, Begins
    <3>2. below[k] \in Nat
      BY <1>2, <1>5, <1>6, SMTT(45) DEF Ready, Joined, Levels, Under
    <3>. QED  BY <1>6, <1>8, <3>1, <3>2
  <2>2. u.lock = IF RunsC(s.cs[k]) THEN 0 ELSE 1
    BY <1>8, <1>14 DEF RunsC
  <2>3. u.status = "ok"
    BY <1>14, <1>17
  <2>4. Fine(u)
    BY <1>2, <1>5, <1>12, <1>14, <1>15, <1>16, <2>1, <2>2, <2>3, PopFine, SMTT(45)
  <2>. QED  BY <1>13, <1>17, <2>4 DEF HookEnd
<1>18. CASE s.status = "yield"
  <2>. DEFINE b == SubSeq(below, 1, k)
  <2>1. /\ Ready(u, b) /\ b \in Seq(Nat)
        /\ Len(u.cs) = k /\ u.cs[k] = s.cs[k] /\ u.cs # <<>>
    BY <1>2, <1>5, <1>12, <1>14, <1>15, <1>16, PopReady, SMTT(45)
  <2>. HIDE DEF b
  <2>2. u.cs[Len(u.cs)].kind = "execute"
    BY <1>4, <1>8, <1>18, <2>1
  <2>3. u.cs \in Seq(Acts) /\ u.ci \in Seq(Frames) /\ Joined(u.cs, u.ci, b)
    BY <1>12, <2>1, StateFields DEF Ready
  <2>4. Len(u.ci) >= 1 /\ ~u.ci[Len(u.ci)].pcall
    BY <2>2, <2>3, LuaOnTop
  <2>5. u.lock = 1 /\ u.status = "yield" /\ u.nny = 0
    BY <1>4, <1>14, <1>18
  <2>6. Fine(Throw(u, "yield"))
    BY <2>1, <2>2, <2>4, <2>5, YieldFine
  <2>. QED  BY <1>13, <1>18, <2>6 DEF HookEnd
<1>. QED  BY <1>4, <1>17, <1>18

-----------------------------------------------------------------------------
(* Returns.                                                                 *)

LEMMA FramesSet ==
  ASSUME NEW t \in States, NEW ci \in Seq(Frames)
  PROVE  /\ [t EXCEPT !.ci = ci] \in States
         /\ Fields([t EXCEPT !.ci = ci], ci, t.cs, t.nCcalls, t.nny, t.allowhook, t.errfunc, t.status, t.lock)
BY DEF States, Fields

\* Hooks are as they were, unless it is one that returns.
LEMMA HookKept ==
  ASSUME NEW t, NEW below, Ready(t, below), NEW k, NEW n, Under(t, k, n), t.cs[n].kind # "hook"
  PROVE  t.allowhook = Unhooked(t.cs, k)
<1>1. n \in Nat \ {0} /\ n - 1 = k /\ n = Len(t.cs)
  BY DEF Under
<1>2. t.allowhook = Unhooked(t.cs, n)
  BY <1>1 DEF Ready, Counted
<1>3. Unhooked(t.cs, n) <=> Unhooked(t.cs, k)
  BY <1>1, CountsNext
<1>. QED  BY <1>2, <1>3 DEF Unhooked

\* The frame on top returns, to what called the function.
LEMMA ReturnFine ==
  ASSUME Fine(s), s.cs # <<>>, s.cs[Len(s.cs)].kind \in {"body", "execute"}, s.lock = 1, s.status = "ok",
         NEW below, Ready(s, below), below[Len(s.cs)] = Len(s.ci) - 1, ~s.ci[Len(s.ci)].pcall
  PROVE  Fine(Pop([s EXCEPT !.ci = Front(s.ci)]))
<1>. DEFINE n == Len(s.cs)
            k == n - 1
            l == Len(s.ci)
            v == [s EXCEPT !.ci = Front(s.ci)]
            u == Pop(v)
<1>1. /\ s \in States /\ s.cs \in Seq(Acts) /\ s.ci \in Seq(Frames) /\ n \in Nat /\ l \in Nat /\ s.nCcalls \in Nat /\ s.nny \in Nat
      /\ s.nCcalls <= Bound /\ s.cs[2].kind = "rawrun" /\ n >= 2
  BY RunsAs
<1>2. n >= 3
  BY <1>1
<1>3. Under(s, k, n) /\ n = Len(s.cs) /\ l = Len(s.ci) /\ below[n] = l - 1 /\ ~s.ci[l].pcall /\ s.cs[n].kind \in {"body", "execute"}
  BY <1>1, <1>2 DEF Under
<1>. HIDE DEF n, k, l
<1>4. BegunBy(s.cs, s.ci, below, n) /\ n - 1 = k /\ k \in Nat /\ k >= 2 /\ below[n] \in Nat
  <2>1. Ready(s, below) /\ Under(s, k, n)
    BY <1>3
  <2>2. k >= 2
    BY <2>1 DEF Under
  <2>. QED  BY ONLY <2>1, <2>2, BelowTop
<1>5. s.cs[k].kind \in {"call", "rawrun", "execute"}
  BY <1>3, <1>4 DEF BegunBy
<1>6. s.ci # <<>>
  BY <1>1, <1>3, <1>4
<1>7. Front(s.ci) \in Seq(Frames) /\ Len(Front(s.ci)) = l - 1 /\ \A i \in 1 .. l - 1 : Front(s.ci)[i] = s.ci[i]
  BY <1>1, <1>3, <1>6, FrontIs
<1>8. v \in States /\ Fields(v, Front(s.ci), s.cs, s.nCcalls, s.nny, s.allowhook, s.errfunc, s.status, s.lock)
  BY <1>1, <1>7, FramesSet
<1>. HIDE DEF v
<1>9. u \in States /\ Fields(u, Front(s.ci), Front(s.cs), s.nCcalls, s.nny, s.allowhook, s.errfunc, s.status, s.lock)
  BY <1>8, PopDoes DEF Fields
<1>. HIDE DEF u
<1>10. /\ u.cs = Front(s.cs) /\ u.status = "ok" /\ u.nCcalls <= Bound
       /\ u.nCcalls = s.nCcalls - IF s.cs[n].kind = "call" THEN 1 ELSE 0
       /\ u.nny = s.nny - IF NoYield(s.cs[n]) THEN 1 ELSE 0
  <2>1. u.cs = Front(s.cs) /\ u.nCcalls = s.nCcalls /\ u.nny = s.nny /\ u.status = s.status
    BY <1>9 DEF Fields
  <2>2. s.cs[n].kind # "call" /\ ~NoYield(s.cs[n])
    BY <1>3 DEF NoYield
  <2>. QED  BY <1>1, <2>1, <2>2
<1>11. Len(u.ci) = below[n] /\ \A i \in 1..below[n] : u.ci[i] = s.ci[i]
  BY <1>3, <1>7, <1>9 DEF Fields
<1>12. u.allowhook = Unhooked(s.cs, k)
  BY <1>3, <1>9, HookKept DEF Fields
<1>13. HandlerIs(u.errfunc, s.cs, s.ci, k, below[n])
  <2>1. \A i \in below[n] + 1 .. l : ~s.ci[i].pcall
    BY <1>1, <1>3
  <2>2. HandlerIs(s.errfunc, s.cs, s.ci, k, below[n])
    BY <1>3, <2>1, HandlerPop
  <2>. QED  BY <1>9, <2>2 DEF Fields
<1>14. u.lock = IF RunsC(s.cs[k]) THEN 0 ELSE 1
  BY <1>5, <1>9 DEF RunsC, Fields
<1>15. Fine(u)
  BY <1>3, <1>5, <1>9, <1>10, <1>11, <1>12, <1>13, <1>14, PopFine
<1>. QED  BY <1>15 DEF u, v

LEMMA BodyEndFine ==
  ASSUME Fine(s), BodyEnd
  PROVE  Fine(s')
<1>. DEFINE n == Len(s.cs)
            l == Len(s.ci)
<1>1. s.cs # <<>> /\ s.cs[n].kind = "body" /\ n >= 3 /\ Top.stage = "leaving" /\ Top = s.cs[n]
  BY TopAbove, RunsAs DEF BodyEnd
<1>2. s.lock = 1 /\ s.status = "ok" /\ OnTop(s.cs, s.ci) /\ s.cs \in Seq(Acts) /\ s.ci \in Seq(Frames)
  BY <1>1, RunsAs DEF RunsC, RunsHook
<1>3. PICK below \in Seq(Nat) : Ready(s, below)
  BY <1>1, RunsAs
<1>4. below[n] = l - 1
  <2>1. below[n] \in Nat /\ l = below[n] + 1
    <3>1. Joined(s.cs, s.ci, below) /\ n = Len(s.cs) /\ l = Len(s.ci)
      BY <1>3 DEF Ready
    <3>. HIDE DEF n, l
    <3>. QED  BY ONLY <1>1, <1>2, <3>1, CFrameOnTop
  <2>. QED  BY <2>1
<1>5. ~s.ci[l].pcall
  BY <1>1, <1>2 DEF OnTop
<1>6. Fine(Pop([s EXCEPT !.ci = Front(s.ci)]))
  BY <1>1, <1>2, <1>3, <1>4, <1>5, ReturnFine
<1>. QED  BY <1>6 DEF BodyEnd

\* Frames of no protected call go from the top.
LEMMA FlaggedFront ==
  ASSUME NEW cs \in Seq(Acts), NEW ci \in Seq(Frames), NEW di, NEW m \in Nat, m <= Len(ci), Len(di) = m,
         \A i \in 1..m : di[i] = ci[i], Flagged(cs, ci)
  PROVE  Flagged(cs, di)
<1>. DEFINE n == Len(cs)
            l == Len(ci)
<1>1. n \in Nat /\ l \in Nat /\ Len(cs) = n /\ Len(ci) = l /\ n <= n /\ m <= l
  OBVIOUS
<1>. HIDE DEF n, l
<1>2. \A i \in 1..n : cs[i] = cs[i]
  OBVIOUS
<1>3. \A i \in 1..m : di[i] = ci[i]
  OBVIOUS
<1>. QED  BY ONLY <1>1, <1>2, <1>3, m \in Nat, Len(di) = m, Flagged(cs, ci), FlaggedCut

LEMMA HandlerFront ==
  ASSUME NEW e, NEW cs, NEW n, NEW ci, NEW di, NEW m \in Nat, NEW l \in Nat, m <= l,
         \A i \in 1..m : di[i] = ci[i], \A i \in m + 1 .. l : ~ci[i].pcall, HandlerIs(e, cs, ci, n, l)
  PROVE  HandlerIs(e, cs, di, n, m)
<1>1. FrameHandler(e, ci, l) => FrameHandler(e, di, m)
  <2>1. /\ m <= m /\ \A i \in 1..m : di[i].pcall = ci[i].pcall /\ di[i].handler = ci[i].handler
        /\ \A i \in m + 1 .. m : ~di[i].pcall
    OBVIOUS
  <2>2. \A i \in m + 1 .. l : ~ci[i].pcall
    OBVIOUS
  <2>. QED  BY ONLY <2>1, <2>2, m \in Nat, l \in Nat, m <= l, FrameHandlerMoves
<1>. QED  BY <1>1 DEF HandlerIs

LEMMA LuaReturnFine ==
  ASSUME Fine(s), LuaReturn
  PROVE  Fine(s')
<1>. DEFINE n == Len(s.cs)
            l == Len(s.ci)
            u == [s EXCEPT !.ci = Front(s.ci)]
<1>1. s.cs # <<>> /\ s.cs[n].kind = "execute" /\ n >= 3 /\ Top = s.cs[n]
  BY TopAbove, RunsAs DEF LuaReturn
<1>2. /\ s \in States /\ s.lock = 1 /\ s.status = "ok" /\ s.cs \in Seq(Acts) /\ s.ci \in Seq(Frames) /\ n \in Nat /\ l \in Nat
      /\ s.nCcalls <= Bound
  BY <1>1, RunsAs DEF RunsC, RunsHook
<1>3. PICK below \in Seq(Nat) : Ready(s, below)
  BY <1>1, RunsAs
<1>4. Joined(s.cs, s.ci, below) /\ Counted(s)
  BY <1>3 DEF Ready
<1>5. /\ s.cs[n].base \in Nat /\ s.cs[n].base = below[n] + 1 /\ s.cs[n].base <= l /\ l >= 1 /\ below[n] \in Nat
      /\ (\A i \in below[n] + 1 .. l : s.ci[i].lua) /\ ~s.ci[l].pcall
  <2>1. n = Len(s.cs) /\ l = Len(s.ci)
    OBVIOUS
  <2>. HIDE DEF n, l
  <2>2. s.cs \in Seq(Acts) /\ s.ci \in Seq(Frames) /\ Joined(s.cs, s.ci, below) /\ s.cs[n].kind = "execute"
    BY <1>1, <1>2, <1>4
  <2>3. \A i \in below[n] + 1 .. l : s.ci[i].lua
    BY ONLY <2>1, <2>2, LuaOnTop
  <2>4. /\ s.cs[n].base \in Nat /\ s.cs[n].base = below[n] + 1 /\ s.cs[n].base <= l
        /\ l >= 1 /\ below[n] \in Nat /\ ~s.ci[l].pcall
    BY ONLY <2>1, <2>2, LuaOnTop
  <2>. QED  BY <2>3, <2>4
<1>6. CASE l = Top.base
  <2>1. below[n] = l - 1
    <3>1. below[n] + 1 = l /\ below[n] \in Nat
      BY <1>1, <1>5, <1>6
    <3>. QED  BY <3>1
  <2>2. Fine(Pop(u))
    BY <1>1, <1>2, <1>3, <1>5, <2>1, ReturnFine
  <2>. QED  BY <1>6, <2>2 DEF LuaReturn
<1>7. CASE l # Top.base
  <2>. DEFINE m == l - 1
              di == Front(s.ci)
  <2>1. s.ci # <<>>
    BY <1>2, <1>5
  <2>2. di \in Seq(Frames) /\ Len(di) = m /\ (\A i \in 1 .. m : di[i] = s.ci[i]) /\ n = Len(s.cs) /\ l = Len(s.ci)
    BY <1>2, <2>1, FrontIs
  <2>3. below[n] + 1 <= m /\ m \in Nat /\ m + 1 = l
    BY <1>1, <1>2, <1>5, <1>7
  <2>4. u \in States /\ Fields(u, di, s.cs, s.nCcalls, s.nny, s.allowhook, s.errfunc, s.status, s.lock)
    BY <1>2, <2>2, FramesSet
  <2>. HIDE DEF u, di, m, n, l
  <2>5. u.cs = s.cs /\ u.ci = di /\ Len(u.ci) = m
    BY <2>2, <2>4 DEF Fields
  <2>6. /\ Local(s.cs, s.ci, below, n, l) /\ GoesOn(s.cs, s.ci, n, l)
    BY ONLY <1>2, <1>4, <2>2, TopJoined, <1>1
  <2>7. Local(u.cs, u.ci, below, n, Len(u.ci))
    <3>1. FramesOf(s.cs, di, below, n, m)
      <4>1. \A i \in below[n] + 1 .. m : i \in below[n] + 1 .. l /\ i \in 1..m
        BY <1>5, <2>3
      <4>. QED  BY <1>1, <1>5, <2>2, <2>3, <4>1 DEF FramesOf
    <3>2. BegunBy(s.cs, di, below, n)
      BY <1>1, <2>6 DEF Local, BegunBy
    <3>3. Saved(s.cs, di, below, n)
      BY <1>1 DEF Saved
    <3>. QED  BY <2>5, <3>1, <3>2, <3>3 DEF Local
  <2>8. n >= 4 => Begins(s.cs, u.ci, n - 1, below[n], u.cs[n])
    <3>1. ASSUME n >= 4 PROVE Begins(s.cs, di, n - 1, below[n], s.cs[n])
      <4>. DEFINE k == n - 1
      <4>1. Under(s, k, n) /\ k >= 3 /\ n - 1 = k
        BY <1>2, <2>2, <3>1 DEF Under
      <4>. HIDE DEF k
      <4>2. Begins(s.cs, s.ci, k, below[n], s.cs[n])
        BY <1>3, <4>1, BelowTop
      <4>3. s.cs[k].kind \in {"call", "rawrun"}
        BY <1>1, <2>6, <4>1 DEF Local, BegunBy
      <4>4. Begins(s.cs, di, k, below[n], s.cs[n])
        BY <4>2, <4>3 DEF Begins
      <4>. QED  BY <4>1, <4>4
    <3>. QED  BY <2>5, <3>1
  <2>9. GoesOn(u.cs, u.ci, n, Len(u.ci))
    <3>1. \A i \in 1 .. m - 1 : i \in 1 .. l - 1 /\ i \in 1..m
      BY <2>3
    <3>2. m \in 1 .. l - 1 /\ m \in 1..m
      BY <1>5, <2>3
    <3>3. Free(s.cs, n) => \A i \in 1 .. l - 1 : Good(s.ci[i])
      BY <2>6 DEF GoesOn
    <3>4. Free(s.cs, n) => (\A i \in 1 .. m - 1 : Good(di[i])) /\ Good(di[m])
      BY <2>2, <3>1, <3>2, <3>3
    <3>. QED  BY <2>5, <3>4 DEF GoesOn
  <2>10. Flagged(u.cs, u.ci)
    <3>1. Flagged(s.cs, s.ci) /\ m <= Len(s.ci)
      BY <1>2, <1>4, <2>2, <2>3 DEF Joined
    <3>2. Flagged(s.cs, di)
      BY <1>2, <2>2, <2>3, <3>1, FlaggedFront
    <3>. QED  BY <2>5, <3>2
  <2>11. Counted(u)
    <3>1. HandlerIs(s.errfunc, s.cs, s.ci, n, l)
      BY <1>4, <2>2 DEF Counted
    <3>2. m <= l /\ \A i \in m + 1 .. l : i = l
      BY <1>2, <2>3
    <3>3. \A i \in m + 1 .. l : ~s.ci[i].pcall
      BY <1>5, <3>2
    <3>4. HandlerIs(s.errfunc, s.cs, di, n, m)
      BY <1>2, <2>2, <2>3, <3>1, <3>2, <3>3, HandlerFront
    <3>5. u.nCcalls = s.nCcalls /\ u.nny = s.nny /\ u.allowhook = s.allowhook /\ u.errfunc = s.errfunc
      BY <2>4 DEF Fields
    <3>. QED  BY <1>4, <2>2, <2>5, <3>4, <3>5 DEF Counted
  <2>12. below[n] <= Len(u.ci) /\ Alike(s.ci, u.ci, below[n], below[n])
    <3>1. \A i \in 1..below[n] : i \in 1..m
      BY <1>5, <2>3
    <3>. QED  BY <1>5, <2>2, <2>3, <2>5, <3>1, SMTT(45) DEF Alike
  <2>13. Ready(u, below)
    <3>1. Len(u.cs) = n /\ (\A i \in 1 .. n - 1 : u.cs[i] = s.cs[i]) /\ u.cs[n].kind # "rawrun"
      BY <1>1, <2>2, <2>5
    <3>. QED  BY <1>1, <1>3, <2>2, <2>4, <2>7, <2>8, <2>9, <2>10, <2>11, <2>12, <3>1, ChangeReady
  <2>14. OnTop(u.cs, u.ci) /\ LockKept(u) /\ StatusKept(u) /\ u.cs # <<>> /\ u.nCcalls <= Bound
    <3>1. u.cs[Len(u.cs)].kind = "execute" /\ u.lock = 1 /\ u.status = "ok" /\ u.nCcalls = s.nCcalls
      BY <1>1, <1>2, <2>2, <2>4, <2>5 DEF Fields
    <3>. QED  BY <1>1, <1>2, <2>5, <3>1 DEF OnTop, LockKept, StatusKept, RunsC
  <2>15. Fine(u)
    BY <1>3, <2>4, <2>13, <2>14 DEF Fine, RunsFine
  <2>. QED  BY <1>7, <2>15 DEF LuaReturn, u, l
<1>. QED  BY <1>6, <1>7

\* u is t when what is on top has returned, as far as its caller can tell.
Popped(t, below, k, n, u) ==
  /\ Ready(t, below) /\ Under(t, k, n) /\ u \in States /\ u.cs = Front(t.cs)
  /\ u.nCcalls = t.nCcalls - IF t.cs[n].kind = "call" THEN 1 ELSE 0
  /\ u.nny = t.nny - IF NoYield(t.cs[n]) THEN 1 ELSE 0
  /\ Len(u.ci) = below[n] /\ \A i \in 1..below[n] : u.ci[i] = t.ci[i]
  /\ u.allowhook = Unhooked(t.cs, k) /\ HandlerIs(u.errfunc, t.cs, t.ci, k, below[n])

LEMMA PoppedReady ==
  ASSUME NEW t, NEW below, NEW k, NEW n, NEW u, Popped(t, below, k, n, u)
  PROVE  /\ Ready(u, SubSeq(below, 1, k)) /\ SubSeq(below, 1, k) \in Seq(Nat)
         /\ Len(u.cs) = k /\ u.cs[k] = t.cs[k] /\ u.cs # <<>>
BY PopReady DEF Popped

\* The caller goes on, outside a C function (with lock 1) or in one.
LEMMA PoppedFine ==
  ASSUME NEW t, NEW below, NEW k, NEW n, NEW u, Popped(t, below, k, n, u), NEW v \in States,
         v.ci = u.ci, v.cs = u.cs, v.nCcalls = u.nCcalls, v.nny = u.nny, v.allowhook = u.allowhook, v.errfunc = u.errfunc,
         t.cs[k].kind # "pcall", t.cs[k].kind = "body" => ~t.ci[below[n]].pcall,
         v.nCcalls <= Bound, v.status = "ok", v.lock = IF RunsC(t.cs[k]) THEN 0 ELSE 1
  PROVE  Fine(v)
<1>1. Popped(t, below, k, n, v) /\ Ready(t, below) /\ Under(t, k, n)
  BY DEF Popped
<1>2. t.cs[k].kind = "body" => below[n] >= 1
  <2>1. /\ k >= 3 => Local(t.cs, t.ci, below, k, below[n])
        /\ k \in Nat /\ below \in Seq(Nat) /\ Len(below) = n /\ n - 1 = k /\ n \in Nat /\ k >= 2
        /\ t.cs[2].kind = "rawrun"
    <3>1. below \in Seq(Nat) /\ Len(below) = Len(t.cs) /\ t.cs[2].kind = "rawrun"
      BY <1>1 DEF Ready, Joined, Levels, Bottom
    <3>2. k \in Nat /\ n = Len(t.cs) /\ n - 1 = k /\ n \in Nat /\ k >= 2
      BY <1>1 DEF Under
    <3>3. k >= 3 => Local(t.cs, t.ci, below, k, below[n])
      BY ONLY <1>1, BelowTop
    <3>. QED  BY <3>1, <3>2, <3>3
  <2>2. below[k] \in Nat
    BY <2>1
  <2>3. t.cs[k].kind = "body" => k >= 3
    BY <2>1
  <2>4. t.cs[k].kind = "body" => below[n] = below[k] + 1
    BY <2>1, <2>3 DEF Local, FramesOf
  <2>. QED  BY <2>2, <2>4
<1>. QED  BY <1>1, <1>2, PopFine DEF Popped

LEMMA CountsSet ==
  ASSUME NEW t \in States, NEW nC \in Nat, NEW nny \in Nat
  PROVE  /\ [t EXCEPT !.nCcalls = nC, !.nny = nny] \in States
         /\ Fields([t EXCEPT !.nCcalls = nC, !.nny = nny], t.ci, t.cs, nC, nny, t.allowhook, t.errfunc, t.status, t.lock)
BY DEF States, Fields

\* What is on top has no frame of its own.
LEMMA FramelessPopped ==
  ASSUME NEW t, NEW below, Ready(t, below), NEW k, NEW n, Under(t, k, n),
         t.cs[n].kind \in {"call", "raise"}, NEW u \in States, u.ci = t.ci, u.cs = Front(t.cs),
         u.nCcalls = t.nCcalls - IF t.cs[n].kind = "call" THEN 1 ELSE 0,
         u.nny = t.nny - IF NoYield(t.cs[n]) THEN 1 ELSE 0,
         u.allowhook = t.allowhook, u.errfunc = t.errfunc
  PROVE  Popped(t, below, k, n, u) /\ below[n] = Len(t.ci)
<1>. DEFINE l == Len(t.ci)
<1>1. l \in Nat /\ FramesOf(t.cs, t.ci, below, n, l) /\ l = Len(t.ci) /\ below[n] \in Nat
  BY BelowTop
<1>. HIDE DEF l
<1>2. below[n] = l
  BY <1>1 DEF FramesOf
<1>3. \A i \in below[n] + 1 .. l : ~t.ci[i].pcall
  BY <1>1, <1>2
<1>4. HandlerIs(t.errfunc, t.cs, t.ci, k, below[n])
  BY <1>1, <1>3, HandlerPop
<1>5. t.allowhook = Unhooked(t.cs, k)
  BY HookKept
<1>. QED  BY <1>1, <1>2, <1>4, <1>5 DEF Popped

LEMMA CallCounted ==
  ASSUME NEW t, NEW below, Ready(t, below), NEW k, NEW n, Under(t, k, n), t.cs[n].kind = "call"
  PROVE  t.nCcalls - 1 \in Nat /\ (NoYield(t.cs[n]) => t.nny - 1 \in Nat)
<1>1. k \in Nat /\ n \in Nat \ {0} /\ n = Len(t.cs) /\ n - 1 = k
  BY DEF Under
<1>2. /\ CallsTo(t.cs, n) = CallsTo(t.cs, n - 1) + IF t.cs[n].kind = "call" THEN 1 ELSE 0
      /\ NoYieldsTo(t.cs, n) = NoYieldsTo(t.cs, n - 1) + IF NoYield(t.cs[n]) THEN 1 ELSE 0
  BY <1>1, CountsNext
<1>3. CallsTo(t.cs, k) \in Nat /\ NoYieldsTo(t.cs, k) \in Nat
  BY <1>1, CountsAre
<1>4. t.nCcalls = t.cs[2].nCcalls + CallsTo(t.cs, n) /\ t.nny = NoYieldsTo(t.cs, n)
  BY <1>1 DEF Ready, Counted
<1>5. t.cs[2].nCcalls \in Nat
  <2>1. t.cs[2] \in Acts /\ t.cs[2].kind = "rawrun"
    BY <1>1, StateFields DEF Ready, Joined, Bottom
  <2>. QED  BY <2>1 DEF Acts
<1>6. t.nCcalls - 1 \in Nat
  <2>1. CallsTo(t.cs, n) = CallsTo(t.cs, k) + 1
    BY <1>1, <1>2
  <2>. QED  BY ONLY <1>3, <1>4, <1>5, <2>1
<1>7. NoYield(t.cs[n]) => t.nny - 1 \in Nat
  <2>1. NoYield(t.cs[n]) => NoYieldsTo(t.cs, n) = NoYieldsTo(t.cs, k) + 1
    BY <1>1, <1>2
  <2>. QED  BY ONLY <1>3, <1>4, <2>1
<1>. QED  BY <1>6, <1>7

LEMMA ErrfuncSet ==
  ASSUME NEW t \in States, NEW e \in Nat
  PROVE  /\ [t EXCEPT !.errfunc = e] \in States
         /\ Fields([t EXCEPT !.errfunc = e], t.ci, t.cs, t.nCcalls, t.nny, t.allowhook, e, t.status, t.lock)
BY DEF States, Fields

\* A protected call with a continuation returns: its frame is as before it, and
\* so is the message handler.
LEMMA UnprotectedFine ==
  ASSUME NEW t, NEW below, NEW k, NEW n, NEW u, Popped(t, below, k, n, u), below[n] = Len(t.ci),
         t.cs[n].kind = "call", t.cs[n].by = "ypcall", u.ci = t.ci, u.nCcalls <= Bound, u.status = "ok", u.lock = 1,
         NEW f, f = LastFrame(t)
  PROVE  Fine(Unlocked(SetFrame([u EXCEPT !.errfunc = f.old], [f EXCEPT !.pcall = FALSE])))
<1>. DEFINE l == Len(t.ci)
            b == SubSeq(below, 1, k)
            g == [f EXCEPT !.pcall = FALSE]
            v == [u EXCEPT !.errfunc = f.old]
            w == SetFrame(v, g)
            x == Unlocked(w)
            m == l - 1
<1>1. /\ Ready(u, b) /\ b \in Seq(Nat) /\ Len(u.cs) = k /\ u.cs[k] = t.cs[k] /\ u.cs # <<>>
      /\ Ready(t, below) /\ Under(t, k, n) /\ u \in States
  <2>1. Ready(t, below) /\ Under(t, k, n) /\ u \in States
    BY DEF Popped
  <2>2. Ready(u, b) /\ b \in Seq(Nat) /\ Len(u.cs) = k /\ u.cs[k] = t.cs[k] /\ u.cs # <<>>
    BY ONLY Popped(t, below, k, n, u), PoppedReady
  <2>. QED  BY <2>1, <2>2
<1>2. /\ t \in States /\ t.cs \in Seq(Acts) /\ t.ci \in Seq(Frames) /\ Joined(t.cs, t.ci, below) /\ l \in Nat
      /\ n \in Nat /\ n = Len(t.cs) /\ k \in Nat /\ n - 1 = k /\ BegunBy(t.cs, t.ci, below, n) /\ l = Len(t.ci) /\ below[n] = l
  BY <1>1, BelowTop
<1>. HIDE DEF b, l
<1>3. /\ t.cs[k].kind = "body" /\ t.cs[k].stage = "running" /\ l >= 1 /\ t.ci[l].pcall
  BY <1>2 DEF BegunBy
<1>4. f \in Frames /\ f = t.ci[l] /\ t.ci # <<>> /\ f.old \in Nat
  <2>1. f = t.ci[l] /\ l \in 1..Len(t.ci) /\ t.ci # <<>>
    BY <1>2, <1>3 DEF LastFrame
  <2>2. f \in Frames
    BY <1>2, <2>1
  <2>. QED  BY <2>1, <2>2 DEF Frames
<1>5. m \in Nat /\ m + 1 = l /\ l - 1 = m
  BY <1>2, <1>3
<1>6. FlaggedFrame(t.cs, t.ci, l)
  <2>1. Flagged(t.cs, t.ci) /\ l \in 1..Len(t.ci)
    BY <1>2, <1>3 DEF Joined
  <2>. QED  BY <2>1 DEF Flagged
<1>7. ~f.lua /\ FrameHandler(f.old, t.ci, m) /\ \A j \in 1..n : t.cs[j].kind = "pcall" => l < t.cs[j].ci
  BY <1>2, <1>3, <1>4, <1>5, <1>6 DEF FlaggedFrame
<1>. HIDE DEF m
<1>8. \A j \in 1..k : t.cs[j].kind # "pcall"
  <2>1. SUFFICES ASSUME NEW j \in 1..k, t.cs[j].kind = "pcall" PROVE FALSE
    OBVIOUS
  <2>2. t.cs[1].kind = "resume" /\ t.cs[2].kind = "rawrun"
    BY <1>2 DEF Joined, Bottom
  <2>3. j \in 3..n /\ j \in 1..n /\ n \in 1..n /\ j <= n
    BY <1>2, <2>1, <2>2
  <2>4. t.cs[j].ci = below[j]
    BY <1>2, <2>1, <2>3, PlaceOf DEF Saved
  <2>5. below[j] <= below[n] /\ below[j] \in Nat
    BY <1>2, <2>3, SMTT(45) DEF Joined, Levels
  <2>6. l < t.cs[j].ci
    BY <1>7, <2>1, <2>3
  <2>. QED  BY <1>2, <2>4, <2>5, <2>6
<1>9. g \in Frames /\ g.lua = f.lua /\ ~g.pcall
  BY <1>4 DEF Frames
<1>. HIDE DEF g
<1>10. v \in States /\ Fields(v, t.ci, u.cs, u.nCcalls, u.nny, u.allowhook, f.old, "ok", 1)
  BY <1>1, <1>4, ErrfuncSet DEF Fields
<1>. HIDE DEF v
<1>11. w \in States /\ Fields(w, WithLast(t.ci, g), u.cs, u.nCcalls, u.nny, u.allowhook, f.old, "ok", 1)
  BY <1>4, <1>9, <1>10, SetFrameDoes DEF Fields
<1>. HIDE DEF w
<1>12. x \in States /\ Fields(x, WithLast(t.ci, g), u.cs, u.nCcalls, u.nny, u.allowhook, f.old, "ok", 0)
  BY <1>11, LockDoes DEF Fields
<1>. HIDE DEF x
<1>13. /\ WithLast(t.ci, g) \in Seq(Frames) /\ Len(WithLast(t.ci, g)) = l
       /\ WithLast(t.ci, g)[l] = g
       /\ \A i \in 1 .. m : WithLast(t.ci, g)[i] = t.ci[i]
  BY <1>2, <1>4, <1>5, <1>9, LastChanged, ZenonT(45)
<1>14. FrameHandler(f.old, WithLast(t.ci, g), l)
  <2>. DEFINE di == WithLast(t.ci, g)
  <2>1. m <= m /\ m <= l /\ \A i \in m + 1 .. l : i = l
    BY <1>2, <1>5
  <2>2. /\ \A i \in 1..m : di[i].pcall = t.ci[i].pcall /\ di[i].handler = t.ci[i].handler
        /\ \A i \in m + 1 .. m : ~t.ci[i].pcall
        /\ \A i \in m + 1 .. l : ~di[i].pcall
    <3>1. /\ di[l] = g /\ \A i \in 1..m : di[i] = t.ci[i]
      BY <1>13
    <3>. HIDE DEF di
    <3>2. \A i \in 1..m : di[i].pcall = t.ci[i].pcall /\ di[i].handler = t.ci[i].handler
      BY <3>1
    <3>3. \A i \in m + 1 .. m : ~t.ci[i].pcall
      BY <1>5
    <3>4. \A i \in m + 1 .. l : ~di[i].pcall
      BY <1>9, <2>1, <3>1
    <3>. QED  BY <3>2, <3>3, <3>4
  <2>. HIDE DEF di
  <2>3. FrameHandler(f.old, t.ci, m) /\ m \in Nat /\ l \in Nat
    BY <1>2, <1>5, <1>7
  <2>4. FrameHandler(f.old, di, l)
    BY ONLY <2>1, <2>2, <2>3, FrameHandlerMoves
  <2>. QED  BY <2>4 DEF di
<1>15. \A j \in 1..k : u.cs[j].kind # "pcall"
  <2>1. Len(Front(t.cs)) = n - 1 /\ \A i \in 1 .. n - 1 : Front(t.cs)[i] = t.cs[i]
    <3>1. t.cs # <<>>
      BY <1>1, BelowTop
    <3>. QED  BY ONLY <1>2, <3>1, FrontIs
  <2>. QED  BY <1>2, <1>8, <2>1, SMTT(45) DEF Popped
<1>16. HandlerIs(x.errfunc, x.cs, x.ci, k, l)
  BY <1>12, <1>14, <1>15 DEF HandlerIs, Fields
<1>17. Ready(x, b)
  <2>1. /\ x.ci = WithLast(u.ci, g) /\ x.cs = u.cs /\ x.nCcalls = u.nCcalls /\ x.nny = u.nny
        /\ x.allowhook = u.allowhook /\ u.cs[k].kind = "body" /\ l = Len(u.ci) /\ k = Len(u.cs)
    BY <1>1, <1>2, <1>3, <1>12 DEF Fields
  <2>. QED  BY <1>1, <1>7, <1>9, <1>12, <1>16, <2>1, TopFrameReady
<1>18. OnTop(x.cs, x.ci) /\ LockKept(x) /\ StatusKept(x) /\ x.cs # <<>> /\ x.nCcalls <= Bound
  <2>1. /\ x.cs = u.cs /\ x.ci[Len(x.ci)] = g /\ x.lock = 0 /\ x.status = "ok" /\ x.nCcalls <= Bound
        /\ x.cs[Len(x.cs)] = t.cs[k]
    BY <1>1, <1>12, <1>13 DEF Fields
  <2>. QED  BY <1>1, <1>3, <1>9, <2>1 DEF OnTop, LockKept, StatusKept, RunsC
<1>19. Fine(x)
  BY <1>1, <1>12, <1>17, <1>18 DEF Fine, RunsFine
<1>. QED  BY <1>19 DEF x, w, v, g

LEMMA CallEndFine ==
  ASSUME MaxCCalls \in Nat \ {0}, Fine(s), CallEnd
  PROVE  Fine(s')
<1>. DEFINE n == Len(s.cs)
            k == n - 1
            nC == s.nCcalls - 1
            nny == IF Top.noyield THEN s.nny - 1 ELSE s.nny
            v == [s EXCEPT !.nCcalls = nC, !.nny = nny]
            t == Pop(v)
<1>1. s.cs # <<>> /\ s.cs[n].kind = "call" /\ n >= 3 /\ Top = s.cs[n]
  BY TopAbove, RunsAs DEF CallEnd
<1>2. PICK below \in Seq(Nat) : Ready(s, below)
  BY <1>1, RunsAs
<1>3. /\ s \in States /\ s.lock = 1 /\ s.status = "ok" /\ s.cs \in Seq(Acts) /\ n \in Nat /\ s.nCcalls <= Bound
      /\ s.nCcalls \in Nat /\ s.nny \in Nat /\ s.cs[n] \in Acts
  BY <1>1, RunsAs DEF RunsC, RunsHook
<1>4. Under(s, k, n)
  BY <1>1, <1>3 DEF Under
<1>5. nC \in Nat /\ nny \in Nat /\ nC <= Bound
  <2>1. s.nCcalls - 1 \in Nat /\ (NoYield(s.cs[n]) => s.nny - 1 \in Nat)
    BY <1>1, <1>2, <1>4, CallCounted
  <2>2. Bound \in Nat
    BY BoundIs
  <2>3. nny \in Nat
    BY <1>1, <1>3, <2>1 DEF NoYield
  <2>. QED  BY <1>3, <2>1, <2>2, <2>3
<1>6. v \in States /\ Fields(v, s.ci, s.cs, nC, nny, s.allowhook, s.errfunc, s.status, s.lock)
  <2>. HIDE DEF nC, nny
  <2>. QED  BY <1>3, <1>5, CountsSet
<1>. HIDE DEF v
<1>7. t \in States /\ Fields(t, s.ci, Front(s.cs), nC, nny, s.allowhook, s.errfunc, "ok", 1)
  BY <1>1, <1>3, <1>6, PopDoes DEF Fields
<1>. HIDE DEF t
<1>8. /\ t.ci = s.ci /\ t.cs = Front(s.cs)
      /\ t.nCcalls = s.nCcalls - IF s.cs[n].kind = "call" THEN 1 ELSE 0
      /\ t.nny = s.nny - IF NoYield(s.cs[n]) THEN 1 ELSE 0
      /\ t.allowhook = s.allowhook /\ t.errfunc = s.errfunc /\ t.nCcalls <= Bound /\ t.status = "ok" /\ t.lock = 1
  <2>1. /\ t.ci = s.ci /\ t.cs = Front(s.cs) /\ t.nCcalls = nC /\ t.nny = nny
        /\ t.allowhook = s.allowhook /\ t.errfunc = s.errfunc /\ t.status = "ok" /\ t.lock = 1
    BY <1>7 DEF Fields
  <2>2. t.nny = s.nny - IF NoYield(s.cs[n]) THEN 1 ELSE 0
    BY <1>1, <1>3, <2>1 DEF NoYield
  <2>. QED  BY <1>1, <1>5, <2>1, <2>2
<1>9. Popped(s, below, k, n, t) /\ below[n] = Len(s.ci)
  <2>1. s.cs[n].kind \in {"call", "raise"}
    BY <1>1
  <2>. HIDE DEF n, k
  <2>. QED  BY <1>2, <1>4, <1>7, <1>8, <2>1, FramelessPopped
<1>10. /\ BegunBy(s.cs, s.ci, below, n) /\ n - 1 = k /\ s.cs[2].kind = "rawrun" /\ k >= 2
       /\ k >= 3 => Begins(s.cs, s.ci, k, below[n], s.cs[n])
  <2>1. s.cs[2].kind = "rawrun" /\ k >= 2
    <3>1. s.cs[2].kind = "rawrun"
      BY <1>1, RunsAs
    <3>2. k >= 2
      BY <1>1, <1>3
    <3>. QED  BY <3>1, <3>2
  <2>. HIDE DEF n, k
  <2>. QED  BY <1>2, <1>4, <2>1, BelowTop
<1>11. s' = CASE s.cs[n].by = "api" -> Unlocked(t)
            [] s.cs[n].by = "ypcall" ->
                 LET f == LastFrame(s) IN
                 Unlocked(SetFrame([t EXCEPT !.errfunc = f.old], [f EXCEPT !.pcall = FALSE]))
            [] s.cs[n].by = "handler" -> Throw(t, "errrun")
            [] s.cs[n].by \in {"metamethod", "f_call"} -> t
  <2>1. [s EXCEPT !.nCcalls = @ - 1, !.nny = IF Top.noyield THEN @ - 1 ELSE @] = v
    BY DEF v
  <2>. QED  BY <1>1, <2>1 DEF CallEnd, t
<1>. HIDE DEF n, k, nC, nny
<1>12. CASE s.cs[n].by = "api"
  <2>. DEFINE u == Unlocked(t)
  <2>1. u \in States /\ Fields(u, t.ci, t.cs, t.nCcalls, t.nny, t.allowhook, t.errfunc, "ok", 0)
    BY <1>7, <1>8, LockDoes DEF Fields
  <2>2. RunsC(s.cs[k])
    BY <1>1, <1>10, <1>12 DEF BegunBy
  <2>3. k >= 3
    <3>1. k # 2
      BY <1>10, <2>2 DEF RunsC
    <3>2. k \in Nat
      BY <1>4 DEF Under
    <3>. QED  BY <1>10, <3>1, <3>2
  <2>4. s.cs[k].kind # "pcall" /\ (s.cs[k].kind = "body" => ~s.ci[below[n]].pcall)
    BY <1>1, <1>10, <1>12, <2>2, <2>3 DEF Begins, RunsC
  <2>. HIDE DEF u
  <2>5. /\ u.ci = t.ci /\ u.cs = t.cs /\ u.nCcalls = t.nCcalls /\ u.nny = t.nny /\ u.allowhook = t.allowhook
        /\ u.errfunc = t.errfunc /\ u.nCcalls <= Bound /\ u.status = "ok" /\ u.lock = IF RunsC(s.cs[k]) THEN 0 ELSE 1
    BY <1>8, <2>1, <2>2 DEF Fields
  <2>6. Fine(u)
    BY <1>9, <2>1, <2>4, <2>5, PoppedFine
  <2>. QED  BY <1>11, <1>12, <2>6 DEF u
<1>13. CASE s.cs[n].by = "ypcall"
  <2>. DEFINE f == LastFrame(s)
              u == Unlocked(SetFrame([t EXCEPT !.errfunc = f.old], [f EXCEPT !.pcall = FALSE]))
  <2>1. Fine(u)
    BY <1>1, <1>8, <1>9, <1>13, UnprotectedFine
  <2>2. s' = u
    BY <1>11, <1>13
  <2>. QED  BY <2>1, <2>2
<1>14. CASE s.cs[n].by = "handler"
  <2>1. Ready(t, SubSeq(below, 1, k))
    BY <1>9, PoppedReady
  <2>2. Fine(Throw(t, "errrun"))
    BY <1>8, <2>1, ErrorFine
  <2>. QED  BY <1>11, <1>14, <2>2
<1>15. CASE s.cs[n].by \in {"metamethod", "f_call"}
  <2>1. s.cs[k].kind \in {"execute", "rawrun"}
    BY <1>1, <1>10, <1>15 DEF BegunBy
  <2>2. t.lock = IF RunsC(s.cs[k]) THEN 0 ELSE 1
    BY <1>8, <2>1 DEF RunsC
  <2>3. Fine(t)
    BY <1>7, <1>8, <1>9, <2>1, <2>2, PoppedFine
  <2>. QED  BY <1>11, <1>15, <2>3
<1>16. s.cs[n].by \in {"metamethod", "api", "ypcall", "f_call", "handler"}
  BY <1>1, <1>3 DEF Acts
<1>. QED  BY <1>12, <1>13, <1>14, <1>15, <1>16

LEMMA RaiseErrorFine ==
  ASSUME MaxCCalls \in Nat \ {0}, Fine(s), NEW lua \in BOOLEAN, RaiseError(lua)
  PROVE  Fine(s')
<1>. DEFINE n == Len(s.cs)
            k == n - 1
            l == Len(s.ci)
            t == Pop(s)
<1>1. s.cs # <<>> /\ s.cs[n].kind = "raise" /\ n >= 3
  BY TopAbove DEF RaiseError
<1>2. PICK below \in Seq(Nat) : Ready(s, below)
  BY <1>1, RunsAs
<1>3. /\ s \in States /\ s.lock = 1 /\ s.status = "ok" /\ s.cs \in Seq(Acts) /\ n \in Nat /\ s.nCcalls <= Bound
      /\ s.nCcalls \in Nat /\ s.nny \in Nat /\ s.cs[2].kind = "rawrun" /\ l \in Nat /\ s.ci \in Seq(Frames)
  BY <1>1, RunsAs DEF RunsC, RunsHook
<1>4. Under(s, k, n) /\ k >= 2
  BY <1>1, <1>3 DEF Under
<1>5. t \in States /\ Fields(t, s.ci, Front(s.cs), s.nCcalls, s.nny, s.allowhook, s.errfunc, "ok", 1)
  BY <1>1, <1>3, PopDoes
<1>. HIDE DEF t
<1>6. /\ t.ci = s.ci /\ t.cs = Front(s.cs)
      /\ t.nCcalls = s.nCcalls - IF s.cs[n].kind = "call" THEN 1 ELSE 0
      /\ t.nny = s.nny - IF NoYield(s.cs[n]) THEN 1 ELSE 0
      /\ t.allowhook = s.allowhook /\ t.errfunc = s.errfunc /\ t.status = "ok" /\ t.lock = 1
  <2>1. ~NoYield(s.cs[n])
    BY <1>1 DEF NoYield
  <2>2. t.nCcalls = s.nCcalls /\ t.nny = s.nny
    BY <1>5 DEF Fields
  <2>. QED  BY <1>1, <1>3, <1>5, <2>1, <2>2 DEF Fields
<1>7. Popped(s, below, k, n, t) /\ below[n] = l /\ (k >= 3 => Begins(s.cs, s.ci, k, below[n], s.cs[n])) /\ n = Len(s.cs)
  <2>1. s.cs[n].kind \in {"call", "raise"} /\ l = Len(s.ci) /\ n = Len(s.cs)
    BY <1>1
  <2>. HIDE DEF n, k, l
  <2>2. Popped(s, below, k, n, t) /\ below[n] = l
    BY <1>2, <1>4, <1>5, <1>6, <2>1, FramelessPopped, SMTT(45)
  <2>3. k >= 3 => Begins(s.cs, s.ci, k, below[n], s.cs[n])
    BY <1>2, <1>4, BelowTop
  <2>. QED  BY <2>1, <2>2, <2>3
<1>. DEFINE c == SubSeq(below, 1, k)
<1>8. Ready(t, c) /\ Len(t.cs) = k /\ t.cs[k] = s.cs[k]
  BY <1>7, PoppedReady, SMTT(45)
<1>9. CASE s.errfunc = 0
  <2>1. Fine(Throw(t, "errrun"))
    BY <1>6, <1>8, ErrorFine
  <2>. QED  BY <1>9, <2>1 DEF RaiseError, t
<1>10. CASE s.errfunc # 0
  <2>. DEFINE h == k + 1
              b == Append(c, l)
              a == CallOf("handler", TRUE)
              ds == Append(t.cs, a)
  <2>1. a \in Acts /\ a.kind = "call" /\ a.by = "handler" /\ a.noyield /\ NoYield(a)
    BY DEF CallOf, Acts, NoYield
  <2>2. Above(t, c, k, l, h, b)
    BY <1>6, <1>8 DEF Above
  <2>3. BegunBy(ds, t.ci, b, h)
    <3>1. ds[h] = a /\ ds[h - 1] = t.cs[k]
      <4>1. t.cs \in Seq(Acts) /\ k = Len(t.cs) /\ k \in Nat /\ k >= 1
        BY <1>3, <1>4, <1>5, <1>8, StateFields, SMTT(45)
      <4>. HIDE DEF k, a, n
      <4>. QED  BY <2>1, <4>1, AppendTops
    <3>. HIDE DEF h, b, ds, a
    <3>. QED  BY <2>1, <3>1 DEF BegunBy
  <2>. HIDE DEF a, h, b, c, k, l, n
  <2>4. MayBegin(t, a, k, l)
    <3>1. k >= 3 => Begins(t.cs, t.ci, k, l, a)
      BY <1>1, <1>6, <1>7, <1>8, <2>1 DEF Begins
    <3>. QED  BY <2>1, <3>1 DEF MayBegin
  <2>5. Fine(DoCall(t, "handler", TRUE, lua))
    BY <1>6, <1>8, <2>1, <2>2, <2>3, <2>4, DoCallFine DEF a
  <2>. QED  BY <1>10, <2>5 DEF RaiseError, t
<1>. QED  BY <1>9, <1>10

\* luaD_pcall without an error: what it saved is what there is.
LEMMA PCallEndFine ==
  ASSUME Fine(s), PCallEnd
  PROVE  Fine(s')
<1>. DEFINE cs == s.cs
            ci == s.ci
            n == Len(s.cs)
            l == Len(s.ci)
            k == n - 2
            m == n - 1
            p == s.cs[m]
            v == [s EXCEPT !.nCcalls = Top.nCcalls, !.errfunc = p.errfunc]
            w == Pop(v)
            x == Pop(w)
            u == Unlocked(x)
<1>1. s.cs # <<>> /\ s.cs[n].kind = "rawrun" /\ s.cs[n].of = "pcall" /\ Top = s.cs[n]
  <2>1. s.cs # <<>>
    BY DEF PCallEnd, Is
  <2>2. Top = s.cs[n]
    BY <2>1, RunsAs
  <2>. QED  BY <2>1, <2>2 DEF PCallEnd, Is
<1>2. /\ s \in States /\ s.lock = 1 /\ s.status = "ok" /\ cs \in Seq(Acts) /\ ci \in Seq(Frames) /\ n \in Nat /\ l \in Nat
      /\ n >= 2 /\ cs[2].of # "pcall" /\ s.nny \in Nat
  BY <1>1, RunsAs DEF RunsC, RunsHook
<1>3. PICK below \in Seq(Nat) : Ready(s, below)
  BY <1>1, RunsAs
<1>4. n \in 3..Len(s.cs) /\ n >= 3 /\ n = Len(cs) /\ l = Len(ci) /\ k = n - 2 /\ m = n - 1 /\ p = s.cs[n - 1]
  <2>1. n # 2
    BY <1>1, <1>2
  <2>2. n \in Nat /\ n >= 2 /\ n = Len(s.cs)
    BY <1>2
  <2>. HIDE DEF n
  <2>3. n \in 3..n /\ n >= 3
    <3>1. n \in Nat /\ n >= 2
      BY <2>2
    <3>. QED  BY ONLY <2>1, <3>1
  <2>4. n \in 3..Len(s.cs)
    BY <2>2, <2>3
  <2>. QED  BY <2>2, <2>3, <2>4
<1>. HIDE DEF n, l
<1>5. /\ p.kind = "pcall" /\ cs[n].nCcalls = cs[2].nCcalls + CallsTo(cs, n)
      /\ k \in Nat /\ 3 <= k /\ k < Len(cs) /\ k + 1 = n - 1 /\ n - 1 \in 3..Len(cs)
      /\ RunsC(cs[k]) /\ HandlerIs(p.errfunc, cs, ci, k, below[k + 1])
      /\ Begins(cs, ci, k, below[k + 1], p) /\ below[k + 1] \in Nat
      /\ Local(cs, ci, below, k, below[k + 1]) /\ below[k] \in Nat
      /\ CallsTo(cs, n) = CallsTo(cs, k) /\ NoYieldsTo(cs, n) = NoYieldsTo(cs, k) /\ Unhooked(cs, n) = Unhooked(cs, k)
  <2>1. Ready(s, below) /\ n \in 3..Len(s.cs) /\ s.cs[n].kind = "rawrun" /\ k = n - 2 /\ p = s.cs[n - 1]
    BY <1>1, <1>3, <1>4
  <2>. HIDE DEF k, m, p
  <2>. QED  BY ONLY <2>1, PCallUnder, SMTT(45)
<1>. HIDE DEF k, m, p
<1>6. below[k + 1] = l
  <2>1. Joined(cs, ci, below) /\ n - 1 = m /\ m \in Nat /\ m >= 3 /\ m + 1 = n /\ m = k + 1 /\ m < Len(cs) /\ 2 <= m
    <3>1. Joined(cs, ci, below)
      BY <1>3 DEF Ready
    <3>2. n \in Nat /\ n >= 3 /\ n = Len(cs) /\ k = n - 2 /\ m = n - 1 /\ k \in Nat /\ k >= 3
      BY <1>2, <1>4, <1>5
    <3>3. n - 1 = m /\ m \in Nat /\ m >= 3 /\ m + 1 = n /\ m = k + 1 /\ 2 <= m /\ m < n
      BY ONLY <3>2
    <3>. QED  BY <3>1, <3>2, <3>3
  <2>2. Local(cs, ci, below, n, l)
    BY ONLY <1>2, <1>4, <2>1, TopJoined
  <2>3. Local(cs, ci, below, m, below[m + 1])
    BY ONLY <1>2, <2>1, UnderJoined
  <2>4. l = below[n]
    BY <1>1, <2>2 DEF Local, FramesOf
  <2>5. below[m + 1] = below[m]
    BY <1>4, <1>5, <2>1, <2>3 DEF Local, FramesOf
  <2>. QED  BY <2>1, <2>4, <2>5
<1>7. p.errfunc \in Nat /\ cs[n].nCcalls \in Nat /\ cs[n].nCcalls <= Bound
  <2>1. p \in Acts /\ cs[n] \in Acts /\ cs[n].kind = "rawrun"
    BY <1>1, <1>2, <1>4, <1>5, SMTT(45)
  <2>2. p.errfunc \in Nat
    BY <1>5, <2>1 DEF Acts
  <2>3. cs[n].nCcalls \in Nat
    BY <2>1 DEF Acts
  <2>4. n \in 2..Len(cs) /\ Limits(cs)
    BY <1>3, <1>4 DEF Ready
  <2>5. cs[n].nCcalls <= Bound
    BY <2>1, <2>4 DEF Limits
  <2>. QED  BY <2>2, <2>3, <2>5
<1>8. v \in States /\ Fields(v, ci, cs, cs[n].nCcalls, s.nny, s.allowhook, p.errfunc, "ok", 1)
  <2>1. \A t \in States : \A nC, e \in Nat : LET y == [t EXCEPT !.nCcalls = nC, !.errfunc = e] IN
          y \in States /\ Fields(y, t.ci, t.cs, nC, t.nny, t.allowhook, e, t.status, t.lock)
    BY ZenonT(45) DEF States, Fields
  <2>2. v = [s EXCEPT !.nCcalls = cs[n].nCcalls, !.errfunc = p.errfunc]
    BY <1>1
  <2>. HIDE DEF v
  <2>. QED  BY <1>2, <1>7, <2>1, <2>2
<1>. HIDE DEF v
<1>9. v.cs = cs /\ v.cs # <<>>
  BY <1>1, <1>8 DEF Fields
<1>10. w \in States /\ Fields(w, ci, Front(cs), cs[n].nCcalls, s.nny, s.allowhook, p.errfunc, "ok", 1)
  BY <1>8, <1>9, PopDoes DEF Fields
<1>. HIDE DEF w
<1>11. /\ Front(cs) \in Seq(Acts) /\ Len(Front(cs)) = m /\ (\A i \in 1..m : Front(cs)[i] = cs[i]) /\ Front(cs) # <<>>
       /\ w.cs = Front(cs)
  <2>1. cs # <<>>
    BY <1>1
  <2>2. Front(cs) \in Seq(Acts) /\ Len(Front(cs)) = m /\ (\A i \in 1..m : Front(cs)[i] = cs[i])
    BY <1>2, <1>4, <2>1, FrontIs
  <2>3. m >= 1
    BY <1>2, <1>4
  <2>. QED  BY <1>10, <2>2, <2>3 DEF Fields
<1>12. x \in States /\ Fields(x, ci, Front(Front(cs)), cs[n].nCcalls, s.nny, s.allowhook, p.errfunc, "ok", 1)
  BY <1>10, <1>11, PopDoes DEF Fields
<1>. HIDE DEF x
<1>13. u \in States /\ Fields(u, ci, Front(Front(cs)), cs[n].nCcalls, s.nny, s.allowhook, p.errfunc, "ok", 0)
  BY <1>12, LockDoes DEF Fields
<1>. HIDE DEF u
<1>14. Len(u.cs) = k /\ \A i \in 1..k : u.cs[i] = cs[i]
  <2>. DEFINE q == Front(cs)
  <2>1. q \in Seq(Acts) /\ q # <<>> /\ Len(q) = m /\ \A i \in 1..m : q[i] = cs[i]
    BY <1>11
  <2>. HIDE DEF q
  <2>2. Len(Front(q)) = Len(q) - 1 /\ \A i \in 1 .. Len(q) - 1 : Front(q)[i] = q[i]
    BY ONLY <2>1, FrontIs
  <2>3. m - 1 = k /\ \A i \in 1..k : i \in 1..m
    BY <1>2, <1>4, <1>5
  <2>. QED  BY <1>13, <2>1, <2>2, <2>3 DEF Fields, q
<1>15. /\ u.nCcalls = cs[2].nCcalls + CallsTo(cs, k) /\ u.nny = NoYieldsTo(cs, k)
       /\ u.allowhook = Unhooked(cs, k) /\ HandlerIs(u.errfunc, cs, ci, k, below[k + 1])
       /\ Len(u.ci) = below[k + 1] /\ u.ci = ci /\ u.nCcalls <= Bound /\ u.status = "ok"
       /\ u.lock = IF RunsC(cs[k]) THEN 0 ELSE 1
  <2>1. s.nny = NoYieldsTo(cs, n) /\ s.allowhook = Unhooked(cs, n)
    BY <1>3, <1>4 DEF Ready, Counted
  <2>2. /\ u.ci = ci /\ u.nCcalls = cs[n].nCcalls /\ u.nny = s.nny /\ u.allowhook = s.allowhook
        /\ u.errfunc = p.errfunc /\ u.status = "ok" /\ u.lock = 0
    BY <1>13 DEF Fields
  <2>. QED  BY <1>4, <1>5, <1>6, <1>7, <2>1, <2>2
<1>16. cs[k].kind # "pcall" /\ (cs[k].kind = "body" => ~ci[below[k + 1]].pcall /\ below[k + 1] >= 1)
  <2>1. cs[k].kind # "pcall" /\ (cs[k].kind = "body" => ~ci[below[k + 1]].pcall)
    BY <1>5 DEF RunsC, Begins
  <2>2. cs[k].kind = "body" => below[k + 1] = below[k] + 1
    BY <1>5 DEF Local, FramesOf
  <2>. QED  BY <1>5, <2>1, <2>2, SMTT(45)
<1>17. Fine(u)
  <2>1. 2 <= k /\ k \in Nat /\ k < Len(s.cs) /\ u \in States /\ \A i \in 1..below[k + 1] : u.ci[i] = s.ci[i]
    BY <1>5, <1>13, <1>15
  <2>2. Len(u.cs) = k /\ \A i \in 1..k : u.cs[i] = s.cs[i]
    BY <1>14
  <2>3. /\ u.nCcalls = s.cs[2].nCcalls + CallsTo(s.cs, k) /\ u.nny = NoYieldsTo(s.cs, k)
        /\ u.allowhook = Unhooked(s.cs, k) /\ HandlerIs(u.errfunc, s.cs, s.ci, k, below[k + 1])
        /\ Len(u.ci) = below[k + 1] /\ u.nCcalls <= Bound /\ u.status = "ok"
        /\ u.lock = IF RunsC(s.cs[k]) THEN 0 ELSE 1
    BY <1>15
  <2>4. s.cs[k].kind # "pcall" /\ (s.cs[k].kind = "body" => ~s.ci[below[k + 1]].pcall /\ below[k + 1] >= 1)
    BY <1>16
  <2>. QED  BY ONLY <1>3, <2>1, <2>2, <2>3, <2>4, CutFine, SMTT(60)
<1>18. s' = u
  BY DEF PCallEnd, u, x, w, v, p, m, n
<1>. QED  BY <1>17, <1>18

-----------------------------------------------------------------------------
(* lua_resume and unroll.                                                   *)

LEMMA UnrollFine ==
  ASSUME MaxCCalls \in Nat \ {0}, Fine(s), Unroll
  PROVE  Fine(s')
<1>. DEFINE n == Len(s.cs)
            l == Len(s.ci)
<1>1. s.cs # <<>> /\ s.cs[n].kind = "rawrun" /\ s.cs[n].of # "pcall"
  <2>1. s.cs # <<>>
    BY DEF Unroll, Is
  <2>2. Top = s.cs[n]
    BY <2>1, RunsAs
  <2>. QED  BY <2>1, <2>2 DEF Unroll, Is
<1>2. /\ s \in States /\ s.lock = 1 /\ s.status = "ok" /\ s.cs \in Seq(Acts) /\ s.ci \in Seq(Frames) /\ n \in Nat /\ l \in Nat
      /\ n >= 2 /\ s.nny \in Nat /\ s.nCcalls \in Nat /\ s.nCcalls <= Bound /\ s.errfunc \in Nat
  BY <1>1, RunsAs DEF RunsC, RunsHook
<1>3. PICK below \in Seq(Nat) : Ready(s, below)
  BY <1>1, RunsAs
<1>4. Joined(s.cs, s.ci, below) /\ Counted(s) /\ Limits(s.cs) /\ n = Len(s.cs) /\ l = Len(s.ci)
  BY <1>3 DEF Ready
<1>. HIDE DEF n, l
<1>5. n = 2
  <2>1. ASSUME n # 2 PROVE FALSE
    <3>1. n \in 3..Len(s.cs)
      <4>1. n \in Nat /\ n >= 2 /\ n # 2
        BY <1>2, <1>4, <2>1
      <4>2. n \in 3..n
        BY ONLY <4>1
      <4>. QED  BY <1>4, <4>2
    <3>2. BegunBy(s.cs, s.ci, below, n)
      BY <1>2, <1>4, <3>1, PlaceOf
    <3>. QED  BY <1>1, <3>2 DEF BegunBy
  <2>. QED  BY <2>1
<1>6. s.cs[1].kind = "resume" /\ s.cs[1].nny = 1 /\ s.cs[2].nCcalls >= 1 /\ s.cs[2].nCcalls \in Nat
  <2>1. s.cs[1].kind = "resume" /\ s.cs[1].nny = 1 /\ s.cs[2].nCcalls >= 1
    BY <1>4 DEF Joined, Bottom
  <2>2. s.cs[2] \in Acts
    <3>1. s.cs \in Seq(Acts) /\ Len(s.cs) = 2
      BY <1>2, <1>4, <1>5
    <3>. QED  BY ONLY <3>1
  <2>. QED  BY <1>1, <1>5, <2>1, <2>2 DEF Acts
<1>7. \A i \in 1..2 : s.cs[i].kind \notin {"call", "hook", "pcall"}
  <2>1. \A i \in 1..2 : i = 1 \/ i = 2
    OBVIOUS
  <2>. QED  BY <1>1, <1>5, <1>6, <2>1
<1>8. s.nCcalls = s.cs[2].nCcalls /\ s.nny = 0 /\ s.allowhook /\ FrameHandler(s.errfunc, s.ci, l)
  <2>1. CallsTo(s.cs, 2) = 0 /\ NoYieldsTo(s.cs, 2) = 0 /\ Unhooked(s.cs, 2)
    BY <1>7, NoneCounted
  <2>2. s.nCcalls = s.cs[2].nCcalls + CallsTo(s.cs, 2) /\ s.nny = NoYieldsTo(s.cs, 2) /\ s.allowhook = Unhooked(s.cs, 2)
        /\ HandlerIs(s.errfunc, s.cs, s.ci, 2, l)
    BY <1>4, <1>5 DEF Counted
  <2>3. s.nCcalls = s.cs[2].nCcalls
    BY <1>6, <2>1, <2>2
  <2>. QED  BY <1>7, <2>1, <2>2, <2>3 DEF HandlerIs
<1>9. Flagged(<<>>, s.ci)
  <2>1. Flagged(s.cs, s.ci)
    BY <1>4 DEF Joined
  <2>2. \A j \in 1..Len(<<>>) : FALSE
    OBVIOUS
  <2>. DEFINE e == <<>>
  <2>. HIDE DEF e
  <2>3. \A j \in 1..Len(e) : FALSE
    BY <2>2 DEF e
  <2>4. Flagged(e, s.ci)
    BY <2>1, <2>3 DEF Flagged, FlaggedFrame
  <2>. QED  BY <2>4 DEF e
<1>10. \A i \in 1 .. l - 1 : Good(s.ci[i])
  <2>1. GoesOn(s.cs, s.ci, n, l)
    BY ONLY <1>2, <1>4, TopJoined
  <2>2. Free(s.cs, n)
    BY <1>5, <1>7 DEF Free, NoYield
  <2>. QED  BY <2>1, <2>2 DEF GoesOn
<1>11. CASE s.ci = <<>>
  <2>1. l = 0
    BY <1>4, <1>11
  <2>2. \A i \in 1 .. Len(s.ci) - 1 : Good(s.ci[i])
    BY <1>4, <1>10
  <2>3. FrameHandler(s.errfunc, s.ci, Len(s.ci))
    BY <1>4, <1>8
  <2>4. s.nCcalls >= 1
    BY <1>6, <1>8
  <2>5. Fine(ResumeEnds(s))
    BY <1>1, <1>2, <1>6, <1>8, <1>9, <1>11, <2>2, <2>3, <2>4, ResumeEndsFine
  <2>. QED  BY <1>11, <2>5 DEF Unroll
<1>. DEFINE c1 == s.cs[1]
            c2 == s.cs[2]
<1>12. /\ c1 \in Acts /\ c2 \in Acts /\ c1.kind = "resume" /\ c1.nny = 1
       /\ c2.kind = "rawrun" /\ c2.of # "pcall" /\ c2.nCcalls >= 1 /\ c2.nCcalls <= Bound
       /\ s.cs = <<c1, c2>>
  <2>1. s.cs \in Seq(Acts) /\ Len(s.cs) = 2
    BY <1>2, <1>4, <1>5
  <2>2. s.cs = <<s.cs[1], s.cs[2]>> /\ s.cs[1] \in Acts /\ s.cs[2] \in Acts
    BY ONLY <2>1
  <2>3. s.cs[2].nCcalls <= Bound
    BY <1>2, <1>8
  <2>. QED  BY <1>1, <1>5, <1>6, <2>2, <2>3
<1>. HIDE DEF c1, c2
<1>13. CASE s.ci # <<>> /\ LastFrame(s).lua
  <2>. DEFINE a == Execute(l)
              u == Push(s, a)
  <2>1. l >= 1 /\ LastFrame(s) = s.ci[l] /\ s.ci[l].lua /\ l \in 1..Len(s.ci)
    BY <1>2, <1>4, <1>13 DEF LastFrame
  <2>2. a \in Acts /\ a.kind = "execute" /\ a.base = l /\ ~RunsC(a)
    BY <1>2 DEF Execute, Acts, RunsC
  <2>3. ~s.ci[l].pcall
    BY <1>9, <2>1 DEF Flagged, FlaggedFrame
  <2>. HIDE DEF a
  <2>4. u \in States /\ Fields(u, s.ci, Append(s.cs, a), s.nCcalls, s.nny, s.allowhook, s.errfunc, s.status, s.lock)
    BY <1>2, <2>2, PushDoes
  <2>. HIDE DEF u
  <2>5. /\ u.ci = s.ci /\ l = Len(u.ci) /\ u.cs = Append(<<c1, c2>>, a) /\ u.nCcalls = c2.nCcalls /\ u.nny = 0
        /\ u.allowhook /\ FrameHandler(u.errfunc, u.ci, l) /\ u.status = "ok" /\ u.lock = IF RunsC(a) THEN 0 ELSE 1
    BY <1>2, <1>4, <1>8, <1>12, <2>2, <2>4 DEF Fields, c2
  <2>6. (\A i \in 1 .. l - 1 : Good(u.ci[i])) /\ Flagged(<<>>, u.ci) /\ ~u.ci[l].pcall /\ u.ci[l].lua
    BY <1>9, <1>10, <2>1, <2>3, <2>5
  <2>7. Fine(u)
    BY ONLY <1>12, <2>1, <2>2, <2>4, <2>5, <2>6, Restarts
  <2>. QED  BY <1>4, <1>13, <2>7 DEF Unroll, u, a
<1>14. CASE s.ci # <<>> /\ ~LastFrame(s).lua
  <2>. DEFINE f == LastFrame(s)
              g == [f EXCEPT !.pcall = FALSE]
              a == Body("running")
              e == IF f.pcall THEN f.old ELSE s.errfunc
              u == Continue(s)
              di == WithLast(s.ci, g)
              m == l - 1
  <2>1. /\ f \in Frames /\ f = s.ci[l] /\ g \in Frames /\ g.lua = f.lua /\ g.k = f.k /\ ~g.pcall
        /\ u \in States
        /\ Fields(u, di, Append(s.cs, a), s.nCcalls, s.nny, s.allowhook, e, s.status, s.lock - 1)
    BY <1>2, <1>4, <1>14, ContinueDoes
  <2>2. a \in Acts /\ a.kind = "body" /\ RunsC(a)
    BY DEF Body, Acts, RunsC
  <2>3. ~g.lua
    BY <1>14, <2>1
  <2>. HIDE DEF a, u, g, f, e
  <2>4. di \in Seq(Frames) /\ Len(di) = l /\ l >= 1 /\ di[l] = g /\ \A i \in 1 .. m : di[i] = s.ci[i]
    BY <1>2, <1>4, <1>14, <2>1, LastChanged
  <2>5. m \in Nat /\ m <= l /\ m + 1 = l /\ (\A i \in m + 1 .. l : i = l) /\ l - 1 = m
    BY <1>2, <2>4
  <2>. HIDE DEF di, m
  <2>6. /\ u.ci = di /\ l = Len(u.ci) /\ u.cs = Append(<<c1, c2>>, a) /\ u.nCcalls = c2.nCcalls /\ u.nny = 0
        /\ u.allowhook /\ u.errfunc = e /\ u.status = "ok" /\ u.lock = IF RunsC(a) THEN 0 ELSE 1
    <3>1. /\ u.ci = di /\ u.cs = Append(s.cs, a) /\ u.nCcalls = s.nCcalls /\ u.nny = s.nny
          /\ u.allowhook = s.allowhook /\ u.errfunc = e /\ u.status = s.status /\ u.lock = s.lock - 1
      BY <2>1 DEF Fields
    <3>2. u.lock = 0
      BY <1>2, <3>1
    <3>3. s.nCcalls = c2.nCcalls
      BY <1>8 DEF c2
    <3>. QED  BY <1>2, <1>4, <1>8, <1>12, <2>2, <2>4, <3>1, <3>2, <3>3
  <2>7. FrameHandler(e, di, l)
    <3>1. FrameHandler(e, s.ci, m) /\ (\A i \in m + 1 .. m : FALSE)
      <4>1. CASE f.pcall
        <5>1. l \in 1..Len(s.ci)
          BY <1>2, <1>4, <2>4
        <5>2. FrameHandler(s.ci[l].old, s.ci, l - 1)
          BY <1>9, <2>1, <4>1, <5>1 DEF Flagged, FlaggedFrame
        <5>. QED  BY <2>1, <2>5, <4>1, <5>2 DEF e
      <4>2. CASE ~f.pcall
        <5>1. \A i \in m + 1 .. l : ~s.ci[i].pcall
          BY <2>1, <2>5, <4>2
        <5>2. FrameHandler(s.errfunc, s.ci, l)
          BY <1>8
        <5>3. m <= m /\ (\A i \in 1..m : s.ci[i].pcall = s.ci[i].pcall /\ s.ci[i].handler = s.ci[i].handler)
              /\ \A i \in m + 1 .. m : ~s.ci[i].pcall
          BY <2>5
        <5>4. FrameHandler(s.errfunc, s.ci, m)
          BY ONLY <1>2, <2>5, <5>1, <5>2, <5>3, FrameHandlerMoves
        <5>. QED  BY <2>5, <4>2, <5>4 DEF e
      <4>. QED  BY <4>1, <4>2
    <3>2. /\ m <= m /\ \A i \in 1..m : di[i].pcall = s.ci[i].pcall /\ di[i].handler = s.ci[i].handler
          /\ \A i \in m + 1 .. m : ~s.ci[i].pcall
          /\ \A i \in m + 1 .. l : ~di[i].pcall
      BY <2>1, <2>4, <2>5, <3>1
    <3>3. FrameHandler(e, s.ci, m) /\ m \in Nat /\ l \in Nat /\ m <= l
      BY <1>2, <2>5, <3>1
    <3>. QED  BY ONLY <3>2, <3>3, FrameHandlerMoves
  <2>8. \A i \in 1 .. l - 1 : Good(di[i])
    BY <1>10, <2>4, <2>5
  <2>9. Flagged(<<>>, di)
    <3>. DEFINE q == <<>>
    <3>1. Len(q) = 0 /\ 0 \in Nat /\ \A j \in 1..0 : FALSE
      OBVIOUS
    <3>. HIDE DEF q
    <3>2. \A i \in 1..l : (i <= m /\ di[i] = s.ci[i]) \/ ~di[i].pcall
      BY <2>1, <2>4, <2>5
    <3>3. \A i \in 1..m : di[i].pcall = s.ci[i].pcall /\ di[i].handler = s.ci[i].handler /\ (Good(s.ci[i]) => Good(di[i]))
      BY <2>4
    <3>4. Flagged(q, s.ci) /\ (\A j \in 1..0 : q[j].kind = "pcall" => j \in 1..0 /\ q[j] = q[j])
      BY <1>9, <3>1 DEF q
    <3>5. m <= l /\ Len(di) = l /\ Len(s.ci) = l /\ l \in Nat /\ m \in Nat
      BY <1>2, <1>4, <2>4, <2>5
    <3>6. Flagged(q, di)
      BY ONLY <3>1, <3>2, <3>3, <3>4, <3>5, FlaggedMoves
    <3>. QED  BY <3>6 DEF q
  <2>10. /\ (\A i \in 1 .. l - 1 : Good(u.ci[i])) /\ Flagged(<<>>, u.ci) /\ ~u.ci[l].pcall /\ ~u.ci[l].lua
         /\ FrameHandler(u.errfunc, u.ci, l)
    BY <2>1, <2>3, <2>4, <2>6, <2>7, <2>8, <2>9
  <2>11. Fine(u)
    BY ONLY <1>12, <2>1, <2>2, <2>4, <2>6, <2>10, Restarts, ZenonT(45)
  <2>. QED  BY <1>14, <2>11 DEF Unroll, u
<1>. QED  BY <1>11, <1>13, <1>14

\* From the thread that resumes a coroutine.
FromKept == From \subseteq 0 .. Bound - 1

LEMMA ResumedAs ==
  ASSUME NEW t \in States, NEW cs \in Seq(Acts), NEW nC \in Nat
  PROVE  LET u == Locked([t EXCEPT !.nCcalls = nC, !.nny = 0, !.status = "ok", !.cs = cs]) IN
         u \in States /\ Fields(u, t.ci, cs, nC, 0, t.allowhook, t.errfunc, "ok", t.lock + 1)
<1>. DEFINE v == [t EXCEPT !.nCcalls = nC, !.nny = 0, !.status = "ok", !.cs = cs]
<1>1. v \in States /\ Fields(v, t.ci, cs, nC, 0, t.allowhook, t.errfunc, "ok", t.lock)
  BY DEF States, Fields
<1>. HIDE DEF v
<1>2. Locked(v) \in States /\ Fields(Locked(v), t.ci, cs, nC, 0, t.allowhook, t.errfunc, "ok", t.lock + 1)
  BY <1>1, LockDoes DEF Fields
<1>. QED  BY <1>2 DEF v

LEMMA NCcallsSet ==
  ASSUME NEW t \in States, NEW nC \in Nat
  PROVE  /\ [t EXCEPT !.nCcalls = nC] \in States
         /\ Fields([t EXCEPT !.nCcalls = nC], t.ci, t.cs, nC, t.nny, t.allowhook, t.errfunc, t.status, t.lock)
BY DEF States, Fields

LEMMA ResumeFine ==
  ASSUME MaxCCalls \in Nat \ {0}, FromKept, Fine(s), NEW from \in From, NEW lua \in BOOLEAN, Resume(from, lua)
  PROVE  Fine(s')
<1>. DEFINE nC == from + 1
            c1 == [kind |-> "resume", nny |-> s.nny]
            c2 == [kind |-> "rawrun", of |-> "resume", nCcalls |-> nC]
            l == Len(s.ci)
            t == Locked([s EXCEPT !.nCcalls = nC, !.nny = 0, !.status = "ok", !.cs = <<c1, c2>>])
<1>1. /\ s \in States /\ s.cs = <<>> /\ s.status \in {"ok", "yield"} /\ Suspended(s) /\ s.ci \in Seq(Frames) /\ l \in Nat
      /\ s.errfunc \in Nat /\ l = Len(s.ci)
  BY StateFields DEF Resume, Fine
<1>2. /\ s.lock = 0 /\ s.nny = 1 /\ s.allowhook /\ FrameHandler(s.errfunc, s.ci, l)
      /\ (\A i \in 1 .. l - 1 : Good(s.ci[i])) /\ Flagged(<<>>, s.ci)
      /\ s.status = "ok" => s.ci = <<>>
      /\ s.status = "yield" => s.ci # <<>> /\ ~s.ci[l].pcall
  BY <1>1 DEF Suspended
<1>3. nC \in Nat /\ nC >= 1 /\ nC <= Bound
  <2>1. Bound \in Nat /\ from \in 0 .. Bound - 1
    BY BoundIs DEF FromKept
  <2>. QED  BY <2>1
<1>4. s' = IF nC >= MaxCCalls THEN [s EXCEPT !.nCcalls = nC]
           ELSE IF s.status = "ok" THEN Precall(t, lua)
           ELSE IF LastFrame(s).lua THEN Push(t, Execute(Len(s.ci)))
           ELSE IF LastFrame(s).k THEN Unlocked(Push(t, Body("running")))
           ELSE Push(t, Body("leaving"))
  BY DEF Resume
<1>. HIDE DEF nC, l
<1>5. /\ c1 \in Acts /\ c2 \in Acts /\ c1.kind = "resume" /\ c1.nny = 1 /\ c2.kind = "rawrun" /\ c2.of # "pcall"
      /\ c2.nCcalls = nC /\ c2.nCcalls >= 1 /\ c2.nCcalls <= Bound
  <2>1. c1 \in Acts /\ c1.kind = "resume" /\ c1.nny = 1
    BY <1>2 DEF Acts
  <2>2. c2 \in Acts /\ c2.kind = "rawrun" /\ c2.of # "pcall" /\ c2.nCcalls = nC
    BY <1>3 DEF Acts
  <2>. QED  BY <1>3, <2>1, <2>2
<1>. HIDE DEF c1, c2
<1>6. t \in States /\ Fields(t, s.ci, <<c1, c2>>, nC, 0, s.allowhook, s.errfunc, "ok", 1)
  <2>1. <<c1, c2>> \in Seq(Acts)
    BY <1>5
  <2>2. t \in States /\ Fields(t, s.ci, <<c1, c2>>, nC, 0, s.allowhook, s.errfunc, "ok", s.lock + 1)
    BY <1>1, <1>3, <2>1, ResumedAs
  <2>3. s.lock + 1 = 1
    BY <1>2
  <2>. HIDE DEF t, c1, c2
  <2>. QED  BY <2>2, <2>3
<1>. HIDE DEF t
<1>7. CASE nC >= MaxCCalls
  <2>. DEFINE u == [s EXCEPT !.nCcalls = nC]
  <2>1. u \in States /\ Fields(u, s.ci, s.cs, nC, s.nny, s.allowhook, s.errfunc, s.status, s.lock)
    BY <1>1, <1>3, NCcallsSet
  <2>. HIDE DEF u
  <2>2. Suspended(u)
    BY <1>1, <1>3, <2>1 DEF Suspended, Fields
  <2>3. u.cs = <<>>
    BY <1>1, <2>1 DEF Fields
  <2>4. Fine(u)
    BY <2>1, <2>2, <2>3 DEF Fine
  <2>. QED  BY <1>4, <1>7, <2>4 DEF u
<1>8. CASE ~(nC >= MaxCCalls) /\ s.status = "ok"
  <2>1. s.ci = <<>> /\ l = 0
    BY <1>1, <1>2, <1>8
  <2>2. Joined(<<c1, c2>>, s.ci, <<0, 0>>)
    <3>1. \A i \in 1..Len(s.ci) : Good(s.ci[i])
      BY <2>1
    <3>. QED  BY ONLY <1>1, <1>2, <1>5, <3>1, BaseJoined
  <2>. DEFINE cs == <<c1, c2>>
  <2>3. Len(cs) = 2 /\ cs[1] = c1 /\ cs[2] = c2
    OBVIOUS
  <2>. HIDE DEF cs
  <2>4. \A i \in 1..2 : cs[i].kind \notin {"call", "hook", "pcall"}
    <3>1. \A i \in 1..2 : i = 1 \/ i = 2
      OBVIOUS
    <3>. QED  BY <1>5, <2>3, <3>1
  <2>5. CallsTo(cs, 2) = 0 /\ NoYieldsTo(cs, 2) = 0 /\ Unhooked(cs, 2)
    BY <2>4, NoneCounted
  <2>6. HandlerIs(s.errfunc, cs, s.ci, 2, l)
    BY <1>2, <2>4 DEF HandlerIs
  <2>7. /\ t.ci = s.ci /\ t.cs = cs /\ t.nCcalls = nC /\ t.nny = 0 /\ t.allowhook = s.allowhook /\ t.errfunc = s.errfunc
        /\ t.status = "ok" /\ t.lock = 1
    BY <1>6 DEF Fields, cs
  <2>8. Counted(t)
    <3>1. t.nCcalls = t.cs[2].nCcalls + CallsTo(t.cs, 2)
      BY <1>3, <1>5, <2>3, <2>5, <2>7
    <3>2. t.allowhook = Unhooked(t.cs, 2)
      BY <1>2, <2>4, <2>5, <2>7 DEF Unhooked
    <3>. QED  BY <1>1, <2>3, <2>5, <2>6, <2>7, <3>1, <3>2 DEF Counted
  <2>9. Limits(t.cs)
    <3>1. \A j \in 2..2 : j = 2
      OBVIOUS
    <3>. QED  BY <1>5, <2>3, <2>7, <3>1 DEF Limits
  <2>10. Ready(t, <<0, 0>>)
    BY <1>6, <2>2, <2>7, <2>8, <2>9 DEF Ready, cs
  <2>11. Calls(t) /\ t.nCcalls <= Bound
    BY <1>3, <2>3, <2>7 DEF Calls
  <2>12. Fine(Precall(t, lua))
    BY <2>7, <2>10, <2>11, PrecallFine
  <2>. QED  BY <1>4, <1>8, <2>12
<1>9. CASE ~(nC >= MaxCCalls) /\ s.status = "yield"
  <2>1. l >= 1 /\ LastFrame(s) = s.ci[l] /\ ~s.ci[l].pcall
    BY <1>1, <1>2, <1>9 DEF LastFrame
  <2>2. ASSUME NEW a \in Acts, NEW u \in States,
               \/ a.kind = "execute" /\ a.base = l /\ s.ci[l].lua
               \/ a.kind = "body" /\ ~s.ci[l].lua,
               Fields(u, s.ci, Append(<<c1, c2>>, a), nC, 0, s.allowhook, s.errfunc, "ok", IF RunsC(a) THEN 0 ELSE 1)
        PROVE  Fine(u)
    <3>1. /\ u.ci = s.ci /\ l = Len(u.ci) /\ u.cs = Append(<<c1, c2>>, a) /\ u.nCcalls = c2.nCcalls /\ u.nny = 0
          /\ u.allowhook /\ FrameHandler(u.errfunc, u.ci, l) /\ u.status = "ok" /\ u.lock = IF RunsC(a) THEN 0 ELSE 1
      BY <1>1, <1>2, <1>5, <2>2 DEF Fields
    <3>2. (\A i \in 1 .. l - 1 : Good(u.ci[i])) /\ Flagged(<<>>, u.ci) /\ ~u.ci[l].pcall
      BY <1>2, <2>1, <3>1
    <3>3. \/ a.kind = "execute" /\ a.base = l /\ u.ci[l].lua
          \/ a.kind = "body" /\ ~u.ci[l].lua
      BY <2>2, <3>1
    <3>4. a \in Acts /\ u \in States /\ l >= 1
      BY <2>1, <2>2
    <3>. QED  BY ONLY <1>5, <3>1, <3>2, <3>3, <3>4, Restarts
  <2>3. ASSUME NEW a \in Acts
        PROVE  /\ Push(t, a) \in States
               /\ Fields(Push(t, a), s.ci, Append(<<c1, c2>>, a), nC, 0, s.allowhook, s.errfunc, "ok", 1)
               /\ Unlocked(Push(t, a)) \in States
               /\ Fields(Unlocked(Push(t, a)), s.ci, Append(<<c1, c2>>, a), nC, 0, s.allowhook, s.errfunc, "ok", 0)
    <3>. DEFINE w == Push(t, a)
    <3>1. w \in States /\ Fields(w, s.ci, Append(<<c1, c2>>, a), nC, 0, s.allowhook, s.errfunc, "ok", 1)
      <4>1. w \in States /\ Fields(w, t.ci, Append(t.cs, a), t.nCcalls, t.nny, t.allowhook, t.errfunc, t.status, t.lock)
        BY <1>6, <2>3, PushDoes
      <4>. HIDE DEF w
      <4>2. /\ t.ci = s.ci /\ t.cs = <<c1, c2>> /\ t.nCcalls = nC /\ t.nny = 0 /\ t.allowhook = s.allowhook
            /\ t.errfunc = s.errfunc /\ t.status = "ok" /\ t.lock = 1
        BY <1>6 DEF Fields
      <4>. QED  BY <4>1, <4>2
    <3>. HIDE DEF w
    <3>2. /\ Unlocked(w) \in States
          /\ Fields(Unlocked(w), s.ci, Append(<<c1, c2>>, a), nC, 0, s.allowhook, s.errfunc, "ok", 0)
      BY <3>1, LockDoes DEF Fields
    <3>. QED  BY <3>1, <3>2 DEF w
  <2>4. CASE s.ci[l].lua
    <3>. DEFINE a == Execute(l)
    <3>1. a \in Acts /\ a.kind = "execute" /\ a.base = l /\ ~RunsC(a)
      BY <1>1 DEF Execute, Acts, RunsC
    <3>. HIDE DEF a
    <3>2. Fine(Push(t, a))
      BY <2>2, <2>3, <2>4, <3>1
    <3>. QED  BY <1>1, <1>4, <1>9, <2>1, <2>4, <3>2 DEF a
  <2>5. CASE ~s.ci[l].lua /\ s.ci[l].k
    <3>. DEFINE a == Body("running")
    <3>1. a \in Acts /\ a.kind = "body" /\ RunsC(a)
      BY DEF Body, Acts, RunsC
    <3>. HIDE DEF a
    <3>2. Fine(Unlocked(Push(t, a)))
      BY <2>2, <2>3, <2>5, <3>1
    <3>. QED  BY <1>4, <1>9, <2>1, <2>5, <3>2 DEF a
  <2>6. CASE ~s.ci[l].lua /\ ~s.ci[l].k
    <3>. DEFINE a == Body("leaving")
    <3>1. a \in Acts /\ a.kind = "body" /\ ~RunsC(a)
      BY DEF Body, Acts, RunsC
    <3>. HIDE DEF a
    <3>2. Fine(Push(t, a))
      BY <2>2, <2>3, <2>6, <3>1
    <3>. QED  BY <1>4, <1>9, <2>1, <2>6, <3>2 DEF a
  <2>. QED  BY <2>4, <2>5, <2>6
<1>. QED  BY <1>1, <1>7, <1>8, <1>9

-----------------------------------------------------------------------------
(* What the counters tell.                                                  *)

LEMMA InitFine ==
  ASSUME CallsInit, MaxCCalls \in Nat \ {0}
  PROVE  Fine(s)
<1>. DEFINE ci == <<>>
<1>1. ci \in Seq(Frames) /\ <<>> \in Seq(Acts) /\ Len(ci) = 0 /\ \A i \in 1..0 : FALSE
  OBVIOUS
<1>2. /\ s.ci = ci /\ s.cs = <<>> /\ s.nCcalls = 0 /\ s.nny = 1 /\ s.allowhook /\ s.errfunc = 0 /\ s.status = "ok"
      /\ s.lock = 0 /\ s \in States
  <2>1. s = [ci |-> ci, cs |-> <<>>, nCcalls |-> 0, nny |-> 1, allowhook |-> TRUE, errfunc |-> 0,
             status |-> "ok", lock |-> 0]
    BY DEF CallsInit
  <2>. HIDE DEF ci
  <2>. QED  BY <1>1, <2>1 DEF States
<1>3. ci = <<>>
  OBVIOUS
<1>. HIDE DEF ci
<1>4. FrameHandler(0, ci, 0) /\ Flagged(<<>>, ci)
  BY <1>1 DEF FrameHandler, Flagged
<1>5. Bound \in Nat
  BY BoundIs
<1>6. Suspended(s)
  <2>1. s.nCcalls <= Bound
    BY <1>2, <1>5
  <2>2. \A i \in 1..Len(s.ci) - 1 : Good(s.ci[i])
    BY <1>1, <1>2
  <2>3. s.allowhook /\ FrameHandler(s.errfunc, s.ci, Len(s.ci)) /\ Flagged(<<>>, s.ci)
    BY <1>1, <1>2, <1>4
  <2>. QED  BY <1>2, <1>3, <2>1, <2>2, <2>3 DEF Suspended
<1>. QED  BY <1>2, <1>6 DEF Fine

LEMMA NextFine ==
  ASSUME MaxCCalls \in Nat \ {0}, FromKept, Fine(s), CallsNext
  PROVE  Fine(s')
<1>1. ASSUME NEW lua \in BOOLEAN, NEW from \in From, Resume(from, lua) PROVE Fine(s')
  BY <1>1, ResumeFine
<1>2. ASSUME NEW lua \in BOOLEAN, LuaCall(lua) PROVE Fine(s')
  BY <1>2, LuaCallFine
<1>3. ASSUME NEW lua \in BOOLEAN, LuaMetamethod(lua) PROVE Fine(s')
  BY <1>3, LuaMetamethodFine
<1>4. ASSUME NEW lua \in BOOLEAN, RaiseError(lua) PROVE Fine(s')
  BY <1>4, RaiseErrorFine
<1>5. ASSUME NEW lua \in BOOLEAN, NEW k \in BOOLEAN, CallK(k, lua) PROVE Fine(s')
  BY <1>5, CallKFine
<1>6. ASSUME NEW lua \in BOOLEAN, NEW k \in BOOLEAN, NEW handler \in BOOLEAN, PCallK(k, handler, lua) PROVE Fine(s')
  BY <1>6, PCallKFine
<1>7. ASSUME NEW trace \in BOOLEAN, HookBegin(trace) PROVE Fine(s')
  BY <1>7, HookBeginFine
<1>8. ASSUME NEW k \in BOOLEAN, YieldK(k) PROVE Fine(s')
  BY <1>8, YieldKFine
<1>9. CASE Unroll
  BY <1>9, UnrollFine
<1>10. CASE LuaError
  BY <1>10, LuaErrorFine
<1>11. CASE LuaReturn
  BY <1>11, LuaReturnFine
<1>12. CASE HookEnd
  BY <1>12, HookEndFine
<1>13. CASE HookYield
  BY <1>13, HookYieldFine
<1>14. CASE CallError
  BY <1>14, CallErrorFine
<1>15. CASE BodyBegin
  BY <1>15, BodyBeginFine
<1>16. CASE BodyReturn
  BY <1>16, BodyReturnFine
<1>17. CASE BodyEnd
  BY <1>17, BodyEndFine
<1>18. CASE CallEnd
  BY <1>18, CallEndFine
<1>19. CASE PCallEnd
  BY <1>19, PCallEndFine
<1>. QED
  BY <1>1, <1>2, <1>3, <1>4, <1>5, <1>6, <1>7, <1>8, <1>9, <1>10, <1>11, <1>12, <1>13, <1>14, <1>15, <1>16,
     <1>17, <1>18, <1>19 DEF CallsNext

\* Protected calls in C have been made by frames of their own, the later by the
\* later.
LEMMA PCallsRise ==
  ASSUME NEW cs \in Seq(Acts), NEW ci \in Seq(Frames), NEW below, Joined(cs, ci, below), NEW n, n = Len(cs),
         NEW i \in 1..n, NEW j \in 1..n, j < i, cs[i].kind = "pcall", cs[j].kind = "pcall"
  PROVE  cs[j].ci < cs[i].ci /\ cs[j].ci \in Nat /\ cs[i].ci \in Nat
<1>. DEFINE m == i - 1
            k == i - 2
<1>1. n \in Nat /\ below \in Seq(Nat) /\ Len(below) = n /\ cs[1].kind = "resume" /\ cs[2].kind = "rawrun"
  BY DEF Joined, Levels, Bottom
<1>2. i \in 3..n /\ j \in 3..n
  BY <1>1
<1>3. cs[i].ci = below[i] /\ cs[j].ci = below[j] /\ RunsC(cs[m])
  BY <1>2, PlaceOf DEF Saved, BegunBy
<1>4. m # j
  BY <1>3 DEF RunsC
<1>5. m \in Nat /\ m >= 3 /\ m < n /\ 2 <= m /\ m + 1 = i /\ j < m /\ j <= m /\ m \in 3..n /\ k = m - 1 /\ k \in Nat /\ j <= k
      /\ k + 1 = m /\ m \in 1..n /\ i \in 1..n /\ j \in 1..n
  BY <1>1, <1>2, <1>4
<1>. HIDE DEF m, k
<1>6. Local(cs, ci, below, m, below[m + 1])
  BY <1>5, UnderJoined
<1>7. below[i] \in Nat /\ below[j] \in Nat /\ below[m] \in Nat /\ below[j] <= below[m]
  BY <1>1, <1>5, SMTT(45) DEF Joined, Levels
<1>8. CASE cs[m].kind = "body"
  <2>1. below[i] = below[m] + 1
    BY <1>5, <1>6, <1>8 DEF Local, FramesOf
  <2>. QED  BY <1>3, <1>7, <2>1
<1>9. CASE cs[m].kind = "hook"
  <2>1. below[i] = below[m]
    BY <1>5, <1>6, <1>9 DEF Local, FramesOf
  <2>2. cs[k].kind \in {"execute", "body"}
    BY <1>5, <1>6, <1>9 DEF Local, BegunBy
  <2>3. k # j
    BY <2>2
  <2>4. k >= 3 /\ 2 <= k /\ k < n /\ k \in 1..n /\ j <= k
    BY <1>1, <1>2, <1>5, <2>3
  <2>5. Local(cs, ci, below, k, below[k + 1])
    BY <1>5, <2>4, UnderJoined
  <2>6. below[j] <= below[k] /\ below[k] \in Nat
    BY <1>1, <1>5, <2>4, SMTT(45) DEF Joined, Levels
  <2>7. below[m] = below[k + 1]
    BY <1>5
  <2>8. CASE cs[k].kind = "body"
    <3>1. below[m] = below[k] + 1
      BY <2>5, <2>7, <2>8 DEF Local, FramesOf
    <3>. QED  BY <1>3, <1>7, <2>1, <2>6, <3>1
  <2>9. CASE cs[k].kind = "execute"
    <3>1. below[k] + 1 <= below[m]
      BY <2>5, <2>7, <2>9 DEF Local, FramesOf
    <3>. QED  BY <1>3, <1>7, <2>1, <2>6, <3>1
  <2>. QED  BY <2>2, <2>8, <2>9
<1>. QED  BY <1>3, <1>8, <1>9 DEF RunsC

\* The frames with a protected call are below all the protected calls in C, so
\* whichever began last is the one whose handler it is.
LEMMA HandlerTells ==
  ASSUME Fine(s), s.cs # <<>>
  PROVE  s.errfunc = Handler
<1>. DEFINE cs == s.cs
            ci == s.ci
            n == Len(s.cs)
            l == Len(s.ci)
            ofC(i) == [ci |-> cs[i].ci, handler |-> cs[i].handler]
            ofK(i) == [ci |-> i, handler |-> ci[i].handler]
            InC1 == {i \in 1..n : cs[i].kind = "pcall"}
            InK == {i \in 1..l : ci[i].pcall}
            tops(p) == \A q \in Protected : q.ci <= p.ci
            chosen == CHOOSE p \in Protected : tops(p)
<1>1. cs \in Seq(Acts) /\ ci \in Seq(Frames) /\ n \in Nat /\ l \in Nat /\ n = Len(cs) /\ l = Len(ci)
  BY RunsAs
<1>2. PICK below \in Seq(Nat) : Ready(s, below)
  BY RunsAs
<1>3. Joined(cs, ci, below) /\ HandlerIs(s.errfunc, cs, ci, n, l) /\ Flagged(cs, ci)
  BY <1>2 DEF Ready, Counted, Joined
<1>4. DOMAIN cs = 1..n /\ DOMAIN ci = 1..l
  BY <1>1
<1>5. Protected = {ofC(i) : i \in InC1} \cup {ofK(i) : i \in InK}
  BY <1>4 DEF Protected, PCalls
<1>6. Handler = IF Protected = {} THEN 0 ELSE IF chosen.handler THEN chosen.ci ELSE 0
  BY DEF Handler
<1>. HIDE DEF cs, ci, n, l
<1>7. ASSUME NEW p \in Protected, \A q \in Protected : q = p \/ (q.ci < p.ci /\ q.ci \in Nat), p.ci \in Nat,
             s.errfunc = IF p.handler THEN p.ci ELSE 0
      PROVE  s.errfunc = Handler
  <2>. HIDE DEF ofC, ofK, InC1, InK
  <2>1. tops(p)
    BY <1>7
  <2>2. chosen \in Protected /\ tops(chosen)
    BY <1>7, <2>1
  <2>3. p.ci <= chosen.ci
    BY <1>7, <2>2
  <2>. HIDE DEF chosen, tops
  <2>4. chosen = p
    BY <1>7, <2>2, <2>3
  <2>5. Protected # {}
    BY <1>7
  <2>. QED  BY <1>6, <1>7, <2>4, <2>5
<1>8. CASE (\A i \in 1..n : cs[i].kind # "pcall") /\ FrameHandler(s.errfunc, ci, l)
  <2>1. InC1 = {}
    BY <1>8
  <2>2. CASE (\A i \in 1..l : ~ci[i].pcall) /\ s.errfunc = 0
    <3>1. InK = {}
      BY <2>2
    <3>2. Protected = {}
      BY <1>5, <2>1, <3>1
    <3>. QED  BY <1>6, <2>2, <3>2
  <2>3. ASSUME NEW i \in 1..l, ci[i].pcall, \A k \in i + 1 .. l : ~ci[k].pcall, s.errfunc = IF ci[i].handler THEN i ELSE 0
        PROVE  s.errfunc = Handler
    <3>. DEFINE p == ofK(i)
    <3>1. i \in InK /\ p.ci = i /\ p.handler = ci[i].handler /\ i \in Nat
      BY <1>1, <2>3
    <3>2. p \in Protected
      BY <1>5, <3>1
    <3>3. ASSUME NEW q \in Protected PROVE q = p \/ (q.ci < p.ci /\ q.ci \in Nat)
      <4>1. PICK k \in InK : q = ofK(k)
        BY <1>5, <2>1
      <4>2. k \in 1..l /\ ci[k].pcall /\ q.ci = k
        BY <4>1
      <4>3. ~(k \in i + 1 .. l)
        BY <2>3, <4>2
      <4>4. k = i \/ k < i
        BY <1>1, <3>1, <4>2, <4>3
      <4>. QED  BY <1>1, <3>1, <4>1, <4>2, <4>4
    <3>. HIDE DEF p
    <3>4. p.ci \in Nat /\ s.errfunc = IF p.handler THEN p.ci ELSE 0
      BY <2>3, <3>1
    <3>. QED  BY <1>7, <3>2, <3>3, <3>4
  <2>. QED  BY <1>8, <2>2, <2>3 DEF FrameHandler
<1>9. ASSUME NEW i \in 1..n, cs[i].kind = "pcall", \A k \in i + 1 .. n : cs[k].kind # "pcall",
             s.errfunc = IF cs[i].handler THEN cs[i].ci ELSE 0
      PROVE  s.errfunc = Handler
  <2>. DEFINE p == ofC(i)
  <2>1. i \in InC1 /\ p.ci = cs[i].ci /\ p.handler = cs[i].handler /\ i \in Nat
    BY <1>1, <1>9
  <2>2. p \in Protected
    BY <1>5, <2>1
  <2>3. cs[i].ci \in Nat
    <3>1. cs[i] \in Acts
      BY <1>1
    <3>. QED  BY <1>9, <3>1 DEF Acts
  <2>4. ASSUME NEW k \in InC1 PROVE ofC(k) = p \/ (cs[k].ci < cs[i].ci /\ cs[k].ci \in Nat)
    <3>1. k \in 1..n /\ cs[k].kind = "pcall"
      OBVIOUS
    <3>2. k = i \/ k < i
      <4>1. ~(k \in i + 1 .. n)
        BY <1>9, <3>1
      <4>. QED  BY <1>1, <2>1, <3>1, <4>1
    <3>3. CASE k < i
      <4>1. cs[k].ci < cs[i].ci /\ cs[k].ci \in Nat
        BY <1>1, <1>3, <1>9, <3>1, <3>3, PCallsRise
      <4>. QED  BY <4>1
    <3>. QED  BY <3>2, <3>3
  <2>5. ASSUME NEW k \in InK PROVE k < cs[i].ci /\ k \in Nat
    <3>1. k \in 1..l /\ ci[k].pcall /\ k \in 1..Len(ci)
      BY <1>1
    <3>2. FlaggedFrame(cs, ci, k)
      BY <1>3, <3>1 DEF Flagged
    <3>3. i \in 1..Len(cs)
      BY <1>1
    <3>. QED  BY <1>9, <3>1, <3>2, <3>3 DEF FlaggedFrame
  <2>6. ASSUME NEW q \in Protected PROVE q = p \/ (q.ci < p.ci /\ q.ci \in Nat)
    <3>1. CASE \E k \in InC1 : q = ofC(k)
      <4>1. PICK k \in InC1 : q = ofC(k)
        BY <3>1
      <4>2. q.ci = cs[k].ci
        BY <4>1
      <4>. QED  BY <2>1, <2>4, <4>1, <4>2
    <3>2. CASE \E k \in InK : q = ofK(k)
      <4>1. PICK k \in InK : q = ofK(k)
        BY <3>2
      <4>2. q.ci = k
        BY <4>1
      <4>. QED  BY <2>1, <2>5, <4>1, <4>2
    <3>. QED  BY <1>5, <3>1, <3>2
  <2>. HIDE DEF p
  <2>7. p.ci \in Nat /\ s.errfunc = IF p.handler THEN p.ci ELSE 0
    BY <1>9, <2>1, <2>3
  <2>. QED  BY <1>7, <2>2, <2>6, <2>7
<1>. QED  BY <1>3, <1>8, <1>9 DEF HandlerIs

LEMMA FineTells ==
  ASSUME Fine(s)
  PROVE  CountersTellTheStack
<1>1. CASE s.cs = <<>>
  <2>1. Suspended(s) /\ ~Is("rawrun") /\ ~Running
    BY <1>1 DEF Fine, Is, Running
  <2>. QED  BY <2>1 DEF CountersTellTheStack, Suspended, Bound
<1>2. CASE s.cs # <<>>
  <2>. DEFINE n == Len(s.cs)
              l == Len(s.ci)
  <2>1. /\ s.cs \in Seq(Acts) /\ s.ci \in Seq(Frames) /\ n \in Nat /\ l \in Nat /\ n >= 2 /\ Top = s.cs[n]
        /\ s.nCcalls <= Bound /\ s.lock = (IF RunsC(s.cs[n]) THEN 0 ELSE 1) /\ s.allowhook \in BOOLEAN
        /\ s.cs[1].kind = "resume" /\ s.cs[2].kind = "rawrun" /\ n = Len(s.cs) /\ l = Len(s.ci)
    BY <1>2, RunsAs
  <2>2. PICK below \in Seq(Nat) : Ready(s, below)
    BY <1>2, RunsAs
  <2>3. Joined(s.cs, s.ci, below) /\ Counted(s)
    BY <2>2 DEF Ready
  <2>4. DOMAIN s.cs = 1..n
    BY <2>1
  <2>. HIDE DEF n, l
  <2>5. s.nCcalls = s.cs[2].nCcalls + Count(LAMBDA a : a.kind = "call")
    BY <2>1, <2>3, <2>4 DEF Counted, Count, CallsTo
  <2>6. s.nny = Count(LAMBDA a : a.kind = "call" /\ a.noyield)
    BY <2>1, <2>3, <2>4 DEF Counted, Count, NoYieldsTo, NoYield
  <2>7. s.allowhook <=> Count(LAMBDA a : a.kind = "hook") = 0
    <3>. DEFINE H == {i \in 1..n : s.cs[i].kind = "hook"}
    <3>1. Count(LAMBDA a : a.kind = "hook") = Cardinality(H)
      BY <2>4 DEF Count
    <3>2. IsFiniteSet(H)
      BY <2>1, SubsetCounted
    <3>3. Cardinality(H) = 0 <=> H = {}
      BY <3>2, FS_EmptySet
    <3>4. H = {} <=> Unhooked(s.cs, n)
      BY DEF Unhooked
    <3>5. s.allowhook = Unhooked(s.cs, n)
      BY <2>1, <2>3 DEF Counted
    <3>. QED  BY <3>1, <3>3, <3>4, <3>5
  <2>8. s.errfunc = Handler
    BY <1>2, HandlerTells
  <2>9. s.lock = IF (Is("body") /\ Top.stage = "running") \/ Is("hook") THEN 0 ELSE 1
    BY <1>2, <2>1 DEF Is, RunsC
  <2>10. Is("rawrun") /\ Top.of # "pcall" /\ s.ci # <<>> => LastFrame(s).lua \/ LastFrame(s).k
    <3>1. SUFFICES ASSUME s.cs[n].kind = "rawrun", s.cs[n].of # "pcall", s.ci # <<>>
                   PROVE  Good(s.ci[l])
      BY <2>1 DEF Is, LastFrame, Good
    <3>2. n = 2
      <4>1. ASSUME n # 2 PROVE FALSE
        <5>1. n \in 3..n
          <6>1. n \in Nat /\ n >= 2
            BY <2>1
          <6>. QED  BY ONLY <4>1, <6>1
        <5>2. n \in 3..Len(s.cs)
          BY <2>1, <5>1
        <5>3. BegunBy(s.cs, s.ci, below, n)
          BY <2>1, <2>3, <5>2, PlaceOf
        <5>. QED  BY <3>1, <5>3 DEF BegunBy
      <4>. QED  BY <4>1
    <3>3. GoesOn(s.cs, s.ci, n, l)
      BY ONLY <2>1, <2>3, TopJoined
    <3>4. Free(s.cs, n)
      <4>1. \A i \in 1..2 : i = 1 \/ i = 2
        OBVIOUS
      <4>. QED  BY <2>1, <3>2, <4>1 DEF Free, NoYield
    <3>5. l >= 1
      BY <2>1, <3>1
    <3>. QED  BY <3>2, <3>3, <3>4, <3>5 DEF GoesOn
  <2>11. s.nCcalls <= MaxCCalls + MaxCCalls \div 8
    BY <2>1 DEF Bound
  <2>12. Running
    BY <1>2 DEF Running
  <2>. QED  BY <2>5, <2>6, <2>7, <2>8, <2>9, <2>10, <2>11, <2>12 DEF CountersTellTheStack
<1>. QED  BY <1>1, <1>2

\* However calls end, by a return, an error or a yield, what lua_State counts is
\* what is on its stacks.
THEOREM CountersRight == CallsSpec => []CountersTellTheStack
<1>1. MaxCCalls \in Nat \ {0} /\ FromKept
  BY CallsAssumption DEF FromKept, Bound
<1>2. CallsInit => Fine(s)
  BY <1>1, InitFine
<1>3. Fine(s) /\ [CallsNext]_s => Fine(s)'
  <2>1. SUFFICES ASSUME Fine(s), [CallsNext]_s PROVE Fine(s')
    OBVIOUS
  <2>2. CASE CallsNext
    BY <1>1, <2>1, <2>2, NextFine
  <2>3. CASE UNCHANGED s
    BY <2>1, <2>3
  <2>. QED  BY <2>1, <2>2, <2>3
<1>4. Fine(s) => CountersTellTheStack
  BY FineTells
<1>. QED  BY <1>2, <1>3, <1>4, PTL DEF CallsSpec

===========================================================================
