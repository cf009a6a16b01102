---------------------------- MODULE StateMetadata ----------------------------
(***************************************************************************)
(* What the library keeps beside Lua states (luastate_metadata.cpp,        *)
(* luathread_util.cpp), as states are opened, used by several threads and  *)
(* closed (luastate_util.cpp): the metadata with the state mutex in it,    *)
(* and the threads' dependent states.                                      *)
(*                                                                         *)
(* Both are found by the address of the main state.  lua_close frees the   *)
(* main block first and forgets what was kept by that address afterwards;  *)
(* meanwhile lua_newstate of another thread may get the same block.  So    *)
(* the states of one address are told apart by their number.               *)
(***************************************************************************)
EXTENDS Naturals

CONSTANTS
  Threads,
  Addresses,    \* where main states may be
  None,
  MayOverlap,   \* may states be opened and closed while others are?
  MaxStates     \* bound: states opened

VARIABLES
  number,      \* address -> the state there, None in free memory
  open,        \* the addresses that lua_newstate has returned
  metadata,    \* address -> None, or the mutex in its metadata, 0 if there is none yet
  dependents,  \* thread -> address -> the state that its dependent state belongs to
  held,        \* mutex -> who has it
  pc, at, mine,  \* thread -> where it is, the state it is given, the mutex it has found
  states       \* states opened so far

metadataVars == <<number, open, metadata, dependents, held, pc, at, mine, states>>

Numbers == 1 .. MaxStates
OpensOrCloses(t) == pc[t] \notin {"out", "call", "lock", "inside"}

At(t, from, to) == pc[t] = from /\ pc' = [pc EXCEPT ![t] = to] /\ UNCHANGED <<at, states>>
Alone(t) == MayOverlap \/ \A u \in Threads : ~OpensOrCloses(u)

----------------------------------------------------------------------------

\* lua_newstate, up to lua_initstate.
NewState(t, a) ==
  /\ pc[t] = "out" /\ Alone(t)
  /\ number[a] = None /\ states < MaxStates
  /\ states' = states + 1
  /\ number' = [number EXCEPT ![a] = states']
  /\ pc' = [pc EXCEPT ![t] = "init"]
  /\ at' = [at EXCEPT ![t] = a]
  /\ UNCHANGED <<open, metadata, dependents, held, mine>>

\* deinitiate_metadata, which ends the mutex with it, and initiate_metadata.
InitiateMetadata(t) ==
  /\ At(t, "init", "mutex")
  /\ metadata' = [metadata EXCEPT ![at[t]] = 0]
  /\ UNCHANGED <<number, open, dependents, held, mine>>

\* require_state_mutex, the metadata being where get_metadata finds it.
RequireStateMutex(t) ==
  LET a == at[t] IN
  /\ At(t, "mutex", IF metadata[a] = None THEN "crashed" ELSE "reset")
  /\ metadata' = [metadata EXCEPT ![a] = IF @ = 0 THEN number[a] ELSE @]
  /\ UNCHANGED <<number, open, dependents, held, mine>>

\* Mutant: only the calling thread forgets.
ForgottenByOne(t, a) == [dependents EXCEPT ![t][a] = None]

\* reset_dependent_state: every thread forgets the address.
Forgotten(t, a) == [u \in Threads |-> [dependents[u] EXCEPT ![a] = None]]

ResetDependentState(t) ==
  /\ At(t, "reset", "dependent")
  /\ dependents' = Forgotten(t, at[t])
  /\ UNCHANGED <<number, open, metadata, held, mine>>

\* require_dependent_state.
Required(t, a) == [dependents EXCEPT ![t][a] = IF @ = None THEN number[a] ELSE @]

InitStateEnds(t) ==
  /\ At(t, "dependent", "out")
  /\ dependents' = Required(t, at[t])
  /\ open' = open \cup {at[t]}
  /\ UNCHANGED <<number, metadata, held, mine>>

----------------------------------------------------------------------------
(* A call of the API: lua_swapwithtdependent, lua_lock, lua_unlock.        *)

Swap(t, a) ==
  /\ pc[t] = "out" /\ a \in open
  /\ pc' = [pc EXCEPT ![t] = "call"]
  /\ at' = [at EXCEPT ![t] = a]
  /\ dependents' = Required(t, a)
  /\ UNCHANGED <<number, open, metadata, held, mine, states>>

\* lock_state, which does nothing without metadata or a mutex.
MutexOf(a) == IF metadata[a] \in Numbers THEN metadata[a] ELSE None

FindMutex(t) ==
  /\ At(t, "call", "lock")
  /\ mine' = [mine EXCEPT ![t] = MutexOf(at[t])]
  /\ UNCHANGED <<number, open, metadata, dependents, held>>

\* A mutex that is deleted may let anyone in, or nobody.
Exists(m) == \E a \in Addresses : metadata[a] = m

Lock(t) ==
  LET m == mine[t] IN
  /\ At(t, "lock", "inside")
  /\ m # None /\ Exists(m) => held[m] \in {None, t}
  /\ held' = IF m = None THEN held ELSE [held EXCEPT ![m] = t]
  /\ UNCHANGED <<number, open, metadata, dependents, mine>>

\* unlock_state finds the mutex again; one that is another's is not released.
Unlock(t) ==
  LET m == MutexOf(at[t]) IN
  /\ At(t, "inside", "out")
  /\ held' = IF m = None \/ held[m] # t THEN held ELSE [held EXCEPT ![m] = None]
  /\ mine' = [mine EXCEPT ![t] = None]
  /\ UNCHANGED <<number, open, metadata, dependents>>

----------------------------------------------------------------------------

\* lua_close of a state that no other thread uses, from lua_disabletdependent up
\* to the main block being freed.
CloseState(t, a) ==
  /\ pc[t] = "out" /\ Alone(t)
  /\ a \in open /\ \A u \in Threads : pc[u] \in {"call", "lock", "inside"} => at[u] # a
  /\ pc' = [pc EXCEPT ![t] = "finish"]
  /\ at' = [at EXCEPT ![t] = a]
  /\ open' = open \ {a}
  /\ number' = [number EXCEPT ![a] = None]
  /\ dependents' = Required(t, a)
  /\ UNCHANGED <<metadata, held, mine, states>>

\* luastate_util_deinitstate_finish
FinishDependents(t) ==
  /\ At(t, "finish", "forget")
  /\ dependents' = Forgotten(t, at[t])
  /\ UNCHANGED <<number, open, metadata, held, mine>>
FinishMetadata(t) ==
  /\ At(t, "forget", "out")
  /\ metadata' = [metadata EXCEPT ![at[t]] = None]
  /\ UNCHANGED <<number, open, dependents, held, mine>>

----------------------------------------------------------------------------

MetadataInit ==
  /\ number = [a \in Addresses |-> None]
  /\ open = {}
  /\ metadata = [a \in Addresses |-> None]
  /\ dependents = [t \in Threads |-> [a \in Addresses |-> None]]
  /\ held = [m \in Numbers |-> None]
  /\ pc = [t \in Threads |-> "out"]
  /\ at = [t \in Threads |-> None]
  /\ mine = [t \in Threads |-> None]
  /\ states = 0

MetadataNext ==
  \E t \in Threads :
    \/ \E a \in Addresses : NewState(t, a) \/ Swap(t, a) \/ CloseState(t, a)
    \/ InitiateMetadata(t) \/ RequireStateMutex(t) \/ ResetDependentState(t) \/ InitStateEnds(t)
    \/ FindMutex(t) \/ Lock(t) \/ Unlock(t)
    \/ FinishDependents(t) \/ FinishMetadata(t)

MetadataSpec == MetadataInit /\ [][MetadataNext]_metadataVars

----------------------------------------------------------------------------

\* A state is used by one thread at a time, and by each through a dependent
\* state of its own, not of a state that was at the address before.
StatesKeptApart ==
  \A t, u \in Threads :
    /\ t # u /\ pc[t] = "inside" /\ pc[u] = "inside" => at[t] # at[u]
    /\ pc[t] \in {"call", "lock", "inside"} => dependents[t][at[t]] = number[at[t]]

\* "Mutex will automatically deleted when lua_State is closed."
\* (luathread_util.h:22): not before.
MutexUntilClosed == \A a \in open : metadata[a] = number[a]
=============================================================================
