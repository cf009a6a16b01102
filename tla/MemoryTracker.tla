--------------------------- MODULE MemoryTracker ---------------------------
(***************************************************************************)
(* The memory manager (src/Src/memdynamic_management.cpp) with the tracker *)
(* the tests install in it (src/TestSrc/memtracker/memtracker.cpp).        *)
(*                                                                         *)
(* Every new and delete of the program goes through the manager, whatever  *)
(* thread it is in.  Which line of the code asks is known to the thread:   *)
(* new_class_dbg and delete_class_dbg put a record on the thread's list,   *)
(* and operator new takes the one in front.  The manager hands it to the   *)
(* tracker through two global variables (_debug_data and the tracker's     *)
(* _current_dbg_data), which only the tracker's own lock protects.         *)
(*                                                                         *)
(* The program is a debug build (DEBUG_BUILD), and the tracker is          *)
(* installed before the first allocation and stays.                        *)
(***************************************************************************)
EXTENDS Integers, SequencesExt, FiniteSetsExt

CONSTANTS
  Askers,    \* the program's threads
  Sites,     \* the lines of code that ask for memory
  Null,      \* no line: debug_data is NULL, or its function_name
  Blocks,    \* bound: the addresses
  Sizes,     \* the sizes asked for
  MaxNested  \* bound: classes made inside each other

\* What a thread asks for, and how a block is listed.
Requests == [op : {"alloc", "realloc", "free"}, site : Sites \cup {Null}, size : Nat, block : Blocks]
Listings == [size : Nat, created : Sites \cup {Null}, asked : Sites \cup {Null}]

ASSUME TrackerAssumption ==
  /\ IsFiniteSet(Blocks) /\ Sizes \subseteq Nat
  /\ Null \notin Askers \cup Requests \cup Listings

VARIABLES
  nested,     \* each thread's records, the innermost one last
  call,       \* what each thread asks the manager for: [op, site, size, block], or Null
  progress,   \* how far it has come
  lock,       \* who holds the tracker's _mem_mutex
  debugData,  \* _debug_data
  current,    \* the tracker's _current_dbg_data
  memory,     \* _allocated_memory: [size, created, asked], or Null; asked is who asked
  usage       \* _current_usage

trackerVars == <<nested, call, progress, lock, debugData, current, memory, usage>>

\* _get_current_nested_record
Innermost(t) == IF nested[t] = <<>> THEN Null ELSE Last(nested[t])

----------------------------------------------------------------------------
(* new_class_dbg and delete_class_dbg.                                     *)

AddNestedRecord(t, site) ==
  /\ call[t] = Null
  /\ Len(nested[t]) < MaxNested
  /\ nested' = [nested EXCEPT ![t] = Append(@, site)]
  /\ UNCHANGED <<call, progress, lock, debugData, current, memory, usage>>

RemoveNestedRecord(t) ==
  /\ call[t] = Null
  /\ nested[t] # <<>>
  /\ nested' = [nested EXCEPT ![t] = Front(@)]
  /\ UNCHANGED <<call, progress, lock, debugData, current, memory, usage>>

----------------------------------------------------------------------------
(* malloc, realloc and free; operator new and delete ask for the innermost *)
(* record's line.                                                          *)

Asks(t, how, site, size, block) ==
  /\ call[t] = Null
  /\ call' = [call EXCEPT ![t] = [op |-> how, site |-> site, size |-> size, block |-> block]]
  /\ progress' = [progress EXCEPT ![t] = "lock"]
  /\ UNCHANGED <<nested, lock, debugData, current, memory, usage>>

\* A block that a thread works on is its own: nobody else frees it.
Mine(block) == \A t \in Askers : call[t] # Null => call[t].block # block

Allocate(t, site, size) ==
  \E b \in Blocks : memory[b] = Null /\ Mine(b) /\ Asks(t, "alloc", site, size, b)

Reallocate(t, site, size) ==
  \E b \in Blocks : memory[b] # Null /\ Mine(b) /\ Asks(t, "realloc", site, size, b)

Free(t, site) ==
  \E b \in Blocks : memory[b] # Null /\ Mine(b) /\ Asks(t, "free", site, 0, b)

\* Mutant: the manager does not wait for the tracker's lock.
AcquireAnyway(t) ==
  /\ progress[t] = "lock"
  /\ lock' = t
  /\ progress' = [progress EXCEPT ![t] = "tell"]
  /\ UNCHANGED <<nested, call, debugData, current, memory, usage>>

\* _acquire_memlock(true)
Acquire(t) ==
  /\ progress[t] = "lock"
  /\ lock = Null
  /\ lock' = t
  /\ progress' = [progress EXCEPT ![t] = "tell"]
  /\ UNCHANGED <<nested, call, debugData, current, memory, usage>>

\* _set_debug_data and _signal_debug_data, which tells the tracker nothing of a
\* call from no line.
SetDebugData(t) ==
  /\ progress[t] = "tell"
  /\ debugData' = call[t].site
  /\ current' = IF call[t].site = Null THEN current ELSE call[t].site
  /\ progress' = [progress EXCEPT ![t] = "work"]
  /\ UNCHANGED <<nested, call, lock, memory, usage>>

\* The tracker's allocate_memory, reallocate_memory and deallocate_memory.
Track(t) ==
  LET b == call[t].block
      before == IF memory[b] = Null THEN 0 ELSE memory[b].size IN
  /\ progress[t] = "work"
  /\ memory' = [memory EXCEPT ![b] =
                  IF call[t].op = "free" THEN Null
                  ELSE [size |-> call[t].size, created |-> current, asked |-> call[t].site]]
  /\ usage' = usage - before + call[t].size
  /\ progress' = [progress EXCEPT ![t] = "reset"]
  /\ UNCHANGED <<nested, call, lock, debugData, current>>

\* _signal_debug_data_reset, _set_debug_data(NULL) and _acquire_memlock(false)
ResetDebugData(t) ==
  /\ progress[t] = "reset"
  /\ current' = IF debugData = Null THEN current ELSE Null
  /\ debugData' = Null
  /\ lock' = Null
  /\ call' = [call EXCEPT ![t] = Null]
  /\ progress' = [progress EXCEPT ![t] = "idle"]
  /\ UNCHANGED <<nested, memory, usage>>

----------------------------------------------------------------------------

MemoryInit ==
  /\ nested = [t \in Askers |-> <<>>]
  /\ call = [t \in Askers |-> Null]
  /\ progress = [t \in Askers |-> "idle"]
  /\ lock = Null
  /\ debugData = Null
  /\ current = Null
  /\ memory = [b \in Blocks |-> Null]
  /\ usage = 0

MemoryNext ==
  \E t \in Askers :
    \/ \E site \in Sites \cup {Null} : AddNestedRecord(t, site)
    \/ RemoveNestedRecord(t)
    \/ \E site \in {Innermost(t)} \cup Sites :
         \/ Free(t, site)
         \/ \E size \in Sizes : Allocate(t, site, size) \/ Reallocate(t, site, size)
    \/ Acquire(t) \/ SetDebugData(t) \/ Track(t) \/ ResetDebugData(t)

MemorySpec == MemoryInit /\ [][MemoryNext]_trackerVars

----------------------------------------------------------------------------
(* What the tracker tells of leaks.                                        *)

\* Every block is listed under the line that has asked for it last, though the
\* line passes through variables that all threads share, and a block that was
\* asked for from no line is listed under none; the usage is what is listed.
LeaksToldApart ==
  /\ \A b \in Blocks : memory[b] # Null => memory[b].created = memory[b].asked
  /\ usage = MapThenSumSet(LAMBDA b : memory[b].size, {b \in Blocks : memory[b] # Null})
=============================================================================
