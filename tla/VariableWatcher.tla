---------------------------- MODULE VariableWatcher ----------------------------
(***************************************************************************)
(* variable_watcher (luadebug_variable_watcher.cpp): a cache of the global *)
(* variables, or of the local variables of one stack level, that clients   *)
(* refill, read and write through while the program runs between their     *)
(* calls.                                                                  *)
(*                                                                         *)
(* An update takes the object mutex, then the state mutex, and reads the   *)
(* variables one by one.  The program moves only while the state mutex is  *)
(* free.  The object mutex is recursive: a client may hold it (lock_object)*)
(* around several calls, because a getter returns a pointer into the cache *)
(* that the next update deletes.                                           *)
(*                                                                         *)
(* update_global_ignore leaves both mutexes where it should take them.  A  *)
(* client that holds the object loses it there, and does not know.         *)
(* Leaving a critical section nobody owns either does nothing or makes the *)
(* next thread wait forever, which no safety property sees.  With another  *)
(* owner it would take the mutex from it: clients call it, and leave an    *)
(* object that they have lost, only when no other has the mutex.           *)
(***************************************************************************)
EXTENDS Integers, Sequences, FiniteSets

CONSTANTS
  Clients,       \* threads that use the watcher
  Uses,          \* client -> the calls it makes
  Globals,       \* names of global variables
  Internal,      \* those that a new Lua state has (_internal_variables_list)
  Names,         \* names of local variables
  Values,        \* values of variables, 0 and Nil (absent) among them
  MaxLevels,     \* bound on the call depth of the program
  MaxLocals,     \* bound on the active local variables, of all functions
  Nobody

Updates == {"globals", "locals"}
Sets == {"setGlobal", "setLocal"}
Calls == Updates \cup Sets \cup {"none", "get", "clearIgnore", "lock", "updateIgnore"}

ASSUME WatcherAssumption ==
  /\ Uses \in [Clients -> SUBSET Calls]
  /\ Internal \subseteq Globals /\ {0, -1} \subseteq Values
  /\ MaxLevels \in Nat \ {0} /\ MaxLocals \in Nat
  /\ Nobody \notin Clients

Nil == -1

VARIABLES
  stack,     \* the activations of the program, the running one first: sequences of [name, value]
  globals,   \* global variable -> value or Nil
  lock,      \* owner of the state mutex
  mutex,     \* owner of _object_mutex
  depth,     \* how often it has entered it
  holds,     \* ghost: client -> has it called lock_object, and not yet unlock_object?
             \* "no", "yes", "lost": its own update_global_ignore has left the object
  pc,        \* client -> where it is
  call,      \* client -> what it calls
  unread,    \* client -> what its update has still to read
  list,      \* _vdata_list, and with it _vdata_map: sequence of [name, value]
  slots,     \* _vlocaldata_map: name of a local -> slot, 0 if it has none
  level,     \* _current_local_idx
  ignore,    \* _global_ignore_variables
  hide,      \* _ignore_internal_variables
  held,      \* ghost: client -> the pointer it got since its lock_object: "none", "live", "deleted"
  moved      \* history: has the program run since the last update_local_variables?

program == <<stack, globals, moved>>
locks == <<lock, mutex, depth, holds>>
cache == <<list, slots, level, held>>
settings == <<ignore, hide>>
vars == <<program, locks, pc, call, unread, cache, settings>>

Frames == UNION {[1..n -> [name : Names, value : Values]] : n \in 0..MaxLocals}

\* Types of all variables.
TypeOK ==
  /\ stack \in Seq(Frames) /\ Len(stack) \in 1..MaxLevels
  /\ globals \in [Globals -> Values]
  /\ lock \in Clients \cup {Nobody} /\ mutex \in Clients \cup {Nobody}
  /\ depth \in 0..2
  /\ holds \in [Clients -> {"no", "yes", "lost"}]
  /\ pc \in [Clients -> {"out", "state", "work", "read", "free"}]
  /\ call \in [Clients -> Calls]
  /\ unread \in [Clients -> SUBSET Globals]
  /\ list \in Seq([name : Names \cup Globals, value : Values])
  /\ slots \in [Names -> 0..MaxLocals]
  /\ level \in -1..MaxLevels
  /\ ignore \subseteq Globals /\ hide \in BOOLEAN
  /\ held \in [Clients -> {"none", "live", "deleted"}]
  /\ moved \in BOOLEAN

Init ==
  /\ stack = << <<>> >>
  /\ globals = [g \in Globals |-> IF g \in Internal THEN 0 ELSE Nil]
  /\ lock = Nobody /\ mutex = Nobody /\ depth = 0
  /\ holds = [c \in Clients |-> "no"]
  /\ pc = [c \in Clients |-> "out"] /\ call = [c \in Clients |-> "none"]
  /\ unread = [c \in Clients |-> {}]
  /\ list = <<>> /\ slots = [n \in Names |-> 0] /\ level = -1
  /\ ignore = {} /\ hide = TRUE
  /\ held = [c \in Clients |-> "none"] /\ moved = TRUE

-----------------------------------------------------------------------------
(* The program, seen through the Lua API                                    *)

\* It moves only while nobody has the state mutex.
Runs ==
  /\ lock = Nobody
  /\ moved' = TRUE
  /\ UNCHANGED <<locks, pc, call, unread, cache, settings>>

\* A local comes into scope, with a value.
Declare == Runs /\ globals' = globals /\ \E n \in Names :
  /\ Cardinality(UNION {{i} \X DOMAIN stack[i] : i \in DOMAIN stack}) < MaxLocals
  /\ stack' = [stack EXCEPT ![1] = Append(@, [name |-> n, value |-> 0])]

EndBlock ==
  /\ Runs /\ globals' = globals
  /\ stack[1] # <<>>
  /\ stack' = [stack EXCEPT ![1] = SubSeq(@, 1, Len(@) - 1)]

CallFunction ==
  /\ Runs /\ globals' = globals
  /\ Len(stack) < MaxLevels
  /\ stack' = << <<>> >> \o stack

Return ==
  /\ Runs /\ globals' = globals
  /\ Len(stack) > 1
  /\ stack' = Tail(stack)

Assign == Runs /\ stack' = stack /\ \E g \in Globals, v \in Values :
  globals' = [globals EXCEPT ![g] = v]

Program == Declare \/ EndBlock \/ CallFunction \/ Return \/ Assign

-----------------------------------------------------------------------------
(* Mutexes                                                                  *)

Go(c, there) == pc' = [pc EXCEPT ![c] = there]
Done(c) == pc' = [pc EXCEPT ![c] = "out"] /\ call' = [call EXCEPT ![c] = "none"]
NeedsState(op) == op \in Updates \cup Sets

\* Mutant: a call does not wait for the object mutex.
CallUnlocked(c, op) ==
  /\ pc[c] = "out" /\ op \in Uses[c] \ {"none", "updateIgnore"}
  /\ op = "lock" => mutex = Nobody /\ holds[c] = "no"
  /\ IF mutex \in {Nobody, c} THEN mutex' = c /\ depth' = depth + 1
                             ELSE UNCHANGED <<mutex, depth>>
  /\ \/ /\ op = "lock"
        /\ holds' = [holds EXCEPT ![c] = "yes"]
        /\ UNCHANGED <<pc, call>>
     \/ /\ op # "lock"
        /\ UNCHANGED holds
        /\ call' = [call EXCEPT ![c] = op]
        /\ Go(c, IF NeedsState(op) THEN "state" ELSE "work")
  /\ UNCHANGED <<program, lock, unread, cache, settings>>

\* A client makes a call and gets the object mutex, as soon as that is free;
\* lock_object returns with it.  A client calls that at most once.
Call(c, op) ==
  /\ pc[c] = "out" /\ op \in Uses[c] \ {"none", "updateIgnore"}
  /\ mutex \in {Nobody, c} /\ (op = "lock" => holds[c] = "no")
  /\ mutex' = c /\ depth' = depth + 1
  /\ \/ /\ op = "lock"
        /\ holds' = [holds EXCEPT ![c] = "yes"]
        /\ UNCHANGED <<pc, call>>
     \/ /\ op # "lock"
        /\ UNCHANGED holds
        /\ call' = [call EXCEPT ![c] = op]
        /\ Go(c, IF NeedsState(op) THEN "state" ELSE "work")
  /\ UNCHANGED <<program, lock, unread, cache, settings>>

\* Mutant: the state mutex is not taken.
LocksNoState(c) ==
  /\ pc[c] = "state" /\ lock = Nobody
  /\ Go(c, "work")
  /\ UNCHANGED <<program, locks, call, unread, cache, settings>>

\* _lock_state, which has locked the object before.
LockState(c) ==
  /\ pc[c] = "state" /\ lock = Nobody
  /\ lock' = c
  /\ Go(c, "work")
  /\ UNCHANGED <<program, mutex, depth, holds, call, unread, cache, settings>>

LeaveObject(c) ==
  /\ depth' = IF mutex = c THEN depth - 1 ELSE depth
  /\ mutex' = IF mutex = c /\ depth = 1 THEN Nobody ELSE mutex

\* _unlock_state or _unlock_object, at the end of a call.
Unlock(c) ==
  /\ pc[c] = "free"
  /\ lock' = IF lock = c THEN Nobody ELSE lock
  /\ LeaveObject(c)
  /\ Done(c)
  /\ UNCHANGED <<program, holds, unread, cache, settings>>

\* unlock_object, called by a client that has called lock_object; what a getter
\* gave it since, it uses no more.
UnlockObject(c) ==
  /\ pc[c] = "out" /\ holds[c] # "no" /\ mutex \in {c, Nobody}
  /\ LeaveObject(c)
  /\ holds' = [holds EXCEPT ![c] = "no"]
  /\ held' = [held EXCEPT ![c] = "none"]
  /\ UNCHANGED <<program, lock, pc, call, unread, list, slots, level, settings>>

-----------------------------------------------------------------------------
(* Updates                                                                  *)

\* _clear_variable_data deletes what others hold pointers to, and what c does.
Cleared(c) ==
  /\ list' = <<>>
  /\ held' = [d \in Clients |-> IF d = c THEN "none" ELSE
                                IF held[d] = "live" THEN "deleted" ELSE held[d]]

\* The local names, slots and level stay as they are.
UpdateGlobals(c) ==
  /\ pc[c] = "work" /\ call[c] = "globals"
  /\ Cleared(c)
  /\ unread' = [unread EXCEPT ![c] = Globals]
  /\ Go(c, "read")
  /\ UNCHANGED <<program, locks, call, slots, level, settings>>

Left(c) == {g \in unread[c] : globals[g] # Nil}
Hidden(g) == g \in ignore \/ (hide /\ g \in Internal)

\* The callback of iterate_table, for the next variable in the table.
ReadGlobal(c) ==
  /\ pc[c] = "read" /\ call[c] = "globals"
  /\ \E g \in Left(c) :
       /\ unread' = [unread EXCEPT ![c] = @ \ {g}]
       /\ list' = IF Hidden(g) THEN list ELSE Append(list, [name |-> g, value |-> globals[g]])
  /\ UNCHANGED <<program, locks, pc, call, slots, level, held, settings>>

ReadGlobalsEnd(c) ==
  /\ pc[c] = "read" /\ call[c] = "globals" /\ Left(c) = {}
  /\ Go(c, "free") /\ unread' = [unread EXCEPT ![c] = {}]
  /\ UNCHANGED <<program, locks, call, cache, settings>>

\* update_local_variables: a level that is not there leaves the cache alone.
UpdateLocals(c) ==
  /\ pc[c] = "work" /\ call[c] = "locals"
  /\ \E l \in 0..MaxLevels :
       \/ /\ l >= Len(stack)
          /\ Go(c, "free")
          /\ UNCHANGED cache
       \/ /\ l < Len(stack)
          /\ Cleared(c)
          /\ slots' = [n \in Names |-> 0]
          /\ level' = l
          /\ Go(c, "read")
  /\ UNCHANGED <<program, locks, call, unread, settings>>

\* The activation at the level that the cache is of, if it is there.
Frame == IF level \in 0..Len(stack) - 1 THEN stack[level + 1] ELSE <<>>
Slot == Len(list) + 1

\* Mutant: the first variable of a name stays in the map.
ReadLocalFirstWins(c) ==
  /\ pc[c] = "read" /\ call[c] = "locals" /\ Slot <= Len(Frame)
  /\ list' = Append(list, Frame[Slot])
  /\ slots' = [slots EXCEPT ![Frame[Slot].name] = IF @ = 0 THEN Slot ELSE @]
  /\ UNCHANGED <<program, locks, pc, call, unread, level, held, settings>>

\* lua_getlocal; a later variable of the same name takes its place in the map.
ReadLocal(c) ==
  /\ pc[c] = "read" /\ call[c] = "locals" /\ Slot <= Len(Frame)
  /\ list' = Append(list, Frame[Slot])
  /\ slots' = [slots EXCEPT ![Frame[Slot].name] = Slot]
  /\ UNCHANGED <<program, locks, pc, call, unread, level, held, settings>>

ReadLocalsEnd(c) ==
  /\ pc[c] = "read" /\ call[c] = "locals" /\ Slot > Len(Frame)
  /\ moved' = FALSE
  /\ Go(c, "free")
  /\ UNCHANGED <<stack, globals, locks, call, unread, cache, settings>>

-----------------------------------------------------------------------------
(* Other calls                                                              *)

\* A getter; the pointer is kept by a client that has locked the object.
Get(c) ==
  /\ pc[c] = "work" /\ call[c] = "get"
  /\ held' = IF list # <<>> /\ holds[c] # "no" THEN [held EXCEPT ![c] = "live"] ELSE held
  /\ Go(c, "free")
  /\ UNCHANGED <<program, locks, call, unread, list, slots, level, settings>>

SetGlobal(c) ==
  /\ pc[c] = "work" /\ call[c] = "setGlobal"
  /\ \E g \in Globals, v \in Values : globals' = [globals EXCEPT ![g] = v]
  /\ Go(c, "free")
  /\ UNCHANGED <<stack, moved, locks, call, unread, cache, settings>>

\* The tests of set_local_variable; lua_setlocal makes the last one.
Settable(n) == level >= 0 /\ level < Len(stack) /\ slots[n] \in 1..Len(Frame)

\* The slot is the one the update found, in what now runs at that level.  Refusals
\* leave an error object (_current_error), which is left out.
SetLocal(c) ==
  /\ pc[c] = "work" /\ call[c] = "setLocal"
  /\ \E n \in Names, v \in Values :
       \/ ~Settable(n) /\ stack' = stack
       \/ Settable(n) /\ stack' = [stack EXCEPT ![level + 1][slots[n]].value = v]
  /\ Go(c, "free")
  /\ UNCHANGED <<globals, moved, locks, call, unread, cache, settings>>

ClearIgnore(c) ==
  /\ pc[c] = "work" /\ call[c] = "clearIgnore"
  /\ ignore' = {}
  /\ Go(c, "free")
  /\ UNCHANGED <<program, locks, call, unread, cache, hide>>

\* ignore_internal_variables takes no mutex.
IgnoreInternal(c) ==
  /\ pc[c] = "out"
  /\ hide' = ~hide
  /\ UNCHANGED <<program, locks, pc, call, unread, cache, ignore>>

\* update_global_ignore: _unlock_state in the place of _lock_state, ...
UpdateIgnore(c) ==
  /\ "updateIgnore" \in Uses[c]
  /\ pc[c] = "out" /\ mutex \in {c, Nobody} /\ \A d \in Clients \ {c} : pc[d] = "out"
  /\ call' = [call EXCEPT ![c] = "updateIgnore"]
  /\ LeaveObject(c)
  /\ holds' = [holds EXCEPT ![c] = IF @ = "yes" THEN "lost" ELSE @]
  /\ ignore' = {}
  /\ unread' = [unread EXCEPT ![c] = Globals]
  /\ Go(c, "read")
  /\ UNCHANGED <<program, lock, cache, hide>>

\* ... so the program may run between two names, ...
IgnoreGlobal(c) ==
  /\ pc[c] = "read" /\ call[c] = "updateIgnore" /\ lock = Nobody
  /\ \E g \in Left(c) :
       /\ unread' = [unread EXCEPT ![c] = @ \ {g}]
       /\ ignore' = ignore \cup {g}
  /\ UNCHANGED <<program, locks, pc, call, cache, hide>>

\* ... and _unlock_state once more.
UpdateIgnoreEnd(c) ==
  /\ pc[c] = "read" /\ call[c] = "updateIgnore" /\ Left(c) = {}
  /\ mutex \in {c, Nobody} /\ lock = Nobody
  /\ LeaveObject(c)
  /\ Done(c) /\ unread' = [unread EXCEPT ![c] = {}]
  /\ UNCHANGED <<program, lock, holds, cache, settings>>

-----------------------------------------------------------------------------
\* No other client calls while one is in update_global_ignore.
CallsIgnore == \E c \in Clients : pc[c] = "read" /\ call[c] = "updateIgnore"

Next == Program \/ \E c \in Clients :
  \/ ~CallsIgnore /\ \E op \in Calls : Call(c, op)
  \/ LockState(c) \/ Unlock(c) \/ UnlockObject(c)
  \/ UpdateGlobals(c) \/ ReadGlobal(c) \/ ReadGlobalsEnd(c)
  \/ UpdateLocals(c) \/ ReadLocal(c) \/ ReadLocalsEnd(c)
  \/ Get(c) \/ SetGlobal(c) \/ SetLocal(c) \/ ClearIgnore(c) \/ IgnoreInternal(c)
  \/ UpdateIgnore(c) \/ IgnoreGlobal(c) \/ UpdateIgnoreEnd(c)

Spec == Init /\ [][Next]_vars

-----------------------------------------------------------------------------
Cached == {list[i].name : i \in DOMAIN list}
Shown(g) == globals[g] # Nil /\ g \notin ignore /\ g \notin Internal

\* When an update of the globals ends, the cache is one moment of the program:
\* every variable that is to be shown, with the value it has now, and nothing
\* that the client has asked to ignore.
GlobalsOfOneMoment == \A c \in Clients : pc[c] = "free" /\ call[c] = "globals" =>
  /\ \A i \in DOMAIN list : list[i].value = globals[list[i].name]
  /\ {g \in Globals : Shown(g)} \subseteq Cached /\ Cached \cap ignore = {}

\* What a getter gave a client that has locked the object (lock_object) is not
\* deleted before that client unlocks it, whatever other clients call and whatever
\* it calls itself, with one exception: its own update_global_ignore takes the
\* object from it (luadebug_variable_watcher.cpp:244).
PointersLive == \A c \in Clients : held[c] = "deleted" => holds[c] = "lost"

\* The same without the exception.  (Does not hold: after update_global_ignore
\* another client's update deletes what the first still has locked.)
LockedPointersLive == \A c \in Clients : held[c] # "deleted"

\* The innermost variable of a name, the one the code of the program sees.
Visible(f, n) == CHOOSE i \in DOMAIN f : f[i].name = n /\ \A j \in i+1..Len(f) : f[j].name # n

\* As long as the program has not run since the update, setting a local changes
\* the variable that its name means at that level, and no other.
SetsWhatIsNamed == [][~moved /\ stack' # stack /\ ~moved' =>
  \E n \in Names : \E v \in Values :
    /\ n \in {Frame[i].name : i \in DOMAIN Frame}
    /\ stack' = [stack EXCEPT ![level + 1][Visible(Frame, n)].value = v]]_vars

\* A local is set in the function whose variables the cache was filled from.
\* (Does not hold: the level is counted anew, whatever runs there by then.)
SetsWhatWasRead == [][stack' # stack /\ (\E c \in Clients : pc[c] = "work" /\ call[c] = "setLocal") => ~moved]_vars

\* Outside the local mode there is no local level (the comment on
\* get_current_local_stack_idx).  (Does not hold: see UpdateGlobals.)
NoLevelOutsideLocals == \A c \in Clients :
  pc[c] = "free" /\ call[c] = "globals" => level = -1
=============================================================================
