----------------------------- MODULE HookHandler -----------------------------
(***************************************************************************)
(* lua::debug::hook_handler: callbacks registered per hook event, run one  *)
(* after the other, under the object mutex, by the Lua thread of the state *)
(* the handler is bound to.                                                *)
(*                                                                         *)
(* Every Lua thread has a handler; handler h is bound to the Lua state of  *)
(* thread h.  lua_sethook does not go to the state it is given but to the  *)
(* state of the calling thread (lua_swapwithtdependent), so "installed",   *)
(* the hook in a state, is indexed by threads.  A hook event in a state    *)
(* without handler, that of a client or a coroutine, calls nobody.         *)
(***************************************************************************)
EXTENDS Integers

CONSTANTS
  LuaThreads,   \* threads that run Lua code; each has a handler
  Clients,      \* other threads
  Objects,      \* attached objects: the keys of the maps, in their order
  Events,       \* hook events that happen
  Counts,       \* instruction counts; the first one is the default
  Users,        \* the threads that call the interface of each handler
  Editable,     \* objects the callbacks themselves set and remove, per object
  Destroyers,   \* threads that delete the handler of an ended thread
  Throws,       \* what callbacks throw: "exception", a std::exception, or "other",
                \* a Lua error (Lua is built as C++) or an error_var*
  MaxDepth      \* bound: how deep callbacks leave a mutex locked

Threads == LuaThreads \cup Clients
NoObject == 0
Free == "free"
LUADEBUG_DEFAULTHOOKCOUNT == 3

ASSUME HookAssumption ==
  /\ Objects \subseteq Nat \ {NoObject}
  /\ \A s \in SUBSET Objects : s # {} => \E o \in s : \A p \in s : o <= p
  /\ Events \subseteq {"call", "ret", "line", "count"}
  /\ LUADEBUG_DEFAULTHOOKCOUNT \in Counts
  /\ Free \notin Threads
  /\ Users \in [LuaThreads -> SUBSET Threads]
  /\ Editable \in [Objects -> SUBSET Objects]
  /\ Destroyers \subseteq Threads
  /\ Throws \subseteq {"exception", "other"}
  /\ MaxDepth \in Nat

VARIABLES
  hook_set,   \* handler -> event -> the objects registered for it
  count,      \* handler -> its count
  installed,  \* Lua thread -> the mask and the count of the hook in its state
  owner,      \* handler -> who holds its object mutex, or Free
  depth,      \* handler -> how often its owner has entered that mutex
  event,      \* handler -> the event under way
  living      \* handlers that exist, in _hook_lists

vars == <<hook_set, count, installed, owner, depth, event, living>>

\* at: "none", "found" (by _on_hook_event_static), "iterating", "calling";
\* object: where the iterator is; raised: a callback has thrown;
\* todo: history, the objects this event still has to call.
At(at, e, object, raised, todo) ==
  [at |-> at, event |-> e, object |-> object, raised |-> raised, todo |-> todo]
NoEvent == At("none", "none", NoObject, FALSE, {})

TypeOK ==
  /\ hook_set \in [LuaThreads -> [Events -> SUBSET Objects]]
  /\ count \in [LuaThreads -> Counts]
  /\ installed \in [LuaThreads -> [mask : SUBSET Events, count : Counts]]
  /\ owner \in [LuaThreads -> Threads \cup {Free}]
  /\ depth \in [LuaThreads -> 0..MaxDepth]
  /\ event \in [LuaThreads ->
       [at : {"none", "found", "iterating", "calling"}, event : Events \cup {"none"},
        object : Objects \cup {NoObject}, raised : BOOLEAN, todo : SUBSET Objects]]
  /\ living \subseteq LuaThreads

\* The Lua thread makes its handler, and the default count reaches its state.
Init ==
  /\ hook_set = [h \in LuaThreads |-> [e \in Events |-> {}]]
  /\ count = [h \in LuaThreads |-> LUADEBUG_DEFAULTHOOKCOUNT]
  /\ installed = [x \in LuaThreads |-> [mask |-> {}, count |-> LUADEBUG_DEFAULTHOOKCOUNT]]
  /\ owner = [h \in LuaThreads |-> Free]
  /\ depth = [h \in LuaThreads |-> 0]
  /\ event = [h \in LuaThreads |-> NoEvent]
  /\ living = LuaThreads

Mask(set) == {e \in Events : set[e] # {}}

\* Who may enter: the mutex is recursive.  A call of the interface leaves it as
\* often as it enters it.
MayLock(x, h) == owner[h] \in {Free, x}

\* A thread calls the interface from Lua code or from a callback of its own;
\* between events and the callbacks of one it is in the handler's code.
Calls(x, h) ==
  /\ x \in Users[h] /\ h \in living /\ MayLock(x, h)
  /\ x \in LuaThreads => x \in living /\ event[x].at \in {"none", "calling"}

\* What an object may do: anything outside of callbacks.
Edits(x, o) ==
  x \in LuaThreads /\ event[x].at = "calling" => o \in Editable[event[x].object]

\* Mutant: the hook in the state is left as it is.
UpdateNothing(x, h) == installed' = installed

\* _update_hook_config, called by x; what a client gets in its own state calls
\* nobody and is left out.
UpdateHookConfig(x, h) ==
  installed' = [y \in LuaThreads |->
    IF y = x THEN [mask |-> Mask(hook_set'[h]), count |-> count'[h]] ELSE installed[y]]

\* History: what was set or removed since the event began is no longer due.
Edited(h, o) ==
  [event EXCEPT ![h] = At(@.at, @.event, @.object, @.raised, @.todo \ {o})]

\* set_hook removes the object from every map first.
SetHook(x, h, mask, o) ==
  /\ Calls(x, h) /\ Edits(x, o)
  /\ hook_set' = [hook_set EXCEPT ![h] =
       [e \in Events |-> IF e \in mask THEN @[e] \cup {o} ELSE @[e] \ {o}]]
  /\ event' = Edited(h, o)
  /\ UNCHANGED <<count, owner, depth, living>>
  /\ UpdateHookConfig(x, h)

RemoveHook(x, h, o) ==
  /\ Calls(x, h) /\ Edits(x, o)
  /\ hook_set' = [hook_set EXCEPT ![h] = [e \in Events |-> @[e] \ {o}]]
  /\ event' = Edited(h, o)
  /\ UNCHANGED <<count, owner, depth, living>>
  /\ UpdateHookConfig(x, h)

SetCount(x, h, n) ==
  /\ Calls(x, h)
  /\ count' = [count EXCEPT ![h] = n]
  /\ UNCHANGED <<hook_set, owner, depth, event, living>>
  /\ UpdateHookConfig(x, h)

-----------------------------------------------------------------------------
(* A hook event in the state of Lua thread h.                              *)

Least(s) == IF s = {} THEN NoObject ELSE CHOOSE o \in s : \A p \in s : o <= p
After(h, o) == Least({p \in hook_set[h][event[h].event] : p > o})

\* _on_hook_event_static finds the handler under the code mutex.
HookEvent(h, e) ==
  /\ h \in living /\ event[h].at = "none" /\ e \in installed[h].mask
  /\ event' = [event EXCEPT ![h] = At("found", e, NoObject, FALSE, {})]
  /\ UNCHANGED <<hook_set, count, installed, owner, depth, living>>

Begin(h) ==
  /\ event[h].at = "found" /\ MayLock(h, h) /\ depth[h] < MaxDepth
  /\ owner' = [owner EXCEPT ![h] = h]
  /\ depth' = [depth EXCEPT ![h] = @ + 1]
  /\ event' = [event EXCEPT ![h] =
       At("iterating", @.event, After(h, NoObject), FALSE, hook_set[h][@.event])]
  /\ UNCHANGED <<hook_set, count, installed, living>>

\* The callback is entered; it may set and remove hooks, block and throw.
Callback(h) ==
  /\ event[h].at = "iterating" /\ event[h].object # NoObject
  /\ event' = [event EXCEPT ![h] =
       At("calling", @.event, @.object, @.raised, @.todo \ {@.object})]
  /\ UNCHANGED <<hook_set, count, installed, owner, depth, living>>

\* Mutant: an exception ends the loop.
CallbackReturnBreaks(h, throws) ==
  /\ event[h].at = "calling" /\ (throws => "exception" \in Throws)
  /\ event' = [event EXCEPT ![h] =
       At("iterating", @.event, IF throws THEN NoObject ELSE After(h, @.object),
          @.raised \/ throws, @.todo)]
  /\ UNCHANGED <<hook_set, count, installed, owner, depth, living>>

\* The callback returns, or throws what the loop catches and keeps.
CallbackReturn(h, throws) ==
  /\ event[h].at = "calling" /\ (throws => "exception" \in Throws)
  /\ event' = [event EXCEPT ![h] =
       At("iterating", @.event, After(h, @.object), @.raised \/ throws, @.todo)]
  /\ UNCHANGED <<hook_set, count, installed, owner, depth, living>>

\* Whatever else it throws goes through the loop to whoever called Lua: the
\* other callbacks are not called and the mutex is not left.
CallbackEscapes(h) ==
  /\ event[h].at = "calling" /\ "other" \in Throws
  /\ event' = [event EXCEPT ![h] = NoEvent]
  /\ UNCHANGED <<hook_set, count, installed, owner, depth, living>>

\* The mutex is left; an error kept on the way is now raised in Lua.
End(h) ==
  /\ event[h].at = "iterating" /\ event[h].object = NoObject
  /\ depth' = [depth EXCEPT ![h] = @ - 1]
  /\ owner' = [owner EXCEPT ![h] = IF depth[h] = 1 THEN Free ELSE h]
  /\ event' = [event EXCEPT ![h] = NoEvent]
  /\ UNCHANGED <<hook_set, count, installed, living>>

\* The destructor, called by x once the thread of h has ended.  If the thread
\* has left the mutex locked it waits for ever instead.
Destroy(x, h) ==
  /\ x \in Destroyers /\ x # h /\ h \in living
  /\ x \in LuaThreads => x \in living /\ event[x].at \in {"none", "calling"}
  /\ event[h].at = "none" /\ owner[h] = Free
  /\ living' = living \ {h}
  /\ hook_set' = [hook_set EXCEPT ![h] = [e \in Events |-> {}]]
  /\ UNCHANGED <<count, owner, depth, event>>
  /\ UpdateHookConfig(x, h)

Next ==
  \/ \E x \in Threads, h \in LuaThreads :
       \/ \E o \in Objects : RemoveHook(x, h, o) \/ \E m \in SUBSET Events \ {{}} : SetHook(x, h, m, o)
       \/ \E n \in Counts : SetCount(x, h, n)
       \/ Destroy(x, h)
  \/ \E h \in LuaThreads :
       \/ \E e \in Events : HookEvent(h, e)
       \/ Begin(h) \/ Callback(h) \/ CallbackEscapes(h) \/ End(h)
       \/ \E throws \in BOOLEAN : CallbackReturn(h, throws)

Spec == Init /\ [][Next]_vars

-----------------------------------------------------------------------------

Installed(h) == installed[h] = [mask |-> Mask(hook_set[h]), count |-> count[h]]

\* The hook in the state a handler is bound to is the one its registrations
\* ask for, as long as only its own thread calls it: no breakpoint, step or stop
\* callback is registered in vain.
InstalledAsRegistered == \A h \in living : Users[h] \subseteq {h} => Installed(h)

\* I_hook_handler is marked thread-safe: the same whoever calls it.
InstalledForEveryone == \A h \in living : Installed(h)

\* The iterator of a running event stands on an entry that exists: what other
\* threads remove, they remove before the event or after it.
IteratorValid ==
  \A h \in LuaThreads : event[h].at \in {"iterating", "calling"} /\ event[h].object # NoObject
     => event[h].object \in hook_set[h][event[h].event]

\* An event that ends its loop and gives the mutex back has called every callback
\* registered for it that nobody removed, also when some throw a std::exception.
\* One whose callback throws anything else ends otherwise: with the rest not
\* called and the mutex as deep as it was.
EveryCallbackCalled ==
  [][\A h \in LuaThreads : event[h].at # "none" /\ event'[h].at = "none"
        => \/ event[h].todo = {} /\ depth'[h] < depth[h]
           \/ event[h].at = "calling" /\ depth'[h] = depth[h]]_vars

\* An event calls everybody, whatever callbacks throw.
NobodyLeftOut ==
  [][\A h \in LuaThreads : event[h].at # "none" /\ event'[h].at = "none"
        => event[h].todo = {}]_vars

\* Between events nobody holds the mutex of a handler: a registration, a deletion
\* or the next event of another thread does not wait for ever.
MutexGivenBack == \A h \in LuaThreads : event[h].at = "none" => owner[h] = Free
=============================================================================
