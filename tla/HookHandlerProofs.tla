-------------------------- MODULE HookHandlerProofs --------------------------
(***************************************************************************)
(* While no callback edits its own registration, a running event iterates  *)
(* safely, and calls everybody if it gives the mutex back, whatever other  *)
(* threads register and remove, for any number of Lua threads, clients,    *)
(* objects and events.  It gives the mutex back unless a callback throws   *)
(* what the loop does not catch.                                           *)
(*                                                                         *)
(* The argument: from Begin to End the Lua thread holds the mutex, so only *)
(* its own callback can edit the maps; what is still to be called is       *)
(* registered and lies behind the iterator.                                *)
(***************************************************************************)
EXTENDS HookHandler, TLAPS

OthersOnly == \A o \in Objects : o \notin Editable[o]

Types ==
  /\ hook_set \in [LuaThreads -> [Events -> SUBSET Objects]]
  /\ owner \in [LuaThreads -> Threads \cup {Free}]
  /\ depth \in [LuaThreads -> Nat]
  /\ event \in [LuaThreads ->
       [at : {"none", "found", "iterating", "calling"}, event : Events \cup {"none"},
        object : Objects \cup {NoObject}, raised : BOOLEAN, todo : SUBSET Objects]]

Running(h) == event[h].at \in {"iterating", "calling"}
Registered(h) == hook_set[h][event[h].event]

\* At every handler: who runs an event holds the mutex and stands on an entry;
\* what it has to call is registered and comes later.
Walk(h) ==
  /\ event[h].at # "none" => event[h].event \in Events
  /\ Running(h) => owner[h] = h /\ depth[h] > 0
  /\ event[h].at = "calling" => event[h].object # NoObject
  /\ Running(h) /\ event[h].object # NoObject => event[h].object \in Registered(h)
  /\ event[h].at = "iterating" => event[h].todo \subseteq
       {o \in Registered(h) : event[h].object # NoObject /\ event[h].object <= o}
  /\ event[h].at = "calling" => event[h].todo \subseteq
       {o \in Registered(h) : event[h].object < o}

HInv == Types /\ \A h \in LuaThreads : Walk(h)

\* The first object of a set, and NoObject only for the empty one.
LEMMA LeastIs ==
  ASSUME NEW s \in SUBSET Objects
  PROVE  /\ Least(s) \in s \cup {NoObject}
         /\ Least(s) = NoObject <=> s = {}
         /\ \A o \in s : Least(s) # NoObject /\ Least(s) <= o
BY HookAssumption DEF Least, NoObject

\* An edit of o through handler g by thread x that may do it.
LEMMA EditKeepsWalks ==
  ASSUME HInv, OthersOnly, NEW x \in Threads, NEW g \in LuaThreads, NEW o \in Objects,
         Calls(x, g), Edits(x, o),
         NEW f \in [Events -> SUBSET Objects],
         \A e \in Events : \A q \in Objects \ {o} : q \in hook_set[g][e] => q \in f[e],
         hook_set' = [hook_set EXCEPT ![g] = f],
         event' = Edited(g, o), owner' = owner, depth' = depth
  PROVE  HInv'
<1>. DEFINE r == At(event[g].at, event[g].event, event[g].object, event[g].raised,
                 event[g].todo \ {o})
<1>1. Types'
  <2>1. r \in [at : {"none", "found", "iterating", "calling"}, event : Events \cup {"none"},
              object : Objects \cup {NoObject}, raised : BOOLEAN, todo : SUBSET Objects]
    BY DEF HInv, Types, At
  <2>2. event' = [event EXCEPT ![g] = r]
    BY DEF Edited
  <2>. HIDE DEF r
  <2>. QED  BY <2>1, <2>2 DEF HInv, Types
<1>2. ASSUME NEW h \in LuaThreads  PROVE Walk(h)'
  <2>1. Walk(h)
    BY DEF HInv
  <2>2. CASE h # g
    <3>1. event'[h] = event[h] /\ hook_set'[h] = hook_set[h] /\ owner'[h] = owner[h] /\ depth'[h] = depth[h]
      BY <2>2 DEF Edited, HInv, Types
    <3>. QED  BY <2>1, <3>1 DEF Walk, Running, Registered
  <2>3. CASE h = g
    <3>1. /\ event'[h].at = event[h].at /\ event'[h].event = event[h].event
          /\ event'[h].object = event[h].object /\ event'[h].todo = event[h].todo \ {o}
          /\ hook_set'[h] = f /\ owner'[h] = owner[h] /\ depth'[h] = depth[h]
      BY <2>3 DEF Edited, HInv, Types, At
    <3>2. Running(h) => x = h /\ event[h].at = "calling"
      BY <2>1, <2>3, HookAssumption DEF Walk, Running, Calls, MayLock, Threads
    <3>3. Running(h) => o # event[h].object
      BY <3>2, <2>1, HookAssumption DEF Edits, OthersOnly, HInv, Types, Walk, NoObject
    <3>4. event[h].object \in Objects \cup {NoObject} /\ event[h].todo \subseteq Objects
      BY DEF HInv, Types
    <3>. QED  BY <2>1, <2>3, <3>1, <3>2, <3>3, <3>4 DEF Walk, Running, Registered
  <2>. QED  BY <2>2, <2>3
<1>. QED  BY <1>1, <1>2 DEF HInv

\* A step of the event of handler g: the other handlers keep what they have.
LEMMA OtherWalks ==
  ASSUME HInv, NEW g \in LuaThreads, hook_set' = hook_set,
         \A h \in LuaThreads \ {g} : event'[h] = event[h] /\ owner'[h] = owner[h] /\ depth'[h] = depth[h],
         Types', Walk(g)'
  PROVE  HInv'
<1>1. ASSUME NEW h \in LuaThreads, h # g  PROVE Walk(h)'
  <2>1. event'[h] = event[h] /\ owner'[h] = owner[h] /\ depth'[h] = depth[h] /\ Walk(h)
    BY <1>1 DEF HInv
  <2>. QED  BY <2>1 DEF Walk, Running, Registered
<1>. QED  BY <1>1 DEF HInv

\* The next entry behind the iterator, and what is left when there is none.
LEMMA AfterIs ==
  ASSUME HInv, NEW h \in LuaThreads, event[h].event \in Events,
         NEW o \in Objects \cup {NoObject}
  PROVE  /\ After(h, o) \in Objects \cup {NoObject}
         /\ After(h, o) # NoObject => After(h, o) \in Registered(h)
         /\ \A p \in Registered(h) : p > o => After(h, o) # NoObject /\ After(h, o) <= p
<1>. DEFINE s == {p \in hook_set[h][event[h].event] : p > o}
<1>1. s \in SUBSET Objects /\ After(h, o) = Least(s)
  BY DEF After, HInv, Types
<1>. QED  BY <1>1, LeastIs DEF Registered

LEMMA EventStepKeepsHInv ==
  ASSUME HInv, NEW h \in LuaThreads,
         \/ \E e \in Events : HookEvent(h, e)
         \/ Begin(h) \/ Callback(h) \/ CallbackEscapes(h) \/ End(h)
         \/ \E throws \in BOOLEAN : CallbackReturn(h, throws)
  PROVE  HInv'
<1>. USE HookAssumption DEF At
<1>t. /\ Types /\ Walk(h) /\ h \in Threads
      /\ event[h] \in [at : {"none", "found", "iterating", "calling"},
             event : Events \cup {"none"}, object : Objects \cup {NoObject},
             raised : BOOLEAN, todo : SUBSET Objects]
  BY DEF HInv, Types, Threads
<1>1. ASSUME NEW e \in Events, HookEvent(h, e)  PROVE HInv'
  <2>. DEFINE r == At("found", e, NoObject, FALSE, {})
  <2>1. event' = [event EXCEPT ![h] = r] /\ event'[h] = r
    BY <1>1, <1>t DEF HookEvent, Types
  <2>2. Types' /\ Walk(h)'
    BY <1>1, <1>t, <2>1 DEF HookEvent, Types, Walk, Running, NoEvent, NoObject
  <2>9. \A g \in LuaThreads \ {h} : event'[g] = event[g] /\ owner'[g] = owner[g] /\ depth'[g] = depth[g]
    BY <1>1, <1>t DEF HookEvent, Types
  <2>. QED  BY <1>1, <2>1, <2>2, <2>9, OtherWalks DEF HookEvent
<1>2. CASE Begin(h)
  <2>. DEFINE r == At("iterating", event[h].event, After(h, NoObject), FALSE,
                   hook_set[h][event[h].event])
  <2>1. event' = [event EXCEPT ![h] = r] /\ event'[h] = r /\ owner'[h] = h /\ depth'[h] > 0 /\ hook_set' = hook_set
    BY <1>2, <1>t DEF Begin, Types
  <2>2. /\ event[h].event \in Events
        /\ After(h, NoObject) \in Objects \cup {NoObject}
        /\ After(h, NoObject) # NoObject => After(h, NoObject) \in Registered(h)
        /\ \A p \in Registered(h) :
              p > NoObject => After(h, NoObject) # NoObject /\ After(h, NoObject) <= p
    BY <1>2, <1>t, AfterIs DEF Begin, Walk
  <2>3. hook_set[h][event[h].event] \in SUBSET Objects
    <3>1. hook_set[h] \in [Events -> SUBSET Objects]
      BY <1>t DEF Types
    <3>. QED  BY <2>2, <3>1
  <2>4. r \in [at : {"none", "found", "iterating", "calling"}, event : Events \cup {"none"},
               object : Objects \cup {NoObject}, raised : BOOLEAN, todo : SUBSET Objects]
    BY <1>t, <2>2, <2>3
  <2>5. Types'
    BY <1>2, <1>t, <2>1, <2>4 DEF Begin, Types
  <2>6. /\ r.at = "iterating" /\ r.event = event[h].event
        /\ r.object = After(h, NoObject) /\ r.todo = Registered(h)
    BY <1>t DEF Registered
  <2>7. Walk(h)'
    BY <2>1, <2>2, <2>3, <2>6 DEF Walk, Running, Registered, NoObject
  <2>9. \A g \in LuaThreads \ {h} : event'[g] = event[g] /\ owner'[g] = owner[g] /\ depth'[g] = depth[g]
    BY <1>2, <1>t DEF Begin, Types
  <2>. QED  BY <1>2, <2>1, <2>5, <2>7, <2>9, OtherWalks DEF Begin
<1>3. CASE Callback(h)
  <2>. DEFINE r == At("calling", event[h].event, event[h].object, event[h].raised,
                   event[h].todo \ {event[h].object})
  <2>1. event' = [event EXCEPT ![h] = r] /\ event'[h] = r /\ hook_set' = hook_set
        /\ owner'[h] = owner[h] /\ depth'[h] = depth[h]
    BY <1>3, <1>t DEF Callback, Types
  <2>2. r \in [at : {"none", "found", "iterating", "calling"}, event : Events \cup {"none"},
               object : Objects \cup {NoObject}, raised : BOOLEAN, todo : SUBSET Objects]
    BY <1>t
  <2>3. Types'
    BY <1>3, <1>t, <2>1, <2>2 DEF Callback, Types
  <2>4. /\ r.at = "calling" /\ r.event = event[h].event /\ r.object = event[h].object
        /\ r.todo = event[h].todo \ {event[h].object}
    BY <1>t
  <2>5. Walk(h)'
    BY <1>3, <1>t, <2>1, <2>4 DEF Callback, Walk, Running, Registered, NoObject
  <2>9. \A g \in LuaThreads \ {h} : event'[g] = event[g] /\ owner'[g] = owner[g] /\ depth'[g] = depth[g]
    BY <1>3, <1>t DEF Callback, Types
  <2>. QED  BY <1>3, <2>1, <2>3, <2>5, <2>9, OtherWalks DEF Callback
<1>4. ASSUME NEW throws \in BOOLEAN, CallbackReturn(h, throws)  PROVE HInv'
  <2>. DEFINE r == At("iterating", event[h].event, After(h, event[h].object),
                   event[h].raised \/ throws, event[h].todo)
  <2>1. event' = [event EXCEPT ![h] = r] /\ event'[h] = r /\ hook_set' = hook_set
        /\ owner'[h] = owner[h] /\ depth'[h] = depth[h]
    BY <1>4, <1>t DEF CallbackReturn, Types
  <2>2. /\ event[h].event \in Events
        /\ After(h, event[h].object) \in Objects \cup {NoObject}
        /\ After(h, event[h].object) # NoObject => After(h, event[h].object) \in Registered(h)
        /\ \A p \in Registered(h) : p > event[h].object
             => After(h, event[h].object) # NoObject /\ After(h, event[h].object) <= p
    BY <1>4, <1>t, AfterIs DEF CallbackReturn, Walk
  <2>3. r \in [at : {"none", "found", "iterating", "calling"}, event : Events \cup {"none"},
               object : Objects \cup {NoObject}, raised : BOOLEAN, todo : SUBSET Objects]
    BY <1>t, <2>2
  <2>4. Types'
    BY <1>4, <1>t, <2>1, <2>3 DEF CallbackReturn, Types
  <2>5. /\ r.at = "iterating" /\ r.event = event[h].event
        /\ r.object = After(h, event[h].object) /\ r.todo = event[h].todo
    BY <1>t
  <2>6. event[h].todo \subseteq {p \in Registered(h) : event[h].object < p}
    BY <1>4, <1>t DEF CallbackReturn, Walk
  <2>7. Walk(h)'
    BY <1>4, <1>t, <2>1, <2>2, <2>5, <2>6 DEF CallbackReturn, Walk, Running, Registered
  <2>9. \A g \in LuaThreads \ {h} : event'[g] = event[g] /\ owner'[g] = owner[g] /\ depth'[g] = depth[g]
    BY <1>4, <1>t DEF CallbackReturn, Types
  <2>. QED  BY <1>4, <2>1, <2>4, <2>7, <2>9, OtherWalks DEF CallbackReturn
<1>5. CASE End(h)
  <2>1. event' = [event EXCEPT ![h] = NoEvent] /\ event'[h] = NoEvent /\ hook_set' = hook_set
    BY <1>5, <1>t DEF End, Types
  <2>2. Types' /\ Walk(h)'
    BY <1>5, <1>t, <2>1 DEF End, Types, Walk, Running, NoEvent, NoObject
  <2>9. \A g \in LuaThreads \ {h} : event'[g] = event[g] /\ owner'[g] = owner[g] /\ depth'[g] = depth[g]
    BY <1>5, <1>t DEF End, Types
  <2>. QED  BY <1>5, <2>1, <2>2, <2>9, OtherWalks DEF End
<1>6. CASE CallbackEscapes(h)
  <2>1. event' = [event EXCEPT ![h] = NoEvent] /\ event'[h] = NoEvent /\ hook_set' = hook_set
    BY <1>6, <1>t DEF CallbackEscapes, Types
  <2>2. Types' /\ Walk(h)'
    BY <1>6, <1>t, <2>1 DEF CallbackEscapes, Types, Walk, Running, NoEvent, NoObject
  <2>9. \A g \in LuaThreads \ {h} : event'[g] = event[g] /\ owner'[g] = owner[g] /\ depth'[g] = depth[g]
    BY <1>6, <1>t DEF CallbackEscapes, Types
  <2>. QED  BY <1>6, <2>1, <2>2, <2>9, OtherWalks DEF CallbackEscapes
<1>. QED  BY <1>1, <1>2, <1>3, <1>4, <1>5, <1>6

LEMMA NextHInv == OthersOnly /\ HInv /\ [Next]_vars => HInv'
<1>. SUFFICES ASSUME OthersOnly, HInv, [Next]_vars PROVE HInv'  OBVIOUS
<1>1. ASSUME NEW x \in Threads, NEW h \in LuaThreads, NEW o \in Objects, RemoveHook(x, h, o)
      PROVE  HInv'
  <2>. DEFINE f == [e \in Events |-> hook_set[h][e] \ {o}]
  <2>1. f \in [Events -> SUBSET Objects]
        /\ \A e \in Events : \A q \in Objects \ {o} : q \in hook_set[h][e] => q \in f[e]
    BY DEF HInv, Types
  <2>2. hook_set' = [hook_set EXCEPT ![h] = f]
    BY <1>1 DEF RemoveHook
  <2>. HIDE DEF f
  <2>. QED  BY <1>1, <2>1, <2>2, EditKeepsWalks DEF RemoveHook
<1>2. ASSUME NEW x \in Threads, NEW h \in LuaThreads, NEW o \in Objects,
             NEW m \in SUBSET Events \ {{}}, SetHook(x, h, m, o)
      PROVE  HInv'
  <2>. DEFINE f == [e \in Events |-> IF e \in m THEN hook_set[h][e] \cup {o} ELSE hook_set[h][e] \ {o}]
  <2>1. f \in [Events -> SUBSET Objects]
        /\ \A e \in Events : \A q \in Objects \ {o} : q \in hook_set[h][e] => q \in f[e]
    BY DEF HInv, Types
  <2>2. hook_set' = [hook_set EXCEPT ![h] = f]
    BY <1>2 DEF SetHook
  <2>. HIDE DEF f
  <2>. QED  BY <1>2, <2>1, <2>2, EditKeepsWalks DEF SetHook
<1>3. ASSUME NEW x \in Threads, NEW h \in LuaThreads, NEW n \in Counts, SetCount(x, h, n)
      PROVE  HInv'
  BY <1>3 DEF SetCount, HInv, Types, Walk, Running, Registered
<1>4. ASSUME NEW x \in Threads, NEW h \in LuaThreads, Destroy(x, h)  PROVE HInv'
  <2>1. Types'
    BY <1>4 DEF Destroy, HInv, Types
  <2>2. ASSUME NEW g \in LuaThreads  PROVE Walk(g)'
    BY <1>4, <2>2 DEF Destroy, HInv, Types, Walk, Running, Registered
  <2>. QED  BY <2>1, <2>2 DEF HInv
<1>5. CASE UNCHANGED vars
  BY <1>5 DEF vars, HInv, Types, Walk, Running, Registered
<1>. QED  BY <1>1, <1>2, <1>3, <1>4, <1>5, EventStepKeepsHInv DEF Next

LEMMA InitHInv == Init => HInv
BY HookAssumption DEF Init, HInv, Types, Walk, Running, Registered, NoEvent, At, NoObject

\* As long as callbacks leave their own registration alone, no thread pulls the
\* entry away that a running event stands on.
THEOREM IteratorStaysValid ==
  ASSUME OthersOnly PROVE Spec => []IteratorValid
<1>1. HInv => IteratorValid
  BY DEF HInv, IteratorValid, Walk, Running, Registered
<1>. QED  BY InitHInv, NextHInv, <1>1, PTL DEF Spec

\* A step that ends an event: the end of the loop, or a throw that escapes it.
LEMMA EventEnds ==
  ASSUME HInv, Next, NEW h \in LuaThreads, event[h].at # "none", event'[h].at = "none"
  PROVE  End(h) \/ CallbackEscapes(h)
<1>t. event \in [LuaThreads ->
        [at : {"none", "found", "iterating", "calling"}, event : Events \cup {"none"},
         object : Objects \cup {NoObject}, raised : BOOLEAN, todo : SUBSET Objects]]
  BY DEF HInv, Types
<1>a. ASSUME NEW x \in Threads, NEW g \in LuaThreads, NEW o \in Objects,
             event' = Edited(g, o)
      PROVE  FALSE
  BY <1>a, <1>t DEF Edited, At
<1>b. ASSUME NEW x \in Threads, NEW g \in LuaThreads, event' = event
      PROVE  FALSE
  BY <1>b
<1>c. ASSUME NEW g \in LuaThreads, NEW r, r.at # "none", event' = [event EXCEPT ![g] = r]
      PROVE  FALSE
  BY <1>c, <1>t
<1>d. ASSUME NEW g \in LuaThreads, g # h, End(g) \/ CallbackEscapes(g)  PROVE FALSE
  BY <1>d, <1>t DEF End, CallbackEscapes
<1>1. \E x \in Threads, g \in LuaThreads :
        \/ event' = event \/ \E o \in Objects : event' = Edited(g, o)
        \/ \E r : r.at # "none" /\ event' = [event EXCEPT ![g] = r]
        \/ End(g) \/ CallbackEscapes(g)
  <2>1. h \in Threads
    BY DEF Threads
  <2>2. ASSUME NEW g \in LuaThreads,
               \/ \E e \in Events : HookEvent(g, e)
               \/ Begin(g) \/ Callback(g)
               \/ \E throws \in BOOLEAN : CallbackReturn(g, throws)
        PROVE  \E r : r.at # "none" /\ event' = [event EXCEPT ![g] = r]
    BY <2>2 DEF HookEvent, Begin, Callback, CallbackReturn, At
  <2>. QED  BY <2>1, <2>2 DEF Next, RemoveHook, SetHook, SetCount, Destroy
<1>. QED  BY <1>a, <1>b, <1>c, <1>d, <1>1

\* The loop ends with nobody left to be called, and the mutex entered once less.
LEMMA EndedAll ==
  ASSUME HInv, NEW h \in LuaThreads, End(h)
  PROVE  event[h].todo = {} /\ depth'[h] < depth[h]
<1>1. event[h].todo = {}
  BY DEF End, HInv, Walk
<1>2. depth[h] \in Nat /\ depth'[h] = depth[h] - 1
  BY DEF End, HInv, Types
<1>. QED  BY <1>1, <1>2

\* An event that gives the mutex back has called every callback that was
\* registered when it began and that nobody removed meanwhile, also when some
\* throw a std::exception; what else a callback throws ends the event at once,
\* with the mutex still locked (_on_hook_event, luadebug_hook_handler.cpp:177).
THEOREM EveryCallbackIsCalled ==
  ASSUME OthersOnly PROVE Spec => EveryCallbackCalled
<1>1. HInv /\ [Next]_vars => [\A h \in LuaThreads :
        event[h].at # "none" /\ event'[h].at = "none"
          => \/ event[h].todo = {} /\ depth'[h] < depth[h]
             \/ event[h].at = "calling" /\ depth'[h] = depth[h]]_vars
  <2>. SUFFICES ASSUME HInv, Next, NEW h \in LuaThreads,
                       event[h].at # "none", event'[h].at = "none"
                PROVE  \/ event[h].todo = {} /\ depth'[h] < depth[h]
                       \/ event[h].at = "calling" /\ depth'[h] = depth[h]
    BY DEF vars
  <2>1. CASE End(h)
    BY <2>1, EndedAll
  <2>2. CASE CallbackEscapes(h)
    BY <2>2 DEF CallbackEscapes
  <2>. QED  BY <2>1, <2>2, EventEnds
<1>. QED  BY InitHInv, NextHInv, <1>1, PTL DEF Spec, EveryCallbackCalled

\* If callbacks throw nothing but std::exceptions, no event leaves anybody out.
THEOREM NobodyIsLeftOut ==
  ASSUME OthersOnly, "other" \notin Throws PROVE Spec => NobodyLeftOut
<1>1. HInv /\ [Next]_vars => [\A h \in LuaThreads :
        event[h].at # "none" /\ event'[h].at = "none" => event[h].todo = {}]_vars
  <2>. SUFFICES ASSUME HInv, Next, NEW h \in LuaThreads,
                       event[h].at # "none", event'[h].at = "none"
                PROVE  event[h].todo = {}
    BY DEF vars
  <2>1. End(h)
    BY EventEnds DEF CallbackEscapes
  <2>. QED  BY <2>1, EndedAll
<1>. QED  BY InitHInv, NextHInv, <1>1, PTL DEF Spec, NobodyLeftOut
-----------------------------------------------------------------------------
(* The mutex.                                                              *)

\* It is entered once by the event under way and by nobody else.
EnteredOnce == \A h \in LuaThreads :
  /\ owner[h] = IF Running(h) THEN h ELSE Free
  /\ depth[h] = IF Running(h) THEN 1 ELSE 0

\* If callbacks throw nothing but std::exceptions, a handler's mutex is free
\* between its events: who registers, deletes or has the next event does not wait
\* for ever (_unlock_object, luadebug_hook_handler.cpp:186).
THEOREM MutexIsGivenBack ==
  ASSUME "other" \notin Throws PROVE Spec => []MutexGivenBack
<1>. DEFINE MInv == EnteredOnce /\ DOMAIN owner = LuaThreads /\ DOMAIN depth = LuaThreads
                    /\ DOMAIN event = LuaThreads
<1>1. Init => MInv
  BY DEF Init, EnteredOnce, Running, NoEvent, At
<1>2. MInv /\ [Next]_vars => MInv'
  <2>. SUFFICES ASSUME MInv, [Next]_vars PROVE MInv'
    OBVIOUS
  <2>1. ASSUME UNCHANGED <<owner, depth>>, DOMAIN event' = LuaThreads,
               \A h \in LuaThreads : Running(h)' <=> Running(h)
        PROVE  MInv'
    BY <2>1 DEF EnteredOnce
  <2>2. ASSUME NEW g \in LuaThreads, NEW o \in Objects, event' = Edited(g, o), UNCHANGED <<owner, depth>>
        PROVE  MInv'
    BY <2>1, <2>2 DEF Edited, At, Running
  <2>3. ASSUME event' = event, UNCHANGED <<owner, depth>>
        PROVE  MInv'
    BY <2>1, <2>3 DEF Running
  <2>4. ASSUME NEW h \in LuaThreads,
               \/ \E e \in Events : HookEvent(h, e)
               \/ Callback(h) \/ \E throws \in BOOLEAN : CallbackReturn(h, throws)
        PROVE  MInv'
    BY <2>1, <2>4 DEF HookEvent, Callback, CallbackReturn, At, Running
  <2>5. ASSUME NEW h \in LuaThreads, Begin(h)  PROVE MInv'
    BY <2>5 DEF Begin, At, Running, EnteredOnce
  <2>6. ASSUME NEW h \in LuaThreads, End(h)  PROVE MInv'
    BY <2>6 DEF End, NoEvent, At, Running, EnteredOnce
  <2>7. ASSUME NEW h \in LuaThreads, CallbackEscapes(h)  PROVE MInv'
    BY <2>7 DEF CallbackEscapes
  <2>8. ASSUME NEW x \in Threads, NEW h \in LuaThreads,
               \/ \E o \in Objects :
                    RemoveHook(x, h, o) \/ \E m \in SUBSET Events \ {{}} : SetHook(x, h, m, o)
               \/ \E n \in Counts : SetCount(x, h, n)
               \/ Destroy(x, h)
        PROVE  MInv'
    BY <2>2, <2>3, <2>8 DEF RemoveHook, SetHook, SetCount, Destroy
  <2>9. CASE UNCHANGED vars
    BY <2>3, <2>9 DEF vars
  <2>. QED  BY <2>4, <2>5, <2>6, <2>7, <2>8, <2>9 DEF Next
<1>3. MInv => MutexGivenBack
  BY DEF EnteredOnce, Running, MutexGivenBack
<1>. QED  BY <1>1, <1>2, <1>3, PTL DEF Spec
-----------------------------------------------------------------------------
(* The hook in the state of a thread.                                      *)

\* A thread that has its handler for itself leaves those of others alone: an
\* update goes to the state of the caller, whoever's handler it is about.
OwnHandlers ==
  \A h \in LuaThreads : Users[h] \subseteq {h} =>
    h \notin Destroyers /\ \A g \in LuaThreads \ {h} : h \notin Users[g]

InstalledTypes ==
  /\ hook_set \in [LuaThreads -> [Events -> SUBSET Objects]]
  /\ count \in [LuaThreads -> Counts]
  /\ DOMAIN installed = LuaThreads

IInv == InstalledTypes /\ InstalledAsRegistered

\* An update of handler g by thread x, which is either the one that uses g or
\* none of those that have a handler for themselves.
LEMMA UpdateKeepsInstalled ==
  ASSUME IInv, NEW x \in Threads, NEW g \in LuaThreads,
         NEW f \in [Events -> SUBSET Objects], NEW n \in Counts,
         hook_set' = [hook_set EXCEPT ![g] = f], count' = [count EXCEPT ![g] = n],
         living' \subseteq living, UpdateHookConfig(x, g),
         \A h \in living' : Users[h] \subseteq {h} => (h = g <=> h = x),
         living \subseteq LuaThreads
  PROVE  IInv'
<1>1. InstalledTypes'
  BY DEF IInv, InstalledTypes, UpdateHookConfig
<1>2. ASSUME NEW h \in living', Users[h] \subseteq {h}  PROVE Installed(h)'
  <2>0. h \in LuaThreads /\ h \in living
    OBVIOUS
  <2>1. CASE h = g
    <3>1. installed'[h] = [mask |-> Mask(hook_set'[h]), count |-> count'[h]]
      BY <1>2, <2>0, <2>1 DEF UpdateHookConfig
    <3>. QED  BY <3>1 DEF Installed
  <2>2. CASE h # g
    <3>1. installed'[h] = installed[h]
      BY <1>2, <2>0, <2>2 DEF UpdateHookConfig
    <3>2. hook_set'[h] = hook_set[h] /\ count'[h] = count[h]
      BY <2>0, <2>2 DEF IInv, InstalledTypes
    <3>3. Installed(h)
      BY <1>2, <2>0 DEF IInv, InstalledAsRegistered
    <3>. QED  BY <3>1, <3>2, <3>3 DEF Installed
  <2>. QED  BY <2>1, <2>2
<1>. QED  BY <1>1, <1>2 DEF IInv, InstalledAsRegistered

LEMMA NextKeepsInstalled ==
  OwnHandlers /\ IInv /\ living \subseteq LuaThreads /\ [Next]_vars => IInv'
<1>. SUFFICES ASSUME OwnHandlers, IInv, living \subseteq LuaThreads, [Next]_vars PROVE IInv'
  OBVIOUS
<1>t. /\ hook_set \in [LuaThreads -> [Events -> SUBSET Objects]]
      /\ count \in [LuaThreads -> Counts]
  BY DEF IInv, InstalledTypes
<1>0. ASSUME NEW x \in Threads, NEW h \in LuaThreads, Calls(x, h)
      PROVE  \A g \in living : Users[g] \subseteq {g} => (g = h <=> g = x)
  BY <1>0 DEF OwnHandlers, Calls
<1>1. ASSUME NEW x \in Threads, NEW h \in LuaThreads, NEW o \in Objects, RemoveHook(x, h, o)
      PROVE  IInv'
  <2>. DEFINE f == [e \in Events |-> hook_set[h][e] \ {o}]
  <2>1. f \in [Events -> SUBSET Objects] /\ count[h] \in Counts
    BY <1>t
  <2>2. /\ hook_set' = [hook_set EXCEPT ![h] = f] /\ count' = [count EXCEPT ![h] = count[h]]
        /\ living' = living /\ UpdateHookConfig(x, h) /\ Calls(x, h)
    BY <1>1, <1>t DEF RemoveHook
  <2>3. \A g \in living' : Users[g] \subseteq {g} => (g = h <=> g = x)
    BY <1>0, <2>2
  <2>. HIDE DEF f
  <2>. QED  BY <2>1, <2>2, <2>3, UpdateKeepsInstalled
<1>2. ASSUME NEW x \in Threads, NEW h \in LuaThreads, NEW o \in Objects,
             NEW m \in SUBSET Events \ {{}}, SetHook(x, h, m, o)
      PROVE  IInv'
  <2>. DEFINE f == [e \in Events |-> IF e \in m THEN hook_set[h][e] \cup {o} ELSE hook_set[h][e] \ {o}]
  <2>1. f \in [Events -> SUBSET Objects] /\ count[h] \in Counts
    BY <1>t
  <2>2. /\ hook_set' = [hook_set EXCEPT ![h] = f] /\ count' = [count EXCEPT ![h] = count[h]]
        /\ living' = living /\ UpdateHookConfig(x, h) /\ Calls(x, h)
    BY <1>2, <1>t DEF SetHook
  <2>3. \A g \in living' : Users[g] \subseteq {g} => (g = h <=> g = x)
    BY <1>0, <2>2
  <2>. HIDE DEF f
  <2>. QED  BY <2>1, <2>2, <2>3, UpdateKeepsInstalled
<1>3. ASSUME NEW x \in Threads, NEW h \in LuaThreads, NEW n \in Counts, SetCount(x, h, n)
      PROVE  IInv'
  <2>. DEFINE f == hook_set[h]
  <2>1. f \in [Events -> SUBSET Objects]
    BY <1>t
  <2>2. /\ hook_set' = [hook_set EXCEPT ![h] = f] /\ count' = [count EXCEPT ![h] = n]
        /\ living' = living /\ UpdateHookConfig(x, h) /\ Calls(x, h)
    BY <1>3, <1>t DEF SetCount
  <2>3. \A g \in living' : Users[g] \subseteq {g} => (g = h <=> g = x)
    BY <1>0, <2>2
  <2>. HIDE DEF f
  <2>. QED  BY <2>1, <2>2, <2>3, UpdateKeepsInstalled
<1>4. ASSUME NEW x \in Threads, NEW h \in LuaThreads, Destroy(x, h)  PROVE IInv'
  <2>. DEFINE f == [e \in Events |-> {}]
  <2>1. f \in [Events -> SUBSET Objects] /\ count[h] \in Counts
    BY <1>t
  <2>2. /\ hook_set' = [hook_set EXCEPT ![h] = f] /\ count' = [count EXCEPT ![h] = count[h]]
        /\ living' = living \ {h} /\ UpdateHookConfig(x, h) /\ x \in Destroyers
    BY <1>4, <1>t DEF Destroy
  <2>3. \A g \in living' : Users[g] \subseteq {g} => (g = h <=> g = x)
    BY <2>2 DEF OwnHandlers
  <2>. HIDE DEF f
  <2>. QED  BY <2>1, <2>2, <2>3, UpdateKeepsInstalled
<1>5. ASSUME UNCHANGED <<hook_set, count, installed, living>>  PROVE IInv'
  BY <1>5 DEF IInv, InstalledTypes, InstalledAsRegistered, Installed
<1>6. ASSUME NEW h \in LuaThreads,
             \/ \E e \in Events : HookEvent(h, e)
             \/ Begin(h) \/ Callback(h) \/ CallbackEscapes(h) \/ End(h)
             \/ \E throws \in BOOLEAN : CallbackReturn(h, throws)
      PROVE  IInv'
  BY <1>5, <1>6 DEF HookEvent, Begin, Callback, CallbackEscapes, End, CallbackReturn
<1>7. CASE UNCHANGED vars
  BY <1>5, <1>7 DEF vars
<1>. QED  BY <1>1, <1>2, <1>3, <1>4, <1>6, <1>7 DEF Next

LEMMA LivingHandlers == Spec => [](living \subseteq LuaThreads)
<1>1. Init => living \subseteq LuaThreads
  BY DEF Init
<1>2. living \subseteq LuaThreads /\ [Next]_vars => (living \subseteq LuaThreads)'
  BY DEF Next, vars, RemoveHook, SetHook, SetCount, Destroy, HookEvent, Begin, Callback,
     CallbackEscapes, End, CallbackReturn
<1>. QED  BY <1>1, <1>2, PTL DEF Spec

\* The hook Lua calls in a thread is the one the registrations at its handler
\* ask for, mask and count, in every thread that alone uses its handler and uses
\* no other: whatever the other threads register with each other's handlers.
THEOREM RegistrationsReachTheState ==
  ASSUME OwnHandlers PROVE Spec => []InstalledAsRegistered
<1>1. ASSUME Init  PROVE IInv
  <2>1. InstalledTypes
    BY <1>1, HookAssumption DEF Init, InstalledTypes
  <2>2. ASSUME NEW h \in LuaThreads  PROVE Installed(h)
    <3>1. hook_set[h] = [e \in Events |-> {}] /\ count[h] = LUADEBUG_DEFAULTHOOKCOUNT
      BY <1>1 DEF Init
    <3>2. Mask(hook_set[h]) = {}
      BY <3>1 DEF Mask
    <3>3. installed[h] = [mask |-> {}, count |-> LUADEBUG_DEFAULTHOOKCOUNT]
      BY <1>1 DEF Init
    <3>. QED  BY <3>1, <3>2, <3>3 DEF Installed
  <2>. QED  BY <1>1, <2>1, <2>2 DEF Init, IInv, InstalledAsRegistered
<1>2. IInv => InstalledAsRegistered
  BY DEF IInv
<1>. QED  BY <1>1, <1>2, NextKeepsInstalled, LivingHandlers, PTL DEF Spec
=============================================================================
