---------------------------- MODULE LuaCollector ----------------------------
(***************************************************************************)
(* Lua's garbage collector (src/LuaSrc/lgc.c), which every Lua state that  *)
(* is debugged shares with the C++ objects kept in it.                     *)
(*                                                                         *)
(* The collector marks and sweeps in small steps between the calls of the  *)
(* program.  A white object has not been met, a gray one has and is to be  *)
(* traversed, a black one has been traversed.  A barrier keeps a black     *)
(* object from hiding a white one; threads and weak tables have none, they *)
(* are traversed again in one atomic step at the end.  That step turns the *)
(* meaning of white around, and the sweep frees what has the old white.    *)
(*                                                                         *)
(* g is global_State with what the objects hold.  An address is always an  *)
(* object of the same kind.  A closure has one upvalue: open, it is a      *)
(* variable on a thread's stack, closed, it holds its value itself.        *)
(* Strings, prototypes and metatables are like tables and left out.        *)
(***************************************************************************)
EXTENDS Integers, SequencesExt, FiniteSetsExt

CONSTANTS
  Objects,
  Kind,      \* of each object: "table", "udata", "closure" or "thread"
  Main,      \* the main thread
  Registry,  \* the registry, a strong table
  Nil, NoKey, \* no object; a key that is no object
  Starts,    \* what the program has made to begin with: [entries, mode, stack, open,
             \* upval, allgc, finobj]; mode is of each table: "strong", or what is weak: "k", "v" or "kv"
  SweepMax,  \* GCSWEEPMAX
  MaxCalls   \* bound: the program's calls

VARIABLES g, calls

vars == <<g, calls>>

Free == "free"
ListHead == "head"    \* sweepgc: the list's own field
ThreadObjects == {o \in Objects : Kind[o] = "thread"} \cup {Main}
Closures == {o \in Objects : Kind[o] = "closure"}

Whites == {"white0", "white1"}
Other(w) == CHOOSE v \in Whites : v # w
IsWhite(h, o) == h.color[o] \in Whites
IsDead(h, o) == h.color[o] = Other(h.white)
KeepInvariant(h) == h.state \in {"propagate", "atomic"}
SweepPhase(h) == h.state \in {"swpallgc", "swpfinobj", "swptobefnz", "swpend"}

Entry(k, x) == [key |-> k, val |-> x]
KeysIn(es) == {e.key : e \in es} \ {NoKey}
ValuesIn(es) == {e.val : e \in es}
OpenOf(h, th) == {c \in Closures : h.open[c] = th}

----------------------------------------------------------------------------
(* Marking.                                                                *)

\* reallymarkobject, of white objects: a userdata is black at once and its
\* value is marked; anything else waits to be traversed.
RECURSIVE MarkAll(_, _)
MarkAll(h, os) ==
  LET white == {o \in os \ {Nil} : IsWhite(h, o)}
      udata == {o \in white \ {Main} : Kind[o] = "udata"}
      marked == [o \in DOMAIN h.color |->
                   IF o \in udata THEN "black" ELSE IF o \in white THEN "gray" ELSE h.color[o]] IN
  IF white = {} THEN h
  ELSE MarkAll([h EXCEPT !.color = marked, !.gray = @ \cup (white \ udata)],
               UNION {ValuesIn(h.entries[o]) : o \in udata})

Mark(h, o) == MarkAll(h, {o})

\* iscleared
IsCleared(h, x) == x # NoKey /\ IsWhite(h, x)

TraverseStrong(h, t) == MarkAll(h, KeysIn(h.entries[t]) \cup ValuesIn(h.entries[t]))

\* Weak values: to be traversed again in the atomic step, and there, to be
\* cleared if there is a white value (or an array, which may have one).
TraverseWeakValue(h, t) ==
  LET m == MarkAll(h, KeysIn(h.entries[t])) IN
  IF h.state = "propagate" THEN [m EXCEPT !.grayagain = @ \cup {t}]
  ELSE IF \E e \in m.entries[t] : e.key = NoKey \/ IsCleared(m, e.val) THEN [m EXCEPT !.weak = @ \cup {t}]
  ELSE m

\* Weak keys: a value is marked if its key is.
TraverseEphemeron(h, t) ==
  LET m == MarkAll(h, {e.val : e \in {e \in h.entries[t] : ~IsCleared(h, e.key)}})
      white == {e \in m.entries[t] : IsCleared(m, e.key)} IN
  IF h.state = "propagate" THEN [m EXCEPT !.grayagain = @ \cup {t}]
  ELSE IF \E e \in white : IsWhite(m, e.val) THEN [m EXCEPT !.ephemeron = @ \cup {t}]
  ELSE IF white # {} THEN [m EXCEPT !.allweak = @ \cup {t}]
  ELSE m

\* Weak tables stay gray.
TraverseTable(h, t) ==
  LET grayed == [h EXCEPT !.color[t] = "gray"] IN
  CASE h.mode[t] = "strong" -> TraverseStrong(h, t)
    [] h.mode[t] = "v" -> TraverseWeakValue(grayed, t)
    [] h.mode[t] = "k" -> TraverseEphemeron(grayed, t)
    [] h.mode[t] = "kv" -> [grayed EXCEPT !.allweak = @ \cup {t}]

\* The value of an open upvalue is its thread's to mark, but in the atomic step
\* the thread may not be traversed again.
TraverseClosure(h, c) ==
  IF h.open[c] # Nil /\ h.state # "insideatomic" THEN [h EXCEPT !.touched[c] = TRUE]
  ELSE Mark(h, h.upval[c])

\* A thread stays gray and is traversed again in the atomic step, which also
\* lists it again as one with open upvalues.
TraverseThread(h, th) ==
  LET m == MarkAll([h EXCEPT !.color[th] = "gray", !.grayagain = @ \cup {th}],
                   h.stack[th] \cup ({h.upval[c] : c \in OpenOf(h, th)} \ {Nil})) IN
  IF h.state = "insideatomic" /\ OpenOf(h, th) # {} THEN [m EXCEPT !.twups = @ \cup {th}] ELSE m

\* propagatemark
Propagate(h, o) ==
  LET m == [h EXCEPT !.gray = @ \ {o}, !.color[o] = "black"] IN
  CASE o \in ThreadObjects -> TraverseThread(m, o)
    [] o \in Closures -> TraverseClosure(m, o)
    [] OTHER -> TraverseTable(m, o)

RECURSIVE PropagateAll(_)
PropagateAll(h) == IF h.gray = {} THEN h ELSE PropagateAll(Propagate(h, CHOOSE o \in h.gray : TRUE))

\* convergeephemerons: every ephemeron table is traversed again as long as one
\* of them has marked something.
AgainEphemerons(h) ==
  FoldSet(LAMBDA t, m : PropagateAll(TraverseEphemeron(m, t)), [h EXCEPT !.ephemeron = {}], h.ephemeron)

RECURSIVE Settle(_, _)
Settle(h, next) == IF next.color = h.color THEN next ELSE Settle(next, AgainEphemerons(next))

Converge(h) == Settle(h, AgainEphemerons(h))

\* Mutant: threads that have not been marked just leave the list.
RemarkUpvalsNot(h) == [h EXCEPT !.twups = {th \in @ : h.color[th] = "gray" /\ OpenOf(h, th) # {}}]

\* Values in open upvalues of threads that have not been marked, whose closures
\* may have been.  Such threads leave the list.
RemarkUpvals(h) ==
  LET leave == {th \in h.twups : ~(h.color[th] = "gray" /\ OpenOf(h, th) # {})}
      touched == {c \in Closures : h.open[c] \in leave /\ h.touched[c]} IN
  MarkAll([h EXCEPT !.twups = @ \ leave, !.touched = [c \in Closures |-> @[c] /\ c \notin touched]],
          {h.upval[c] : c \in touched} \ {Nil})

\* restartcollection
Restart(h) ==
  MarkAll([h EXCEPT !.gray = {}, !.grayagain = {}, !.weak = {}, !.allweak = {}, !.ephemeron = {},
                    !.state = "propagate"],
          {Main, Registry} \cup Range(h.tobefnz))

----------------------------------------------------------------------------
(* Barriers.                                                               *)

Barrier(h, o, x) ==
  IF ~(h.color[o] = "black" /\ IsWhite(h, x)) THEN h
  ELSE IF KeepInvariant(h) THEN Mark(h, x)
  ELSE [h EXCEPT !.color[o] = h.white]

BarrierBack(h, t, xs) ==
  IF h.color[t] = "black" /\ \E x \in xs : IsWhite(h, x)
  THEN [h EXCEPT !.color[t] = "gray", !.grayagain = @ \cup {t}]
  ELSE h

UpvalBarrier(h, c) == IF KeepInvariant(h) THEN Mark(h, h.upval[c]) ELSE h

----------------------------------------------------------------------------
(* The atomic step.                                                        *)

\* separatetobefnz
SeparateToBeFnz(h) ==
  [h EXCEPT !.finobj = SelectSeq(@, LAMBDA o : ~IsWhite(h, o)),
            !.tobefnz = @ \o SelectSeq(h.finobj, LAMBDA o : IsWhite(h, o))]

Without(h, ts, Cleared(_)) ==
  [h EXCEPT !.entries = [o \in Objects |-> IF o \in ts THEN {e \in @[o] : ~Cleared(e)} ELSE @[o]]]
ClearKeys(h, ts) == Without(h, ts, LAMBDA e : IsCleared(h, e.key))
ClearValues(h, ts) == Without(h, ts, LAMBDA e : IsCleared(h, e.val))

\* The first half of atomic: what is strongly held is marked.
MarkRest(h) ==
  Converge(PropagateAll([PropagateAll(RemarkUpvals(h)) EXCEPT !.gray = h.grayagain]))

\* Objects to be finalized are marked, and what they hold.
MarkToBeFnz(h) == MarkAll(h, Range(h.tobefnz))
Resurrect(h) == Converge(PropagateAll(MarkToBeFnz(SeparateToBeFnz(h))))

\* Keys are cleared, and the values of weak tables that were not listed in old.
ClearDead(h, old) ==
  ClearValues(ClearKeys(h, h.ephemeron \cup h.allweak), (h.weak \ old.weak) \cup (h.allweak \ old.allweak))

\* The second half.
ClearWeak(h) == ClearDead(Resurrect(ClearValues(h, h.weak \cup h.allweak)), h)

Atomic(h) ==
  LET roots == MarkAll([PropagateAll(h) EXCEPT !.state = "insideatomic"], {Main, Registry}) IN
  [ClearWeak(MarkRest(roots)) EXCEPT !.white = Other(@)]

----------------------------------------------------------------------------
(* Sweeping.                                                               *)

\* luaF_close: every open upvalue of the thread keeps its value itself.
CloseUpvalues(h, th) ==
  FoldSet(LAMBDA c, m : UpvalBarrier([m EXCEPT !.open[c] = Nil], c), h, OpenOf(h, th))

\* freeobj
FreeObj(h, o) ==
  LET closed == IF o \in ThreadObjects THEN [CloseUpvalues(h, o) EXCEPT !.stack[o] = {}] ELSE h IN
  [closed EXCEPT !.color[o] = Free, !.entries[o] = {},
                 !.open = IF o \in Closures THEN [@ EXCEPT ![o] = Nil] ELSE @,
                 !.upval = IF o \in Closures THEN [@ EXCEPT ![o] = Nil] ELSE @]

\* sweeplist, of at most n objects behind p in a list.
RECURSIVE SweepList(_, _, _, _)
SweepList(h, list, p, n) ==
  LET at == IF p = ListHead THEN 0 ELSE CHOOSE i \in DOMAIN h[list] : h[list][i] = p IN
  IF at = Len(h[list]) THEN [h EXCEPT !.sweep = Nil]
  ELSE IF n = 0 THEN [h EXCEPT !.sweep = p]
  ELSE LET o == h[list][at + 1] IN
       IF IsDead(h, o) THEN SweepList(FreeObj([h EXCEPT ![list] = RemoveAt(@, at + 1)], o), list, p, n - 1)
       ELSE SweepList([h EXCEPT !.color[o] = h.white], list, o, n - 1)

\* sweeptolive
RECURSIVE SweepToLive(_, _)
SweepToLive(h, p) ==
  LET m == SweepList(h, "allgc", p, 1) IN IF m.sweep = p THEN SweepToLive(m, p) ELSE m

EnterSweep(h) == SweepList([h EXCEPT !.state = "swpallgc"], "allgc", ListHead, 1)

\* The list that sweepgc points into.
Sweeping(h) ==
  CHOOSE list \in {"allgc", "finobj", "tobefnz"} :
    IF h.sweep = ListHead THEN h.state = "swp" \o list ELSE h.sweep \in Range(h[list])

SweepStep(h, next, start) ==
  LET m == IF h.sweep = Nil THEN h ELSE SweepList(h, Sweeping(h), h.sweep, SweepMax) IN
  IF m.sweep # Nil THEN m ELSE [m EXCEPT !.state = next, !.sweep = start]

----------------------------------------------------------------------------
(* The collector's steps, between any two calls of the program (luaC_step).*)

Now(h) == g' = h /\ UNCHANGED calls

\* singlestep
RestartStep == g.state = "pause" /\ Now(Restart(g))
PropagateStep ==
  /\ g.state = "propagate"
  /\ \E o \in g.gray :
       LET m == Propagate(g, o) IN Now(IF m.gray = {} THEN [m EXCEPT !.state = "atomic"] ELSE m)
AtomicStep == g.state = "atomic" /\ Now(EnterSweep(Atomic(g)))
SweepAll ==
  \/ g.state = "swpallgc" /\ Now(SweepStep(g, "swpfinobj", ListHead))
  \/ g.state = "swpfinobj" /\ Now(SweepStep(g, "swptobefnz", ListHead))
  \/ g.state = "swptobefnz" /\ Now(SweepStep(g, "swpend", Nil))
SweepEnd == g.state = "swpend" /\ Now([g EXCEPT !.color[Main] = g.white, !.state = "callfin"])

\* Finalizers may be left: an emergency collection runs none.
FinishCycle == g.state = "callfin" /\ Now([g EXCEPT !.state = "pause"])

\* GCTM: the first object to be finalized is like any other again, and its
\* finalizer has it.
RunFinalizer ==
  /\ g.state # "pause"
  /\ g.tobefnz # <<>>
  /\ LET o == Head(g.tobefnz) IN
     Now([g EXCEPT !.tobefnz = Tail(@), !.allgc = <<o>> \o @, !.fin = @ \ {o},
                   !.color[o] = IF SweepPhase(g) THEN g.white ELSE @,
                   !.stack[Main] = @ \cup {o}])

\* luaC_fullgc: marking that has begun is given up.  What follows are steps.
FullGC == KeepInvariant(g) /\ Now(EnterSweep(g))

----------------------------------------------------------------------------
(* The program's calls, with what is on the main thread's stack.           *)

Calls(h) == calls < MaxCalls /\ calls' = calls + 1 /\ g' = h
Reached == g.stack[Main] \cup {Registry}
Pushed(h, o) == [h EXCEPT !.stack[Main] = @ \cup {o}]

\* luaC_newobj; a new object is on the stack.
Made(o) == Pushed([g EXCEPT !.color[o] = g.white, !.allgc = <<o>> \o @], o)
New(o) == g.color[o] = Free /\ Kind[o] # "closure" /\ Calls(Made(o))

\* luaF_findupval: a closure made on thread th for the variable x there.
NewClosure(c, th, x) ==
  /\ c \in Closures
  /\ g.color[c] = Free
  /\ th = Main \/ th \in g.stack[Main]
  /\ x \in g.stack[th]
  /\ Calls([Made(c) EXCEPT !.open[c] = th, !.upval[c] = x, !.touched[c] = TRUE, !.twups = @ \cup {th}])

\* Reading: of a table, a userdata's value, an upvalue, or another thread's stack.
Held(o) ==
  CASE o \in Closures -> {g.upval[o]} \ {Nil}
    [] o \in ThreadObjects -> g.stack[o]
    [] OTHER -> (KeysIn(g.entries[o]) \cup ValuesIn(g.entries[o])) \ {Nil}
Get(o, x) == o \in Reached /\ x \in Held(o) \ g.stack[Main] /\ Calls(Pushed(g, x))

Pop(o) == o \in g.stack[Main] /\ Calls([g EXCEPT !.stack[Main] = @ \ {o}])

Put(h, t, e) == [h EXCEPT !.entries[t] = {f \in @ : f.key # e.key} \cup {e}]

SetTable(t, k, x) ==
  /\ t \in Reached /\ Kind[t] = "table"
  /\ {k, x} \subseteq g.stack[Main] \cup {NoKey}
  /\ x # NoKey
  /\ Calls(Put(BarrierBack(g, t, {k, x} \ {NoKey}), t, Entry(k, x)))

RemoveEntry(t, e) ==
  /\ t \in Reached /\ Kind[t] = "table" /\ e \in g.entries[t]
  /\ Calls([g EXCEPT !.entries[t] = @ \ {e}])

SetUserValue(u, x) ==
  /\ {u, x} \subseteq g.stack[Main] /\ Kind[u] = "udata"
  /\ Calls(Put(Barrier(g, u, x), u, Entry(NoKey, x)))

SetUpvalue(c, x) ==
  /\ {c, x} \subseteq g.stack[Main] /\ c \in Closures
  /\ LET h == [g EXCEPT !.upval[c] = x] IN
     Calls(IF g.open[c] = Nil THEN UpvalBarrier(h, c) ELSE h)

\* lua_xmove
MoveTo(th, x) ==
  /\ {th, x} \subseteq g.stack[Main] /\ th \in ThreadObjects
  /\ Calls([g EXCEPT !.stack[th] = @ \cup {x}, !.stack[Main] = @ \ {x}])

\* The function that thread th is in returns.
Return(th) ==
  /\ th \in g.stack[Main] \cap ThreadObjects
  /\ Calls([CloseUpvalues(g, th) EXCEPT !.stack[th] = {}])

\* luaC_checkfinalizer: lua_setmetatable with a metatable that has __gc.  The
\* object goes to another list, and sweepgc must not go with it.
CheckFinalizer(o) ==
  /\ o \in g.stack[Main] /\ Kind[o] \in {"table", "udata"} /\ o \notin g.fin
  /\ LET swept == IF ~SweepPhase(g) THEN g
                  ELSE LET white == [g EXCEPT !.color[o] = g.white] IN
                       IF g.sweep = o THEN SweepToLive(white, o) ELSE white IN
     Calls([swept EXCEPT !.allgc = SelectSeq(@, LAMBDA x : x # o), !.finobj = <<o>> \o @, !.fin = @ \cup {o}])

----------------------------------------------------------------------------

CollectorInit ==
  /\ g \in {[entries |-> s.entries, mode |-> s.mode, stack |-> s.stack, open |-> s.open, upval |-> s.upval,
             allgc |-> s.allgc, finobj |-> s.finobj, tobefnz |-> <<>>, fin |-> Range(s.finobj),
             color |-> [o \in Objects \cup {Main} |->
                          IF o = Main \/ o \in Range(s.allgc) \cup Range(s.finobj) THEN "white0" ELSE Free],
             touched |-> [c \in Closures |-> s.open[c] # Nil],
             twups |-> Range(s.open) \ {Nil},
             state |-> "pause", white |-> "white0", sweep |-> Nil,
             gray |-> {}, grayagain |-> {}, weak |-> {}, allweak |-> {}, ephemeron |-> {}] : s \in Starts}
  /\ calls = 0

CollectorNext ==
  \/ RestartStep \/ PropagateStep \/ AtomicStep \/ SweepAll \/ SweepEnd \/ FinishCycle
  \/ RunFinalizer \/ FullGC
  \/ \E o \in Objects :
       \/ New(o) \/ Pop(o) \/ Return(o) \/ CheckFinalizer(o)
       \/ \E x \in Objects :
            \/ Get(o, x) \/ SetUserValue(o, x) \/ SetUpvalue(o, x) \/ MoveTo(o, x)
            \/ \E k \in Objects \cup {NoKey} : SetTable(o, k, x)
            \/ \E th \in ThreadObjects : NewClosure(o, th, x)
       \/ \E e \in g.entries[o] : RemoveEntry(o, e)

CollectorSpec == CollectorInit /\ [][CollectorNext]_vars

----------------------------------------------------------------------------
(* What the collector promises.                                            *)

\* What the objects of a set hold strongly.
Strong(os) ==
  UNION {CASE o \in Closures -> {g.upval[o]}
           [] o \in ThreadObjects -> g.stack[o] \cup {g.upval[c] : c \in OpenOf(g, o)}
           [] OTHER ->
                IF Kind[o] # "table" \/ g.mode[o] = "strong"
                THEN KeysIn(g.entries[o]) \cup ValuesIn(g.entries[o])
                ELSE CASE g.mode[o] = "v" -> KeysIn(g.entries[o])
                       [] g.mode[o] = "k" -> {e.val : e \in {e \in g.entries[o] : e.key \in os \cup {NoKey}}}
                       [] g.mode[o] = "kv" -> {}
         : o \in os} \ {Nil}

RECURSIVE Closed(_)
Closed(os) == LET more == os \cup Strong(os) IN IF more = os THEN os ELSE Closed(more)

\* What the program can still get at, or the collector must still finalize.
InUse == Closed({Main, Registry} \cup Range(g.tobefnz))

\* However the program and the collector take turns: nothing in use is freed,
\* a table in use has no entry left of anything freed, weak or not, and nothing
\* is freed before it has been finalized.
NothingInUseIsFreed ==
  /\ \A o \in InUse :
       /\ g.color[o] # Free
       /\ o # Main => \A e \in g.entries[o] : g.color[e.val] # Free /\ (e.key = NoKey \/ g.color[e.key] # Free)
  /\ \A o \in g.fin : g.color[o] # Free
=============================================================================
