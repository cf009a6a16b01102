------------------------------ MODULE MCParts ------------------------------
(***************************************************************************)
(* The parts of the library that do not wait for each other, checked in    *)
(* one run: a behaviour is one of part's.                                  *)
(***************************************************************************)
EXTENDS LuaCalls, MemoryTracker, StateMetadata, TLC

CONSTANTS
  Functions, MinStack, Many,                   \* of ApiStack
  Nil, Error,
  v1, v2, ka, kb, t1, t2, t3, t4, t5, lf, lg, x,   \* of TableVariants
  s1, s2,                                      \* of LuaTable
  registry, w, co, cl, u1, u2, main, NoKey     \* of LuaCollector

ASSUME StackAssumption == MinStack \in Nat /\ Many \subseteq Nat

VARIABLES
  part,
  fn, todo, stk, bases, marks, room, astray,   \* of ApiStack
  heap, slot, var, calls, cleaned,
  table, map, walk,
  gc,
  given    \* what a part without a state of its own is given

stackVars == <<fn, stk, todo, bases, marks, room, astray>>
variantVars == <<heap, slot, var, calls, cleaned>>
tableVars == <<table, map, walk>>

Idle == "idle"

----------------------------------------------------------------------------
(* The parts.                                                              *)

Of(p, q) == [k \in {ka, kb} |-> IF k = ka THEN p ELSE q]
With(h) == [t \in {t1, t2, t3, t4, t5} |-> IF t \in DOMAIN h THEN h[t] ELSE Nil]

\* Two tables that may hold each other and themselves; and two tables that
\* share a third.
MCHeaps ==
  {With(t1 :> Of(t1, t2) @@ t2 :> Of(q, lg)) : q \in {lf, t1}} \union
  {With(t1 :> Of(t2, t3) @@ t2 :> Of(p, t4) @@ t3 :> Of(x, t4) @@ t4 :> Of(x, Nil)) : p \in {x, t1}}

\* What the functions are does not depend on which of them run, or how often.
Programs == INSTANCE MCApiStack WITH Functions <- {}, Many <- {}
AllFunctions == Programs!AllFunctions
Counts == Programs!Counts
Stack == INSTANCE MCApiStack

Variants == INSTANCE TableVariants WITH
  Vars <- {v1, v2}, Keys <- {ka, kb}, Tables <- {t1, t2, t3, t4, t5}, Functions <- {lf, lg},
  Foreign <- {lg}, Plain <- {x}, Heaps <- MCHeaps, MaxSlot <- 6, MaxCalls <- 3

LuaTables == INSTANCE LuaTable WITH
  Ints <- 1 .. 5, Strings <- {s1, s2}, Hash <- (s1 :> 1 @@ s2 :> 3), Values <- {x},
  MaxArray <- 2, MaxCalls <- 5

\* What a program may have made before the collector starts: a table w with a
\* key and a value of its own; a closure whose open upvalue is on a coroutine
\* that nothing else holds; a key of the registry with a finalizer.
Pair(k, v) == [key |-> k, val |-> v]
Kinds == registry :> "table" @@ w :> "table" @@ co :> "thread" @@ cl :> "closure" @@ u1 :> "udata" @@ u2 :> "udata"
Heap(mode, entries, stack, thread, upvalue, allgc, finobj) ==
  [mode |-> registry :> "strong" @@ w :> mode,
   entries |-> entries @@ [o \in DOMAIN Kinds |-> {}],
   stack |-> main :> stack @@ co :> {}, open |-> cl :> thread, upval |-> cl :> upvalue,
   allgc |-> allgc, finobj |-> finobj]
MCStarts ==
  {Heap(mode, registry :> {Pair(w, w), Pair(NoKey, u1)} @@ w :> {Pair(u1, u2)}, {}, Nil, Nil,
        <<w, u1, u2, registry>>, <<>>) : mode \in {"k", "v"}} \union
  {Heap("k", registry :> {Pair(NoKey, cl)}, {w}, co, u1, <<co, cl, u1, w, registry>>, <<>>),
   Heap("kv", registry :> {Pair(u1, w)}, {}, Nil, Nil, <<w, u2, registry>>, <<u1>>)}

Collector == INSTANCE LuaCollector WITH
  g <- gc, Objects <- DOMAIN Kinds, Kind <- Kinds, Main <- main, Registry <- registry,
  Starts <- MCStarts, SweepMax <- 1, MaxCalls <- 2

\* Letters: "u" is a class of capital letters.
Letters == {"end", "a", "b", "B"}
Patterns == INSTANCE PatternMeaning WITH
  Classes <- [l \in {"u"} |-> {"B"}], UpperOf <- [l \in {"u"} |-> "U"],
  Code <- [c \in Letters |-> CASE c = "end" -> 0 [] c = "B" -> 66 [] c = "a" -> 97 [] c = "b" -> 98],
  MaxCCalls <- 200, MaxCaps <- 32

\* Bytes of two bits, integers of two bytes.
Packs == INSTANCE PackFormat WITH NB <- 2, SZINT <- 2, MaxIntSize <- 4

Chunks == INSTANCE ChunkFormat WITH Null <- Nil, LongMark <- 3

Files == INSTANCE FileInfo

----------------------------------------------------------------------------
(* What the parts without a state are given.                               *)

Singles == {
  Patterns!Single(<<"a">>, {"a"}, <<>>), Patterns!Single(<<"a">>, {"a"}, <<"*">>),
  Patterns!Single(<<"a">>, {"a"}, <<"?">>), Patterns!Single(<<".">>, Letters, <<"-">>),
  Patterns!Single(<<".">>, Letters, <<"+">>),
  Patterns!Single(<<"[", "^", "a", "%", "u", "]">>, {"end", "b"}, <<>>),
  Patterns!Single(<<"[", "]", "a", "-", "b", "]">>, {"a", "b"}, <<"*">>) }

Items == Singles \union {
  Patterns!Open, Patterns!Here, Patterns!Close, Patterns!Again, Patterns!AtEnd,
  Patterns!Balanced("a", "b"), Patterns!Border(<<"[", "a", "]">>, {"a"}) }

\* A text and up to three items; and a capture with up to two items behind it.
PatternGiven ==
  {[src |-> src, items |-> items] :
    src \in UNION {[1 .. n -> {"a", "b"}] : n \in 0 .. 3},
    items \in {l \in UNION {[1 .. n -> Items] : n \in 0 .. 3}
                     \union {<<Patterns!Open, i, Patterns!Close>> \o l : i \in Singles,
                               l \in [1 .. 2 -> {Patterns!Again, Patterns!AtEnd} \union Singles]} :
               Patterns!WellFormed(l)}}

Option(kind, size) == [kind |-> kind, size |-> size]
Options == {Option("int", n) : n \in 1 .. 5} \union {Option("uint", n) : n \in {1, 3}} \union
  {Option("char", 2), Option("string", 1), Option("zstr", 0), Option("pad", 1), Option("X", 0),
   Option("!", 2), Option("!", 4), Option(">", 0)}

ValuesOf(option) ==
  IF option.kind \in {"int", "uint"} THEN {-8, -1, 0, 1, 7} ELSE {<<>>, <<1>>, <<2, 1>>}

PackGiven == {[fmt |-> fmt, args |-> <<>>] : fmt \in UNION {[1 .. n -> Options] : n \in 1 .. 3}}

\* A format is given the values it takes one by one.
Complete == Len(given.args) = Len(Packs!Taking(given.fmt))
GiveValue ==
  /\ ~Complete
  /\ \E n \in ValuesOf(Packs!Taking(given.fmt)[Len(given.args) + 1]) :
       given' = [given EXCEPT !.args = Append(@, n)]

Texts == {<<>>, <<7>>, <<7, 8, 7>>}
Text(t) == <<[type |-> Chunks!TString, value |-> t], [type |-> Chunks!TBoolean, value |-> 1]>>
Constants == {<<>>, <<[type |-> Chunks!TNil, value |-> 0], [type |-> Chunks!TNumInt, value |-> 300]>>}
  \union {Text(t) : t \in Texts}
Function(source, k, name, protos) ==
  [source |-> source, head |-> 9, code |-> <<1, 255>>, k |-> k, protos |-> protos,
   upvalues |-> IF name = Error THEN <<>> ELSE <<[instack |-> 1, idx |-> 2, name |-> name]>>,
   lineinfo |-> IF name = Error THEN <<>> ELSE <<4, 4>>,
   locvars |-> IF name \in {Nil, Error} THEN <<>> ELSE <<[name |-> name, startpc |-> 0, endpc |-> 3]>>]
Names == Texts \union {Nil, Error}

\* Functions with up to two functions inside, which may come from another file.
ChunkGiven ==
  UNION {
    LET inner == {Function(f, k, n, <<>>) : f \in {source, <<9>>}, k \in {<<>>, Text(<<7>>)}, n \in {<<7>>, Error}} IN
    {[function |-> Function(source, k, n, p), strip |-> strip] :
      k \in Constants, n \in Names, strip \in BOOLEAN,
      p \in {<<>>} \union {<<h>> : h \in inner} \union {<<h, Function(source, <<>>, Nil, <<h>>)>> : h \in inner}}
    : source \in {<<7>>, <<7, 8, 7>>}}

LongestFile == 7
OpenLines == Files!Around(given, Len(given))
GiveLine ==
  /\ Len(given) + Len(OpenLines) < LongestFile
  /\ \E kind \in {"code", "blank"} \union Files!Opens
                  \union (IF OpenLines = <<>> THEN {} ELSE {"end"}) :
       /\ kind \in Files!Opens => Len(given) + Len(OpenLines) + 1 < LongestFile
       /\ given' = Append(given, kind)

----------------------------------------------------------------------------

StackIdle ==
  /\ fn = Idle /\ stk = <<>> /\ todo = <<>> /\ bases = <<>> /\ marks = <<>>
  /\ room = 0 /\ astray = FALSE
VariantsIdle == heap = Idle /\ slot = Idle /\ var = Idle /\ cleaned = Idle
TablesIdle == table = Idle /\ map = Idle /\ walk = Idle
CollectorIdle == gc = Idle

PartsInit ==
  \/ /\ part = "stack" /\ Stack!Init
     /\ VariantsIdle /\ TablesIdle /\ MemoryInit /\ CollectorIdle /\ CallsInit /\ MetadataInit /\ calls = 0 /\ given = Idle
  \/ /\ part = "variants" /\ Variants!TableInit
     /\ StackIdle /\ TablesIdle /\ MemoryInit /\ CollectorIdle /\ CallsInit /\ MetadataInit /\ given = Idle
  \/ /\ part = "tables" /\ LuaTables!TableInit
     /\ StackIdle /\ VariantsIdle /\ MemoryInit /\ CollectorIdle /\ CallsInit /\ MetadataInit /\ given = Idle
  \/ /\ part = "memory" /\ MemoryInit
     /\ StackIdle /\ VariantsIdle /\ TablesIdle /\ CollectorIdle /\ CallsInit /\ MetadataInit /\ calls = 0 /\ given = Idle
  \/ /\ part = "collector" /\ Collector!CollectorInit
     /\ StackIdle /\ VariantsIdle /\ TablesIdle /\ MemoryInit /\ CallsInit /\ MetadataInit /\ given = Idle
  \/ /\ part = "calls" /\ CallsInit
     /\ StackIdle /\ VariantsIdle /\ TablesIdle /\ MemoryInit /\ CollectorIdle /\ MetadataInit /\ calls = 0 /\ given = Idle
  \/ /\ part = "metadata" /\ MetadataInit
     /\ StackIdle /\ VariantsIdle /\ TablesIdle /\ MemoryInit /\ CollectorIdle /\ CallsInit /\ calls = 0 /\ given = Idle
  \/ /\ \/ part = "patterns" /\ given \in PatternGiven
        \/ part = "packs" /\ given \in PackGiven
        \/ part = "chunks" /\ given \in ChunkGiven
        \/ part = "files" /\ given = <<>>
     /\ StackIdle /\ VariantsIdle /\ TablesIdle /\ MemoryInit /\ CollectorIdle /\ CallsInit /\ MetadataInit /\ calls = 0

PartsNext ==
  /\ UNCHANGED part
  /\ \/ /\ part = "stack" /\ Stack!Step
        /\ UNCHANGED <<variantVars, tableVars, trackerVars, gc, s, metadataVars, given>>
     \/ /\ part = "variants" /\ Variants!TableNext
        /\ UNCHANGED <<stackVars, tableVars, trackerVars, gc, s, metadataVars, given>>
     \/ /\ part = "tables" /\ LuaTables!TableNext
        /\ UNCHANGED <<stackVars, heap, slot, var, cleaned, trackerVars, gc, s, metadataVars, given>>
     \/ /\ part = "memory" /\ MemoryNext
        /\ UNCHANGED <<stackVars, variantVars, tableVars, gc, s, metadataVars, given>>
     \/ /\ part = "collector" /\ Collector!CollectorNext
        /\ UNCHANGED <<stackVars, heap, slot, var, cleaned, tableVars, trackerVars, s, metadataVars, given>>
     \/ /\ part = "calls" /\ CallsNext
        /\ UNCHANGED <<stackVars, variantVars, tableVars, trackerVars, gc, metadataVars, given>>
     \/ /\ part = "metadata" /\ MetadataNext
        /\ UNCHANGED <<stackVars, variantVars, tableVars, trackerVars, gc, s, given>>
     \/ /\ (part = "packs" /\ GiveValue) \/ (part = "files" /\ GiveLine)
        /\ UNCHANGED <<stackVars, variantVars, tableVars, trackerVars, gc, s, metadataVars>>

PartsSpec == PartsInit /\ [][PartsNext]_<<part, stackVars, variantVars, tableVars, trackerVars, gc, s, metadataVars, given>>

----------------------------------------------------------------------------
(* The properties, each of its part; the modules say what they mean.       *)

\* Functions over the stack of Lua (ApiStack) leave it as their comments say,
\* find what they look for where they look, and keep to the room they have; the
\* exceptions in the code are named in MCApiStack (Unexpected, Misled, Greedy).
StackBalanced == part = "stack" => Stack!Balanced
StackIndexesHit == part = "stack" => Stack!IndexesHitByMost /\ Stack!RoomKeptByMost

\* A table inside a C++ copy belongs to that copy alone (luavariant.cpp).
OwnedOnce == part = "variants" => Variants!OwnedOnce

\* A recursive copy says what the table says (luavariant.cpp, as_copy).
CopyTellsTheTable == Variants!CopyTellsTheTable

\* A Lua table is the map it is to be, and its length a border (ltable.c).
TableIsMap == part = "tables" => LuaTables!TableIsMap

\* A walk with lua_next gives every key once (ltable.c).
WalkGivesEachOnce == part = "tables" => LuaTables!WalkGivesEachOnce

\* A pattern finds its preferred match, a failed try leaves no trace, and gsub
\* and gmatch divide the subject in the same way (lstrlib.c).
FindsPreferred ==
  part = "patterns" => /\ Patterns!FindsPreferred(given.src, given.items)
                       /\ Patterns!FailureUndone(given.src, given.items)
                       /\ Patterns!MatchesPartition(given.src, given.items)

\* What is packed is unpacked, and what would be lost is refused (lstrlib.c).
PackKeepsValues ==
  part = "packs" =>
    /\ Complete => Packs!RoundTrip(given.fmt, given.args)
    /\ Len(given.fmt) = 1 /\ given.fmt[1].kind \in {"int", "uint"} =>
         \A n \in -8 .. 7 : Packs!RefusesWhatIsLost(given.fmt[1], n)

\* A dumped function is loaded as it was, and no part of one is (ldump.c, lundump.c).
ChunkKeepsFunction == part = "chunks" => Chunks!ChunkKeepsFunction(given.function, given.strip)

\* The collector frees nothing in use (lgc.c).
NothingInUseIsFreed == part = "collector" => Collector!NothingInUseIsFreed

\* A breakpoint may be set where there is code (luadebug_file_info.cpp).
BreakpointsWhereCodeIs == part = "files" => Files!BreakpointsWhereCodeIs(given)
=============================================================================
