------------------------------ MODULE LuaTable ------------------------------
(***************************************************************************)
(* A Lua table (src/LuaSrc/ltable.c): an array part and a hash part whose  *)
(* colliding keys are chained through free nodes (Brent's variation).      *)
(*                                                                         *)
(* Globals, locals, the registry of the debugger's data and every table    *)
(* the debugger shows are such tables, and it walks them with lua_next     *)
(* while the paused program's tables may lose entries to the collector.    *)
(*                                                                         *)
(* map is what the table is to contain.                                    *)
(***************************************************************************)
EXTENDS Integers, SequencesExt, FiniteSetsExt

CONSTANTS
  Ints,      \* integer keys
  Strings,   \* string keys
  Hash,      \* their hashes
  Values,
  Nil,
  MaxArray,  \* bound: the length a program asks for
  MaxCalls   \* bound: the calls that change the table

VARIABLES
  table,  \* [array, node, lastfree]
  map,    \* the value of every key
  walk,   \* a traversal: [at, given, due], or Nil
  calls

vars == <<table, map, walk, calls>>

Keys == Ints \cup Strings
NotThere == -1

\* A node: a key, dead if the collector has taken it, a value and the next of
\* its chain.
FreeNode == [key |-> Nil, dead |-> FALSE, val |-> Nil, next |-> NotThere]

CeilLog2(n) == CHOOSE e \in 0 .. n : 2 ^ e >= n /\ (e = 0 \/ 2 ^ (e - 1) < n)

\* setnodevector: an empty hash part is one common node that nobody writes;
\* lastfree then is NotThere.
NodeVector(n) ==
  IF n = 0 THEN [node |-> (0 :> FreeNode), lastfree |-> NotThere]
  ELSE LET size == 2 ^ CeilLog2(n) IN
       [node |-> [i \in 0 .. size - 1 |-> FreeNode], lastfree |-> size]

SizeNode(t) == Cardinality(DOMAIN t.node)
IsDummy(t) == t.lastfree = NotThere
SizeArray(t) == Len(t.array)

MainPosition(t, k) == (IF k \in Strings THEN Hash[k] ELSE k) % SizeNode(t)
ArrayIndex(k) == IF k \in Strings THEN 0 ELSE IF k > 0 THEN k ELSE 0
InArray(t, k) == ArrayIndex(k) \in 1 .. SizeArray(t)

\* The nodes of a chain, from node i on.
Chain(t, i) ==
  LET Rest[n \in 0 .. SizeNode(t), j \in DOMAIN t.node] ==
        IF n = 0 \/ t.node[j].next = NotThere THEN <<j>> ELSE <<j>> \o Rest[n - 1, t.node[j].next] IN
  Rest[SizeNode(t), i]

\* The node of a key, found through its chain; NotThere if it has none.
NodeOf(t, k, wanted(_)) ==
  LET chain == Chain(t, MainPosition(t, k))
      at == SelectInSeq(chain, LAMBDA i : wanted(t.node[i])) IN
  IF at = 0 THEN NotThere ELSE chain[at]

Alive(t, k) == NodeOf(t, k, LAMBDA nd : nd.key = k /\ ~nd.dead)

\* luaH_get
Get(t, k) ==
  IF InArray(t, k) THEN t.array[k]
  ELSE LET i == Alive(t, k) IN IF i = NotThere THEN Nil ELSE t.node[i].val

HasCell(t, k) == InArray(t, k) \/ Alive(t, k) # NotThere

PutCell(t, k, x) ==
  IF InArray(t, k) THEN [t EXCEPT !.array[k] = x] ELSE [t EXCEPT !.node[Alive(t, k)].val = x]

----------------------------------------------------------------------------
(* Growing.                                                                *)

CountIn(keys, i) == Cardinality({k \in keys : ArrayIndex(k) # 0 /\ CeilLog2(k) = i})

\* computesizes: the largest array of which more than half is used.
ComputeSizes(keys) ==
  LET ints == {k \in keys : ArrayIndex(k) # 0}
      Below(size) == {k \in ints : k <= size}
      sizes == {size \in {2 ^ i : i \in 0 .. CeilLog2(2 * Cardinality(ints) + 1)} :
                  /\ Cardinality(ints) > size \div 2
                  /\ CountIn(ints, CeilLog2(size)) > 0
                  /\ Cardinality(Below(size)) > size \div 2} IN
  IF sizes = {} THEN [array |-> 0, used |-> 0]
  ELSE [array |-> Max(sizes), used |-> Cardinality(Below(Max(sizes)))]

\* numusearray and numusehash: the keys with values.
UsedKeys(t) ==
  {i \in 1 .. SizeArray(t) : t.array[i] # Nil}
  \cup {t.node[i].key : i \in {j \in DOMAIN t.node : t.node[j].val # Nil}}

Resized(array, n) ==
  [array |-> array, node |-> NodeVector(n).node, lastfree |-> NodeVector(n).lastfree]

RECURSIVE Insert(_, _, _)

\* luaH_resize: the keys of the vanishing part of the array go to the new
\* nodes, then those of the old nodes, the last one first.
Resize(t, asize, hsize) ==
  LET grown == [i \in 1 .. asize |-> IF i <= SizeArray(t) THEN t.array[i] ELSE Nil]
      old == IF IsDummy(t) THEN 0 ELSE SizeNode(t)
      slice == SubSeq(t.array, asize + 1, SizeArray(t))
      lost == [i \in DOMAIN slice |-> [key |-> asize + i, val |-> slice[i]]]
      kept == [i \in 1 .. old |-> [key |-> t.node[old - i].key, val |-> t.node[old - i].val]] IN
  FoldLeft(LAMBDA r, e : IF e.val = Nil THEN r ELSE Insert(r, e.key, e.val),
           Resized(grown, hsize), lost \o kept)

\* rehash, for a new key k.
Rehash(t, k) ==
  LET keys == UsedKeys(t) \cup {k}
      sizes == ComputeSizes(keys) IN
  Resize(t, sizes.array, Cardinality(keys) - sizes.used)

\* getfreepos: the last free node below lastfree.
GetFreePos(t) ==
  LET free == {i \in DOMAIN t.node : i < t.lastfree /\ t.node[i].key = Nil} IN
  IF free = {} THEN NotThere ELSE Max(free)

WithKey(t, i, k, x) == [t EXCEPT !.node[i] = [@ EXCEPT !.key = k, !.dead = FALSE, !.val = x]]

\* A colliding node out of its main position moves to the free one.
Moved(t, mp, f, othern) ==
  LET chain == Chain(t, othern)
      previous == CHOOSE i \in Range(chain) : t.node[i].next = mp IN
  [t EXCEPT !.node[previous].next = f,
            !.node[f] = t.node[mp],
            !.node[mp] = FreeNode]

\* Mutant: the free node is taken without regard to the colliding node's place.
NewKeyBehind(t, k, x) ==
  LET mp == MainPosition(t, k)
      f == GetFreePos(t) IN
  IF t.node[mp].val = Nil /\ ~IsDummy(t) THEN WithKey(t, mp, k, x)
  ELSE IF f = NotThere THEN Insert(Rehash(t, k), k, x)
  ELSE [WithKey(t, f, k, x) EXCEPT !.lastfree = f, !.node[mp].next = f]

\* luaH_newkey.  A node whose value is nil is free for a key whose main
\* position it is, whatever chain it is in.
NewKey(t, k, x) ==
  LET mp == MainPosition(t, k)
      f == GetFreePos(t)
      othern == MainPosition(t, t.node[mp].key)
      taken == [t EXCEPT !.lastfree = f] IN
  IF t.node[mp].val = Nil /\ ~IsDummy(t) THEN WithKey(t, mp, k, x)
  ELSE IF f = NotThere THEN Insert(Rehash(t, k), k, x)
  ELSE IF othern # mp THEN WithKey(Moved(taken, mp, f, othern), mp, k, x)
  ELSE [WithKey(taken, f, k, x) EXCEPT !.node[f].next = t.node[mp].next, !.node[mp].next = f]

\* luaH_set and luaH_setint
Insert(t, k, x) == IF HasCell(t, k) THEN PutCell(t, k, x) ELSE NewKey(t, k, x)

----------------------------------------------------------------------------
(* Walking and measuring.                                                  *)

\* Mutant: a dead key is no key.
FindIndexAlive(t, k) ==
  IF k = Nil THEN 0
  ELSE IF InArray(t, k) THEN k
  ELSE LET i == Alive(t, k) IN IF i = NotThere THEN NotThere ELSE i + 1 + SizeArray(t)

\* findindex: where the traversal goes on behind key k, NotThere if k is not found.
FindIndex(t, k) ==
  IF k = Nil THEN 0
  ELSE IF InArray(t, k) THEN k
  ELSE LET i == NodeOf(t, k, LAMBDA nd : nd.key = k /\ (nd.dead => k \in Strings)) IN
       IF i = NotThere THEN NotThere ELSE i + 1 + SizeArray(t)

\* luaH_next: the next key with a value, Nil at the end.
NextKey(t, k) ==
  LET from == FindIndex(t, k)
      inArray == {i \in from + 1 .. SizeArray(t) : t.array[i] # Nil}
      inNodes == {i \in DOMAIN t.node : i + SizeArray(t) >= from /\ t.node[i].val # Nil} IN
  IF inArray # {} THEN Min(inArray)
  ELSE IF inNodes # {} THEN t.node[Min(inNodes)].key ELSE Nil

\* A binary search between an index with a value, or 0, and one without.
Between(t, low, high) ==
  LET Search[i \in low .. high, j \in low .. high] ==
        LET m == (i + j) \div 2 IN
        IF j - i <= 1 THEN i
        ELSE IF Get(t, m) = Nil THEN Search[i, m] ELSE Search[m, j] IN
  Search[low, high]

\* unbound_search: the index is doubled until it has no value.
RECURSIVE UnboundSearch(_, _, _)
UnboundSearch(t, i, j) ==
  IF Get(t, j) = Nil THEN Between(t, i, j) ELSE UnboundSearch(t, j, 2 * j)

\* luaH_getn
Getn(t) ==
  LET j == SizeArray(t) IN
  IF j > 0 /\ t.array[j] = Nil THEN Between(t, 0, j)
  ELSE IF IsDummy(t) THEN j ELSE UnboundSearch(t, j, j + 1)

----------------------------------------------------------------------------
(* Calls.                                                                  *)

Calls == calls < MaxCalls /\ calls' = calls + 1

\* A program may not give a table new keys while it walks it; a nil for a key
\* it does not have makes a node like any other value.
SetKey(k, x) ==
  /\ Calls
  /\ walk = Nil \/ map[k] # Nil
  /\ table' = Insert(table, k, x)
  /\ map' = [map EXCEPT ![k] = x]
  /\ walk' = IF walk = Nil \/ x # Nil THEN walk ELSE [walk EXCEPT !.due = @ \ {k}]

\* luaH_resizearray, for a list the program is about to store.
ResizeArray(n) ==
  /\ Calls
  /\ walk = Nil
  /\ n > SizeArray(table)
  /\ table' = Resize(table, n, IF IsDummy(table) THEN 0 ELSE SizeNode(table))
  /\ UNCHANGED <<map, walk>>

\* The collector marks the keys of empty nodes as dead (removeentry).
CollectKeys ==
  LET empty == {i \in DOMAIN table.node : table.node[i].val = Nil
                                          /\ table.node[i].key \in Strings /\ ~table.node[i].dead} IN
  /\ empty # {}
  /\ table' = [table EXCEPT !.node = [i \in DOMAIN @ |-> [@[i] EXCEPT !.dead = @ \/ i \in empty]]]
  /\ UNCHANGED <<map, walk, calls>>

BeginWalk ==
  /\ walk = Nil
  /\ walk' = [at |-> Nil, given |-> <<>>, due |-> {k \in Keys : map[k] # Nil}, found |-> TRUE]
  /\ UNCHANGED <<table, map, calls>>

\* One lua_next; behind the last key the walk is over, and at a key that is not
\* found: "invalid key to 'next'".
WalkOn ==
  /\ walk # Nil
  /\ walk' = IF FindIndex(table, walk.at) = NotThere \/ NextKey(table, walk.at) = Nil THEN Nil
             ELSE LET k == NextKey(table, walk.at) IN
                  [walk EXCEPT !.at = k, !.given = Append(@, k)]
  /\ UNCHANGED <<table, map, calls>>

----------------------------------------------------------------------------

TableInit ==
  /\ table = Resized(<<>>, 0)
  /\ map = [k \in Keys |-> Nil]
  /\ walk = Nil
  /\ calls = 0

TableNext ==
  \/ \E k \in Keys, x \in Values \cup {Nil} : SetKey(k, x)
  \/ \E n \in 1 .. MaxArray : ResizeArray(n)
  \/ CollectKeys \/ BeginWalk \/ WalkOn

TableSpec == TableInit /\ [][TableNext]_vars

----------------------------------------------------------------------------
(* What a table promises.                                                  *)

\* Every key is found with the value last stored, wherever growth, moves of
\* colliding nodes and dead keys have put it, and the length is a border: an
\* index with a value before one without.
TableIsMap ==
  /\ \A k \in Keys : Get(table, k) = map[k]
  /\ LET n == Getn(table)
         Held(i) == Get(table, i) # Nil IN
     /\ n = 0 \/ Held(n)
     /\ ~Held(n + 1)

\* A walk gives no key twice and finds its way on from every key, though the
\* program clears keys and the collector takes them; when it ends it has given
\* every key that had a value all the while.
WalkGivesEachOnce ==
  walk # Nil =>
    /\ FindIndex(table, walk.at) # NotThere
    /\ IsInjective(walk.given)
    /\ NextKey(table, walk.at) = Nil => walk.due \subseteq Range(walk.given)
=============================================================================
