--------------------------- MODULE TableVariants ---------------------------
(***************************************************************************)
(* table_var and function_var (src/Src/luavariant.cpp): what C++ holds of  *)
(* Lua's tables and functions.                                             *)
(*                                                                         *)
(* A variant is a reference, which reads and writes Lua's own table, or a  *)
(* copy, a C++ map of its own whose values are variants again.  A table    *)
(* inside a copy is kept by a shared pointer: get_value hands out that     *)
(* pointer (table_var_ref), set_value stores a deep copy.  as_copy turns a *)
(* reference into a copy, and with its values if it is recursive; Lua's    *)
(* tables may share values and contain themselves, so every table that has *)
(* been copied is remembered and met again is left out.                    *)
(*                                                                         *)
(* The variants live in slots; a slot that no variable and no other slot   *)
(* leads to is freed (shared_ptr).                                         *)
(***************************************************************************)
EXTENDS Integers, FiniteSetsExt

CONSTANTS
  Vars,       \* the client's variables
  Keys,       \* the keys used
  Tables,     \* Lua's tables
  Functions,  \* Lua's functions
  Foreign,    \* those of Functions that are C functions no function_var has made
  Plain,      \* values that are neither
  Nil,
  Heaps,      \* the tables' contents to begin with
  MaxSlot,    \* bound: the slots
  MaxCalls    \* bound: the calls a client makes

VARIABLES
  heap,    \* what Lua's tables contain; Nil for a table not made yet
  slot,    \* what each slot holds: a variant, or Free
  var,     \* the slot each variable holds, 0 if none
  calls,   \* how many calls there have been
  cleaned  \* the variable whose references the last call has removed, or Nil

vars == <<heap, slot, var, calls, cleaned>>

Slots == 1 .. MaxSlot
Free == [kind |-> "free"]
Empty == [k \in Keys |-> Nil]
Has(data) == {k \in Keys : data[k] # Nil}

\* A table variant: ref is the table it refers to, or Nil; data and keys are
\* _table_data and _keys_buffer.
Reference(t, h) == [kind |-> "table", ref |-> t, data |-> Empty, keys |-> Has(h[t])]
Copied(data) == [kind |-> "table", ref |-> Nil, data |-> data, keys |-> Has(data)]

\* A function variant: of is the function it refers to or is the copy of.
Function(f) == [kind |-> "function", ref |-> TRUE, of |-> f]

Fresh(s) == CHOOSE n \in Slots : s[n] = Free
Room(s) == \E n \in Slots : s[n] = Free

\* The slots inside slot n: the values of a copy that are variants.
Inside(s, n) ==
  IF s[n].kind = "table" THEN {s[n].data[k] : k \in Keys} \cap Slots ELSE {}

RECURSIVE Reach(_, _)
Reach(s, ns) == LET more == ns \cup UNION {Inside(s, n) : n \in ns} IN
                IF more = ns THEN ns ELSE Reach(s, more)

Kept(s, v) == LET held == Reach(s, {v[x] : x \in Vars} \ {0}) IN
              [n \in Slots |-> IF n \in held THEN s[n] ELSE Free]

----------------------------------------------------------------------------
(* Making variants.  A result [s, n] is the slots afterwards and the slot  *)
(* of the new value; n is 0 if the bound on slots is met.                  *)

Put(s, value) == IF Room(s) THEN [s |-> [s EXCEPT ![Fresh(s)] = value], n |-> Fresh(s)]
                            ELSE [s |-> s, n |-> 0]

\* _set_value_direct: the copy in slot n gets a value.
Stored(s, n, k, x) == [s EXCEPT ![n] = Copied([@.data EXCEPT ![k] = x])]

\* to_variant: what a value of Lua becomes in C++.
FromLua(s, h, x) ==
  IF x \in Tables THEN Put(s, Reference(x, h))
  ELSE IF x \in Functions THEN Put(s, Function(x))
  ELSE [s |-> s, n |-> x]

\* _copy_from_var: another variable of the same reference, or a copy of all
\* that the copy in slot n holds, key by key.
RECURSIVE CreateCopy(_, _, _)
CopyFromVar(s, h, n) ==
  IF s[n].ref # Nil THEN Put(s, Reference(s[n].ref, h))
  ELSE FoldSet(LAMBDA k, r :
           LET inner == CreateCopy(r.s, h, s[n].data[k]) IN
           IF r.n = 0 \/ inner.n = 0 THEN [s |-> s, n |-> 0]
           ELSE [s |-> Stored(inner.s, r.n, k, inner.n), n |-> r.n],
         Put(s, Copied(Empty)), s[n].keys)

CopyFunction(s, n) == Put(s, s[n])

\* cpplua_create_var_copy
CreateCopy(s, h, n) ==
  IF n \notin Slots THEN [s |-> s, n |-> n]
  ELSE IF s[n].kind = "function" THEN CopyFunction(s, n)
  ELSE CopyFromVar(s, h, n)

\* _fs_iter_cb: slot n gets a copy's value for what Lua has under k, unless it
\* is a table that has been copied.
IterCopy(r, h, n, k, x) ==
  LET inner == FromLua(r.s, h, x) IN
  IF x \in r.seen THEN r
  ELSE [r EXCEPT !.s = Stored(inner.s, n, k, inner.n), !.fits = @ /\ inner.n # 0]

\* _from_state_copy: slot n becomes a copy of what table t holds: plain values,
\* and references to its functions and to its tables.
FromStateCopy(at, h, n, t) ==
  FoldSet(LAMBDA k, r : IterCopy(r, h, n, k, h[t][k]),
          [s |-> [at.s EXCEPT ![n] = Copied(Empty)], seen |-> at.seen \cup {t}, fits |-> at.fits],
          Has(h[t]))

\* A C function that no function_var has made cannot be copied: nothing is
\* left of it (from_state_copy returns early).
FunctionAsCopy(value) ==
  [value EXCEPT !.ref = FALSE, !.of = IF value.ref /\ value.of \in Foreign THEN Nil ELSE @]

\* Mutant: the copy stops at the first level.
CopyInFlat(at, h, n, recursive) ==
  IF at.s[n].kind = "function" \/ at.s[n].ref = Nil THEN at
  ELSE FromStateCopy(at, h, n, at.s[n].ref)

\* _as_copy, depth first: at.s is what has become of the slots and at.seen the
\* tables that have been copied.
RECURSIVE CopyIn(_, _, _, _)
CopyIn(at, h, n, recursive) ==
  IF at.s[n].kind = "function" THEN [at EXCEPT !.s[n] = FunctionAsCopy(@)]
  ELSE
    LET own == IF at.s[n].ref = Nil THEN at ELSE FromStateCopy(at, h, n, at.s[n].ref)
        inner == IF recursive THEN Has(own.s[n].data) ELSE {} IN
    FoldSet(LAMBDA k, r :
        IF own.s[n].data[k] \in Slots THEN CopyIn(r, h, own.s[n].data[k], TRUE) ELSE r,
      own, inner)

AsCopy(s, n, recursive) == CopyIn([s |-> s, seen |-> {}, fits |-> TRUE], heap, n, recursive)

----------------------------------------------------------------------------
(* push_to_stack: the value that Lua gets.  A copy becomes a new table.    *)

FunctionPushed(h, value) == [h |-> h, x |-> value.of]

RECURSIVE Pushed(_, _, _)
Pushed(s, h, n) ==
  IF n \notin Slots THEN [h |-> h, x |-> n]
  ELSE IF s[n].kind = "function" THEN FunctionPushed(h, s[n])
  ELSE IF s[n].ref # Nil THEN [h |-> h, x |-> s[n].ref]
  ELSE LET t == CHOOSE t \in Tables : h[t] = Nil IN
       FoldSet(LAMBDA k, r :
           LET inner == Pushed(s, r.h, s[n].data[k]) IN
           [h |-> [inner.h EXCEPT ![t] = [@ EXCEPT ![k] = inner.x]], x |-> t],
         [h |-> [h EXCEPT ![t] = Empty], x |-> t], Has(s[n].data))

\* The tables a push makes.
Needs(s, n) == Cardinality({m \in Reach(s, {n} \cap Slots) : s[m].kind = "table" /\ s[m].ref = Nil})
CanPush(n) == Needs(slot, n) <= Cardinality({t \in Tables : heap[t] = Nil})

----------------------------------------------------------------------------
(* A client's calls.                                                       *)

Calls(removed) ==
  /\ calls < MaxCalls
  /\ calls' = calls + 1
  /\ cleaned' = removed

Now(s, v) == var' = v /\ slot' = Kept(s, v)

\* The variant that a call of v's is about, whether v is it or refers to the
\* one in a copy (table_var_ref, function_var_ref).
Holds(v, kind) == {n \in {var[v]} \ {0} : slot[n].kind = kind}
Table(v) == Holds(v, "table")
FunctionOf(v) == Holds(v, "function")

\* What v holds becomes the value: its own slot changes, which others may
\* share, or it gets one.
Takes(v, value) ==
  IF var[v] # 0 THEN Now([slot EXCEPT ![var[v]] = value], var)
  ELSE LET made == Put(slot, value) IN made.n # 0 /\ Now(made.s, [var EXCEPT ![v] = made.n])

NewTable(v) ==
  /\ Calls(Nil)
  /\ var[v] = 0
  /\ Takes(v, Copied(Empty))
  /\ UNCHANGED heap

FromState(v, t) ==
  /\ Calls(Nil)
  /\ var[v] = 0 \/ Table(v) # {}
  /\ heap[t] # Nil
  /\ Takes(v, Reference(t, heap))
  /\ UNCHANGED heap

\* The destructor of the variable's variant.
Drop(v) ==
  /\ Calls(Nil)
  /\ var[v] # 0
  /\ Now(slot, [var EXCEPT ![v] = 0])
  /\ UNCHANGED heap

DoAsCopy(v, recursive) ==
  /\ Calls(Nil)
  /\ \E n \in Table(v) :
       LET made == AsCopy(slot, n, recursive) IN made.fits /\ Now(made.s, var)
  /\ UNCHANGED heap

FunctionDoAsCopy(v) ==
  /\ Calls(Nil)
  /\ \E n \in FunctionOf(v) : Now([slot EXCEPT ![n] = FunctionAsCopy(@)], var)
  /\ UNCHANGED heap

\* _get_value: a value that is a variant is shared with the copy.
GetCopyValue(n, k) == [s |-> slot, n |-> slot[n].data[k]]

\* _get_value_by_interface: a new reference to what Lua's table holds.
GetLuaValue(n, k) == FromLua(slot, heap, heap[slot[n].ref][k])

GetValue(v, k, w) ==
  /\ Calls(Nil)
  /\ w # v /\ var[w] = 0
  /\ \E n \in Table(v) :
       LET got == IF slot[n].ref = Nil THEN GetCopyValue(n, k) ELSE GetLuaValue(n, k) IN
       /\ got.n \in Slots
       /\ Now(got.s, [var EXCEPT ![w] = got.n])
  /\ UNCHANGED heap

\* A copy's keys are read again after each change, a reference's after each
\* but a renaming.
LuaStores(h, n, k, x) == [h EXCEPT ![slot[n].ref] = [@ EXCEPT ![k] = x]]
Refreshed(n) == Now([slot EXCEPT ![n] = Reference(@.ref, heap')], var)

\* Mutant: the table that is set is shared.
SetSharedValue(v, k, x) ==
  /\ Calls(Nil)
  /\ \E n \in Table(v) : slot[n].ref = Nil /\ Now(Stored(slot, n, k, x), var)
  /\ UNCHANGED heap

SetCopyValue(n, k, x) ==
  /\ slot[n].ref = Nil
  /\ LET made == CreateCopy(slot, heap, x) IN
     /\ made.n # 0
     /\ Now(Stored(made.s, n, k, made.n), var)
  /\ UNCHANGED heap

SetLuaValue(n, k, x) ==
  /\ slot[n].ref # Nil
  /\ CanPush(x)
  /\ LET given == Pushed(slot, heap, x) IN heap' = LuaStores(given.h, n, k, given.x)
  /\ Refreshed(n)

SetValue(v, k, x) ==
  /\ Calls(Nil)
  /\ \E n \in Table(v) : SetCopyValue(n, k, x) \/ SetLuaValue(n, k, x)

RemoveCopyValue(n, k) ==
  /\ slot[n].ref = Nil
  /\ Now(Stored(slot, n, k, Nil), var)
  /\ UNCHANGED heap

RemoveLuaValue(n, k) ==
  /\ slot[n].ref # Nil
  /\ heap' = LuaStores(heap, n, k, Nil)
  /\ Refreshed(n)

RemoveValue(v, k) ==
  /\ Calls(Nil)
  /\ \E n \in Table(v) : RemoveCopyValue(n, k) \/ RemoveLuaValue(n, k)

\* Its first line returns when there is data.
RenameCopyValue(n, k, to) == slot[n].ref = Nil /\ UNCHANGED heap

RenameLuaValue(n, k, to) ==
  /\ slot[n].ref # Nil
  /\ heap' = LuaStores(LuaStores(heap, n, k, Nil), n, to, heap[slot[n].ref][k])

RenameValue(v, k, to) ==
  /\ Calls(Nil)
  /\ \E n \in Table(v) : RenameCopyValue(n, k, to) \/ RenameLuaValue(n, k, to)
  /\ UNCHANGED <<slot, var>>

ClearCopy(n) ==
  /\ slot[n].ref = Nil
  /\ Now([slot EXCEPT ![n] = Copied(Empty)], var)
  /\ UNCHANGED heap

ClearLuaTable(n) ==
  /\ slot[n].ref # Nil
  /\ heap' = [heap EXCEPT ![slot[n].ref] = Empty]
  /\ Refreshed(n)

ClearTable(v) ==
  /\ Calls(Nil)
  /\ \E n \in Table(v) : ClearCopy(n) \/ ClearLuaTable(n)

\* Its guard asks for a reference that has a copy's data: there is none.
RemoveReferenceValues(v) ==
  /\ Calls(v)
  /\ Table(v) # {}
  /\ UNCHANGED <<heap, slot, var>>

\* The Lua program stores a value.
LuaSets(t, k, x) ==
  /\ Calls(Nil)
  /\ heap[t] # Nil
  /\ heap' = [heap EXCEPT ![t] = [@ EXCEPT ![k] = x]]
  /\ UNCHANGED <<slot, var>>

----------------------------------------------------------------------------

TableInit ==
  /\ heap \in Heaps
  /\ slot = [n \in Slots |-> Free]
  /\ var = [v \in Vars |-> 0]
  /\ calls = 0
  /\ cleaned = Nil

TableNext ==
  \/ \E v \in Vars :
       \/ NewTable(v) \/ Drop(v) \/ ClearTable(v) \/ RemoveReferenceValues(v) \/ FunctionDoAsCopy(v)
       \/ \E t \in Tables : FromState(v, t)
       \/ \E r \in BOOLEAN : DoAsCopy(v, r)
       \/ \E k \in Keys :
            \/ RemoveValue(v, k)
            \/ \E w \in Vars : GetValue(v, k, w)
            \/ \E x \in Plain \cup ({var[w] : w \in Vars} \ {0}) : SetValue(v, k, x)
            \/ \E to \in Keys : RenameValue(v, k, to)
  \/ \E t \in Tables, k \in Keys, x \in Plain \cup {Nil} : LuaSets(t, k, x)

TableSpec == TableInit /\ [][TableNext]_vars

----------------------------------------------------------------------------
(* What the variants promise.                                              *)

\* Whether the copy in slot n says of table t only what t says, down to its
\* leaves, and, if whole, all of it.
RECURSIVE Tells(_, _, _, _, _)
Tells(s, h, n, t, whole) ==
  /\ s[n].ref = Nil
  /\ \A k \in Keys :
       LET mine == s[n].data[k]
           lua == h[t][k] IN
       \/ mine = Nil /\ (whole => lua = Nil)
       \/ mine \in Plain /\ mine = lua
       \/ /\ mine \in Slots /\ lua \in Functions
          /\ s[mine] = FunctionAsCopy(Function(lua))
       \/ /\ mine \in Slots /\ lua \in Tables
          /\ s[mine].kind = "table" /\ Tells(s, h, mine, lua, whole)

Under(h, t) == {h[t][k] : k \in Keys} \cap Tables

RECURSIVE Below(_, _)
Below(h, ts) == LET more == ts \cup UNION {Under(h, t) : t \in ts} IN
                IF more = ts THEN ts ELSE Below(h, more)

\* No table below t is reached in two ways.
IsTree(h, t) ==
  /\ \A x \in Below(h, {t}) : t \notin Under(h, x)
  /\ \A x \in Below(h, {t}) \ {t} :
       Cardinality({<<y, k>> \in Below(h, {t}) \X Keys : h[y][k] = x}) = 1

\* A recursive copy of a table refers to nothing of Lua, says nothing that the
\* table does not say, and says all of it if no table is met twice, whatever
\* cycles the table has.
CopyTellsTheTable ==
  [][\A v \in Vars : DoAsCopy(v, TRUE) =>
       \A n \in Table(v) : slot[n].ref # Nil =>
         Tells(slot', heap, n, slot[n].ref, IsTree(heap, slot[n].ref))]_vars

\* A table in a copy belongs to that copy alone: what a client sets is copied,
\* so that no later change of one copy shows in another, and no copy contains
\* itself.
OwnedOnce ==
  /\ \A n \in Slots :
       Cardinality({<<m, k>> \in Slots \X Keys : slot[m].kind = "table" /\ slot[m].data[k] = n}) <= 1
  /\ \A n \in Slots : n \notin Reach(slot, Inside(slot, n))

\* What luavariant.h says of remove_reference_values: "Also removes any
\* non-primitive values".
ReferencesRemoved ==
  \A v \in Vars : cleaned = v =>
    \A n \in Inside(slot, var[v]) :
      IF slot[n].kind = "table" THEN slot[n].ref = Nil ELSE ~slot[n].ref
=============================================================================
