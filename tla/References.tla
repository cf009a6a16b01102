------------------------------ MODULE References ------------------------------
(***************************************************************************)
(* value_ref (luavalue_ref.cpp) as table_var, function_var and object_var  *)
(* (luavariant.cpp) use it: how a C++ variant keeps a Lua value alive.     *)
(*                                                                         *)
(* A table in Lua's internal storage has an entry per referenced value:    *)
(* the value itself and the number of variants that refer to it.  The key  *)
(* of an entry is made of the low 32 bits of an address.  Every access to  *)
(* an entry is an API call of its own; counting takes several.             *)
(***************************************************************************)
EXTENDS Integers, FiniteSets

CONSTANTS
  Variants,   \* C++ variants that refer to something
  Values,     \* Lua values, named by their addresses
  Things,     \* what a variant can point to: a Lua value or a C++ object
  Keys, KeyOf,  \* keys of entries; the key of a thing
  MaxRaced,   \* bound on the calls from the first that overlaps another
  Nothing

ASSUME ReferencesAssumption ==
  /\ IsFiniteSet(Variants)
  /\ KeyOf \in [Things -> Keys] /\ Values \subseteq Things
  /\ MaxRaced \in Nat
  /\ Nothing \notin Things /\ Nothing \notin [value : Values, count : Int]

VARIABLES
  entry,  \* key -> the entry [value, count] in the storage, or Nothing
  shows,  \* variant -> what it points to (_table_pointer, _obj), or Nothing
  init,   \* variant -> _reference_initiated
  pc,     \* variant -> where the call on it is; "idle" between calls
  arg,    \* variant -> the value on the Lua stack that it is to keep
  count,  \* variant -> the count it has read; Lost if its entry has gone since
  lua,    \* the values Lua code reaches
  live,   \* the values that are not collected
  raced   \* history: calls since calls on two variants first overlapped (two threads)

refs == <<entry, shows, init, pc, arg, count>>
values == <<lua, live>>
vars == <<refs, values, raced>>

Lost == -1
Places == {"idle", "has", "set", "create", "inc", "incd", "setInc", "setIncd", "replace",
           "push", "pushInc", "pushIncd", "count", "dec", "decd", "delete", "error"}

\* Types of all variables.
TypeOK ==
  /\ entry \in [Keys -> [value : Values, count : Int] \cup {Nothing}]
  /\ shows \in [Variants -> Things \cup {Nothing}]
  /\ init \in [Variants -> BOOLEAN]
  /\ pc \in [Variants -> Places]
  /\ arg \in [Variants -> Values \cup {Nothing}]
  /\ count \in [Variants -> Int]
  /\ lua \subseteq live /\ live \subseteq Values
  /\ raced \in 0..MaxRaced

Init ==
  /\ entry = [k \in Keys |-> Nothing]
  /\ shows = [v \in Variants |-> Nothing]
  /\ init = [v \in Variants |-> FALSE]
  /\ pc = [v \in Variants |-> "idle"]
  /\ arg = [v \in Variants |-> Nothing]
  /\ count = [v \in Variants |-> 0]
  /\ lua = {} /\ live = {}
  /\ raced = 0

\* _get_reference_key, and the lines of from_state that make the same key.
Key(v) == KeyOf[shows[v]]
Entry(v) == entry[Key(v)]
Has(v) == Entry(v) # Nothing
Go(v, there) == pc' = [pc EXCEPT ![v] = there]
At(v, place) == pc[v] = place

-----------------------------------------------------------------------------
(* Calls on variants                                                        *)

Quiet == \A v \in Variants : At(v, "idle")
Begin(v) ==
  /\ At(v, "idle")
  /\ raced < MaxRaced
  /\ raced' = IF raced > 0 \/ ~Quiet THEN raced + 1 ELSE 0

\* A new value_ref; x is what it is to keep if there is no entry.
NewRef(v, thing, x) ==
  /\ shows' = [shows EXCEPT ![v] = thing]
  /\ arg' = [arg EXCEPT ![v] = x]
  /\ Go(v, "has")
  /\ UNCHANGED <<entry, init, count>>

\* table_var::from_state, function_var::from_state: x is on the Lua stack.
FromState(v, x) ==
  /\ Begin(v) /\ shows[v] = Nothing
  /\ x \in lua
  /\ NewRef(v, x, x)
  /\ UNCHANGED values

\* _copy_from_var assumes that there is an entry.
Copy(v, w) ==
  /\ Begin(v) /\ shows[v] = Nothing
  /\ At(w, "idle") /\ shows[w] # Nothing
  /\ NewRef(v, shows[w], Nothing)
  /\ UNCHANGED values

\* push_to_stack, and _clear_table or a destructor.
Use(v, place) ==
  /\ Begin(v) /\ shows[v] # Nothing
  /\ place \in {"push", "count"}
  /\ Go(v, place)
  /\ UNCHANGED <<entry, shows, init, arg, count, values>>

-----------------------------------------------------------------------------
(* What they do, one step per access to the storage                         *)

\* The end of a call: the Lua stack is as it was.
Return(v) == Go(v, "idle") /\ arg' = [arg EXCEPT ![v] = Nothing]

\* _initiate_class: update_reference, which needs has_reference.
HasReference(v) ==
  /\ At(v, "has")
  /\ \/ Has(v) /\ Go(v, "inc") /\ arg' = arg
     \/ ~Has(v) /\ arg[v] = Nothing /\ Return(v)
     \/ ~Has(v) /\ arg[v] # Nothing /\ Go(v, "set") /\ arg' = arg
  /\ UNCHANGED <<entry, shows, init, count, values, raced>>

\* set_value: the entry may have come since.
SetValue(v) ==
  /\ At(v, "set")
  /\ Go(v, IF Has(v) THEN "setInc" ELSE "create")
  /\ UNCHANGED <<entry, shows, init, arg, count, values, raced>>

\* Writers of an entry that goes or is replaced write to a table nobody sees.
Detached(k) == [w \in Variants |->
  IF pc[w] \in {"incd", "setIncd", "pushIncd", "decd"} /\ Key(w) = k THEN Lost ELSE count[w]]

\* _create_metadata
CreateMetadata(v) ==
  /\ At(v, "create")
  /\ entry' = [entry EXCEPT ![Key(v)] = [value |-> arg[v], count |-> 1]]
  /\ count' = Detached(Key(v))
  /\ init' = [init EXCEPT ![v] = TRUE]
  /\ Return(v)
  /\ UNCHANGED <<shows, values, raced>>

\* _increment_reference reads the count, of an entry that may have gone ...
ReadCount(v) ==
  /\ pc[v] \in {"inc", "setInc", "pushInc", "dec"}
  /\ \/ /\ Has(v)
        /\ count' = [count EXCEPT ![v] = Entry(v).count]
        /\ Go(v, CASE At(v, "inc") -> "incd" [] At(v, "setInc") -> "setIncd"
                   [] At(v, "pushInc") -> "pushIncd" [] At(v, "dec") -> "decd")
     \/ ~Has(v) /\ Go(v, "error") /\ count' = count
  /\ UNCHANGED <<entry, shows, init, arg, values, raced>>

Counted(v, n) == IF count[v] = Lost THEN entry
                 ELSE [entry EXCEPT ![Key(v)] = [value |-> @.value, count |-> n]]

\* Mutant: the count that is written is the one that was read.
IncrementNothing(v) ==
  /\ pc[v] \in {"incd", "setIncd", "pushIncd"}
  /\ init' = [init EXCEPT ![v] = TRUE]
  /\ \/ At(v, "incd") /\ Return(v)
     \/ At(v, "setIncd") /\ Go(v, "replace") /\ arg' = arg
     \/ At(v, "pushIncd") /\ Go(v, "push") /\ arg' = arg
  /\ UNCHANGED <<entry, shows, count, values, raced>>

\* ... and writes the sum back.
Increment(v) ==
  /\ pc[v] \in {"incd", "setIncd", "pushIncd"}
  /\ entry' = Counted(v, count[v] + 1)
  /\ init' = [init EXCEPT ![v] = TRUE]
  /\ \/ At(v, "incd") /\ Return(v)
     \/ At(v, "setIncd") /\ Go(v, "replace") /\ arg' = arg
     \/ At(v, "pushIncd") /\ Go(v, "push") /\ arg' = arg
  /\ UNCHANGED <<shows, count, values, raced>>

\* set_value of an entry that is there replaces the value for everyone.
Replace(v) ==
  /\ At(v, "replace")
  /\ \/ /\ Has(v)
        /\ entry' = [entry EXCEPT ![Key(v)] = [value |-> arg[v], count |-> @.count]]
        /\ Return(v)
     \/ ~Has(v) /\ Go(v, "error") /\ UNCHANGED <<entry, arg>>
  /\ UNCHANGED <<shows, init, count, values, raced>>

\* push_value_to_stack: nil if there is no entry.
Push(v) ==
  /\ At(v, "push")
  /\ \/ Has(v) /\ ~init[v] /\ Go(v, "pushInc") /\ UNCHANGED <<arg, lua>>
     \/ Has(v) /\ init[v] /\ Return(v) /\ lua' = lua \cup {Entry(v).value}
     \/ ~Has(v) /\ Return(v) /\ lua' = lua
  /\ UNCHANGED <<entry, shows, init, count, live, raced>>

\* The variant lets go of its value_ref.
Gone(v) ==
  /\ shows' = [shows EXCEPT ![v] = Nothing]
  /\ init' = [init EXCEPT ![v] = FALSE]
  /\ Return(v)

\* Mutant: the entry goes with the first variant.
DeletesShared(v) ==
  /\ At(v, "count")
  /\ \/ /\ init[v] /\ Has(v) /\ Entry(v).count > 0
        /\ Go(v, "delete")
        /\ UNCHANGED <<shows, init, arg>>
     \/ ~(init[v] /\ Has(v) /\ Entry(v).count > 0) /\ Gone(v)
  /\ UNCHANGED <<entry, count, values, raced>>

\* ~value_ref reads the count first.
GetCount(v) ==
  /\ At(v, "count")
  /\ \/ /\ init[v] /\ Has(v) /\ Entry(v).count > 0
        /\ Go(v, IF Entry(v).count = 1 THEN "delete" ELSE "dec")
        /\ UNCHANGED <<shows, init, arg>>
     \/ ~(init[v] /\ Has(v) /\ Entry(v).count > 0) /\ Gone(v)
  /\ UNCHANGED <<entry, count, values, raced>>

\* _delete_metadata
DeleteMetadata(v) ==
  /\ At(v, "delete")
  /\ entry' = [entry EXCEPT ![Key(v)] = Nothing]
  /\ count' = Detached(Key(v))
  /\ Gone(v)
  /\ UNCHANGED <<values, raced>>

\* _decrement_reference
Decrement(v) ==
  /\ At(v, "decd")
  /\ entry' = Counted(v, count[v] - 1)
  /\ Gone(v)
  /\ UNCHANGED <<count, values, raced>>

Step(v) ==
  \/ HasReference(v) \/ SetValue(v) \/ CreateMetadata(v) \/ ReadCount(v) \/ Increment(v)
  \/ Replace(v) \/ Push(v) \/ GetCount(v) \/ DeleteMetadata(v) \/ Decrement(v)

-----------------------------------------------------------------------------
(* Lua                                                                      *)

\* The allocator may give a new value the address of a collected one.
NewValue(x) ==
  /\ x \notin live
  /\ live' = live \cup {x} /\ lua' = lua \cup {x}
  /\ UNCHANGED <<refs, raced>>

Forget(x) ==
  /\ x \in lua
  /\ lua' = lua \ {x}
  /\ UNCHANGED <<refs, live, raced>>

Stored == {entry[k].value : k \in {k \in Keys : entry[k] # Nothing}}

Collect(x) ==
  /\ x \in live \ lua
  /\ x \notin Stored /\ \A v \in Variants : arg[v] # x
  /\ live' = live \ {x}
  /\ UNCHANGED <<refs, lua, raced>>

\* What does not depend on what the values are.
Call(v) ==
  \/ Step(v)
  \/ \E w \in Variants : Copy(v, w)
  \/ \E place \in {"push", "count"} : Use(v, place)

Next ==
  \/ \E v \in Variants : Call(v) \/ \E x \in Values : FromState(v, x)
  \/ \E x \in Values : NewValue(x) \/ Forget(x) \/ Collect(x)

Spec == Init /\ [][Next]_vars

-----------------------------------------------------------------------------
Holders(k) == {v \in Variants : shows[v] # Nothing /\ KeyOf[shows[v]] = k /\ init[v]}

\* An entry counts the variants that refer to it, and there is none for a value
\* nobody refers to, which would never be collected.  (Two threads lose counts.)
CountIsHolders == Quiet => \A k \in Keys :
  IF entry[k] = Nothing THEN Holders(k) = {} ELSE entry[k].count = Cardinality(Holders(k))

\* As long as calls on variants have not overlapped, the counts are right.
SerialCount == raced = 0 => CountIsHolders

\* As long as calls have not overlapped, a variant of a Lua value refers to that
\* value, alive, whatever became of other variants of it and the collector did.
VariantKeepsValue == raced = 0 => \A v \in Variants : At(v, "idle") /\ shows[v] \in Values =>
  init[v] /\ Has(v) /\ Entry(v).value = shows[v] /\ shows[v] \in live

\* Even when calls overlap, a variant gives Lua no other value than its own.
PushesOwn == [][\A v \in Variants :
  At(v, "push") /\ pc'[v] = "idle" /\ shows[v] \in Values => lua' \subseteq lua \cup {shows[v]}]_vars
=============================================================================
