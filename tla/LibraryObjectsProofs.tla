------------------------- MODULE LibraryObjectsProofs -------------------------
(***************************************************************************)
(* What value_ref promises, for any number of variants, values, objects    *)
(* and libraries, as long as calls on variants do not overlap: counts are  *)
(* right, and what a variant refers to lives.                              *)
(*                                                                         *)
(* Between two accesses to the storage one variant alone is on its way     *)
(* (Alone), and what it has read is still so (Placed): what the code never *)
(* tests, and what fails when two threads use variants.  That a variant    *)
(* keeps what it shows also needs keys that tell addresses apart           *)
(* (OwnKeys); the code makes them of the low 32 bits.                      *)
(*                                                                         *)
(* Then the objects that the file library gives to Lua: what programs      *)
(* write, read and lose (FilesInv).  Last, what objects are made of: the   *)
(* tracker of the memory tells leaks apart (TrackerInv).                   *)
(***************************************************************************)
EXTENDS LibraryObjects, FileHandler, MemoryTracker,
        FiniteSetTheorems, SequenceTheorems, TLAPS

OwnKeys == \A a, b \in Things : KeyOf[a] = KeyOf[b] => a = b

Alone == \A v, w \in Variants : ~At(v, "idle") /\ ~At(w, "idle") => v = w

\* What a variant is, has and has read where its call is.
Placed(v) ==
  \/ At(v, "idle") /\ (init[v] <=> shows[v] # Nothing) /\ arg[v] = Nothing
  \/ /\ pc[v] \in {"has", "set", "create", "inc", "incd"} /\ shows[v] # Nothing /\ ~init[v]
     /\ At(v, "has") => Has(v) \/ arg[v] # Nothing
     /\ pc[v] \in {"set", "create"} => ~Has(v) /\ arg[v] # Nothing
     /\ pc[v] \in {"inc", "incd"} => Has(v)
     /\ At(v, "incd") => count[v] = Entry(v).count
  \/ /\ pc[v] \in {"push", "count", "dec", "decd", "delete"} /\ shows[v] # Nothing /\ init[v]
     /\ At(v, "delete") => Entry(v).count = 1
     /\ pc[v] \in {"dec", "decd"} => Entry(v).count > 1
     /\ At(v, "decd") => count[v] = Entry(v).count

\* An entry counts its holders, and has one.
CountsRight == \A k \in Keys :
  IF entry[k] = Nothing THEN Holders(k) = {}
  ELSE Holders(k) # {} /\ entry[k].count = Cardinality(Holders(k))

RefsTyped ==
  /\ entry \in [Keys -> [value : Values, count : Int] \cup {Nothing}]
  /\ shows \in [Variants -> Things \cup {Nothing}] /\ init \in [Variants -> BOOLEAN]
  /\ pc \in [Variants -> Places] /\ arg \in [Variants -> Values \cup {Nothing}]
  /\ count \in [Variants -> Int]

Serial == RefsTyped /\ Alone /\ (\A v \in Variants : Placed(v)) /\ CountsRight

CInv == raced \in Nat /\ (raced = 0 => Serial)

\* The entry of a shown value holds it, or the variant is about to put it there.
ValueKept(v) ==
  shows[v] \in Values => IF Has(v) THEN Entry(v).value = shows[v] ELSE arg[v] = shows[v]

\* So it is with the table of a shown object, if it still has one.
ObjectKept(v) ==
  shows[v] \in Objects =>
    /\ shows[v] \in alive \ fresh
    /\ \A x \in live : object[x] = shows[v] => IF Has(v) THEN Entry(v).value = x ELSE arg[v] = x

\* What is stored lives.
StoredLive ==
  /\ \A k \in Keys : entry[k] # Nothing => entry[k].value \in live
  /\ \A v \in Variants : arg[v] # Nothing => arg[v] \in live

\* An object has one table, which lives.
TablesRight ==
  /\ ObjectsTypeOK
  /\ \A x \in Values : object[x] # Nothing =>
       x \in live /\ object[x] \in alive \ fresh /\ \A y \in Values : object[y] = object[x] => y = x
  /\ \A n \in Names : library[n] # Nothing => library[n] \in lua

Kept ==
  /\ lua \subseteq live /\ live \subseteq Values /\ StoredLive
  /\ \A v \in Variants : ValueKept(v) /\ ObjectKept(v)

KInv == raced = 0 => Kept

-----------------------------------------------------------------------------
(* Entries and their holders.                                              *)

LEMMA KeyTyped ==
  ASSUME ReferencesAssumption, RefsTyped, NEW v \in Variants, shows[v] # Nothing
  PROVE  Key(v) \in Keys
BY DEF ReferencesAssumption, RefsTyped, Key

LEMMA HoldersFinite ==
  ASSUME ReferencesAssumption, NEW k
  PROVE  IsFiniteSet(Holders(k)) /\ Cardinality(Holders(k)) \in Nat
<1>1. Holders(k) \in SUBSET Variants /\ IsFiniteSet(Variants)
  BY DEF Holders, ReferencesAssumption
<1>2. IsFiniteSet(Holders(k))
  BY <1>1, FS_Subset
<1>. QED  BY <1>2, FS_CardinalityType

\* A variant with a reference is one of those its entry counts.
LEMMA HolderCounted ==
  ASSUME ReferencesAssumption, RefsTyped, CountsRight, NEW v \in Variants, shows[v] # Nothing, init[v]
  PROVE  /\ v \in Holders(Key(v)) /\ Has(v) /\ Entry(v) \in [value : Values, count : Int]
         /\ Entry(v).count = Cardinality(Holders(Key(v))) /\ Entry(v).count \in Nat \ {0}
<1>1. v \in Holders(Key(v))
  BY DEF Holders, Key
<1>2. Key(v) \in Keys
  BY KeyTyped
<1>3. Has(v) /\ Entry(v).count = Cardinality(Holders(Key(v)))
  BY <1>1, <1>2 DEF CountsRight, Has, Entry
<1>4. Entry(v) \in [value : Values, count : Int]
  BY <1>2, <1>3 DEF RefsTyped, Has, Entry
<1>5. Cardinality(Holders(Key(v))) \in Nat /\ Cardinality(Holders(Key(v))) # 0
  BY <1>1, HoldersFinite, FS_EmptySet
<1>. QED  BY <1>1, <1>3, <1>4, <1>5

\* Between calls a variant that shows something has a reference.
LEMMA IdleHolds ==
  ASSUME NEW v \in Variants, Placed(v), At(v, "idle")
  PROVE  arg[v] = Nothing /\ (init[v] <=> shows[v] # Nothing)
BY DEF Placed, At

\* A variant joins those its entry counts ...
LEMMA JoinHolders ==
  ASSUME ReferencesAssumption, RefsTyped, NEW v \in Variants, shows[v] # Nothing, ~init[v],
         shows' = shows, init' = [init EXCEPT ![v] = TRUE]
  PROVE  /\ Holders(Key(v))' = Holders(Key(v)) \cup {v}
         /\ Cardinality(Holders(Key(v))') = Cardinality(Holders(Key(v))) + 1
         /\ \A k \in Keys : k # Key(v) => Holders(k)' = Holders(k)
<1>1. \A w \in Variants : init'[w] = IF w = v THEN TRUE ELSE init[w]
  BY DEF RefsTyped
<1>. DEFINE H == Holders(Key(v))
<1>2. Key(v)' = Key(v) /\ v \notin H
  BY DEF Key, Holders
<1>3. Holders(Key(v))' = H \cup {v}
  BY <1>1, <1>2 DEF Holders, Key
<1>4. \A k \in Keys : k # Key(v) => Holders(k)' = Holders(k)
  BY <1>1 DEF Holders, Key
<1>5. IsFiniteSet(H) /\ Cardinality(H) \in Nat
  BY HoldersFinite
<1>. HIDE DEF H
<1>6. Cardinality(H \cup {v}) = Cardinality(H) + 1
  BY <1>2, <1>5, FS_AddElement
<1>. QED  BY <1>3, <1>4, <1>6 DEF H

\* ... and leaves them.
LEMMA LeaveHolders ==
  ASSUME ReferencesAssumption, RefsTyped, NEW v \in Variants, shows[v] # Nothing, init[v],
         shows' = [shows EXCEPT ![v] = Nothing], init' = [init EXCEPT ![v] = FALSE],
         NEW k0 \in Keys, k0 = Key(v)
  PROVE  /\ Holders(k0)' = Holders(k0) \ {v}
         /\ Cardinality(Holders(k0)') = Cardinality(Holders(k0)) - 1
         /\ \A k \in Keys : k # k0 => Holders(k)' = Holders(k)
<1>1. \A w \in Variants : /\ init'[w] = IF w = v THEN FALSE ELSE init[w]
                          /\ shows'[w] = IF w = v THEN Nothing ELSE shows[w]
  BY DEF RefsTyped
<1>. DEFINE H == Holders(k0)
<1>2. v \in H
  BY DEF Key, Holders
<1>3. Holders(k0)' = H \ {v}
  BY <1>1 DEF Holders
<1>4. \A k \in Keys : k # k0 => Holders(k)' = Holders(k)
  BY <1>1 DEF Holders, Key
<1>5. IsFiniteSet(H) /\ Cardinality(H) \in Nat
  BY HoldersFinite
<1>. HIDE DEF H
<1>6. Cardinality(H \ {v}) = Cardinality(H) - 1
  BY <1>2, <1>5, FS_RemoveElement
<1>. QED  BY <1>3, <1>4, <1>6 DEF H

-----------------------------------------------------------------------------
(* Steps.                                                                  *)

\* The variant that takes a step is alone on its way.
LEMMA OthersIdle ==
  ASSUME Alone, NEW v \in Variants, Step(v)
  PROVE  ~At(v, "idle") /\ \A w \in Variants : w # v => At(w, "idle")
<1>1. ~At(v, "idle")
  BY DEF Step, HasReference, SetValue, CreateMetadata, ReadCount, Increment, Replace, Push, GetCount,
     DeleteMetadata, Decrement, At
<1>. QED  BY <1>1 DEF Alone

LEMMA GoesTo ==
  ASSUME RefsTyped, NEW v \in Variants, NEW there \in Places, Go(v, there)
  PROVE  pc' \in [Variants -> Places] /\ pc'[v] = there /\ \A w \in Variants : w # v => pc'[w] = pc[w]
BY DEF RefsTyped, Go

LEMMA ArgCleared ==
  ASSUME RefsTyped, NEW v \in Variants, arg' = [arg EXCEPT ![v] = Nothing]
  PROVE  arg' \in [Variants -> Values \cup {Nothing}] /\ arg'[v] = Nothing
         /\ \A w \in Variants : w # v => arg'[w] = arg[w]
BY DEF RefsTyped

\* What a step does to the entry and the reference of its variant: nothing yet,
\* create, count up, count down, or delete; to other variants, nothing.
Waits(v) ==
  /\ UNCHANGED <<entry, shows, init>>
  /\ arg'[v] \in {arg[v], Nothing} /\ (arg'[v] # arg[v] => Has(v))

Adds(v) ==
  /\ ~init[v] /\ shows' = shows /\ init' = [init EXCEPT ![v] = TRUE]
  /\ pc'[v] = "idle" /\ arg'[v] = Nothing
  /\ \/ ~Has(v) /\ arg[v] # Nothing /\ entry' = [entry EXCEPT ![Key(v)] = [value |-> arg[v], count |-> 1]]
     \/ Has(v) /\ entry' = [entry EXCEPT ![Key(v)] = [value |-> Entry(v).value, count |-> Entry(v).count + 1]]

Drops(v) ==
  /\ init[v] /\ shows' = [shows EXCEPT ![v] = Nothing] /\ init' = [init EXCEPT ![v] = FALSE]
  /\ pc'[v] = "idle" /\ arg'[v] = Nothing /\ Has(v)
  /\ \/ Entry(v).count = 1 /\ entry' = [entry EXCEPT ![Key(v)] = Nothing]
     \/ /\ Entry(v).count > 1
        /\ entry' = [entry EXCEPT ![Key(v)] = [value |-> Entry(v).value, count |-> Entry(v).count - 1]]

LEMMA StepDoes ==
  ASSUME ReferencesAssumption, Serial, NEW v \in Variants, Step(v)
  PROVE  /\ shows[v] # Nothing /\ raced' = raced
         /\ \/ Waits(v) /\ Placed(v)'
            \/ Adds(v) \/ Drops(v)
         /\ pc' \in [Variants -> Places] /\ arg' \in [Variants -> Values \cup {Nothing}]
         /\ count' \in [Variants -> Int]
         /\ \A w \in Variants : w # v => pc'[w] = pc[w] /\ arg'[w] = arg[w]
         /\ live' = live /\ (lua' = lua \/ (Has(v) /\ lua' = lua \cup {Entry(v).value}))
<1>. DEFINE Goal == /\ shows[v] # Nothing /\ raced' = raced
                    /\ \/ Waits(v) /\ Placed(v)'
                       \/ Adds(v) \/ Drops(v)
                    /\ pc' \in [Variants -> Places] /\ arg' \in [Variants -> Values \cup {Nothing}]
                    /\ count' \in [Variants -> Int]
                    /\ \A w \in Variants : w # v => pc'[w] = pc[w] /\ arg'[w] = arg[w]
                    /\ live' = live /\ (lua' = lua \/ (Has(v) /\ lua' = lua \cup {Entry(v).value}))
<1>1. /\ ~At(v, "idle") /\ Placed(v) /\ RefsTyped /\ CountsRight
      /\ "idle" \in Places /\ shows[v] # Nothing /\ Key(v) \in Keys
  <2>1. ~At(v, "idle") /\ Placed(v) /\ RefsTyped /\ CountsRight
    BY OthersIdle DEF Serial
  <2>2. shows[v] # Nothing
    BY <2>1 DEF Placed
  <2>. QED  BY <2>1, <2>2, KeyTyped DEF Places
<1>2. init[v] => Has(v) /\ Entry(v).count \in Nat \ {0}
  BY <1>1, HolderCounted
<1>3. CASE HasReference(v)
  <2>1. pc[v] = "has" /\ ~init[v] /\ (Has(v) \/ arg[v] # Nothing)
        /\ UNCHANGED <<entry, shows, init, count, values, raced>> /\ (Has(v)' <=> Has(v))
    BY <1>1, <1>3 DEF HasReference, At, Placed, Has, Entry, Key
  <2>2. CASE Has(v) /\ Go(v, "inc") /\ arg' = arg
    <3>1. pc' \in [Variants -> Places] /\ pc'[v] = "inc" /\ \A w \in Variants : w # v => pc'[w] = pc[w]
      BY <1>1, <2>2, GoesTo DEF Places
    <3>. QED  BY <1>1, <2>1, <2>2, <3>1 DEF Waits, Placed, At, RefsTyped, values
  <2>3. CASE ~Has(v) /\ arg[v] # Nothing /\ Go(v, "set") /\ arg' = arg
    <3>1. pc' \in [Variants -> Places] /\ pc'[v] = "set" /\ \A w \in Variants : w # v => pc'[w] = pc[w]
      BY <1>1, <2>3, GoesTo DEF Places
    <3>. QED  BY <1>1, <2>1, <2>3, <3>1 DEF Waits, Placed, At, RefsTyped, values
  <2>. QED  BY <1>3, <2>1, <2>2, <2>3 DEF HasReference
<1>4. CASE SetValue(v)
  <2>1. pc[v] = "set" /\ ~init[v] /\ ~Has(v) /\ arg[v] # Nothing /\ Go(v, "create")
        /\ UNCHANGED <<entry, shows, init, arg, count, values, raced>> /\ (Has(v)' <=> Has(v))
    BY <1>1, <1>4 DEF SetValue, At, Placed, Has, Entry, Key
  <2>2. pc' \in [Variants -> Places] /\ pc'[v] = "create" /\ \A w \in Variants : w # v => pc'[w] = pc[w]
    BY <1>1, <2>1, GoesTo DEF Places
  <2>. QED  BY <1>1, <2>1, <2>2 DEF Waits, Placed, At, RefsTyped, values
<1>5. CASE CreateMetadata(v)
  <2>1. /\ pc[v] = "create" /\ ~init[v] /\ ~Has(v) /\ arg[v] # Nothing
        /\ entry' = [entry EXCEPT ![Key(v)] = [value |-> arg[v], count |-> 1]]
        /\ count' = Detached(Key(v)) /\ init' = [init EXCEPT ![v] = TRUE]
        /\ Go(v, "idle") /\ arg' = [arg EXCEPT ![v] = Nothing] /\ UNCHANGED <<shows, values, raced>>
    BY <1>1, <1>5 DEF CreateMetadata, Return, At, Placed
  <2>2. pc' \in [Variants -> Places] /\ pc'[v] = "idle" /\ \A w \in Variants : w # v => pc'[w] = pc[w]
    BY <1>1, <2>1, GoesTo
  <2>3. arg' \in [Variants -> Values \cup {Nothing}] /\ arg'[v] = Nothing
        /\ \A w \in Variants : w # v => arg'[w] = arg[w]
    BY <1>1, <2>1, ArgCleared
  <2>4. count' \in [Variants -> Int]
    BY <1>1, <2>1 DEF Detached, Lost, RefsTyped
  <2>. QED  BY <1>1, <2>1, <2>2, <2>3, <2>4 DEF Adds, values
<1>6. CASE ReadCount(v)
  <2>1. /\ pc[v] \in {"inc", "dec"} /\ Has(v) /\ (pc[v] = "inc" => ~init[v])
        /\ (pc[v] = "dec" => init[v] /\ Entry(v).count > 1)
        /\ count' = [count EXCEPT ![v] = Entry(v).count]
        /\ Go(v, IF pc[v] = "inc" THEN "incd" ELSE "decd")
        /\ UNCHANGED <<entry, shows, init, arg, values, raced>>
    BY <1>1, <1>2, <1>6 DEF ReadCount, At, Placed
  <2>2. /\ pc' \in [Variants -> Places] /\ pc'[v] = (IF pc[v] = "inc" THEN "incd" ELSE "decd")
        /\ \A w \in Variants : w # v => pc'[w] = pc[w]
    BY <1>1, <2>1, GoesTo DEF Places
  <2>3. Entry(v) \in [value : Values, count : Int]
    BY <1>1, <2>1 DEF RefsTyped, Has, Entry
  <2>4. count' \in [Variants -> Int] /\ count'[v] = Entry(v).count
    BY <1>1, <2>1, <2>3 DEF RefsTyped
  <2>5. Has(v)' /\ Entry(v)' = Entry(v)
    BY <2>1 DEF Has, Entry, Key
  <2>. QED  BY <1>1, <2>1, <2>2, <2>4, <2>5 DEF Waits, Placed, At, RefsTyped, values
<1>7. CASE Increment(v)
  <2>1. /\ pc[v] = "incd" /\ ~init[v] /\ Has(v) /\ count[v] = Entry(v).count
        /\ entry' = Counted(v, count[v] + 1) /\ init' = [init EXCEPT ![v] = TRUE]
        /\ Go(v, "idle") /\ arg' = [arg EXCEPT ![v] = Nothing] /\ UNCHANGED <<shows, count, values, raced>>
    BY <1>1, <1>7 DEF Increment, Return, At, Placed
  <2>2. count[v] # Lost
    <3>1. Entry(v).count = Cardinality(Holders(Key(v)))
      BY <1>1, <2>1 DEF CountsRight, Has, Entry
    <3>2. Entry(v).count \in Nat
      BY <3>1, HoldersFinite
    <3>. QED  BY <2>1, <3>2 DEF Lost
  <2>3. entry' = [entry EXCEPT ![Key(v)] = [value |-> Entry(v).value, count |-> Entry(v).count + 1]]
    BY <2>1, <2>2 DEF Counted, Entry
  <2>4. pc' \in [Variants -> Places] /\ pc'[v] = "idle" /\ \A w \in Variants : w # v => pc'[w] = pc[w]
    BY <1>1, <2>1, GoesTo
  <2>5. arg' \in [Variants -> Values \cup {Nothing}] /\ arg'[v] = Nothing
        /\ \A w \in Variants : w # v => arg'[w] = arg[w]
    BY <1>1, <2>1, ArgCleared
  <2>. QED  BY <1>1, <2>1, <2>3, <2>4, <2>5 DEF Adds, values, RefsTyped
<1>8. CASE Push(v)
  <2>1. /\ pc[v] = "push" /\ init[v] /\ Has(v) /\ lua' = lua \cup {Entry(v).value}
        /\ Go(v, "idle") /\ arg' = [arg EXCEPT ![v] = Nothing]
        /\ UNCHANGED <<entry, shows, init, count, live, raced>>
    BY <1>1, <1>2, <1>8 DEF Push, Return, At, Placed
  <2>2. pc' \in [Variants -> Places] /\ pc'[v] = "idle" /\ \A w \in Variants : w # v => pc'[w] = pc[w]
    BY <1>1, <2>1, GoesTo
  <2>3. arg' \in [Variants -> Values \cup {Nothing}] /\ arg'[v] = Nothing
        /\ \A w \in Variants : w # v => arg'[w] = arg[w]
    BY <1>1, <2>1, ArgCleared
  <2>. QED  BY <1>1, <2>1, <2>2, <2>3 DEF Waits, Placed, At, RefsTyped
<1>9. CASE GetCount(v)
  <2>1. /\ pc[v] = "count" /\ init[v] /\ Has(v) /\ Entry(v).count \in Nat \ {0}
        /\ Go(v, IF Entry(v).count = 1 THEN "delete" ELSE "dec")
        /\ UNCHANGED <<entry, shows, init, arg, count, values, raced>>
    BY <1>1, <1>2, <1>9 DEF GetCount, At, Placed
  <2>2. /\ pc' \in [Variants -> Places] /\ pc'[v] = (IF Entry(v).count = 1 THEN "delete" ELSE "dec")
        /\ \A w \in Variants : w # v => pc'[w] = pc[w]
    BY <1>1, <2>1, GoesTo DEF Places
  <2>3. Has(v)' /\ Entry(v)' = Entry(v)
    BY <2>1 DEF Has, Entry, Key
  <2>4. Entry(v).count = 1 \/ Entry(v).count > 1
    BY <2>1
  <2>5. Placed(v)'
    <3>1. CASE Entry(v).count = 1
      BY <1>1, <2>1, <2>2, <2>3, <3>1 DEF Placed, At
    <3>2. CASE Entry(v).count > 1
      <4>1. Entry(v).count # 1
        BY <2>1, <3>2
      <4>. QED  BY <1>1, <2>1, <2>2, <2>3, <3>2, <4>1 DEF Placed, At
    <3>. QED  BY <2>4, <3>1, <3>2
  <2>. QED  BY <1>1, <2>1, <2>2, <2>5 DEF Waits, RefsTyped, values
<1>10. CASE DeleteMetadata(v)
  <2>1. /\ pc[v] = "delete" /\ init[v] /\ Has(v) /\ Entry(v).count = 1
        /\ entry' = [entry EXCEPT ![Key(v)] = Nothing] /\ count' = Detached(Key(v))
        /\ shows' = [shows EXCEPT ![v] = Nothing] /\ init' = [init EXCEPT ![v] = FALSE]
        /\ Go(v, "idle") /\ arg' = [arg EXCEPT ![v] = Nothing] /\ UNCHANGED <<values, raced>>
    BY <1>1, <1>2, <1>10 DEF DeleteMetadata, Gone, Return, At, Placed
  <2>2. pc' \in [Variants -> Places] /\ pc'[v] = "idle" /\ \A w \in Variants : w # v => pc'[w] = pc[w]
    BY <1>1, <2>1, GoesTo
  <2>3. arg' \in [Variants -> Values \cup {Nothing}] /\ arg'[v] = Nothing
        /\ \A w \in Variants : w # v => arg'[w] = arg[w]
    BY <1>1, <2>1, ArgCleared
  <2>4. count' \in [Variants -> Int]
    BY <1>1, <2>1 DEF Detached, Lost, RefsTyped
  <2>. QED  BY <1>1, <2>1, <2>2, <2>3, <2>4 DEF Drops, values
<1>11. CASE Decrement(v)
  <2>1. /\ pc[v] = "decd" /\ init[v] /\ Has(v) /\ Entry(v).count > 1 /\ count[v] = Entry(v).count
        /\ entry' = Counted(v, count[v] - 1)
        /\ shows' = [shows EXCEPT ![v] = Nothing] /\ init' = [init EXCEPT ![v] = FALSE]
        /\ Go(v, "idle") /\ arg' = [arg EXCEPT ![v] = Nothing] /\ UNCHANGED <<count, values, raced>>
    BY <1>1, <1>2, <1>11 DEF Decrement, Gone, Return, At, Placed
  <2>2. entry' = [entry EXCEPT ![Key(v)] = [value |-> Entry(v).value, count |-> Entry(v).count - 1]]
    <3>1. count[v] # Lost
      BY <1>2, <2>1 DEF Lost
    <3>. QED  BY <2>1, <3>1 DEF Counted, Entry
  <2>3. pc' \in [Variants -> Places] /\ pc'[v] = "idle" /\ \A w \in Variants : w # v => pc'[w] = pc[w]
    BY <1>1, <2>1, GoesTo
  <2>4. arg' \in [Variants -> Values \cup {Nothing}] /\ arg'[v] = Nothing
        /\ \A w \in Variants : w # v => arg'[w] = arg[w]
    BY <1>1, <2>1, ArgCleared
  <2>. QED  BY <1>1, <2>1, <2>2, <2>3, <2>4 DEF Drops, values, RefsTyped
<1>12. ~Replace(v)
  BY <1>1 DEF Replace, At, Placed
<1>. QED  BY <1>3, <1>4, <1>5, <1>6, <1>7, <1>8, <1>9, <1>10, <1>11, <1>12 DEF Step

\* A serial step leaves everything serial.
LEMMA StepSerial ==
  ASSUME ReferencesAssumption, Serial, NEW v \in Variants, Step(v)
  PROVE  Serial'
<1>1. /\ RefsTyped /\ CountsRight /\ Placed(v)
      /\ \A w \in Variants : w # v => At(w, "idle") /\ Placed(w)
      /\ shows[v] # Nothing /\ Key(v) \in Keys
  BY OthersIdle, StepDoes, KeyTyped DEF Serial
<1>2. /\ (Waits(v) /\ Placed(v)') \/ Adds(v) \/ Drops(v)
      /\ pc' \in [Variants -> Places] /\ arg' \in [Variants -> Values \cup {Nothing}]
      /\ count' \in [Variants -> Int]
      /\ \A w \in Variants : w # v => pc'[w] = pc[w] /\ arg'[w] = arg[w]
  BY StepDoes
<1>3. Alone'
  BY <1>1, <1>2 DEF Alone, At
<1>4. Has(v) => Entry(v) \in [value : Values, count : Int]
  BY <1>1 DEF RefsTyped, Has, Entry
<1>5. \A w \in Variants : (shows'[w] = shows[w] /\ init'[w] = init[w]) \/ w = v
  BY <1>1, <1>2 DEF Waits, Adds, Drops, RefsTyped
<1>6. \A w \in Variants : w # v => Placed(w)'
  BY <1>1, <1>2, <1>5, IdleHolds DEF Placed, At
<1>7. CASE Waits(v) /\ Placed(v)'
  <2>1. RefsTyped'
    BY <1>1, <1>2, <1>7 DEF Waits, RefsTyped
  <2>2. CountsRight'
    BY <1>1, <1>7 DEF Waits, CountsRight, Holders
  <2>. QED  BY <1>3, <1>6, <1>7, <2>1, <2>2 DEF Serial
<1>8. CASE Adds(v)
  <2>. DEFINE k0 == Key(v)
  <2>1. \E x \in Values, n \in Int :
          /\ entry' = [entry EXCEPT ![k0] = [value |-> x, count |-> n]]
          /\ n = Cardinality(Holders(k0)) + 1
    <3>1. CASE ~Has(v) /\ arg[v] # Nothing /\ entry' = [entry EXCEPT ![k0] = [value |-> arg[v], count |-> 1]]
      <4>1. arg[v] \in Values
        BY <1>1, <3>1 DEF RefsTyped
      <4>2. Cardinality(Holders(k0)) = 0
        BY <1>1, <3>1, FS_EmptySet DEF CountsRight, Has, Entry
      <4>3. 1 \in Int /\ 1 = Cardinality(Holders(k0)) + 1
        BY <4>2
      <4>. QED  BY <3>1, <4>1, <4>3, Zenon
    <3>2. CASE /\ Has(v)
               /\ entry' = [entry EXCEPT ![k0] = [value |-> Entry(v).value, count |-> Entry(v).count + 1]]
      <4>1. Entry(v).count = Cardinality(Holders(k0))
        BY <1>1, <3>2 DEF CountsRight, Has, Entry
      <4>2. Entry(v).value \in Values /\ Entry(v).count + 1 \in Int
        BY <1>4, <3>2
      <4>. DEFINE x == Entry(v).value
                  n == Entry(v).count + 1
      <4>3. /\ x \in Values /\ n \in Int /\ n = Cardinality(Holders(k0)) + 1
            /\ entry' = [entry EXCEPT ![k0] = [value |-> x, count |-> n]]
        BY <3>2, <4>1, <4>2
      <4>. HIDE DEF x, n
      <4>. QED  BY <4>3
    <3>. QED  BY <1>8, <3>1, <3>2 DEF Adds
  <2>. PICK x \in Values, n \in Int :
          /\ entry' = [entry EXCEPT ![k0] = [value |-> x, count |-> n]]
          /\ n = Cardinality(Holders(k0)) + 1
    BY <2>1
  <2>2. /\ shows' = shows /\ init' = [init EXCEPT ![v] = TRUE] /\ ~init[v] /\ pc'[v] = "idle" /\ arg'[v] = Nothing
    BY <1>8 DEF Adds
  <2>3. /\ Holders(k0)' = Holders(k0) \cup {v} /\ k0' = k0
        /\ Cardinality(Holders(k0)') = Cardinality(Holders(k0)) + 1
        /\ \A k \in Keys : k # k0 => Holders(k)' = Holders(k)
    BY <1>1, <2>2, JoinHolders DEF Key
  <2>4. RefsTyped'
    BY <1>1, <1>2, <2>1, <2>2 DEF RefsTyped
  <2>5. Placed(v)'
    BY <1>1, <2>2 DEF Placed, At, RefsTyped
  <2>6. k0 \in Keys /\ entry \in [Keys -> [value : Values, count : Int] \cup {Nothing}]
    BY <1>1 DEF RefsTyped
  <2>. HIDE DEF k0
  <2>7. entry'[k0] = [value |-> x, count |-> n] /\ \A k \in Keys : k # k0 => entry'[k] = entry[k]
    BY <2>1, <2>6
  <2>8. entry'[k0] # Nothing /\ entry'[k0].count = n
    BY <2>7 DEF ReferencesAssumption
  <2>9. \A k \in Keys : IF entry'[k] = Nothing THEN Holders(k)' = {}
                        ELSE Holders(k)' # {} /\ entry'[k].count = Cardinality(Holders(k)')
    <3>. SUFFICES ASSUME NEW k \in Keys
                  PROVE  IF entry'[k] = Nothing THEN Holders(k)' = {}
                         ELSE Holders(k)' # {} /\ entry'[k].count = Cardinality(Holders(k)')
      OBVIOUS
    <3>1. CASE k = k0
      <4>1. Holders(k)' = Holders(k0) \cup {v} /\ Cardinality(Holders(k)') = n
        <5>1. Holders(k)' = Holders(k0)'
          BY <2>3, <3>1 DEF Holders
        <5>. QED  BY <2>1, <2>3, <5>1
      <4>. QED  BY <2>8, <3>1, <4>1
    <3>2. CASE k # k0
      <4>1. entry'[k] = entry[k] /\ Holders(k)' = Holders(k)
        BY <2>3, <2>7, <3>2
      <4>. QED  BY <1>1, <4>1 DEF CountsRight
    <3>. QED  BY <3>1, <3>2
  <2>10. CountsRight'
    BY <2>9 DEF CountsRight
  <2>. QED  BY <1>3, <1>6, <2>4, <2>5, <2>10 DEF Serial
<1>9. CASE Drops(v)
  <2>1. PICK k0 \in Keys : k0 = Key(v)
    BY <1>1
  <2>2. /\ init[v] /\ shows' = [shows EXCEPT ![v] = Nothing] /\ init' = [init EXCEPT ![v] = FALSE]
        /\ pc'[v] = "idle" /\ arg'[v] = Nothing /\ Has(v)
    BY <1>9 DEF Drops
  <2>3. /\ Holders(k0)' = Holders(k0) \ {v}
        /\ Cardinality(Holders(k0)') = Cardinality(Holders(k0)) - 1
        /\ \A k \in Keys : k # k0 => Holders(k)' = Holders(k)
    BY <1>1, <2>1, <2>2, LeaveHolders
  <2>4. Entry(v).count = Cardinality(Holders(k0)) /\ Entry(v).count \in Nat
    BY <1>1, <2>1, <2>2, HolderCounted
  <2>5. PICK e \in [value : Values, count : Int] \cup {Nothing} :
          /\ entry' = [entry EXCEPT ![k0] = e]
          /\ \/ e = Nothing /\ Entry(v).count = 1
             \/ e # Nothing /\ Entry(v).count > 1 /\ e.count = Entry(v).count - 1
    <3>1. CASE Entry(v).count = 1 /\ entry' = [entry EXCEPT ![k0] = Nothing]
      BY <3>1
    <3>2. CASE /\ Entry(v).count > 1
               /\ entry' = [entry EXCEPT ![k0] = [value |-> Entry(v).value, count |-> Entry(v).count - 1]]
      <4>. DEFINE e == [value |-> Entry(v).value, count |-> Entry(v).count - 1]
      <4>1. e \in [value : Values, count : Int] /\ e.count = Entry(v).count - 1
        BY <1>4, <2>2, <2>4
      <4>2. e # Nothing
        BY <4>1 DEF ReferencesAssumption
      <4>. QED  BY <3>2, <4>1, <4>2
    <3>. QED  BY <1>9, <2>1, <3>1, <3>2 DEF Drops
  <2>6. RefsTyped'
    <3>1. shows' \in [Variants -> Things \cup {Nothing}] /\ init' \in [Variants -> BOOLEAN]
      BY <1>1, <2>2 DEF RefsTyped
    <3>2. entry' \in [Keys -> [value : Values, count : Int] \cup {Nothing}]
      BY <1>1, <2>5 DEF RefsTyped
    <3>. QED  BY <1>2, <3>1, <3>2 DEF RefsTyped
  <2>7. Placed(v)'
    BY <1>1, <2>2 DEF Placed, At, RefsTyped
  <2>8. entry \in [Keys -> [value : Values, count : Int] \cup {Nothing}]
    BY <1>1 DEF RefsTyped
  <2>9. entry'[k0] = e /\ \A k \in Keys : k # k0 => entry'[k] = entry[k]
    BY <2>5, <2>8
  <2>10. \A k \in Keys : IF entry'[k] = Nothing THEN Holders(k)' = {}
                         ELSE Holders(k)' # {} /\ entry'[k].count = Cardinality(Holders(k)')
    <3>. SUFFICES ASSUME NEW k \in Keys
                  PROVE  IF entry'[k] = Nothing THEN Holders(k)' = {}
                         ELSE Holders(k)' # {} /\ entry'[k].count = Cardinality(Holders(k)')
      OBVIOUS
    <3>1. CASE k = k0
      <4>1. IsFiniteSet(Holders(k0)')
        <5>1. IsFiniteSet(Holders(k0))
          BY HoldersFinite
        <5>. QED  BY <2>3, <5>1, FS_RemoveElement
      <4>2. Cardinality(Holders(k0)') = 0 <=> Holders(k0)' = {}
        BY <4>1, FS_EmptySet
      <4>3. Cardinality(Holders(k0)') = Entry(v).count - 1
        BY <2>3, <2>4
      <4>. QED  BY <2>4, <2>5, <2>9, <3>1, <4>2, <4>3
    <3>2. CASE k # k0
      <4>1. entry'[k] = entry[k] /\ Holders(k)' = Holders(k)
        BY <2>3, <2>9, <3>2
      <4>. QED  BY <1>1, <4>1 DEF CountsRight
    <3>. QED  BY <3>1, <3>2
  <2>11. CountsRight'
    BY <2>10 DEF CountsRight
  <2>. QED  BY <1>3, <1>6, <2>6, <2>7, <2>11 DEF Serial
<1>. QED  BY <1>2, <1>7, <1>8, <1>9

\* A call that does not overlap another begins when there is none.
LEMMA BeginsQuiet ==
  ASSUME raced \in Nat, NEW v \in Variants, Begin(v), raced' = 0
  PROVE  raced = 0 /\ Quiet
BY DEF Begin

\* A new reference: of a thing that has an entry, or will have.
Starts(v, thing, x) ==
  /\ Begin(v) /\ shows[v] = Nothing /\ NewRef(v, thing, x)
  /\ x # Nothing \/ entry[KeyOf[thing]] # Nothing

LEMMA StartSerial ==
  ASSUME ReferencesAssumption, Serial, raced \in Nat, raced' = 0, NEW v \in Variants,
         NEW thing \in Things, NEW x \in Values \cup {Nothing}, Starts(v, thing, x)
  PROVE  Serial'
<1>1. /\ Quiet /\ RefsTyped /\ CountsRight /\ \A w \in Variants : Placed(w)
      /\ shows[v] = Nothing /\ shows' = [shows EXCEPT ![v] = thing] /\ arg' = [arg EXCEPT ![v] = x]
      /\ Go(v, "has") /\ UNCHANGED <<entry, init, count>>
      /\ x # Nothing \/ entry[KeyOf[thing]] # Nothing
  BY BeginsQuiet DEF Starts, NewRef, Serial
<1>2. /\ pc' \in [Variants -> Places] /\ pc'[v] = "has" /\ \A w \in Variants : w # v => pc'[w] = "idle"
  BY <1>1, GoesTo DEF Places, Quiet, At
<1>3. /\ shows' \in [Variants -> Things \cup {Nothing}] /\ arg' \in [Variants -> Values \cup {Nothing}]
      /\ shows'[v] = thing /\ arg'[v] = x /\ thing # Nothing
      /\ \A w \in Variants : w # v => shows'[w] = shows[w] /\ arg'[w] = arg[w]
  BY <1>1 DEF RefsTyped, ReferencesAssumption
<1>4. RefsTyped' /\ Alone'
  BY <1>1, <1>2, <1>3 DEF RefsTyped, Alone, At
<1>5. ~init[v]
  BY <1>1, IdleHolds DEF Quiet, RefsTyped
<1>6. Placed(v)'
  <2>1. Has(v)' <=> entry[KeyOf[thing]] # Nothing
    BY <1>1, <1>3 DEF Has, Entry, Key
  <2>. QED  BY <1>1, <1>2, <1>3, <1>5, <2>1 DEF Placed, At
<1>7. \A w \in Variants : w # v => Placed(w)'
  BY <1>1, <1>2, <1>3, IdleHolds DEF Placed, At, Quiet
<1>8. \A k : Holders(k)' = Holders(k)
  BY <1>1, <1>3, <1>5 DEF Holders
<1>. QED  BY <1>1, <1>4, <1>6, <1>7, <1>8 DEF CountsRight, Serial

\* A copy has the entry of what it is a copy of.
LEMMA CopyStarts ==
  ASSUME ReferencesAssumption, Serial, NEW v \in Variants, NEW w \in Variants, Copy(v, w)
  PROVE  Starts(v, shows[w], Nothing) /\ shows[w] \in Things /\ Has(w)
<1>1. shows[w] # Nothing /\ At(w, "idle") /\ RefsTyped /\ CountsRight /\ Placed(w)
  BY DEF Copy, Serial
<1>2. Has(w)
  BY <1>1, IdleHolds, HolderCounted
<1>. QED  BY <1>1, <1>2 DEF Copy, Starts, Has, Entry, Key, RefsTyped

LEMMA UseSerial ==
  ASSUME ReferencesAssumption, Serial, raced \in Nat, raced' = 0, NEW v \in Variants,
         NEW place \in {"push", "count"}, Use(v, place)
  PROVE  Serial'
<1>1. /\ Quiet /\ RefsTyped /\ CountsRight /\ \A w \in Variants : Placed(w)
      /\ shows[v] # Nothing /\ Go(v, place) /\ UNCHANGED <<entry, shows, init, arg, count>>
  BY BeginsQuiet DEF Use, Serial
<1>2. /\ pc' \in [Variants -> Places] /\ pc'[v] = place /\ \A w \in Variants : w # v => pc'[w] = "idle"
  BY <1>1, GoesTo DEF Places, Quiet, At
<1>3. RefsTyped' /\ Alone'
  BY <1>1, <1>2 DEF RefsTyped, Alone, At
<1>4. \A w \in Variants : Placed(w)'
  BY <1>1, <1>2, IdleHolds DEF Placed, At, Quiet
<1>. QED  BY <1>1, <1>3, <1>4 DEF CountsRight, Holders, Serial

\* Every step on references, as long as calls do not overlap.
LEMMA RefsSerial ==
  ASSUME ReferencesAssumption, ObjectsAssumption, CInv, [ObjectsNext]_allVars,
         object \in [Values -> Objects \cup {Nothing}]
  PROVE  CInv'
<1>1. CASE UNCHANGED <<refs, raced>>
  <2>1. RefsTyped => RefsTyped'
    BY <1>1 DEF refs, RefsTyped
  <2>2. Alone => Alone'
    BY <1>1 DEF refs, Alone, At
  <2>3. ASSUME NEW v \in Variants, Placed(v)
        PROVE  Placed(v)'
    <3>1. (Has(v)' <=> Has(v)) /\ Entry(v)' = Entry(v) /\ \A p : At(v, p)' <=> At(v, p)
      BY <1>1 DEF refs, Has, Entry, Key, At
    <3>. QED  BY <1>1, <2>3, <3>1 DEF refs, Placed
  <2>4. CountsRight => CountsRight'
    BY <1>1 DEF refs, CountsRight, Holders
  <2>. QED  BY <1>1, <2>1, <2>2, <2>3, <2>4 DEF CInv, Serial
<1>2. ASSUME NEW v \in Variants, Step(v)
      PROVE  CInv'
  <2>1. raced' = raced
    BY <1>2 DEF Step, HasReference, SetValue, CreateMetadata, ReadCount, Increment, Replace, Push,
       GetCount, DeleteMetadata, Decrement
  <2>. QED  BY <1>2, <2>1, StepSerial DEF CInv
<1>3. ASSUME NEW v \in Variants, Begin(v), raced' = 0 => Serial'
      PROVE  CInv'
  BY <1>3 DEF CInv, Begin
<1>4. ASSUME NEW v \in Variants, Begin(v), raced' = 0
      PROVE  Serial
  BY <1>4, BeginsQuiet DEF CInv
<1>5. ASSUME NEW v \in Variants, NEW w \in Variants, Copy(v, w)
      PROVE  CInv'
  <2>1. Begin(v) /\ Nothing \in Values \cup {Nothing}
    BY <1>5 DEF Copy
  <2>. QED  BY <1>3, <1>4, <1>5, <2>1, CopyStarts, StartSerial DEF CInv
<1>6. ASSUME NEW v \in Variants, NEW place \in {"push", "count"}, Use(v, place)
      PROVE  CInv'
  BY <1>3, <1>4, <1>6, UseSerial DEF CInv, Use
<1>7. ASSUME NEW v \in Variants, NEW x \in Values, PlainFromState(v, x)
      PROVE  CInv'
  <2>1. Starts(v, x, x) /\ x \in Things /\ Begin(v)
    BY <1>7 DEF PlainFromState, FromState, Starts, ReferencesAssumption
  <2>. QED  BY <1>3, <1>4, <2>1, StartSerial DEF CInv
<1>8. ASSUME NEW v \in Variants, NEW x \in Values, ObjectFromState(v, x)
      PROVE  CInv'
  <2>1. Starts(v, object[x], x) /\ object[x] \in Things /\ Begin(v)
    BY <1>8 DEF ObjectFromState, Starts, ReferencesAssumption, ObjectsAssumption
  <2>. QED  BY <1>3, <1>4, <2>1, StartSerial DEF CInv
<1>9. ASSUME NEW v \in Variants, NEW o \in Objects, ObjectFromReference(v, o)
      PROVE  CInv'
  <2>1. o \in Things /\ Begin(v)
    BY <1>9 DEF ObjectFromReference, ObjectsAssumption
  <2>2. PICK x \in Values \cup {Nothing} : Starts(v, o, x)
    BY <1>9 DEF ObjectFromReference, Starts, ReferencesAssumption
  <2>. QED  BY <1>3, <1>4, <2>1, <2>2, StartSerial DEF CInv
<1>10. ASSUME NEW n \in Names, GetLibrary(n) \/ Unload(n) \/ \E o \in Objects : LoadLibrary(n, o)
      PROVE  UNCHANGED <<refs, raced>>
  BY <1>10 DEF GetLibrary, Unload, LoadLibrary, vars
<1>11. ASSUME NEW x \in Values, NewValue(x) \/ ForgetValue(x) \/ CollectValue(x)
       PROVE  UNCHANGED <<refs, raced>>
  BY <1>11 DEF NewValue, ForgetValue, Forget, CollectValue, Collect
<1>12. UNCHANGED allVars => UNCHANGED <<refs, raced>>
  BY DEF allVars, vars
<1>. QED  BY <1>1, <1>2, <1>5, <1>6, <1>7, <1>8, <1>9, <1>10, <1>11, <1>12 DEF ObjectsNext, Call

-----------------------------------------------------------------------------
(* Tables of objects.                                                      *)

\* Whatever the calls on variants do, an object has one table at most.
LEMMA NextTables ==
  ASSUME ReferencesAssumption, ObjectsAssumption, TablesRight, [ObjectsNext]_allVars
  PROVE  TablesRight'
<1>1. /\ object \in [Values -> Objects \cup {Nothing}] /\ library \in [Names -> Values \cup {Nothing}]
      /\ fresh \subseteq alive /\ alive \subseteq Objects /\ Nothing \notin Objects /\ Nothing \notin Values
      /\ \A x \in Values : object[x] # Nothing =>
           x \in live /\ object[x] \in alive \ fresh /\ \A y \in Values : object[y] = object[x] => y = x
      /\ \A n \in Names : library[n] # Nothing => library[n] \in lua
  BY DEF TablesRight, ObjectsTypeOK, ReferencesAssumption, ObjectsAssumption
\* Values come, and nothing else happens.
<1>2. ASSUME UNCHANGED objects, lua \subseteq lua', live \subseteq live'
      PROVE  TablesRight'
  BY <1>1, <1>2 DEF objects, TablesRight, ObjectsTypeOK
<1>3. ASSUME NEW v \in Variants, Call(v), UNCHANGED objects
      PROVE  TablesRight'
  <2>1. live' = live /\ lua \subseteq lua'
    BY <1>3 DEF Call, Step, HasReference, SetValue, CreateMetadata, ReadCount, Increment, Replace, Push,
       GetCount, DeleteMetadata, Decrement, Copy, Use, values
  <2>. QED  BY <1>2, <1>3, <2>1
<1>4. ASSUME NEW v \in Variants, NEW x \in Values, PlainFromState(v, x) \/ ObjectFromState(v, x)
      PROVE  TablesRight'
  BY <1>2, <1>4 DEF PlainFromState, FromState, ObjectFromState, values
<1>5. ASSUME NEW v \in Variants, NEW o \in Objects, ObjectFromReference(v, o)
      PROVE  TablesRight'
  <2>1. CASE UNCHANGED <<live, object, fresh>>
    BY <1>2, <1>5, <2>1 DEF ObjectFromReference, objects
  <2>2. CASE o \in fresh /\ fresh' = fresh \ {o} /\ \E x \in Values \ live :
               live' = live \cup {x} /\ object' = [object EXCEPT ![x] = o]
    BY <1>1, <1>5, <2>2 DEF ObjectFromReference, TablesRight, ObjectsTypeOK
  <2>. QED  BY <1>5, <2>1, <2>2 DEF ObjectFromReference
<1>6. ASSUME NEW n \in Names, NEW o \in Objects, LoadLibrary(n, o)
      PROVE  TablesRight'
  <2>1. PICK x \in Values : /\ Required(n, x) /\ (o \in fresh \/ object[x] = o)
                            /\ object' = [object EXCEPT ![x] = o]
    BY <1>6 DEF LoadLibrary
  <2>2. /\ library' = [library EXCEPT ![n] = x] /\ live' = live \cup {x} /\ lua' = lua \cup {x}
        /\ fresh' = fresh \ {o} /\ alive' = alive /\ o \in alive
    BY <1>6, <2>1 DEF LoadLibrary, Required
  <2>3. \A y \in Values : object'[y] = IF y = x THEN o ELSE object[y]
    BY <1>1, <2>1
  <2>4. \A y \in Values : object[y] = o => y = x
    BY <1>1, <2>1
  <2>5. ObjectsTypeOK'
    BY <1>1, <2>1, <2>2 DEF ObjectsTypeOK
  <2>. QED  BY <1>1, <2>2, <2>3, <2>4, <2>5 DEF TablesRight
<1>7. ASSUME NEW n \in Names, GetLibrary(n) \/ Unload(n)
      PROVE  TablesRight'
  <2>1. CASE GetLibrary(n)
    BY <1>1, <2>1 DEF GetLibrary, Required, TablesRight, ObjectsTypeOK
  <2>2. CASE Unload(n)
    BY <1>1, <2>2 DEF Unload, vars, values, TablesRight, ObjectsTypeOK
  <2>. QED  BY <1>7, <2>1, <2>2
<1>8. ASSUME NEW x \in Values, NewValue(x), UNCHANGED objects
      PROVE  TablesRight'
  BY <1>2, <1>8 DEF NewValue
<1>9. ASSUME NEW x \in Values, ForgetValue(x)
      PROVE  TablesRight'
  BY <1>1, <1>9 DEF ForgetValue, Forget, Loaded, objects, TablesRight, ObjectsTypeOK
<1>10. ASSUME NEW x \in Values, CollectValue(x)
       PROVE  TablesRight'
  <2>1. /\ x \notin lua /\ live' = live \ {x} /\ lua' = lua /\ alive' = alive \ {object[x]}
        /\ object' = [object EXCEPT ![x] = Nothing] /\ UNCHANGED <<library, fresh>>
    BY <1>10 DEF CollectValue, Collect
  <2>2. \A y \in Values : object'[y] = IF y = x THEN Nothing ELSE object[y]
    BY <1>1, <2>1
  <2>3. ObjectsTypeOK'
    BY <1>1, <2>1 DEF ObjectsTypeOK
  <2>. QED  BY <1>1, <2>1, <2>2, <2>3 DEF TablesRight
<1>11. UNCHANGED allVars => TablesRight'
  BY <1>2 DEF allVars, vars, values
<1>. QED  BY <1>3, <1>4, <1>5, <1>6, <1>7, <1>8, <1>9, <1>10, <1>11 DEF ObjectsNext

LEMMA InitSerial ==
  ASSUME ReferencesAssumption, ObjectsAssumption, ObjectsInit
  PROVE  CInv /\ TablesRight /\ KInv
<1>1. \A k \in Keys : Holders(k) = {}
  BY DEF ObjectsInit, Init, Holders
<1>2. CInv
  BY <1>1 DEF ObjectsInit, Init, CInv, Serial, RefsTyped, Alone, Placed, CountsRight, At, Places
<1>3. TablesRight /\ KInv
  BY DEF ObjectsInit, Init, TablesRight, ObjectsTypeOK, KInv, Kept, StoredLive, ValueKept, ObjectKept,
     ReferencesAssumption, ObjectsAssumption
<1>. QED  BY <1>2, <1>3

\* As long as calls on variants do not overlap, an entry counts the variants
\* that refer to it, and none is left without one: values that C++ lets go of
\* can be collected, whatever the keys are (value_ref, luavalue_ref.cpp).
THEOREM CountsAreHolders == ObjectsSpec => []SerialCount
<1>1. CInv => SerialCount
  BY DEF CInv, Serial, CountsRight, SerialCount, CountIsHolders
<1>2. CInv /\ TablesRight /\ [ObjectsNext]_allVars => CInv' /\ TablesRight'
  BY RefsSerial, NextTables, ReferencesAssumption, ObjectsAssumption DEF TablesRight, ObjectsTypeOK
<1>. QED  BY <1>1, <1>2, InitSerial, ReferencesAssumption, ObjectsAssumption, PTL DEF ObjectsSpec

-----------------------------------------------------------------------------
(* What a variant keeps.                                                   *)

\* A variant that keeps what it shows goes on doing so as long as its entry
\* stays where it is and tables of its object do not come anew.
LEMMA KeepsOn ==
  ASSUME NEW w \in Variants, ValueKept(w), ObjectKept(w), shows'[w] = shows[w], arg'[w] = arg[w],
         shows[w] \in Things => Has(w)' = Has(w) /\ (Has(w) => Entry(w)'.value = Entry(w).value),
         shows[w] \in Objects /\ shows[w] \in alive \ fresh => shows[w] \in (alive \ fresh)',
         \A x \in live' : object'[x] = shows[w] /\ shows[w] \in Objects /\ shows[w] \notin fresh
                            => x \in live /\ object[x] = shows[w],
         ObjectsAssumption
  PROVE  (ValueKept(w) /\ ObjectKept(w))'
BY DEF ValueKept, ObjectKept, ObjectsAssumption

\* A step on one variant takes nothing from another.
LEMMA OtherEntry ==
  ASSUME ReferencesAssumption, Serial, NEW v \in Variants, Step(v), NEW w \in Variants, w # v
  PROVE  /\ shows'[w] = shows[w] /\ arg'[w] = arg[w]
         /\ shows[w] # Nothing => Has(w)' = Has(w) /\ Entry(w)'.value = Entry(w).value
<1>1. /\ (Waits(v) /\ Placed(v)') \/ Adds(v) \/ Drops(v)
      /\ arg'[w] = arg[w] /\ At(w, "idle") /\ Placed(w) /\ RefsTyped /\ CountsRight /\ Key(v) \in Keys
  BY StepDoes, OthersIdle, KeyTyped DEF Serial
<1>2. shows'[w] = shows[w]
  BY <1>1 DEF Waits, Adds, Drops, RefsTyped
<1>3. ASSUME shows[w] # Nothing
      PROVE  Has(w)' = Has(w) /\ Entry(w)'.value = Entry(w).value
  <2>1. /\ init[w] /\ w \in Holders(Key(w)) /\ Has(w) /\ Key(w)' = Key(w) /\ Key(w) \in Keys
        /\ Entry(w) \in [value : Values, count : Int]
        /\ Entry(w).count = Cardinality(Holders(Key(w)))
    BY <1>1, <1>2, <1>3, IdleHolds, HolderCounted, KeyTyped DEF Key
  <2>2. CASE entry'[Key(w)] = entry[Key(w)]
    BY <2>1, <2>2 DEF Has, Entry
  <2>3. CASE Key(w) = Key(v) /\ ~Waits(v)
    <3>1. Entry(w) = Entry(v) /\ Has(v) /\ entry \in [Keys -> [value : Values, count : Int] \cup {Nothing}]
      BY <1>1, <2>1, <2>3 DEF Entry, Has, RefsTyped
    <3>2. ASSUME Drops(v), Entry(v).count = 1
          PROVE  FALSE
      <4>1. v \in Holders(Key(w))
        BY <2>3, <3>2, StepDoes DEF Drops, Holders, Key
      <4>2. IsFiniteSet(Holders(Key(w))) /\ Cardinality(Holders(Key(w))) = 1
        BY <2>1, <3>1, <3>2, HoldersFinite
      <4>3. PICK u : Holders(Key(w)) = {u}
        BY <4>2, FS_Singleton
      <4>. QED  BY <2>1, <4>1, <4>3
    <3>3. PICK n \in Int : entry' = [entry EXCEPT ![Key(w)] = [value |-> Entry(w).value, count |-> n]]
      <4>1. Entry(v).count + 1 \in Int /\ Entry(v).count - 1 \in Int
        BY <2>1, <3>1
      <4>. QED  BY <1>1, <2>3, <3>1, <3>2, <4>1 DEF Adds, Drops
    <3>4. Entry(w)' = [value |-> Entry(w).value, count |-> n]
      BY <2>1, <3>1, <3>3 DEF Entry
    <3>5. Entry(w)' # Nothing
      BY <2>1, <3>4 DEF ReferencesAssumption
    <3>. QED  BY <2>1, <3>4, <3>5 DEF Has
  <2>4. Key(w) # Key(v) \/ Waits(v) => entry'[Key(w)] = entry[Key(w)]
    BY <1>1, <2>1 DEF Waits, Adds, Drops, RefsTyped
  <2>. QED  BY <2>2, <2>3, <2>4
<1>. QED  BY <1>1, <1>2, <1>3

LEMMA StepKeeps ==
  ASSUME ReferencesAssumption, ObjectsAssumption, Serial, Kept, NEW v \in Variants, Step(v), UNCHANGED objects
  PROVE  Kept'
<1>1. /\ shows[v] # Nothing /\ (Waits(v) \/ Adds(v) \/ Drops(v))
      /\ arg' \in [Variants -> Values \cup {Nothing}] /\ live' = live
      /\ lua' = lua \/ (Has(v) /\ lua' = lua \cup {Entry(v).value})
      /\ \A w \in Variants : w # v => arg'[w] = arg[w]
  BY StepDoes
<1>2. /\ RefsTyped /\ Key(v) \in Keys /\ UNCHANGED <<object, alive, fresh>>
      /\ \A k \in Keys : entry[k] # Nothing => entry[k].value \in live
      /\ \A w \in Variants : arg[w] # Nothing => arg[w] \in live
  BY <1>1, KeyTyped DEF Serial, Kept, StoredLive, objects
<1>3. Has(v) => Entry(v).value \in live /\ Entry(v) \in [value : Values, count : Int]
  BY <1>2 DEF Has, Entry, RefsTyped
<1>4. lua' \subseteq live' /\ live' \subseteq Values
  BY <1>1, <1>3 DEF Kept
\* The entry of v after the step.
<1>5. \/ entry' = entry /\ (arg'[v] = arg[v] \/ (arg'[v] = Nothing /\ Has(v)))
      \/ /\ arg'[v] = Nothing /\ \A k \in Keys : k # Key(v) => entry'[k] = entry[k]
         /\ \/ entry'[Key(v)] = Nothing /\ shows'[v] = Nothing
            \/ /\ entry'[Key(v)] # Nothing
               /\ entry'[Key(v)].value = IF Has(v) THEN Entry(v).value ELSE arg[v]
               /\ ~Has(v) => arg[v] # Nothing
  <2>1. CASE Waits(v)
    BY <2>1 DEF Waits
  <2>2. CASE Adds(v)
    <3>1. CASE ~Has(v) /\ arg[v] # Nothing /\ entry' = [entry EXCEPT ![Key(v)] = [value |-> arg[v], count |-> 1]]
      <4>1. [value |-> arg[v], count |-> 1] # Nothing
        BY <1>2, <3>1 DEF ReferencesAssumption, RefsTyped
      <4>. QED  BY <1>2, <2>2, <3>1, <4>1 DEF Adds, RefsTyped
    <3>2. CASE /\ Has(v)
               /\ entry' = [entry EXCEPT ![Key(v)] = [value |-> Entry(v).value, count |-> Entry(v).count + 1]]
      <4>1. [value |-> Entry(v).value, count |-> Entry(v).count + 1] # Nothing
        BY <1>3, <3>2 DEF ReferencesAssumption
      <4>. QED  BY <1>2, <2>2, <3>2, <4>1 DEF Adds, RefsTyped
    <3>. QED  BY <2>2, <3>1, <3>2 DEF Adds
  <2>3. CASE Drops(v)
    <3>1. CASE entry' = [entry EXCEPT ![Key(v)] = Nothing]
      BY <1>2, <2>3, <3>1 DEF Drops, RefsTyped
    <3>2. CASE entry' = [entry EXCEPT ![Key(v)] = [value |-> Entry(v).value, count |-> Entry(v).count - 1]]
      <4>1. [value |-> Entry(v).value, count |-> Entry(v).count - 1] # Nothing
        BY <1>3, <2>3 DEF ReferencesAssumption, Drops
      <4>. QED  BY <1>2, <2>3, <3>2, <4>1 DEF Drops, RefsTyped
    <3>. QED  BY <2>3, <3>1, <3>2 DEF Drops
  <2>. QED  BY <1>1, <2>1, <2>2, <2>3
<1>6. StoredLive'
  <2>1. \A k \in Keys : entry'[k] # Nothing => entry'[k].value \in live
    BY <1>2, <1>3, <1>5
  <2>2. \A w \in Variants : arg'[w] # Nothing => arg'[w] \in live
    BY <1>1, <1>2, <1>5
  <2>. QED  BY <1>1, <2>1, <2>2 DEF StoredLive
<1>7. \A w \in Variants : w # v => (ValueKept(w) /\ ObjectKept(w))'
  <2>. SUFFICES ASSUME NEW w \in Variants, w # v PROVE (ValueKept(w) /\ ObjectKept(w))'
    OBVIOUS
  <2>1. /\ shows'[w] = shows[w] /\ arg'[w] = arg[w]
        /\ shows[w] # Nothing => Has(w)' = Has(w) /\ Entry(w)'.value = Entry(w).value
    BY OtherEntry
  <2>2. shows[w] \in Things => Has(w)' = Has(w) /\ (Has(w) => Entry(w)'.value = Entry(w).value)
    BY <2>1 DEF ReferencesAssumption
  <2>. QED  BY <1>1, <1>2, <2>1, <2>2, KeepsOn DEF Kept
<1>8. (ValueKept(v) /\ ObjectKept(v))'
  <2>1. CASE shows'[v] = Nothing
    BY <2>1 DEF ValueKept, ObjectKept, ReferencesAssumption, ObjectsAssumption
  <2>2. CASE shows'[v] # Nothing
    <3>1. shows'[v] = shows[v] /\ Key(v)' = Key(v)
      BY <1>1, <1>2, <2>2 DEF Waits, Adds, Drops, RefsTyped, Key
    <3>2. ValueKept(v) /\ ObjectKept(v)
      BY DEF Kept
    <3>3. \/ Has(v)' = Has(v) /\ Entry(v)' = Entry(v) /\ (arg'[v] = arg[v] \/ Has(v))
          \/ Has(v)' /\ Entry(v)'.value = IF Has(v) THEN Entry(v).value ELSE arg[v]
      BY <1>5, <2>2, <3>1 DEF Has, Entry
    <3>. QED  BY <1>1, <1>2, <3>1, <3>2, <3>3 DEF ValueKept, ObjectKept
  <2>. QED  BY <2>1, <2>2
<1>. QED  BY <1>4, <1>6, <1>7, <1>8 DEF Kept

\* No object that a variant may show is destroyed or gets another table.
OldTables ==
  /\ \A o \in Objects : o \in alive \ fresh => o \in (alive \ fresh)'
  /\ \A x \in live', o \in Objects : object'[x] = o /\ o \notin fresh => x \in live /\ object[x] = o
  /\ lua' \subseteq live' /\ live \subseteq live' /\ live' \subseteq Values

\* Steps that leave the variants and the storage alone.
LEMMA RefsStayKept ==
  ASSUME ReferencesAssumption, ObjectsAssumption, Kept, OldTables, UNCHANGED <<entry, shows, arg>>
  PROVE  Kept'
<1>1. StoredLive'
  BY DEF Kept, OldTables, StoredLive
<1>2. ASSUME NEW w \in Variants
      PROVE  (ValueKept(w) /\ ObjectKept(w))'
  <2>1. Has(w)' = Has(w) /\ Entry(w)' = Entry(w)
    BY DEF Has, Entry, Key
  <2>. QED  BY <2>1, KeepsOn DEF Kept, OldTables
<1>. QED  BY <1>1, <1>2 DEF Kept, OldTables

\* Who is the holder of an entry, when keys tell things apart.
LEMMA EntryIsShown ==
  ASSUME ReferencesAssumption, OwnKeys, Serial, NEW thing \in Things, entry[KeyOf[thing]] # Nothing
  PROVE  \E w \in Variants : shows[w] = thing /\ Has(w) /\ Entry(w) = entry[KeyOf[thing]]
<1>1. KeyOf[thing] \in Keys /\ CountsRight /\ RefsTyped
  BY DEF ReferencesAssumption, Serial
<1>2. PICK w \in Holders(KeyOf[thing]) : TRUE
  BY <1>1 DEF CountsRight
<1>3. w \in Variants /\ shows[w] \in Things /\ KeyOf[shows[w]] = KeyOf[thing]
  BY <1>1, <1>2 DEF Holders, RefsTyped
<1>4. shows[w] = thing
  BY <1>3 DEF OwnKeys
<1>. QED  BY <1>3, <1>4 DEF Has, Entry, Key

\* What a new reference finds in the entry, or will put there.
Found(thing, x) == IF entry[KeyOf[thing]] # Nothing THEN entry[KeyOf[thing]].value ELSE x

LEMMA StartKeeps ==
  ASSUME ReferencesAssumption, ObjectsAssumption, Serial, Kept, OldTables,
         NEW v \in Variants, NEW thing \in Things, NEW x \in Values \cup {Nothing}, Starts(v, thing, x),
         x # Nothing => x \in live',
         thing \in Values => Found(thing, x) = thing,
         thing \in Objects => /\ thing \in (alive \ fresh)'
                              /\ \A y \in live' : object'[y] = thing => Found(thing, x) = y
  PROVE  Kept'
<1>1. /\ RefsTyped /\ shows' = [shows EXCEPT ![v] = thing] /\ arg' = [arg EXCEPT ![v] = x] /\ entry' = entry
  BY DEF Starts, NewRef, Serial
<1>2. /\ shows'[v] = thing /\ arg'[v] = x
      /\ \A w \in Variants : w # v => shows'[w] = shows[w] /\ arg'[w] = arg[w]
  BY <1>1 DEF RefsTyped
<1>3. StoredLive'
  BY <1>1, <1>2 DEF Kept, OldTables, StoredLive
<1>4. ASSUME NEW w \in Variants, w # v
      PROVE  (ValueKept(w) /\ ObjectKept(w))'
  <2>1. shows'[w] = shows[w] /\ arg'[w] = arg[w] /\ Has(w)' = Has(w) /\ Entry(w)' = Entry(w)
    BY <1>1, <1>2, <1>4 DEF Has, Entry, Key
  <2>. QED  BY <2>1, KeepsOn DEF Kept, OldTables
<1>5. (ValueKept(v) /\ ObjectKept(v))'
  <2>1. Entry(v)' = entry[KeyOf[thing]] /\ (Has(v)' <=> entry[KeyOf[thing]] # Nothing)
    BY <1>1, <1>2 DEF Has, Entry, Key
  <2>. QED  BY <1>2, <2>1 DEF ValueKept, ObjectKept, Found
<1>. QED  BY <1>3, <1>4, <1>5 DEF Kept, OldTables

\* Collecting a value: what is stored or about to be is not collected.
LEMMA CollectKeeps ==
  ASSUME ReferencesAssumption, ObjectsAssumption, Serial, Kept, TablesRight, NEW c \in Values, CollectValue(c)
  PROVE  Kept'
<1>1. /\ c \in live \ lua /\ c \notin Stored /\ \A w \in Variants : arg[w] # c
      /\ live' = live \ {c} /\ lua' = lua /\ UNCHANGED <<entry, shows, arg, fresh>>
      /\ alive' = alive \ {object[c]} /\ object' = [object EXCEPT ![c] = Nothing]
      /\ object \in [Values -> Objects \cup {Nothing}]
  BY DEF CollectValue, Collect, refs, TablesRight, ObjectsTypeOK
<1>2. StoredLive'
  BY <1>1 DEF Kept, StoredLive, Stored
<1>3. ASSUME NEW w \in Variants
      PROVE  (ValueKept(w) /\ ObjectKept(w))'
  <2>1. ValueKept(w) /\ ObjectKept(w)
    BY DEF Kept
  <2>2. Has(w)' = Has(w) /\ Entry(w)' = Entry(w)
    BY <1>1 DEF Has, Entry, Key
  <2>3. \A x \in live' : object'[x] = object[x] /\ x \in live
    BY <1>1 DEF Kept
  <2>4. ASSUME shows[w] \in Objects
        PROVE  object[c] # shows[w]
    <3>1. Key(w) \in Keys
      BY <2>4, KeyTyped DEF Serial, ReferencesAssumption, ObjectsAssumption
    <3>2. Has(w) => Entry(w).value # c
      BY <1>1, <3>1 DEF Has, Entry, Stored
    <3>. QED  BY <1>1, <2>1, <2>4, <3>2 DEF ObjectKept
  <2>. QED  BY <1>1, <2>1, <2>2, <2>3, <2>4 DEF ValueKept, ObjectKept
<1>. QED  BY <1>1, <1>2, <1>3 DEF Kept

LEMMA KeptSerially ==
  ASSUME ReferencesAssumption, ObjectsAssumption, OwnKeys, CInv, TablesRight, KInv, [ObjectsNext]_allVars
  PROVE  KInv'
<1>. SUFFICES ASSUME raced' = 0 PROVE Kept'
  BY DEF KInv
\* Calls that overlap others stay so.
<1>1. raced \in Nat /\ (raced = 0 => Serial /\ Kept)
  BY DEF CInv, KInv
<1>2. /\ object \in [Values -> Objects \cup {Nothing}] /\ Nothing \notin Objects /\ Nothing \notin Values
      /\ \A x \in Values : object[x] # Nothing =>
           x \in live /\ object[x] \in alive \ fresh /\ \A y \in Values : object[y] = object[x] => y = x
      /\ \A n \in Names : library[n] # Nothing => library[n] \in lua
      /\ fresh \subseteq alive /\ alive \subseteq Objects
  BY DEF TablesRight, ObjectsTypeOK, ReferencesAssumption, ObjectsAssumption
<1>3. ASSUME UNCHANGED objects, live' = live, lua' = lua, raced = 0
      PROVE  OldTables
  BY <1>1, <1>3 DEF OldTables, objects, Kept
<1>4. ASSUME NEW v \in Variants, Step(v), UNCHANGED objects
      PROVE  Kept'
  <2>1. raced' = raced
    BY <1>4 DEF Step, HasReference, SetValue, CreateMetadata, ReadCount, Increment, Replace, Push,
       GetCount, DeleteMetadata, Decrement
  <2>. QED  BY <1>1, <1>4, <2>1, StepKeeps
<1>5. ASSUME NEW v \in Variants, NEW w \in Variants, Copy(v, w), UNCHANGED objects
      PROVE  Kept'
  <2>1. Begin(v) /\ live' = live /\ lua' = lua
    BY <1>5 DEF Copy, values
  <2>2. raced = 0 /\ Serial /\ Kept
    BY <1>1, <2>1, BeginsQuiet
  <2>3. Starts(v, shows[w], Nothing) /\ shows[w] \in Things /\ Has(w) /\ Nothing \in Values \cup {Nothing}
    BY <1>5, <2>2, CopyStarts
  <2>4. Found(shows[w], Nothing) = Entry(w).value
    BY <2>3 DEF Found, Has, Entry, Key
  <2>5. ValueKept(w) /\ ObjectKept(w)
    BY <2>2 DEF Kept
  <2>6. shows[w] \in Values => Found(shows[w], Nothing) = shows[w]
    BY <2>3, <2>4, <2>5 DEF ValueKept
  <2>7. shows[w] \in Objects => /\ shows[w] \in (alive \ fresh)'
                                /\ \A y \in live' : object'[y] = shows[w] => Found(shows[w], Nothing) = y
    BY <1>5, <2>1, <2>3, <2>4, <2>5 DEF ObjectKept, objects
  <2>. QED  BY <1>3, <1>5, <2>1, <2>2, <2>3, <2>6, <2>7, StartKeeps
<1>6. ASSUME NEW v \in Variants, NEW place \in {"push", "count"}, Use(v, place), UNCHANGED objects
      PROVE  Kept'
  <2>1. Begin(v) /\ live' = live /\ lua' = lua /\ UNCHANGED <<entry, shows, arg>>
    BY <1>6 DEF Use, values
  <2>. QED  BY <1>1, <1>3, <1>6, <2>1, BeginsQuiet, RefsStayKept
<1>7. ASSUME NEW v \in Variants, NEW x \in Values, PlainFromState(v, x)
      PROVE  Kept'
  <2>1. Starts(v, x, x) /\ x \in Things /\ Begin(v) /\ x \in lua /\ live' = live /\ lua' = lua /\ UNCHANGED objects
    BY <1>7 DEF PlainFromState, FromState, Starts, ReferencesAssumption, values
  <2>2. raced = 0 /\ Serial /\ Kept
    BY <1>1, <2>1, BeginsQuiet
  <2>3. Found(x, x) = x
    <3>1. CASE entry[KeyOf[x]] # Nothing
      <4>1. PICK w \in Variants : shows[w] = x /\ Has(w) /\ Entry(w) = entry[KeyOf[x]]
        BY <2>1, <2>2, <3>1, EntryIsShown
      <4>. QED  BY <2>2, <3>1, <4>1 DEF Found, Kept, ValueKept
    <3>. QED  BY <3>1 DEF Found
  <2>4. x \in live' /\ x \notin Objects
    BY <2>1, <2>2 DEF Kept, ObjectsAssumption
  <2>. QED  BY <1>3, <2>1, <2>2, <2>3, <2>4, StartKeeps
<1>8. ASSUME NEW v \in Variants, NEW x \in Values, ObjectFromState(v, x)
      PROVE  Kept'
  <2>. DEFINE o == object[x]
  <2>1. /\ Starts(v, o, x) /\ o \in Objects /\ o \in Things /\ Begin(v) /\ x \in lua
        /\ live' = live /\ lua' = lua /\ UNCHANGED objects
    BY <1>2, <1>8 DEF ObjectFromState, Starts, ReferencesAssumption, ObjectsAssumption, values
  <2>2. raced = 0 /\ Serial /\ Kept
    BY <1>1, <2>1, BeginsQuiet
  <2>3. x \in live /\ o \in alive \ fresh /\ \A y \in Values : object[y] = o => y = x
    BY <1>2, <2>1, <2>2 DEF Kept
  <2>4. Found(o, x) = x
    <3>1. CASE entry[KeyOf[o]] # Nothing
      <4>1. PICK w \in Variants : shows[w] = o /\ Has(w) /\ Entry(w) = entry[KeyOf[o]]
        BY <2>1, <2>2, <3>1, EntryIsShown
      <4>2. ObjectKept(w)
        BY <2>2 DEF Kept
      <4>. QED  BY <2>1, <2>3, <3>1, <4>1, <4>2 DEF Found, ObjectKept
    <3>. QED  BY <3>1 DEF Found
  <2>5. o \in (alive \ fresh)' /\ \A y \in live' : object'[y] = o => Found(o, x) = y
    BY <2>1, <2>2, <2>3, <2>4 DEF objects, Kept
  <2>6. o \notin Values
    BY <2>1 DEF ObjectsAssumption
  <2>. HIDE DEF o
  <2>. QED  BY <1>3, <2>1, <2>2, <2>3, <2>5, <2>6, StartKeeps
<1>9. ASSUME NEW v \in Variants, NEW o \in Objects, ObjectFromReference(v, o)
      PROVE  Kept'
  <2>1. /\ Begin(v) /\ o \in alive /\ o \in Things /\ o \notin Values /\ shows[v] = Nothing
        /\ lua' = lua /\ alive' = alive
    BY <1>9 DEF ObjectFromReference, ObjectsAssumption
  <2>2. raced = 0 /\ Serial /\ Kept
    BY <1>1, <2>1, BeginsQuiet
  <2>3. CASE entry[KeyOf[o]] # Nothing /\ NewRef(v, o, Nothing) /\ UNCHANGED <<live, object, fresh>>
    <3>1. Starts(v, o, Nothing) /\ UNCHANGED objects
      BY <1>9, <2>1, <2>3 DEF Starts, ObjectFromReference, objects
    <3>2. PICK w \in Variants : shows[w] = o /\ Has(w) /\ Entry(w) = entry[KeyOf[o]]
      BY <2>1, <2>2, <2>3, EntryIsShown
    <3>3. ObjectKept(w)
      BY <2>2 DEF Kept
    <3>4. o \in (alive \ fresh)' /\ \A y \in live' : object'[y] = o => Found(o, Nothing) = y
      BY <2>1, <2>3, <3>2, <3>3 DEF Found, ObjectKept
    <3>5. Nothing \in Values \cup {Nothing}
      OBVIOUS
    <3>. QED  BY <1>3, <2>1, <2>2, <2>3, <3>1, <3>4, <3>5, StartKeeps
  <2>4. ASSUME NEW x \in Values \ live, entry[KeyOf[o]] = Nothing, o \in fresh, fresh' = fresh \ {o},
               NewRef(v, o, x), live' = live \cup {x}, object' = [object EXCEPT ![x] = o]
        PROVE  Kept'
    <3>1. Starts(v, o, x) /\ Found(o, x) = x /\ x \in live'
      BY <1>2, <2>1, <2>4 DEF Starts, Found
    <3>2. \A y \in Values : object'[y] = IF y = x THEN o ELSE object[y]
      BY <1>2, <2>4
    <3>3. live' \subseteq Values
      BY <2>2, <2>4 DEF Kept
    <3>4. OldTables
      BY <1>2, <2>1, <2>2, <2>4, <3>2, <3>3 DEF OldTables, Kept
    <3>5. o \in (alive \ fresh)' /\ \A y \in live' : object'[y] = o => Found(o, x) = y
      BY <1>2, <2>1, <2>4, <3>1, <3>2, <3>3
    <3>. QED  BY <2>1, <2>2, <3>1, <3>4, <3>5, StartKeeps
  <2>. QED  BY <1>9, <2>3, <2>4 DEF ObjectFromReference
\* Steps of libraries and of Lua.
<1>10. ASSUME OldTables, UNCHANGED <<refs, raced>>
       PROVE  Kept'
  BY <1>1, <1>10, RefsStayKept DEF refs
<1>11. ASSUME NEW n \in Names, NEW x \in Values, Required(n, x), raced = 0
       PROVE  lua' \subseteq live' /\ live \subseteq live' /\ live' \subseteq Values /\ (x \in live \/ object[x] = Nothing)
  BY <1>1, <1>2, <1>11 DEF Required, Kept
<1>12. ASSUME NEW n \in Names, NEW o \in Objects, LoadLibrary(n, o)
       PROVE  Kept'
  <2>1. PICK x \in Values : /\ Required(n, x) /\ (o \in fresh \/ object[x] = o)
                            /\ object' = [object EXCEPT ![x] = o]
    BY <1>12 DEF LoadLibrary
  <2>2. fresh' = fresh \ {o} /\ alive' = alive /\ live' = live \cup {x} /\ UNCHANGED <<refs, raced>>
    BY <1>12, <2>1 DEF LoadLibrary, Required
  <2>3. raced = 0 /\ \A y \in Values : object'[y] = IF y = x THEN o ELSE object[y]
    BY <1>2, <2>1, <2>2
  <2>4. OldTables
    BY <1>2, <1>11, <2>1, <2>2, <2>3 DEF OldTables
  <2>. QED  BY <1>10, <2>2, <2>4
<1>13. ASSUME NEW n \in Names, GetLibrary(n) \/ Unload(n)
       PROVE  Kept'
  <2>1. CASE GetLibrary(n)
    <3>1. PICK x \in Values : Required(n, x)
      BY <2>1 DEF GetLibrary
    <3>2. live' = live \cup {x} /\ UNCHANGED <<refs, raced, object, alive, fresh>>
      BY <2>1, <3>1 DEF GetLibrary, Required
    <3>3. OldTables
      BY <1>2, <1>11, <3>1, <3>2 DEF OldTables
    <3>. QED  BY <1>10, <3>2, <3>3
  <2>2. CASE Unload(n)
    <3>1. UNCHANGED <<refs, raced, lua, live, object, alive, fresh>>
      BY <2>2 DEF Unload, vars, values
    <3>. QED  BY <1>1, <1>10, <3>1 DEF OldTables, Kept
  <2>. QED  BY <1>13, <2>1, <2>2
<1>14. ASSUME NEW x \in Values, (NewValue(x) /\ UNCHANGED objects) \/ ForgetValue(x)
       PROVE  Kept'
  <2>1. CASE NewValue(x) /\ UNCHANGED objects
    <3>1. UNCHANGED <<refs, raced, objects>> /\ lua' = lua \cup {x} /\ live' = live \cup {x} /\ x \notin live
      BY <2>1 DEF NewValue
    <3>2. object[x] = Nothing
      BY <1>2, <3>1
    <3>. QED  BY <1>1, <1>2, <1>10, <3>1, <3>2 DEF OldTables, Kept, objects
  <2>2. CASE ForgetValue(x)
    <3>1. UNCHANGED <<refs, raced, objects, live>> /\ lua' \subseteq lua
      BY <2>2 DEF ForgetValue, Forget
    <3>. QED  BY <1>1, <1>10, <3>1 DEF OldTables, Kept, objects
  <2>. QED  BY <1>14, <2>1, <2>2
<1>15. ASSUME NEW x \in Values, CollectValue(x)
       PROVE  Kept'
  BY <1>1, <1>15, CollectKeeps DEF CollectValue, Collect
<1>16. UNCHANGED allVars => Kept'
  BY <1>1, <1>3, <1>10 DEF allVars, vars, values
<1>. QED  BY <1>4, <1>5, <1>6, <1>7, <1>8, <1>9, <1>12, <1>13, <1>14, <1>15, <1>16 DEF ObjectsNext, Call

\* As long as calls on variants do not overlap and keys tell addresses apart,
\* what a variant refers to lives: the Lua value, whatever other variants do,
\* and the object, with its destructor not run (value_ref, luavalue_ref.cpp;
\* _on_obj_removed, luaobject_util.cpp).
THEOREM VariantsKeepWhatTheyShow ==
  ASSUME OwnKeys
  PROVE  ObjectsSpec => []VariantKeepsWhatItShows
<1>1. CInv /\ TablesRight /\ KInv => VariantKeepsWhatItShows
  <2>. SUFFICES ASSUME CInv, TablesRight, KInv, raced = 0
                PROVE  /\ \A v \in Variants : At(v, "idle") /\ shows[v] \in Values =>
                            init[v] /\ Has(v) /\ Entry(v).value = shows[v] /\ shows[v] \in live
                       /\ \A x \in live : object[x] # Nothing => object[x] \in alive
                       /\ \A v \in Variants : At(v, "idle") /\ shows[v] \in Objects => shows[v] \in alive
    BY DEF VariantKeepsWhatItShows, VariantKeepsValue, ObjectsAlive
  <2>1. Serial /\ Kept
    BY DEF CInv, KInv
  <2>2. ASSUME NEW v \in Variants, At(v, "idle"), shows[v] \in Values
        PROVE  init[v] /\ Has(v) /\ Entry(v).value = shows[v] /\ shows[v] \in live
    <3>1. shows[v] # Nothing /\ ReferencesAssumption
      BY <2>2, ReferencesAssumption DEF ReferencesAssumption
    <3>2. init[v]
      BY <2>1, <2>2, <3>1, IdleHolds DEF Serial
    <3>3. Has(v) /\ Key(v) \in Keys
      BY <2>1, <3>1, <3>2, HolderCounted, KeyTyped DEF Serial
    <3>. QED  BY <2>1, <2>2, <3>2, <3>3 DEF Kept, ValueKept, StoredLive, Has, Entry
  <2>3. \A x \in live : object[x] # Nothing => object[x] \in alive
    BY <2>1 DEF Kept, TablesRight
  <2>4. \A v \in Variants : At(v, "idle") /\ shows[v] \in Objects => shows[v] \in alive
    BY <2>1 DEF Kept, ObjectKept
  <2>. QED  BY <2>2, <2>3, <2>4
<1>2. CInv /\ TablesRight /\ KInv /\ [ObjectsNext]_allVars => CInv' /\ TablesRight' /\ KInv'
  BY RefsSerial, NextTables, KeptSerially, ReferencesAssumption, ObjectsAssumption, OwnKeys DEF TablesRight, ObjectsTypeOK
<1>. QED  BY <1>1, <1>2, InitSerial, ReferencesAssumption, ObjectsAssumption, PTL DEF ObjectsSpec

-----------------------------------------------------------------------------
(* The files.                                                              *)

\* A set of naturals has a least element, which is how the two proofs below go
\* about sequences and sets: nothing smaller can be a counterexample.
LEMMA LeastElement ==
  ASSUME NEW T \in SUBSET Nat, T # {}
  PROVE  \E m \in T : \A y \in T : m <= y
<1>. DEFINE Before(n) == 0 .. n - 1
            D == {Before(n) : n \in T}
<1>1. D \subseteq FiniteSubsetsOf(Nat) /\ D # {}
  <2>1. \A n \in T : IsFiniteSet(Before(n)) /\ Before(n) \subseteq Nat
    BY FS_Interval
  <2>. QED  BY <2>1 DEF FiniteSubsetsOf
<1>2. PICK x \in D : \A y \in D : <<y, x>> \notin StrictSubsetOrdering(Nat)
  <2>. HIDE DEF D
  <2>1. IsWellFoundedOn(StrictSubsetOrdering(Nat), FiniteSubsetsOf(Nat))
    BY FS_StrictSubsetOrderingWellFounded
  <2>. QED  BY <1>1, <2>1, WFMin
<1>3. PICK m \in T : x = Before(m)
  OBVIOUS
<1>4. ASSUME NEW y \in T, y < m PROVE FALSE
  <2>1. Before(y) \in D /\ Before(y) \subseteq Before(m) /\ y \in Before(m) /\ y \notin Before(y) /\ Before(m) \subseteq Nat
    BY <1>4
  <2>. HIDE DEF Before, D
  <2>. QED  BY <1>2, <1>3, <2>1 DEF StrictSubsetOrdering
<1>. QED  BY <1>4

\* What WithoutEnds gives for the first n characters of s, for every n.
Unended(f, s, n) ==
  f = [i \in 0..n |-> IF i = 0 THEN <<>> ELSE IF s[i] = NL THEN f[i - 1] ELSE Append(f[i - 1], s[i])]

LEMMA KeptExists ==
  ASSUME NEW s, NEW n \in Nat
  PROVE  \E f : Unended(f, s, n)
<1>. DEFINE Bad == {m \in Nat : ~ \E f : Unended(f, s, m)}
<1>1. SUFFICES ASSUME Bad # {} PROVE FALSE
  OBVIOUS
<1>2. PICK m \in Bad : \A y \in Bad : m <= y
  BY <1>1, LeastElement
<1>3. m # 0
  <2>1. Unended([i \in 0..0 |-> <<>>], s, 0)
    BY DEF Unended
  <2>. QED  BY <2>1
<1>4. m - 1 \in Nat /\ m - 1 \notin Bad
  BY <1>2, <1>3
<1>5. PICK f : Unended(f, s, m - 1)
  BY <1>4
<1>. DEFINE g == [i \in 0..m |-> IF i < m THEN f[i] ELSE IF s[m] = NL THEN f[m - 1] ELSE Append(f[m - 1], s[m])]
<1>6. Unended(g, s, m)
  <2>1. ASSUME NEW i \in 0..m
        PROVE  g[i] = IF i = 0 THEN <<>> ELSE IF s[i] = NL THEN g[i - 1] ELSE Append(g[i - 1], s[i])
    <3>1. CASE i < m
      <4>1. i \in 0..m - 1 /\ g[i] = f[i] /\ (i # 0 => i - 1 \in 0..m /\ g[i - 1] = f[i - 1])
        BY <3>1
      <4>2. f[i] = IF i = 0 THEN <<>> ELSE IF s[i] = NL THEN f[i - 1] ELSE Append(f[i - 1], s[i])
        BY <1>5, <4>1 DEF Unended
      <4>. QED  BY <4>1, <4>2
    <3>2. CASE i = m
      <4>1. g[m] = IF s[m] = NL THEN f[m - 1] ELSE Append(f[m - 1], s[m])
        OBVIOUS
      <4>2. g[m - 1] = f[m - 1]
        BY <1>4
      <4>. HIDE DEF g
      <4>. QED  BY <1>3, <3>2, <4>1, <4>2
    <3>. QED  BY <3>1, <3>2
  <2>2. g = [i \in 0..m |-> g[i]]
    OBVIOUS
  <2>. HIDE DEF g
  <2>. QED  BY <2>1, <2>2 DEF Unended
<1>. QED  BY <1>6

LEMMA KeptAt ==
  ASSUME NEW f, NEW s, NEW n \in Nat, Unended(f, s, n), NEW i \in 0..n
  PROVE  f[i] = IF i = 0 THEN <<>> ELSE IF s[i] = NL THEN f[i - 1] ELSE Append(f[i - 1], s[i])
BY DEF Unended

LEMMA KeptSame ==
  ASSUME NEW s, NEW t, NEW f, NEW g, NEW m \in Nat, NEW n \in Nat, Unended(f, s, m), Unended(g, t, n),
         NEW k \in Nat, k <= m, k <= n, \A i \in 1..k : s[i] = t[i]
  PROVE  f[k] = g[k]
<1>. DEFINE Bad == {i \in 0..k : f[i] # g[i]}
<1>1. SUFFICES ASSUME Bad # {} PROVE FALSE
  OBVIOUS
<1>2. PICK i \in Bad : \A y \in Bad : i <= y
  <2>1. Bad \in SUBSET Nat
    OBVIOUS
  <2>. QED  BY <1>1, <2>1, LeastElement
<1>3. /\ f[i] = IF i = 0 THEN <<>> ELSE IF s[i] = NL THEN f[i - 1] ELSE Append(f[i - 1], s[i])
      /\ g[i] = IF i = 0 THEN <<>> ELSE IF t[i] = NL THEN g[i - 1] ELSE Append(g[i - 1], t[i])
  <2>1. i \in 0..m /\ i \in 0..n
    OBVIOUS
  <2>. QED  BY <2>1 DEF Unended
<1>4. i # 0
  BY <1>3
<1>5. i \in 1..k /\ f[i - 1] = g[i - 1]
  BY <1>2, <1>4
<1>. QED  BY <1>3, <1>4, <1>5

\* WithoutEnds is such a function; so it goes along s, part by part.
LEMMA WithoutEndsKept ==
  ASSUME NEW s, Len(s) \in Nat
  PROVE  \E f : Unended(f, s, Len(s)) /\ WithoutEnds(s) = f[Len(s)]
<1>. DEFINE F == CHOOSE f : Unended(f, s, Len(s))
<1>1. WithoutEnds(s) = F[Len(s)]
  BY DEF WithoutEnds, Unended
<1>2. Unended(F, s, Len(s))
  <2>1. \E f : Unended(f, s, Len(s))
    BY KeptExists
  <2>. QED  BY <2>1
<1>. QED  BY <1>1, <1>2

LEMMA WithoutEndsEmpty == WithoutEnds(<<>>) = <<>>
<1>1. PICK f : Unended(f, <<>>, 0) /\ WithoutEnds(<<>>) = f[0]
  BY WithoutEndsKept
<1>. QED  BY <1>1 DEF Unended

LEMMA WithoutEndsAppend ==
  ASSUME NEW S, NEW s \in Seq(S), NEW c \in S
  PROVE  WithoutEnds(Append(s, c)) = IF c = NL THEN WithoutEnds(s) ELSE Append(WithoutEnds(s), c)
<1>. DEFINE n == Len(s)
            t == Append(s, c)
<1>1. n \in Nat /\ Len(t) = n + 1 /\ t[n + 1] = c /\ \A i \in 1..n : s[i] = t[i]
  OBVIOUS
<1>. HIDE DEF n, t
<1>2. PICK f : Unended(f, s, n) /\ WithoutEnds(s) = f[n]
  BY <1>1, WithoutEndsKept DEF n
<1>. DEFINE m == Len(t)
<1>0. m \in Nat /\ m \in 0..m /\ m # 0 /\ m - 1 = n /\ t[m] = c /\ n <= m
  BY <1>1
<1>3. PICK g : Unended(g, t, m) /\ WithoutEnds(t) = g[m]
  BY <1>0, WithoutEndsKept
<1>. HIDE DEF m
<1>4. f[n] = g[n]
  BY <1>0, <1>1, <1>2, <1>3, KeptSame
<1>5. g[m] = IF t[m] = NL THEN g[n] ELSE Append(g[n], t[m])
  <2>1. g[m] = IF m = 0 THEN <<>> ELSE IF t[m] = NL THEN g[m - 1] ELSE Append(g[m - 1], t[m])
    BY <1>0, <1>3, KeptAt
  <2>. QED  BY <1>0, <2>1
<1>. QED  BY <1>0, <1>2, <1>3, <1>4, <1>5 DEF t

LEMMA WithoutEndsType ==
  ASSUME NEW S, NEW s \in Seq(S)
  PROVE  WithoutEnds(s) \in Seq(S)
<1>. DEFINE Bad == {n \in Nat : \E t \in Seq(S) : Len(t) = n /\ WithoutEnds(t) \notin Seq(S)}
<1>1. SUFFICES ASSUME Bad # {} PROVE FALSE
  OBVIOUS
<1>2. PICK n \in Bad : \A y \in Bad : n <= y
  BY <1>1, LeastElement
<1>3. PICK t \in Seq(S) : Len(t) = n /\ WithoutEnds(t) \notin Seq(S)
  OBVIOUS
<1>4. t # <<>>
  BY <1>3, WithoutEndsEmpty
<1>5. PICK u \in Seq(S), c \in S : t = Append(u, c)
  BY <1>4, SequenceEmptyOrAppend
<1>6. WithoutEnds(u) \in Seq(S)
  <2>1. Len(u) = n - 1 /\ Len(u) \in Nat
    BY <1>3, <1>5
  <2>2. Len(u) \notin Bad
    BY <1>2, <2>1
  <2>. QED  BY <2>1, <2>2
<1>7. WithoutEnds(t) \in Seq(S)
  <2>1. WithoutEnds(t) = IF c = NL THEN WithoutEnds(u) ELSE Append(WithoutEnds(u), c)
    BY <1>5, WithoutEndsAppend
  <2>. QED  BY <1>6, <2>1
<1>. QED  BY <1>3, <1>7

LEMMA WithoutEndsConcat ==
  ASSUME NEW S, NEW s \in Seq(S), NEW t \in Seq(S)
  PROVE  WithoutEnds(s \o t) = WithoutEnds(s) \o WithoutEnds(t)
<1>. DEFINE Differs(u) == WithoutEnds(s \o u) # WithoutEnds(s) \o WithoutEnds(u)
            Bad == {n \in Nat : \E u \in Seq(S) : Len(u) = n /\ Differs(u)}
<1>1. SUFFICES ASSUME Bad # {} PROVE FALSE
  OBVIOUS
<1>2. PICK n \in Bad : \A y \in Bad : n <= y
  BY <1>1, LeastElement
<1>3. PICK u \in Seq(S) : Len(u) = n /\ Differs(u)
  OBVIOUS
<1>4. u # <<>>
  <2>1. s \o <<>> = s /\ WithoutEnds(s) \o <<>> = WithoutEnds(s)
    BY WithoutEndsType
  <2>. QED  BY <1>3, <2>1, WithoutEndsEmpty
<1>5. PICK v \in Seq(S), c \in S : u = Append(v, c)
  BY <1>4, SequenceEmptyOrAppend
<1>6. ~Differs(v)
  <2>1. Len(v) = n - 1 /\ Len(v) \in Nat
    BY <1>3, <1>5
  <2>2. Len(v) \notin Bad
    BY <1>2, <2>1
  <2>. QED  BY <2>1, <2>2
<1>7. s \o u = Append(s \o v, c) /\ s \o v \in Seq(S)
  BY <1>5
<1>8. WithoutEnds(s \o u) = IF c = NL THEN WithoutEnds(s \o v) ELSE Append(WithoutEnds(s \o v), c)
  BY <1>7, WithoutEndsAppend
<1>9. WithoutEnds(u) = IF c = NL THEN WithoutEnds(v) ELSE Append(WithoutEnds(v), c)
  BY <1>5, WithoutEndsAppend
<1>10. WithoutEnds(s) \in Seq(S) /\ WithoutEnds(v) \in Seq(S)
  BY WithoutEndsType
<1>11. WithoutEnds(s) \o Append(WithoutEnds(v), c) = Append(WithoutEnds(s) \o WithoutEnds(v), c)
  BY <1>10
<1>. QED  BY <1>3, <1>6, <1>8, <1>9, <1>11

LEMMA WithoutEndsNothing ==
  ASSUME NEW S, NEW s \in Seq(S), \A i \in 1..Len(s) : s[i] = NL
  PROVE  WithoutEnds(s) = <<>>
<1>. DEFINE Ends(t) == \A i \in 1..Len(t) : t[i] = NL
            Bad == {n \in Nat : \E t \in Seq(S) : Len(t) = n /\ Ends(t) /\ WithoutEnds(t) # <<>>}
<1>1. SUFFICES ASSUME Bad # {} PROVE FALSE
  OBVIOUS
<1>2. PICK n \in Bad : \A y \in Bad : n <= y
  BY <1>1, LeastElement
<1>3. PICK t \in Seq(S) : Len(t) = n /\ Ends(t) /\ WithoutEnds(t) # <<>>
  OBVIOUS
<1>4. t # <<>>
  BY <1>3, WithoutEndsEmpty
<1>5. PICK u \in Seq(S), c \in S : t = Append(u, c)
  BY <1>4, SequenceEmptyOrAppend
<1>6. WithoutEnds(u) = <<>>
  <2>1. Len(u) = n - 1 /\ Len(u) \in Nat /\ Ends(u)
    BY <1>3, <1>5
  <2>2. Len(u) \notin Bad
    BY <1>2, <2>1
  <2>. QED  BY <2>1, <2>2
<1>7. c = NL
  BY <1>3, <1>5
<1>. QED  BY <1>3, <1>5, <1>6, <1>7, WithoutEndsAppend

-----------------------------------------------------------------------------

\* What programs write are sequences of Chars, and no content is Missing.
Contents(Chars) == Strings \subseteq Seq(Chars) /\ Missing \notin Seq(Chars)

Flaggable == {"write", "special", "append", "automatic_close", "temporary", "preserve"}

FileTypes(Chars) ==
  /\ disk \in [Files \cup Temps -> Seq(Chars) \cup {Missing}]
  /\ stage \in [Handlers -> {"none", "open", "closed", "deleted"}]
  /\ file \in [Handlers -> Files \cup Temps] /\ op \in [Handlers -> SUBSET Flaggable]
  /\ pos \in [Handlers -> Nat] /\ least \in [Handlers -> Nat] /\ taken \in [Handlers -> Seq(Chars)]
  /\ buffering \in [Handlers -> {"no", "full", "line"}] /\ dirty \in [Handlers -> BOOLEAN]
  /\ anchored \subseteq Handlers /\ held \subseteq Handlers /\ iterators \subseteq Handlers
  /\ output \in Handlers \cup {StdOut}

\* An open handler stands in the content of its file.
InItsFile(Chars, h) ==
  /\ Text(h) \in Seq(Chars) /\ pos[h] <= Len(Text(h)) /\ least[h] <= Len(Text(h))
  /\ taken[h] = WithoutEnds(SubSeq(Text(h), 1, pos[h]))
  /\ h \in anchored
  /\ "temporary" \in op[h] <=> file[h] \in Temps
  /\ ~("temporary" \in op[h] /\ "append" \in op[h])

NotInAFile(h) == pos[h] = 0 /\ taken[h] = <<>> /\ ~dirty[h]

\* A file is open in one handler at a time.
OneOpener == \A h, g \in Handlers : Opened(h) /\ Opened(g) /\ file[h] = file[g] => h = g

\* The inductive invariant: an open handler has its file, stands in it, and what
\* it has read and skipped is the file up to there.
FilesInv(Chars) ==
  /\ FileTypes(Chars)
  /\ \A h \in Handlers : IF Opened(h) THEN InItsFile(Chars, h) ELSE NotInAFile(h)
  /\ OneOpener /\ TemporaryWhileOpen

LEMMA FilesStart ==
  ASSUME NEW Chars, Contents(Chars), FilesInit
  PROVE  FilesInv(Chars)
<1>1. (CHOOSE f \in Files : TRUE) \in Files
  BY FileAssumption
<1>2. FileTypes(Chars)
  <2>1. file \in [Handlers -> Files \cup Temps]
    BY <1>1 DEF FilesInit
  <2>2. disk \in [Files \cup Temps -> Seq(Chars) \cup {Missing}]
    <3>1. <<>> \in Seq(Chars)
      OBVIOUS
    <3>2. {<<>>, Missing} \subseteq Seq(Chars) \cup {Missing}
      BY <3>1
    <3>. QED  BY <3>2 DEF FilesInit
  <2>3. taken \in [Handlers -> Seq(Chars)]
    BY DEF FilesInit
  <2>. QED  BY <2>1, <2>2, <2>3 DEF FilesInit, FileTypes, Flaggable
<1>3. \A h \in Handlers : ~Opened(h) /\ NotInAFile(h)
  BY DEF FilesInit, Opened, NotInAFile
<1>4. TemporaryWhileOpen
  BY <1>3 DEF TemporaryWhileOpen, FilesInit
<1>. QED  BY <1>2, <1>3, <1>4 DEF FilesInv, OneOpener

\* What every step that creates a handler keeps.
LEMMA CreatesKeeps ==
  ASSUME NEW Chars, Contents(Chars), FilesInv(Chars), NEW h \in Handlers, NEW f \in Files \cup Temps,
         NEW m \in SUBSET Flaggable, Creates(h, f, m), "temporary" \in m <=> f \in Temps,
         ~("temporary" \in m /\ "append" \in m),
         held' \subseteq Handlers, iterators' \subseteq Handlers
  PROVE  FilesInv(Chars)'
<1>. DEFINE s == IF disk[f] = Missing \/ Truncates(m) THEN <<>> ELSE disk[f]
<1>1. FileTypes(Chars) /\ OneOpener /\ TemporaryWhileOpen
  BY DEF FilesInv
<1>2. s \in Seq(Chars)
  <2>1. <<>> \in Seq(Chars) /\ disk[f] \in Seq(Chars) \cup {Missing}
    BY <1>1 DEF FileTypes
  <2>. QED  BY <2>1
<1>. HIDE DEF s
<1>3. /\ stage[h] = "none" /\ ~InUse(f)
      /\ disk' = [disk EXCEPT ![f] = s]
      /\ stage' = [stage EXCEPT ![h] = "open"]
      /\ file' = [file EXCEPT ![h] = f]
      /\ op' = [op EXCEPT ![h] = Flags(m)]
      /\ least' = [least EXCEPT ![h] = IF "append" \in m THEN Len(s) ELSE 0]
      /\ anchored' = anchored \cup {h}
      /\ UNCHANGED <<pos, taken, buffering, dirty, output>>
  BY DEF Creates, Anchors, s
<1>4. Flags(m) \in SUBSET Flaggable /\ ("temporary" \in Flags(m) <=> "temporary" \in m) /\ ("append" \in Flags(m) <=> "append" \in m)
  BY DEF Flags, Flaggable
<1>5. FileTypes(Chars)'
  <2>1. Len(s) \in Nat
    BY <1>2
  <2>. QED  BY <1>1, <1>2, <1>3, <1>4, <2>1 DEF FileTypes
<1>6. ASSUME NEW g \in Handlers, g # h
      PROVE  /\ Opened(g)' = Opened(g) /\ file'[g] = file[g] /\ (Opened(g) => file[g] # f)
             /\ IF Opened(g)' THEN InItsFile(Chars, g)' ELSE NotInAFile(g)'
  <2>1. Opened(g)' = Opened(g) /\ file'[g] = file[g] /\ op'[g] = op[g] /\ least'[g] = least[g] /\ file[g] \in Files \cup Temps
    BY <1>1, <1>3, <1>6 DEF Opened, FileTypes
  <2>2. Opened(g) => file[g] # f
    BY <1>3 DEF InUse
  <2>3. Opened(g) => Text(g)' = Text(g)
    BY <1>1, <1>3, <2>1, <2>2 DEF Text, FileTypes
  <2>4. IF Opened(g) THEN InItsFile(Chars, g) ELSE NotInAFile(g)
    BY DEF FilesInv
  <2>. QED  BY <1>3, <2>1, <2>2, <2>3, <2>4 DEF InItsFile, NotInAFile
<1>7. Opened(h)' /\ ~Opened(h) /\ file'[h] = f /\ InItsFile(Chars, h)'
  <2>1. Opened(h)' /\ ~Opened(h) /\ file'[h] = f /\ op'[h] = Flags(m) /\ Text(h)' = s /\ least'[h] <= Len(s) /\ h \in anchored'
    <3>1. Len(s) \in Nat
      BY <1>2
    <3>. QED  BY <1>1, <1>3, <3>1 DEF Opened, FileTypes, Text
  <2>2. pos'[h] = 0 /\ taken'[h] = <<>>
    BY <1>3, <2>1 DEF FilesInv, NotInAFile
  <2>3. WithoutEnds(SubSeq(s, 1, 0)) = <<>>
    <3>1. SubSeq(s, 1, 0) = <<>>
      BY <1>2
    <3>. QED  BY <3>1, WithoutEndsEmpty
  <2>4. 0 <= Len(s)
    BY <1>2
  <2>. QED  BY <1>2, <1>4, <2>1, <2>2, <2>3, <2>4 DEF InItsFile
<1>8. OneOpener'
  BY <1>1, <1>6, <1>7 DEF OneOpener
<1>9. TemporaryWhileOpen'
  <2>. SUFFICES ASSUME NEW e \in Temps
                PROVE  disk'[e] # Missing <=> \E g \in Handlers : Opened(g)' /\ file'[g] = e
    BY DEF TemporaryWhileOpen
  <2>1. CASE e = f
    <3>1. disk'[e] = s /\ s # Missing
      BY <1>1, <1>2, <1>3, <2>1 DEF FileTypes, Contents
    <3>. QED  BY <1>7, <2>1, <3>1
  <2>2. CASE e # f
    <3>1. disk'[e] = disk[e]
      BY <1>1, <1>3, <2>2 DEF FileTypes
    <3>2. \A g \in Handlers : Opened(g)' /\ file'[g] = e <=> Opened(g) /\ file[g] = e
      BY <1>6, <1>7, <2>2
    <3>. QED  BY <1>1, <3>1, <3>2 DEF TemporaryWhileOpen
  <2>. QED  BY <2>1, <2>2
<1>10. \A g \in Handlers : IF Opened(g)' THEN InItsFile(Chars, g)' ELSE NotInAFile(g)'
  BY <1>6, <1>7
<1>. QED  BY <1>5, <1>8, <1>9, <1>10 DEF FilesInv

\* A handler that is closed, or deleted, leaves its file; a temporary one goes.
LEMMA LeavesKeeps ==
  ASSUME NEW Chars, FilesInv(Chars), NEW h \in Handlers, NEW next \in {"closed", "deleted"},
         stage' = [stage EXCEPT ![h] = next],
         disk' = (IF Opened(h) THEN ClosedContent(h) ELSE disk), ClosesHandle(h), UNCHANGED file,
         \A g \in Handlers \ {h} : op'[g] = op[g] /\ least'[g] = least[g],
         anchored \ {h} \subseteq anchored', FileTypes(Chars)'
  PROVE  FilesInv(Chars)'
<1>1. FileTypes(Chars) /\ OneOpener /\ TemporaryWhileOpen
  BY DEF FilesInv
<1>2. ~Opened(h)' /\ NotInAFile(h)'
  BY <1>1 DEF Opened, FileTypes, ClosesHandle, NotInAFile
<1>3. ASSUME NEW g \in Handlers, g # h
      PROVE  Opened(g)' = Opened(g) /\ IF Opened(g)' THEN InItsFile(Chars, g)' ELSE NotInAFile(g)'
  <2>1. Opened(g)' = Opened(g) /\ pos'[g] = pos[g] /\ taken'[g] = taken[g] /\ dirty'[g] = dirty[g]
    BY <1>1, <1>3 DEF Opened, FileTypes, ClosesHandle
  <2>2. op'[g] = op[g] /\ least'[g] = least[g] /\ file'[g] = file[g] /\ (g \in anchored => g \in anchored')
    BY <1>3
  <2>3. Opened(g) => Text(g)' = Text(g)
    <3>1. Opened(g) /\ Opened(h) => file[g] # file[h]
      BY <1>1, <1>3 DEF OneOpener
    <3>. QED  BY <1>1, <3>1 DEF Text, ClosedContent, FileTypes
  <2>4. IF Opened(g) THEN InItsFile(Chars, g) ELSE NotInAFile(g)
    BY DEF FilesInv
  <2>. QED  BY <2>1, <2>2, <2>3, <2>4 DEF InItsFile, NotInAFile
<1>4. OneOpener'
  BY <1>1, <1>2, <1>3 DEF OneOpener
<1>5. TemporaryWhileOpen'
  <2>. SUFFICES ASSUME NEW e \in Temps
                PROVE  disk'[e] # Missing <=> \E g \in Handlers : Opened(g)' /\ file[g] = e
    BY DEF TemporaryWhileOpen
  <2>1. CASE Opened(h) /\ file[h] = e
    <3>1. "temporary" \in op[h]
      BY <2>1 DEF FilesInv, InItsFile
    <3>2. disk'[e] = Missing
      BY <1>1, <2>1, <3>1 DEF ClosedContent, FileTypes
    <3>3. \A g \in Handlers : Opened(g)' => file[g] # e
      BY <1>1, <1>2, <1>3, <2>1 DEF OneOpener
    <3>. QED  BY <3>2, <3>3
  <2>2. CASE ~(Opened(h) /\ file[h] = e)
    <3>1. disk'[e] = disk[e]
      BY <1>1, <2>2 DEF ClosedContent, FileTypes
    <3>2. \A g \in Handlers : Opened(g)' /\ file[g] = e <=> Opened(g) /\ file[g] = e
      BY <1>2, <1>3, <2>2
    <3>. QED  BY <1>1, <3>1, <3>2 DEF TemporaryWhileOpen
  <2>. QED  BY <2>1, <2>2
<1>6. \A g \in Handlers : IF Opened(g)' THEN InItsFile(Chars, g)' ELSE NotInAFile(g)'
  BY <1>2, <1>3
<1>. QED  BY <1>4, <1>5, <1>6 DEF FilesInv

\* A step that changes no content and at most where one open handler stands.
LEMMA StandsKeeps ==
  ASSUME NEW Chars, FilesInv(Chars), NEW h \in Handlers,
         UNCHANGED <<disk, stage, file, op, least, anchored>>, FileTypes(Chars)',
         \A g \in Handlers \ {h} : pos'[g] = pos[g] /\ taken'[g] = taken[g] /\ (~Opened(g) => ~dirty'[g]),
         IF Opened(h) THEN pos'[h] <= Len(Text(h)) /\ taken'[h] = WithoutEnds(SubSeq(Text(h), 1, pos'[h]))
         ELSE NotInAFile(h)'
  PROVE  FilesInv(Chars)'
<1>1. \A g \in Handlers : Opened(g)' = Opened(g) /\ Text(g)' = Text(g)
  BY DEF Opened, Text
<1>2. \A g \in Handlers : IF Opened(g) THEN InItsFile(Chars, g) ELSE NotInAFile(g)
  BY DEF FilesInv
<1>3. ASSUME NEW g \in Handlers
      PROVE  IF Opened(g)' THEN InItsFile(Chars, g)' ELSE NotInAFile(g)'
  <2>1. CASE g = h
    BY <1>1, <1>2, <2>1 DEF InItsFile
  <2>2. CASE g # h
    BY <1>1, <1>2, <2>2 DEF InItsFile, NotInAFile
  <2>. QED  BY <2>1, <2>2
<1>4. OneOpener' /\ TemporaryWhileOpen'
  BY <1>1 DEF FilesInv, OneOpener, TemporaryWhileOpen
<1>. QED  BY <1>3, <1>4 DEF FilesInv

\* What is handed over, and what is skipped with it, is in the file.
LEMMA HandsOverKeeps ==
  ASSUME NEW Chars, FilesInv(Chars), NEW h \in Handlers, Opened(h), NEW k \in Nat, NEW p \in Nat,
         pos[h] + k <= p, p <= Len(Text(h)), \A i \in pos[h] + k + 1 .. p : Text(h)[i] = NL,
         HandsOver(h, k, p)
  PROVE  FilesInv(Chars)'
<1>. DEFINE t == Text(h)
            q == pos[h]
<1>1. /\ FileTypes(Chars) /\ t \in Seq(Chars) /\ q \in Nat
      /\ taken[h] = WithoutEnds(SubSeq(t, 1, q))
      /\ pos' = [pos EXCEPT ![h] = p]
      /\ taken' = [taken EXCEPT ![h] = taken[h] \o WithoutEnds(SubSeq(t, q + 1, q + k))]
      /\ UNCHANGED <<disk, stage, file, op, least, buffering, dirty, reach>>
      /\ q + k <= p /\ p <= Len(t) /\ \A i \in q + k + 1 .. p : t[i] = NL
  BY DEF FilesInv, InItsFile, FileTypes, HandsOver
<1>2. /\ SubSeq(t, 1, q) \in Seq(Chars) /\ SubSeq(t, q + 1, q + k) \in Seq(Chars)
      /\ SubSeq(t, q + k + 1, p) \in Seq(Chars) /\ SubSeq(t, 1, q + k) \in Seq(Chars)
      /\ SubSeq(t, 1, p) = SubSeq(t, 1, q + k) \o SubSeq(t, q + k + 1, p)
      /\ SubSeq(t, 1, q + k) = SubSeq(t, 1, q) \o SubSeq(t, q + 1, q + k)
      /\ \A i \in 1..Len(SubSeq(t, q + k + 1, p)) : SubSeq(t, q + k + 1, p)[i] = NL
  <2>. HIDE DEF t, q
  <2>1. SubSeq(t, 1, q) \in Seq(Chars) /\ SubSeq(t, q + 1, q + k) \in Seq(Chars)
    BY <1>1
  <2>2. SubSeq(t, q + k + 1, p) \in Seq(Chars) /\ SubSeq(t, 1, q + k) \in Seq(Chars)
    BY <1>1
  <2>3. SubSeq(t, 1, p) = SubSeq(t, 1, q + k) \o SubSeq(t, q + k + 1, p)
    BY <1>1
  <2>4. SubSeq(t, 1, q + k) = SubSeq(t, 1, q) \o SubSeq(t, q + 1, q + k)
    BY <1>1
  <2>5. \A i \in 1..Len(SubSeq(t, q + k + 1, p)) : SubSeq(t, q + k + 1, p)[i] = NL
    BY <1>1
  <2>. QED  BY <2>1, <2>2, <2>3, <2>4, <2>5
<1>. HIDE DEF t, q
<1>3. WithoutEnds(SubSeq(t, 1, p)) = WithoutEnds(SubSeq(t, 1, q)) \o WithoutEnds(SubSeq(t, q + 1, q + k))
  <2>1. WithoutEnds(SubSeq(t, 1, p)) = WithoutEnds(SubSeq(t, 1, q + k)) \o WithoutEnds(SubSeq(t, q + k + 1, p))
    BY <1>2, WithoutEndsConcat
  <2>2. WithoutEnds(SubSeq(t, q + k + 1, p)) = <<>>
    BY <1>2, WithoutEndsNothing
  <2>3. WithoutEnds(SubSeq(t, 1, q + k)) = WithoutEnds(SubSeq(t, 1, q)) \o WithoutEnds(SubSeq(t, q + 1, q + k))
    BY <1>2, WithoutEndsConcat
  <2>4. WithoutEnds(SubSeq(t, 1, q + k)) \in Seq(Chars)
    BY <1>2, WithoutEndsType
  <2>. QED  BY <2>1, <2>2, <2>3, <2>4
<1>4. FileTypes(Chars)'
  <2>1. taken[h] \o WithoutEnds(SubSeq(t, q + 1, q + k)) \in Seq(Chars)
    <3>1. WithoutEnds(SubSeq(t, q + 1, q + k)) \in Seq(Chars)
      BY <1>2, WithoutEndsType
    <3>. QED  BY <1>1, <3>1 DEF FileTypes
  <2>. QED  BY <1>1, <2>1 DEF FileTypes, reach
<1>5. pos'[h] = p /\ taken'[h] = WithoutEnds(SubSeq(t, 1, p))
  BY <1>1, <1>3 DEF FileTypes
<1>6. \A g \in Handlers \ {h} : pos'[g] = pos[g] /\ taken'[g] = taken[g] /\ (~Opened(g) => ~dirty'[g])
  BY <1>1 DEF FileTypes, FilesInv, NotInAFile
<1>7. UNCHANGED <<disk, stage, file, op, least, anchored>>
  BY <1>1 DEF reach
<1>8. pos'[h] <= Len(Text(h)) /\ taken'[h] = WithoutEnds(SubSeq(Text(h), 1, pos'[h]))
  BY <1>1, <1>5 DEF t
<1>. QED  BY <1>4, <1>6, <1>7, <1>8, StandsKeeps

LEMMA LineInFile ==
  ASSUME NEW Chars, FilesInv(Chars), NEW h \in Handlers, Opened(h)
  PROVE  LineLength(h) \in Nat /\ pos[h] + LineLength(h) <= Len(Text(h))
<1>. DEFINE t == Text(h)
            rest == SubSeq(t, pos[h] + 1, Len(t))
            I == {i \in 1..Len(rest) : rest[i] = NL}
<1>1. t \in Seq(Chars) /\ pos[h] \in Nat /\ pos[h] <= Len(t)
  BY DEF FilesInv, InItsFile, FileTypes
<1>2. rest \in Seq(Chars) /\ Len(rest) = Len(t) - pos[h]
  <2>. HIDE DEF t
  <2>. QED  BY <1>1
<1>3. LineLength(h) = IF NL \in ToSet(rest) THEN SelectInSeq(rest, LAMBDA c : c = NL) - 1 ELSE Len(rest)
  BY DEF LineLength
<1>4. SelectInSeq(rest, LAMBDA c : c = NL) = IF I # {} THEN Min(I) ELSE 0
  BY DEF SelectInSeq
<1>. HIDE DEF rest
<1>5. CASE NL \in ToSet(rest)
  <2>1. I # {}
    BY <1>2, <1>5 DEF ToSet
  <2>2. \E x \in I : \A y \in I : x <= y
    <3>1. I \in SUBSET Nat
      OBVIOUS
    <3>. QED  BY <2>1, <3>1, LeastElement
  <2>3. Min(I) \in I
    BY <2>2 DEF Min
  <2>. QED  BY <1>1, <1>2, <1>3, <1>4, <1>5, <2>1, <2>3
<1>6. CASE NL \notin ToSet(rest)
  BY <1>1, <1>2, <1>3, <1>6
<1>. QED  BY <1>5, <1>6

LEMMA SkipsEnds ==
  ASSUME NEW Chars, NEW s \in Seq(Chars), NEW p \in Nat, p <= Len(s)
  PROVE  SkippedFrom(s, p) \in p..Len(s) /\ \A i \in p + 1 .. SkippedFrom(s, p) : s[i] = NL
<1>. DEFINE Stop == {q \in p..Len(s) : q < Len(s) => s[q + 1] # NL}
<1>1. Stop \in SUBSET Nat /\ Len(s) \in Stop
  OBVIOUS
<1>2. PICK q \in Stop : \A y \in Stop : q <= y
  BY <1>1, LeastElement
<1>3. \A i \in p + 1 .. q : s[i] = NL
  <2>. SUFFICES ASSUME NEW i \in p + 1 .. q, s[i] # NL PROVE FALSE
    OBVIOUS
  <2>1. i - 1 \in Stop /\ ~(q <= i - 1)
    OBVIOUS
  <2>. QED  BY <1>2, <2>1
<1>. QED  BY <1>3 DEF SkippedFrom

LEMMA ReadLineKeeps ==
  ASSUME NEW Chars, FilesInv(Chars), NEW h \in Handlers, ReadLine(h)
  PROVE  FilesInv(Chars)'
<1>. DEFINE k == LineLength(h)
            p == Skips(h, k)
<1>1. Opened(h) /\ HandsOver(h, k, p)
  BY DEF ReadLine
<1>2. k \in Nat /\ pos[h] + k <= Len(Text(h)) /\ pos[h] \in Nat /\ Text(h) \in Seq(Chars)
  BY <1>1, LineInFile DEF FilesInv, InItsFile, FileTypes
<1>. HIDE DEF k
<1>3. p \in pos[h] + k .. Len(Text(h)) /\ \A i \in pos[h] + k + 1 .. p : Text(h)[i] = NL
  <2>1. pos[h] + k \in Nat
    BY <1>2
  <2>. QED  BY <1>2, <2>1, SkipsEnds DEF Skips
<1>. HIDE DEF p
<1>4. p \in Nat /\ pos[h] + k <= p /\ p <= Len(Text(h))
  BY <1>2, <1>3
<1>. QED  BY <1>1, <1>2, <1>3, <1>4, HandsOverKeeps

LEMMA ReadBufferKeeps ==
  ASSUME NEW Chars, FilesInv(Chars), NEW h \in Handlers, ReadBuffer(h)
  PROVE  FilesInv(Chars)'
<1>1. Opened(h) /\ file[h] \in Files \cup Temps
  BY DEF ReadBuffer, FilesInv, FileTypes
<1>2. pos[h] \in Nat /\ Text(h) \in Seq(Chars) /\ pos[h] <= Len(Text(h))
  BY <1>1 DEF FilesInv, InItsFile, FileTypes
<1>3. PICK n \in 1..MaxLen[file[h]] :
        HandsOver(h, Smaller(n, Len(Text(h)) - pos[h]), pos[h] + Smaller(n, Len(Text(h)) - pos[h]))
  BY DEF ReadBuffer
<1>. DEFINE k == Smaller(n, Len(Text(h)) - pos[h])
            p == pos[h] + k
<1>4. k \in Nat /\ p \in Nat /\ p <= Len(Text(h)) /\ pos[h] + k <= p
  BY <1>1, <1>2 DEF Smaller
<1>5. \A i \in pos[h] + k + 1 .. p : Text(h)[i] = NL
  <2>. HIDE DEF k
  <2>. QED  BY <1>2, <1>4
<1>6. HandsOver(h, k, p)
  BY <1>3
<1>. HIDE DEF k, p
<1>. QED  BY <1>1, <1>4, <1>5, <1>6, HandsOverKeeps

LEMMA SeekKeeps ==
  ASSUME NEW Chars, FilesInv(Chars), NEW h \in Handlers, Seek(h)
  PROVE  FilesInv(Chars)'
<1>1. /\ Opened(h) /\ FileTypes(Chars)
      /\ UNCHANGED <<disk, stage, file, op, least, buffering, dirty, reach>>
  BY DEF Seek, FilesInv
<1>2. pos[h] \in Nat /\ Text(h) \in Seq(Chars) /\ Len(Text(h)) \in Nat
  BY <1>1 DEF FilesInv, InItsFile, FileTypes
<1>3. PICK q \in Int : Moves(h, Clamped(h, q), Text(h))
  <2>1. PICK pivot \in {0, pos[h], Len(Text(h))}, offset \in {-1, 0, 1} : Moves(h, Clamped(h, pivot + offset), Text(h))
    BY DEF Seek
  <2>2. pivot + offset \in Int
    BY <1>2
  <2>. QED  BY <2>1, <2>2
<1>. DEFINE p == Clamped(h, q)
<1>4. p \in 0..Len(Text(h))
  BY <1>2 DEF Clamped, Smaller, Larger
<1>. HIDE DEF p
<1>5. /\ pos' = [pos EXCEPT ![h] = p]
      /\ taken' = [taken EXCEPT ![h] = WithoutEnds(SubSeq(Text(h), 1, p))]
  <2>1. Smaller(p, Len(Text(h))) = p
    BY <1>2, <1>4 DEF Smaller
  <2>. QED  BY <1>3, <2>1 DEF Moves, p
<1>6. WithoutEnds(SubSeq(Text(h), 1, p)) \in Seq(Chars)
  <2>1. SubSeq(Text(h), 1, p) \in Seq(Chars)
    BY <1>2, <1>4
  <2>. QED  BY <2>1, WithoutEndsType
<1>7. FileTypes(Chars)'
  BY <1>1, <1>4, <1>5, <1>6 DEF FileTypes, reach
<1>8. /\ pos'[h] <= Len(Text(h)) /\ taken'[h] = WithoutEnds(SubSeq(Text(h), 1, pos'[h]))
      /\ \A g \in Handlers \ {h} : pos'[g] = pos[g] /\ taken'[g] = taken[g]
  BY <1>1, <1>2, <1>4, <1>5 DEF FileTypes
<1>9. \A g \in Handlers \ {h} : ~Opened(g) => ~dirty'[g]
  BY <1>1 DEF FilesInv, NotInAFile
<1>10. UNCHANGED <<disk, stage, file, op, least, anchored>>
  BY <1>1 DEF reach
<1>. QED  BY <1>1, <1>7, <1>8, <1>9, <1>10, StandsKeeps

\* Flush, SetVBuf, Lines, Output and Drop.
LEMMA LeavesContentKeeps ==
  ASSUME NEW Chars, FilesInv(Chars), NEW h \in Handlers,
         Flush(h) \/ SetVBuf(h) \/ Lines(h) \/ Output(h) \/ Drop(h)
  PROVE  FilesInv(Chars)'
<1>1. UNCHANGED <<disk, stage, file, op, least, anchored, pos, taken>>
  BY DEF Flush, SetVBuf, Lines, Output, Drop, where, reach
<1>2. FileTypes(Chars)
  BY DEF FilesInv
<1>3. FileTypes(Chars)'
  <2>1. /\ buffering' \in [Handlers -> {"no", "full", "line"}] /\ dirty' \in [Handlers -> BOOLEAN]
        /\ held' \subseteq Handlers /\ iterators' \subseteq Handlers /\ output' \in Handlers \cup {StdOut}
    <3>1. CASE Flush(h)
      BY <1>2, <3>1 DEF Flush, FileTypes, where, reach
    <3>2. CASE SetVBuf(h)
      BY <1>2, <3>2 DEF SetVBuf, FileTypes, where, reach
    <3>3. CASE Lines(h) \/ Output(h) \/ Drop(h)
      BY <1>2, <3>3 DEF Lines, Output, Drop, FileTypes, where
    <3>. QED  BY <3>1, <3>2, <3>3
  <2>. QED  BY <1>1, <1>2, <2>1 DEF FileTypes
<1>4. \A g \in Handlers : IF Opened(g) THEN InItsFile(Chars, g) ELSE NotInAFile(g)
  BY DEF FilesInv
<1>5. \A g \in Handlers : ~Opened(g) => ~dirty'[g]
  <2>1. CASE Flush(h)
    BY <1>2, <1>4, <2>1 DEF Flush, FileTypes, NotInAFile
  <2>2. CASE SetVBuf(h) \/ Lines(h) \/ Output(h) \/ Drop(h)
    BY <1>4, <2>2 DEF SetVBuf, Lines, Output, Drop, NotInAFile, where, reach
  <2>. QED  BY <2>1, <2>2
<1>6. IF Opened(h) THEN pos'[h] <= Len(Text(h)) /\ taken'[h] = WithoutEnds(SubSeq(Text(h), 1, pos'[h]))
      ELSE NotInAFile(h)'
  BY <1>1, <1>4, <1>5 DEF InItsFile, NotInAFile
<1>. QED  BY <1>1, <1>3, <1>5, <1>6, StandsKeeps

\* Where a write goes, and what becomes of the content.
LEMMA WritesAt ==
  ASSUME NEW Chars, FilesInv(Chars), NEW h \in Handlers, Opened(h), NEW s \in Seq(Chars)
  PROVE  /\ WritePos(h) \in Nat /\ least[h] <= WritePos(h) /\ WritePos(h) <= Len(Text(h))
         /\ Written(h, s) \in Seq(Chars)
         /\ Len(Written(h, s)) >= Len(Text(h)) /\ Len(Written(h, s)) >= WritePos(h) + Len(s)
         /\ \A i \in 1..WritePos(h) : Written(h, s)[i] = Text(h)[i]
         /\ \A i \in 1..Len(s) : Written(h, s)[WritePos(h) + i] = s[i]
         /\ s = <<>> => Written(h, s) = Text(h)
<1>. DEFINE t == Text(h)
            p == WritePos(h)
            rest == SubSeq(t, p + Len(s) + 1, Len(t))
<1>1. t \in Seq(Chars) /\ pos[h] \in Nat /\ pos[h] <= Len(t) /\ least[h] \in Nat /\ least[h] <= Len(t)
  BY DEF FilesInv, InItsFile, FileTypes
<1>2. p \in Nat /\ least[h] <= p /\ p <= Len(t)
  BY <1>1 DEF WritePos, Smaller
<1>3. Written(h, s) = SubSeq(t, 1, p) \o s \o rest
  BY DEF Written
<1>. HIDE DEF t, p
<1>4. SubSeq(t, 1, p) \in Seq(Chars) /\ Len(SubSeq(t, 1, p)) = p /\ \A i \in 1..p : SubSeq(t, 1, p)[i] = t[i]
  BY <1>1, <1>2
<1>5. rest \in Seq(Chars) /\ Len(rest) = IF p + Len(s) <= Len(t) THEN Len(t) - (p + Len(s)) ELSE 0
  BY <1>1, <1>2
<1>6. s = <<>> => SubSeq(t, 1, p) \o s \o rest = t
  <2>. SUFFICES ASSUME s = <<>> PROVE SubSeq(t, 1, p) \o s \o rest = t
    OBVIOUS
  <2>1. Len(s) = 0 /\ SubSeq(t, 1, p) \o s = SubSeq(t, 1, p)
    BY <1>4
  <2>2. rest = SubSeq(t, p + 1, Len(t))
    BY <1>2, <2>1
  <2>3. SubSeq(t, 1, p) \o SubSeq(t, p + 1, Len(t)) = t
    <3>1. 1 \in 1..Len(t) + 1 /\ p \in 1 - 1 .. Len(t) /\ Len(t) \in p..Len(t)
      BY <1>1, <1>2
    <3>2. SubSeq(t, 1, p) \o SubSeq(t, p + 1, Len(t)) = SubSeq(t, 1, Len(t))
      BY <1>1, <3>1, ConcatAdjacentSubSeq
    <3>. QED  BY <1>1, <3>2, SubSeqFull
  <2>. QED  BY <2>1, <2>2, <2>3
<1>. DEFINE front == SubSeq(t, 1, p)
<1>. HIDE DEF rest, front
<1>7. /\ front \o s \o rest \in Seq(Chars) /\ Len(front \o s \o rest) = p + Len(s) + Len(rest)
      /\ \A i \in 1..p : (front \o s \o rest)[i] = front[i]
      /\ \A i \in 1..Len(s) : (front \o s \o rest)[p + i] = s[i]
  <2>1. front \in Seq(Chars) /\ Len(front) = p /\ rest \in Seq(Chars) /\ p \in Nat /\ Len(s) \in Nat
    BY <1>2, <1>4, <1>5 DEF front
  <2>2. /\ front \o s \in Seq(Chars) /\ Len(front \o s) = p + Len(s)
        /\ \A i \in 1..p : (front \o s)[i] = front[i]
        /\ \A i \in 1..Len(s) : (front \o s)[p + i] = s[i]
    <3>1. /\ front \o s \in Seq(Chars) /\ Len(front \o s) = p + Len(s)
          /\ \A i \in 1 .. p + Len(s) : (front \o s)[i] = IF i <= p THEN front[i] ELSE s[i - p]
      BY <2>1, ConcatProperties
    <3>2. \A i \in 1..p : i \in 1 .. p + Len(s) /\ i <= p
      BY <2>1
    <3>4. ASSUME NEW i \in 1..p PROVE (front \o s)[i] = front[i]
      BY <3>1, <3>2
    <3>5. ASSUME NEW i \in 1..Len(s) PROVE (front \o s)[p + i] = s[i]
      <4>. DEFINE j == p + i
      <4>1. j \in 1 .. p + Len(s) /\ ~(j <= p) /\ j - p = i
        BY <2>1
      <4>. HIDE DEF j
      <4>2. (front \o s)[j] = s[i]
        BY <3>1, <4>1
      <4>. QED  BY <4>2 DEF j
    <3>. QED  BY <3>1, <3>4, <3>5
  <2>. DEFINE both == front \o s
  <2>. HIDE DEF both
  <2>3. /\ both \o rest \in Seq(Chars) /\ Len(both \o rest) = Len(both) + Len(rest)
        /\ \A i \in 1..Len(both) : (both \o rest)[i] = both[i]
    <3>1. both \in Seq(Chars) /\ Len(both) \in Nat /\ Len(rest) \in Nat
      BY <2>1, <2>2 DEF both
    <3>2. \A i \in 1..Len(both) : i \in 1 .. Len(both) + Len(rest) /\ i <= Len(both)
      BY <3>1
    <3>. QED  BY <2>1, <3>1, <3>2, ConcatProperties
  <2>4. /\ \A i \in 1..p : i \in 1..Len(both)
        /\ \A i \in 1..Len(s) : p + i \in 1..Len(both)
    BY <2>1, <2>2 DEF both
  <2>. QED  BY <2>2, <2>3, <2>4 DEF both
<1>8. /\ Written(h, s) \in Seq(Chars) /\ Len(Written(h, s)) = p + Len(s) + Len(rest)
      /\ \A i \in 1..p : Written(h, s)[i] = t[i]
      /\ \A i \in 1..Len(s) : Written(h, s)[p + i] = s[i]
  BY <1>3, <1>4, <1>7 DEF front
<1>9. Len(Written(h, s)) >= Len(t) /\ Len(Written(h, s)) >= p + Len(s)
  <2>1. Len(s) \in Nat /\ Len(t) \in Nat /\ p \in Nat
    BY <1>1, <1>2
  <2>2. Len(rest) >= 0 /\ Len(rest) \in Int /\ Len(rest) >= Len(t) - (p + Len(s))
    BY <1>5, <2>1
  <2>. QED  BY <1>8, <2>1, <2>2
<1>. QED  BY <1>2, <1>3, <1>6, <1>8, <1>9 DEF t, p

LEMMA WriteKeeps ==
  ASSUME NEW Chars, Contents(Chars), FilesInv(Chars), NEW h \in Handlers, NEW s \in Strings, Writes(h, s)
  PROVE  FilesInv(Chars)'
<1>. DEFINE w == Written(h, s)
            p == WritePos(h) + Len(s)
<1>1. /\ Opened(h) /\ FileTypes(Chars) /\ OneOpener /\ TemporaryWhileOpen /\ s \in Seq(Chars) /\ Len(s) \in Nat
      /\ file[h] \in Files \cup Temps
  BY DEF Contents, Writes, FilesInv, FileTypes
<1>2. /\ w \in Seq(Chars) /\ Len(w) \in Nat /\ p \in Nat /\ p <= Len(w) /\ Len(Text(h)) <= Len(w)
  BY <1>1, WritesAt
<1>. HIDE DEF w, p
<1>3. /\ disk' = [disk EXCEPT ![file[h]] = w]
      /\ pos' = [pos EXCEPT ![h] = p]
      /\ taken' = [taken EXCEPT ![h] = WithoutEnds(SubSeq(w, 1, p))]
      /\ dirty' = [dirty EXCEPT ![h] = KeepsDirty(h, s)]
      /\ held' = held \cup {h}
      /\ UNCHANGED <<stage, file, op, least, buffering, anchored, iterators, output>>
  <2>1. Smaller(p, Len(w)) = p
    BY <1>2 DEF Smaller
  <2>. QED  BY <2>1 DEF Writes, Moves, w, p
<1>4. WithoutEnds(SubSeq(w, 1, p)) \in Seq(Chars) /\ KeepsDirty(h, s) \in BOOLEAN
  <2>1. SubSeq(w, 1, p) \in Seq(Chars)
    BY <1>2
  <2>2. dirty[h] \in BOOLEAN
    BY <1>1 DEF FileTypes
  <2>. QED  BY <2>1, <2>2, WithoutEndsType DEF KeepsDirty
<1>5. FileTypes(Chars)'
  BY <1>1, <1>2, <1>3, <1>4 DEF FileTypes
<1>6. ASSUME NEW g \in Handlers
      PROVE  IF Opened(g)' THEN InItsFile(Chars, g)' ELSE NotInAFile(g)'
  <2>1. Opened(g)' = Opened(g) /\ (IF Opened(g) THEN InItsFile(Chars, g) ELSE NotInAFile(g))
    BY <1>3 DEF FilesInv, Opened
  <2>2. CASE g = h
    <3>1. Text(h)' = w /\ pos'[h] = p /\ taken'[h] = WithoutEnds(SubSeq(w, 1, p))
      BY <1>1, <1>3 DEF FileTypes, Text
    <3>2. least[h] \in Nat /\ Len(Text(h)) \in Nat
      BY <1>1, <2>1, <2>2 DEF FileTypes, InItsFile
    <3>. QED  BY <1>1, <1>2, <1>3, <2>1, <2>2, <3>1, <3>2 DEF InItsFile
  <2>3. CASE g # h
    <3>1. pos'[g] = pos[g] /\ taken'[g] = taken[g] /\ dirty'[g] = dirty[g]
      BY <1>1, <1>3, <2>3 DEF FileTypes
    <3>2. Opened(g) => Text(g)' = Text(g)
      <4>1. Opened(g) => file[g] # file[h]
        BY <1>1, <2>3 DEF OneOpener
      <4>. QED  BY <1>1, <1>3, <4>1 DEF Text, FileTypes
    <3>. QED  BY <1>3, <2>1, <3>1, <3>2 DEF InItsFile, NotInAFile
  <2>. QED  BY <2>2, <2>3
<1>7. OneOpener'
  BY <1>1, <1>3 DEF OneOpener, Opened
<1>8. TemporaryWhileOpen'
  <2>. SUFFICES ASSUME NEW e \in Temps PROVE disk'[e] # Missing <=> disk[e] # Missing
    BY <1>1, <1>3 DEF TemporaryWhileOpen, Opened
  <2>1. CASE e = file[h]
    <3>1. disk'[e] = w /\ w # Missing /\ disk[e] # Missing
      BY <1>1, <1>2, <1>3, <2>1 DEF FileTypes, Contents, TemporaryWhileOpen
    <3>. QED  BY <3>1
  <2>2. CASE e # file[h]
    BY <1>1, <1>3, <2>2 DEF FileTypes
  <2>. QED  BY <2>1, <2>2
<1>. QED  BY <1>5, <1>6, <1>7, <1>8 DEF FilesInv

LEMMA ClosesKeeps ==
  ASSUME NEW Chars, FilesInv(Chars), NEW h \in Handlers, Opened(h), Closes(h)
  PROVE  FilesInv(Chars)'
<1>1. /\ FileTypes(Chars) /\ disk' = ClosedContent(h) /\ stage' = [stage EXCEPT ![h] = "closed"]
      /\ ClosesHandle(h) /\ anchored' = anchored \ {h}
      /\ UNCHANGED <<file, op, least, buffering, held, iterators, output>>
  BY DEF Closes, FilesInv
<1>2. FileTypes(Chars)'
  <2>1. <<>> \in Seq(Chars)
    OBVIOUS
  <2>2. disk' \in [Files \cup Temps -> Seq(Chars) \cup {Missing}]
    BY <1>1 DEF FileTypes, ClosedContent
  <2>. QED  BY <1>1, <2>1, <2>2 DEF FileTypes, ClosesHandle
<1>. QED  BY <1>1, <1>2, LeavesKeeps

LEMMA CollectFileKeeps ==
  ASSUME NEW Chars, FilesInv(Chars), NEW h \in Handlers, CollectFile(h)
  PROVE  FilesInv(Chars)'
<1>1. /\ FileTypes(Chars) /\ stage' = [stage EXCEPT ![h] = "deleted"]
      /\ disk' = (IF Opened(h) THEN ClosedContent(h) ELSE disk)
      /\ ClosesHandle(h) /\ Deletes(h) /\ UNCHANGED <<file, reach>>
  BY DEF CollectFile, FilesInv
<1>2. FileTypes(Chars)'
  <2>1. <<>> \in Seq(Chars)
    OBVIOUS
  <2>2. disk' \in [Files \cup Temps -> Seq(Chars) \cup {Missing}]
    BY <1>1 DEF FileTypes, ClosedContent
  <2>. QED  BY <1>1, <2>1, <2>2 DEF FileTypes, ClosesHandle, Deletes, reach
<1>3. \A g \in Handlers \ {h} : op'[g] = op[g] /\ least'[g] = least[g]
  BY <1>1 DEF Deletes, FileTypes
<1>. QED  BY <1>1, <1>2, <1>3, LeavesKeeps DEF reach

LEMMA CloseStateKeeps ==
  ASSUME NEW Chars, FilesInv(Chars), CloseState
  PROVE  FilesInv(Chars)'
<1>1. /\ FileTypes(Chars) /\ TemporaryWhileOpen
      /\ stage' = [h \in Handlers |-> IF stage[h] = "none" THEN "none" ELSE "deleted"]
      /\ disk' = [f \in DOMAIN disk |->
                    IF \E h \in Handlers : Opened(h) /\ file[h] = f /\ "temporary" \in op[h]
                    THEN Missing ELSE disk[f]]
      /\ pos' = [h \in Handlers |-> 0] /\ taken' = [h \in Handlers |-> <<>>]
      /\ dirty' = [h \in Handlers |-> FALSE]
      /\ anchored' = {} /\ held' = {} /\ iterators' = {} /\ output' = StdOut
      /\ UNCHANGED <<file, op, least, buffering>>
  BY DEF CloseState, FilesInv
<1>2. FileTypes(Chars)'
  <2>1. <<>> \in Seq(Chars)
    OBVIOUS
  <2>2. disk' \in [Files \cup Temps -> Seq(Chars) \cup {Missing}]
    BY <1>1 DEF FileTypes
  <2>3. taken' \in [Handlers -> Seq(Chars)]
    BY <1>1, <2>1
  <2>. QED  BY <1>1, <2>2, <2>3 DEF FileTypes
<1>3. \A h \in Handlers : ~Opened(h)' /\ NotInAFile(h)'
  BY <1>1 DEF Opened, NotInAFile
<1>4. TemporaryWhileOpen'
  <2>. SUFFICES ASSUME NEW e \in Temps PROVE disk'[e] = Missing
    BY <1>3 DEF TemporaryWhileOpen
  <2>1. CASE disk[e] = Missing
    BY <1>1, <2>1 DEF FileTypes
  <2>2. CASE disk[e] # Missing
    <3>1. PICK h \in Handlers : Opened(h) /\ file[h] = e
      BY <1>1, <2>2 DEF TemporaryWhileOpen
    <3>2. "temporary" \in op[h]
      BY <3>1 DEF FilesInv, InItsFile
    <3>. QED  BY <1>1, <3>1, <3>2 DEF FileTypes
  <2>. QED  BY <2>1, <2>2
<1>. QED  BY <1>2, <1>3, <1>4 DEF FilesInv, OneOpener

LEMMA CreationKeeps ==
  ASSUME NEW Chars, Contents(Chars), FilesInv(Chars), NEW h \in Handlers,
         Open(h) \/ TmpFile(h) \/ IoLines(h)
  PROVE  FilesInv(Chars)'
<1>1. held \subseteq Handlers /\ iterators \subseteq Handlers
  BY DEF FilesInv, FileTypes
<1>2. CASE Open(h)
  <2>1. PICK f \in Files, m \in Modes : Creates(h, f, m)
    BY <1>2 DEF Open
  <2>2. m \in SUBSET Flaggable /\ "temporary" \notin m /\ f \in Files \cup Temps /\ f \notin Temps
    BY FileAssumption DEF Flaggable
  <2>3. held' \subseteq Handlers /\ iterators' \subseteq Handlers
    BY <1>1, <1>2 DEF Open
  <2>. QED  BY <2>1, <2>2, <2>3, CreatesKeeps
<1>3. CASE TmpFile(h)
  <2>1. PICK f \in Temps : Creates(h, f, {"temporary"})
    BY <1>3 DEF TmpFile
  <2>2. {"temporary"} \in SUBSET Flaggable /\ "temporary" \in {"temporary"} /\ "append" \notin {"temporary"}
    BY DEF Flaggable
  <2>3. held' \subseteq Handlers /\ iterators' \subseteq Handlers
    BY <1>1, <1>3 DEF TmpFile
  <2>. QED  BY <2>1, <2>2, <2>3, CreatesKeeps
<1>4. CASE IoLines(h)
  <2>1. PICK f \in Files : Creates(h, f, {"automatic_close"})
    BY <1>4 DEF IoLines
  <2>2. /\ {"automatic_close"} \in SUBSET Flaggable /\ "temporary" \notin {"automatic_close"}
        /\ f \in Files \cup Temps /\ f \notin Temps
    BY FileAssumption DEF Flaggable
  <2>3. held' \subseteq Handlers /\ iterators' \subseteq Handlers
    BY <1>1, <1>4 DEF IoLines
  <2>. QED  BY <2>1, <2>2, <2>3, CreatesKeeps
<1>. QED  BY <1>2, <1>3, <1>4

\* The actions, in the groups that the proofs treat alike.
LEMMA FileSteps ==
  ASSUME FilesNext
  PROVE  \/ \E h \in Handlers : Open(h) \/ TmpFile(h) \/ IoLines(h)
         \/ \E h \in Handlers : Opened(h) /\ Closes(h)
         \/ \E h \in Handlers : CollectFile(h)
         \/ \E h \in Handlers : ReadLine(h)
         \/ \E h \in Handlers : ReadBuffer(h)
         \/ \E h \in Handlers : Seek(h)
         \/ \E h \in Handlers, s \in Strings : Writes(h, s)
         \/ \E h \in Handlers : Flush(h) \/ SetVBuf(h) \/ Lines(h) \/ Output(h) \/ Drop(h)
         \/ CloseState
<1>1. \A h \in Handlers : Close(h) \/ ReadFormat(h) => Opened(h) /\ Closes(h)
  BY DEF Close, ReadFormat, ReadAtEnd
<1>2. \A h \in Handlers : Write(h) => \E s \in Strings : Writes(h, s)
  BY DEF Write
<1>. QED  BY <1>1, <1>2 DEF FilesNext

LEMMA FilesKeep ==
  ASSUME NEW Chars, Contents(Chars), FilesInv(Chars), [FilesNext]_fileVars
  PROVE  FilesInv(Chars)'
<1>1. CASE UNCHANGED fileVars
  BY <1>1 DEF fileVars, FilesInv, FileTypes, InItsFile, NotInAFile, OneOpener, TemporaryWhileOpen, Opened, Text
<1>2. CASE FilesNext
  BY <1>2, FileSteps, CreationKeeps, ClosesKeeps, CollectFileKeeps, ReadLineKeeps, ReadBufferKeeps, SeekKeeps,
     WriteKeeps, LeavesContentKeeps, CloseStateKeeps
<1>. QED  BY <1>1, <1>2

LEMMA FilesHold ==
  ASSUME NEW Chars, Contents(Chars)
  PROVE  FilesSpec => []FilesInv(Chars)
<1>1. FilesInit => FilesInv(Chars)
  BY FilesStart
<1>2. FilesInv(Chars) /\ [FilesNext]_fileVars => FilesInv(Chars)'
  BY FilesKeep
<1>. QED  BY <1>1, <1>2, PTL DEF FilesSpec

(* What a program reads between seeks and writes is the file up to the     *)
(* pointer.                                                                *)
THEOREM NothingIsLost ==
  ASSUME NEW Chars, Contents(Chars)
  PROVE  FilesSpec => []NothingLost
<1>1. FilesInv(Chars) => NothingLost
  BY DEF FilesInv, InItsFile, NothingLost
<1>. QED  BY <1>1, FilesHold, PTL

(* A temporary file is on the disk exactly as long as it is open.          *)
THEOREM TemporaryFilesGo ==
  ASSUME NEW Chars, Contents(Chars)
  PROVE  FilesSpec => []TemporaryWhileOpen
<1>1. FilesInv(Chars) => TemporaryWhileOpen
  BY DEF FilesInv
<1>. QED  BY <1>1, FilesHold, PTL

(* What a file held when it was opened for append is never changed through *)
(* that handler, wherever the program seeks before it writes.              *)
THEOREM AppendedFilesKeep ==
  ASSUME NEW Chars, Contents(Chars)
  PROVE  FilesSpec => AppendKeeps
<1>. DEFINE Old(h) == SubSeq(disk'[file[h]], 1, least[h]) = SubSeq(Text(h), 1, least[h])
<1>1. ASSUME FilesInv(Chars), [FilesNext]_fileVars
      PROVE  \A h \in Handlers : Opened(h) /\ "append" \in op[h] => Old(h)
  <2>. SUFFICES ASSUME NEW h \in Handlers, Opened(h), "append" \in op[h] PROVE Old(h)
    OBVIOUS
  <2>1. FileTypes(Chars) /\ OneOpener /\ InItsFile(Chars, h) /\ "temporary" \notin op[h] /\ Text(h) \in Seq(Chars)
    BY <1>1 DEF FilesInv, InItsFile
  <2>2. disk'[file[h]] = disk[file[h]] => Old(h)
    BY DEF Text
  <2>3. CASE UNCHANGED fileVars
    BY <2>2, <2>3 DEF fileVars
  <2>4. ASSUME NEW g \in Handlers, Open(g) \/ TmpFile(g) \/ IoLines(g) PROVE Old(h)
    <3>1. PICK f \in Files \cup Temps : \E m : Creates(g, f, m)
      BY <2>4 DEF Open, TmpFile, IoLines
    <3>2. file[h] # f
      BY <3>1 DEF Creates, InUse
    <3>. QED  BY <2>1, <2>2, <3>1, <3>2 DEF Creates, FileTypes
  <2>5. ASSUME NEW g \in Handlers, disk' = (IF Opened(g) THEN ClosedContent(g) ELSE disk) PROVE Old(h)
    <3>1. g = h \/ ~Opened(g) \/ file[g] # file[h]
      BY <2>1 DEF OneOpener
    <3>. QED  BY <2>1, <2>2, <2>5, <3>1 DEF ClosedContent, FileTypes
  <2>6. ASSUME NEW g \in Handlers, Opened(g) /\ Closes(g) PROVE Old(h)
    BY <2>5, <2>6 DEF Closes
  <2>7. ASSUME NEW g \in Handlers, CollectFile(g) PROVE Old(h)
    BY <2>5, <2>7 DEF CollectFile
  <2>8. ASSUME NEW g \in Handlers, NEW s \in Strings, Writes(g, s) PROVE Old(h)
    <3>1. Opened(g) /\ disk' = [disk EXCEPT ![file[g]] = Written(g, s)] /\ s \in Seq(Chars)
      BY <2>8 DEF Writes, Contents
    <3>2. CASE g = h
      <4>1. disk'[file[h]] = Written(h, s)
        BY <2>1, <3>1, <3>2 DEF FileTypes
      <4>2. /\ Written(h, s) \in Seq(Chars) /\ least[h] \in Nat /\ least[h] <= Len(Text(h))
            /\ least[h] <= Len(Written(h, s)) /\ \A i \in 1..least[h] : Written(h, s)[i] = Text(h)[i]
        <5>1. /\ Written(h, s) \in Seq(Chars) /\ least[h] <= WritePos(h) /\ WritePos(h) \in Nat
              /\ WritePos(h) <= Len(Text(h)) /\ Len(Text(h)) <= Len(Written(h, s))
              /\ \A i \in 1..WritePos(h) : Written(h, s)[i] = Text(h)[i]
          BY <1>1, <3>1, WritesAt
        <5>2. least[h] \in Nat /\ Len(Text(h)) \in Nat /\ Len(Written(h, s)) \in Nat
          BY <2>1, <5>1 DEF FileTypes
        <5>. QED  BY <5>1, <5>2
      <4>. DEFINE w == Written(h, s)
                  t == Text(h)
                  n == least[h]
      <4>3. t \in Seq(Chars)
        BY <2>1
      <4>. HIDE DEF w, t, n
      <4>4. w \in Seq(Chars) /\ n \in Nat /\ n <= Len(t) /\ n <= Len(w) /\ \A i \in 1..n : w[i] = t[i]
        BY <4>2 DEF w, t, n
      <4>5. SubSeq(w, 1, n) = SubSeq(t, 1, n)
        BY <4>3, <4>4
      <4>. QED  BY <4>1, <4>5 DEF w, t, n
    <3>3. CASE g # h
      <4>1. file[g] # file[h]
        BY <2>1, <3>1, <3>3 DEF OneOpener
      <4>. QED  BY <2>1, <2>2, <3>1, <4>1 DEF FileTypes
    <3>. QED  BY <3>2, <3>3
  <2>9. CASE CloseState
    <3>1. ~ \E g \in Handlers : Opened(g) /\ file[g] = file[h] /\ "temporary" \in op[g]
      BY <2>1 DEF OneOpener
    <3>2. file[h] \in DOMAIN disk
      BY <2>1 DEF FileTypes
    <3>3. disk'[file[h]] = disk[file[h]]
      BY <2>9, <3>1, <3>2 DEF CloseState
    <3>. QED  BY <2>2, <3>3
  <2>10. ASSUME NEW g \in Handlers,
               \/ ReadLine(g) \/ ReadBuffer(g) \/ Seek(g)
               \/ Flush(g) \/ SetVBuf(g) \/ Lines(g) \/ Output(g) \/ Drop(g)
         PROVE Old(h)
    <3>1. UNCHANGED disk
      BY <2>10 DEF ReadLine, ReadBuffer, HandsOver, Seek, Flush, SetVBuf, Lines, Output, Drop
    <3>. QED  BY <2>2, <3>1
  <2>. HIDE DEF Old
  <2>. QED  BY <1>1, <2>3, <2>4, <2>6, <2>7, <2>8, <2>9, <2>10, FileSteps
<1>2. FilesInv(Chars) /\ [FilesNext]_fileVars =>
        [\A h \in Handlers :
           Opened(h) /\ "append" \in op[h] =>
             SubSeq(disk'[file[h]], 1, least[h]) = SubSeq(Text(h), 1, least[h])]_fileVars
  BY <1>1
<1>. QED  BY <1>2, FilesHold, PTL DEF FilesSpec, AppendKeeps

(* A write that is not buffered is flushed when the call returns, and so   *)
(* is one that ends a line if the file is line buffered.                   *)
THEOREM WritesAreFlushed ==
  ASSUME NEW Chars, Contents(Chars)
  PROVE  FilesSpec => FlushedInTime
<1>. DEFINE InTime(h) ==
       disk'[file[h]] # disk[file[h]] /\ dirty'[h] =>
         buffering[h] # "no" /\ (buffering[h] = "line" => disk'[file[h]][pos'[h]] # NL)
<1>1. ASSUME FilesInv(Chars), [FilesNext]_fileVars
      PROVE  \A h \in Handlers : InTime(h)
  <2>. SUFFICES ASSUME NEW h \in Handlers, disk'[file[h]] # disk[file[h]], dirty'[h]
                PROVE  buffering[h] # "no" /\ (buffering[h] = "line" => disk'[file[h]][pos'[h]] # NL)
    OBVIOUS
  <2>1. FileTypes(Chars) /\ OneOpener /\ (~Opened(h) => ~dirty[h])
    BY <1>1 DEF FilesInv, NotInAFile
  <2>2. ~ UNCHANGED fileVars
    BY DEF fileVars
  <2>3. ASSUME NEW g \in Handlers, Open(g) \/ TmpFile(g) \/ IoLines(g) PROVE FALSE
    <3>1. PICK f \in Files \cup Temps : \E m : Creates(g, f, m)
      BY <2>3 DEF Open, TmpFile, IoLines
    <3>2. dirty' = dirty /\ (Opened(h) => file[h] # f)
      BY <3>1 DEF Creates, InUse
    <3>3. file[h] # f
      BY <2>1, <3>2
    <3>. QED  BY <2>1, <3>1, <3>3 DEF Creates, FileTypes
  <2>4. ASSUME NEW g \in Handlers, disk' = (IF Opened(g) THEN ClosedContent(g) ELSE disk), ClosesHandle(g) PROVE FALSE
    <3>1. g # h /\ dirty'[h] = dirty[h]
      BY <2>1, <2>4 DEF ClosesHandle, FileTypes
    <3>2. ~Opened(g) \/ file[g] # file[h]
      BY <2>1, <3>1 DEF OneOpener
    <3>. QED  BY <2>1, <2>4, <3>2 DEF ClosedContent, FileTypes
  <2>5. ASSUME NEW g \in Handlers, Opened(g) /\ Closes(g) PROVE FALSE
    BY <2>4, <2>5 DEF Closes
  <2>6. ASSUME NEW g \in Handlers, CollectFile(g) PROVE FALSE
    BY <2>4, <2>6 DEF CollectFile
  <2>7. ASSUME NEW g \in Handlers, NEW s \in Strings, Writes(g, s)
        PROVE  buffering[h] # "no" /\ (buffering[h] = "line" => disk'[file[h]][pos'[h]] # NL)
    <3>1. /\ Opened(g) /\ disk' = [disk EXCEPT ![file[g]] = Written(g, s)] /\ s \in Seq(Chars)
          /\ pos' = [pos EXCEPT ![g] = WritePos(g) + Len(s)]
          /\ dirty' = [dirty EXCEPT ![g] = KeepsDirty(g, s)]
      BY <2>7 DEF Writes, Moves, Contents
    <3>2. g = h
      <4>1. g # h => dirty'[h] = dirty[h]
        BY <2>1, <3>1 DEF FileTypes
      <4>2. g # h => file[g] # file[h]
        BY <2>1, <3>1, <4>1 DEF OneOpener
      <4>. QED  BY <2>1, <3>1, <4>2 DEF FileTypes
    <3>3. disk'[file[h]] = Written(h, s) /\ pos'[h] = WritePos(h) + Len(s) /\ KeepsDirty(h, s)
      BY <2>1, <3>1, <3>2 DEF FileTypes
    <3>4. s # <<>>
      <4>1. Opened(h) /\ s \in Seq(Chars)
        BY <3>1, <3>2
      <4>2. s = <<>> => Written(h, s) = Text(h)
        BY <1>1, <4>1, WritesAt
      <4>. QED  BY <3>3, <4>2 DEF Text
    <3>5. Len(s) \in 1..Len(s)
      BY <3>1, <3>4
    <3>6. Written(h, s)[WritePos(h) + Len(s)] = s[Len(s)]
      BY <1>1, <3>1, <3>2, <3>5, WritesAt
    <3>7. NL \notin ToSet(s) => s[Len(s)] # NL
      BY <3>1, <3>5 DEF ToSet
    <3>. QED  BY <3>3, <3>6, <3>7 DEF KeepsDirty
  <2>8. CASE CloseState
    BY <2>8 DEF CloseState
  <2>9. ASSUME NEW g \in Handlers,
               \/ ReadLine(g) \/ ReadBuffer(g) \/ Seek(g)
               \/ Flush(g) \/ SetVBuf(g) \/ Lines(g) \/ Output(g) \/ Drop(g)
        PROVE FALSE
    BY <2>9 DEF ReadLine, ReadBuffer, HandsOver, Seek, Flush, SetVBuf, Lines, Output, Drop
  <2>. QED  BY <1>1, <2>2, <2>3, <2>5, <2>6, <2>7, <2>8, <2>9, FileSteps
<1>2. FilesInv(Chars) /\ [FilesNext]_fileVars =>
        [\A h \in Handlers :
           disk'[file[h]] # disk[file[h]] /\ dirty'[h] =>
             buffering[h] # "no" /\ (buffering[h] = "line" => disk'[file[h]][pos'[h]] # NL)]_fileVars
  BY <1>1
<1>. QED  BY <1>2, FilesHold, PTL DEF FilesSpec, FlushedInTime

(* An open file is not collected, however unreachable: it goes when it has *)
(* been closed or with the state.                                          *)
THEOREM OpenFilesStay ==
  ASSUME NEW Chars, Contents(Chars)
  PROVE  FilesSpec => OpenFileStays
<1>1. ASSUME FilesInv(Chars), [FilesNext]_fileVars, NEW h \in Handlers, Opened(h), stage'[h] = "deleted"
      PROVE  anchored' = {} /\ held' = {}
  <2>1. FileTypes(Chars) /\ h \in anchored /\ stage[h] = "open"
    BY <1>1 DEF FilesInv, InItsFile, Opened
  <2>2. stage' # stage
    BY <1>1, <2>1
  <2>3. ASSUME NEW g \in Handlers, NEW next, stage' = [stage EXCEPT ![g] = next], next # "deleted" PROVE FALSE
    BY <1>1, <2>1, <2>3 DEF FileTypes
  <2>4. ASSUME NEW g \in Handlers, Open(g) \/ TmpFile(g) \/ IoLines(g) PROVE FALSE
    <3>1. stage' = [stage EXCEPT ![g] = "open"]
      BY <2>4 DEF Open, TmpFile, IoLines, Creates
    <3>. QED  BY <2>3, <3>1
  <2>5. ASSUME NEW g \in Handlers, Opened(g) /\ Closes(g) PROVE FALSE
    <3>1. stage' = [stage EXCEPT ![g] = "closed"]
      BY <2>5 DEF Closes
    <3>. QED  BY <2>3, <3>1
  <2>6. ASSUME NEW g \in Handlers, CollectFile(g) PROVE FALSE
    BY <1>1, <2>1, <2>6 DEF CollectFile, FileTypes
  <2>7. CASE CloseState
    BY <2>7 DEF CloseState
  <2>8. ASSUME NEW g \in Handlers,
               \/ ReadLine(g) \/ ReadBuffer(g) \/ Seek(g) \/ (\E s \in Strings : Writes(g, s))
               \/ Flush(g) \/ SetVBuf(g) \/ Lines(g) \/ Output(g) \/ Drop(g)
        PROVE FALSE
    BY <2>2, <2>8 DEF ReadLine, ReadBuffer, HandsOver, Seek, Writes, Flush, SetVBuf, Lines, Output, Drop
  <2>9. ~ UNCHANGED fileVars
    BY <2>2 DEF fileVars
  <2>. QED  BY <1>1, <2>4, <2>5, <2>6, <2>7, <2>8, <2>9, FileSteps
<1>2. FilesInv(Chars) /\ [FilesNext]_fileVars =>
        [\A h \in Handlers : Opened(h) /\ stage'[h] = "deleted" => anchored' = {} /\ held' = {}]_fileVars
  BY <1>1
<1>. QED  BY <1>2, FilesHold, PTL DEF FilesSpec, OpenFileStays

-----------------------------------------------------------------------------
(* The sum of the sizes of blocks.                                         *)

\* What the blocks of S take.
SizeSum(f, S) == MapThenSumSet(LAMBDA b : f[b].size, S)

First(s) == CHOOSE x \in s : TRUE

\* How MapThenSumSet adds up: g is the sum for every set of D.
SumsUp(g, f, D) == g = [s \in D |-> IF s = {} THEN 0 ELSE f[First(s)].size + g[s \ {First(s)}]]

LEMMA SumsUpAt ==
  ASSUME NEW g, NEW f, NEW D, SumsUp(g, f, D), NEW s \in D
  PROVE  g[s] = IF s = {} THEN 0 ELSE f[First(s)].size + g[s \ {First(s)}]
BY DEF SumsUp

LEMMA FirstTaken ==
  ASSUME NEW s, s # {}, IsFiniteSet(s)
  PROVE  /\ First(s) \in s /\ IsFiniteSet(s \ {First(s)})
         /\ Cardinality(s) \in Nat /\ Cardinality(s) # 0 /\ Cardinality(s \ {First(s)}) = Cardinality(s) - 1
<1>1. First(s) \in s
  BY DEF First
<1>2. /\ IsFiniteSet(s \ {First(s)}) /\ Cardinality(s \ {First(s)}) = Cardinality(s) - 1
  BY <1>1, FS_RemoveElement
<1>3. Cardinality(s) \in Nat /\ Cardinality(s) # 0
  BY FS_CardinalityType, FS_EmptySet
<1>. QED  BY <1>1, <1>2, <1>3

\* There is such a function, for sets up to any size.
LEMMA SumsUpExists ==
  ASSUME NEW f, NEW S, IsFiniteSet(S)
  PROVE  \E g : SumsUp(g, f, SUBSET S)
<1>. DEFINE UpTo(n) == {s \in SUBSET S : Cardinality(s) <= n}
            Bad == {n \in Nat : ~ \E g : SumsUp(g, f, UpTo(n))}
<1>0. \A s \in SUBSET S : IsFiniteSet(s) /\ Cardinality(s) \in Nat
  BY FS_Subset, FS_CardinalityType
<1>1. Bad = {}
  <2>1. SUFFICES ASSUME Bad # {} PROVE FALSE
    OBVIOUS
  <2>2. PICK n \in Bad : \A y \in Bad : n <= y
    BY <2>1, LeastElement
  <2>3. n # 0
    <3>1. \A s \in UpTo(0) : s = {}
      BY <1>0, FS_EmptySet
    <3>2. SumsUp([s \in UpTo(0) |-> 0], f, UpTo(0))
      <4>. HIDE DEF UpTo
      <4>. QED  BY <3>1 DEF SumsUp
    <3>. QED  BY <3>2
  <2>4. n - 1 \in Nat /\ n - 1 \notin Bad
    <3>1. n \in Nat
      BY <2>2
    <3>. HIDE DEF Bad
    <3>. QED  BY <2>2, <2>3, <3>1
  <2>5. PICK g : SumsUp(g, f, UpTo(n - 1))
    BY <2>4
  <2>. DEFINE h == [s \in UpTo(n) |-> IF s = {} THEN 0 ELSE f[First(s)].size + g[s \ {First(s)}]]
  <2>6. ASSUME NEW s \in UpTo(n), s # {} PROVE h[s \ {First(s)}] = g[s \ {First(s)}]
    <3>. DEFINE r == s \ {First(s)}
    <3>1. r \in UpTo(n - 1) /\ r \in UpTo(n)
      <4>1. Cardinality(s) \in Nat /\ Cardinality(r) = Cardinality(s) - 1
        BY <1>0, <2>6, FirstTaken
      <4>. QED  BY <4>1
    <3>2. g[r] = IF r = {} THEN 0 ELSE f[First(r)].size + g[r \ {First(r)}]
      <4>. HIDE DEF r, UpTo
      <4>. QED  BY <2>5, <3>1, SumsUpAt
    <3>3. h[r] = IF r = {} THEN 0 ELSE f[First(r)].size + g[r \ {First(r)}]
      <4>. HIDE DEF r, UpTo
      <4>. QED  BY <3>1
    <3>. QED  BY <3>2, <3>3
  <2>7. SumsUp(h, f, UpTo(n))
    <3>1. h = [s \in UpTo(n) |-> IF s = {} THEN 0 ELSE f[First(s)].size + h[s \ {First(s)}]]
      <4>. HIDE DEF UpTo
      <4>1. h = [s \in UpTo(n) |-> h[s]]
        OBVIOUS
      <4>2. \A s \in UpTo(n) : h[s] = IF s = {} THEN 0 ELSE f[First(s)].size + h[s \ {First(s)}]
        BY <2>6
      <4>. HIDE DEF h
      <4>. QED  BY <4>1, <4>2
    <3>. QED  BY <3>1 DEF SumsUp
  <2>. QED  BY <2>7
<1>2. \E g : SumsUp(g, f, UpTo(Cardinality(S)))
  BY <1>0, <1>1
<1>3. UpTo(Cardinality(S)) = SUBSET S
  BY FS_Subset
<1>. QED  BY <1>2, <1>3

\* It gives what does not depend on the sets beside.
LEMMA SumsUpSame ==
  ASSUME NEW f, NEW e, NEW g, NEW h, NEW S, NEW R, SumsUp(g, f, SUBSET S), SumsUp(h, e, SUBSET R),
         NEW T, T \subseteq S, T \subseteq R, IsFiniteSet(T), \A x \in T : f[x].size = e[x].size
  PROVE  g[T] = h[T]
<1>. DEFINE Bad == {n \in Nat : \E s \in SUBSET T : Cardinality(s) = n /\ g[s] # h[s]}
<1>0. \A s \in SUBSET T : IsFiniteSet(s) /\ Cardinality(s) \in Nat
  BY FS_Subset, FS_CardinalityType
<1>1. SUFFICES ASSUME Bad # {} PROVE FALSE
  BY <1>0
<1>2. PICK n \in Bad : \A y \in Bad : n <= y
  BY <1>1, LeastElement
<1>3. PICK s \in SUBSET T : Cardinality(s) = n /\ g[s] # h[s]
  OBVIOUS
<1>4. /\ g[s] = IF s = {} THEN 0 ELSE f[First(s)].size + g[s \ {First(s)}]
      /\ h[s] = IF s = {} THEN 0 ELSE e[First(s)].size + h[s \ {First(s)}]
  <2>. HIDE DEF Bad
  <2>1. s \in SUBSET S /\ s \in SUBSET R
    OBVIOUS
  <2>2. g[s] = IF s = {} THEN 0 ELSE f[First(s)].size + g[s \ {First(s)}]
    BY <2>1, SumsUpAt
  <2>3. h[s] = IF s = {} THEN 0 ELSE e[First(s)].size + h[s \ {First(s)}]
    BY <2>1, SumsUpAt
  <2>. QED  BY <2>2, <2>3
<1>5. s # {}
  BY <1>3, <1>4
<1>6. /\ First(s) \in T /\ s \ {First(s)} \in SUBSET T
      /\ Cardinality(s \ {First(s)}) = n - 1 /\ n - 1 \in Nat
  BY <1>0, <1>3, <1>5, FirstTaken
<1>7. n - 1 \notin Bad
  BY <1>2, <1>6
<1>8. g[s \ {First(s)}] = h[s \ {First(s)}]
  BY <1>6, <1>7
<1>9. f[First(s)].size = e[First(s)].size
  BY <1>6
<1>. HIDE DEF Bad
<1>. QED  BY <1>3, <1>4, <1>5, <1>8, <1>9

\* So the sum is what such a function gives.
LEMMA SizeSumIsOne ==
  ASSUME NEW f, NEW S, IsFiniteSet(S)
  PROVE  \E g : SumsUp(g, f, SUBSET S) /\ SizeSum(f, S) = g[S]
<1>. DEFINE G == CHOOSE g : SumsUp(g, f, SUBSET S)
<1>1. SizeSum(f, S) = G[S]
  BY DEF SizeSum, MapThenSumSet, MapThenFoldSet, SumsUp, First
<1>2. SumsUp(G, f, SUBSET S)
  <2>1. \E g : SumsUp(g, f, SUBSET S)
    BY SumsUpExists
  <2>. QED  BY <2>1
<1>. QED  BY <1>1, <1>2

\* Only the sizes of the blocks matter ...
LEMMA SizeSumSame ==
  ASSUME NEW f, NEW e, NEW S, IsFiniteSet(S), \A x \in S : f[x].size = e[x].size
  PROVE  SizeSum(f, S) = SizeSum(e, S)
<1>1. PICK g : SumsUp(g, f, SUBSET S) /\ SizeSum(f, S) = g[S]
  BY SizeSumIsOne
<1>2. PICK h : SumsUp(h, e, SUBSET S) /\ SizeSum(e, S) = h[S]
  BY SizeSumIsOne
<1>3. g[S] = h[S]
  BY <1>1, <1>2, SumsUpSame
<1>. QED  BY <1>1, <1>2, <1>3

\* ... and the first of them can be taken out ...
LEMMA SizeSumFirst ==
  ASSUME NEW f, NEW S, IsFiniteSet(S)
  PROVE  /\ S = {} => SizeSum(f, S) = 0
         /\ S # {} => SizeSum(f, S) = f[First(S)].size + SizeSum(f, S \ {First(S)})
<1>1. PICK g : SumsUp(g, f, SUBSET S) /\ SizeSum(f, S) = g[S]
  BY SizeSumIsOne
<1>2. g[S] = IF S = {} THEN 0 ELSE f[First(S)].size + g[S \ {First(S)}]
  BY <1>1, SumsUpAt
<1>3. ASSUME S # {} PROVE g[S \ {First(S)}] = SizeSum(f, S \ {First(S)})
  <2>. DEFINE T == S \ {First(S)}
  <2>1. IsFiniteSet(T) /\ T \subseteq S
    BY FS_Subset
  <2>. HIDE DEF T
  <2>2. PICK h : SumsUp(h, f, SUBSET T) /\ SizeSum(f, T) = h[T]
    BY <2>1, SizeSumIsOne
  <2>3. g[T] = h[T]
    BY <1>1, <2>1, <2>2, SumsUpSame
  <2>4. g[T] = SizeSum(f, T)
    BY <2>2, <2>3
  <2>. QED  BY <2>4 DEF T
<1>. QED  BY <1>1, <1>2, <1>3

LEMMA SizeSumInt ==
  ASSUME NEW f, NEW S, IsFiniteSet(S), \A x \in S : f[x].size \in Int
  PROVE  SizeSum(f, S) \in Int
<1>. DEFINE Bad == {n \in Nat : \E s \in SUBSET S : Cardinality(s) = n /\ SizeSum(f, s) \notin Int}
<1>0. \A s \in SUBSET S : IsFiniteSet(s) /\ Cardinality(s) \in Nat
  BY FS_Subset, FS_CardinalityType
<1>1. SUFFICES ASSUME Bad # {} PROVE FALSE
  BY <1>0
<1>2. PICK n \in Bad : \A y \in Bad : n <= y
  BY <1>1, LeastElement
<1>3. PICK s \in SUBSET S : Cardinality(s) = n /\ SizeSum(f, s) \notin Int
  BY <1>2
<1>4. n \in Nat
  BY <1>2
<1>5. s # {}
  <2>. HIDE DEF Bad
  <2>1. SUFFICES ASSUME s = {} PROVE FALSE
    OBVIOUS
  <2>2. SizeSum(f, s) = 0
    BY <1>0, <2>1, SizeSumFirst
  <2>. QED  BY <1>3, <2>2
<1>. DEFINE r == s \ {First(s)}
<1>6. /\ First(s) \in s /\ Cardinality(r) = n - 1 /\ n - 1 \in Nat /\ r \in SUBSET S
      /\ SizeSum(f, s) = f[First(s)].size + SizeSum(f, r)
  BY <1>0, <1>3, <1>5, FirstTaken, SizeSumFirst
<1>. HIDE DEF r
<1>7. n - 1 \notin Bad
  <2>. HIDE DEF Bad
  <2>. QED  BY <1>2, <1>4, <1>6
<1>8. SizeSum(f, r) \in Int /\ f[First(s)].size \in Int
  BY <1>6, <1>7
<1>. HIDE DEF Bad
<1>. QED  BY <1>3, <1>6, <1>8

\* ... or any other.
LEMMA SizeSumTakes ==
  ASSUME NEW f, NEW S, IsFiniteSet(S), \A x \in S : f[x].size \in Int
  PROVE  /\ SizeSum(f, S) \in Int
         /\ \A x \in S : SizeSum(f, S) = f[x].size + SizeSum(f, S \ {x})
<1>. DEFINE Good(s) == /\ SizeSum(f, s) \in Int
                       /\ \A x \in s : SizeSum(f, s) = f[x].size + SizeSum(f, s \ {x})
            Bad == {n \in Nat : \E s \in SUBSET S : Cardinality(s) = n /\ ~Good(s)}
<1>0. \A s \in SUBSET S : IsFiniteSet(s) /\ Cardinality(s) \in Nat
  BY FS_Subset, FS_CardinalityType
<1>1. SUFFICES ASSUME Bad # {} PROVE FALSE
  <2>. HIDE DEF Good
  <2>1. Good(S)
    BY <1>0, <1>1
  <2>. QED  BY <2>1 DEF Good
<1>2. PICK n \in Bad : \A y \in Bad : n <= y
  BY <1>1, LeastElement
<1>3. PICK s \in SUBSET S : Cardinality(s) = n /\ ~Good(s)
  <2>. HIDE DEF Good
  <2>. QED  BY <1>2
<1>4. n \in Nat
  BY <1>2
<1>5. ASSUME NEW r \in SUBSET S, Cardinality(r) = n - 1 PROVE Good(r)
  <2>. HIDE DEF Good
  <2>1. n - 1 \in Nat
    BY <1>0, <1>5
  <2>2. n - 1 \notin Bad
    <3>. HIDE DEF Bad
    <3>. QED  BY <1>2, <1>4, <2>1
  <2>. QED  BY <1>5, <2>1, <2>2
<1>6. \A x \in s : Cardinality(s \ {x}) = n - 1
  BY <1>0, <1>3, FS_RemoveElement
<1>. HIDE DEF Bad
<1>7. s # {}
  <2>1. SUFFICES ASSUME s = {} PROVE FALSE
    OBVIOUS
  <2>2. SizeSum(f, s) = 0
    BY <1>0, <2>1, SizeSumFirst
  <2>3. Good(s)
    BY <2>1, <2>2
  <2>. HIDE DEF Good
  <2>. QED  BY <1>3, <2>3
<1>. DEFINE y == First(s)
<1>8. y \in s /\ SizeSum(f, s) = f[y].size + SizeSum(f, s \ {y})
  BY <1>0, <1>7, FirstTaken, SizeSumFirst
<1>. HIDE DEF y
<1>9. SizeSum(f, s \ {y}) \in Int /\ f[y].size \in Int
  BY <1>3, <1>5, <1>6, <1>8
<1>10. ASSUME NEW x \in s PROVE SizeSum(f, s) = f[x].size + SizeSum(f, s \ {x})
  <2>1. CASE x = y
    BY <1>8, <2>1
  <2>2. CASE x # y
    <3>. DEFINE r == (s \ {y}) \ {x}
    <3>1. SizeSum(f, s \ {y}) = f[x].size + SizeSum(f, r)
      <4>1. Good(s \ {y}) /\ x \in s \ {y}
        BY <1>5, <1>6, <1>8, <2>2
      <4>. QED  BY <4>1
    <3>2. SizeSum(f, s \ {x}) = f[y].size + SizeSum(f, r)
      <4>1. Good(s \ {x}) /\ y \in s \ {x}
        BY <1>5, <1>6, <1>8, <2>2
      <4>2. (s \ {x}) \ {y} = r
        OBVIOUS
      <4>. QED  BY <4>1, <4>2
    <3>3. SizeSum(f, r) \in Int
      <4>1. IsFiniteSet(r) /\ \A z \in r : f[z].size \in Int
        BY <1>0
      <4>. HIDE DEF r
      <4>. QED  BY <4>1, SizeSumInt
    <3>4. f[x].size \in Int
      OBVIOUS
    <3>. HIDE DEF r
    <3>. QED  BY <1>8, <1>9, <3>1, <3>2, <3>3, <3>4
  <2>. QED  BY <2>1, <2>2
<1>. QED  BY <1>3, <1>8, <1>9, <1>10

-----------------------------------------------------------------------------
(* The tracker.                                                            *)

Listed(m) == {b \in Blocks : m[b] # Null}

Holding == {"tell", "work", "reset"}

TrackerTypes ==
  /\ nested \in [Askers -> Seq(Sites \cup {Null})]
  /\ call \in [Askers -> Requests \cup {Null}]
  /\ progress \in [Askers -> {"idle", "lock"} \cup Holding]
  /\ lock \in Askers \cup {Null}
  /\ {debugData, current} \subseteq Sites \cup {Null}
  /\ memory \in [Blocks -> Listings \cup {Null}]
  /\ usage \in Int

\* The two global variables are the business of the thread that holds the lock.
Asking == \A t \in Askers :
  /\ progress[t] = "idle" <=> call[t] = Null
  /\ call[t] # Null => (call[t].op = "free" => call[t].size = 0)
LockKept ==
  /\ \A t \in Askers : progress[t] \in Holding => lock = t
  /\ lock = Null => debugData = Null /\ current = Null
Told == \A t \in Askers :
  /\ progress[t] = "tell" => debugData = Null /\ current = Null
  /\ progress[t] \in {"work", "reset"} => debugData = call[t].site /\ current = call[t].site
Listing ==
  /\ \A b \in Blocks : memory[b] # Null => memory[b].created = memory[b].asked
  /\ usage = SizeSum(memory, Listed(memory))

TrackerInv == TrackerTypes /\ Asking /\ LockKept /\ Told /\ Listing

\* What is listed, with and without one block.
LEMMA ListedSum ==
  ASSUME NEW m \in [Blocks -> Listings \cup {Null}], NEW b \in Blocks
  PROVE  /\ IsFiniteSet(Listed(m)) /\ IsFiniteSet(Listed(m) \ {b})
         /\ SizeSum(m, Listed(m) \ {b}) \in Int
         /\ SizeSum(m, Listed(m)) =
              (IF m[b] = Null THEN 0 ELSE m[b].size) + SizeSum(m, Listed(m) \ {b})
<1>1. IsFiniteSet(Listed(m)) /\ IsFiniteSet(Listed(m) \ {b})
  BY FS_Subset, TrackerAssumption DEF Listed
<1>2. \A x \in Listed(m) : m[x].size \in Nat
  BY DEF Listed, Listings
<1>3. SizeSum(m, Listed(m) \ {b}) \in Int
  BY <1>1, <1>2, SizeSumTakes
<1>4. CASE m[b] = Null
  <2>1. Listed(m) \ {b} = Listed(m)
    BY <1>4 DEF Listed
  <2>. QED  BY <1>1, <1>3, <1>4, <2>1
<1>5. CASE m[b] # Null
  <2>1. b \in Listed(m)
    BY <1>5 DEF Listed
  <2>2. SizeSum(m, Listed(m)) = m[b].size + SizeSum(m, Listed(m) \ {b})
    BY <1>1, <1>2, <2>1, SizeSumTakes
  <2>. QED  BY <1>1, <1>3, <1>5, <2>2
<1>. QED  BY <1>4, <1>5

LEMMA InnermostTyped ==
  ASSUME TrackerTypes, NEW t \in Askers
  PROVE  Innermost(t) \in Sites \cup {Null}
<1>1. nested[t] \in Seq(Sites \cup {Null})
  BY DEF TrackerTypes
<1>2. ASSUME nested[t] # <<>> PROVE Last(nested[t]) \in Sites \cup {Null}
  BY <1>1, <1>2 DEF Last
<1>. QED  BY <1>2 DEF Innermost

LEMMA TrackerStarts ==
  ASSUME MemoryInit PROVE TrackerInv
<1>1. TrackerTypes /\ Asking /\ LockKept /\ Told
  BY TrackerAssumption DEF MemoryInit, TrackerTypes, Asking, LockKept, Told, Holding
<1>2. Listed(memory) = {}
  BY DEF MemoryInit, Listed
<1>3. Listing
  BY <1>2, SizeSumFirst, FS_EmptySet DEF MemoryInit, Listing
<1>. QED  BY <1>1, <1>3 DEF TrackerInv

\* The actions, one by one.
LEMMA NestedKeeps ==
  ASSUME TrackerInv, NEW t \in Askers, NEW site \in Sites \cup {Null},
         AddNestedRecord(t, site) \/ RemoveNestedRecord(t)
  PROVE  TrackerInv'
<1>1. nested' \in [Askers -> Seq(Sites \cup {Null})]
  <2>1. nested[t] \in Seq(Sites \cup {Null})
    BY DEF TrackerInv, TrackerTypes
  <2>2. Append(nested[t], site) \in Seq(Sites \cup {Null})
    BY <2>1
  <2>3. nested[t] # <<>> => Front(nested[t]) \in Seq(Sites \cup {Null})
    BY <2>1 DEF Front
  <2>. QED  BY <2>2, <2>3 DEF TrackerInv, TrackerTypes, AddNestedRecord, RemoveNestedRecord
<1>2. UNCHANGED <<call, progress, lock, debugData, current, memory, usage>>
  BY DEF AddNestedRecord, RemoveNestedRecord
<1>. QED  BY <1>1, <1>2 DEF TrackerInv, TrackerTypes, Asking, LockKept, Told, Listing, Listed

LEMMA AsksKeeps ==
  ASSUME TrackerInv, NEW t \in Askers, NEW request \in Requests,
         request.op = "free" => request.size = 0,
         call[t] = Null,
         call' = [call EXCEPT ![t] = request],
         progress' = [progress EXCEPT ![t] = "lock"],
         UNCHANGED <<nested, lock, debugData, current, memory, usage>>
  PROVE  TrackerInv'
<1>1. request # Null
  BY TrackerAssumption
<1>2. TrackerTypes'
  BY DEF TrackerInv, TrackerTypes
<1>3. progress[t] = "idle"
  BY DEF TrackerInv, Asking
<1>4. Asking'
  BY <1>1 DEF TrackerInv, TrackerTypes, Asking
<1>5. LockKept' /\ Told'
  BY DEF TrackerInv, TrackerTypes, LockKept, Told, Holding
<1>6. Listing'
  BY DEF TrackerInv, Listing, Listed
<1>. QED  BY <1>2, <1>4, <1>5, <1>6 DEF TrackerInv

LEMMA CallsKeep ==
  ASSUME TrackerInv, NEW t \in Askers,
         NEW site \in {Innermost(t)} \cup Sites,
         \/ Free(t, site)
         \/ \E size \in Sizes : Allocate(t, site, size) \/ Reallocate(t, site, size)
  PROVE  TrackerInv'
<1>1. site \in Sites \cup {Null} /\ Sizes \subseteq Nat
  BY InnermostTyped, TrackerAssumption DEF TrackerInv
<1>2. PICK operation \in {"alloc", "realloc", "free"}, n \in Nat, b \in Blocks :
        Asks(t, operation, site, n, b) /\ (operation = "free" => n = 0)
  BY <1>1 DEF Allocate, Reallocate, Free
<1>. DEFINE request == [op |-> operation, site |-> site, size |-> n, block |-> b]
<1>3. request \in Requests /\ (request.op = "free" => request.size = 0)
  BY <1>1, <1>2 DEF Requests
<1>4. /\ call[t] = Null
      /\ call' = [call EXCEPT ![t] = request]
      /\ progress' = [progress EXCEPT ![t] = "lock"]
      /\ UNCHANGED <<nested, lock, debugData, current, memory, usage>>
  BY <1>2 DEF Asks
<1>. HIDE DEF request
<1>. QED  BY <1>3, <1>4, AsksKeeps

LEMMA AcquireKeeps ==
  ASSUME TrackerInv, NEW t \in Askers, Acquire(t)
  PROVE  TrackerInv'
<1>1. TrackerTypes'
  BY DEF TrackerInv, TrackerTypes, Acquire, Holding
<1>2. Asking'
  BY DEF TrackerInv, TrackerTypes, Asking, Acquire
<1>3. LockKept'
  BY TrackerAssumption DEF TrackerInv, TrackerTypes, LockKept, Acquire, Holding
<1>4. Told'
  BY DEF TrackerInv, TrackerTypes, LockKept, Told, Acquire, Holding
<1>5. Listing'
  BY DEF TrackerInv, Listing, Listed, Acquire
<1>. QED  BY <1>1, <1>2, <1>3, <1>4, <1>5 DEF TrackerInv

LEMMA SetKeeps ==
  ASSUME TrackerInv, NEW t \in Askers, SetDebugData(t)
  PROVE  TrackerInv'
<1>1. /\ progress[t] = "tell" /\ call[t] \in Requests /\ current = Null /\ lock = t
      /\ call[t].site \in Sites \cup {Null}
  BY DEF TrackerInv, TrackerTypes, Asking, LockKept, Told, SetDebugData, Requests, Holding
<1>2. /\ debugData' = call[t].site /\ current' = call[t].site
      /\ progress' = [progress EXCEPT ![t] = "work"]
      /\ UNCHANGED <<nested, call, lock, memory, usage>>
  BY <1>1 DEF SetDebugData
<1>3. TrackerTypes'
  BY <1>1, <1>2 DEF TrackerInv, TrackerTypes, Holding
<1>4. Asking'
  BY <1>1, <1>2 DEF TrackerInv, TrackerTypes, Asking
<1>5. LockKept'
  BY <1>1, <1>2, TrackerAssumption DEF TrackerInv, TrackerTypes, LockKept, Holding
<1>6. Told'
  BY <1>1, <1>2 DEF TrackerInv, TrackerTypes, LockKept, Told, Holding
<1>7. Listing'
  BY <1>2 DEF TrackerInv, Listing, Listed
<1>. QED  BY <1>3, <1>4, <1>5, <1>6, <1>7 DEF TrackerInv

LEMMA TrackKeeps ==
  ASSUME TrackerInv, NEW t \in Askers, Track(t)
  PROVE  TrackerInv'
<1>. DEFINE b == call[t].block
            record == [size |-> call[t].size, created |-> current, asked |-> call[t].site]
            listing == IF call[t].op = "free" THEN Null ELSE record
            before == IF memory[b] = Null THEN 0 ELSE memory[b].size
<1>1. /\ progress[t] = "work" /\ call[t] \in Requests /\ lock = t
      /\ current = call[t].site /\ call[t].site \in Sites \cup {Null}
      /\ b \in Blocks /\ call[t].size \in Nat
      /\ call[t].op = "free" => call[t].size = 0
  BY DEF TrackerInv, TrackerTypes, Asking, LockKept, Told, Track, Requests, Holding
<1>2. record \in Listings /\ record # Null /\ record.created = record.asked
  BY <1>1, TrackerAssumption DEF Listings
<1>3. /\ memory' = [memory EXCEPT ![b] = listing]
      /\ usage' = usage - before + call[t].size
      /\ progress' = [progress EXCEPT ![t] = "reset"]
      /\ UNCHANGED <<nested, call, lock, debugData, current>>
  BY DEF Track
<1>4. memory \in [Blocks -> Listings \cup {Null}] /\ usage \in Int
  BY DEF TrackerInv, TrackerTypes
<1>5. /\ listing \in Listings \cup {Null}
      /\ listing # Null => listing.created = listing.asked
      /\ (IF listing = Null THEN 0 ELSE listing.size) = call[t].size
  BY <1>1, <1>2
<1>6. before \in Nat
  BY <1>1, <1>4 DEF Listings
<1>7. usage = before + SizeSum(memory, Listed(memory) \ {b})
  BY <1>1, <1>4, ListedSum DEF TrackerInv, Listing
<1>. HIDE DEF b, record, listing, before
<1>8. memory' \in [Blocks -> Listings \cup {Null}] /\ memory'[b] = listing
  BY <1>1, <1>3, <1>4, <1>5
<1>9. SizeSum(memory', Listed(memory')) = call[t].size + SizeSum(memory', Listed(memory') \ {b})
  BY <1>1, <1>5, <1>8, ListedSum
<1>10. Listed(memory') \ {b} = Listed(memory) \ {b}
  BY <1>1, <1>3, <1>4 DEF Listed
<1>11. SizeSum(memory', Listed(memory) \ {b}) = SizeSum(memory, Listed(memory) \ {b})
  <2>1. \A x \in Listed(memory) \ {b} : memory'[x].size = memory[x].size
    BY <1>1, <1>3, <1>4 DEF Listed
  <2>2. IsFiniteSet(Listed(memory) \ {b})
    BY <1>1, <1>4, ListedSum
  <2>. QED  BY <2>1, <2>2, SizeSumSame
<1>12. SizeSum(memory, Listed(memory) \ {b}) \in Int
  BY <1>1, <1>4, ListedSum
<1>13. usage' = SizeSum(memory', Listed(memory')) /\ usage' \in Int
  <2>. DEFINE rest == SizeSum(memory, Listed(memory) \ {b})
              asked == call[t].size
  <2>1. usage = before + rest /\ usage' = usage - before + asked
    BY <1>3, <1>7
  <2>2. SizeSum(memory', Listed(memory')) = asked + rest
    BY <1>9, <1>10, <1>11
  <2>3. rest \in Int /\ asked \in Nat
    BY <1>1, <1>12
  <2>. HIDE DEF rest, asked
  <2>4. usage' = asked + rest
    BY <1>6, <2>1, <2>3
  <2>. QED  BY <2>2, <2>3, <2>4
<1>14. \A x \in Blocks : memory'[x] # Null => memory'[x].created = memory'[x].asked
  BY <1>1, <1>3, <1>4, <1>5 DEF TrackerInv, Listing
<1>15. TrackerTypes'
  BY <1>1, <1>3, <1>8, <1>13 DEF TrackerInv, TrackerTypes, Holding
<1>16. Asking' /\ LockKept' /\ Told'
  BY <1>1, <1>3 DEF TrackerInv, TrackerTypes, Asking, LockKept, Told, Holding
<1>. QED  BY <1>13, <1>14, <1>15, <1>16 DEF TrackerInv, Listing

LEMMA ResetKeeps ==
  ASSUME TrackerInv, NEW t \in Askers, ResetDebugData(t)
  PROVE  TrackerInv'
<1>1. progress[t] = "reset" /\ lock = t /\ current = debugData
  BY DEF TrackerInv, TrackerTypes, LockKept, Told, ResetDebugData, Holding
<1>2. /\ current' = Null /\ debugData' = Null /\ lock' = Null
      /\ call' = [call EXCEPT ![t] = Null]
      /\ progress' = [progress EXCEPT ![t] = "idle"]
      /\ UNCHANGED <<nested, memory, usage>>
  BY <1>1 DEF ResetDebugData
<1>3. TrackerTypes'
  BY <1>2 DEF TrackerInv, TrackerTypes
<1>4. Asking'
  BY <1>2 DEF TrackerInv, TrackerTypes, Asking
<1>5. LockKept' /\ Told'
  BY <1>1, <1>2 DEF TrackerInv, TrackerTypes, LockKept, Told, Holding
<1>6. Listing'
  BY <1>2 DEF TrackerInv, Listing, Listed
<1>. QED  BY <1>3, <1>4, <1>5, <1>6 DEF TrackerInv

\* Every block is listed under the line that has asked for it last, and the usage
\* is what is listed, however many threads ask at once (memtracker.cpp, through
\* the two global variables of memdynamic_management.cpp).
THEOREM LeaksAreToldApart == MemorySpec => []LeaksToldApart
<1>1. MemoryInit => TrackerInv
  BY TrackerStarts
<1>2. TrackerInv /\ [MemoryNext]_trackerVars => TrackerInv'
  <2>1. SUFFICES ASSUME TrackerInv, [MemoryNext]_trackerVars PROVE TrackerInv'
    OBVIOUS
  <2>2. CASE MemoryNext
    <3>1. PICK t \in Askers :
            \/ \E site \in Sites \cup {Null} : AddNestedRecord(t, site)
            \/ RemoveNestedRecord(t)
            \/ \E site \in {Innermost(t)} \cup Sites :
                 \/ Free(t, site)
                 \/ \E size \in Sizes : Allocate(t, site, size) \/ Reallocate(t, site, size)
            \/ Acquire(t) \/ SetDebugData(t) \/ Track(t) \/ ResetDebugData(t)
      BY <2>2 DEF MemoryNext
    <3>2. ASSUME NEW site \in Sites \cup {Null}, AddNestedRecord(t, site) \/ RemoveNestedRecord(t)
          PROVE  TrackerInv'
      BY <2>1, <3>2, NestedKeeps
    <3>3. ASSUME NEW site \in {Innermost(t)} \cup Sites,
                 \/ Free(t, site)
                 \/ \E size \in Sizes : Allocate(t, site, size) \/ Reallocate(t, site, size)
          PROVE  TrackerInv'
      BY <2>1, <3>3, CallsKeep
    <3>4. CASE Acquire(t) \/ SetDebugData(t) \/ Track(t) \/ ResetDebugData(t)
      BY <2>1, <3>4, AcquireKeeps, SetKeeps, TrackKeeps, ResetKeeps
    <3>. QED  BY <3>1, <3>2, <3>3, <3>4
  <2>3. CASE UNCHANGED trackerVars
    BY <2>1, <2>3 DEF trackerVars, TrackerInv, TrackerTypes, Asking, LockKept, Told, Listing, Listed
  <2>. QED  BY <2>1, <2>2, <2>3
<1>3. TrackerInv => LeaksToldApart
  BY DEF TrackerInv, Listing, Listed, LeaksToldApart, SizeSum
<1>. QED  BY <1>1, <1>2, <1>3, PTL DEF MemorySpec
=============================================================================
