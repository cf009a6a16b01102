---------------------------- MODULE LibraryObjects ----------------------------
(***************************************************************************)
(* C++ objects in Lua (luaobject_util.cpp), libraries made of them         *)
(* (lualibrary_loader.cpp) and the variants that refer to them (object_var *)
(* in luavariant.cpp), on top of References.                               *)
(*                                                                         *)
(* Lua sees an object as a table whose metatable holds its address and a   *)
(* __gc that calls its destructor.  An object_var keeps the table, under a *)
(* key made of the object's address.  Nothing finds the table of an object *)
(* without an entry: to give an object to Lua twice makes two tables, and  *)
(* two calls of the destructor.  Clients give an object once.              *)
(***************************************************************************)
EXTENDS References

CONSTANTS Objects, Names   \* C++ objects; names of libraries

ASSUME ObjectsAssumption == Things = Values \cup Objects /\ Values \cap Objects = {}

VARIABLES
  object,   \* table -> the object in its metatable, or Nothing
  library,  \* name -> the table in package.loaded, or Nothing
  alive,    \* the objects whose destructor has not run
  fresh     \* history: the objects that were never given to Lua

objects == <<object, library, alive, fresh>>
allVars == <<vars, objects>>

ObjectsTypeOK ==
  /\ object \in [Values -> Objects \cup {Nothing}]
  /\ library \in [Names -> Values \cup {Nothing}]
  /\ fresh \subseteq alive /\ alive \subseteq Objects

ObjectsInit ==
  /\ Init
  /\ object = [x \in Values |-> Nothing]
  /\ library = [n \in Names |-> Nothing]
  /\ alive = Objects /\ fresh = Objects

Given(o) == \E x \in live : object[x] = o
Loaded == {library[n] : n \in Names}

-----------------------------------------------------------------------------
(* object_var                                                               *)

\* from_state, of a plain value.
PlainFromState(v, x) ==
  /\ object[x] = Nothing
  /\ FromState(v, x)
  /\ UNCHANGED objects

\* from_state, of a table with an object: the key is the object's.
ObjectFromState(v, x) ==
  /\ Begin(v) /\ shows[v] = Nothing
  /\ x \in lua /\ object[x] # Nothing
  /\ NewRef(v, object[x], x)
  /\ UNCHANGED <<values, objects>>

\* from_object_reference: a new table for the object if it has no entry.
ObjectFromReference(v, o) ==
  /\ Begin(v) /\ shows[v] = Nothing /\ Quiet /\ raced = 0
  /\ o \in alive
  /\ \/ /\ entry[KeyOf[o]] # Nothing
        /\ NewRef(v, o, Nothing)
        /\ UNCHANGED <<live, object, fresh>>
     \/ /\ entry[KeyOf[o]] = Nothing /\ o \in fresh
        /\ fresh' = fresh \ {o}
        /\ \E x \in Values \ live :
             /\ NewRef(v, o, x)
             /\ live' = live \cup {x}
             /\ object' = [object EXCEPT ![x] = o]
  /\ UNCHANGED <<lua, library, alive>>

-----------------------------------------------------------------------------
(* library_loader                                                           *)

\* luaL_requiref makes an empty table for a name that is not loaded.
Required(n, x) ==
  /\ library[n] = x \/ (library[n] = Nothing /\ x \notin live)
  /\ library' = [library EXCEPT ![n] = x]
  /\ live' = live \cup {x} /\ lua' = lua \cup {x}

\* load_library: the object is the library's, unless it is already.  What the
\* table was before loses its metatable, and with it the call of its destructor.
LoadLibrary(n, o) ==
  /\ o \in alive
  /\ \E x \in Values :
       /\ Required(n, x)
       /\ o \in fresh \/ object[x] = o
       /\ object' = [object EXCEPT ![x] = o]
  /\ fresh' = fresh \ {o}
  /\ UNCHANGED <<refs, raced, alive>>

\* get_library_object
GetLibrary(n) ==
  /\ \E x \in Values : Required(n, x)
  /\ UNCHANGED <<refs, raced, object, alive, fresh>>

\* The program removes it.
Unload(n) ==
  /\ library[n] # Nothing
  /\ library' = [library EXCEPT ![n] = Nothing]
  /\ UNCHANGED <<vars, object, alive, fresh>>

-----------------------------------------------------------------------------
(* Lua                                                                      *)

ForgetValue(x) ==
  /\ x \notin Loaded
  /\ Forget(x)
  /\ UNCHANGED objects

\* A collected table calls _on_obj_removed: the object's destructor.
CollectValue(x) ==
  /\ Collect(x)
  /\ alive' = alive \ {object[x]}
  /\ object' = [object EXCEPT ![x] = Nothing]
  /\ UNCHANGED <<library, fresh>>

ObjectsNext ==
  \/ \E v \in Variants :
       \/ Call(v) /\ UNCHANGED objects
       \/ \E x \in Values : PlainFromState(v, x) \/ ObjectFromState(v, x)
       \/ \E o \in Objects : ObjectFromReference(v, o)
  \/ \E n \in Names : GetLibrary(n) \/ Unload(n) \/ \E o \in Objects : LoadLibrary(n, o)
  \/ \E x \in Values : (NewValue(x) /\ UNCHANGED objects) \/ ForgetValue(x) \/ CollectValue(x)

ObjectsSpec == ObjectsInit /\ [][ObjectsNext]_allVars

-----------------------------------------------------------------------------
\* As long as calls have not overlapped, no table in Lua and no variant has an
\* object whose destructor has run (_on_obj_called and get_object_reference
\* would use it).
ObjectsAlive == raced = 0 =>
  /\ \A x \in live : object[x] # Nothing => object[x] \in alive
  /\ \A v \in Variants : At(v, "idle") /\ shows[v] \in Objects => shows[v] \in alive

\* As long as calls have not overlapped, what a variant refers to lives: the Lua
\* value, and the object, with its destructor not run.
VariantKeepsWhatItShows == VariantKeepsValue /\ ObjectsAlive

\* An object that no table has any more is destroyed ("try to deinit current
\* object", load_library).  (Does not hold: see LoadLibrary.)
NoObjectLost == [][\A o \in Objects : Given(o) /\ ~Given(o)' => o \notin alive']_allVars

\* A variant of an object gives Lua a table of that object.  (Does not hold
\* after LoadLibrary replaced the object of the table it keeps.)
ObjectGivesItself == raced = 0 => \A v \in Variants :
  At(v, "idle") /\ shows[v] \in Objects => Has(v) /\ object[Entry(v).value] = shows[v]
=============================================================================
