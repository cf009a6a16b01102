---------------------------- MODULE ApiFunctions ----------------------------
(***************************************************************************)
(* The functions of the library that work on a Lua stack, as programs of   *)
(* ApiStack.  A function that calls another contains its program; calls    *)
(* through an interface (to_variant, push_to_stack of a variant, the       *)
(* callbacks) stand for what every implementation promises, and each       *)
(* implementation is checked against that promise.                         *)
(***************************************************************************)
EXTENDS ApiStack

\* to_variant and its callees leave the stack as it was (ToVariant below).
AsVariant(i, tag) == <<Use(i, tag)>>

\* I_variant::push_to_stack leaves one value.
PushVariant(tag) == <<Push(tag)>>

----------------------------------------------------------------------------
(* luainternal_storage                                                     *)

InitiateStorage ==
  << Global({"nil", "storage"}),
     If(-1, "nil", << Push("storage"), SetGlobal("storage") >>, << >>),
     Pop(1) >>

RequireStorage == InitiateStorage \o << Global({"storage"}) >>

----------------------------------------------------------------------------
(* A C++ object kept in the storage: library_loader, runtime_handler,      *)
(* print_override each have the same pair.                                 *)

SetAttached ==
  RequireStorage \o << Push("key"), Push("object"), Set(-3, "storage", "object"), Pop(1) >>

GetAttached ==
  RequireStorage \o << Push("key"), Get(-2, "storage", {"nil", "object"}), Pop(2) >>

----------------------------------------------------------------------------
(* luavalue_ref                                                            *)

RequireData ==
  RequireStorage \o
  << Push("key"), Get(-2, "storage", {"nil", "data"}),
     If(-1, "data", << >>,
        << Pop(1), Push("data"), Push("key"), Copy(-2), Set(-4, "storage", "data") >>),
     TakeOut(-2) >>

CreateMetadata(value) ==
  RequireData \o
  << Push("key"), Push("entry"),
     Push("key"), Copy(-5), Set(-3, "entry", value),
     Push("key"), Push("count"), Set(-3, "entry", "count"),
     Set(-3, "data", "entry"), Pop(1) >>

DeleteMetadata ==
  RequireData \o << Push("key"), Push("nil"), Set(-3, "data", "nil"), Pop(1) >>

\* Mutant: the storage table stays below the entry.
PushMetadataLeavesData(tags) == RequireData \o << Push("key"), Get(-2, "data", tags) >>

PushMetadata(tags) == RequireData \o << Push("key"), Get(-2, "data", tags), TakeOut(-2) >>

ModifyCount ==
  PushMetadata({"entry"}) \o
  << Push("key"), Copy(-1), Get(-3, "entry", {"count"}),
     Push("one"), Combine(2, "count"), Set(-3, "entry", "count"), Pop(1) >>

GetReferenceCount ==
  Stabilized(
    PushMetadata({"nil", "entry"}) \o
    << If(-1, "entry", << Push("key"), Get(-2, "entry", {"count"}) >>, << >>) >>, 0, 0)

HasReference == PushMetadata({"nil", "entry"}) \o << Pop(1) >>

UpdateReference == HasReference \o << Either(ModifyCount, << >>) >>

\* A value_ref goes, and the last one takes the entry with it.
ReleaseReference ==
  GetReferenceCount \o << Either(<< >>, << Either(DeleteMetadata, ModifyCount) >>) >>

PushHeldValue(value) ==
  UpdateReference \o PushMetadata({"entry"}) \o
  << Push("key"), Get(-2, "entry", {value}), TakeOut(-2) >>

PushValueToStack(value) ==
  HasReference \o << Either(PushHeldValue(value), << Push("nil") >>) >>

SetValue(i, value) ==
  << Enter(i) >> \o HasReference \o
  << Either(UpdateReference \o PushMetadata({"entry"}) \o
              << Push("key"), Copy(0), Set(-3, "entry", value), Pop(1) >>,
            << Copy(0) >> \o CreateMetadata(value) \o << Pop(1) >>),
     Leave >>

----------------------------------------------------------------------------
(* luaobject_util and set_special_type.  `meta` says whether the value has *)
(* a metatable; lua_getmetatable pushes nothing for one that has none.     *)

\* Without a metatable what is popped "first" is the caller's topmost slot.
SetSpecialType(i, t, meta) ==
  << Enter(i) >> \o
  (IF meta THEN << Meta(0, t) >>
           ELSE << Pop(1), Push("meta"), Copy(-1), SetMeta(0, t) >>) \o
  << Push("key"), Push("type"), Set(-3, "meta", "type"), Pop(1), Leave >>

GetSpecialType(i, t) ==
  Stabilized(
    << Enter(i),
       Either(<< >>, << Meta(0, t), Push("key"), Get(-2, "meta", {"nil", "type"}) >>),
       Leave >>, 0, 0)

\* Without a metatable the key is looked up in the caller's topmost slot, where
\* `found` says what may be.
GetObjectFromTable(i, t, meta, found) ==
  << Enter(i), Mark >> \o
  (IF meta THEN << Meta(0, t) >> ELSE << >>) \o
  << Push("key"), Get(-2, "meta", found),
     If(-1, "object", << Pop(2) >>, << >>),
     Stabilize(0, -9), Leave >>

\* A table that push_object_to_table was given has a metatable, with its object
\* until that goes.
GetObject(i, t) == GetObjectFromTable(i, t, TRUE, {"nil", "object"})

\* on_object_added of the file library adds values to the table on top.
OnObjectAdded ==
  AsVariant(-1, "table") \o
  << Repeat(<< Push("key") >> \o PushVariant("value") \o << Set(-3, "table", "value") >>) >>

PushObjectToTable(i) ==
  << Enter(i), Push("meta"),
     Push("key"), Push("function"), Set(-3, "meta", "function"),
     Push("key"), Push("object"), Set(-3, "meta", "object"),
     SetMeta(0, "table"),
     Repeat(<< Push("key"), Push("index"), Combine(1, "function"),
               Set(-3, "table", "function") >>) >> \o
  SetSpecialType(0, "table", TRUE) \o
  << Copy(0) >> \o OnObjectAdded \o << Pop(1), Leave >>

\* The arguments that are left are read, the object's function runs outside Lua,
\* and its results are pushed.  A program may pass any table for the object.
OnObjectCalled(meta) ==
  GetObjectFromTable(1, "table", meta, {"nil", "object"}) \o
  << Either(<< Raise >>,
            << IfAny("arg", AsVariant(2, "arg"), << >>) >> \o
            << Either(<< Push("result"), Return(1) >>,
                      << Repeat(PushVariant("result")), ReturnAll >>) >>) >>

OnObjectRemoved ==
  GetObject(1, "table") \o
  << Either(<< Global({"function"}), Push("message"), Call(1, << >>), Return(0) >>,
            << Meta(1, "table"), Push("key"), Push("object"), Set(-3, "meta", "object"),
               Pop(1), Return(0) >>) >>

----------------------------------------------------------------------------
(* lualibrary_loader.  luaL_requiref leaves the library's table, which has *)
(* a metatable only if an object was loaded under its name before; the     *)
(* table itself does not hold the object's key.                            *)

Required == GetAttached \o << Push("library"), Return(1) >>

GetLibraryObject(meta) ==
  << Push("library") >> \o
  GetObjectFromTable(-1, "library", meta, IF meta THEN {"nil", "object"} ELSE {"nil"}) \o
  << Pop(1) >>

LoadLibrary(meta) ==
  GetLibraryObject(meta) \o
  << Either(<< >>,
       << Push("table") >> \o
       (IF meta THEN << Meta(-1, "table"), Pop(1), Push("meta"), SetMeta(-2, "table") >>
                ELSE << >>) \o
       PushObjectToTable(-1) \o << Pop(1) >>) >>

----------------------------------------------------------------------------
(* luatable_util                                                           *)

\* The callback gets the indexes -2 and -1; what it does keeps the stack.
IterateTable(i, t, body) ==
  << CheckStack(3), Push("nil"), Next(i - 1, t, body \o << Pop(1) >>) >>

TableLen(i, t) == IterateTable(i, t, << >>)

GetTableValue ==
  << Enter(-1) >> \o PushVariant("key") \o << Get(0, "table", {"nil", "value"}) >> \o
  << SetTop(0), Leave >>   \* lua_pop(state, -1) is lua_settop(state, 0)

SetTableValue(i, t) ==
  << Enter(i) >> \o PushVariant("key") \o PushVariant("value") \o
  << Set(0, t, "value"), Leave >>

----------------------------------------------------------------------------
(* luavariant.  A table, function or object becomes a reference: its       *)
(* value_ref is created and, if the value has no entry, set.               *)

NewReference(i, value) ==
  UpdateReference \o << Either(SetValue(i, value), << >>) >>

\* A variant that is a reference has its entry (VariantKeepsValue in References).
PushReference(value) == HasReference \o PushHeldValue(value)

UpdateKeys ==
  PushReference("table") \o TableLen(-1, "table") \o
  IterateTable(-1, "table", AsVariant(-2, "key")) \o << Pop(1) >>

TableFromState ==
  << Enter(-1) >> \o NewReference(0, "table") \o UpdateKeys \o << Leave >>

TableFromObject == PushVariant("table") \o TableFromState \o << Pop(1) >>

FunctionDebugInfo == << Copy(-1), Pop(1) >>   \* lua_getinfo(">nS") takes the copy

FunctionFromState ==
  << Enter(-1) >> \o NewReference(0, "function") \o
  << Either(<< >>, FunctionDebugInfo), Leave >>

\* Only a value whose metatable says that it is an object is searched for one.
ObjectFromState ==
  << Enter(-1) >> \o GetSpecialType(0, "table") \o
  << Either(<< >>, GetObject(0, "table") \o << Either(<< >>, NewReference(0, "table")) >>),
     Leave >>

ObjectFromReference ==
  UpdateReference \o
  << Either(<< >>,
            << Push("table") >> \o PushObjectToTable(-1) \o SetValue(-1, "table") \o << Pop(1) >>) >>

\* Numbers, strings, booleans and pointers are read where they are.
ToVariant(tag) ==
  << Copy(-1) >> \o GetSpecialType(-1, tag) \o
  (CASE tag = "table" -> << Either(TableFromState, ObjectFromState) >>
     [] tag = "function" -> FunctionFromState
     [] OTHER -> << Use(-1, tag) >>) \o
  << Pop(1) >>

ToVariantGlobal == << Global({"value"}) >> \o AsVariant(-1, "value") \o << Pop(1) >>

SetGlobalVariant == PushVariant("value") \o << SetGlobal("value") >>

\* A reference is pushed through its value_ref in its own runtime, as a copy in
\* another; the copy is built entry by entry.
TableCopyPush ==
  << Push("table"), Repeat(SetTableValue(-1, "table")) >>

TablePush(value) == << Either(PushReference(value), TableCopyPush) >>

TableGetValue ==
  PushReference("table") \o PushVariant("key") \o
  << Get(-2, "table", {"nil", "value"}), Pop(2) >>

TableSetValue ==
  PushReference("table") \o PushVariant("key") \o PushVariant("value") \o
  << Set(-3, "table", "value"), Pop(1) >> \o UpdateKeys

TableRenameValue ==
  PushReference("table") \o PushVariant("key") \o << Get(-2, "table", {"value"}) >> \o
  PushVariant("key") \o << Push("nil"), Set(-4, "table", "nil") >> \o
  PushVariant("newkey") \o << Copy(-2), Set(-4, "table", "value"), Pop(2) >>

TableRemoveValue ==
  PushReference("table") \o PushVariant("key") \o
  << Push("nil"), Set(-3, "table", "nil"), Pop(1) >> \o UpdateKeys

ClearReferenceData ==
  UpdateKeys \o PushReference("table") \o
  << Repeat(PushVariant("key") \o << Push("nil"), Set(-3, "table", "nil") >>), Pop(1) >> \o
  UpdateKeys

TableSize == TablePush("table") \o TableLen(-1, "table") \o << Pop(1) >>

\* The callback reads the key's type before it reads key and value.
TableFromStateCopy(i) ==
  << Enter(i) >> \o
  IterateTable(i, "table",
    GetSpecialType(-2, "key") \o << Either(<< >>, AsVariant(-2, "key") \o AsVariant(-1, "value")) >>) \o
  << Leave >>

TableAsCopy == TablePush("table") \o TableFromStateCopy(-1) \o << Pop(1) >>

\* A C function is copied through its first upvalue, the user's function, and
\* the upvalues after it; a Lua function is dumped, and lua_getinfo(">n") takes
\* the copy that was dumped.
CFunctionFromStateCopy ==
  << Enter(-1),
     Either(<< >>,   \* no upvalue
       << Push("userfn"), Pop(1),
          Repeat(<< Push("upvalue") >> \o AsVariant(-1, "upvalue") \o << Pop(1) >>) >>),
     Leave >>

LuaFunctionFromStateCopy == << Enter(-1), Copy(0), Use(-1, "function"), Pop(1), Leave >>

\* The same of a C function whose first upvalue is no user function, as of any
\* closure that the library has not made.
ForeignFunctionFromStateCopy == << Enter(-1), Push("upvalue"), Leave >>

FunctionAsCopy(copy) == PushReference("function") \o copy \o << Pop(1) >>

FunctionPush ==
  << Either(PushReference("function"),
       << Either(<< Push("nil") >>,
          << Either(<< Mark, Push("userfn"), Repeat(PushVariant("upvalue")),
                       CombineMarked("function"), Unmark >>,
                    << Push("function") >>) >>) >>) >>   \* lua_load

RunWith(args) ==
  Stabilized(
    << Either(PushVariant("nil"),
         << Mark >> \o PushVariant("function") \o args \o << CallMarked("result"), Unmark >>) >>, 0, 0)

RunFunction == RunWith(<< Repeat(PushVariant("arg")) >>)

----------------------------------------------------------------------------
(* luaruntime_handler, luathread_util, luaglobal_print_override            *)

ReadErrorObject == AsVariant(-1, "error") \o << Pop(1) >>

LoadFile ==
  << Either(<< Push("error") >> \o ReadErrorObject,
       << Push("function") >> \o FunctionFromState \o RequireStorage \o
       << Push("key"), Copy(-3), Set(-3, "storage", "function"), Pop(2) >>) >>

LoadFileAsFunction ==
  << Either(<< Push("error") >> \o AsVariant(-1, "error") \o << Pop(1) >>,
            << Push("function") >> \o AsVariant(-1, "function") \o << Pop(1) >>) >>

RegisterThread ==
  RequireData \o << Push("key"), Push("thread"), Set(-3, "data", "thread"), Pop(1) >>

BindGlobalFunction ==
  << Push("globals"), Push("function"), SetField(-2, "globals", "function"), Pop(1) >>

OnPrint == GetAttached \o << Repeat(AsVariant(1, "arg")), Return(0) >>

----------------------------------------------------------------------------
(* luadebug_variable_watcher                                               *)

UpdateGlobalIgnore ==
  << Push("globals") >> \o IterateTable(-1, "globals", AsVariant(-2, "key")) \o << Pop(1) >>

UpdateGlobals ==
  << Push("globals") >> \o
  IterateTable(-1, "globals",
    AsVariant(-2, "key") \o << Either(<< >>, AsVariant(-1, "value")) >>) \o << Pop(1) >>

UpdateLocals ==
  << Repeat(<< Push("local") >> \o AsVariant(-1, "local") \o << Pop(1) >>) >>

SetGlobalVariable ==
  << Push("globals") >> \o PushVariant("key") \o PushVariant("value") \o
  << Set(-3, "globals", "value"), Pop(1) >>

\* lua_setlocal takes the value, but only if the slot has a name (ldebug.c).
SetLocalVariable(named) ==
  PushVariant("value") \o (IF named THEN << SetGlobal("value") >> ELSE << >>)

----------------------------------------------------------------------------
(* lualibrary_iohandler                                                    *)

StandardFile == PushVariant("table") \o TableFromState \o << Pop(1) >>

\* The arguments become variants; the handler is the object of the function's
\* first upvalue.
IoBegin(args) ==
  FlattenSeq([k \in DOMAIN args |-> AsVariant(k, args[k])]) \o
  << Push("table") >> \o GetObject(-1, "table") \o << Pop(1) >>

IoEnd == << Repeat(PushVariant("result")), ReturnAll >>

IoFunction(args) == IoBegin(args) \o IoEnd

\* What went wrong (_fill_error_with_last), or nothing.
IoError == PushVariant("nil") \o PushVariant("error") \o PushVariant("number") \o << Return(3) >>
IoResult == << Either(IoError, << Return(0) >>) >>

AddEntry == << Push("key") >> \o PushVariant("value") \o << Set(-3, "table", "value") >>

IoOnObjectAdded ==
  AsVariant(-1, "table") \o AddEntry \o AddEntry \o AddEntry \o << Repeat(AddEntry) >>

InitiateFileReference == << Push("table") >> \o TableFromState \o << Pop(1) >> \o TableSetValue

LineCallback ==
  Stabilized(
    << Global({"nil", "table"}),
       If(-1, "table",
          << Push("key"), Get(-2, "table", {"nil", "object"}),
             If(-1, "object",
                << Pop(2), Global({"nil", "count"}), If(-1, "count", << Pop(1) >>, << >>) >>,
                << >>) >>,
          << >>) >>, 0, 0) \o
  << Either(PushVariant("error") \o << Raise >>,
       << Repeat(<< Push("upvalue"), Pop(1) >>),
          Repeat(PushVariant("result")), ReturnAll >>) >>

\* The table that was pushed to be searched stays.
CheckObjectValidity ==
  PushVariant("table") \o
  << Enter(-1), Push("nil"),
     Next(0, "table", AsVariant(-2, "key") \o << Pop(1) >>), Leave >>

\* A method of a default file is found by its name, run and given back.
WithMethod(run) == TableGetValue \o << Either(<< >>, run \o ReleaseReference) >>

RunMethod(n) == RunWith(<< Times(n, PushVariant("arg")) >>)

\* The default output is closed unless it is the standard output.
CloseOutput ==
  TablePush("table") \o GetSpecialType(-1, "table") \o
  << Either(<< >>, ObjectFromState \o ReleaseReference), Pop(1),
     Either(<< >>, WithMethod(RunMethod(0))) >>

FlushOutputs == WithMethod(RunMethod(0)) \o WithMethod(RunMethod(0))

\* As often as the file gives less than was asked for.
ReadInput == WithMethod(<< Repeat(RunMethod(1)) >>)

\* Where the file is, the text, and where the file is then.
WriteOutput ==
  TableGetValue \o TableGetValue \o
  << Either(<< >>,
       RunMethod(1) \o
       << Either(<< >>, RunMethod(1) \o << Either(<< >>, RunMethod(1)) >>) >>),
     Either(<< >>, ReleaseReference), Either(<< >>, ReleaseReference) >>

\* The handler's own table, the default files and the standard files are given
\* back.
DestroyHandler ==
  << Either(<< >>, ReleaseReference) >> \o FlushOutputs \o CloseOutput \o
  << Times(6, ReleaseReference) >>

\* A method of the file in the first argument, once that is known to be one.
MethodOfArgument ==
  CheckObjectValidity \o << Push("key"), Get(1, "table", {"function"}) >> \o
  FunctionFromState \o << Pop(1) >>

IoCloseFile(args) ==
  IoBegin(args) \o
  (IF args = << >> THEN CloseOutput
   ELSE << Either(<< >>, MethodOfArgument \o RunMethod(1) \o ReleaseReference) >>) \o
  IoResult

IoFlushFiles(args) == IoBegin(args) \o FlushOutputs \o IoResult

\* Nothing is read, to see whether the file is open.
IoTypeOf(args) ==
  IoBegin(args) \o
  << Either(<< >>, MethodOfArgument \o RunMethod(2) \o ReleaseReference) >> \o
  PushVariant("result") \o << Return(1) >>

\* io.read, io.write: the default file's method with the arguments.
IoRedirect(args) ==
  IoBegin(args) \o WithMethod(RunMethod(1 + Len(args))) \o
  << Either(PushVariant("error") \o << Raise >>, IoEnd) >>

\* The default file becomes another one, through the stack.
SetDefault == << Either(<< >>, PushVariant("table") \o TableFromState \o << Pop(1) >>) >>

\* io.input, io.output, io.error: what the default file is, or the one it becomes,
\* which is the argument or has its name.
IoReplaceDefault(args) ==
  IoBegin(args) \o
  (IF args = << >> THEN PushVariant("table") \o << Return(1) >>
   ELSE << Either(CheckObjectValidity, << >>),
           Either(PushVariant("error") \o << Raise >>, SetDefault \o << Return(0) >>) >>)

Lines == << Pop(1) >>   \* of the state the file was made with; nothing was pushed
=============================================================================
