----------------------------- MODULE MCApiStack -----------------------------
EXTENDS ApiFunctions, LuaBaseLibs, LuaSystemLibs

----------------------------------------------------------------------------
(* The functions with what they find on the stack and what they promise.   *)

\* A helper works above its caller's slots, of which it keeps `keeps`.
Helper(name, args, code, keeps, leaves) ==
  [name |-> name, args |-> args, code |-> code, keeps |-> keeps, leaves |-> leaves]

Neutral(name, args, code) == Helper(name, args, code, Len(args), {<< >>})

Pushes(name, code, tags) == Helper(name, <<"mine">>, code, 1, { <<tag>> : tag \in tags })

\* A function that Lua calls has a frame of its own and returns its results.
Callback(name, args, code, results) == Helper(name, args, code, 0, results)

Storage == {
  Neutral("initiate_internal_storage", <<"mine">>, InitiateStorage),
  Pushes("require_internal_storage", RequireStorage, {"storage"}),
  Neutral("_set_attached_object", <<"mine">>, SetAttached),
  Neutral("get_attached_object", <<"mine">>, GetAttached),
  Neutral("_register_thread_to_internal", <<"mine">>, RegisterThread) }

ReferenceFunctions == {
  Pushes("_require_internal_data", RequireData, {"data"}),
  Neutral("_create_metadata", <<"mine", "value">>, CreateMetadata("value")),
  Neutral("_delete_metadata", <<"mine">>, DeleteMetadata),
  Pushes("_push_metadata", PushMetadata({"nil", "entry"}), {"nil", "entry"}),
  Neutral("_increment_reference", <<"mine">>, ModifyCount),
  Neutral("_get_reference_count", <<"mine">>, GetReferenceCount),
  Neutral("update_reference", <<"mine">>, UpdateReference),
  Neutral("value_ref::~value_ref", <<"mine">>, ReleaseReference),
  Pushes("push_value_to_stack", PushValueToStack("value"), {"nil", "value"}),
  Neutral("value_ref::set_value", <<"value", "mine">>, SetValue(-2, "value")) }

\* What is done with a value that has no metatable is among Unexpected.
ObjectFunctions == {
  Neutral("set_special_type", <<"table", "mine">>, SetSpecialType(1, "table", TRUE)),
  Neutral("get_special_type", <<"table", "mine">>, GetSpecialType(1, "table")),
  Neutral("get_object_from_table", <<"table", "mine">>, GetObject(1, "table")),
  Neutral("push_object_to_table", <<"mine", "table">>, PushObjectToTable(-1)),
  Callback("_on_obj_called", <<"table", "arg">>, OnObjectCalled(TRUE), {<<"any">>}),
  Callback("_on_obj_called with another table", <<"table", "arg">>, OnObjectCalled(FALSE), {<<"any">>}),
  Callback("_on_obj_removed", <<"table">>, OnObjectRemoved, {<< >>}),
  Callback("_requiref_cb", <<"name">>, Required, {<<"library">>}),
  Neutral("get_library_object", <<"mine">>, GetLibraryObject(TRUE)),
  Neutral("get_library_object of a new library", <<"mine">>, GetLibraryObject(FALSE)),
  Neutral("load_library", <<"mine">>, LoadLibrary(TRUE)),
  Neutral("load_library of a new library", <<"mine">>, LoadLibrary(FALSE)) }

VariantFunctions == {
  Neutral("table_len", <<"mine", "table">>, TableLen(-1, "table")),
  Neutral("set_table_value", <<"mine", "table">>, SetTableValue(-1, "table")),
  Neutral("to_variant of a table", <<"mine", "table">>, ToVariant("table")),
  Neutral("to_variant of a function", <<"mine", "function">>, ToVariant("function")),
  Neutral("to_variant", <<"mine", "value">>, ToVariant("value")),
  Neutral("to_variant_fglobal", <<"mine">>, ToVariantGlobal),
  Neutral("set_global", <<"mine">>, SetGlobalVariant),
  Neutral("from_object", <<"mine">>, TableFromObject),
  Neutral("from_object_reference", <<"mine">>, ObjectFromReference),
  Pushes("table_var::push_to_stack", TablePush("table"), {"table"}),
  Neutral("_get_value_by_interface", <<"mine">>, TableGetValue),
  Neutral("_set_value_by_interface", <<"mine">>, TableSetValue),
  Neutral("_rename_value_by_interface", <<"mine">>, TableRenameValue),
  Neutral("_remove_value_by_interface", <<"mine">>, TableRemoveValue),
  Neutral("_clear_table_reference_data", <<"mine">>, ClearReferenceData),
  Neutral("get_size", <<"mine">>, TableSize),
  Neutral("table_var::_as_copy", <<"mine">>, TableAsCopy),
  Neutral("as_copy of a C function", <<"mine">>, FunctionAsCopy(CFunctionFromStateCopy)),
  Neutral("as_copy of a Lua function", <<"mine">>, FunctionAsCopy(LuaFunctionFromStateCopy)),
  Pushes("function_var::push_to_stack", FunctionPush, {"nil", "function"}),
  Neutral("run_function", <<"mine">>, RunFunction) }

IoFailure == {<< >>, <<"nil", "error", "number">>}

ClientFunctions == {
  Neutral("load_file", <<"mine">>, LoadFile),
  Neutral("load_file_as_function", <<"mine">>, LoadFileAsFunction),
  Neutral("_bind_global_function", <<"mine">>, BindGlobalFunction),
  Callback("_on_print_static", <<"arg", "arg">>, OnPrint, {<< >>}),
  Neutral("update_global_ignore", <<"mine">>, UpdateGlobalIgnore),
  Neutral("update_global_variables", <<"mine">>, UpdateGlobals),
  Neutral("update_local_variables", <<"mine">>, UpdateLocals),
  Neutral("set_global_variable", <<"mine">>, SetGlobalVariable),
  Neutral("set_local_variable", <<"mine">>, SetLocalVariable(TRUE)),
  Neutral("io_handler::io_handler", <<"mine">>, StandardFile),
  Callback("io_handler functions", <<"arg">>, IoFunction(<<"arg">>), {<<"any">>}),
  Callback("io.close", << >>, IoCloseFile(<< >>), IoFailure),
  Callback("io.close of a file", <<"table">>, IoCloseFile(<<"table">>), IoFailure),
  Callback("io.flush", <<"arg">>, IoFlushFiles(<<"arg">>), IoFailure),
  Callback("io.type", <<"table">>, IoTypeOf(<<"table">>), {<<"result">>}),
  Callback("io.read, io.write", <<"arg", "arg">>, IoRedirect(<<"arg", "arg">>), {<<"any">>}),
  Callback("io.input", << >>, IoReplaceDefault(<< >>), {<<"table">>}),
  Callback("io.input of a file", <<"table">>, IoReplaceDefault(<<"table">>), {<< >>}),
  Neutral("io_handler::close", <<"mine">>, CloseOutput),
  Neutral("io_handler::flush", <<"mine">>, FlushOutputs),
  Neutral("io_handler::read", <<"mine">>, ReadInput),
  Neutral("io_handler::write", <<"mine">>, WriteOutput),
  Neutral("io_handler::~io_handler", <<"mine">>, DestroyHandler),
  Neutral("io_handler::on_object_added", <<"mine", "table">>, IoOnObjectAdded),
  Neutral("_initiate_reference", <<"mine">>, InitiateFileReference),
  Callback("_lua_line_cb", << >>, LineCallback, {<<"any">>}) }

\* What these leave is not what their callers are told: get_table_value takes
\* everything off, the copy of a foreign C function leaves its upvalue,
\* set_local_variable its value when the slot has no name, and
\* check_object_validity the table it has searched.  Of a value without a
\* metatable, set_special_type takes its caller's topmost slot (when that is the
\* value itself, the metatable is set on itself), and get_object_from_table does
\* so when the slot it searches instead holds an object.
Unexpected == {
  Helper("set_special_type without a metatable", <<"table", "mine">>,
         SetSpecialType(1, "table", FALSE), 1, {<< >>}),
  Helper("set_special_type of the top without a metatable", <<"mine", "table">>,
         SetSpecialType(-1, "table", FALSE), 1, {<< >>}),
  Helper("get_object_from_table without a metatable", <<"table", "mine">>,
         GetObjectFromTable(1, "table", FALSE, {"nil", "object"}), 1, {<<"mine">>, << >>}),
  Helper("get_table_value", <<"mine", "table">>, GetTableValue, 0, {<< >>}),
  Helper("as_copy of a foreign function", <<"mine">>, FunctionAsCopy(ForeignFunctionFromStateCopy),
         1, {<<"nil">>, <<"function">>}),
  Helper("set_local_variable without a name", <<"mine">>, SetLocalVariable(FALSE), 1, {<<"value">>}),
  Helper("check_object_validity", <<"mine">>, CheckObjectValidity, 1, {<<"table">>}),
  Helper("lines", <<"mine">>, Lines, 0, {<< >>}) }

LibraryFunctions ==
  Storage \union ReferenceFunctions \union ObjectFunctions \union VariantFunctions
  \union ClientFunctions \union Unexpected

\* These push one value per argument, result or upvalue and never ask for room.
Greedy == {"_on_obj_called", "_on_obj_called with another table",
           "function_var::push_to_stack", "run_function",
           "io_handler functions", "io.read, io.write", "_lua_line_cb"}

\* These take a slot for a metatable that is none.
Misled == {"set_special_type of the top without a metatable",
           "get_object_from_table without a metatable",
           "_on_obj_called with another table",
           "get_library_object of a new library", "load_library of a new library"}

\* The indexes of every other function hit; one of Misled does not return
\* without a miss.
IndexesHitByMost ==
  /\ IndexesHit \/ fn.name \in Misled
  /\ Returned /\ fn.name \in Misled => ~IndexesHit

\* Each function keeps to the room it has, but for those of Greedy.
RoomKeptByMost == RoomKept \/ fn.name \in Greedy

----------------------------------------------------------------------------
(* The Lua libraries.                                                      *)

Counts == {0, 2, 21}

\* What the machine does in a function's frame.
MachineFunctions ==
  { Neutral("lua_compare", <<"arg", "arg">>, code) : code \in {EqualObj, LessThan, LessEqual} } \union
  { Helper("lua_arith", <<"mine">> \o operands, Arith(Len(operands) = 1), 1, {<<"result">>})
    : operands \in {<<"arg">>, <<"arg", "arg">>} } \union
  { Helper("lua_concat", <<"mine", "arg", "arg", "arg">>, Concat(3), 1, {<<"result">>}),
    Helper("auxgetstr", <<"mine", "key">>, FinishGet, 1, {<<"result">>}),
    Helper("lua_settable", <<"mine", "key", "value">>, FinishSet \o << Pop(2) >>, 1, {<< >>}),
    Pushes("lua_len", ObjLen, {"number", "result"}),
    Helper("tryfuncTM", <<"mine", "called", "arg", "arg">>, TryFuncTM(2), 1,
           {<<"function", "called", "arg", "arg">>}),
    Helper("adjust_varargs", <<"a", "b", "c">>, AdjustVarargs(2, 3), 0, {<<"nil", "nil", "c", "a", "b">>}),
    Helper("adjust_varargs of one", <<"a">>, AdjustVarargs(2, 1), 0, {<<"nil", "a", "nil">>}),
    Helper("finishOp", <<"old", "mine", "result">>, FinishOp("value", 2), 0, {<<"result", "mine">>}),
    Neutral("finishOp of a comparison", <<"mine">>, << Push("result") >> \o FinishOp("compare", 1)),
    Helper("finishOp of a concatenation", <<"old", "arg", "arg", "arg", "result">>, FinishOp("concat", 4),
           0, {<<"result", "result", "nil", "nil">>}),
    Helper("finishOp of a call", <<"mine", "result", "result">>, FinishOp("call", 2), 0,
           {<<"mine", "result">>}),
    Helper("lua_getlocal", <<"mine">>, GetLocal(TRUE), 1, {<<"local">>, << >>}),
    Neutral("lua_getlocal of a function", <<"mine", "function">>, GetLocal(FALSE)),
    Helper("lua_setlocal", <<"mine", "value">>, SetLocal, 1, {<< >>, <<"value">>}) } \union
  { Helper("lua_getinfo", <<"mine">> \o given, GetInfo(given # << >>, func # << >>, lines), 1,
           { func \o line : line \in IF lines THEN {<<"nil">>, <<"table">>} ELSE {<< >>} })
    : given \in {<< >>, <<"function">>}, func \in {<< >>, <<"function">>}, lines \in BOOLEAN }

AuxFunctions == {
  Helper("pushglobalfuncname", <<"mine">>, PushGlobalFuncName, 1, {<< >>, <<"key">>}),
  Pushes("luaL_traceback", Traceback, {"string"}),
  Neutral("luaL_argerror", <<"mine">>, ArgError),
  Neutral("typeerror", <<"arg">>, TypeError(1, "arg")),
  Pushes("luaL_newmetatable", NewMetatable(<< >>), {"meta"}),
  Neutral("luaL_setmetatable", <<"mine", "userdata">>, SetMetatable("userdata")),
  Neutral("luaL_testudata", <<"arg", "mine">>, TestUserData(1, "arg")),
  Helper("luaL_callmeta", <<"mine", "arg">>, CallMeta(-1, "arg"), 2, {<< >>, <<"string">>}),
  Helper("luaL_tolstring", <<"arg", "mine">>, ToLString(1, "arg"), 2, {<<"string">>}),
  Neutral("luaL_len", <<"table">>, LenOf),
  Pushes("luaL_gsub", GSub, {"string"}),
  Helper("luaL_ref", <<"table", "value">>, Ref(-2, "value"), 1, {<< >>}),
  Helper("luaL_ref of nil", <<"table", "nil">>, Ref(-2, "nil"), 1, {<< >>}),
  Neutral("luaL_unref", <<"table", "mine">>, Unref(-2)),
  Pushes("luaL_loadfilex", LoadFileX, {"function", "error"}),
  Pushes("luaL_pushmodule", PushModule, {"table"}),
  Helper("luaL_openlib", <<"mine", "up", "up">>, OpenLib(2), 1, {<<"table">>}),
  Helper("luaL_setfuncs", <<"table", "up">>, SetFuncs(1, "table"), 1, {<< >>}),
  Pushes("luaL_getsubtable", GetSubTable, {"table"}),
  Pushes("luaL_requiref", RequireF, {"module"}) }

One(tag) == {<< tag >>}

BaseFunctions == {
  Callback("print", <<"arg", "arg">>, BasePrint, {<< >>}),
  Callback("tonumber", <<"arg">>, BaseToNumber, {<<"arg">>, <<"number">>, <<"nil">>}),
  Callback("error", <<"arg">>, BaseError, {}),
  Callback("getmetatable", <<"arg">>, BaseGetMetatable, {<<"nil">>, <<"meta">>, <<"field">>}),
  Callback("setmetatable", <<"table", "meta", "arg">>, BaseSetMetatable, One("table")),
  Callback("rawequal", <<"arg", "arg">>, BaseRawEqual, One("boolean")),
  Callback("rawlen", <<"table">>, BaseRawLen, One("number")),
  Callback("rawget", <<"table", "arg", "arg">>, BaseRawGet, {<<"nil">>, <<"value">>}),
  Callback("rawset", <<"table", "arg", "arg", "arg">>, BaseRawSet, One("table")),
  Callback("collectgarbage", << >>, BaseCollectGarbage, {<<"number">>, <<"boolean">>}),
  Callback("type", <<"arg">>, BaseType, One("string")),
  Callback("pairs", <<"arg">>, PairsMeta("nil"),
           {<<"iterator", "arg", "nil">>, <<"iterator", "state", "first">>}),
  Callback("ipairs", <<"arg">>, PairsMeta("number"),
           {<<"iterator", "arg", "number">>, <<"iterator", "state", "first">>}),
  Callback("next", <<"table", "key", "arg">>, BaseNext, {<<"key", "value">>, <<"nil">>}),
  Callback("next of the first", <<"table">>, BaseNext, {<<"key", "value">>, <<"nil">>}),
  Callback("ipairsaux", <<"arg", "number">>, IpairsAux, {<<"nil">>, <<"number", "value">>}),
  Callback("loadfile", <<"arg", "arg", "env">>, BaseLoadFile, {<<"function">>, <<"nil", "error">>}),
  Callback("load", <<"function", "arg", "arg", "env">>, BaseLoad, {<<"function">>, <<"nil", "error">>}),
  Callback("dofile", <<"arg", "arg">>, BaseDoFile, {[k \in 1 .. n |-> "result"] : n \in Counts}),
  Callback("assert", <<"arg", "arg">>, BaseAssert, {<<"arg", "arg">>}),
  Callback("select", <<"arg", "result", "result">>, BaseSelect,
           {<<"number">>, <<"result", "result">>, << >>}),
  Callback("pcall", <<"function", "arg", "arg">>, BasePCall,
           {<<"boolean", "error">>} \union {<<"boolean">> \o [k \in 1 .. n |-> "result"] : n \in Counts}),
  Callback("xpcall", <<"function", "function", "arg">>, BaseXPCall,
           {<<"boolean", "error">>} \union {<<"boolean">> \o [k \in 1 .. n |-> "result"] : n \in Counts}),
  Callback("tostring", <<"arg">>, BaseToString, One("string")),
  Callback("luaopen_base", <<"arg">>, OpenBase, One("table")) }

TableFunctions ==
  UNION { { Callback("insert", <<t, "arg">>, TableInsert(t, 2), {<< >>}),
            Callback("insert at", <<t, "arg", "arg">>, TableInsert(t, 3), {<< >>}),
            Callback("remove", <<t, "arg">>, TableRemove(t), One("value")),
            Callback("concat", <<t, "arg", "arg", "arg">>, TableConcat(t), One("string")) }
          : t \in {"table", "like"} } \union
  { Callback("maxn", <<"table">>, TableMaxN, One("number")),
    Callback("move", <<"table", "arg", "arg", "arg">>, TableMove(1), One("table")),
    Callback("move to", <<"table", "arg", "arg", "arg", "table">>, TableMove(5), One("table")),
    Callback("pack", <<"arg", "arg">>, TablePack(2), One("table")),
    Callback("unpack", <<"table", "arg">>, TableUnpack(2),
             {<< >>} \union {[k \in 1 .. n + 1 |-> "value"] : n \in Counts}),
    Callback("sort", <<"table", "function">>, TableSort, {<< >>}),
    Callback("luaopen_table", <<"arg">>, OpenTable, One("table")) }

DebugArgs(a) == IF a = 1 THEN <<"thread">> ELSE << >>

DebugFunctions ==
  UNION { { Callback("getlocal", DebugArgs(a) \o <<"arg", "arg">>, DbGetLocal(a),
                     {<<"name">>, <<"name", "local">>, <<"nil">>}),
            Callback("setlocal", DebugArgs(a) \o <<"arg", "arg", "arg">>, DbSetLocal(a), One("name")),
            Callback("sethook", DebugArgs(a) \o <<"function", "arg">>, DbSetHook(a, "function"), {<< >>}),
            Callback("sethook of none", DebugArgs(a), DbSetHook(a, "nil"), {<< >>}),
            Callback("traceback", DebugArgs(a) \o <<"arg">>, DbTraceback(a), {<<"arg">>, <<"string">>}) }
          : a \in {0, 1} } \union
  { Callback("getinfo", DebugArgs(a) \o <<"function">>, DbGetInfo(a, same, wants), {<<"table">>, <<"nil">>})
    : a \in {0, 1}, same \in BOOLEAN,
      wants \in {<< >>, <<"func">>, <<"lines">>, <<"func", "lines">>} } \union
  { Callback("getregistry", << >>, DbGetRegistry, One("table")),
    Callback("debug.getmetatable", <<"arg">>, DbGetMetatable, {<<"nil">>, <<"meta">>}),
    Callback("debug.setmetatable", <<"arg", "nil">>, DbSetMetatable, One("arg")),
    Callback("getuservalue", <<"arg">>, DbGetUserValue, {<<"nil">>, <<"value">>}),
    Callback("setuservalue", <<"userdata", "arg", "arg">>, DbSetUserValue, One("userdata")),
    Callback("getupvalue", <<"function", "arg">>, DbUpvalue(1), {<< >>, <<"name", "value">>}),
    Callback("setupvalue", <<"function", "arg", "arg">>, DbUpvalue(0), {<< >>, <<"name">>}),
    Callback("upvalueid", <<"function", "arg">>, DbUpvalueId, One("id")),
    Callback("upvaluejoin", <<"function", "arg", "function", "arg">>, DbUpvalueJoin, {<< >>}),
    Callback("hookf", << >>, HookF, {<<"table">>, <<"table", "nil">>}),
    Callback("gethook", << >>, DbGetHook,
             { <<hook, "string", "number">> : hook \in {"nil", "string", "function"} }),
    Callback("debug", << >>, DbDebug, {<< >>}) }

CoroutineFunctions == {
  Callback("resume", <<"thread", "arg">>, CoResume,
           {<<"boolean", "error">>, <<"boolean", "string">>}
           \union {<<"boolean">> \o [k \in 1 .. n |-> "result"] : n \in Counts}),
  Callback("auxwrap", <<"arg">>, CoAuxWrap, {[k \in 1 .. n |-> "result"] : n \in Counts}),
  Callback("create", <<"function">>, CoCreate, One("thread")),
  Callback("wrap", <<"function">>, CoWrap, One("function")),
  Callback("status", <<"thread">>, CoStatus, One("string")),
  Callback("running", << >>, CoRunning, {<<"thread", "boolean">>}) }

Failure == <<"nil", "string", "number">>
Handle == <<"userdata">>
Arguments(n) == [k \in 1 .. n |-> "arg"]

\* n reads give values up to the first that fails.
Reads(n) ==
  LET most == IF n = 0 THEN 1 ELSE n IN
  {Failure} \union UNION { { [k \in 1 .. m |-> "string"],
                             [k \in 1 .. m |-> IF k = m THEN "nil" ELSE "string"] } : m \in 1 .. most }

FileFunctions ==
  UNION { { Callback("f_lines", Handle \o Arguments(n), FLines(n), One("function")),
            Callback("f_read", Handle \o Arguments(n), FRead(n), Reads(n)),
            Callback("io_read", Arguments(n), IoRead(n), Reads(n)),
            Callback("io_readline", <<"arg", "arg">>, IoReadLine(n), {<< >>} \union Reads(n)),
            Callback("io_lines of a file", <<"arg">> \o Arguments(n), IoLines("name", n), One("function")),
            Callback("io_lines", <<"nil">> \o Arguments(n), IoLines("nil", n), One("function")) }
          : n \in {0, 2, 21} } \union
  { Callback("io_lines of nothing", << >>, IoLines("none", 0), One("function")),
    Callback("io_type", <<"arg">>, IoType, {<<"nil">>, <<"string">>}),
    Callback("f_tostring", Handle, FToString, One("string")),
    Callback("io_close", << >>, IoClose(FALSE), {<<"boolean">>, <<"nil", "string">>, Failure,
                                                 <<"boolean", "string", "number">>}),
    Callback("f_close", Handle, IoClose(TRUE), {<<"boolean">>, <<"nil", "string">>, Failure,
                                                <<"boolean", "string", "number">>}),
    Callback("f_gc", Handle, FGc, {<< >>}),
    Callback("io_open", <<"arg", "arg">>, IoOpen, {Handle, Failure}),
    Callback("io_popen", <<"arg">>, IoPOpen, {Handle, Failure}),
    Callback("io_tmpfile", << >>, IoTmpFile, {Handle, Failure}),
    Callback("io_input of a name", <<"name">>, GIoFile("name"), {Handle}),
    Callback("io_input of a file", Handle, GIoFile("userdata"), {Handle}),
    Callback("io_input", <<"nil">>, GIoFile("nil"), {Handle}),
    Callback("io_write", Arguments(2), IoWrite, {Handle, Failure}),
    Callback("f_write", Handle \o Arguments(2), FWrite, {Handle, Failure}),
    Callback("f_seek", Handle \o Arguments(2), FSeek, {<<"number">>, Failure}),
    Callback("f_setvbuf", Handle \o Arguments(2), FSetVBuf, {<<"boolean">>, Failure}),
    Callback("io_flush", << >>, IoFlush, {<<"boolean">>, Failure}),
    Callback("f_flush", Handle, FFlush, {<<"boolean">>, Failure}),
    Callback("luaopen_io", <<"arg">>, OpenIo, One("table")) }

SystemFunctions == {
  Callback("os.execute", <<"arg">>, OsExecute,
           {<<"boolean">>, Failure, <<"boolean", "string", "number">>}),
  Callback("os.remove", <<"arg">>, OsRemove, {<<"boolean">>, Failure}),
  Callback("os.rename", <<"arg", "arg">>, OsRename, {<<"boolean">>, Failure}),
  Callback("os.tmpname", << >>, OsTmpName, One("string")),
  Callback("os.getenv", <<"arg">>, OsGetEnv, {<<"string">>, <<"nil">>}),
  Callback("os.clock", << >>, OsClock, One("number")),
  Callback("os.date", <<"arg", "arg">>, OsDate, {<<"string">>, <<"table">>}),
  Callback("os.time", <<"table", "arg">>, OsTime, One("number")),
  Callback("os.difftime", <<"arg", "arg">>, OsDiffTime, One("number")),
  Callback("os.setlocale", <<"arg", "arg">>, OsSetLocale, {<<"string">>, <<"nil">>}),
  Callback("luaopen_os", <<"arg">>, OpenOs, One("table")) }

PackageFunctions ==
  { Callback("module", Arguments(1) \o options, LLModule(1 + Len(options)), One("table"))
    : options \in {<< >>, <<"function">>, <<"arg", "function">>} } \union
  { Callback("gctm", <<"table">>, GcTm, {<< >>}),
    Callback("loadlib", <<"arg", "arg">>, LoadLib, {<<"function">>, <<"nil", "error", "string">>}),
    Callback("searchpath", Arguments(4), SearchPathOf, {<<"string">>, <<"nil", "string">>}),
    Callback("searcher_Lua", <<"arg">>, SearcherLua, {<<"function", "string">>, <<"string">>}),
    Callback("searcher_C", <<"arg">>, SearcherC, {<<"function", "string">>, <<"string">>}),
    Callback("searcher_Croot", <<"arg">>, SearcherCRoot, {<<"function", "string">>, <<"string">>, << >>}),
    Callback("searcher_preload", <<"arg">>, SearcherPreload, {<<"function">>, <<"string">>}),
    Callback("require", <<"arg", "arg">>, Require, One("module")),
    Callback("seeall", <<"table">>, SeeAll, {<< >>}),
    Callback("luaopen_package", <<"arg">>, OpenPackage, One("table")),
    Neutral("luaL_openlibs", <<"mine">>, OpenLibs) }

Copies(n, tag) == [k \in 1 .. n |-> tag]

TextFunctions ==
  UNION { { Callback("byte", Arguments(3), StrByte(n), {Copies(n, "number")}),
            Callback("find", Arguments(4), StrFindAux(TRUE, n),
                     {<<"nil">>, Copies(2, "number"), Copies(2, "number") \o Copies(n, "capture")}),
            Callback("match", Arguments(3), StrFindAux(FALSE, n),
                     {<<"nil">>, Copies(WholeOr(n), "capture")}),
            Callback("gmatch_aux", Arguments(2), GMatchAux(n), {<< >>, Copies(WholeOr(n), "capture")}),
            Callback("gsub by a function", <<"arg", "arg", "function", "arg">>, StrGSub("function", n),
                     {<<"string", "number">>}),
            Callback("codepoint", Arguments(3), CodePoint(n), {Copies(n, "number")}),
            Callback("utf8.char", Arguments(n), UtfChar(n), One("string")) }
          : n \in {0, 1, 21} } \union
  { Callback("gsub by a table", <<"arg", "arg", "table">>, StrGSub("table", 0), {<<"string", "number">>}),
    Callback("gsub", Arguments(3), StrGSub("arg", 0), {<<"string", "number">>}),
    Callback("string.len", Arguments(1), StrLen, One("number")),
    Callback("sub", Arguments(3), StrSub, One("string")),
    Callback("reverse", Arguments(1), StrMap, One("string")),
    Callback("rep", Arguments(3), StrRep, One("string")),
    Callback("char", Arguments(2), StrChar, One("string")),
    Callback("dump", <<"function", "arg">>, StrDump, One("string")),
    Callback("gmatch", Arguments(3), GMatch, One("function")),
    Callback("format", Arguments(2), StrFormat(2), One("string")),
    Callback("string.pack", Arguments(3), StrPack, One("string")),
    Callback("packsize", Arguments(1), StrPackSize, One("number")),
    Callback("string.unpack", Arguments(3), StrUnpack(3),
             {Copies(n, "value") \o <<"number">> : n \in Counts}),
    Callback("luaopen_string", <<"arg">>, OpenString, One("table")),
    Callback("utf8.len", Arguments(3), UtfLen, {<<"nil", "number">>, <<"number">>}),
    Callback("offset", Arguments(3), ByteOffset, {<<"nil">>, <<"number">>}),
    Callback("iter_aux", Arguments(2), IterAux, {<< >>, <<"number", "number">>}),
    Callback("codes", Arguments(1), IterCodes, {<<"function", "arg", "number">>}),
    Callback("luaopen_utf8", <<"arg">>, OpenUtf8, One("table")) }

MathFunctions == {
  Callback("sin", Arguments(1), MathUnary, One("number")),
  Callback("floor", Arguments(2), MathFloor, {<<"arg">>, <<"number">>}),
  Callback("tointeger", Arguments(1), MathToInt, {<<"nil">>, <<"number">>}),
  Callback("fmod", Arguments(2), MathFMod, One("number")),
  Callback("modf", Arguments(2), MathModF, {<<"arg", "number">>, <<"number", "number">>}),
  Callback("log", Arguments(2), MathLog, One("number")),
  Callback("min", Arguments(2), MathMin(2), One("arg")),
  Callback("random", Arguments(2), MathRandom, One("number")),
  Callback("math.type", Arguments(1), MathType, {<<"nil">>, <<"string">>}),
  Callback("luaopen_math", <<"arg">>, OpenMath, One("table")),
  Callback("band", Arguments(2), BitAll, One("number")),
  Callback("btest", Arguments(2), BitTest, One("boolean")),
  Callback("lshift", Arguments(2), BitShift, One("number")),
  Callback("extract", Arguments(3), BitField, One("number")),
  Callback("luaopen_bit32", <<"arg">>, OpenBit32, One("table")) }

----------------------------------------------------------------------------

AllFunctions ==
  LibraryFunctions \union MachineFunctions \union AuxFunctions \union BaseFunctions \union TableFunctions
  \union DebugFunctions \union CoroutineFunctions \union FileFunctions
  \union SystemFunctions \union PackageFunctions \union TextFunctions \union MathFunctions
=============================================================================
