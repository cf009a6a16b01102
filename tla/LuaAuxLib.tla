----------------------------- MODULE LuaAuxLib -----------------------------
(***************************************************************************)
(* The auxiliary library (src/LuaSrc/lauxlib.c) as programs of ApiStack:   *)
(* what every C function below a Lua program, and every C++ function of    *)
(* the library that calls luaL_..., relies on.  Before it, what the        *)
(* machine itself does with the stack (ldebug.c, ltm.c, lvm.c, ldo.c).     *)
(*                                                                         *)
(* An index i is one of the caller's, t the tag of the value it names.     *)
(***************************************************************************)
EXTENDS ApiStack

\* A checked argument: it is read, or the function does not return.
Check == << Either(<< >>, << Raise >>) >>

LuaError == << Push("string"), Push("string"), Combine(2, "string"), Raise >>

Gives(tag) == << Push(tag), Return(1) >>

----------------------------------------------------------------------------
(* Errors of the machine, with the message handler if there is one.        *)

ErrorMsg ==
  << Either(<< >>, << Push("function"), Rotate(-2, 1), Call(1, << "error" >>) >>), Raise >>

\* The message, and with the place of a Lua function a second one.
RunError == << Push("string"), Either(<< >>, << Push("string") >>) >> \o ErrorMsg

----------------------------------------------------------------------------
(* Metamethods.                                                            *)

\* luaT_callTM with a result, which is left on top; the callers move it.
CallTM == << Push("function"), Push("arg"), Push("arg"), Call(2, << "result" >>) >>

\* Where the result goes is known before the call moves the top.
CallTMInto(i) == << Enter(i) >> \o CallTM \o << Replace(0), Leave >>

CallTMForNothing ==
  << Push("function"), Push("arg"), Push("arg"), Push("arg"), Call(3, << >>) >>

CallBinTM(i) == << Either(CallTMInto(i), RunError) >>

\* The result is read above the top.
CallOrderTM == CallTM \o << Use(-1, "result"), Pop(1) >>

EqualObj == << Either(<< >>, CallOrderTM) >>
LessThan == << Either(<< >>, << Either(CallOrderTM, RunError) >>) >>
\* __le, or __lt the other way round.
LessEqual == << Either(<< >>, << Either(CallOrderTM, LessThan) >>) >>

\* The key on top becomes the value.  A chain of __index tables ends in a value,
\* a function or an error.
FinishGet == << Either(<< Combine(1, "result") >>, CallBinTM(-1)) >>
FinishSet == << Either(<< >>, << Either(CallTMForNothing, RunError) >>) >>

ObjLen == << Either(<< Push("number") >>, << Either(CallTM, RunError) >>) >>

Arith(unary) ==
  (IF unary THEN << Copy(-1) >> ELSE << >>) \o
  << Either(<< Combine(2, "result") >>, CallBinTM(-2) \o << Pop(1) >>) >>

\* From the top down; n strings that are joined at once are joined in n - 1 steps.
Concat(total) ==
  << Times(total - 1, << Either(<< Combine(2, "result") >>, CallBinTM(-2) \o << Pop(1) >>) >>) >>

\* An instruction that a yield in its metamethod interrupted: the metamethod's
\* result is on top of the frame's registers, of which there are `top`.
FinishOp(op, top) ==
  CASE op = "value" -> << Replace(1) >>
    [] op = "compare" -> << Use(-1, "result"), Pop(1) >>
    [] op = "concat" ->
         << Replace(-3), Pop(1) >> \o Concat(2) \o << Copy(-1), Replace(1), SetTop(top) >>
    [] op = "call" -> << SetTop(top) >>

\* __call becomes the function, and the value that was called its first argument.
TryFuncTM(n) == << Either(<< Push("function"), Insert(-(n + 2)) >>, RunError) >>

\* The fixed parameters move above the actual arguments; nil stays behind.
AdjustVarargs(fixed, actual) ==
  FlattenSeq([i \in 1 .. fixed |->
                IF i <= actual THEN << Copy(i), Push("nil"), Replace(i) >> ELSE << Push("nil") >>])

----------------------------------------------------------------------------
(* What a debugger asks.                                                   *)

\* An active function's local is pushed if the slot has a name; the parameters
\* of a function on top are only named.
GetLocal(active) ==
  IF active THEN << Either(<< Push("local") >>, << >>) >> ELSE << Use(-1, "function") >>

SetLocal == << Either(<< Use(-1, "value"), Pop(1) >>, << >>) >>

ValidLines == << Either(<< Push("nil") >>, << Push("table") >>) >>

\* ">" takes the function it is about; "f" and "L" push, in that order.
GetInfo(given, func, lines) ==
  (IF given THEN << Use(-1, "function"), Pop(1) >> ELSE << >>) \o
  (IF func THEN << Push("function") >> ELSE << >>) \o
  (IF lines THEN ValidLines ELSE << >>)

----------------------------------------------------------------------------
(* Names for messages.                                                     *)

\* The table on top is searched; a name found is left above it.  `deeper`
\* searches the value on top, one level down.
FindField(t, deeper) ==
  << Push("nil"),
     Next(-2, t,
       << Either(<< >>,
            << Either(<< Pop(1), Break >>, deeper),
               If(-1, "key",
                  << TakeOut(-2), Push("key"), Insert(-2), Combine(3, "key"), Break >>,
                  << >>) >>),
          Pop(1) >>) >>

PushGlobalFuncName ==
  << Mark, EnterAbove, Push("function"), Global({"table"}) >> \o
  FindField("table", << Either(<< >>, FindField("value", << >>)) >>) \o
  << If(-1, "key",
        << Either(<< >>, << Push("key"), TakeOut(-2) >>), Replace(0), Pop(1) >>,
        << Cut >>),
     Leave, Unmark >>

PushFuncName ==
  PushGlobalFuncName \o
  << If(-1, "key", << Push("string"), TakeOut(-2) >>, << Push("string") >>) >>

TracebackFrames ==
  << Repeat(
       << Push("string"), Either(<< >>, << Push("string") >>), Push("string") >> \o
       PushFuncName \o
       << Either(<< >>, << Push("string") >>), CombineMarked("string") >>) >>

\* The "..." of a long traceback comes once.
Traceback ==
  << Mark, Either(<< >>, << Push("string") >>), CheckStack(10), Push("string") >> \o
  TracebackFrames \o << Either(<< >>, << Push("string") >> \o TracebackFrames) >> \o
  << CombineMarked("string"), Unmark >>

GetMetaField(i, t, tag) ==
  << Either(<< >>,
       << Meta(i, t), Push("key"), Get(-2, "meta", {"nil", tag}),
          If(-1, "nil", << Pop(2) >>, << TakeOut(-2) >>) >>) >>

ArgError == << Either(<< >>, PushGlobalFuncName) >> \o LuaError

TypeError(i, t) == GetMetaField(i, t, "name") \o << Push("string") >> \o ArgError

----------------------------------------------------------------------------
(* Results of calls to the system.                                         *)

Failed == << Push("nil"), Push("string"), Push("number") >>

FileResult == << Either(Gives("boolean"), Failed \o << Return(3) >>) >>

ExecResult ==
  << Either(FileResult, << Push("boolean"), Push("string"), Push("number"), Return(3) >>) >>

----------------------------------------------------------------------------
(* Metatables and metamethods.                                             *)

NewMetatable(new) ==
  << Global({"nil", "meta"}),
     If(-1, "nil",
        << Pop(1), Push("meta"), Push("name"), SetField(-2, "meta", "name"),
           Copy(-1), SetGlobal("meta") >> \o new,
        << >>) >>

SetMetatable(t) == << Global({"meta"}), SetMeta(-2, t) >>

TestUserData(i, t) ==
  << Either(<< >>, << Meta(i, t), Global({"meta"}), Pop(2) >>) >>

CallMeta(i, t) ==
  << Enter(i) >> \o GetMetaField(0, t, "function") \o
  << If(-1, "function", << Copy(0), Call(1, << "string" >>) >>, << >>), Leave >>

\* A string is copied, a number, nil or a boolean written; the kind of any other
\* value without __tostring is read again by its index.
ToLString(i, t) ==
  CallMeta(i, t) \o
  << If(-1, "string", Check,
        << Either(<< Use(i, t), Push("string") >>,
             GetMetaField(i, t, "name") \o
             << Use(i, t), Push("string"), If(-2, "name", << TakeOut(-2) >>, << >>) >>) >>) >>

LenOf == << Push("number") >> \o Check \o << Pop(1) >>

----------------------------------------------------------------------------
(* luaL_Buffer: when it outgrows its array, a userdata on the stack (box,  *)
(* the tag of the buffer's own) holds it, and every operation expects that *)
(* userdata on top.                                                        *)

NewBox(box) ==
  << Push(box) >> \o
  NewMetatable(<< Push("function"), SetField(-2, "meta", "function") >>) \o
  << SetMeta(-2, box) >>

PrepBuffSize(box) ==
  << IfAny(box, << Use(-1, box) >>, << Either(<< >>, NewBox(box)) >>) >>

PushResult(box) ==
  << Push("string"), IfAny(box, << Use(-2, box), TakeOut(-2) >>, << >>) >>

AddValue(box) ==
  << Use(-1, "string"), IfAny(box, << Insert(-2) >>, << >>) >> \o PrepBuffSize(box) \o
  << IfAny(box, << Use(-2, "string"), TakeOut(-2) >>, << TakeOut(-1) >>) >>

\* luaL_addlstring, luaL_addchar: as often as the text asks for.
AddText(box) == << Repeat(PrepBuffSize(box)) >>

BufferResult(box) == AddText(box) \o PushResult(box)

\* Its buffer may lie above one of the caller's.
GSub == BufferResult("gsub")

----------------------------------------------------------------------------
(* References.                                                             *)

Ref(i, value) ==
  << If(-1, "nil", << Pop(1) >>,
        << Enter(i), GetField(0, "table", {"ref"}), Pop(1),
           Either(<< GetField(0, "table", {"ref"}), SetField(0, "table", "ref") >>, << >>),
           SetField(0, "table", value), Leave >>) >>

Unref(i) ==
  << Enter(i), GetField(0, "table", {"ref"}), SetField(0, "table", "ref"),
     Push("ref"), SetField(0, "table", "ref"), Leave >>

----------------------------------------------------------------------------
(* Loading.                                                                *)

\* lua_load leaves the function or an error.
Loads == << Either(<< Push("function") >>, << Push("error") >>) >>

ErrFile == << Push("error"), TakeOut(0) >>

\* The file may not open, not open again as a binary one, or not be read to
\* its end.
LoadFileX ==
  << EnterAbove, Push("name"), Mark,
     Either(ErrFile,
       << Either(ErrFile, Loads \o << Either(<< Cut >> \o ErrFile, << TakeOut(0) >>) >>) >>),
     Unmark, Leave >>

----------------------------------------------------------------------------
(* Modules.                                                                *)

\* One name of the dotted path: the table on top is replaced by its field,
\* which is made if there is none.
FindTable(found) ==
  << Push("key"), Get(-2, "table", found),
     If(-1, "nil",
        << Pop(1), Push("table"), Push("key"), Copy(-2), Set(-4, "table", "table") >>,
        << If(-1, "table", << >>, << Pop(2) >> \o LuaError) >>),
     TakeOut(-2) >>

PushModule ==
  << Global({"table"}) >> \o FindTable({"nil", "table"}) \o
  << GetField(-1, "table", {"nil", "table"}),
     If(-1, "table", << >>,
        << Pop(1), Global({"table"}) >> \o FindTable({"nil", "table", "value"}) \o
        << Repeat(FindTable({"nil", "table", "value"})),
           Copy(-1), SetField(-3, "table", "table") >>),
     TakeOut(-2) >>

SetFuncs(nup, t) ==
  << CheckStack(nup),
     Repeat(<< Times(nup, << Copy(-nup) >>), Combine(nup, "function"),
               SetField(-(nup + 2), t, "function") >>),
     Pop(nup) >>

OpenLib(nup) == PushModule \o << Insert(-(nup + 1)) >> \o SetFuncs(nup, "table")

NewLib == << Push("table") >> \o SetFuncs(0, "table")

\* Of the registry, as every caller has it.
GetSubTable ==
  << Global({"nil", "table"}),
     If(-1, "table", << >>, << Pop(1), Push("table"), Copy(-1), SetGlobal("table") >>) >>

RequireF ==
  GetSubTable \o
  << GetField(-1, "table", {"nil", "module"}),
     If(-1, "module", << >>,
        << Pop(1), Push("function"), Push("name"), Call(1, << "module" >>),
           Copy(-1), SetField(-3, "table", "module") >>),
     TakeOut(-2),
     Either(<< >>, << Copy(-1), SetGlobal("module") >>) >>
=============================================================================
