---------------------------- MODULE LuaBaseLibs ----------------------------
(***************************************************************************)
(* The libraries that do not reach the system (src/LuaSrc/lbaselib.c,      *)
(* ltablib.c, ldblib.c, lcorolib.c, lstrlib.c, lutf8lib.c, lmathlib.c,     *)
(* lbitlib.c) as programs of ApiStack: what they do to the stack.  A       *)
(* function of them has a frame of its own, its arguments from index 1; n  *)
(* is the number of results or arguments that a call happens to have.      *)
(***************************************************************************)
EXTENDS LuaAuxLib

----------------------------------------------------------------------------
(* lbaselib.c                                                              *)

BasePrint ==
  << Global({"function"}),
     Repeat(<< Copy(-1), Copy(1), Call(1, << "string" >>), Either(<< >>, LuaError), Pop(1) >>),
     Return(0) >>

BaseToNumber ==
  Check \o
  << Either(<< SetTop(1), Return(1) >>, << Either(Gives("number"), Gives("nil")) >>) >>

BaseError ==
  Check \o
  << SetTop(1), Either(<< >>, << Push("string"), Copy(1), Combine(2, "string") >>), Raise >>

BaseGetMetatable ==
  Check \o
  << Either(Gives("nil"), << Meta(1, "arg") >> \o GetMetaField(1, "arg", "field") \o << Return(1) >>) >>

BaseSetMetatable ==
  Check \o GetMetaField(1, "table", "field") \o
  << If(-1, "field", LuaError, << >>), SetTop(2), SetMeta(1, "table"), Return(1) >>

BaseRawEqual == Check \o Check \o Gives("boolean")

BaseRawLen == Check \o Gives("number")

BaseRawGet == Check \o << SetTop(2), Get(1, "table", {"nil", "value"}), Return(1) >>

BaseRawSet == Check \o << SetTop(3), Set(1, "table", "arg"), Return(1) >>

BaseCollectGarbage == Check \o << Either(Gives("number"), Gives("boolean")) >>

BaseType == Check \o Gives("string")

PairsMeta(first) ==
  Check \o GetMetaField(1, "arg", "function") \o
  << If(-1, "function", << Copy(1), Call(1, << "iterator", "state", "first" >>) >>,
        << Push("iterator"), Copy(1), Push(first) >>),
     Return(3) >>

BaseNext == Check \o << SetTop(2), Next(1, "table", << Return(2) >>) >> \o Gives("nil")

IpairsAux ==
  Check \o
  << Push("number"), GetField(1, "arg", {"nil", "value"}),
     If(-1, "nil", << Return(1) >>, << Return(2) >>) >>

\* env is the index of the environment argument, if there is one.
LoadAux(env) ==
  << If(-1, "function",
        << Either(<< >>, << Copy(env), Use(-2, "function"), Pop(1) >>), Return(1) >>,
        << Push("nil"), Insert(-2), Return(2) >>) >>

BaseLoadFile == Check \o LoadFileX \o LoadAux(3)

\* lua_load calls it with the reserved slot 5 of luaB_load.
GenericReader ==
  << CheckStack(2), Copy(1),
     Either(<< Call(0, << "nil" >>), Pop(1), Break >>,
            << Call(0, << "string" >>) >> \o Check \o << Replace(5) >>) >>

BaseLoad ==
  Check \o
  << Either(<< >>, << SetTop(5), Repeat(GenericReader) >>) >> \o Loads \o LoadAux(4)

BaseDoFile ==
  Check \o << SetTop(1) >> \o LoadFileX \o
  << If(-1, "function", << >>, << Raise >>), CallMulti(0, "result"), Return(-2) >>

BaseAssert ==
  << Either(<< ReturnAll >>, Check \o << TakeOut(1), Push("string"), SetTop(1) >> \o BaseError) >>

\* The results are the arguments after the n-th, from all of them to none.
BaseSelect == << Either(Gives("number"), Check \o << Either(<< Return(-2) >>, << Return(0) >>) >>) >>

\* After an error there is its message, and nothing of the call.
FinishPCall(nargs, extra) ==
  << Either(<< CallMulti(nargs, "result"), Return(-1 - extra) >>,
            << Call(nargs, << "error" >>), Push("boolean"), Copy(-2), Return(2) >>) >>

BasePCall == Check \o << Push("boolean"), Insert(1) >> \o FinishPCall(-2, 0)

BaseXPCall == Check \o << Push("boolean"), Copy(1), Rotate(3, 2) >> \o FinishPCall(-4, 2)

BaseToString == Check \o ToLString(1, "arg") \o << Return(1) >>

OpenBase ==
  << Global({"table"}) >> \o SetFuncs(0, "table") \o
  << Copy(-1), SetField(-2, "table", "table"), Push("string"), SetField(-2, "table", "string"),
     Return(1) >>

----------------------------------------------------------------------------
(* ltablib.c.  t is "table", or the tag of a value that only behaves like  *)
(* one: then the metamethods needed are looked up.                         *)

CheckTab(t, needed) ==
  IF t = "table" THEN << >>
  ELSE << Meta(1, t) >> \o
       FlattenSeq([j \in 1 .. needed |->
         << Push("key"), Get(-j - 1, "meta", {"nil", "field"}), If(-1, "field", << >>, << Raise >>) >>]) \o
       << Pop(needed + 1) >>

MoveElement(i, t, j, u) == << GetField(i, t, {"value"}), SetField(j, u, "value") >>

TableMaxN == Check \o << Push("nil"), Next(1, "table", << Pop(1) >>) >> \o Gives("number")

TableInsert(t, nargs) ==
  CheckTab(t, 3) \o LenOf \o
  (CASE nargs = 2 -> << >>
     [] nargs = 3 -> Check \o << Repeat(MoveElement(1, t, 1, t)) >>
     [] OTHER -> LuaError) \o
  << SetField(1, t, "arg"), Return(0) >>

TableRemove(t) ==
  CheckTab(t, 3) \o LenOf \o Check \o
  << GetField(1, t, {"value"}), Repeat(MoveElement(1, t, 1, t)),
     Push("nil"), SetField(1, t, "nil"), Return(1) >>

TableMove(to) ==
  Check \o << Repeat(MoveElement(1, "table", to, "table")), Copy(to), Return(1) >>

AddField(t) == << GetField(1, t, {"string"}), Either(<< >>, LuaError) >> \o AddValue("box")

TableConcat(t) ==
  CheckTab(t, 2) \o LenOf \o Check \o
  << Repeat(AddField(t) \o PrepBuffSize("box")), Either(<< >>, AddField(t)) >> \o
  PushResult("box") \o << Return(1) >>

TablePack(nargs) ==
  << Push("table"), Insert(1), Times(nargs, << SetField(1, "table", "arg") >>),
     Push("number"), SetField(1, "table", "number"), Return(1) >>

\* Room for all n elements is asked for before the first is pushed.
TableUnpack(nargs) ==
  Check \o LenOf \o
  << Either(<< Return(0) >>,
       << CheckStack(1),
          Repeat(<< CheckStack(2), GetField(1, "table", {"value"}) >>),
          GetField(1, "table", {"value"}), Return(-1 - nargs) >>) >>

Set2 == << SetField(1, "table", "value"), SetField(1, "table", "value") >>

\* Mutant: the indexes are not corrected.
SortCompUncorrected(a, b) ==
  << Either(<< Use(a, "value"), Use(b, "value") >>,
       << Copy(2), Copy(a), Copy(b), Use(-2, "value"), Use(-1, "value"),
          Call(2, << "boolean" >>), Pop(1) >>) >>

\* The values at a and b are compared by the function at index 2, if any: the
\* indexes are corrected for what has been pushed on the way.
SortComp(a, b) ==
  << Either(<< Use(a, "value"), Use(b, "value") >>,
       << Copy(2), Copy(a - 1), Copy(b - 2), Use(-2, "value"), Use(-1, "value"),
          Call(2, << "boolean" >>), Pop(1) >>) >>

Advance(a, b) ==
  << GetField(1, "table", {"value"}) >> \o SortComp(a, b) \o
  << Repeat(Check \o << Pop(1), GetField(1, "table", {"value"}) >> \o SortComp(a, b)) >>

Partition ==
  << Repeat(Advance(-1, -2) \o Advance(-3, -1) \o Set2) >> \o
  Advance(-1, -2) \o Advance(-3, -1) \o << Pop(1) >> \o Set2

\* The recursive call leaves the stack as it is, like the loop's body.
AuxSort ==
  << Repeat(
       << GetField(1, "table", {"value"}), GetField(1, "table", {"value"}) >> \o
       SortComp(-1, -2) \o << Either(Set2, << Pop(2) >>), Either(<< >>, << Break >>) >> \o
       << GetField(1, "table", {"value"}), GetField(1, "table", {"value"}) >> \o
       SortComp(-2, -1) \o
       << Either(Set2, << Pop(1), GetField(1, "table", {"value"}) >> \o SortComp(-1, -2) \o
                       << Either(Set2, << Pop(2) >>) >>),
          Either(<< >>, << Break >>),
          GetField(1, "table", {"value"}), Copy(-1), GetField(1, "table", {"value"}) >> \o
       Set2 \o Partition) >>

TableSort == LenOf \o << Either(<< >>, Check \o << SetTop(2) >> \o AuxSort), Return(0) >>

OpenTable ==
  NewLib \o << GetField(-1, "table", {"function"}), SetGlobal("function"), Return(1) >>

----------------------------------------------------------------------------
(* ldblib.c.  a is 1 if the first argument is a thread; same, whether it   *)
(* is the running one: the other's stack is another one.                   *)

DbGetRegistry == << Global({"table"}), Return(1) >>

DbGetMetatable == Check \o << Either(<< Push("nil") >>, << Meta(1, "arg") >>), Return(1) >>

DbSetMetatable == Check \o << SetTop(2), SetMeta(1, "arg"), Return(1) >>

DbGetUserValue == << Either(<< Push("nil") >>, << Push("value") >>), Return(1) >>

DbSetUserValue == Check \o << SetTop(2), Pop(1), Return(1) >>

SetTabs == << Push("field"), SetField(-2, "table", "field") >>

TreatStackOption(tag, same) ==
  << IF same THEN Rotate(-2, 1) ELSE Push(tag), SetField(-2, "table", tag) >>

\* lua_getinfo takes a function that is asked about, and pushes what the
\* options want: the function, the table of its lines.
DbGetInfo(a, same, wants) ==
  Check \o
  << Either(<< Push("string"), Copy(a + 1), Use(-1, "function"), Pop(1) >>,
            Check \o << Either(<< >>, Gives("nil")) >>) >> \o Check \o
  (IF same THEN [k \in DOMAIN wants |-> Push(wants[k])] ELSE << >>) \o
  << Push("table"), Repeat(SetTabs) >> \o
  FlattenSeq([k \in DOMAIN wants |-> TreatStackOption(wants[Len(wants) + 1 - k], same)]) \o
  << Return(1) >>

DbGetLocal(a) ==
  Check \o
  << Either(<< Copy(a + 1), Push("name"), Return(1) >>,
       Check \o << Either(<< Push("local"), Push("name"), Rotate(-2, 1), Return(2) >>, Gives("nil")) >>) >>

DbSetLocal(a) == Check \o << SetTop(a + 3), Pop(1) >> \o Gives("name")

DbUpvalue(get) ==
  Check \o
  << Either(<< Return(0) >>,
       << IF get = 1 THEN Push("value") ELSE Pop(1),
          Push("name"), Insert(-(get + 1)), Return(get + 1) >>) >>

CheckUpval == Check \o << Push("value") >> \o Check

DbUpvalueId == CheckUpval \o Gives("id")

DbUpvalueJoin == CheckUpval \o CheckUpval \o Check \o << Return(0) >>

\* lua_gettable gives no hook, or the function; the hook's frame ends with it.
HookF ==
  << Global({"table"}), Push("thread"), Get(-2, "table", {"nil", "function"}),
     If(-1, "function", << Push("event"), Push("line"), Call(2, << >>) >>, << >>) >>

\* The table of hooks is its own metatable.
DbSetHook(a, hook) ==
  (IF hook = "nil" THEN << SetTop(a + 1) >> ELSE Check) \o
  << Global({"nil", "meta"}),
     If(-1, "nil",
        << Push("meta"), Copy(-1), SetGlobal("meta"), Push("mode"), SetField(-2, "meta", "mode"),
           Copy(-1), SetMeta(-2, "meta") >>, << >>),
     Push("thread"), Copy(a + 1), Set(-3, "meta", hook), Return(0) >>

DbGetHook ==
  << Either(<< Either(<< Push("nil") >>, << Push("string") >>) >>,
       << Global({"table"}), Push("thread"), Get(-2, "table", {"function"}), TakeOut(-2) >>),
     Push("string"), Push("number"), Return(3) >>

DbDebug ==
  << Repeat(<< Either(<< Push("error") >>,
                 << Push("function"), Either(<< Call(0, << >>) >>, << Call(0, << "error" >>) >>) >>),
               SetTop(0) >>),
     Return(0) >>

DbTraceback(a) == << Either(<< Copy(a + 1) >>, Check \o Traceback), Return(1) >>

----------------------------------------------------------------------------
(* lcorolib.c.  What the coroutine returns or yields is moved over, after  *)
(* room has been asked for; an error is one value.                         *)

AuxResume(keep, done, failed) ==
  << Either(<< Push("string") >> \o failed,
       << SetTop(keep),
          Either(<< Push("error") >> \o failed,
            << EnterAbove, CheckStack(1), Repeat(<< CheckStack(2), Push("result") >>) >> \o done) >>) >>

CoResume ==
  Check \o
  AuxResume(1, << Push("boolean"), Insert(0), Leave, Return(-2) >>,
            << Push("boolean"), Insert(-2), Return(2) >>)

CoAuxWrap ==
  AuxResume(0, << Leave, ReturnAll >>,
            << Either(<< >>, << Push("string"), Insert(-2), Combine(2, "string") >>), Raise >>)

CoCreate == Check \o << Push("thread"), Copy(1), Use(-1, "function"), Pop(1), Return(1) >>

CoWrap ==
  Check \o
  << Push("thread"), Copy(1), Use(-1, "function"), Pop(1), Combine(1, "function"), Return(1) >>

CoStatus == Check \o Gives("string")

CoRunning == << Push("thread"), Push("boolean"), Return(2) >>

----------------------------------------------------------------------------
(* lstrlib.c: plain functions                                              *)

StrLen == Check \o Gives("number")

StrSub == Check \o Check \o Gives("string")

\* reverse, lower and upper.
StrMap == Check \o BufferResult("box") \o << Return(1) >>

StrRep ==
  Check \o Check \o
  << Either(Gives("string"), << Either(<< >>, LuaError) >> \o BufferResult("box") \o << Return(1) >>) >>

StrByte(n) ==
  Check \o << Either(<< >>, LuaError), CheckStack(n), Times(n, << Push("number") >>), Return(n) >>

StrChar == BufferResult("box") \o Check \o << Return(1) >>

StrDump ==
  Check \o << SetTop(1), Use(-1, "function") >> \o AddText("box") \o << Either(<< >>, LuaError) >> \o
  PushResult("box") \o << Return(1) >>

----------------------------------------------------------------------------
(* lstrlib.c: the results of a match                                       *)

PushOneCapture == Check \o << Push("capture") >>

PushCaptures(n) == << CheckStack(n), Times(n, PushOneCapture) >>

\* A pattern without captures gives the whole match.
WholeOr(n) == IF n = 0 THEN 1 ELSE n

StrFindAux(find, n) ==
  Check \o Check \o
  << Either(Gives("nil"),
       IF find
       THEN << Push("number"), Push("number"),
               Either(<< Return(2) >>, PushCaptures(n) \o << Return(n + 2) >>) >>
       ELSE PushCaptures(WholeOr(n)) \o << Return(WholeOr(n)) >>) >>

GMatchAux(n) ==
  Check \o << Either(<< Return(0) >>, PushCaptures(WholeOr(n)) \o << Return(WholeOr(n)) >>) >>

GMatch == Check \o Check \o << SetTop(2), Push("userdata"), Combine(3, "function"), Return(1) >>

\* luaL_tolstring of a capture, which is a string or a number.
AddCapture ==
  PushOneCapture \o CallMeta(-1, "capture") \o
  << If(-1, "string", Check, << Push("string") >>), TakeOut(-2) >> \o AddValue("box")

AddS == << Repeat(<< Either(AddText("box"), << Either(AddCapture, LuaError) >>) >>) >>

\* The replacement is found by the function or in the table at index 3.
AddReplacement(kind, n) ==
  IF kind \notin {"function", "table"} THEN AddS
  ELSE (IF kind = "function"
        THEN << Copy(3) >> \o PushCaptures(WholeOr(n)) \o
             << Either(<< Call(WholeOr(n), << "nil" >>) >>, << Call(WholeOr(n), << "string" >>) >>) >>
        ELSE PushOneCapture \o << Get(3, "table", {"nil", "string"}) >>) \o
       << If(-1, "nil", << Pop(1), Push("string") >>, Check) >> \o AddValue("box")

StrGSub(kind, n) ==
  Check \o Check \o
  << Repeat(Check \o << Either(AddReplacement(kind, n), PrepBuffSize("box")) >>) >> \o
  BufferResult("box") \o << Push("number"), Return(2) >>

----------------------------------------------------------------------------
(* lstrlib.c: format, pack and unpack                                      *)

AddLiteral(arg) ==
  << Either(AddText("box"),
       << Either(ToLString(arg, "arg") \o AddValue("box"), ArgError) >>) >>

StrFormat(arg) ==
  Check \o
  << Repeat(<< Either(AddText("box"),
       PrepBuffSize("box") \o Check \o
       << Either(Check, << Either(AddLiteral(arg),
            ToLString(arg, "arg") \o << Either(AddValue("box"), << Pop(1) >>) >>) >>) >>) >>) >> \o
  PushResult("box") \o << Return(1) >>

\* The nil separates the arguments from the buffer.
StrPack ==
  Check \o << Push("nil"), Repeat(Check \o PrepBuffSize("box") \o AddText("box")) >> \o
  PushResult("box") \o << Return(1) >>

StrPackSize == Check \o Gives("number")

\* Room for each value and for the position that comes last.
StrUnpack(nargs) ==
  Check \o
  << Repeat(Check \o << CheckStack(2), Push("value") >>), Push("number"), Return(-nargs - 1) >>

CreateStringMeta ==
  << Push("meta"), Push("string"), Copy(-2), SetMeta(-2, "string"), Pop(1),
     Copy(-2), SetField(-2, "meta", "table"), Pop(1) >>

OpenString == NewLib \o CreateStringMeta \o << Return(1) >>

----------------------------------------------------------------------------
(* lutf8lib.c                                                              *)

UtfLen ==
  Check \o << Either(<< Push("nil"), Push("number"), Return(2) >>, Gives("number")) >>

CodePoint(n) ==
  Check \o << Either(<< >>, LuaError), CheckStack(n), Times(n, Check \o << Push("number") >>), Return(n) >>

PushUtfChar == Check \o << Push("string") >>

UtfChar(nargs) ==
  (IF nargs = 1 THEN PushUtfChar
   ELSE << Times(nargs, PushUtfChar \o AddValue("box")) >> \o PushResult("box")) \o << Return(1) >>

ByteOffset == Check \o << Either(Gives("number"), Gives("nil")) >>

IterAux ==
  Check \o << Either(<< Return(0) >>, Check \o << Push("number"), Push("number"), Return(2) >>) >>

IterCodes == Check \o << Push("function"), Copy(1), Push("number"), Return(3) >>

OpenUtf8 == NewLib \o << Push("string"), SetField(-2, "table", "string"), Return(1) >>

----------------------------------------------------------------------------
(* lmathlib.c and lbitlib.c                                                *)

MathUnary == Check \o Gives("number")

\* An integer is its own floor and ceiling.
MathFloor == << Either(<< SetTop(1), Return(1) >>, Check \o Gives("number")) >>

MathToInt == << Either(Gives("number"), Check \o Gives("nil")) >>

MathFMod == << Either(<< Either(<< >>, LuaError) >>, Check \o Check) >> \o Gives("number")

MathModF == << Either(<< SetTop(1) >>, Check \o << Push("number") >>), Push("number"), Return(2) >>

MathLog == Check \o << Either(<< >>, Check) >> \o Gives("number")

MathMin(best) == Check \o << Copy(best), Return(1) >>

MathRandom == << Either(<< >>, << Either(Check \o Check, LuaError) >>) >> \o Gives("number")

MathType == << Either(Gives("string"), Check \o Gives("nil")) >>

OpenMath == NewLib \o << Times(4, << Push("number"), SetField(-2, "table", "number") >>), Return(1) >>

BitAll == << Repeat(Check) >> \o Gives("number")

BitTest == << Repeat(Check) >> \o Gives("boolean")

BitShift == Check \o Check \o Gives("number")

FieldArgs == Check \o Check \o << Either(<< >>, LuaError) >>

BitField == Check \o FieldArgs \o Gives("number")

OpenBit32 == NewLib \o << Return(1) >>
=============================================================================
