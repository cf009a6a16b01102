---------------------------- MODULE LuaSystemLibs ----------------------------
(***************************************************************************)
(* The libraries that reach the system (src/LuaSrc/liolib.c, loslib.c,     *)
(* loadlib.c) as programs of ApiStack.  A file handle is a userdata, first *)
(* argument of every method; nargs is the number of arguments after it.    *)
(***************************************************************************)
EXTENDS LuaAuxLib

----------------------------------------------------------------------------
(* liolib.c: handles                                                       *)

IoType == Check \o TestUserData(1, "arg") \o << Either(Gives("nil"), Gives("string")) >>

ToFile == << Use(1, "userdata") >> \o Check

FToString == ToFile \o Gives("string")

NewPreFile == << Push("userdata") >> \o SetMetatable("userdata")

NoClose == << Push("nil"), Push("string"), Return(2) >>

\* The handle's close function answers for it.
AuxClose == ToFile \o << Either(FileResult, << Either(ExecResult, NoClose) >>) >>

IoClose(given) == (IF given THEN << >> ELSE << Global({"userdata"}) >>) \o ToFile \o AuxClose

\* Who closes without asking leaves what the close function has pushed.
CloseUnasked == ToFile \o << Either(<< Push("boolean") >>, Failed) >>

FGc == ToFile \o << Either(<< >>, CloseUnasked), Return(0) >>

OpenCheck == NewPreFile \o << Either(<< >>, LuaError) >>

\* io.open, io.popen and io.tmpfile: the handle is made first.
OpenedFile == NewPreFile \o << Either(<< Return(1) >>, Failed \o << Return(3) >>) >>

IoOpen == Check \o OpenedFile

IoPOpen == Check \o OpenedFile

IoTmpFile == OpenedFile

GetIoFile == << Global({"userdata"}), Use(-1, "userdata") >> \o Check

GIoFile(arg) ==
  (CASE arg = "name" -> OpenCheck \o << SetGlobal("userdata") >>
     [] arg = "userdata" -> ToFile \o << Copy(1), SetGlobal("userdata") >>
     [] OTHER -> << >>) \o
  << Global({"userdata"}), Return(1) >>

----------------------------------------------------------------------------
(* liolib.c: reading and writing                                           *)

\* The handle, the count and the flag are the upvalues before the formats.
AuxLines(nargs) ==
  Check \o
  << Push("number"), Push("boolean"), Rotate(2, 2),
     Use(1, "userdata"), Use(2, "number"), Use(3, "boolean"), Combine(3 + nargs, "function") >>

FLines(nargs) == ToFile \o AuxLines(nargs) \o << Return(1) >>

IoLines(arg, nargs) ==
  (CASE arg = "none" -> << Push("nil"), Global({"userdata"}), Replace(1) >> \o ToFile
     [] arg = "nil" -> << Global({"userdata"}), Replace(1) >> \o ToFile
     [] OTHER -> Check \o OpenCheck \o << Replace(1) >>) \o
  AuxLines(nargs) \o << Return(1) >>

ReadLine == BufferResult("box")

\* A number, the end of the file, or one of the texts.
ReadOne == << Either(<< Push("string") >>, BufferResult("box")) >>

\* It stops after the first format that cannot be read, whose value is nil.
GRead(nargs) ==
  (IF nargs = 0 THEN ReadLine
   ELSE << CheckStack(nargs + MinStack),
           Times(nargs, Check \o ReadOne \o << Either(<< >>, << Break >>) >>) >>) \o
  << Either(<< >>, << Pop(1), Push("nil") >>) >>

FRead(nargs) ==
  ToFile \o GRead(nargs) \o << Either(<< Return(-nargs - 2) >>, Failed \o << Return(3) >>) >>

IoRead(nargs) ==
  GetIoFile \o GRead(nargs) \o << Either(<< Return(-nargs - 2) >>, Failed \o << Return(3) >>) >>

IoReadLine(nargs) ==
  Check \o << SetTop(1), CheckStack(nargs), Times(nargs, << Push("arg") >>) >> \o GRead(nargs) \o
  << Either(<< Return(-nargs - 2) >>,
       Check \o << Either(<< >>, << SetTop(0), Global({"userdata"}) >> \o CloseUnasked), Return(0) >>) >>

\* The file written to is on top, to be returned.
GWrite ==
  Check \o << Either(<< Use(-1, "userdata"), Return(1) >>, Failed \o << Return(3) >>) >>

IoWrite == GetIoFile \o GWrite

FWrite == ToFile \o << Copy(1) >> \o GWrite

FSeek == ToFile \o Check \o << Either(Failed \o << Return(3) >>, Gives("number")) >>

FSetVBuf == ToFile \o Check \o FileResult

IoFlush == GetIoFile \o FileResult

FFlush == ToFile \o FileResult

CreateMeta ==
  NewMetatable(<< >>) \o << Copy(-1), SetField(-2, "meta", "meta") >> \o
  SetFuncs(0, "meta") \o << Pop(1) >>

CreateStdFile(registered) ==
  NewPreFile \o
  (IF registered THEN << Copy(-1), SetGlobal("userdata") >> ELSE << >>) \o
  << SetField(-2, "table", "userdata") >>

OpenIo ==
  NewLib \o CreateMeta \o CreateStdFile(TRUE) \o CreateStdFile(TRUE) \o CreateStdFile(FALSE) \o
  << Return(1) >>

----------------------------------------------------------------------------
(* loslib.c                                                                *)

OsExecute == Check \o << Either(ExecResult, Gives("boolean")) >>

OsRemove == Check \o FileResult

OsRename == Check \o FileResult

OsTmpName == << Either(LuaError, Gives("string")) >>

OsGetEnv == Check \o << Either(Gives("string"), Gives("nil")) >>

OsClock == Gives("number")

SetTimeField == << Push("number"), SetField(-2, "table", "number") >>

SetBoolField == << Either(<< >>, << Push("boolean"), SetField(-2, "table", "boolean") >>) >>

SetAllFields == << Times(8, SetTimeField) >> \o SetBoolField

GetBoolField == << GetField(-1, "table", {"nil", "boolean"}), Pop(1) >>

GetTimeField ==
  << GetField(-1, "table", {"nil", "number"}), Either(<< >>, LuaError), Pop(1) >>

OsDate ==
  Check \o Check \o << Either(<< >>, LuaError) >> \o
  << Either(<< Push("table") >> \o SetAllFields,
            << Repeat(PrepBuffSize("box") \o << Either(<< >>, << Push("string") >> \o ArgError) >>) >> \o
            PushResult("box")),
     Return(1) >>

OsTime ==
  << Either(<< >>,
       Check \o << SetTop(1), Times(6, GetTimeField) >> \o GetBoolField \o SetAllFields),
     Either(<< >>, LuaError) >> \o Gives("number")

OsDiffTime == Check \o Check \o Gives("number")

OsSetLocale == Check \o Check \o << Either(Gives("string"), Gives("nil")) >>

OpenOs == NewLib \o << Return(1) >>

----------------------------------------------------------------------------
(* loadlib.c: paths and C libraries                                        *)

NoEnv == << Global({"nil", "boolean"}), Pop(1) >>

SetProgDir == << Either(<< >>, LuaError) >> \o GSub \o << TakeOut(-2) >>

SetPath ==
  << Push("string"),
     Either(<< Push("string") >>,
       NoEnv \o << Either(<< Push("string") >>, GSub \o GSub \o << TakeOut(-2) >>) >>) >> \o
  SetProgDir \o << SetField(-3, "table", "string"), Pop(1) >>

CheckCLib == << Global({"table"}), GetField(-1, "table", {"nil", "handle"}), Pop(2) >>

AddToCLib ==
  << Global({"table"}), Push("handle"), Copy(-1), SetField(-3, "table", "handle"),
     Use(-2, "table") >> \o LenOf \o << SetField(-2, "table", "handle"), Pop(1) >>

GcTm ==
  LenOf \o << Repeat(<< GetField(1, "table", {"handle"}), Use(-1, "handle"), Pop(1) >>), Return(0) >>

\* A library that does not load and a name it does not have leave a message.
LookForFunc ==
  CheckCLib \o
  << Either(<< Push("error") >>,
       << Either(<< >>, AddToCLib), Either(<< Push("function") >>, << Push("error") >>) >>) >>

LoadLib ==
  Check \o LookForFunc \o
  << If(-1, "error", << Push("nil"), Insert(-2), Push("string"), Return(3) >>, << Return(1) >>) >>

\* The message grows below the templates; `found` is what the caller does
\* with the name of a file that can be read, and returns.
SearchPath(found) ==
  << Either(<< >>, GSub),
     Repeat(<< Push("template") >> \o GSub \o
       << TakeOut(-2), Use(-1, "string"),
          Either(found, << Push("string"), TakeOut(-2) >> \o AddValue("box")) >>) >> \o
  PushResult("box")

SearchPathOf == Check \o SearchPath(<< Return(1) >>) \o << Push("nil"), Insert(-2), Return(2) >>

FindFile(found) == << Global({"string"}) >> \o Check \o SearchPath(found)

----------------------------------------------------------------------------
(* loadlib.c: require                                                      *)

CheckLoad == << If(-1, "error", << Raise >>, << Push("string"), Return(2) >>) >>

SearcherLua == Check \o FindFile(LoadFileX \o CheckLoad) \o << Return(1) >>

\* The part of the name after a mark is tried if the part before it fails.
LoadFunc ==
  LET whole == << Push("string") >> \o LookForFunc IN
  GSub \o
  << Either(whole,
       << Push("string"), Push("string") >> \o LookForFunc \o
       << If(-1, "error", << Either(<< >>, whole) >>, << >>) >>) >>

SearcherC == Check \o FindFile(LoadFunc \o CheckLoad) \o << Return(1) >>

SearcherCRoot ==
  Check \o << Either(<< Return(0) >>, << Push("string") >>) >> \o
  FindFile(LoadFunc \o
    << If(-1, "error", << Either(<< Raise >>, Gives("string")) >>, << Push("string"), Return(2) >>) >>) \o
  << Return(1) >>

SearcherPreload ==
  Check \o
  << Global({"table"}), GetField(-1, "table", {"nil", "function"}),
     If(-1, "nil", << Push("string") >>, << >>), Return(1) >>

\* The searchers are at index 3, the message above them; `found` goes on with
\* the loader and what the searcher has said of it.
FindLoader(found) ==
  << Global({"searchers"}), Either(<< >>, LuaError),
     Repeat(
       << GetField(3, "searchers", {"function"}), Push("string"),
          Either(<< Call(1, << "function", "data" >>) >> \o found,
            << Either(<< Call(1, << "string", "nil" >>), Pop(1) >> \o AddValue("box"),
                      << Call(1, << "nil", "nil" >>), Pop(2) >>) >>) >>),
     GetField(3, "searchers", {"nil"}), Pop(1) >> \o
  PushResult("box") \o LuaError

Require ==
  Check \o
  << SetTop(1), Global({"loaded"}), GetField(2, "loaded", {"nil", "module"}),
     If(-1, "module", << Return(1) >>, << Pop(1) >>) >> \o
  FindLoader(
    << Push("string"), Insert(-2),
       Either(<< Call(2, << "nil" >>), GetField(2, "loaded", {"nil", "module"}) >>,
              << Call(2, << "module" >>), SetField(2, "loaded", "module"),
                 GetField(2, "loaded", {"module"}) >>),
       If(-1, "nil", << Push("module"), Copy(-1), SetField(2, "loaded", "module") >>, << >>),
       Return(1) >>)

----------------------------------------------------------------------------
(* loadlib.c: module (LUA_COMPAT_MODULE) and luaopen_package               *)

SetEnv ==
  << Push("function"), Either(<< >>, LuaError), Copy(-2), Use(-1, "table"), Pop(1), Pop(1) >>

DoOptions(lastarg) ==
  FlattenSeq([k \in 1 .. lastarg - 1 |->
    << If(k + 1, "function",
          << Copy(k + 1), Copy(-2), Use(-1, "table"), Call(1, << >>) >>, << >>) >>])

ModInit ==
  << Copy(-1), SetField(-2, "table", "table") >> \o
  << Times(2, << Push("string"), SetField(-2, "table", "string") >>) >>

LLModule(lastarg) ==
  Check \o PushModule \o
  << GetField(-1, "table", {"nil", "name"}), Pop(1), Either(<< >>, ModInit), Copy(-1) >> \o
  SetEnv \o DoOptions(lastarg) \o << Return(1) >>

SeeAll ==
  Check \o
  << Either(<< Meta(1, "table") >>, << Push("meta"), Copy(-1), SetMeta(1, "table") >>),
     Global({"table"}), SetField(-2, "meta", "table"), Return(0) >>

CreateSearchersTable ==
  << Push("searchers"),
     Times(4, << Copy(-2), Use(-1, "table"), Combine(1, "function"),
                 SetField(-2, "searchers", "function") >>),
     Copy(-1), SetField(-3, "table", "searchers"), SetField(-2, "table", "searchers") >>

CreateCLibsTable ==
  << Push("table"), Push("meta"), Push("function"), SetField(-2, "meta", "function"),
     SetMeta(-2, "table"), SetGlobal("table") >>

OpenPackage ==
  CreateCLibsTable \o NewLib \o CreateSearchersTable \o SetPath \o SetPath \o
  << Push("string"), SetField(-2, "table", "string") >> \o
  GetSubTable \o << SetField(-2, "table", "table") >> \o
  GetSubTable \o << SetField(-2, "table", "table"), Global({"globals"}), Copy(-2) >> \o
  SetFuncs(1, "globals") \o << Pop(1), Return(1) >>

\* luaL_openlibs: each library is registered and its table dropped.
OpenLibs == << Repeat(RequireF \o << Pop(1) >>) >>
=============================================================================
