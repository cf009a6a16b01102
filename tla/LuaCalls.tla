------------------------------ MODULE LuaCalls ------------------------------
(***************************************************************************)
(* Calls, errors, hooks and yields of one coroutine (src/LuaSrc/ldo.c).    *)
(*                                                                         *)
(* A coroutine has two stacks: its CallInfo list, ci, which survives a     *)
(* yield, and the C stack, cs, which a yield or an error cuts down to the  *)
(* innermost luaD_rawrunprotected.  What lua_State counts on the way       *)
(* (nCcalls, nny, allowhook, errfunc, and the state mutex that is taken    *)
(* and left around every C function and hook) has to come out right        *)
(* whichever way a call ends.                                              *)
(*                                                                         *)
(* s is lua_State with both stacks.  An activation of cs that is not on    *)
(* top waits for the one above it.  Values, program counters and the size  *)
(* of the stacks are left out; what functions do is chosen freely.         *)
(***************************************************************************)
EXTENDS Naturals, SequencesExt, FiniteSetsExt

CONSTANTS
  MaxCCalls,  \* LUAI_MAXCCALLS
  From,       \* nCcalls of the threads that resume the coroutine
  MaxFrames   \* bound: frames that the program's calls make

ASSUME CallsAssumption ==
  /\ MaxCCalls \in Nat \ {0}
  /\ From \subseteq 0 .. (MaxCCalls + MaxCCalls \div 8) - 1

VARIABLE s

Frame(lua) == [lua |-> lua, k |-> FALSE, pcall |-> FALSE, handler |-> FALSE, oah |-> TRUE, old |-> 0]

\* What is on the C stack.
Execute(base) == [kind |-> "execute", base |-> base]   \* luaV_execute, for the frames from base on
Body(stage) == [kind |-> "body", stage |-> stage]      \* a C function or a continuation
Hook(trace) == [kind |-> "hook", trace |-> trace]      \* luaD_hook
CallOf(by, noyield) == [kind |-> "call", by |-> by, noyield |-> noyield]   \* luaD_call
RawRun(of) == [kind |-> "rawrun", of |-> of, nCcalls |-> s.nCcalls]
Raise == [kind |-> "raise"]                            \* luaG_errormsg

Top == Last(s.cs)
Is(kind) == s.cs # <<>> /\ Top.kind = kind
Push(t, a) == [t EXCEPT !.cs = Append(@, a)]
Pop(t) == [t EXCEPT !.cs = Front(@)]
Locked(t) == [t EXCEPT !.lock = @ + 1]
Unlocked(t) == [t EXCEPT !.lock = @ - 1]
LastFrame(t) == t.ci[Len(t.ci)]
SetFrame(t, f) == [t EXCEPT !.ci[Len(t.ci)] = f]

----------------------------------------------------------------------------
(* Calls.                                                                  *)

\* luaD_precall.  luaV_execute goes on with a Lua function it has called.
Precall(t, lua) ==
  LET entered == [t EXCEPT !.ci = Append(@, Frame(lua))] IN
  IF ~lua THEN Push(entered, Body("entering"))
  ELSE IF Last(t.cs).kind = "execute" THEN entered
  ELSE Push(entered, Execute(Len(entered.ci)))

\* lua_resume comes back.
ResumeEnds(t) ==
  Unlocked([t EXCEPT !.cs = <<>>, !.nny = t.cs[1].nny, !.nCcalls = @ - 1])

\* The innermost frame in a protected call with a continuation (findpcall).
PCalls(t) == {i \in DOMAIN t.ci : t.ci[i].pcall}

\* finishCcall, up to the continuation.
Continue(t) ==
  LET f == LastFrame(t) IN
  Unlocked(Push(SetFrame([t EXCEPT !.errfunc = IF f.pcall THEN f.old ELSE @], [f EXCEPT !.pcall = FALSE]),
                Body("running")))

\* Mutant: what allowhook was is not restored.
RecoverHookless(t, error) ==
  IF PCalls(t) = {} THEN ResumeEnds([t EXCEPT !.status = error])
  ELSE LET i == Max(PCalls(t)) IN
       Continue(Push([t EXCEPT !.ci = SubSeq(@, 1, i), !.nny = 0],
                     [kind |-> "rawrun", of |-> "unroll", nCcalls |-> t.nCcalls]))

\* recover, and the rest of lua_resume when there is nothing to recover to.
Recover(t, error) ==
  IF PCalls(t) = {} THEN ResumeEnds([t EXCEPT !.status = error])
  ELSE LET i == Max(PCalls(t)) IN
       Continue(Push([t EXCEPT !.ci = SubSeq(@, 1, i), !.allowhook = t.ci[i].oah, !.nny = 0],
                     [kind |-> "rawrun", of |-> "unroll", nCcalls |-> t.nCcalls]))

\* luaD_pcall after an error.
PCallFails(t) ==
  LET p == Last(t.cs) IN
  Unlocked(Pop([t EXCEPT !.ci = SubSeq(@, 1, p.ci), !.allowhook = p.allowhook,
                         !.nny = p.nny, !.errfunc = p.errfunc]))

\* luaD_throw, to the innermost luaD_rawrunprotected.
Throw(t, status) ==
  LET j == Max({i \in DOMAIN t.cs : t.cs[i].kind = "rawrun"})
      caught == [t EXCEPT !.cs = SubSeq(@, 1, j - 1), !.nCcalls = t.cs[j].nCcalls] IN
  IF t.cs[j].of = "pcall" THEN PCallFails(caught)
  ELSE IF status = "yield" THEN ResumeEnds(caught)
  ELSE Recover(caught, status)

\* luaD_call, luaD_callnoyield, with stackerror.
DoCall(t, by, noyield, lua) ==
  LET n == t.nCcalls + 1
      called == Push([t EXCEPT !.nCcalls = n, !.nny = IF noyield THEN @ + 1 ELSE @], CallOf(by, noyield)) IN
  IF n = MaxCCalls THEN Push(called, Raise)
  ELSE IF n >= MaxCCalls + MaxCCalls \div 8 THEN Throw(called, "errerr")
  ELSE Precall(called, lua)

----------------------------------------------------------------------------
(* lua_resume.                                                             *)

\* The start of a function, or the end of a yield; too many C calls below.
Resume(from, lua) ==
  /\ s.cs = <<>> /\ s.status \in {"ok", "yield"}
  /\ LET t == Locked([s EXCEPT !.nCcalls = from + 1, !.nny = 0, !.status = "ok",
                               !.cs = <<[kind |-> "resume", nny |-> s.nny],
                                        [kind |-> "rawrun", of |-> "resume", nCcalls |-> from + 1]>>]) IN
     s' = IF from + 1 >= MaxCCalls THEN [s EXCEPT !.nCcalls = from + 1]
          ELSE IF s.status = "ok" THEN Precall(t, lua)
          ELSE IF LastFrame(s).lua THEN Push(t, Execute(Len(s.ci)))
          ELSE IF LastFrame(s).k THEN Unlocked(Push(t, Body("running")))
          ELSE Push(t, Body("leaving"))

\* unroll, when whatever it ran has returned.
Unroll ==
  /\ Is("rawrun") /\ Top.of # "pcall"
  /\ s' = IF s.ci = <<>> THEN ResumeEnds(s)
          ELSE IF LastFrame(s).lua THEN Push(s, Execute(Len(s.ci)))
          ELSE Continue(s)

----------------------------------------------------------------------------
(* luaV_execute.                                                           *)

MoreFrames == Len(s.ci) < MaxFrames

LuaCall(lua) == Is("execute") /\ MoreFrames /\ s' = Precall(s, lua)
LuaMetamethod(lua) == Is("execute") /\ MoreFrames /\ s' = DoCall(s, "metamethod", FALSE, lua)
LuaError == Is("execute") /\ s' = Push(s, Raise)

\* The frame that luaV_execute began with returns to who called luaV_execute.
LuaReturn ==
  /\ Is("execute")
  /\ LET t == [s EXCEPT !.ci = Front(@)] IN s' = IF Len(s.ci) = Top.base THEN Pop(t) ELSE t

----------------------------------------------------------------------------
(* luaD_hook: of lines and counts (luaG_traceexec), of calls and returns.  *)

HookBegin(trace) ==
  /\ s.allowhook
  /\ \/ Is("execute")
     \/ Is("body") /\ Top.stage # "running" /\ ~trace
  /\ s' = Unlocked(Push([s EXCEPT !.allowhook = FALSE], Hook(trace)))

\* The hook function has returned.
AfterHook(t) == Locked(Pop([t EXCEPT !.allowhook = TRUE]))

\* A hook of a line or a count may have yielded; luaG_traceexec does it then.
HookEnd ==
  /\ Is("hook")
  /\ s' = IF s.status = "yield" THEN Throw(AfterHook(s), "yield") ELSE AfterHook(s)

HookYield ==
  /\ Is("hook") /\ Top.trace /\ s.status = "ok"
  /\ s' = IF s.nny > 0 THEN Push(Locked(s), Raise) ELSE [s EXCEPT !.status = "yield"]

----------------------------------------------------------------------------
(* C functions, continuations and hooks, which run without the state mutex *)
(* and call the API.                                                       *)

InC == (Is("body") /\ Top.stage = "running") \/ (Is("hook") /\ s.status = "ok")

\* A hook gives no continuation.
Continues(k) == k /\ s.nny = 0
MayContinue(k) == k => Is("body")

CallK(k, lua) ==
  /\ InC /\ MayContinue(k) /\ MoreFrames
  /\ LET t == Locked(IF Continues(k) THEN SetFrame(s, [LastFrame(s) EXCEPT !.k = TRUE]) ELSE s) IN
     s' = DoCall(t, "api", ~Continues(k), lua)

\* Where the message handler is: in the frame that gives it.
ErrFunc(handler) == IF handler THEN Len(s.ci) ELSE 0

\* lua_pcallk with a continuation, whose errors lua_resume takes.
YieldablePCall(handler, lua) ==
  DoCall(Locked(SetFrame([s EXCEPT !.errfunc = ErrFunc(handler)],
                         [LastFrame(s) EXCEPT !.k = TRUE, !.pcall = TRUE, !.handler = handler,
                                              !.oah = s.allowhook, !.old = s.errfunc])),
         "ypcall", FALSE, lua)

\* luaD_pcall of f_call.
ConventionalPCall(handler, lua) ==
  LET saved == [kind |-> "pcall", ci |-> Len(s.ci), allowhook |-> s.allowhook, nny |-> s.nny,
                errfunc |-> s.errfunc, handler |-> handler] IN
  DoCall(Push(Push(Locked([s EXCEPT !.errfunc = ErrFunc(handler)]), saved), RawRun("pcall")),
         "f_call", TRUE, lua)

PCallK(k, handler, lua) ==
  /\ InC /\ MayContinue(k) /\ MoreFrames
  /\ s' = IF Continues(k) THEN YieldablePCall(handler, lua) ELSE ConventionalPCall(handler, lua)

YieldK(k) ==
  /\ InC /\ Is("body")
  /\ s' = IF s.nny > 0 THEN Push(Locked(s), Raise)
          ELSE Throw(Locked(SetFrame([s EXCEPT !.status = "yield"], [LastFrame(s) EXCEPT !.k = k])), "yield")

CallError == InC /\ s' = Push(Locked(s), Raise)

BodyBegin ==
  /\ Is("body") /\ Top.stage = "entering"
  /\ s' = Unlocked(Push(Pop(s), Body("running")))
BodyReturn ==
  /\ Is("body") /\ Top.stage = "running"
  /\ s' = Locked(Push(Pop(s), Body("leaving")))

\* luaD_poscall
BodyEnd ==
  /\ Is("body") /\ Top.stage = "leaving"
  /\ s' = Pop([s EXCEPT !.ci = Front(@)])

----------------------------------------------------------------------------
(* The ends of calls.                                                      *)

\* luaD_call returns to who made it.
CallEnd ==
  /\ Is("call")
  /\ LET t == Pop([s EXCEPT !.nCcalls = @ - 1, !.nny = IF Top.noyield THEN @ - 1 ELSE @]) IN
     s' = CASE Top.by = "api" -> Unlocked(t)
            [] Top.by = "ypcall" ->
                 LET f == LastFrame(s) IN
                 Unlocked(SetFrame([t EXCEPT !.errfunc = f.old], [f EXCEPT !.pcall = FALSE]))
            [] Top.by = "handler" -> Throw(t, "errrun")
            [] Top.by \in {"metamethod", "f_call"} -> t

\* luaD_pcall without an error.
PCallEnd ==
  /\ Is("rawrun") /\ Top.of = "pcall"
  /\ s' = Unlocked(Pop(Pop([s EXCEPT !.nCcalls = Top.nCcalls, !.errfunc = s.cs[Len(s.cs) - 1].errfunc])))

\* luaG_errormsg: the message handler first, which may raise an error itself.
RaiseError(lua) ==
  /\ Is("raise")
  /\ s' = IF s.errfunc = 0 THEN Throw(Pop(s), "errrun") ELSE DoCall(Pop(s), "handler", TRUE, lua)

----------------------------------------------------------------------------

CallsInit ==
  s = [ci |-> <<>>, cs |-> <<>>, nCcalls |-> 0, nny |-> 1, allowhook |-> TRUE, errfunc |-> 0,
       status |-> "ok", lock |-> 0]

CallsNext ==
  \/ \E lua \in BOOLEAN :
       \/ \E from \in From : Resume(from, lua)
       \/ LuaCall(lua) \/ LuaMetamethod(lua) \/ RaiseError(lua)
       \/ \E k \in BOOLEAN :
            \/ CallK(k, lua)
            \/ \E handler \in BOOLEAN : PCallK(k, handler, lua)
  \/ \E trace \in BOOLEAN : HookBegin(trace)
  \/ \E k \in BOOLEAN : YieldK(k)
  \/ Unroll \/ LuaError \/ LuaReturn \/ HookEnd \/ HookYield
  \/ CallError \/ BodyBegin \/ BodyReturn \/ BodyEnd \/ CallEnd \/ PCallEnd

CallsSpec == CallsInit /\ [][CallsNext]_s

----------------------------------------------------------------------------
(* What holds however calls end.                                           *)

Running == s.cs # <<>>
Count(P(_)) == Cardinality({i \in DOMAIN s.cs : P(s.cs[i])})

\* Protected calls under way, by the frame that made them: on the C stack, or
\* with a continuation.
Protected ==
  {[ci |-> s.cs[i].ci, handler |-> s.cs[i].handler] : i \in {i \in DOMAIN s.cs : s.cs[i].kind = "pcall"}} \union
  {[ci |-> i, handler |-> s.ci[i].handler] : i \in PCalls(s)}
Handler ==
  IF Protected = {} THEN 0
  ELSE LET p == CHOOSE p \in Protected : \A q \in Protected : q.ci <= p.ci IN IF p.handler THEN p.ci ELSE 0

\* At every point the counters are those of the stacks: nCcalls counts the calls
\* in C, a yield is refused exactly below a call that cannot be continued, hooks
\* are off exactly during a hook, the message handler is the innermost protected
\* call's, and the state mutex is held exactly outside C functions and hooks.
CountersTellTheStack ==
  /\ Running =>
       /\ s.nCcalls = s.cs[2].nCcalls + Count(LAMBDA a : a.kind = "call")
       /\ s.nny = Count(LAMBDA a : a.kind = "call" /\ a.noyield)
       /\ s.allowhook <=> Count(LAMBDA a : a.kind = "hook") = 0
       /\ s.errfunc = Handler
       /\ s.lock = IF (Is("body") /\ Top.stage = "running") \/ Is("hook") THEN 0 ELSE 1
  /\ ~Running => s.lock = 0 /\ s.nny = 1 /\ (s.status = "yield" => s.allowhook)
  \* A suspended C function that is gone on with has a continuation.
  /\ Is("rawrun") /\ Top.of # "pcall" /\ s.ci # <<>> => LastFrame(s).lua \/ LastFrame(s).k
  \* Errors in message handlers end.
  /\ s.nCcalls <= MaxCCalls + MaxCCalls \div 8
=============================================================================
