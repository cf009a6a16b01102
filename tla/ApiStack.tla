------------------------------ MODULE ApiStack ------------------------------
(***************************************************************************)
(* The stack between Lua and C++, as the functions that work on it see it. *)
(*                                                                         *)
(* Every C and C++ function that talks to Lua is a short program of API    *)
(* calls that name stack slots by index: negative from the top, positive   *)
(* from the bottom of its frame.  A wrong index or a value left behind is  *)
(* found by nobody until a later call meets the wrong slot.  The modules   *)
(* that extend this one write each function as a program; this module      *)
(* says what one API call does to the stack (src/LuaSrc/lapi.c).           *)
(*                                                                         *)
(* A slot holds a tag that says what the value is there for: a call that   *)
(* indexes a table names the tag of the table it is meant to meet.  Index  *)
(* 0, which Lua does not use, stands for the position a function has       *)
(* computed once from an index of its caller (Enter).                      *)
(***************************************************************************)
EXTENDS Integers, SequencesExt

CONSTANTS
  Functions,  \* the functions, as records [name, args, code, keeps, leaves]
  MinStack,   \* LUA_MINSTACK: the slots a function has without asking
  Many        \* how often a loop over arguments or results may go round

VARIABLES
  fn,      \* the function that runs: its name and what it promises
  todo,    \* what is left of its program
  stk,     \* its part of the stack
  bases,   \* the positions its functions have computed, innermost last
  marks,   \* the heights its functions have stored (int top = lua_gettop)
  room,    \* the slots it may use
  astray   \* whether a call has met a slot it was not meant to meet

vars == <<fn, todo, stk, bases, marks, room, astray>>

----------------------------------------------------------------------------
(* The instructions programs are made of.                                  *)

Push(tag) == <<"push", tag>>                       \* any lua_push..., also newtable
Copy(i) == <<"copy", i>>                           \* lua_pushvalue
Pop(n) == <<"settop", -n - 1>>                     \* lua_pop
SetTop(n) == <<"settop", n>>
Rotate(i, n) == <<"rotate", i, n>>
Insert(i) == <<"rotate", i, 1>>
TakeOut(i) == <<"remove", i>>
Replace(i) == <<"replace", i>>
Get(i, t, tags) == <<"get", i, t, tags>>           \* lua_gettable, lua_rawget
GetField(i, t, tags) == <<"getfield", i, t, tags>> \* lua_getfield, lua_geti, ...
Global(tags) == <<"global", tags>>                 \* lua_getglobal, upvalues, the registry
Set(i, t, v) == <<"set", i, t, v>>                 \* lua_settable, lua_rawset
SetField(i, t, v) == <<"setfield", i, t, v>>       \* lua_setfield, lua_seti, ...
SetGlobal(v) == <<"setglobal", v>>
Meta(i, t) == <<"meta", i, t>>                     \* lua_getmetatable that finds one
SetMeta(i, t) == <<"setmeta", i, t>>
Next(i, t, body) == <<"next", i, t, body>>         \* while(lua_next(...)) body
Use(i, t) == <<"use", i, t>>                       \* any call that only reads slot i
Combine(n, tag) == <<"combine", n, tag>>           \* arith, concat, pushcclosure
Call(n, tags) == <<"call", n, tags>>               \* lua_call with fixed results; below 0,
CallMulti(n, tag) == <<"multi", n, tag>>           \* lua_gettop + n arguments; LUA_MULTRET
CombineMarked(tag) == <<"combinemarked", tag>>     \* all above the innermost mark
CallMarked(tag) == <<"callmarked", tag>>           \* its function is the first above the mark
CheckStack(n) == <<"check", n>>
If(i, tag, then, else) == <<"if", i, tag, then, else>>
IfAny(tag, then, else) == <<"ifany", tag, then, else>> \* a flag: the tag is in the frame
Either(one, other) == <<"either", one, other>>     \* a condition of the C++ code
Repeat(body) == <<"repeat", body>>                 \* for(i < count) body
Times(n, body) == <<"times", n, body>>
Break == <<"break">>                               \* of the innermost loop
Return(n) == <<"return", n>>                       \* of a C function: its n topmost slots,
ReturnAll == <<"return", -1>>                      \* or all; -2, all but one; -3, but two
Raise == <<"raise">>                               \* lua_error and failed argument checks
Enter(i) == <<"enter", i>>
EnterAbove == <<"above">>                          \* the position of the next value pushed
Mark == <<"mark">>
Unmark == <<"unmark">>
Cut == <<"cut">>                                   \* lua_settop to the innermost mark
Leave == <<"leave">>
Stabilize(max, min) == <<"stabilize", max, min>>

\* pstack_call: what fn leaves is cut to max values, or filled up to min.
Stabilized(code, max, min) == <<Mark>> \o code \o <<Stabilize(max, min)>>

----------------------------------------------------------------------------
(* Positions.                                                              *)

At(i) == IF i > 0 THEN i ELSE IF i = 0 THEN Last(bases) ELSE Len(stk) + i + 1

Holds(i, tag) == At(i) \in DOMAIN stk /\ stk[At(i)] = tag

Up(n) == SubSeq(stk, 1, Len(stk) - n)   \* the stack without its n topmost slots

Meets(hit) == astray' = (astray \/ ~hit)

Becomes(stack) ==
  /\ stk' = stack
  /\ todo' = Tail(todo)
  /\ UNCHANGED <<fn, bases, marks, room>>

Does(op) == todo # <<>> /\ todo[1][1] = op

----------------------------------------------------------------------------
(* One action per kind of API call.                                        *)

DoPush == Does("push") /\ Becomes(Append(stk, todo[1][2])) /\ UNCHANGED astray

DoCopy ==
  /\ Does("copy")
  /\ LET i == todo[1][2] IN
     /\ Meets(At(i) \in DOMAIN stk)
     /\ Becomes(Append(stk, IF At(i) \in DOMAIN stk THEN stk[At(i)] ELSE "none"))

\* lua_settop: an index not below 0 cuts or fills with nil, another one pops.
DoSetTop ==
  /\ Does("settop")
  /\ LET n == IF todo[1][2] >= 0 THEN todo[1][2] ELSE Len(stk) + todo[1][2] + 1 IN
     /\ Meets(n >= 0)
     /\ Becomes([k \in 1 .. n |-> IF k <= Len(stk) THEN stk[k] ELSE "nil"])

DoRotate ==
  /\ Does("rotate")
  /\ LET p == At(todo[1][2])
         size == Len(stk) - p + 1
         n == todo[1][3] IN
     /\ Meets(p \in DOMAIN stk)
     /\ Becomes([k \in 1 .. Len(stk) |->
                   IF k < p THEN stk[k] ELSE stk[p + ((k - p - n) % size)]])

DoRemove ==
  /\ Does("remove")
  /\ Meets(At(todo[1][2]) \in DOMAIN stk)
  /\ Becomes(RemoveAt(stk, At(todo[1][2])))

DoReplace ==
  /\ Does("replace")
  /\ Meets(At(todo[1][2]) \in DOMAIN Up(1))
  /\ Becomes(SubSeq([stk EXCEPT ![At(todo[1][2])] = Last(stk)], 1, Len(stk) - 1))

DoGet ==
  /\ Does("get")
  /\ Meets(Holds(todo[1][2], todo[1][3]))
  /\ \E tag \in todo[1][4] : Becomes(Append(Up(1), tag))

DoGetField ==
  /\ Does("getfield")
  /\ Meets(Holds(todo[1][2], todo[1][3]))
  /\ \E tag \in todo[1][4] : Becomes(Append(stk, tag))

DoGlobal ==
  /\ Does("global")
  /\ \E tag \in todo[1][2] : Becomes(Append(stk, tag))
  /\ UNCHANGED astray

DoSet ==
  /\ Does("set")
  /\ Meets(Holds(todo[1][2], todo[1][3]) /\ Holds(-1, todo[1][4]))
  /\ Becomes(Up(2))

DoSetField ==
  /\ Does("setfield")
  /\ Meets(Holds(todo[1][2], todo[1][3]) /\ Holds(-1, todo[1][4]))
  /\ Becomes(Up(1))

DoSetGlobal == Does("setglobal") /\ Meets(Holds(-1, todo[1][2])) /\ Becomes(Up(1))

DoMeta ==
  /\ Does("meta")
  /\ Meets(Holds(todo[1][2], todo[1][3]))
  /\ Becomes(Append(stk, "meta"))

DoSetMeta ==
  /\ Does("setmeta")
  /\ Meets(Holds(todo[1][2], todo[1][3]) /\ Last(stk) \in {"meta", "nil"})
  /\ Becomes(Up(1))

\* lua_next takes the key; it gives the next key with its value, or nothing.
DoNext ==
  /\ Does("next")
  /\ Meets(Holds(todo[1][2], todo[1][3]) /\ (Holds(-1, "nil") \/ Holds(-1, "key")))
  /\ \/ Becomes(Up(1))
     \/ /\ stk' = Up(1) \o <<"key", "value">>
        /\ todo' = todo[1][4] \o todo
        /\ UNCHANGED <<fn, bases, marks, room>>

DoUse == Does("use") /\ Meets(Holds(todo[1][2], todo[1][3])) /\ Becomes(stk)

DoCombine ==
  /\ Does("combine")
  /\ Meets(todo[1][2] <= Len(stk))
  /\ Becomes(Append(Up(todo[1][2]), todo[1][3]))

Args(n) == IF n < 0 THEN Len(stk) + n ELSE n

DoCall ==
  /\ Does("call")
  /\ LET n == Args(todo[1][2]) IN
     /\ Meets(n < Len(stk) /\ Holds(-n - 1, "function"))
     /\ Becomes(Up(n + 1) \o todo[1][3])

DoCombineMarked ==
  /\ Does("combinemarked")
  /\ Meets(Len(stk) > Last(marks))
  /\ Becomes(Append(SubSeq(stk, 1, Last(marks)), todo[1][2]))

\* A call that may return any number of values makes room for them.
Returns(n, tag) ==
  /\ Meets(n \in 0 .. Len(stk) - 1 /\ Holds(-n - 1, "function"))
  /\ \E k \in Many :
       /\ stk' = Up(n + 1) \o [j \in 1 .. k |-> tag]
       /\ room' = IF Len(stk') > room THEN Len(stk') ELSE room
  /\ todo' = Tail(todo)
  /\ UNCHANGED <<fn, bases, marks>>

DoCallMulti == Does("multi") /\ Returns(Args(todo[1][2]), todo[1][3])

DoCallMarked == Does("callmarked") /\ Returns(Len(stk) - Last(marks) - 1, todo[1][2])

\* lua_checkstack raises the frame's limit, never lowers it.
DoCheckStack ==
  /\ Does("check")
  /\ room' = IF Len(stk) + todo[1][2] > room THEN Len(stk) + todo[1][2] ELSE room
  /\ todo' = Tail(todo)
  /\ UNCHANGED <<fn, stk, bases, marks, astray>>

----------------------------------------------------------------------------
(* The C++ around the calls.                                               *)

Branch(code) ==
  /\ todo' = code \o Tail(todo)
  /\ UNCHANGED <<fn, stk, bases, marks, room, astray>>

DoIf ==
  /\ Does("if")
  /\ Branch(IF Holds(todo[1][2], todo[1][3]) THEN todo[1][4] ELSE todo[1][5])

DoIfAny ==
  /\ Does("ifany")
  /\ Branch(IF \E k \in DOMAIN stk : stk[k] = todo[1][2] THEN todo[1][3] ELSE todo[1][4])

DoEither == Does("either") /\ (Branch(todo[1][2]) \/ Branch(todo[1][3]))

DoRepeat ==
  /\ Does("repeat")
  /\ \E n \in Many : Branch(<<Times(n, todo[1][2])>>)

DoTimes ==
  /\ Does("times")
  /\ Branch(IF todo[1][2] = 0 THEN <<>> ELSE todo[1][3] \o <<Times(todo[1][2] - 1, todo[1][3])>>)

\* The rest of the loop's body goes, and the loop with it.
DoBreak ==
  /\ Does("break")
  /\ LET loop == SelectInSeq(todo, LAMBDA code : code[1] \in {"next", "times"}) IN
     todo' = SubSeq(todo, loop + 1, Len(todo))
  /\ UNCHANGED <<fn, stk, bases, marks, room, astray>>

\* An error unwinds the function: nothing of its frame is left.
DoRaise ==
  /\ Does("raise")
  /\ todo' = <<>> /\ stk' = <<"raised">>
  /\ UNCHANGED <<fn, bases, marks, room, astray>>

\* The results of a C function are the topmost slots of its frame.
DoReturn ==
  /\ Does("return")
  /\ LET n == IF todo[1][2] < 0 THEN Len(stk) + 1 + todo[1][2] ELSE todo[1][2] IN
     /\ Meets(n \in 0 .. Len(stk))
     /\ stk' = SubSeq(stk, Len(stk) - n + 1, Len(stk))
  /\ todo' = <<>>
  /\ UNCHANGED <<fn, bases, marks, room>>

Goes == todo' = Tail(todo) /\ UNCHANGED <<fn, stk, room, astray>>

DoEnter == Does("enter") /\ bases' = Append(bases, At(todo[1][2])) /\ Goes /\ UNCHANGED marks

DoEnterAbove ==
  Does("above") /\ bases' = Append(bases, Len(stk) + 1) /\ Goes /\ UNCHANGED marks

DoLeave == Does("leave") /\ bases' = Front(bases) /\ Goes /\ UNCHANGED marks

DoMark == Does("mark") /\ marks' = Append(marks, Len(stk)) /\ Goes /\ UNCHANGED bases

DoUnmark == Does("unmark") /\ marks' = Front(marks) /\ Goes /\ UNCHANGED bases

DoCut == Does("cut") /\ Becomes(SubSeq(stk, 1, Last(marks))) /\ UNCHANGED astray

DoStabilize ==
  /\ Does("stabilize")
  /\ LET delta == Len(stk) - Last(marks)
         max == todo[1][2]
         min == todo[1][3] IN
     stk' = IF delta > max THEN Up(delta - max)
            ELSE stk \o [k \in 1 .. (min - delta) |-> "nil"]
  /\ marks' = Front(marks)
  /\ todo' = Tail(todo)
  /\ UNCHANGED <<fn, bases, room, astray>>

----------------------------------------------------------------------------

Init ==
  \E f \in Functions :
    /\ fn = [name |-> f.name, args |-> f.args, keeps |-> f.keeps, leaves |-> f.leaves]
    /\ todo = f.code
    /\ stk = f.args
    /\ bases = <<>>
    /\ marks = <<>>
    /\ room = Len(f.args) + MinStack
    /\ astray = FALSE

Step ==
  \/ DoPush \/ DoCopy \/ DoSetTop \/ DoRotate \/ DoRemove \/ DoReplace
  \/ DoGet \/ DoGetField \/ DoGlobal \/ DoSet \/ DoSetField \/ DoSetGlobal
  \/ DoMeta \/ DoSetMeta \/ DoNext \/ DoUse \/ DoCombine \/ DoCombineMarked
  \/ DoCall \/ DoCallMulti \/ DoCallMarked \/ DoCheckStack
  \/ DoIf \/ DoIfAny \/ DoEither \/ DoRepeat \/ DoTimes \/ DoBreak \/ DoReturn \/ DoRaise
  \/ DoEnter \/ DoEnterAbove \/ DoLeave \/ DoMark \/ DoUnmark \/ DoCut \/ DoStabilize

Spec == Init /\ [][Step]_vars

----------------------------------------------------------------------------
(* What a function promises.                                               *)

Returned == todo = <<>> /\ stk # <<"raised">>

\* A function gives back its caller's part of the stack and leaves on it what
\* its comments say (the "s+1", "s-2" of the C++ code): a value too many
\* shifts every later negative index of the caller, a value too few is the
\* caller's own.
Balanced ==
  Returned =>
    LET kept == SubSeq(fn.args, 1, fn.keeps) IN
    \/ \E out \in fn.leaves : stk = kept \o out
    \/ <<"any">> \in fn.leaves /\ IsPrefix(kept, stk)

\* Every table that is read or written, every value that is stored and every
\* function that is called is the one the index was written for, whatever the
\* conditions and counts in the program are.
IndexesHit == ~astray

\* A function does not use more slots than Lua guarantees or it has asked for
\* (lua_checkstack): beyond them the API writes past the end of the stack.
RoomKept == Len(stk) <= room
=============================================================================
