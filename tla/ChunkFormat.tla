---------------------------- MODULE ChunkFormat ----------------------------
(***************************************************************************)
(* Lua functions as binary chunks: luaU_dump (src/LuaSrc/ldump.c) and      *)
(* luaU_undump (src/LuaSrc/lundump.c), with which function_var copies a    *)
(* Lua function out of one state and into another.                         *)
(*                                                                         *)
(* A chunk is a sequence of numbers, one for each number or character that *)
(* is dumped.  A function is a record                                      *)
(*   [source, head, code, k, upvalues, protos, lineinfo, locvars];         *)
(* a text is a sequence of characters, or Null.                            *)
(***************************************************************************)
EXTENDS Integers, SequencesExt

CONSTANTS
  Null,      \* no text
  LongMark,  \* 0xFF: the size byte of a text too long for one
  Error      \* what loading gives if it raises an error

\* The types of a constant.
TNil == 0
TBoolean == 1
TNumInt == 35
TString == 4

Header == <<27, 83, 0, 25, 4, 8>>

----------------------------------------------------------------------------
(* Dumping.                                                                *)

Flat(list, Dump(_)) == FlattenSeq([i \in DOMAIN list |-> Dump(list[i])])
Counted(list, Dump(_)) == <<Len(list)>> \o Flat(list, Dump)
Itself(x) == <<x>>

\* Mutant: the size does not count the end of the text.
DumpStringBare(s) ==
  IF s = Null THEN <<0>>
  ELSE IF Len(s) < LongMark THEN <<Len(s)>> \o s ELSE <<LongMark, Len(s)>> \o s

\* The size counts the text's end, which is not dumped: 0 is no text.
DumpString(s) ==
  IF s = Null THEN <<0>>
  ELSE LET size == Len(s) + 1 IN
       (IF size < LongMark THEN <<size>> ELSE <<LongMark, size>>) \o s

DumpConstant(c) ==
  CASE c.type = TNil -> <<TNil>>
    [] c.type = TString -> <<TString>> \o DumpString(c.value)
    [] OTHER -> <<c.type, c.value>>

DumpUpvalue(u) == <<u.instack, u.idx>>

DumpLocal(v) == DumpString(v.name) \o <<v.startpc, v.endpc>>

DumpDebug(f, strip) ==
  IF strip THEN <<0, 0, 0>>
  ELSE Counted(f.lineinfo, Itself)
       \o Counted(f.locvars, DumpLocal)
       \o Counted(f.upvalues, LAMBDA u : DumpString(u.name))

RECURSIVE DumpFunction(_, _, _)
DumpCode(f) == Counted(f.code, Itself)
DumpProtos(f, strip) == Counted(f.protos, LAMBDA p : DumpFunction(p, f.source, strip))

\* A function's source is left out if it is its parent's.
DumpFunction(f, psource, strip) ==
  DumpString(IF strip \/ f.source = psource THEN Null ELSE f.source)
  \o <<f.head>>
  \o DumpCode(f)
  \o Counted(f.k, DumpConstant)
  \o Counted(f.upvalues, DumpUpvalue)
  \o DumpProtos(f, strip)
  \o DumpDebug(f, strip)

\* function_var's writer appends every piece to its buffer; its reader gives the
\* whole buffer in one piece.
Written(buffer, piece) == buffer \o piece

Dump(f, strip) ==
  FoldLeft(Written, <<>>, <<Header, <<Len(f.upvalues)>>, DumpFunction(f, Null, strip)>>)

----------------------------------------------------------------------------
(* Loading, from place p of chunk d: [x, p] is what has been loaded and    *)
(* the place behind it.  LoadBlock raises an error behind the end; here    *)
(* there are zeros behind it, and Undump raises the error.                 *)

At(d, p) == IF p \in DOMAIN d THEN d[p] ELSE 0

LoadByte(d, p) == [x |-> At(d, p), p |-> p + 1]

LoadList(d, p, Load(_)) ==
  FoldLeft(LAMBDA r, i : LET e == Load(r.p) IN [x |-> Append(r.x, e.x), p |-> e.p],
           [x |-> <<>>, p |-> p + 1], [i \in 1 .. At(d, p) |-> i])

LoadVector(d, p) == LoadList(d, p, LAMBDA q : LoadByte(d, q))

LoadString(d, p) ==
  LET long == At(d, p) = LongMark
      size == IF long THEN At(d, p + 1) ELSE At(d, p)
      from == IF long THEN p + 2 ELSE p + 1 IN
  IF size = 0 THEN [x |-> Null, p |-> from]
  ELSE [x |-> [i \in 1 .. size - 1 |-> At(d, from + i - 1)], p |-> from + size - 1]

LoadConstant(d, p) ==
  LET type == At(d, p)
      text == LoadString(d, p + 1) IN
  CASE type = TNil -> [x |-> [type |-> TNil, value |-> 0], p |-> p + 1]
    [] type = TString -> [x |-> [type |-> TString, value |-> text.x], p |-> text.p]
    [] OTHER -> [x |-> [type |-> type, value |-> At(d, p + 1)], p |-> p + 2]

LoadUpvalue(d, p) ==
  [x |-> [instack |-> At(d, p), idx |-> At(d, p + 1), name |-> Null], p |-> p + 2]

LoadLocal(d, p) ==
  LET name == LoadString(d, p) IN
  [x |-> [name |-> name.x, startpc |-> At(d, name.p), endpc |-> At(d, name.p + 1)], p |-> name.p + 2]

LoadNames(upvalues, names) ==
  [i \in DOMAIN upvalues |->
     IF i \in DOMAIN names THEN [upvalues[i] EXCEPT !.name = names[i]] ELSE upvalues[i]]

RECURSIVE LoadFunction(_, _, _)
LoadProtos(d, p, source) == LoadList(d, p, LAMBDA q : LoadFunction(d, q, source))

LoadFunction(d, p, psource) ==
  LET named == LoadString(d, p)
      source == IF named.x = Null THEN psource ELSE named.x
      code == LoadVector(d, named.p + 1)
      k == LoadList(d, code.p, LAMBDA q : LoadConstant(d, q))
      upvalues == LoadList(d, k.p, LAMBDA q : LoadUpvalue(d, q))
      protos == LoadProtos(d, upvalues.p, source)
      lineinfo == LoadVector(d, protos.p)
      locvars == LoadList(d, lineinfo.p, LAMBDA q : LoadLocal(d, q))
      names == LoadList(d, locvars.p, LAMBDA q : LoadString(d, q)) IN
  [x |-> [source |-> source, head |-> At(d, named.p), code |-> code.x, k |-> k.x,
          upvalues |-> LoadNames(upvalues.x, names.x), protos |-> protos.x,
          lineinfo |-> lineinfo.x, locvars |-> locvars.x],
   p |-> names.p]

\* checkHeader, the number of upvalues, and the function.
Undump(d) ==
  LET f == LoadFunction(d, Len(Header) + 2, Null) IN
  IF ~IsPrefix(Header, d) \/ f.p > Len(d) + 1 THEN Error ELSE f.x

----------------------------------------------------------------------------
(* What the two promise.                                                   *)

RECURSIVE Stripped(_)
Stripped(f) ==
  [f EXCEPT !.source = Null, !.lineinfo = <<>>, !.locvars = <<>>,
            !.upvalues = [i \in DOMAIN @ |-> [@[i] EXCEPT !.name = Null]],
            !.protos = [i \in DOMAIN @ |-> Stripped(@[i])]]

\* What is loaded is the function that was dumped, without its debug data if
\* that was stripped, and no chunk that lacks its last numbers is loaded.
ChunkKeepsFunction(f, strip) ==
  LET d == Dump(f, strip) IN
  /\ Undump(d) = IF strip THEN Stripped(f) ELSE f
  /\ \A n \in 0 .. Len(d) - 1 : Undump(SubSeq(d, 1, n)) = Error
=============================================================================
