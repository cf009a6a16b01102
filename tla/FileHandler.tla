----------------------------- MODULE FileHandler -----------------------------
(***************************************************************************)
(* lua::library::file_handler and io_handler: the files a Lua program       *)
(* opens, what a call does to position and content, and when the object    *)
(* behind a file is deleted.                                               *)
(*                                                                         *)
(* Every call holds the object's critical section and is one step.  The    *)
(* system's files are external: CreateFile gives a file to one handler at  *)
(* a time (share mode 0).  A call that fails returns nil and an error and  *)
(* changes nothing; it is left out.  Pipes are left out.                   *)
(***************************************************************************)
EXTENDS Integers, Sequences, SequencesExt

CONSTANTS
  Handlers,  \* file_handler objects
  Files,     \* names the program opens
  Temps,     \* names create_random_name may give
  Modes,     \* open_op flags the program opens its files with
  Strings,   \* what it writes; sequences of characters
  MaxLen,    \* bound: file -> its length
  Missing    \* the content of a file that does not exist

NL == "nl"
StdOut == "stdout"

ASSUME FileAssumption ==
  /\ Files # {} /\ Files \cap Temps = {} /\ StdOut \notin Handlers
  /\ Modes \subseteq SUBSET {"write", "special", "append", "automatic_close"}
  /\ <<>> \in Strings
  /\ MaxLen \in [Files \cup Temps -> Nat]

VARIABLES
  disk,       \* file -> its content, or Missing
  stage,      \* handler -> none, open, closed or deleted
  file,       \* handler -> _file_path
  op,         \* handler -> _op_code
  pos,        \* handler -> the file pointer
  least,      \* handler -> _minimal_write_offset
  buffering,  \* handler -> _buffering_mode
  dirty,      \* handler -> it has written what is not flushed
  taken,      \* history: what was read from the first byte on, without line ends
  anchored,   \* handlers whose table the metadata table holds
  held,       \* handlers whose table the program can reach
  iterators,  \* handlers of which the program has an iterator, made by lines
  output      \* the handler of io's default output

where == <<pos, taken>>
reach == <<anchored, held, iterators, output>>
fileVars == <<disk, stage, file, op, pos, least, buffering, dirty, taken, anchored,
          held, iterators, output>>

FilesInit ==
  /\ disk \in [Files \cup Temps -> {<<>>, Missing}]
  /\ \A f \in Temps : disk[f] = Missing
  /\ stage = [h \in Handlers |-> "none"]
  /\ file \in [Handlers -> {CHOOSE f \in Files : TRUE}]
  /\ op = [h \in Handlers |-> {}]
  /\ pos = [h \in Handlers |-> 0] /\ least = [h \in Handlers |-> 0]
  /\ buffering = [h \in Handlers |-> "no"] /\ dirty = [h \in Handlers |-> FALSE]
  /\ taken = [h \in Handlers |-> <<>>]
  /\ anchored = {} /\ held = {} /\ iterators = {} /\ output = StdOut

-----------------------------------------------------------------------------
(* Helpers. *)

Opened(h) == stage[h] = "open"
Text(h) == disk[file[h]]
Larger(i, j) == IF i > j THEN i ELSE j
Smaller(i, j) == IF i < j THEN i ELSE j
WithoutEnds(s) ==
  LET kept[i \in 0..Len(s)] ==
        IF i = 0 THEN <<>> ELSE IF s[i] = NL THEN kept[i - 1] ELSE Append(kept[i - 1], s[i])
  IN kept[Len(s)]
InUse(f) == \E h \in Handlers : Opened(h) /\ file[h] = f

\* can_write; a handle that may write was created without the right to read.
CanWrite(h) == op[h] \cap {"write", "append", "special"} # {}
CanRead(h) == op[h] \cap {"write", "append", "special"} = {}

\* The pointer of h goes to p, the content being s; what lies before counts as read.
Moves(h, p, s) ==
  /\ pos' = [pos EXCEPT ![h] = p]
  /\ taken' = [taken EXCEPT ![h] = WithoutEnds(SubSeq(s, 1, Smaller(p, Len(s))))]

\* What CreateFile and the constructor make of the flags.
Flags(m) ==
  m \cup (IF "temporary" \in m THEN {"write", "special"} ELSE {})
    \cup (IF "append" \in m THEN {"preserve"} ELSE {})

\* The content is thrown away.
Truncates(m) == "write" \in Flags(m) /\ "preserve" \notin Flags(m)

-----------------------------------------------------------------------------
(* Opening, closing, deleting. *)

\* on_object_added: the metadata table holds the table of the file.
Anchors(h) == anchored' = anchored \cup {h}

\* The constructor with file f, and the table made for it.
Creates(h, f, m) ==
  LET s == IF disk[f] = Missing \/ Truncates(m) THEN <<>> ELSE disk[f]
  IN /\ stage[h] = "none" /\ ~InUse(f)
     /\ disk[f] = Missing => "write" \in Flags(m)
     /\ disk' = [disk EXCEPT ![f] = s]
     /\ stage' = [stage EXCEPT ![h] = "open"]
     /\ file' = [file EXCEPT ![h] = f]
     /\ op' = [op EXCEPT ![h] = Flags(m)]
     /\ least' = [least EXCEPT ![h] = IF "append" \in m THEN Len(s) ELSE 0]
     /\ Anchors(h)
     /\ UNCHANGED <<pos, taken, buffering, dirty, output>>

\* io.open
Open(h) ==
  /\ \E f \in Files, m \in Modes : Creates(h, f, m)
  /\ held' = held \cup {h}
  /\ UNCHANGED iterators

\* io.tmpfile
TmpFile(h) ==
  /\ \E f \in Temps : Creates(h, f, {"temporary"})
  /\ held' = held \cup {h}
  /\ UNCHANGED iterators

\* io.lines(name) keeps the iterator alone.
IoLines(h) ==
  /\ \E f \in Files : Creates(h, f, {"automatic_close"})
  /\ iterators' = iterators \cup {h}
  /\ UNCHANGED held

\* The handle and with it the pointer is gone.
ClosesHandle(h) ==
  /\ pos' = [pos EXCEPT ![h] = 0]
  /\ taken' = [taken EXCEPT ![h] = <<>>]
  /\ dirty' = [dirty EXCEPT ![h] = FALSE]  \* flush

\* The object is gone, with what its members held.
Deletes(h) ==
  /\ op' = [op EXCEPT ![h] = {}]
  /\ least' = [least EXCEPT ![h] = 0]
  /\ buffering' = [buffering EXCEPT ![h] = "no"]

\* A temporary file is deleted when it is closed.
ClosedContent(h) ==
  IF "temporary" \in op[h] THEN [disk EXCEPT ![file[h]] = Missing] ELSE disk

Closes(h) ==
  /\ disk' = ClosedContent(h)
  /\ stage' = [stage EXCEPT ![h] = "closed"]
  /\ ClosesHandle(h)
  /\ anchored' = anchored \ {h}  \* _delete_object_table
  /\ UNCHANGED <<file, op, least, buffering, held, iterators, output>>

\* f:close and io.close(f).  io.close() calls close without the file, which fails.
Close(h) == h \in held /\ Opened(h) /\ Closes(h)

\* The collector finds the table unreachable: __gc deletes the object, whose
\* destructor closes the file.
CollectFile(h) ==
  /\ stage[h] \in {"open", "closed"}
  /\ h \notin anchored \cup held \cup {output}
  /\ stage' = [stage EXCEPT ![h] = "deleted"]
  /\ disk' = IF Opened(h) THEN ClosedContent(h) ELSE disk
  /\ ClosesHandle(h) /\ Deletes(h)
  /\ UNCHANGED <<file, reach>>

\* lua_close: every object left is deleted.
CloseState ==
  /\ \E h \in Handlers : stage[h] \in {"open", "closed"}
  /\ stage' = [h \in Handlers |-> IF stage[h] = "none" THEN "none" ELSE "deleted"]
  /\ disk' = [f \in DOMAIN disk |->
                IF \E h \in Handlers : Opened(h) /\ file[h] = f /\ "temporary" \in op[h]
                THEN Missing ELSE disk[f]]
  /\ pos' = [h \in Handlers |-> 0] /\ taken' = [h \in Handlers |-> <<>>]
  /\ dirty' = [h \in Handlers |-> FALSE]
  /\ anchored' = {} /\ held' = {} /\ iterators' = {} /\ output' = StdOut
  /\ UNCHANGED <<file, op, least, buffering>>

-----------------------------------------------------------------------------
(* Reading. *)

\* Length of the line and of the line ends at the pointer.
LineLength(h) ==
  LET rest == SubSeq(Text(h), pos[h] + 1, Len(Text(h)))
  IN IF NL \in ToSet(rest) THEN SelectInSeq(rest, LAMBDA c : c = NL) - 1 ELSE Len(rest)

SkippedFrom(s, p) ==
  CHOOSE q \in p..Len(s) :
    /\ \A i \in (p + 1)..q : s[i] = NL
    /\ q < Len(s) => s[q + 1] # NL

\* Mutant: every line end is taken for two characters.
SkipsTwo(h, k) == Smaller(pos[h] + k + 2, Len(Text(h)))

\* _skip_str after a line of k characters: every line end that follows.
Skips(h, k) == SkippedFrom(Text(h), pos[h] + k)

\* k characters are handed over and the pointer goes to p.
HandsOver(h, k, p) ==
  /\ pos' = [pos EXCEPT ![h] = p]
  /\ taken' = [taken EXCEPT ![h] =
                 @ \o WithoutEnds(SubSeq(Text(h), pos[h] + 1, pos[h] + k))]
  /\ UNCHANGED <<disk, stage, file, op, least, buffering, dirty, reach>>

AtEnd(h) == pos[h] = Len(Text(h))

\* The dummy read of read: it closes a file opened for io.lines at its end.
ReadAtEnd(h) == Opened(h) /\ AtEnd(h) /\ "automatic_close" \in op[h] /\ Closes(h)

\* f:read() and io.read() without a format: a line, without its end.
ReadLine(h) ==
  /\ h \in held /\ Opened(h) /\ CanRead(h) /\ ~AtEnd(h)
  /\ HandsOver(h, LineLength(h), Skips(h, LineLength(h)))

\* The iterator, f:read(format) and io.type: with arguments read makes its
\* dummy read and returns nothing, as it runs over a list it has left empty.
\* An iterator of a deleted object has an invalid pointer; that is not modelled.
\* (Only an iterator leads to a file that io.lines has opened.)
ReadFormat(h) == h \in iterators /\ ReadAtEnd(h)

\* read(buffer, n) of the C++ interface.
ReadBuffer(h) ==
  /\ h \in held /\ Opened(h) /\ CanRead(h) /\ ~AtEnd(h)
  /\ \E n \in 1..MaxLen[file[h]] :
       LET k == Smaller(n, Len(Text(h)) - pos[h]) IN HandsOver(h, k, pos[h] + k)

-----------------------------------------------------------------------------
(* Seeking and writing. *)

\* The position is brought into the file.
Clamped(h, p) == Smaller(Larger(p, 0), Len(Text(h)))

\* f:seek(whence, offset)
Seek(h) ==
  /\ h \in held /\ Opened(h)
  /\ \E pivot \in {0, pos[h], Len(Text(h))}, offset \in {-1, 0, 1} :
       Moves(h, Clamped(h, pivot + offset), Text(h))
  /\ UNCHANGED <<disk, stage, file, op, least, buffering, dirty, reach>>

\* _check_write_pos: an appending handler does not write before its offset.
WritePos(h) == IF pos[h] < least[h] THEN Smaller(least[h], Len(Text(h))) ELSE pos[h]

\* What a write of s leaves unflushed.
KeepsDirty(h, s) ==
  \/ buffering[h] = "full" /\ (s # <<>> \/ dirty[h])
  \/ buffering[h] = "line" /\ NL \notin ToSet(s) /\ (s # <<>> \/ dirty[h])

Written(h, s) ==
  LET p == WritePos(h)
  IN SubSeq(Text(h), 1, p) \o s \o SubSeq(Text(h), p + Len(s) + 1, Len(Text(h)))

\* write(buffer, size), by f:write(s) and io.write(s).  A number given to
\* f:write is written as an empty string.
Writes(h, s) ==
  /\ Opened(h) /\ CanWrite(h) /\ Len(Written(h, s)) <= MaxLen[file[h]]
  /\ disk' = [disk EXCEPT ![file[h]] = Written(h, s)]
  /\ Moves(h, WritePos(h) + Len(s), Written(h, s))
  /\ dirty' = [dirty EXCEPT ![h] = KeepsDirty(h, s)]
  /\ held' = held \cup {h}  \* the file is the result
  /\ UNCHANGED <<stage, file, op, least, buffering, anchored, iterators, output>>

Write(h) == h \in held \cup {output} /\ \E s \in Strings : Writes(h, s)

\* f:flush.  io.flush calls flush without the file, which fails.
Flush(h) ==
  /\ h \in held /\ Opened(h)
  /\ dirty' = [dirty EXCEPT ![h] = FALSE]
  /\ UNCHANGED <<disk, stage, file, op, where, least, buffering, reach>>

\* f:setvbuf
SetVBuf(h) ==
  /\ h \in held /\ Opened(h)
  /\ \E m \in {"no", "full", "line"} : buffering' = [buffering EXCEPT ![h] = m]
  /\ UNCHANGED <<disk, stage, file, op, where, least, dirty, reach>>

-----------------------------------------------------------------------------
(* The program's references. *)

\* f:lines() makes an iterator that holds the metadata table, not the file.
Lines(h) ==
  /\ h \in held /\ Opened(h)
  /\ iterators' = iterators \cup {h}
  /\ UNCHANGED <<disk, stage, file, op, where, least, buffering, dirty, anchored, held, output>>

\* io.output(f)
Output(h) ==
  /\ h \in held
  /\ output' = h
  /\ UNCHANGED <<disk, stage, file, op, where, least, buffering, dirty, anchored, held, iterators>>

\* The program forgets a file or an iterator.
Drop(h) ==
  /\ \/ h \in held /\ held' = held \ {h} /\ UNCHANGED iterators
     \/ h \in iterators /\ iterators' = iterators \ {h} /\ UNCHANGED held
  /\ UNCHANGED <<disk, stage, file, op, where, least, buffering, dirty, anchored, output>>

FilesNext ==
  \/ \E h \in Handlers :
       \/ Open(h) \/ TmpFile(h) \/ IoLines(h) \/ Close(h) \/ CollectFile(h)
       \/ ReadLine(h) \/ ReadFormat(h) \/ ReadBuffer(h)
       \/ Seek(h) \/ Write(h) \/ Flush(h) \/ SetVBuf(h)
       \/ Lines(h) \/ Output(h) \/ Drop(h)
  \/ CloseState

FilesSpec == FilesInit /\ [][FilesNext]_fileVars

-----------------------------------------------------------------------------
(* Properties. *)

\* The variables have the values of the members they model.
FilesTypeOK ==
  /\ \A f \in Files \cup Temps : disk[f] = Missing \/ Len(disk[f]) <= MaxLen[f]
  /\ stage \in [Handlers -> {"none", "open", "closed", "deleted"}]
  /\ file \in [Handlers -> Files \cup Temps]
  /\ least \in [Handlers -> Nat]
  /\ buffering \in [Handlers -> {"no", "full", "line"}] /\ dirty \in [Handlers -> BOOLEAN]
  /\ anchored \cup held \cup iterators \subseteq Handlers /\ output \in Handlers \cup {StdOut}

\* What a program reads, in lines and pieces, between seeks and writes, is the
\* file up to the pointer; nothing but line ends is lost.
NothingLost ==
  \A h \in Handlers :
    Opened(h) => taken[h] = WithoutEnds(SubSeq(Text(h), 1, pos[h]))

\* What a file held when it was opened for append is never changed through
\* that handler, wherever the program seeks before it writes.
AppendKeeps ==
  [][\A h \in Handlers :
       Opened(h) /\ "append" \in op[h] =>
         SubSeq(disk'[file[h]], 1, least[h]) = SubSeq(Text(h), 1, least[h])]_fileVars

\* A temporary file is on the disk exactly as long as it is open.
TemporaryWhileOpen ==
  \A f \in Temps :
    disk[f] # Missing <=> \E h \in Handlers : Opened(h) /\ file[h] = f

\* What is written is flushed when the call returns if the file is not
\* buffered, and at the end of a line if it is line buffered.
FlushedInTime ==
  [][\A h \in Handlers :
       disk'[file[h]] # disk[file[h]] /\ dirty'[h] =>
         buffering[h] # "no" /\ (buffering[h] = "line" => disk'[file[h]][pos'[h]] # NL)]_fileVars

\* An open file is not collected, however unreachable it is to the program: it
\* goes when it has been closed or with the state.
OpenFileStays ==
  [][\A h \in Handlers : Opened(h) /\ stage'[h] = "deleted" => anchored' = {} /\ held' = {}]_fileVars

\* "whenever the actual object is deleted, the referenced table's data can be
\* cleared": an iterator has no deleted object.  The code clears nothing.
IteratorOfLive == \A h \in iterators : stage[h] # "deleted"
=============================================================================
