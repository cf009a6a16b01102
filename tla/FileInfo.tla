------------------------------ MODULE FileInfo ------------------------------
(***************************************************************************)
(* file_info (src/Src/luadebug_file_info.cpp): which lines of a source     *)
(* file a breakpoint may be set on.                                        *)
(*                                                                         *)
(* Lua tells the lines that have code of a chunk's own function only.  The *)
(* lines between those, the bodies of its functions, are cut out of the    *)
(* buffer and compiled as chunks of their own, and so on; what does not    *)
(* compile is tried again without its first line.                          *)
(*                                                                         *)
(* A line is one of "code", "blank", "if", "function" (an opening line     *)
(* with code of its own), "local" (one without: local function) and "end". *)
(* Lines are counted from 0.                                               *)
(***************************************************************************)
EXTENDS Integers, SequencesExt, FiniteSetsExt

Opens == {"if", "function", "local"}
Heads == {"function", "local"}

----------------------------------------------------------------------------
(* What Lua's compiler makes of a text: external to file_info.             *)

\* The openings around line n, the last one the innermost.
Around(text, n) ==
  FoldLeft(LAMBDA open, i :
             CASE text[i] \in Opens -> Append(open, i)
               [] text[i] = "end" /\ open # <<>> -> Front(open)
               [] OTHER -> open,
           <<>>, [i \in 1 .. n |-> i])

InFunction(text, n) == \E i \in Range(Around(text, n)) : text[i] \in Heads

Compiles(text) ==
  /\ Around(text, Len(text)) = <<>>
  /\ \A n \in DOMAIN text : text[n] = "end" => Around(text, n - 1) # <<>>

Closes(text, n) == text[n] = "end" /\ text[Last(Around(text, n - 1))] \in Heads

\* The lines of the text's own function that have code: a function's end, where
\* it becomes a value, and the last line, where the chunk returns.
ActiveLines(text) ==
  LET last == SelectLastInSeq(text, LAMBDA kind : kind # "blank") IN
  {n \in DOMAIN text :
     \/ text[n] \in {"code", "if", "function"} /\ ~InFunction(text, n - 1)
     \/ Closes(text, n) /\ ~InFunction(text, n)
     \/ n = last}

----------------------------------------------------------------------------
(* file_info.                                                              *)

\* What is read of the lines start .. finish - 1: up to the first at which the
\* buffer has been cut and, after an error, not been restored.
Portion(lines, cut, start, finish) ==
  LET ends == {n \in cut : start <= n /\ n < finish} IN
  SubSeq(lines, start + 1, IF ends = {} THEN finish ELSE Min(ends))

RECURSIVE CheckCodeBuffer(_, _, _, _, _)

\* The portions between the active lines; an active line is valid.  Nothing
\* behind the last one is looked at.
CheckBetween(lines, at, text, start, recur) ==
  LET active == SelectSeq([n \in DOMAIN text |-> n], LAMBDA n : n \in ActiveLines(text)) IN
  FoldLeft(LAMBDA r, n :
             LET line == start + n - 1 IN
             [at |-> CheckCodeBuffer(lines, r.at, r.from, line, recur + 1).at, from |-> line + 1],
           [at |-> [at EXCEPT !.valid = @ \cup {start + n - 1 : n \in Range(active)}], from |-> start],
           active).at

\* Mutant: a text that does not compile is given up.
CheckCodeBufferOnce(lines, at, start, finish, recur) ==
  LET text == Portion(lines, at.cut, start, finish) IN
  IF finish <= start \/ ~Compiles(text) THEN [at |-> at, found |-> FALSE]
  ELSE [at |-> CheckBetween(lines, at, text, start, recur),
        found |-> ActiveLines(text) # {}]

\* _check_code_buffer: at is [valid, cut]; found is whether the portion has
\* code.  A portion of blank lines has none (its chunk returns on the filler's
\* line).
CheckCodeBuffer(lines, at, start, finish, recur) ==
  LET text == Portion(lines, at.cut, start, finish)
      broken == [at EXCEPT !.cut = @ \cup {finish}]
      shorter == CheckCodeBuffer(lines, broken, start + 1, finish, recur + 1) IN
  CASE finish <= start -> [at |-> at, found |-> FALSE]
    [] finish > start /\ Compiles(text) ->
         [at |-> CheckBetween(lines, at, text, start, recur),
          found |-> ActiveLines(text) # {}]
    [] finish > start /\ ~Compiles(text) /\ recur = 0 -> [at |-> broken, found |-> FALSE]
    [] OTHER ->
         [at |-> [shorter.at EXCEPT !.valid = IF shorter.found THEN @ \cup {start} ELSE @],
          found |-> FALSE]

\* _update_file_info
ValidLines(lines) ==
  CheckCodeBuffer(lines, [valid |-> {}, cut |-> {}], 0, Len(lines), 0).at.valid

----------------------------------------------------------------------------
(* What is_line_valid promises.                                            *)

\* The lines of a file on which some function of it has code.
LinesWithCode(lines) ==
  {n \in DOMAIN lines :
     \/ lines[n] \in {"code", "if", "function"}
     \/ Closes(lines, n)
     \/ n \in ActiveLines(lines)}

\* In a file that compiles every line with code is valid, however deep the
\* function it is in, and no blank line is: the only valid lines without code
\* are those a local function begins on and the ends of an if.
BreakpointsWhereCodeIs(lines) ==
  Compiles(lines) =>
    LET valid == {n + 1 : n \in ValidLines(lines)} IN
    /\ LinesWithCode(lines) \subseteq valid
    /\ \A n \in valid \ LinesWithCode(lines) : lines[n] \in {"local", "end"}
=============================================================================
