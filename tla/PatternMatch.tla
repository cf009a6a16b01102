---------------------------- MODULE PatternMatch ----------------------------
(***************************************************************************)
(* Lua's pattern matching (src/LuaSrc/lstrlib.c), which the interpreter    *)
(* and the debugged programs use: a backtracking matcher that keeps its    *)
(* captures in one structure and must undo them on every way back.         *)
(*                                                                         *)
(* A string is a sequence of characters; the pointers of the C code are    *)
(* positions in it, and the position after the last character reads as     *)
(* the end of the string.                                                  *)
(***************************************************************************)
EXTENDS Integers, SequencesExt

CONSTANTS
  Classes,   \* the letters of the classes (%a) with the characters of each
  UpperOf,   \* the capital of each of those letters: the complement (%A)
  MaxCCalls, \* MAXCCALLS: how deep match may call itself
  MaxCaps    \* LUA_MAXCAPTURES

End == "end"
Char(t, i) == IF i \in DOMAIN t THEN t[i] ELSE End

NoMatch == 0
Failed == -1          \* luaL_error
Unfinished == -1      \* CAP_UNFINISHED
Position == -2        \* CAP_POSITION

\* MatchState: what a match works on and what it has captured.
PrepState(src, pat) == [src |-> src, pat |-> pat, depth |-> MaxCCalls, capture |-> <<>>]
RepPrepState(ms) == [ms EXCEPT !.capture = <<>>]

Result(ms, at) == [at |-> at, ms |-> ms]

----------------------------------------------------------------------------
(* Single characters.                                                      *)

\* The position after the class at p; Failed if the class has no end.
ClassEnd(pat, p) ==
  LET SkipTo[q \in 1 .. Len(pat) + 2] ==   \* past the set's members, from q on
        IF q > Len(pat) THEN Failed
        ELSE LET next == IF pat[q] = "%" /\ q < Len(pat) THEN q + 2 ELSE q + 1 IN
             IF Char(pat, next) = "]" THEN next + 1 ELSE SkipTo[next]
  IN  CASE pat[p] = "%" -> IF p = Len(pat) THEN Failed ELSE p + 2
        [] pat[p] = "[" -> SkipTo[IF Char(pat, p + 1) = "^" THEN p + 2 ELSE p + 1]
        [] OTHER        -> p + 1

MatchClass(c, cl) ==
  IF cl \in DOMAIN Classes THEN c \in Classes[cl]
  ELSE IF \E l \in DOMAIN Classes : UpperOf[l] = cl
  THEN \A l \in DOMAIN Classes : UpperOf[l] = cl => c \notin Classes[l]
  ELSE c = cl

\* The order of characters in a range.
CONSTANT Code
InRange(c, low, high) == Code[low] <= Code[c] /\ Code[c] <= Code[high]

\* Whether c is in the set that begins at p and ends at ec (its "]").
MatchBracketClass(c, pat, p, ec) ==
  LET Member[q \in 1 .. Len(pat) + 2] ==
        /\ q < ec
        /\ IF pat[q] = "%" THEN MatchClass(c, pat[q + 1]) \/ Member[q + 2]
           ELSE IF Char(pat, q + 1) = "-" /\ q + 2 < ec
           THEN InRange(c, pat[q], pat[q + 2]) \/ Member[q + 3]
           ELSE pat[q] = c \/ Member[q + 1]
  IN  IF Char(pat, p + 1) = "^" THEN ~Member[p + 2] ELSE Member[p + 1]

SingleMatch(ms, s, p, ep) ==
  /\ s <= Len(ms.src)
  /\ CASE ms.pat[p] = "." -> TRUE
       [] ms.pat[p] = "%" -> MatchClass(ms.src[s], ms.pat[p + 1])
       [] ms.pat[p] = "[" -> MatchBracketClass(ms.src[s], ms.pat, p, ep - 1)
       [] OTHER           -> ms.pat[p] = ms.src[s]

----------------------------------------------------------------------------
(* Parts of a match that do not go back.                                   *)

CheckCapture(ms, l) == l \in DOMAIN ms.capture /\ ms.capture[l].len # Unfinished

CaptureToClose(ms) == SelectLastInSeq(ms.capture, LAMBDA c : c.len = Unfinished)

\* A balanced text from s on: its end, or NoMatch.
MatchBalance(ms, s, p) ==
  IF p >= Len(ms.pat) THEN Failed
  ELSE IF Char(ms.src, s) # ms.pat[p] THEN NoMatch
  ELSE LET Close[q \in 1 .. Len(ms.src) + 1, open \in 0 .. Len(ms.src)] ==
             IF q > Len(ms.src) THEN NoMatch
             ELSE IF ms.src[q] = ms.pat[p + 1] THEN IF open = 1 THEN q + 1 ELSE Close[q + 1, open - 1]
             ELSE IF ms.src[q] = ms.pat[p] THEN Close[q + 1, open + 1] ELSE Close[q + 1, open]
       IN Close[s + 1, 1]

\* The text of capture l again.
MatchCapture(ms, s, l) ==
  IF ~CheckCapture(ms, l) THEN Failed
  ELSE LET c == ms.capture[l] IN
       IF c.len >= 0 /\ c.len <= Len(ms.src) + 1 - s
          /\ \A i \in 0 .. c.len - 1 : ms.src[c.init + i] = ms.src[s + i]
       THEN s + c.len ELSE NoMatch

\* %f[set]: a step from outside the set into it.
Frontier(ms, s, p, ep) ==
  LET previous == IF s = 1 THEN End ELSE ms.src[s - 1] IN
  /\ ~MatchBracketClass(previous, ms.pat, p, ep - 1)
  /\ MatchBracketClass(Char(ms.src, s), ms.pat, p, ep - 1)

----------------------------------------------------------------------------
(* The matcher: where a match of the pattern from p on, beginning at s,    *)
(* ends, with the captures it has made.                                    *)

RECURSIVE Match(_, _, _), DoMatch(_, _, _), MaxExpand(_, _, _, _, _), MinExpand(_, _, _, _)

\* Mutant: the item is not tried without the last repetition.
MaxExpandTwice(ms, s, i, p, ep) ==
  LET res == Match(ms, s + i, ep + 1) IN
  IF res.at # NoMatch \/ i <= 1 THEN res ELSE Match(ms, s + i - 1, ep + 1)

\* The items repeat from s + i on down to s.
MaxExpand(ms, s, i, p, ep) ==
  LET res == Match(ms, s + i, ep + 1) IN
  IF res.at # NoMatch \/ i = 0 THEN res ELSE MaxExpand(res.ms, s, i - 1, p, ep)

Run(ms, s, p, ep) ==
  LET Longest[i \in 0 .. Len(ms.src)] ==
        IF SingleMatch(ms, s + i, p, ep) THEN Longest[i + 1] ELSE i
  IN  Longest[0]

MinExpand(ms, s, p, ep) ==
  LET res == Match(ms, s, ep + 1) IN
  IF res.at # NoMatch THEN res
  ELSE IF SingleMatch(res.ms, s, p, ep) THEN MinExpand(res.ms, s + 1, p, ep)
  ELSE res

StartCapture(ms, s, p, what) ==
  IF Len(ms.capture) >= MaxCaps THEN Result(ms, Failed)
  ELSE LET res == Match([ms EXCEPT !.capture = Append(@, [init |-> s, len |-> what])], s, p) IN
       IF res.at = NoMatch THEN Result([res.ms EXCEPT !.capture = Front(@)], NoMatch) ELSE res

EndCapture(ms, s, p) ==
  LET l == CaptureToClose(ms) IN
  IF l = 0 THEN Result(ms, Failed)
  ELSE LET res == Match([ms EXCEPT !.capture[l].len = s - ms.capture[l].init], s, p) IN
       IF res.at = NoMatch THEN Result([res.ms EXCEPT !.capture[l].len = Unfinished], NoMatch)
       ELSE res

\* The end of an item that does not go back, and the match of the rest.
Then(ms, at, p) == IF at \in {NoMatch, Failed} THEN Result(ms, at) ELSE DoMatch(ms, at, p)

\* The class from p to ep, which takes the character at s, with its suffix.
Suffixed(ms, s, p, ep, suffix) ==
  CASE suffix = "?" -> LET res == Match(ms, s + 1, ep + 1) IN
                       IF res.at # NoMatch THEN res ELSE DoMatch(res.ms, s, ep + 1)
    [] suffix = "+" -> MaxExpand(ms, s + 1, Run(ms, s + 1, p, ep), p, ep)
    [] suffix = "*" -> MaxExpand(ms, s, Run(ms, s, p, ep), p, ep)
    [] suffix = "-" -> MinExpand(ms, s, p, ep)
    [] OTHER        -> DoMatch(ms, s + 1, ep)

\* The class from p to ep with its suffix.
Default(ms, s, p, ep) ==
  IF ep = Failed THEN Result(ms, Failed)
  ELSE IF SingleMatch(ms, s, p, ep) THEN Suffixed(ms, s, p, ep, Char(ms.pat, ep))
  ELSE IF Char(ms.pat, ep) \in {"*", "?", "-"} THEN DoMatch(ms, s, ep + 1)
  ELSE Result(ms, NoMatch)

Digits == <<"0", "1", "2", "3", "4", "5", "6", "7", "8", "9">>

DoMatch(ms, s, p) ==
  LET c == Char(ms.pat, p)
      d == Char(ms.pat, p + 1) IN
  CASE p > Len(ms.pat) -> Result(ms, s)
    [] c = "(" -> IF d = ")" THEN StartCapture(ms, s, p + 2, Position)
                             ELSE StartCapture(ms, s, p + 1, Unfinished)
    [] c = ")" -> EndCapture(ms, s, p + 1)
    [] c = "$" /\ p = Len(ms.pat) -> Result(ms, IF s = Len(ms.src) + 1 THEN s ELSE NoMatch)
    [] c = "%" /\ d = "b" -> Then(ms, MatchBalance(ms, s, p + 2), p + 4)
    [] c = "%" /\ d = "f" ->
         LET ep == IF Char(ms.pat, p + 2) = "[" THEN ClassEnd(ms.pat, p + 2) ELSE Failed IN
         Then(ms, IF ep = Failed THEN Failed ELSE IF Frontier(ms, s, p + 2, ep) THEN s ELSE NoMatch, ep)
    [] c = "%" /\ (\E l \in DOMAIN Digits : d = Digits[l]) ->
         Then(ms, MatchCapture(ms, s, SelectInSeq(Digits, LAMBDA l : l = d) - 1), p + 2)
    [] OTHER -> Default(ms, s, p, ClassEnd(ms.pat, p))

\* A call of match: its depth is counted until it returns.
Match(ms, s, p) ==
  LET Return(res) == Result([res.ms EXCEPT !.depth = @ + 1], res.at) IN
  IF ms.depth = 0 THEN Result(ms, Failed) ELSE Return(DoMatch([ms EXCEPT !.depth = @ - 1], s, p))

----------------------------------------------------------------------------
(* The functions of the string library.                                    *)

PosRelat(pos, len) == IF pos >= 0 THEN pos ELSE IF -pos > len THEN 0 ELSE len + pos + 1

\* lmemfind: the first place of s2 in s1 from init on, found by its first
\* character; 0 if there is none.
MemFind(s1, init, s2) ==
  LET Search[i \in init .. Len(s1) + 1] ==
        IF i + Len(s2) > Len(s1) + 1 THEN 0
        ELSE IF s1[i] = s2[1] /\ SubSeq(s1, i + 1, i + Len(s2) - 1) = Tail(s2) THEN i
        ELSE Search[i + 1]
  IN  IF s2 = <<>> THEN init ELSE Search[init]

Specials == {"^", "$", "*", "+", "?", ".", "(", "[", "%", "-"}
NoSpecials(pat) == \A i \in DOMAIN pat : pat[i] \notin Specials

\* What push_onecapture pushes: a text, or a position; Failed for a capture
\* that does not exist or has no end.
OneCapture(ms, l, s, e) ==
  IF l \notin DOMAIN ms.capture THEN IF l = 1 THEN SubSeq(ms.src, s, e - 1) ELSE Failed
  ELSE LET c == ms.capture[l] IN
       CASE c.len = Unfinished -> Failed
         [] c.len = Position   -> c.init
         [] OTHER              -> SubSeq(ms.src, c.init, c.init + c.len - 1)

\* With whole, a match without captures gives the whole match.
Captures(ms, s, e, whole) ==
  LET levels == IF ms.capture = <<>> /\ whole THEN 1 ELSE Len(ms.capture) IN
  [l \in 1 .. levels |-> OneCapture(ms, l, s, e)]

\* str_find_aux: where the pattern is found from init on, [from, to, captures];
\* from is NoMatch or Failed otherwise.
Find(src, pattern, init) ==
  LET anchor == Char(pattern, 1) = "^"
      pat == IF anchor THEN Tail(pattern) ELSE pattern
      start == LET i == PosRelat(init, Len(src)) IN IF i < 1 THEN 1 ELSE i
      Tries[s \in start .. Len(src) + 1] ==
        LET Take(res) ==
              IF res.at # NoMatch
              THEN [from |-> IF res.at = Failed THEN Failed ELSE s, to |-> res.at - 1, ms |-> res.ms]
              ELSE IF s = Len(src) + 1 \/ anchor THEN [from |-> NoMatch, to |-> 0, ms |-> res.ms]
              ELSE Tries[s + 1]
        IN  Take(Match(PrepState(src, pat), s, 1))
      plain == MemFind(src, start, pattern) IN
  IF start > Len(src) + 1 THEN [from |-> NoMatch, to |-> 0, ms |-> PrepState(src, pat)]
  ELSE IF NoSpecials(pattern)
  THEN [from |-> plain, to |-> plain + Len(pattern) - 1, ms |-> PrepState(src, pat)]
  ELSE Tries[start]

\* The matches that gmatch gives, one after the other.
GMatches(src, pat) ==
  LET Each[s \in 1 .. Len(src) + 2, last \in 0 .. Len(src) + 1] ==
        IF s > Len(src) + 1 THEN <<>>
        ELSE LET Take(e) ==
                   IF e \notin {NoMatch, Failed, last}
                   THEN <<[from |-> s, to |-> e - 1]>> \o Each[e, e]
                   ELSE IF e = Failed THEN <<>> ELSE Each[s + 1, last]
             IN  Take(Match(PrepState(src, pat), s, 1).at)
  IN  Each[1, 0]

\* str_gsub with a replacement that is a function of the matched text: the
\* result, and the matches that were replaced.
GSub(src, pattern, max, repl) ==
  LET anchor == Char(pattern, 1) = "^"
      pat == IF anchor THEN Tail(pattern) ELSE pattern
      \* The loop at s: what is added to the buffer from there on.
      Go[s \in 1 .. Len(src) + 1, last \in 0 .. Len(src) + 1, n \in 0 .. max] ==
        LET Rest(q) == [text |-> SubSeq(src, q, Len(src)), at |-> <<>>]
            Add(text, at, more) == [text |-> text \o more.text, at |-> at \o more.at]
            Take(e) ==
              IF e \notin {NoMatch, Failed, last}
              THEN Add(repl[SubSeq(src, s, e - 1)], <<[from |-> s, to |-> e - 1]>>,
                       IF anchor THEN Rest(e) ELSE Go[e, e, n + 1])
              ELSE IF s <= Len(src) /\ ~anchor THEN Add(<<src[s]>>, <<>>, Go[s + 1, last, n])
              ELSE Rest(s)
        IN  IF n = max THEN Rest(s) ELSE Take(Match(PrepState(src, pat), s, 1).at)
  IN  Go[1, 0, 0]
=============================================================================
