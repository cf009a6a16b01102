--------------------------- MODULE PatternMeaning ---------------------------
(***************************************************************************)
(* What a pattern means, without a way to match it: a list of items, each  *)
(* with the texts it may take, and the order in which a pattern prefers    *)
(* them (src/LuaSrc/lstrlib.c has no such list: PatternMatch, its matcher, *)
(* is compared with this one).                                             *)
(***************************************************************************)
EXTENDS PatternMatch

\* An item: [kind, text, chars, suffix]; chars is what a single item takes.
Single(text, chars, suffix) ==
  [kind |-> "single", text |-> text \o suffix, chars |-> chars, suffix |-> suffix]
Mark(kind, text) == [kind |-> kind, text |-> text, chars |-> {}, suffix |-> <<>>]

Open == Mark("open", <<"(">>)
Here == Mark("here", <<"(", ")">>)
Close == Mark("close", <<")">>)
Again == Mark("again", <<"%", "1">>)
AtEnd == Mark("end", <<"$">>)
Balanced(b, e) == [Mark("balance", <<"%", "b", b, e>>) EXCEPT !.suffix = <<b, e>>]
Border(text, chars) == [Mark("border", <<"%", "f">> \o text) EXCEPT !.chars = chars]

Text(items) == FlattenSeq([i \in DOMAIN items |-> items[i].text])

\* Every "(" is closed behind something, and %1 comes after the end of the first capture.
WellFormed(items) ==
  LET Count(kind, n) == Len(SelectSeq(SubSeq(items, 1, n), LAMBDA it : it.kind = kind)) IN
  /\ Count("open", Len(items)) = Count("close", Len(items))
  /\ \A n \in DOMAIN items :
       /\ Count("close", n) <= Count("open", n)
       /\ items[n].kind = "again" =>
            /\ Count("open", n) + Count("here", n) > 0
            /\ Count("close", n) = Count("open", n)
       /\ items[n].kind = "end" => n = Len(items)
       /\ items[n].kind = "close" => items[n - 1].kind # "open"   \* "()" is Here

\* How far a single item may go from s on.
MostOf(src, item, s) ==
  CHOOSE n \in 0 .. Len(src) + 1 - s :
    /\ \A k \in 0 .. n - 1 : src[s + k] \in item.chars
    /\ n = Len(src) + 1 - s \/ src[s + n] \notin item.chars

\* The counts an item may take, in the order it prefers.
Counts(item, most) ==
  CASE item.suffix = <<>>    -> IF most >= 1 THEN <<1>> ELSE <<>>
    [] item.suffix = <<"?">> -> IF most >= 1 THEN <<1, 0>> ELSE <<0>>
    [] item.suffix = <<"*">> -> [k \in 1 .. most + 1 |-> most + 1 - k]
    [] item.suffix = <<"+">> -> [k \in 1 .. most |-> most + 1 - k]
    [] item.suffix = <<"-">> -> [k \in 1 .. most + 1 |-> k - 1]

\* The shortest balanced text from s on.
BalancedEnds(src, s, b, e) ==
  LET Depth(n) == Cardinality({k \in s .. n : src[k] = b /\ b # e})
                  - Cardinality({k \in s + 1 .. n : src[k] = e})
      Full(n) == IF b = e THEN src[n] = e ELSE Depth(n) = 0 IN
  {n \in s + 1 .. Len(src) : src[s] = b /\ Full(n) /\ \A m \in s + 1 .. n - 1 : ~Full(m)}

\* All the ways in which the items take a text that begins at s, the preferred
\* one first: [at, capture].
RECURSIVE Ways(_, _, _, _)
Ways(src, items, s, capture) ==
  IF items = <<>> THEN << [at |-> s, capture |-> capture] >>
  ELSE
    LET item == Head(items)
        Rest(at, c) == Ways(src, Tail(items), at, c)
        open == SelectLastInSeq(capture, LAMBDA c : c.len = Unfinished) IN
    CASE item.kind = "single" ->
           FlattenSeq([k \in DOMAIN Counts(item, MostOf(src, item, s)) |->
                         Rest(s + Counts(item, MostOf(src, item, s))[k], capture)])
      [] item.kind = "open" -> Rest(s, Append(capture, [init |-> s, len |-> Unfinished]))
      [] item.kind = "here" -> Rest(s, Append(capture, [init |-> s, len |-> Position]))
      [] item.kind = "close" -> Rest(s, [capture EXCEPT ![open].len = s - capture[open].init])
      [] item.kind = "again" ->
           IF /\ capture[1].len >= 0
              /\ s + capture[1].len <= Len(src) + 1
              /\ SubSeq(src, s, s + capture[1].len - 1)
                   = SubSeq(src, capture[1].init, capture[1].init + capture[1].len - 1)
           THEN Rest(s + capture[1].len, capture) ELSE <<>>
      [] item.kind = "end" -> IF s = Len(src) + 1 THEN Rest(s, capture) ELSE <<>>
      [] item.kind = "balance" ->
           IF s > Len(src) THEN <<>>
           ELSE FlattenSeq([k \in 1 .. Cardinality(BalancedEnds(src, s, item.suffix[1], item.suffix[2])) |->
                  Rest(1 + CHOOSE n \in BalancedEnds(src, s, item.suffix[1], item.suffix[2]) : TRUE, capture)])
      [] item.kind = "border" ->
           IF /\ (IF s = 1 THEN End ELSE src[s - 1]) \notin item.chars
              /\ Char(src, s) \in item.chars
           THEN Rest(s, capture) ELSE <<>>

----------------------------------------------------------------------------
(* What the string library promises, for a subject and a list of items.    *)

\* found is the first of the ways from the first place that has one.
IsPreferred(found, all, place) ==
  IF place = 0 THEN found.from = NoMatch
  ELSE /\ found.from = place
       /\ found.to = all[place][1].at - 1
       /\ found.ms.capture = all[place][1].capture

FirstPlace(all) == SelectInSeq(all, LAMBDA w : w # <<>>)

\* The matcher finds the preferred way from the first place that has one, with
\* its captures, unless match has called itself too often.
FindsPreferred(src, items) ==
  LET Agrees(found, all) ==
        \/ found.from = Failed /\ MaxCCalls < 2 * Len(items)
        \/ IsPreferred(found, all, FirstPlace(all))
  IN  Agrees(Find(src, Text(items), 1), [s \in 1 .. Len(src) + 1 |-> Ways(src, items, s, <<>>)])

\* A match that fails leaves the matcher as it was, whatever it has tried:
\* its captures undone, its depth given back (lua_assert in reprepstate).
FailureUndone(src, items) ==
  LET ms == PrepState(src, Text(items))
      Undone(res) ==
        /\ res.at = NoMatch => res.ms = ms
        /\ res.at # Failed => res.ms.depth = MaxCCalls
  IN  \A s \in 1 .. Len(src) + 1 : Undone(Match(ms, s, 1))

\* Replacing every match by itself gives the subject; gsub and gmatch find the
\* same matches, in order and apart from each other, each of them at most once.
MatchesPartition(src, items) ==
  LET itself == [t \in {SubSeq(src, i, j) : i \in 1 .. Len(src) + 1, j \in 0 .. Len(src)} |-> t]
      Agree(found, replaced) ==
        /\ replaced.text = src
        /\ replaced.at = found
        /\ \A i, j \in DOMAIN found :
             i < j => found[i].to < found[j].from /\ found[i].from # found[j].from
  IN  Agree(GMatches(src, Text(items)), GSub(src, Text(items), Len(src) + 1, itself))
=============================================================================
