----------------------------- MODULE PackFormat -----------------------------
(***************************************************************************)
(* string.pack and string.unpack (src/LuaSrc/lstrlib.c): integers and      *)
(* strings as bytes, in a given size, order and alignment.                 *)
(*                                                                         *)
(* A byte has NB bits and a Lua integer SZINT bytes; integers are kept to  *)
(* that width as the C code keeps them, so that an overflow, a lost sign   *)
(* or a byte too few shows.  A format is a sequence of options             *)
(* [kind, size]; the letters are read in getoption.                        *)
(***************************************************************************)
EXTENDS Integers, SequencesExt

CONSTANTS
  NB,         \* bits in a byte
  SZINT,      \* bytes in a lua_Integer, and in a size_t
  MaxIntSize, \* MAXINTSIZE: bytes in the longest integer option
  Error       \* what a call that raises an error gives

Pow(n) == 2 ^ n
Byte == Pow(NB)
Word == Pow(NB * SZINT)

Unsigned(n) == n % Word                                  \* (lua_Unsigned)n
Signed(n) == IF n >= Word \div 2 THEN n - Word ELSE n    \* (lua_Integer)n

----------------------------------------------------------------------------
(* Options.                                                                *)

\* Header: the byte order and the largest alignment.
InitHeader == [little |-> TRUE, maxalign |-> 1]

\* getoption: the options that only set the header, and getnumlimit's check of
\* the sizes an option may have.
SetHeader(h, option) ==
  CASE option.kind = "<" -> [h EXCEPT !.little = TRUE]
    [] option.kind = ">" -> [h EXCEPT !.little = FALSE]
    [] option.kind = "!" -> [h EXCEPT !.maxalign = option.size]
    [] OTHER -> h

Limited == {"int", "uint", "string", "!"}
SizeInLimits(option) == option.kind \in Limited => option.size \in 1 .. MaxIntSize

IsPowerOf2(n) == \E k \in 0 .. n : Pow(k) = n

\* The size an option has to be aligned: that of "!" is no size.
Width(option) == IF option.kind \in {"int", "uint", "char", "string", "pad"} THEN option.size ELSE 0

\* getdetails: the padding that aligns the option at a position (from 0 on);
\* an "X" is aligned like the option after it, which it uses up.
Details(h, total, option, next) ==
  LET align == IF option.kind = "X" THEN Width(next) ELSE Width(option)
      most == IF align > h.maxalign THEN h.maxalign ELSE align IN
  CASE ~SizeInLimits(option) \/ (option.kind = "X" /\ (next.kind = "char" \/ align = 0)) -> Error
    [] align <= 1 \/ option.kind = "char" -> 0
    [] ~IsPowerOf2(most) -> Error
    [] OTHER -> (most - (total % most)) % most

NoOption == [kind |-> "char", size |-> 0]
NextOption(fmt) == IF Len(fmt) > 1 THEN fmt[2] ELSE NoOption
After(fmt) == IF Head(fmt).kind = "X" THEN SubSeq(fmt, 3, Len(fmt)) ELSE Tail(fmt)
TakesValue(option) == option.kind \in {"int", "uint", "char", "string", "zstr"}

----------------------------------------------------------------------------
(* Integers.                                                               *)

Order(bytes, little) == IF little THEN bytes ELSE Reverse(bytes)
Zeros(n) == [i \in 1 .. n |-> 0]

\* Mutant: the bytes above the integer's are zero.
PackIntShort(n, little, size, neg) ==
  Order([i \in 1 .. size |-> (n \div Pow(NB * (i - 1))) % Byte], little)

\* packint: the integer's bytes, then the bytes of its sign.
PackInt(n, little, size, neg) ==
  Order([i \in 1 .. size |-> IF neg /\ i > SZINT THEN Byte - 1
                                  ELSE (n \div Pow(NB * (i - 1))) % Byte], little)

\* unpackint: the value of the bytes, with its sign; bytes above a Lua integer
\* may hold nothing but that sign.
UnpackInt(bytes, little, issigned) ==
  LET b == Order(bytes, little)
      size == Len(b)
      limit == IF size <= SZINT THEN size ELSE SZINT
      Value[i \in 0 .. limit] == IF i = 0 THEN 0 ELSE Value[i - 1] + b[i] * Pow(NB * (i - 1))
      res == Value[limit]
      half == Pow(size * NB - 1)
      above == IF issigned /\ Signed(res) < 0 THEN Byte - 1 ELSE 0 IN
  IF size < SZINT
  THEN IF issigned /\ res >= half THEN res - 2 * half ELSE res
  ELSE IF \A i \in limit + 1 .. size : b[i] = above THEN Signed(res) ELSE Error

----------------------------------------------------------------------------
(* str_pack: the bytes of the values, or an error.                         *)

\* Whether an argument passes the option's check.
Fits(option, x) ==
  CASE option.kind = "int" -> option.size < SZINT =>
         LET lim == Pow(option.size * NB - 1) IN -lim <= x /\ x < lim
    [] option.kind = "uint" -> option.size < SZINT => Unsigned(x) < Pow(option.size * NB)
    [] option.kind = "char" -> Len(x) <= option.size
    [] option.kind = "string" -> option.size >= SZINT \/ Len(x) < Pow(option.size * NB)
    [] option.kind = "zstr" -> \A i \in DOMAIN x : x[i] # 0

PackOne(h, option, x) ==
  CASE option.kind = "int" -> PackInt(Unsigned(x), h.little, option.size, x < 0)
    [] option.kind = "uint" -> PackInt(Unsigned(x), h.little, option.size, FALSE)
    [] option.kind = "char" -> x \o Zeros(option.size - Len(x))
    [] option.kind = "string" -> PackInt(Len(x), h.little, option.size, FALSE) \o x
    [] option.kind = "zstr" -> x \o <<0>>

RECURSIVE Pack(_, _, _, _)
Pack(h, fmt, args, done) ==
  IF fmt = <<>> THEN done
  ELSE
    LET option == Head(fmt)
        pad == Details(h, Len(done), option, NextOption(fmt)) IN
    IF pad = Error THEN Error
    ELSE
      LET aligned == done \o Zeros(pad) IN
      CASE TakesValue(option) ->
             IF args = <<>> \/ ~Fits(option, Head(args)) THEN Error
             ELSE Pack(h, After(fmt), Tail(args), aligned \o PackOne(h, option, Head(args)))
        [] option.kind = "pad" -> Pack(h, After(fmt), args, aligned \o <<0>>)
        [] OTHER -> Pack(SetHeader(h, option), After(fmt), args, aligned)

\* str_packsize: the size without the values.
RECURSIVE PackSize(_, _, _)
PackSize(h, fmt, total) ==
  IF fmt = <<>> THEN total
  ELSE LET option == Head(fmt)
           pad == Details(h, total, option, NextOption(fmt)) IN
       IF pad = Error \/ option.kind \in {"string", "zstr"} THEN Error
       ELSE PackSize(SetHeader(h, option), After(fmt), total + pad + Width(option))

----------------------------------------------------------------------------
(* str_unpack: the values and the next position (from 0 on).  A text that  *)
(* is to end with a zero ends with the data if there is none: the position *)
(* is then one too far.                                                    *)

ZeroAt(data, pos) ==
  CHOOSE n \in 0 .. Len(data) - pos :
    /\ \A k \in 1 .. n : data[pos + k] # 0
    /\ n = Len(data) - pos \/ data[pos + n + 1] = 0

Take(data, pos, n) == SubSeq(data, pos + 1, pos + n)

\* [value, next] of an option whose place begins at pos.
UnpackOne(h, option, data, pos) ==
  CASE option.kind \in {"int", "uint"} ->
         LET n == UnpackInt(Take(data, pos, option.size), h.little, option.kind = "int") IN
         IF n = Error THEN Error ELSE [value |-> n, next |-> pos + option.size]
    [] option.kind = "char" -> [value |-> Take(data, pos, option.size), next |-> pos + option.size]
    [] option.kind = "string" ->
         LET len == UnpackInt(Take(data, pos, option.size), h.little, FALSE) IN
         IF len = Error \/ pos + option.size + Unsigned(len) > Len(data) THEN Error
         ELSE [value |-> Take(data, pos + option.size, len), next |-> pos + option.size + len]
    [] option.kind = "zstr" ->
         LET len == ZeroAt(data, pos) IN [value |-> Take(data, pos, len), next |-> pos + len + 1]

RECURSIVE Unpack(_, _, _, _, _)
Unpack(h, fmt, data, pos, values) ==
  IF fmt = <<>> THEN [values |-> values, next |-> pos]
  ELSE
    LET option == Head(fmt)
        pad == Details(h, pos, option, NextOption(fmt)) IN
    IF pad = Error \/ pos + pad + Width(option) > Len(data) THEN Error
    ELSE IF TakesValue(option)
    THEN LET got == UnpackOne(h, option, data, pos + pad) IN
         IF got = Error THEN Error
         ELSE Unpack(h, After(fmt), data, got.next, Append(values, got.value))
    ELSE Unpack(SetHeader(h, option), After(fmt), data, pos + pad + Width(option), values)

----------------------------------------------------------------------------
(* What the two promise.                                                   *)

\* What comes back of a value: a text of fixed size comes back padded, an
\* unsigned integer as long as a Lua integer with its sign.
Padded(option, x) == IF option.kind = "char" THEN x \o Zeros(option.size - Len(x)) ELSE x

\* The options that take a value.
RECURSIVE Taking(_)
Taking(fmt) ==
  IF fmt = <<>> THEN <<>>
  ELSE (IF TakesValue(Head(fmt)) THEN <<Head(fmt)>> ELSE <<>>) \o Taking(After(fmt))

\* unpack gives back what pack has packed, and the position behind it.
RoundTrip(fmt, args) ==
  LET data == Pack(InitHeader, fmt, args, <<>>) IN
  data # Error =>
    LET back == Unpack(InitHeader, fmt, data, 0, <<>>)
        taken == Taking(fmt) IN
    /\ back # Error
    /\ back.next = Len(data)
    /\ back.values = [i \in DOMAIN taken |-> Padded(taken[i], args[i])]

\* A value is refused exactly if its bytes would not give it back.
RefusesWhatIsLost(option, n) ==
  LET bytes == PackInt(Unsigned(n), TRUE, option.size, option.kind = "int" /\ n < 0)
      back == UnpackInt(bytes, TRUE, option.kind = "int") IN
  Fits(option, n) <=> back = n
=============================================================================
