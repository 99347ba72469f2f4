--------------------------- MODULE ConfigParsing ---------------------------
(***************************************************************************)
(* NetworkHandlerFactory's string parsers (NetworkHandlerFactory.cpp):     *)
(* parseMaxBufferSize and parseReconnectInterval.                          *)
(*                                                                         *)
(* A string is a sequence of one-character strings.  A uint64_t (and the   *)
(* int64_t count of a std::chrono duration) is four 16-bit limbs, least    *)
(* significant first, so that the 64-bit wrap of the C++ arithmetic is     *)
(* kept exactly although TLC's own integers are 32-bit.                    *)
(***************************************************************************)
EXTENDS Naturals, Sequences, TLC

Limb == 65536
Zero64 == <<0, 0, 0, 0>>

Digits == {"0", "1", "2", "3", "4", "5", "6", "7", "8", "9"}
DigitValue == [d \in Digits |->
                 CASE d = "0" -> 0 [] d = "1" -> 1 [] d = "2" -> 2
                   [] d = "3" -> 3 [] d = "4" -> 4 [] d = "5" -> 5
                   [] d = "6" -> 6 [] d = "7" -> 7 [] d = "8" -> 8
                   [] d = "9" -> 9]

\* x * m + a on 64-bit limbs (m, a < 2^10): the wrapped product and the
\* carry out of the top limb, which is non-zero iff the product >= 2^64.
MulAdd(x, m, a) ==
  LET p1 == x[1] * m + a
      p2 == x[2] * m + p1 \div Limb
      p3 == x[3] * m + p2 \div Limb
      p4 == x[4] * m + p3 \div Limb
  IN [limbs |-> <<p1 % Limb, p2 % Limb, p3 % Limb, p4 % Limb>>,
      carry |-> p4 \div Limb]

\* Multiply by each factor in turn, dropping the carries: unsigned 64-bit
\* multiplication, which wraps modulo 2^64.
RECURSIVE MulWrap(_, _)
MulWrap(x, factors) ==
  IF factors = <<>> THEN x
  ELSE MulWrap(MulAdd(x, Head(factors), 0).limbs, Tail(factors))

\* Parse results: ok, the error thrown when not ok, the value when ok.
Fail(why) == [ok |-> FALSE, why |-> why, val |-> Zero64]
Ok(v) == [ok |-> TRUE, why |-> "none", val |-> v]

\* The while loop: the number of leading decimal digits.
RECURSIVE LeadingDigits(_)
LeadingDigits(s) ==
  IF s = <<>> \/ Head(s) \notin Digits THEN 0 ELSE 1 + LeadingDigits(Tail(s))

\* Horner's rule over the digits left in s, from the value so far and
\* whether it has already passed 2^64 - 1.
RECURSIVE Horner(_, _, _)
Horner(v, over, s) ==
  IF s = <<>> THEN [limbs |-> v, over |-> over]
  ELSE LET n == MulAdd(v, 10, DigitValue[Head(s)])
       IN Horner(n.limbs, over \/ n.carry # 0, Tail(s))

\* folly::to<uint64_t> on a non-empty digit string: a ConversionError once
\* the value passes 2^64 - 1.
ToU64(s) ==
  LET r == Horner(Zero64, FALSE, s)
  IN IF r.over THEN Fail("range_error") ELSE Ok(r.limbs)

\* The unit strings parseMaxBufferSize accepts, and their multipliers,
\* each a product of factors below 2^10 (1024 * 1024 * 1024 is an int).
SizeUnitsNoGB ==
  (<<"B">> :> <<1>>) @@ (<<"K", "B">> :> <<1024>>)
    @@ (<<"M", "B">> :> <<1024, 1024>>)

SizeUnits ==
  (<<"B">> :> <<1>>) @@ (<<"K", "B">> :> <<1024>>)
    @@ (<<"M", "B">> :> <<1024, 1024>>)
    @@ (<<"G", "B">> :> <<1024, 1024, 1024>>)

\* The chrono units parseReconnectInterval accepts, as factors of their
\* length in milliseconds.
IntervalUnits ==
  (<<"m", "s">> :> <<1>>) @@ (<<"s">> :> <<1000>>)
    @@ (<<"m">> :> <<1000, 60>>) @@ (<<"h">> :> <<1000, 60, 60>>)

\* The shared shape of both parsers: digits, then a unit from the table;
\* invalid_argument without digits or without a unit, to<uint64_t> before
\* the unit is looked up, and number * multiplier in 64-bit arithmetic.
ParseNumberWithUnit(s, units) ==
  LET pos == LeadingDigits(s)
      number == ToU64(SubSeq(s, 1, pos))
      unit == SubSeq(s, pos + 1, Len(s))
  IN CASE pos = 0 \/ pos = Len(s)  -> Fail("invalid_argument")
       [] ~number.ok               -> number
       [] unit \notin DOMAIN units -> Fail("invalid_argument")
       [] OTHER                    -> Ok(MulWrap(number.val, units[unit]))

\* parseMaxBufferSize: a size_t byte count.
ParseMaxBufferSize(s) == ParseNumberWithUnit(s, SizeUnits)

\* parseReconnectInterval: a std::chrono::milliseconds.  The uint64_t count
\* becomes the duration's int64_t count and is scaled to milliseconds; the
\* build wraps both conversions modulo 2^64, so the result is the wrapped
\* product read as a signed 64-bit value.
ParseReconnectInterval(s) == ParseNumberWithUnit(s, IntervalUnits)

\* The sign of a 64-bit count read as int64_t.
IsNegative64(v) == v[4] >= Limb \div 2
IsZero64(v) == v = Zero64

=============================================================================
