---------------------------- MODULE ConfigGrammar ----------------------------
(***************************************************************************)
(* What the configuration strings mean, written without the parsers of     *)
(* ConfigParsing: the reference the parsers and the handler factory are    *)
(* checked against, and helpers to write decimal strings.                  *)
(***************************************************************************)
EXTENDS ConfigParsing

DigitChar(n) == CHOOSE d \in Digits : DigitValue[d] = n

\* The decimal digits of n, padded with zeros to at least w digits.
RECURSIVE Dec(_, _)
Dec(n, w) ==
  IF n < 10 /\ w <= 1 THEN <<DigitChar(n)>>
  ELSE Dec(n \div 10, w - 1) \o <<DigitChar(n % 10)>>

\* Numbers of up to 20 digits, written as chunks of at most 9 digits.
Big(hi, mid, lo) == Dec(hi, 1) \o Dec(mid, 9) \o Dec(lo, 9)

\* The units of both parsers, written out (not taken from the parsers'
\* tables).
SizeUnitStrs == {<<"B">>, <<"K", "B">>, <<"M", "B">>, <<"G", "B">>}
IntervalUnitStrs == {<<"m", "s">>, <<"s">>, <<"m">>, <<"h">>}

IsDigitString(d) == d # <<>> /\ \A i \in DOMAIN d : d[i] \in Digits

\* d without its leading zeros.
RECURSIVE StripZeros(_)
StripZeros(d) ==
  IF Len(d) > 1 /\ Head(d) = "0" THEN StripZeros(Tail(d)) ELSE d

Max64 == Big(18, 446744073, 709551615)

\* a <= b for digit strings of equal length, compared digit by digit.
LexLeq(a, b) ==
  \/ a = b
  \/ \E i \in DOMAIN a :
       /\ \A j \in 1..(i - 1) : a[j] = b[j]
       /\ DigitValue[a[i]] < DigitValue[b[i]]

\* The digit string denotes a value below 2^64.
FitsU64(d) ==
  LET t == StripZeros(d)
  IN Len(t) < Len(Max64) \/ (Len(t) = Len(Max64) /\ LexLeq(t, Max64))

\* s is a digit string below 2^64 followed by one of the given units.
WellFormed(s, units) ==
  \E k \in 1..(Len(s) - 1) :
    /\ IsDigitString(SubSeq(s, 1, k))
    /\ FitsU64(SubSeq(s, 1, k))
    /\ SubSeq(s, k + 1, Len(s)) \in units

\* The exact product of x and the factors reaches 2^64: a carry leaves
\* the top limb at some step.
RECURSIVE Overflows(_, _)
Overflows(x, factors) ==
  /\ factors # <<>>
  /\ LET n == MulAdd(x, Head(factors), 0)
     IN n.carry # 0 \/ Overflows(n.limbs, Tail(factors))

=============================================================================
