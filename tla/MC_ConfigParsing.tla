-------------------------- MODULE MC_ConfigParsing --------------------------
(***************************************************************************)
(* The parsers of ConfigParsing applied to every string of a set chosen at *)
(* the edges: numbers 0, 1, 1024, 2^34, 2^63 and 2^64 - 1 (the largest    *)
(* to<uint64_t> accepts), 2^64 (the first it rejects) and 3 * 10^12; every *)
(* unit of both parsers and a few that are not units; strings with no      *)
(* digits and with no unit.  Each state is one input string.               *)
(***************************************************************************)
EXTENDS ConfigGrammar

VARIABLE str

NumberStrs ==
  { Dec(0, 1), Dec(1, 1), Dec(1024, 1),
    Dec(17, 1) \o Dec(179869184, 9),                 \* 2^34
    Dec(3000, 1) \o Dec(0, 9),                       \* 3 * 10^12
    Big(9, 223372036, 854775808),                    \* 2^63
    Big(18, 446744073, 709551615),                   \* 2^64 - 1
    Big(18, 446744073, 709551616) }                  \* 2^64

UnitStrs ==
  SizeUnitStrs \cup IntervalUnitStrs
    \cup { <<"K">>, <<"k", "B">>, <<"x">>, <<"m", "s", "x">> }

Inputs ==
  { n \o u : n \in NumberStrs, u \in UnitStrs }
    \cup NumberStrs \cup UnitStrs \cup { <<>> }

Init == str \in Inputs

Next == UNCHANGED str

Spec == Init /\ [][Next]_str

-----------------------------------------------------------------------------
(* Properties.                                                             *)

\* An accepted max_buffer_size is the positive number of bytes the string
\* denotes: number * multiplier does not wrap, and is not zero (spec.md 6:
\* a validated, positive buffer size reaches the writer).
SizeExact ==
  LET r == ParseMaxBufferSize(str)
      pos == LeadingDigits(str)
  IN r.ok => /\ ~Overflows(ToU64(SubSeq(str, 1, pos)).val,
                           SizeUnits[SubSeq(str, pos + 1, Len(str))])
            /\ ~IsZero64(r.val)

\* An accepted reconnect_interval is a positive duration (spec.md 6).
IntervalPositive ==
  LET r == ParseReconnectInterval(str)
  IN r.ok => ~IsZero64(r.val) /\ ~IsNegative64(r.val)

=============================================================================
