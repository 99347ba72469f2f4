----------------------------- MODULE JsonGrammar -----------------------------
(***************************************************************************)
(* Reference definitions for the JSON text JsonLogFormatter writes, after *)
(* RFC 8259, written without the formatter's operators: which characters  *)
(* a string may hold raw, what each escape stands for, and a scanner that *)
(* returns the decoded strings of a text in order.  Text is a sequence of *)
(* symbols as in JsonLogFormatter.                                        *)
(***************************************************************************)
EXTENDS Naturals, Sequences, TLC

\* The characters below 0x20 the text may hold: JSON forbids them raw
\* inside a string.  (0x7f may appear raw.)
RawForbidden == {"NUL", "BS", "\t", "\n", "FF", "\r", "US"}

\* The two-character escapes and the character each stands for.
ShortEscape ==
  ("\"" :> "\"") @@ ("\\" :> "\\") @@ ("/" :> "/") @@ ("b" :> "BS")
    @@ ("f" :> "FF") @@ ("n" :> "\n") @@ ("r" :> "\r") @@ ("t" :> "\t")

HexValue ==
  ("0" :> 0) @@ ("1" :> 1) @@ ("2" :> 2) @@ ("3" :> 3) @@ ("4" :> 4)
    @@ ("5" :> 5) @@ ("6" :> 6) @@ ("7" :> 7) @@ ("8" :> 8) @@ ("9" :> 9)
    @@ ("a" :> 10) @@ ("b" :> 11) @@ ("c" :> 12) @@ ("d" :> 13)
    @@ ("e" :> 14) @@ ("f" :> 15) @@ ("A" :> 10) @@ ("B" :> 11)
    @@ ("C" :> 12) @@ ("D" :> 13) @@ ("E" :> 14) @@ ("F" :> 15)

\* The character a \uXXXX code stands for, for the codes of the named
\* characters.
CodePoint ==
  (0 :> "NUL") @@ (8 :> "BS") @@ (9 :> "\t") @@ (10 :> "\n")
    @@ (12 :> "FF") @@ (13 :> "\r") @@ (31 :> "US") @@ (127 :> "DEL")

\* t begins with \u and four hex digits naming a known code.
IsUnicodeEscape(t) ==
  /\ Len(t) >= 6 /\ t[2] = "u"
  /\ \A i \in 3..6 : t[i] \in DOMAIN HexValue
  /\ (HexValue[t[3]] * 4096 + HexValue[t[4]] * 256 + HexValue[t[5]] * 16
        + HexValue[t[6]]) \in DOMAIN CodePoint

UnicodeChar(t) ==
  CodePoint[HexValue[t[3]] * 4096 + HexValue[t[4]] * 256
              + HexValue[t[5]] * 16 + HexValue[t[6]]]

\* Scan text t: outside strings every symbol is skipped; inside a string,
\* an escape decodes to its character, a raw forbidden character or an
\* unknown escape makes the text invalid, and the closing quote adds the
\* decoded string to acc.  ok is false for invalid text or an unclosed
\* string.
RECURSIVE JsonStrings(_, _, _, _)
JsonStrings(t, inString, cur, acc) ==
  IF t = <<>> THEN [ok |-> ~inString, strs |-> acc]
  ELSE LET c == Head(t) IN
    CASE ~inString /\ c = "\"" -> JsonStrings(Tail(t), TRUE, <<>>, acc)
      [] ~inString -> JsonStrings(Tail(t), FALSE, cur, acc)
      [] c = "\"" -> JsonStrings(Tail(t), FALSE, <<>>, Append(acc, cur))
      [] c = "\\" /\ Len(t) >= 2 /\ t[2] \in DOMAIN ShortEscape ->
           JsonStrings(SubSeq(t, 3, Len(t)), TRUE,
                       Append(cur, ShortEscape[t[2]]), acc)
      [] c = "\\" /\ IsUnicodeEscape(t) ->
           JsonStrings(SubSeq(t, 7, Len(t)), TRUE,
                       Append(cur, UnicodeChar(t)), acc)
      [] c = "\\" \/ c \in RawForbidden -> [ok |-> FALSE, strs |-> acc]
      [] OTHER -> JsonStrings(Tail(t), TRUE, Append(cur, c), acc)

=============================================================================
