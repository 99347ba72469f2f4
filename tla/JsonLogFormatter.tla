-------------------------- MODULE JsonLogFormatter --------------------------
(***************************************************************************)
(* folly::JSONLogFormatter (src/unnamed/part_001, header part_002):        *)
(* formatMessage, escapeJsonString and the level names.                    *)
(*                                                                         *)
(* Text is a sequence of symbols.  A symbol is one character, written as   *)
(* a one-character string where TLA+ has one ("a", "\"", "\\", "\n", "\r", *)
(* "\t") and by name for the bytes it cannot write ("NUL" 0x00, "BS" 0x08, *)
(* "FF" 0x0c, "US" 0x1f, "DEL" 0x7f); or a whole word of the record's      *)
(* fixed text (a key, a level name, a number) that holds none of the       *)
(* characters JSON treats specially.                                       *)
(***************************************************************************)
EXTENDS Naturals, Sequences, SequencesExt

\* The byte values of the named characters and of the control characters
\* TLA+ writes with an escape: every byte below 0x20, and 0x7f, that the
\* text may hold.
ByteOf ==
  ("NUL" :> 0) @@ ("BS" :> 8) @@ ("\t" :> 9) @@ ("\n" :> 10)
    @@ ("FF" :> 12) @@ ("\r" :> 13) @@ ("US" :> 31) @@ ("DEL" :> 127)

HexDigits == <<"0", "1", "2", "3", "4", "5", "6", "7",
               "8", "9", "a", "b", "c", "d", "e", "f">>

\* folly::format("{:04x}", n): four lower-case hex digits.
Hex4(n) == [i \in 1..4 |-> HexDigits[((n \div 16 ^ (4 - i)) % 16) + 1]]

\* The characters the switch names in a case of their own.
Named == {"\"", "\\", "BS", "FF", "\n", "\r", "\t"}

EscapeCharRawNewline(c) ==
  CASE c = "\"" -> <<"\\", "\"">>
    [] c = "\\" -> <<"\\", "\\">>
    [] c = "BS" -> <<"\\", "b">>
    [] c = "FF" -> <<"\\", "f">>
    [] c = "\n" -> <<"\n">>
    [] c = "\r" -> <<"\\", "r">>
    [] c = "\t" -> <<"\\", "t">>
    [] c \in DOMAIN ByteOf \ Named -> <<"\\", "u">> \o Hex4(ByteOf[c])
    [] OTHER -> <<c>>

\* One iteration of escapeJsonString's loop: the switch on c.  The default
\* branch writes \u and four hex digits for a byte below 0x20 or 0x7f, and
\* copies every other byte.
EscapeChar(c) ==
  CASE c = "\"" -> <<"\\", "\"">>
    [] c = "\\" -> <<"\\", "\\">>
    [] c = "BS" -> <<"\\", "b">>
    [] c = "FF" -> <<"\\", "f">>
    [] c = "\n" -> <<"\\", "n">>
    [] c = "\r" -> <<"\\", "r">>
    [] c = "\t" -> <<"\\", "t">>
    [] c \in DOMAIN ByteOf \ Named -> <<"\\", "u">> \o Hex4(ByteOf[c])
    [] OTHER -> <<c>>

\* escapeJsonString: each character's escape, in order.
EscapeJsonString(str) == FlattenSeq([i \in DOMAIN str |-> EscapeChar(str[i])])

\* folly::LogLevel's named values (folly/logging/LogLevel.h).
INFO == 2000
WARN == 3000
ERR == 4000
CRITICAL == 5000
DFATAL == 2147483646
FATAL == 2147483647

\* The if/else chain at the top of formatMessage.
LevelName(level) ==
  CASE level < INFO     -> "VERBOSE"
    [] level < WARN     -> "INFO"
    [] level < ERR      -> "WARN"
    [] level < CRITICAL -> "ERROR"
    [] level < DFATAL   -> "CRITICAL"
    [] OTHER            -> "FATAL"

\* formatTimestamp: strftime("%Y-%m-%dT%H:%M:%S") and ".{:06d}" of the
\* microseconds, only digits, '-', ':', 'T' and '.'; one word.
FormatTimestamp(message) == <<"TIMESTAMP">>

Quoted(s) == <<"\"">> \o s \o <<"\"">>

\* The fields of the record in the order of the format string: the key,
\* and the value as it is written (strings quoted; line and thread_id are
\* numbers, one word each).
Fields(message) ==
  << <<"timestamp", Quoted(FormatTimestamp(message))>>,
     <<"level", Quoted(<<LevelName(message.level)>>)>>,
     <<"category", Quoted(EscapeJsonString(message.category))>>,
     <<"file", Quoted(EscapeJsonString(message.file))>>,
     <<"line", <<"LINE">>>>,
     <<"function", Quoted(EscapeJsonString(message.function))>>,
     <<"thread_id", <<"THREAD_ID">>>>,
     <<"message", Quoted(EscapeJsonString(message.message))>> >>

\* formatMessage: the compact format string is one line,
\*   {"timestamp":"{}","level":"{}",...,"message":"{}"}\n
\* the pretty one puts each field on its own line, indented by two
\* spaces, with a space after the colon.
FormatMessage(message, prettyPrint) ==
  LET fs == Fields(message)
      n == Len(fs)
      compact(i) == (IF i > 1 THEN <<",">> ELSE <<>>)
                      \o Quoted(<<fs[i][1]>>) \o <<":">> \o fs[i][2]
      pretty(i) == <<" ", " ">> \o Quoted(<<fs[i][1]>>) \o <<":", " ">>
                     \o fs[i][2] \o (IF i < n THEN <<",">> ELSE <<>>)
                     \o <<"\n">>
  IN IF prettyPrint
     THEN <<"{", "\n">> \o FlattenSeq([i \in 1..n |-> pretty(i)])
            \o <<"}", "\n">>
     ELSE <<"{">> \o FlattenSeq([i \in 1..n |-> compact(i)]) \o <<"}", "\n">>

=============================================================================
