------------------------- MODULE MC_HandlerFactory -------------------------
(***************************************************************************)
(* The pure functions of NetworkHandlerFactory.cpp's two factories: the   *)
(* handler factory's createHandler, and the JSONLogFormatter that the     *)
(* formatter factory creates.  A state is one input of one of them.       *)
(*                                                                         *)
(* createHandler applied to every configuration map built from a few      *)
(* values per option, each either absent or one of: a valid value, a      *)
(* value at the edge of its range (2^64 - 1 and 2^64 for the two parsed   *)
(* numbers), and a malformed one; plus an option                           *)
(* StandardLogHandlerFactory understands and one it does not.  Each state *)
(* is one map.                                                            *)
(*                                                                         *)
(* formatMessage applied, in both layouts, to messages at four levels    *)
(* whose text is every string of up to three characters over an alphabet *)
(* of each character escapeJsonString treats apart and plain ones.        *)
(*                                                                         *)
(* createFormatter applied to maps whose "pretty" option is absent or one *)
(* of the spellings to<bool> reads as true or false, padded or in upper   *)
(* case, or a near miss ("10", "ye", "of", "yesno", ...), with and        *)
(* without an option the factory ignores; the formatter it returns then   *)
(* formats a message whose text holds a newline.                           *)
(***************************************************************************)
EXTENDS HandlerFactory, ConfigGrammar, JsonLogFormatter, JsonGrammar

VARIABLES
  input,   \* which function this state applies: "createHandler",
           \* "formatMessage" or "createFormatter"
  config,  \* the ConfigMap passed to createHandler or createFormatter
  record   \* the LogMessage and prettyPrint_ given to formatMessage

vars == <<input, config, record>>

\* The argument of the function a state does not apply.
Unused == [unused |-> TRUE]

Absent == "absent"

ConfigChoices ==
  [host : {Absent, <<"h">>},
   port : {Absent, <<>>, Dec(0, 1), Dec(65535, 1), Dec(65536, 1),
           <<"8", "x">>},
   protocol : {Absent, <<"t", "c", "p">>, <<"U", "D", "P">>,
               <<"T", "c", "p">>, <<"t", "c">>, <<"s", "c", "t", "p">>},
   max_buffer_size : {Absent, <<"1", "M", "B">>, <<"0", "B">>,
                      <<"2", "G", "B">>, <<"1", "T", "B">>, <<"M", "B">>,
                      Dec(1024, 1),
                      Big(18, 446744073, 709551615) \o <<"B">>,  \* 2^64 - 1
                      Big(18, 446744073, 709551616) \o <<"K", "B">>},
   reconnect_interval : {Absent, <<"5", "s">>, <<"9", "x">>, <<"3", "m">>,
                         <<"1", "h">>, <<"m", "s">>,
                         Big(18, 446744073, 709551615) \o <<"m", "s">>,
                         Big(18, 446744073, 709551616) \o <<"s">>},
   level : {Absent, <<"I", "N", "F", "O">>},
   colour : {Absent, <<"r", "e", "d">>}]

\* The map holding the options a choice gives a value.
ToConfig(c) ==
  LET present == {k \in DOMAIN c : c[k] # Absent}
  IN [k \in present |-> c[k]]

\* The characters of the message text: each one escapeJsonString has a case
\* for, the control characters of its default branch, and plain ones
\* ("u" and "/" also occur in escapes).
Alphabet ==
  {"\"", "\\", "BS", "FF", "\n", "\r", "\t", "NUL", "US", "DEL",
   "a", "u", "/"}

Levels == {1000, INFO, ERR, FATAL}

Messages ==
  [level : Levels, category : {<<"a", ".", "b">>}, file : {<<"f">>},
   function : {<<"g">>}, message : BoundedSeq(Alphabet, 3)]

\* Values of the formatter's "pretty" option.
PrettyChoices ==
  {Absent, <<"t", "r", "u", "e">>, <<"T", "R", "U", "E">>, <<"Y">>,
   <<"y", "e", "s">>, <<"O", "n">>, <<"1">>, <<"0", "1">>, <<"t">>,
   <<" ", "f", "a", "l", "s", "e", " ">>, <<"n", "o">>, <<"o", "f", "f">>,
   <<"0", "0">>, <<"F">>, <<"N">>, <<"1", "0">>, <<"1", "1">>, <<"y", "e">>,
   <<"o">>, <<"o", "f">>, <<"y", "e", "s", "n", "o">>, <<"t", " ", "x">>,
   <<>>, <<" ">>, <<"2">>, <<"x">>}

FormatterChoices == [pretty : PrettyChoices, colour : {Absent, <<"r">>}]

\* The message the created formatter is given: its text holds a newline.
Sample ==
  [level |-> INFO, category |-> <<"a">>, file |-> <<"f">>,
   function |-> <<"g">>, message |-> <<"a", "\n">>]

Init ==
  \/ /\ input = "createFormatter"
     /\ config \in {ToConfig(c) : c \in FormatterChoices}
     /\ record = Unused
  \/ /\ input = "createHandler"
     /\ config \in {ToConfig(c) : c \in ConfigChoices}
     /\ record = Unused
  \/ /\ input = "formatMessage"
     /\ config = Unused
     /\ record \in [message : Messages, prettyPrint : BOOLEAN]

Next == UNCHANGED vars

Spec == Init /\ [][Next]_vars

-----------------------------------------------------------------------------
(* Reference definitions, after spec.md section 6 and the grammar of      *)
(* ConfigGrammar, written without the factory's operators.                 *)

\* A port is a decimal number from 0 to 65535.
PortValid(s) ==
  /\ IsDigitString(s)
  /\ LET t == StripZeros(s) IN
       Len(t) < 5 \/ (Len(t) = 5 /\ LexLeq(t, Dec(65535, 1)))

UpperOf == ("t" :> "T") @@ ("c" :> "C") @@ ("p" :> "P")
             @@ ("u" :> "U") @@ ("d" :> "D")

\* A protocol is "tcp" or "udp", each letter in either case.
ProtocolValid(s) ==
  \E name \in {<<"t", "c", "p">>, <<"u", "d", "p">>} :
    /\ Len(s) = 3
    /\ \A i \in 1..3 : s[i] \in {name[i], UpperOf[name[i]]}

\* The option text without surrounding spaces, in lower case.
LowerOf ==
  ("T" :> "t") @@ ("R" :> "r") @@ ("U" :> "u") @@ ("E" :> "e")
    @@ ("Y" :> "y") @@ ("S" :> "s") @@ ("O" :> "o") @@ ("N" :> "n")
    @@ ("F" :> "f") @@ ("A" :> "a") @@ ("L" :> "l")

Word(s) ==
  LET idx == {i \in DOMAIN s : s[i] # " "}
      w == IF idx = {} THEN <<>> ELSE SubSeq(s, Min(idx), Max(idx))
  IN [i \in DOMAIN w |-> IF w[i] \in DOMAIN LowerOf THEN LowerOf[w[i]]
                                                  ELSE w[i]]

\* folly's documented boolean spellings: "true", "false", or "none".
Spelling(s) ==
  LET w == Word(s)
      zeros(n) == \A i \in 1..n : w[i] = "0"
  IN CASE w \in {<<"1">>, <<"y">>, <<"y", "e", "s">>, <<"t">>,
                <<"t", "r", "u", "e">>, <<"o", "n">>}
            \/ (w # <<>> /\ w[Len(w)] = "1" /\ zeros(Len(w) - 1)) -> "true"
       [] w \in {<<"n">>, <<"n", "o">>, <<"f">>, <<"f", "a", "l", "s", "e">>,
                <<"o", "f", "f">>}
            \/ (w # <<>> /\ zeros(Len(w))) -> "false"
       [] OTHER -> "none"

\* A record on one line: its only newline ends it.
OneLine(text) == \A i \in DOMAIN text : text[i] = "\n" <=> i = Len(text)

ValidConfig(c) ==
  /\ "host" \in DOMAIN c
  /\ "port" \in DOMAIN c /\ PortValid(c["port"])
  /\ "protocol" \in DOMAIN c => ProtocolValid(c["protocol"])
  /\ "max_buffer_size" \in DOMAIN c
       => WellFormed(c["max_buffer_size"], SizeUnitStrs)
  /\ "reconnect_interval" \in DOMAIN c
       => WellFormed(c["reconnect_interval"], IntervalUnitStrs)
  /\ DOMAIN c \subseteq
       {"host", "port", "protocol", "max_buffer_size", "reconnect_interval",
        "formatter", "level", "sync_level"}

-----------------------------------------------------------------------------
(* Properties.                                                             *)

\* createHandler builds a handler exactly for the configurations spec.md
\* section 6 calls valid: host and a port in 0..65535 present, protocol
\* tcp/udp in any case, size and interval in their grammar when given,
\* and no option left over that StandardLogHandlerFactory rejects -- so
\* every option createHandler consumes is parsed and erased, and nothing
\* else is.
AcceptsExactlyValid ==
  input = "createHandler" => (CreateHandler(config).ok <=> ValidConfig(config))

\* Every record formatMessage writes is JSON whose strings, decoded, are
\* the keys and the field values in order -- whatever quotes, backslashes
\* and control characters the message holds, escapeJsonString keeps each
\* one inside its string -- and a compact record is one line, the JSON
\* lines framing the collector relies on (spec.md section 6).
RecordsDecode ==
  input = "formatMessage" =>
    LET m == record.message
        text == FormatMessage(m, record.prettyPrint)
        r == JsonStrings(text, FALSE, <<>>, <<>>)
    IN /\ r.ok
       /\ r.strs = << <<"timestamp">>, <<"TIMESTAMP">>,
                     <<"level">>, <<LevelName(m.level)>>,
                     <<"category">>, m.category, <<"file">>, m.file,
                     <<"line">>, <<"function">>, m.function,
                     <<"thread_id">>, <<"message">>, m.message >>
       /\ ~record.prettyPrint =>
            \A i \in DOMAIN text : text[i] = "\n" <=> i = Len(text)

\* createFormatter, composed with the formatter it returns: it throws
\* exactly when "pretty" is given and is not one of folly's boolean
\* spellings; otherwise the formatter writes a message containing a
\* newline as a one-line record unless "pretty" spells true -- the
\* default of JSONLogFormatterFactory is the compact, one-record-per-line
\* layout, and other options do not change it.
FormatterFromConfig ==
  input = "createFormatter" =>
    LET f == CreateFormatter(config)
        spelled == IF "pretty" \in DOMAIN config
                   THEN Spelling(config["pretty"]) ELSE "false"
    IN /\ f.ok <=> spelled # "none"
       /\ f.ok => (OneLine(FormatMessage(Sample, f.val)) <=> spelled # "true")

=============================================================================
