---------------------------- MODULE HandlerFactory ----------------------------
(***************************************************************************)
(* NetworkHandlerFactory (NetworkHandlerFactory.cpp, .h) and the          *)
(* registration file that follows it: createHandler, parseProtocol,        *)
(* updateHandler, and registerNetworkLoggingFactories with the two         *)
(* factories it registers.                                                 *)
(*                                                                         *)
(* A ConfigMap is a function from option names to strings (sequences of   *)
(* one-character strings).  find is membership in its domain; erase       *)
(* removes the name.  The parse functions are those of ConfigParsing.      *)
(***************************************************************************)
EXTENDS ConfigParsing

\* NetworkHandlerFactory::getType
NetworkType == "network"

UpperCase == <<"A","B","C","D","E","F","G","H","I","J","K","L","M",
               "N","O","P","Q","R","S","T","U","V","W","X","Y","Z">>
LowerCase == <<"a","b","c","d","e","f","g","h","i","j","k","l","m",
               "n","o","p","q","r","s","t","u","v","w","x","y","z">>

\* folly::toLowerAscii: A-Z to a-z, every other character unchanged.
ToLowerAscii(s) ==
  [i \in DOMAIN s |->
     IF \E j \in DOMAIN UpperCase : UpperCase[j] = s[i]
     THEN LowerCase[CHOOSE j \in DOMAIN UpperCase : UpperCase[j] = s[i]]
     ELSE s[i]]

ParseProtocolCaseSensitive(s) ==
  CASE s = <<"t", "c", "p">> -> Ok("TCP")
    [] s = <<"u", "d", "p">> -> Ok("UDP")
    [] OTHER                 -> Fail("invalid_argument")

\* parseProtocol: "tcp" or "udp" in any case; anything else throws.
ParseProtocol(s) ==
  LET lower == ToLowerAscii(s)
  IN CASE lower = <<"t", "c", "p">> -> Ok("TCP")
       [] lower = <<"u", "d", "p">> -> Ok("UDP")
       [] OTHER                     -> Fail("invalid_argument")

\* folly::to<uint16_t> on the port string: a ConversionError for an empty
\* string or a non-digit, and once the value passes 65535.  (Leading and
\* trailing whitespace, which folly::to skips, is not among the inputs.)
ToU16(s) ==
  IF s = <<>> \/ \E i \in DOMAIN s : s[i] \notin Digits
  THEN Fail("conversion_error")
  ELSE LET n == ToU64(s)
       IN IF ~n.ok \/ n.val[2] # 0 \/ n.val[3] # 0 \/ n.val[4] # 0
          THEN Fail("range_error")
          ELSE Ok(n.val[1])

\* The options createHandler consumes and erases from the map.
NetworkOptions ==
  {"host", "port", "protocol", "max_buffer_size", "reconnect_interval"}

\* The options folly's StandardLogHandlerFactory understands; it throws
\* invalid_argument on any other option left in the map.  The values of
\* these options are not checked here.
StandardOptions == {"formatter", "level", "sync_level"}

\* The StandardLogHandlerFactory step of createHandler: create the handler
\* from what is left of the map, check that it is a StandardLogHandler
\* (it always is) and give it the writer.
StandardHandler(rest, writer) ==
  IF DOMAIN rest \subseteq StandardOptions
  THEN [ok |-> TRUE, why |-> "none", val |-> writer]
  ELSE Fail("invalid_argument")

\* createHandler: host and port are required, the other options default
\* to TCP, 1 MiB and 5 s.  Each option is checked in the order of the
\* code, and the first failure is the exception createHandler throws.
CreateHandler(config) ==
  LET has(k) == k \in DOMAIN config
      port == ToU16(config["port"])
      protocol == IF has("protocol") THEN ParseProtocol(config["protocol"])
                  ELSE Ok("TCP")
      size == IF has("max_buffer_size")
              THEN ParseMaxBufferSize(config["max_buffer_size"])
              ELSE Ok(<<0, 16, 0, 0>>)                          \* 1024 * 1024
      interval == IF has("reconnect_interval")
                  THEN ParseReconnectInterval(config["reconnect_interval"])
                  ELSE Ok(<<5000, 0, 0, 0>>)                    \* 5 s in ms
      rest == [k \in DOMAIN config \ NetworkOptions |-> config[k]]
      writer == [host |-> config["host"], port |-> port.val,
                 protocol |-> protocol.val, maxBufferSize |-> size.val,
                 reconnectInterval |-> interval.val]
  IN CASE ~has("host")  -> Fail("invalid_argument")
       [] ~has("port")  -> Fail("invalid_argument")
       [] ~port.ok      -> port
       [] ~protocol.ok  -> protocol
       [] ~size.ok      -> size
       [] ~interval.ok  -> interval
       [] OTHER         -> StandardHandler(rest, writer)

\* updateHandler: not implemented, always throws.
UpdateHandler(handler, config) == Fail("runtime_error")

-----------------------------------------------------------------------------
(* JSONLogFormatterFactory.                                                *)

\* folly::to<bool> on a string (folly/Conv.cpp, str_to_bool): skip leading
\* spaces; "0"/"1" digit runs ("0", "1", "01", not "10"), or y/yes, n/no,
\* t/true, f/false, on, off in any case; then nothing but spaces may
\* follow.  Anything else is a ConversionError.
RECURSIVE SkipSpaces(_)
SkipSpaces(s) == IF s # <<>> /\ Head(s) = " " THEN SkipSpaces(Tail(s)) ELSE s

\* bool_str_cmp: s begins with the lower-case word w, ignoring case.
StartsWithWord(s, w) ==
  Len(s) >= Len(w) /\ ToLowerAscii(SubSeq(s, 1, Len(w))) = w

\* The '0'/'1' loop: a digit after a 1, or a digit other than 0 and 1,
\* overflows.
RECURSIVE BinaryDigits(_, _)
BinaryDigits(s, result) ==
  CASE s = <<>> \/ Head(s) \notin Digits -> [ok |-> TRUE, val |-> result, rest |-> s]
    [] result \/ Head(s) \notin {"0", "1"} -> [ok |-> FALSE, val |-> result, rest |-> s]
    [] OTHER -> BinaryDigits(Tail(s), Head(s) = "1")

\* y, n, t, f: the whole word if it is there, else the one letter.
WordOrLetter(s, w, val) ==
  [ok |-> TRUE, val |-> val,
   rest |-> IF StartsWithWord(s, w) THEN SubSeq(s, Len(w) + 1, Len(s))
            ELSE Tail(s)]

StrToBool(s) ==
  LET t == SkipSpaces(s)
      c == ToLowerAscii(<<Head(t)>>)[1]
      word(w, val) == [ok |-> TRUE, val |-> val,
                       rest |-> SubSeq(t, Len(w) + 1, Len(t))]
  IN CASE t = <<>>     -> [ok |-> FALSE, val |-> FALSE, rest |-> t]
       [] c \in {"0", "1"} -> BinaryDigits(t, FALSE)
       [] c = "y" -> WordOrLetter(t, <<"y", "e", "s">>, TRUE)
       [] c = "n" -> WordOrLetter(t, <<"n", "o">>, FALSE)
       [] c = "t" -> WordOrLetter(t, <<"t", "r", "u", "e">>, TRUE)
       [] c = "f" -> WordOrLetter(t, <<"f", "a", "l", "s", "e">>, FALSE)
       [] StartsWithWord(t, <<"o", "n">>) -> word(<<"o", "n">>, TRUE)
       [] StartsWithWord(t, <<"o", "f", "f">>) -> word(<<"o", "f", "f">>, FALSE)
       [] OTHER -> [ok |-> FALSE, val |-> FALSE, rest |-> t]

ToBool(s) ==
  LET r == StrToBool(s)
  IN IF r.ok /\ SkipSpaces(r.rest) = <<>> THEN Ok(r.val)
     ELSE Fail("conversion_error")

CreateFormatterDefaultPretty(config) ==
  IF "pretty" \in DOMAIN config THEN ToBool(config["pretty"]) ELSE Ok(TRUE)

\* JSONLogFormatterFactory::createFormatter: prettyPrint is the "pretty"
\* option read with to<bool> (which throws on anything else), false when
\* the option is absent; the option is erased and every other option is
\* ignored.  The formatter is JSONLogFormatter(prettyPrint), represented
\* by prettyPrint.
CreateFormatter(config) ==
  IF "pretty" \in DOMAIN config THEN ToBool(config["pretty"]) ELSE Ok(FALSE)

=============================================================================
