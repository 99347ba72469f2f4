# TLA+ models of folly's network log writer

This directory holds TLA+ models of the network logging code in `src/`:
`NetworkLogWriter` (`src/unnamed/part_000`, header `part_003`), the
`NetworkHandlerFactory` that configures it
(`src/folly/logging/NetworkHandlerFactory.{h,cpp}`), and the
`JSONLogFormatter` (`part_001`, `part_002`). Each model is checked with TLC.
`PROJECT.json` lists the components, the runs, the mutants, the map from each
definition to the source lines it models, the findings and the hazards.

## 1. Inventory

### Components

| Component | Source | State | Operations |
|---|---|---|---|
| Connection actor (`NetworkLogWriter`) | part_000, part_003 | `ConnectionState` under `Synchronized`: `socket`, `pendingMessages`, `pendingBytes`, `connecting`, `closed`. Also the reconnect timeout and the EventBase thread | ctor, `writeMessage`, `flush`, `connect`, `onConnectSuccess`, `onConnectError`, `onWriteSuccess`, `onWriteError`, `onSocketClose`, `sendPendingMessages`, `scheduleReconnect`, `ReconnectTimeout::timeoutExpired`, `cleanup`/dtor |
| EventBase loop and reconnect timer | folly, used from part_000 | FIFO of tasks posted with `runInEventBaseThread`; the armed/unarmed timeout; whether the loop is running | post a task, run a task, fire the timer, `terminateLoopSoon` |
| AsyncSocket transport | folly, used from part_000 | connection state (connecting, established, gone); writes in flight | connect result, write completion or error, close |
| Handler factory | NetworkHandlerFactory.cpp | none (pure functions of a config map) | `createHandler`, `parseProtocol`, `parseReconnectInterval`, `parseMaxBufferSize`, `updateHandler` (always throws) |
| JSON formatter | part_001, part_002 | `prettyPrint_` | `formatMessage`, `formatTimestamp`, `escapeJsonString` |
| Registration | NetworkHandlerFactory.cpp (second part) | LoggerDB registry | `registerNetworkLoggingFactories` (not modelled: it does not compile, see section 4) |

### How they interact

Caller threads call `writeMessage`. It takes the `ConnectionState` lock,
applies the discard policy, queues the buffer and, if the socket is `good()`,
posts a `sendPendingMessages` task to the EventBase thread. `flush` posts the
same task without taking the lock. Only the EventBase thread runs the posted
tasks, the reconnect timeout and the socket callbacks. Each of them takes the
lock for its whole body. The destructor runs `cleanup`: it posts a task that
cancels the timeout and stops the loop, joins the loop thread, then marks the
state closed and drops the socket.

### What makes it hard

- **Concurrency.** Many callers race with one loop thread. The loop runs
  posted tasks in FIFO order, and the timer and socket callbacks can come
  between any two of them.
- **A non-recursive lock.** `onConnectSuccess` and `onWriteSuccess` call
  `sendPendingMessages()` while they hold the lock, and
  `sendPendingMessages()` locks it again. (`onWriteError` does too, but in
  a branch AsyncSocket never reaches.)
- **Failures.** Connects fail, writes fail, and connections close. Each of
  these must put the writer back on the reconnect path.
- **Ordering.** Writes must leave in queue order, one at a time. But every
  queued message and every flush posts its own send.
- **Shutdown.** The destructor blocks until the loop thread has exited.
- **Numeric edges in the configuration.** Sizes wrap at 64 bits; intervals
  can be zero or overflow.

### What makes each component correct

- **Connection actor.**
  - `pendingBytes` is the sum of the queued sizes.
  - The discard policy bounds the backlog of ordinary messages.
  - `connecting` is true exactly while an attempt is in flight.
  - The writer is never stranded: it always has a socket, an armed timer, or a
    queued connect.
  - Messages are written in FIFO order with no duplicates.
  - Shutdown always returns.
  - The life-cycle transitions are those of spec.md 4.1, and a scheduled
    reconnect is eventually attempted.
- **Factory.** The parsed size and interval equal the number times the unit,
  and no valid input yields a nonsensical value.
- **Formatter.** Escaping is invertible, and the output has no raw control
  characters and no unescaped quotes.

## 2. Modules

### `NetworkLogWriter.tla`: the connection actor

**State.** The variables are `ConnectionState`'s fields and the actors' state
around it:

- `socket` is `state->socket` together with the AsyncSocket's own state.
  `good()` holds while it is connecting or established.
- `pendingMessages` is a sequence of `[id, size, neverDiscard]` records. A
  buffer's contents are abstracted to an id and its size.
- `pendingBytes`, `connecting` and `closed` are the fields of the same names.
- `timerScheduled` is `reconnectTimeout_->isScheduled()`.
- `loopQueue` holds the posted tasks: `"connect"` from the constructor,
  `"send"` from `writeMessage` and `flush`, `"stop"` from `cleanup`.
- `loop` is `"running"`, `"stopped"`, or `"blocked"`. Blocked means the loop
  thread waits forever on its own lock.
- `stop` is the EventBase's stop flag. `terminateLoopSoon` only sets it; the
  loop returns at the end of the iteration it is in.
- `owner` tracks the destructor.
- `inflight` holds the writes handed to the socket that have not completed.
- `sent` is a history of every `socket->write` together with the connection
  it went on.
- `offered` is a history of every `writeMessage` call's buffer, in order,
  whether it was queued or discarded. It gives each buffer its id and is
  what the queue refinement maps.

**Actions.** There is one action per handler. Each action runs atomically,
because each handler holds the lock for its whole body:

- callers: `WriteMessage`, `Flush`;
- loop tasks: `RunConnect`, `RunSend`, `RunStop`, and `EndIteration`, the
  loop returning after `RunStop` called `terminateLoopSoon`;
- timer: `TimeoutExpired`;
- socket callbacks: `OnConnectSuccess`, `OnConnectError`, `OnWriteSuccess`,
  `OnWriteError`, `OnSocketClose`;
- owner: `CleanupPost`, then `CleanupJoin` once the loop has stopped.

The helpers `Connect`, `ConnectCatch`, `SendPendingMessages`,
`ScheduleReconnect`, `PopHead` and `Discard` are the code's functions, called
from these actions. Some handlers call `sendPendingMessages()` while holding
the lock; this sets `loop` to `"blocked"` (`RelockFromLoop`). After that, no
action that needs the lock is enabled again.

**Transport.** The transport is the environment. A connecting socket
succeeds or fails. An established one completes its oldest write, fails it,
or closes. AsyncSocket puts the socket into its error state before it calls
`writeErr`, so after a write error `good()` is false and `onWriteError`
always takes its reconnect branch; the resend branch (line 166) is
unreachable. `MaxFailures` caps the number of failures.

With the constant `InlineCompletion`, AsyncSocket may also finish a connect
inside `connect()`, or a write on an established socket inside `write()`,
and call the callback there. The callback then runs on the EventBase thread
while it still holds the lock, and re-locks it (`AfterWrite`, and the second
disjunct of `Connect`'s TCP branch).

`terminateLoopSoon` sets the stop flag and breaks libevent's event
processing, which its documentation says happens even with events pending.
So no socket callback and no timeout runs after `RunStop`; only posted tasks
handed over in the same batch may still run before `EndIteration`.

**Fairness.** The following actions are weakly fair:

- the loop's posted tasks, the expired timer and the end of the current
  iteration. The loop thread runs `loopForever` and has nothing else to do.
- the end of a connect attempt, success or failure. AsyncSocket's 5 s connect
  timeout guarantees it.
- `join()` returning once the loop has exited.

Callers, the destructor and the rest of the transport (write completions,
failures, closes) are not fair. The fairness does not choose how a connect
ends: that is up to the transport, within `MaxFailures`.

### `ConnectionLifecycle.tla`: abstract specification

This is the five-state life cycle of spec.md 4.1: Disconnected, Connecting,
Connected, ReconnectScheduled, Closed. It allows only the transitions listed
there. A connect that fails at once goes straight from Disconnected to
ReconnectScheduled, because in the code it passes through Connecting within
one step. The abstract spec has one fairness condition: a pending connect or
an armed reconnect is eventually acted on.

`NetworkLogWriter` instantiates it with `LifecycleState`, which maps the
code's state to the five states:

| Code state | Abstract state |
|---|---|
| stop flag set, or loop stopped | Closed |
| `connecting` set, or socket connecting | Connecting |
| socket established | Connected |
| no socket, timer armed | ReconnectScheduled |
| anything else | Disconnected |

### `BoundedLogQueue.tla`: abstract specification of the pending queue

This is the queue of spec.md 3 and 4.2, without the connection: `Offer(m)`
appends `m` to `offered` and to `queue` exactly when the queued bytes plus
its size are within `MaxBufferSize` or it is never-discard; otherwise it
drops `m`. `Deliver` removes the head, and nothing else leaves the queue.
`QueuedBytes` is computed from the queue itself, with `FoldLeft`.

`NetworkLogWriter` instantiates it with `queue <- pendingMessages` and its
own `offered`: `QueueRefinement`. Each `WriteMessage` is an `Offer`, each pop
in `OnWriteSuccess` or an inline write a `Deliver`, and every other action a
stutter. So the refinement checks, in one property, that the discard test
uses the cached `pendingBytes` correctly against the true queue, that the
test is `>` and not `>=`, that a dropped buffer leaves no trace, and that no
handler removes or reorders a queued buffer. It does not speak about what
went on the wire; that is `sent`, and the violation runs `write_order` and
`message_loss`.

### `MC_NetworkLogWriter.tla`: the TLC instance

- Buffers are 1 or 2 bytes and `maxBufferSize_` is 3. So a second 2-byte
  buffer is discarded, a 1-byte buffer still fits, and `NEVER_DISCARD` can
  exceed the limit.
- There are 3 `writeMessage` calls, so two messages can be queued behind a
  third.
- There is 1 `flush`.
- There are 2 transport failures: a connection can be lost, and the
  reconnect can fail again.

These bounds reach every action and both branches of every handler, about
444k states in about 30 seconds. With 4 `writeMessage` calls, an earlier version of this configuration passed with 5.2M states, but that run took about 8 minutes, so the kept run uses 3 (the history variable `offered` tells apart states that differ only in what was discarded). `MCNoWrites` (no `writeMessage` at all) is
the bound of the inline-connect run: the deadlock there needs no message.

### `ConfigParsing.tla` and `MC_ConfigParsing.tla`: the factory's parsers

`parseMaxBufferSize` and `parseReconnectInterval` (NetworkHandlerFactory.cpp
105-164) are pure, so they are operators, not actions.

- A string is a sequence of one-character strings.
- A `uint64_t` is four 16-bit limbs, least significant first. TLC's integers
  are 32-bit; limbs keep the real 64-bit wrap exact.
- `LeadingDigits` is the `while (isdigit)` loop. `ToU64` is
  `folly::to<uint64_t>`: Horner's rule, with a range error once a carry
  leaves the top limb.
- `SizeUnits` and `IntervalUnits` are the unit branches, as lists of factors
  (milliseconds for the interval). `MulWrap` is `number * multiplier`
  modulo 2^64.
- `ParseNumberWithUnit` keeps the order of the code's checks: no digits or
  no unit, then the range error, then an unknown unit.
- `std::chrono` converts the count to a signed 64-bit value, and the
  scaling overflow is undefined behaviour. The build wraps it, so
  `IsNegative64` reads the top bit.

`MC_ConfigParsing` makes each input one initial state. The inputs are the
numbers 0, 1, 1024, 2^34, 3·10^12, 2^63, 2^64−1 and 2^64, each followed by
every unit and by malformed units (`K`, `kB`, `x`, `msx`), plus numbers
without a unit, units without a number, and the empty string: 117 strings.
It holds the two properties the parsers violate.

`ConfigGrammar.tla` holds the reference definitions, written without the
parsers: `WellFormed` (digits, then a unit of the table's text),
`FitsU64` (a digit-by-digit comparison with the decimal text of 2^64−1)
and `Overflows`.

### `HandlerFactory.tla` and `MC_HandlerFactory.tla`: the factory

`HandlerFactory` models the rest of NetworkHandlerFactory.cpp as operators
over a config map, a function from option names to strings:

- `CreateHandler` keeps the order of `createHandler`'s checks: host, port,
  the port's conversion, protocol, size, interval, then the
  `StandardLogHandlerFactory` step. Each consumed option is erased, and the
  defaults are TCP, 1 MiB and 5 s.
- `ToU16` is `to<uint16_t>`, and `ParseProtocol` lower-cases with
  `ToLowerAscii`. `UpdateHandler` always throws.
- `StandardHandler` stands for folly's `StandardLogHandlerFactory`. It
  accepts only `formatter`, `level` and `sync_level`, and the values of
  those are not checked.

`MC_HandlerFactory` makes every map built from a few values per option one
initial state: 20,736 maps. The values include, for the size and the
interval, 2^64−1 and 2^64, every unit, and strings without digits or
without a unit. `ValidConfig` is what a valid configuration must be for
`createHandler` to accept it: the required options, the port range, the
protocol names and the grammar of size and interval. It uses
`ConfigGrammar`, not the parsers. (Whether the accepted values are
positive, as spec.md 6 also asks, is the question of `size_wrap` and
`interval_positive`.)

`CreateFormatter` is `JSONLogFormatterFactory::createFormatter`: the
`pretty` option read with `ToBool`, false when absent. `ToBool` models folly's
`to<bool>` (`str_to_bool` in folly/Conv.cpp, then the check that only
spaces follow): leading spaces skipped; a run of `0`/`1` digits where a
digit after a `1` overflows (`01` is true, `10` an error); `y`/`yes`,
`n`/`no`, `t`/`true`, `f`/`false`, taken whole or as the single letter;
`on` and `off`; all in any case. `MC_HandlerFactory` gives it 26 values of
`pretty` (spellings, padded and upper-case ones, and near misses such as
`ye`, `of`, `yesno`, `t x`, the empty string), with and without an option
the factory ignores, and checks it against `Spelling`, a reference written
from folly's list of boolean spellings.

### `JsonLogFormatter.tla` and `JsonGrammar.tla`: the JSON formatter

`JSONLogFormatterFactory` in the same file creates a `JSONLogFormatter`
(part_001). `JsonLogFormatter` models it as operators on text, where text
is a sequence of symbols:

- A symbol is one character: a one-character string, or a name such as
  `"NUL"`, `"BS"`, `"US"` or `"DEL"` for a byte TLA+ cannot write.
- A symbol can also be one word of the record's fixed text: a key, a level
  name, the line number or the thread id.

The operators:

- `EscapeChar` is the switch of `escapeJsonString`'s loop, including the
  `\u{:04x}` default branch (`Hex4`, `ByteOf`).
- `LevelName` is the level chain, with folly's `LogLevel` values.
- `FormatMessage` writes the eight fields in the order of the format
  strings, in the compact layout (one line) or the pretty one (a line per
  field).
- `FormatTimestamp` is one word. `strftime` and `{:06d}` write only digits,
  `-`, `:`, `T` and `.`, which the code does not escape.

`JsonGrammar` is the reference: RFC 8259's string rules and a scanner,
`JsonStrings`, that returns the decoded strings of a text in order.
`MC_HandlerFactory` adds the formatter's inputs beside the configuration
maps. They are messages at four levels, in both layouts, whose text is
every string of up to three characters over 13 characters: each one the
switch treats apart, the control bytes of the default branch, and `a`,
`u` and `/`. That makes 19,040 records, and with the handler and formatter
maps 39,828 states.

## 3. Runs

| Run | Config | Expect | What it shows |
|---|---|---|---|
| `tcp_safety` | `MC_NetworkLogWriter_tcp.cfg` | pass | `TypeOK` (no size_t underflow), `PendingBytesConsistent`, `NeverStranded`, `ConnectingFlagAccurate`, `LifecycleRefinement` and `QueueRefinement` (the pending queue implements `BoundedLogQueue`) hold over every interleaving of callers, loop tasks, timer, inline and late callbacks, failures and shutdown |
| `udp_retry` | `MC_NetworkLogWriter_udp.cfg` | pass | With UDP, `connect()` throws every time. Its catch block keeps a reconnect armed (`NeverStranded`), and shutdown returns (`ShutdownTerminates`) |
| `factory_functions` | `MC_HandlerFactory_accepts.cfg` | pass | `AcceptsExactlyValid`: `createHandler` builds a handler exactly for the valid maps, and the size and interval parsers accept exactly their grammar, up to 2^64−1. `RecordsDecode`: every record `formatMessage` writes decodes to its keys and fields, and a compact record is one line. `FormatterFromConfig`: `createFormatter` throws exactly for a `pretty` value that is not a boolean spelling, and the formatter it returns writes a message holding a newline on one line unless `pretty` spells true |
| `shutdown_terminates` | `MC_NetworkLogWriter_shutdown.cfg` | violation | `ShutdownTerminates` fails: see finding 1 |
| `write_order` | `MC_NetworkLogWriter_order.cfg` | violation | `WritesInOrderOnce` fails: see finding 2 |
| `buffer_bound` | `MC_NetworkLogWriter_bound.cfg` | violation | `BufferBounded` fails: see finding 3 |
| `size_wrap` | `MC_ConfigParsing_size.cfg` | violation | `SizeExact` fails: see finding 4 |
| `interval_positive` | `MC_ConfigParsing_interval.cfg` | violation | `IntervalPositive` fails: see finding 5 |
| `inline_connect_deadlock` | `MC_NetworkLogWriter_inline.cfg` | violation | `ShutdownTerminates` fails with no message at all: see finding 6 |
| `message_loss` | `MC_NetworkLogWriter_loss.cfg` | violation | `PopOnlyWritten` fails: see finding 7 |

Every property of a passing run has a mutant in `PROJECT.json`. A mutant is
a plausible bug in a mapped definition, and TLC finds the property violated
when that bug is put in:

- a send that also debits `pendingBytes`;
- a pop that forgets to debit;
- a discard test `>=` where the code has `>` (an off-by-one at the cap);
- a `createFormatter` whose `prettyPrint` defaults to true;
- `onSocketClose` without a reconnect;
- `onConnectError` that leaves `connecting` set;
- an inverted `isScheduled()` test;
- a UDP catch block without a reconnect;
- a stop task that cancels the timer but never calls `terminateLoopSoon`;
- a size-unit table without `GB`;
- a `parseProtocol` without `toLowerAscii`;
- an `escapeJsonString` whose `'\n'` case writes a raw newline.

**`CHECK_DEADLOCK FALSE`.** The system really does stop in two ways. After
`cleanup` it stops normally. When a handler re-locks the lock, it stops
forever; that is finding 1. The pure-function models (`MC_ConfigParsing`,
`MC_HandlerFactory`) have only a stuttering step.

### Findings

1. **Self-deadlock (code bug, part_000:130, also line 155).**
   `onConnectSuccess` calls `sendPendingMessages()` while it holds the lock.
   Because the lock is not recursive, the EventBase thread blocks forever.
   Every later `writeMessage` then blocks too, and the destructor's `join()`
   never returns.
   - Trace: one message is written before the connection is up; `cleanup` is
     posted; the connect succeeds.
   - This is the setup of spec.md 8's own end-to-end scenario. Even if
     nothing is queued at connect time, a second queued message hangs the
     loop in `onWriteSuccess`.
2. **Duplicate writes (code bug, part_000:80 and 192).** Every `writeMessage`
   on a good socket, and every `flush`, posts its own send. Each send writes
   the current head.
   - Trace: a flush posted before the connect and one message written while
     connecting. The two sends then write the same message twice on one
     connection.
3. **Unbounded queue (spec/code divergence, part_000:69).** `NEVER_DISCARD`
   buffers bypass the discard check, so `pendingBytes` exceeds
   `maxBufferSize_`. The spec calls the queue resource-bounded and says the
   flag is not yet distinguished in the check.
4. **Buffer size wraps (code bug, NetworkHandlerFactory.cpp:163).**
   `number * multiplier` is computed modulo 2^64. So `"17179869184GB"`
   (2^34 GB, that is 2^64 bytes) is accepted as 0. `"0B"` is accepted as 0
   as well; TLC reports it first. With a zero cap the writer discards every
   ordinary message. spec.md 6 says malformed input is rejected and
   the core receives a positive byte count.
5. **Zero or negative reconnect interval (spec/code divergence,
   NetworkHandlerFactory.cpp:124).** `"0s"` is accepted and gives a zero
   interval: a reconnect loop with no pause. A count of 2^63 ms or more
   becomes negative. spec.md 6 says the interval is a positive duration.
6. **Inline connect deadlock (code bug, part_000:108).** `connect()` calls
   `socket->connect()` while it holds the lock. If AsyncSocket finishes the
   connect at once (a refused or immediate local connect), it calls
   `connectErr` or `connectSuccess` inside that call, and the callback
   locks again. Trace: `cleanup` is posted, the constructor's connect runs
   and completes inline; the loop is blocked and `join()` never returns.
   No message needs to be written. A write completed inside `write()`
   (line 192) blocks the same way.
7. **Message loss (code bug, part_000:150).** `onWriteSuccess` pops the
   queue's head, whatever was written. After a duplicate send (finding 2)
   two completions arrive for one message, and the second pops the next
   message, which was never written. Trace: message 1 is sent twice, both
   writes complete, and message 2 leaves the queue unsent.

## 4. What is not modelled, and why

- **Time.** The reconnect interval and the 5 s connect timeout are not
  modelled. "A reconnect not before the interval" cannot be stated without a
  clock. Only the order of events is modelled.
- **Registration.** `registerNetworkLoggingFactories` passes a
  `JSONLogFormatterFactory`, a `LogFormatterFactory`, to
  `LoggerDB::registerHandlerFactory`, which takes a `LogHandlerFactory`
  (NetworkHandlerFactory.cpp:212). The file does not compile as written,
  so there is no run-time registration to model. It should go through
  `registerFormatterFactory`.
- **`StandardLogHandlerFactory`.** It is folly's, not this repository's. It
  is abstracted to the set of options it accepts.
- **Non-ASCII bytes in `escapeJsonString`.** Bytes of 0x80 and above are
  copied raw. Whether they form valid UTF-8, which JSON requires, is up to
  the caller, so they are not among the inputs.
- **`formatTimestamp`.** It calls libc `localtime_r`/`strftime`.
- **The catch in `timeoutExpired`.** It is unreachable: `connect` catches
  everything itself.
- **Delivery after a failed write.** The model treats a failed write as not
  delivered. spec.md 7(c) accepts loss and duplication across reconnects,
  so no property is stated about the duplicate. What the code must do, keep
  the message at the head and arm a reconnect, is `NeverStranded`.

## 5. Plan

The most important behaviour comes first.

1. *(done)* `NetworkLogWriter`, `ConnectionLifecycle`, `MC_NetworkLogWriter`.
2. *(done)* Transport options: inline completion of `connect`/`write`
   callbacks (finding 6), and `terminateLoopSoon`.
3. *(done)* `ConfigParsing`, `ConfigGrammar`, `HandlerFactory`: the parsers
   with exact 64-bit wrap, `createHandler`, `parseProtocol`, the port range,
   `updateHandler`.
4. *(done)* `JsonLogFormatter` and `JsonGrammar`: `escapeJsonString` and
   `formatMessage`, checked against a JSON string decoder.
5. *(done)* `BoundedLogQueue` and `QueueRefinement`: the pending queue's
   enqueue-or-drop and pop-head. `createFormatter` with `to<bool>`.
6. **A channel refinement.** An abstract at-most-once FIFO channel
   implemented by `sent`. As the code stands it fails by findings 2 and 7,
   which the violation runs already show, so it would add a run and no
   new fact.
7. Delivery liveness. Every path that delivers a second message runs
   through the self-deadlock of finding 1, so a liveness property with the
   deadlock excluded would only test the post in `writeMessage` (line 79).
   It is left until finding 1 is fixed.

What is left is library code: EventBase and AsyncSocket are folly's, and
the model keeps only the behaviour the writer sees of them. The rest of
NetworkHandlerFactory.cpp and its header is includes, declarations and
namespace lines.
