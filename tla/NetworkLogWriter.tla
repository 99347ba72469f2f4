-------------------------- MODULE NetworkLogWriter --------------------------
(***************************************************************************)
(* folly::NetworkLogWriter (src/unnamed/part_000, header part_003).        *)
(*                                                                         *)
(* Three kinds of actor share one Synchronized<ConnectionState>:           *)
(*   - caller threads: writeMessage and flush;                             *)
(*   - the EventBase thread: tasks posted with runInEventBaseThread (run   *)
(*     in FIFO order), the reconnect timer, and the AsyncSocket callbacks; *)
(*   - the owner thread: the destructor (cleanup), which posts a stop task *)
(*     and then joins the EventBase thread.                                *)
(* Every handler runs while holding the ConnectionState lock, so one       *)
(* handler is one atomic step.  The lock is not recursive: a handler that  *)
(* calls sendPendingMessages() while it holds the lock blocks its own      *)
(* thread forever (loop = "blocked"), and with it everyone who needs the   *)
(* lock afterwards.                                                        *)
(*                                                                         *)
(* The transport (AsyncSocket) is the environment: a connect attempt       *)
(* succeeds or fails, a write completes or fails, an established           *)
(* connection may close.  Failures are capped by MaxFailures.  With       *)
(* InlineCompletion, AsyncSocket may also finish a connect or a write      *)
(* inside the connect()/write() call itself and invoke the callback there, *)
(* on the EventBase thread that still holds the lock.  "socket"            *)
(* abstracts state->socket together with the AsyncSocket's own state;      *)
(* good() holds in "connecting" and "established", as it does for          *)
(* AsyncSocket.                                                            *)
(***************************************************************************)
EXTENDS Naturals, Sequences, SequencesExt

CONSTANTS
  Protocol,       \* protocol_: "TCP" or "UDP"
  MaxBufferSize,  \* maxBufferSize_
  Sizes,          \* the buffer sizes callers pass to writeMessage
  MaxWrites,      \* bound: number of writeMessage calls
  MaxFlushes,     \* bound: number of flush calls
  MaxFailures,    \* bound: number of transport failures injected
  InlineCompletion \* AsyncSocket may run a callback inside connect()/write()

ASSUME /\ Protocol \in {"TCP", "UDP"}
       /\ MaxBufferSize \in Nat
       /\ Sizes \subseteq Nat
       /\ {MaxWrites, MaxFlushes, MaxFailures} \subseteq Nat
       /\ InlineCompletion \in BOOLEAN

VARIABLES
  socket,           \* state->socket: "none", "connecting" or "established"
  pendingMessages,  \* state->pendingMessages: Seq of [id, size, neverDiscard]
  pendingBytes,     \* state->pendingBytes
  connecting,       \* state->connecting
  closed,           \* state->closed
  timerScheduled,   \* reconnectTimeout_->isScheduled()
  loopQueue,        \* callbacks posted with runInEventBaseThread, FIFO
  loop,             \* EventBase thread: "running", "blocked" or "stopped"
  stop,             \* the EventBase's stop flag, set by terminateLoopSoon
  owner,            \* destructor progress: "live", "joining", "destroyed"
  inflight,         \* ids handed to socket->write, completion not yet seen
  sent,             \* history: every socket->write as [id, conn]
  conn,             \* number of sockets created so far
  offered,          \* history: the buffers of every writeMessage call, in order
  failures,         \* number of transport failures so far
  flushes           \* number of flush calls so far

vars == <<socket, pendingMessages, pendingBytes, connecting, closed,
          timerScheduled, loopQueue, loop, stop, owner, inflight, sent, conn,
          offered, failures, flushes>>

Tasks == {"connect", "send", "stop"}

Msgs == [id : 1..MaxWrites, size : Sizes, neverDiscard : BOOLEAN]

\* state->socket && state->socket->good()
Good == socket # "none"

SumSizes(s) == FoldLeft(LAMBDA acc, m : acc + m.size, 0, s)

\* A handler on the EventBase thread calls sendPendingMessages() while it
\* holds the lock; sendPendingMessages' own connectionState_.lock() never
\* returns.
RelockFromLoop == loop' = "blocked"

\* What socket->write does after handing the buffer to AsyncSocket: return,
\* or, on an established socket whose write completes at once, invoke
\* writeSuccess/writeErr inline, whose handler locks the held lock.
AfterWrite ==
  \/ UNCHANGED loop
  \/ InlineCompletion /\ socket = "established" /\ RelockFromLoop

-----------------------------------------------------------------------------
(* Helpers called from the handlers.                                       *)

ScheduleReconnectInverted(armed) ==
  IF armed THEN timerScheduled' = TRUE
           ELSE timerScheduled' = armed

\* scheduleReconnect, where armed is reconnectTimeout_->isScheduled() as
\* the caller sees it: schedule the timeout unless it is already scheduled.
ScheduleReconnect(armed) ==
  IF ~armed THEN timerScheduled' = TRUE
            ELSE timerScheduled' = armed

SendPendingMessagesTakesHead ==
  IF pendingMessages = <<>> \/ ~Good
  THEN UNCHANGED <<inflight, sent, pendingBytes, loop>>
  ELSE /\ inflight' = Append(inflight, Head(pendingMessages).id)
       /\ sent' = Append(sent, [id |-> Head(pendingMessages).id, conn |-> conn])
       /\ pendingBytes' = pendingBytes - Head(pendingMessages).size
       /\ AfterWrite

\* sendPendingMessages: write the head of the queue, if any, on a good
\* socket.  The head stays queued until onWriteSuccess pops it; nothing
\* records that a write of it is already in flight.
SendPendingMessages ==
  IF pendingMessages = <<>> \/ ~Good
  THEN UNCHANGED <<inflight, sent, pendingBytes, loop>>
  ELSE /\ inflight' = Append(inflight, Head(pendingMessages).id)
       /\ sent' = Append(sent, [id |-> Head(pendingMessages).id, conn |-> conn])
       /\ UNCHANGED pendingBytes
       /\ AfterWrite

ConnectCatchNoRetry(armed) ==
  /\ UNCHANGED <<connecting, socket, conn, loop>>
  /\ timerScheduled' = armed

\* connect's catch block: connecting, set just before the throw, is
\* cleared again, and a reconnect is scheduled.
ConnectCatch(armed) ==
  /\ UNCHANGED <<connecting, socket, conn, loop>>
  /\ ScheduleReconnect(armed)

\* connect, where armed is isScheduled() as connect sees it: a no-op while
\* connecting or while the socket is good; otherwise set connecting and
\* create a TCP socket, or, for UDP, throw into the catch block.  The TCP
\* socket->connect either returns with the attempt in flight, and the
\* socket is stored in state->socket; or it completes at once (an address
\* that does not resolve, a refused or an immediate loopback connect) and
\* calls connectErr/connectSuccess inline, before state->socket is set,
\* whose handler locks the held lock.
Connect(armed) ==
  IF connecting \/ Good
  THEN /\ UNCHANGED <<connecting, socket, conn, loop>>
       /\ timerScheduled' = armed
  ELSE IF Protocol = "TCP"
       THEN /\ connecting' = TRUE
            /\ conn' = conn + 1
            /\ timerScheduled' = armed
            /\ \/ socket' = "connecting" /\ UNCHANGED loop
               \/ InlineCompletion /\ UNCHANGED socket /\ RelockFromLoop
       ELSE ConnectCatch(armed)

-----------------------------------------------------------------------------
(* Caller threads.  A caller stops using the writer before its destructor  *)
(* runs (the destructor runs when the last shared_ptr is released).        *)

DiscardAtLimit(size, neverDiscard) ==
  pendingBytes + size >= MaxBufferSize /\ ~neverDiscard

\* writeMessage's tail: if we're connected (the socket is good), post a
\* sendPendingMessages to the EventBase thread.
PostSendIfGood ==
  loopQueue' = IF Good THEN Append(loopQueue, "send") ELSE loopQueue

\* writeMessage's discard test.
Discard(size, neverDiscard) ==
  pendingBytes + size > MaxBufferSize /\ ~neverDiscard

\* writeMessage: under the lock, drop the buffer if it would take
\* pendingBytes past maxBufferSize_ and it is not NEVER_DISCARD; otherwise
\* queue it and, if the socket is good, post a sendPendingMessages.  The
\* lock is unavailable while the EventBase thread is blocked holding it.
WriteMessage(size, neverDiscard) ==
  /\ owner = "live"
  /\ loop # "blocked"
  /\ Len(offered) < MaxWrites
  /\ LET m == [id |-> Len(offered) + 1, size |-> size,
               neverDiscard |-> neverDiscard]
     IN /\ offered' = Append(offered, m)
        /\ \/ /\ Discard(size, neverDiscard)
              /\ UNCHANGED <<pendingMessages, pendingBytes, loopQueue>>
           \/ /\ ~Discard(size, neverDiscard)
              /\ pendingMessages' = Append(pendingMessages, m)
              /\ pendingBytes' = pendingBytes + size
              /\ PostSendIfGood
  /\ UNCHANGED <<stop, socket, connecting, closed, timerScheduled, loop, owner,
                 inflight, sent, conn, failures, flushes>>

\* flush: post a sendPendingMessages, without taking the lock.
Flush ==
  /\ owner = "live"
  /\ flushes < MaxFlushes
  /\ flushes' = flushes + 1
  /\ loopQueue' = Append(loopQueue, "send")
  /\ UNCHANGED <<stop, socket, pendingMessages, pendingBytes, connecting, closed,
                 timerScheduled, loop, owner, inflight, sent, conn, offered,
                 failures>>

-----------------------------------------------------------------------------
(* The EventBase thread.  Posted tasks run in FIFO order; the timer and    *)
(* the socket callbacks interleave with them.                              *)

\* The constructor's posted task: connect().
RunConnect ==
  /\ loop = "running"
  /\ loopQueue # <<>> /\ Head(loopQueue) = "connect"
  /\ loopQueue' = Tail(loopQueue)
  /\ Connect(timerScheduled)
  /\ UNCHANGED <<stop, pendingMessages, pendingBytes, closed, owner, inflight,
                 sent, offered, failures, flushes>>

\* A task posted by writeMessage or flush: sendPendingMessages().
RunSend ==
  /\ loop = "running"
  /\ loopQueue # <<>> /\ Head(loopQueue) = "send"
  /\ loopQueue' = Tail(loopQueue)
  /\ SendPendingMessages
  /\ UNCHANGED <<stop, socket, pendingMessages, connecting, closed, timerScheduled,
                 owner, conn, offered, failures, flushes>>

RunStopNoTerminate ==
  /\ loop = "running"
  /\ loopQueue # <<>> /\ Head(loopQueue) = "stop"
  /\ loopQueue' = Tail(loopQueue)
  /\ timerScheduled' = FALSE
  /\ UNCHANGED <<stop, socket, pendingMessages, pendingBytes, connecting, closed,
                 loop, owner, inflight, sent, conn, offered, failures, flushes>>

\* cleanup's posted task: cancel the reconnect timeout and call
\* terminateLoopSoon, which sets the stop flag and breaks libevent's event
\* processing: no socket event or timeout is handled after it, even if
\* one is pending, and the loop returns (EndIteration).
RunStop ==
  /\ loop = "running"
  /\ loopQueue # <<>> /\ Head(loopQueue) = "stop"
  /\ loopQueue' = Tail(loopQueue)
  /\ timerScheduled' = FALSE
  /\ stop' = TRUE
  /\ UNCHANGED <<socket, pendingMessages, pendingBytes, connecting, closed,
                 loop, owner, inflight, sent, conn, offered, failures,
                 flushes>>

\* The iteration in which terminateLoopSoon was called ends: loopForever
\* returns and the EventBase thread exits.  Posted tasks the notification
\* queue hands over in the same batch may still run before it.
EndIteration ==
  /\ loop = "running"
  /\ stop
  /\ loop' = "stopped"
  /\ UNCHANGED <<socket, pendingMessages, pendingBytes, connecting, closed,
                 timerScheduled, loopQueue, stop, owner, inflight, sent, conn,
                 offered, failures, flushes>>

\* ReconnectTimeout::timeoutExpired: the timeout is no longer scheduled
\* while its callback runs; it calls connect().  (The catch around it is
\* unreachable: connect catches every std::exception itself.)
TimeoutExpired ==
  /\ loop = "running"
  /\ timerScheduled
  /\ ~stop
  /\ Connect(FALSE)
  /\ UNCHANGED <<stop, pendingMessages, pendingBytes, closed, loopQueue, owner,
                 inflight, sent, offered, failures, flushes>>

\* onConnectSuccess: clear connecting and, with messages queued, call
\* sendPendingMessages() while still holding the lock.
OnConnectSuccess ==
  /\ loop = "running" /\ ~stop
  /\ socket = "connecting"
  /\ socket' = "established"
  /\ connecting' = FALSE
  /\ IF pendingMessages # <<>> THEN RelockFromLoop ELSE UNCHANGED loop
  /\ UNCHANGED <<stop, pendingMessages, pendingBytes, closed, timerScheduled,
                 loopQueue, owner, inflight, sent, conn, offered, failures,
                 flushes>>

OnConnectErrorKeepsFlag ==
  /\ loop = "running" /\ ~stop
  /\ socket = "connecting"
  /\ failures < MaxFailures
  /\ failures' = failures + 1
  /\ socket' = "none"
  /\ inflight' = <<>>
  /\ ScheduleReconnect(timerScheduled)
  /\ UNCHANGED <<stop, pendingMessages, pendingBytes, connecting, closed, loopQueue,
                 loop, owner, sent, conn, offered, flushes>>

\* onConnectError: clear connecting, drop the socket (and the writes queued
\* on it), schedule a reconnect.
OnConnectError ==
  /\ loop = "running" /\ ~stop
  /\ socket = "connecting"
  /\ failures < MaxFailures
  /\ failures' = failures + 1
  /\ connecting' = FALSE
  /\ socket' = "none"
  /\ inflight' = <<>>
  /\ ScheduleReconnect(timerScheduled)
  /\ UNCHANGED <<stop, pendingMessages, pendingBytes, closed, loopQueue, loop, owner,
                 sent, conn, offered, flushes>>

PopHeadKeepsBytes ==
  IF pendingMessages # <<>>
  THEN pendingMessages' = Tail(pendingMessages) /\ UNCHANGED pendingBytes
  ELSE UNCHANGED <<pendingMessages, pendingBytes>>

\* onWriteSuccess's first step: pop the head of the queue, whichever
\* message it is, and take its size off pendingBytes.
PopHead ==
  IF pendingMessages # <<>>
  THEN /\ pendingMessages' = Tail(pendingMessages)
       /\ pendingBytes' = pendingBytes - Head(pendingMessages).size
  ELSE UNCHANGED <<pendingMessages, pendingBytes>>

\* onWriteSuccess: the oldest write completed; pop the head and, if more
\* remain on a good socket, call sendPendingMessages() under the lock.
OnWriteSuccess ==
  /\ loop = "running" /\ ~stop
  /\ socket = "established"
  /\ inflight # <<>>
  /\ inflight' = Tail(inflight)
  /\ PopHead
  /\ IF pendingMessages' # <<>> /\ Good THEN RelockFromLoop
                                        ELSE UNCHANGED loop
  /\ UNCHANGED <<stop, socket, connecting, closed, timerScheduled, loopQueue, owner,
                 sent, conn, offered, failures, flushes>>

\* onWriteError: AsyncSocket moves the socket to its error state before it
\* calls writeErr, so state->socket->good() is false here and the resend
\* branch is never taken: drop the socket (and the writes queued on it)
\* and schedule a reconnect.
OnWriteError ==
  /\ loop = "running" /\ ~stop
  /\ socket = "established"
  /\ inflight # <<>>
  /\ failures < MaxFailures
  /\ failures' = failures + 1
  /\ socket' = "none"
  /\ inflight' = <<>>
  /\ ScheduleReconnect(timerScheduled)
  /\ UNCHANGED <<stop, pendingMessages, pendingBytes, connecting, closed, loopQueue,
                 loop, owner, sent, conn, offered, flushes>>

OnSocketCloseNoReconnect ==
  /\ loop = "running" /\ ~stop
  /\ socket = "established"
  /\ failures < MaxFailures
  /\ failures' = failures + 1
  /\ socket' = "none"
  /\ inflight' = <<>>
  /\ UNCHANGED <<stop, pendingMessages, pendingBytes, connecting, closed,
                 timerScheduled, loopQueue, loop, owner, sent, conn, offered,
                 flushes>>

\* onSocketClose: the established connection closed; drop the socket and
\* schedule a reconnect.
OnSocketClose ==
  /\ loop = "running" /\ ~stop
  /\ socket = "established"
  /\ failures < MaxFailures
  /\ failures' = failures + 1
  /\ socket' = "none"
  /\ inflight' = <<>>
  /\ ScheduleReconnect(timerScheduled)
  /\ UNCHANGED <<stop, pendingMessages, pendingBytes, connecting, closed, loopQueue,
                 loop, owner, sent, conn, offered, flushes>>

-----------------------------------------------------------------------------
(* The owner thread: ~NetworkLogWriter -> cleanup().                       *)

\* cleanup, first half: post the stop task, then block in join().
CleanupPost ==
  /\ owner = "live"
  /\ owner' = "joining"
  /\ loopQueue' = Append(loopQueue, "stop")
  /\ UNCHANGED <<stop, socket, pendingMessages, pendingBytes, connecting, closed,
                 timerScheduled, loop, inflight, sent, conn, offered, failures,
                 flushes>>

\* cleanup, second half: join() returns once the loop has stopped; then,
\* under the lock, set closed and release the socket.
CleanupJoin ==
  /\ owner = "joining"
  /\ loop = "stopped"
  /\ owner' = "destroyed"
  /\ closed' = TRUE
  /\ socket' = "none"
  /\ inflight' = <<>>
  /\ UNCHANGED <<stop, pendingMessages, pendingBytes, connecting, timerScheduled,
                 loopQueue, loop, sent, conn, offered, failures, flushes>>

-----------------------------------------------------------------------------

\* The constructor: empty ConnectionState, the EventBase thread started, and
\* connect() posted to it.
Init ==
  /\ socket = "none"
  /\ pendingMessages = <<>>
  /\ pendingBytes = 0
  /\ connecting = FALSE
  /\ closed = FALSE
  /\ timerScheduled = FALSE
  /\ loopQueue = <<"connect">>
  /\ loop = "running"
  /\ stop = FALSE
  /\ owner = "live"
  /\ inflight = <<>>
  /\ sent = <<>>
  /\ conn = 0
  /\ offered = <<>>
  /\ failures = 0
  /\ flushes = 0

Next ==
  \/ \E size \in Sizes, nd \in BOOLEAN : WriteMessage(size, nd)
  \/ Flush
  \/ RunConnect
  \/ RunSend
  \/ RunStop
  \/ EndIteration
  \/ TimeoutExpired
  \/ OnConnectSuccess
  \/ OnConnectError
  \/ OnWriteSuccess
  \/ OnWriteError
  \/ OnSocketClose
  \/ CleanupPost
  \/ CleanupJoin

\* The EventBase thread runs its posted tasks and the expired timer; a
\* connect attempt ends (AsyncSocket's 5 s connect timeout); join()
\* returns once the loop thread has exited.  Callers, and which way a
\* connect ends, are not fair.
Fairness ==
  /\ WF_vars(RunConnect \/ RunSend \/ RunStop)
  /\ WF_vars(TimeoutExpired)
  /\ WF_vars(OnConnectSuccess \/ OnConnectError)
  /\ WF_vars(EndIteration)
  /\ WF_vars(CleanupJoin)

Spec == Init /\ [][Next]_vars /\ Fairness

-----------------------------------------------------------------------------
(* Properties.                                                             *)

\* Every variable holds a value of its type; in particular pendingBytes,
\* a size_t, never goes below zero.
TypeOK ==
  /\ socket \in {"none", "connecting", "established"}
  /\ pendingMessages \in Seq(Msgs)
  /\ pendingBytes \in Nat
  /\ connecting \in BOOLEAN /\ closed \in BOOLEAN /\ timerScheduled \in BOOLEAN
  /\ loopQueue \in Seq(Tasks)
  /\ loop \in {"running", "blocked", "stopped"}
  /\ stop \in BOOLEAN
  /\ owner \in {"live", "joining", "destroyed"}
  /\ inflight \in Seq(1..MaxWrites)
  /\ sent \in Seq([id : 1..MaxWrites, conn : Nat])
  /\ offered \in Seq(Msgs)
  /\ {conn, failures, flushes} \subseteq Nat

\* pendingBytes, maintained by writeMessage and onWriteSuccess, always
\* equals the total size of the queued buffers (spec.md section 8).
PendingBytesConsistent == pendingBytes = SumSizes(pendingMessages)

Queue == INSTANCE BoundedLogQueue
           WITH Messages <- Msgs, queue <- pendingMessages

\* The writer implements the pending queue of spec.md 4.2: writeMessage
\* drops a buffer exactly when the queued bytes plus its size exceed
\* maxBufferSize_ and it is not NEVER_DISCARD, and otherwise appends it;
\* an entry leaves the queue only from its head.  The discard test reads
\* the cached pendingBytes, the rule the true size of the queue; sends,
\* completions and failures interleave with the writes.
QueueRefinement == Queue!Spec

\* While the EventBase thread runs and no stop was requested, the writer
\* is never stranded: it has a socket (connecting or established), an armed reconnect timer, or the
\* constructor's connect task still queued.  Otherwise no code path would
\* ever connect again.
NeverStranded ==
  loop = "running" /\ ~stop => Good \/ timerScheduled \/ Contains(loopQueue, "connect")

\* Until cleanup tears the state down, state->connecting is true exactly
\* while a connect attempt is in flight (spec.md section 3), across
\* connect, its callbacks and the timer -- except in the frozen state of a
\* loop thread blocked inside a handler, where connect() may have stopped
\* between setting connecting and storing the socket.
ConnectingFlagAccurate ==
  ~closed /\ loop # "blocked" => (connecting = (socket = "connecting"))

\* The connection life cycle of spec.md section 4.1, read off the code's
\* state: once terminateLoopSoon was called the writer is Closed;
\* otherwise the socket decides, and without one an armed timer means ReconnectScheduled.
LifecycleState ==
  CASE stop \/ loop = "stopped" -> "Closed"
    [] connecting \/ socket = "connecting" -> "Connecting"
    [] socket = "established"  -> "Connected"
    [] timerScheduled          -> "ReconnectScheduled"
    [] OTHER                   -> "Disconnected"

Lifecycle == INSTANCE ConnectionLifecycle WITH lcState <- LifecycleState

\* The writer implements the abstract life cycle: only the transitions of
\* spec.md section 4.1 occur (no Connected -> Connecting, nothing leaves
\* Closed), and a scheduled reconnect is eventually attempted.
LifecycleRefinement == Lifecycle!Spec

\* The pending queue is bounded by maxBufferSize_ (spec.md section 1: "a
\* resource-bounded queue"; section 6: NEVER_DISCARD is "not yet
\* distinguished from normal handling in the discard check").
BufferBounded == pendingBytes <= MaxBufferSize

\* Each connection carries every message at most once and in queue order:
\* the ids handed to socket->write on one socket strictly increase
\* (spec.md sections 4.2 and 8: FIFO, "no duplication").
WritesInOrderOnce ==
  \A i, j \in DOMAIN sent :
    i < j /\ sent[i].conn = sent[j].conn => sent[i].id < sent[j].id

\* onWriteSuccess removes from the queue only the message whose write just
\* completed (spec.md sections 3 and 4.2: the head is popped when "that
\* specific write" completes), so no queued message leaves the queue
\* without having been written: every step that shortens the queue pops
\* the message of the oldest write in flight.
PopOnlyWritten ==
  [][Len(pendingMessages') < Len(pendingMessages)
       => inflight # <<>> /\ Head(pendingMessages).id = Head(inflight)]_vars

\* Destroying the writer always returns: once cleanup has posted its stop
\* task, join() eventually returns (spec.md section 8).
ShutdownTerminates == owner = "joining" ~> owner = "destroyed"

=============================================================================
