--------------------------- MODULE BoundedLogQueue ---------------------------
(***************************************************************************)
(* What the writer promises about its pending queue, as spec.md sections  *)
(* 3 and 4.2 state it: every buffer offered to writeMessage is either     *)
(* appended to the queue or dropped, and it is dropped exactly when the   *)
(* queued bytes plus its size would exceed the cap and it is not marked   *)
(* never-discard; entries leave the queue only from its head, when a      *)
(* transmission succeeds.  Nothing here says how; NetworkLogWriter is     *)
(* shown to implement it.                                                  *)
(***************************************************************************)
EXTENDS Naturals, Sequences, SequencesExt

CONSTANTS
  Messages,       \* the buffers a caller may offer: [size, neverDiscard, ...]
  MaxBufferSize   \* the byte cap

VARIABLES
  queue,    \* the pending entries, oldest first
  offered   \* every buffer offered so far, in order

vars == <<queue, offered>>

QueuedBytes == FoldLeft(LAMBDA acc, m : acc + m.size, 0, queue)

\* The backpressure rule of spec.md 4.2 step 2.
Admitted(m) == QueuedBytes + m.size <= MaxBufferSize \/ m.neverDiscard

Init == queue = <<>> /\ offered = <<>>

\* writeMessage: enqueue the buffer, or drop it and leave no trace in the
\* queue.
Offer(m) ==
  /\ offered' = Append(offered, m)
  /\ queue' = IF Admitted(m) THEN Append(queue, m) ELSE queue

\* A transmission of the head succeeded: the head is popped.
Deliver ==
  /\ queue # <<>>
  /\ queue' = Tail(queue)
  /\ UNCHANGED offered

Next == (\E m \in Messages : Offer(m)) \/ Deliver

Spec == Init /\ [][Next]_vars

=============================================================================
