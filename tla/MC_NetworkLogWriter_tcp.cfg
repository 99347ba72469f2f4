\* TCP writer: safety of the queue and the connection state, and the
\* refinement of the abstract connection life cycle.
CONSTANTS
  Protocol = "TCP"
  Sizes <- MCSizes
  MaxBufferSize <- MCMaxBufferSize
  MaxWrites <- MCMaxWrites
  MaxFlushes <- MCMaxFlushes
  MaxFailures <- MCMaxFailures
  InlineCompletion = TRUE

SPECIFICATION Spec

INVARIANTS
  TypeOK
  PendingBytesConsistent
  NeverStranded
  ConnectingFlagAccurate

PROPERTIES
  LifecycleRefinement
  QueueRefinement

\* The EventBase thread really does stop for good: after cleanup, and when a
\* handler re-locks the ConnectionState lock (run shutdown_terminates).
CHECK_DEADLOCK FALSE
