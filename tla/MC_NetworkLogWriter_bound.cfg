\* spec.md 1/6: the pending queue is bounded by maxBufferSize_.
\* Expected to fail: NEVER_DISCARD buffers bypass the discard check.
CONSTANTS
  Protocol = "TCP"
  Sizes <- MCSizes
  MaxBufferSize <- MCMaxBufferSize
  MaxWrites <- MCMaxWrites
  MaxFlushes <- MCMaxFlushes
  MaxFailures <- MCMaxFailures
  InlineCompletion = TRUE

SPECIFICATION Spec

INVARIANTS
  BufferBounded

CHECK_DEADLOCK FALSE
