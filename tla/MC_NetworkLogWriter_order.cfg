\* spec.md 4.2/8: FIFO delivery without duplication on a connection.
\* Expected to fail: two queued sends both write the same head.
CONSTANTS
  Protocol = "TCP"
  Sizes <- MCSizes
  MaxBufferSize <- MCMaxBufferSize
  MaxWrites <- MCMaxWrites
  MaxFlushes <- MCMaxFlushes
  MaxFailures <- MCMaxFailures
  InlineCompletion = TRUE

SPECIFICATION Spec

INVARIANTS
  WritesInOrderOnce

CHECK_DEADLOCK FALSE
