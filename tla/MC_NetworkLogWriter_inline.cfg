\* spec.md 8: destroying the writer always returns, even for a writer
\* nothing was logged to.  Expected to fail: a connect that completes
\* inside socket->connect() calls its callback under the held lock.
CONSTANTS
  Protocol = "TCP"
  Sizes <- MCSizes
  MaxBufferSize <- MCMaxBufferSize
  MaxWrites <- MCNoWrites
  MaxFlushes <- MCMaxFlushes
  MaxFailures <- MCMaxFailures
  InlineCompletion = TRUE

SPECIFICATION Spec

PROPERTIES
  ShutdownTerminates

\* The stop is the property under test, not a deadlock report.
CHECK_DEADLOCK FALSE
