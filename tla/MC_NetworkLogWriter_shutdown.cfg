\* spec.md 8: destroying the writer always returns.  Expected to fail
\* with a transport that reports asynchronously: a handler re-locks the
\* ConnectionState lock and the loop never stops.
CONSTANTS
  Protocol = "TCP"
  Sizes <- MCSizes
  MaxBufferSize <- MCMaxBufferSize
  MaxWrites <- MCMaxWrites
  MaxFlushes <- MCMaxFlushes
  MaxFailures <- MCMaxFailures
  InlineCompletion = FALSE

SPECIFICATION Spec

PROPERTIES
  ShutdownTerminates

\* The stop is the property under test, not a deadlock report.
CHECK_DEADLOCK FALSE
