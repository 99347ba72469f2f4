\* UDP writer: connect() throws every time; the writer must keep a
\* reconnect armed through its catch block, and destroying it returns.
CONSTANTS
  Protocol = "UDP"
  Sizes <- MCSizes
  MaxBufferSize <- MCMaxBufferSize
  MaxWrites <- MCMaxWrites
  MaxFlushes <- MCMaxFlushes
  MaxFailures <- MCMaxFailures
  InlineCompletion = TRUE

SPECIFICATION Spec

INVARIANTS
  NeverStranded

PROPERTIES
  ShutdownTerminates

\* The system stops for good once cleanup has joined the loop thread.
CHECK_DEADLOCK FALSE
