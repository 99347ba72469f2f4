\* spec.md 3/4.2: onWriteSuccess pops only the message whose write
\* completed.  Expected to fail: a success for a duplicated write pops a
\* later message that was never written.
CONSTANTS
  Protocol = "TCP"
  Sizes <- MCSizes
  MaxBufferSize <- MCMaxBufferSize
  MaxWrites <- MCMaxWrites
  MaxFlushes <- MCMaxFlushes
  MaxFailures <- MCMaxFailures
  InlineCompletion = TRUE

SPECIFICATION Spec

PROPERTIES
  PopOnlyWritten

CHECK_DEADLOCK FALSE
