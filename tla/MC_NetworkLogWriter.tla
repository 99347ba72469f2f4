------------------------ MODULE MC_NetworkLogWriter ------------------------
(***************************************************************************)
(* NetworkLogWriter instantiated for TLC.  Buffers of 1 and 2 bytes        *)
(* against a 3-byte maxBufferSize_: a second 2-byte buffer is discarded,   *)
(* a 1-byte one is not, and NEVER_DISCARD can push past the limit.  Three  *)
(* writeMessage calls are enough for two of them to be queued behind a     *)
(* third; one flush; two transport failures let a connection fail and a   *)
(* reconnect fail again.                                                   *)
(***************************************************************************)
EXTENDS NetworkLogWriter

MCSizes == {1, 2}
MCMaxBufferSize == 3
MCMaxWrites == 3
MCMaxFlushes == 1
MCMaxFailures == 2
\* A writer nothing is ever logged to.
MCNoWrites == 0

=============================================================================
