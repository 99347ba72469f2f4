------------------------- MODULE ConnectionLifecycle -------------------------
(***************************************************************************)
(* What the network log writer promises about its connection, as spec.md   *)
(* section 4.1 states it: five states, the transitions between them, and   *)
(* that a scheduled reconnect is eventually attempted.  Nothing here says  *)
(* how; NetworkLogWriter is shown to implement it.                         *)
(***************************************************************************)

VARIABLE lcState

States == {"Disconnected", "Connecting", "Connected", "ReconnectScheduled",
           "Closed"}

Init == lcState = "Disconnected"

\* An explicit connect request, or the reconnect timer firing.
StartConnect ==
  /\ lcState \in {"Disconnected", "ReconnectScheduled"}
  /\ lcState' = "Connecting"

\* A connect attempt that fails at once (an unsupported protocol) passes
\* through Connecting within one step.
FailAtOnce ==
  /\ lcState = "Disconnected"
  /\ lcState' = "ReconnectScheduled"

Handshake ==
  /\ lcState = "Connecting"
  /\ lcState' = "Connected"

HandshakeFailed ==
  /\ lcState = "Connecting"
  /\ lcState' = "ReconnectScheduled"

\* A write failure on an unusable transport, or an unsolicited close.
Lost ==
  /\ lcState = "Connected"
  /\ lcState' = "ReconnectScheduled"

Shutdown ==
  /\ lcState # "Closed"
  /\ lcState' = "Closed"

Next ==
  \/ StartConnect
  \/ FailAtOnce
  \/ Handshake
  \/ HandshakeFailed
  \/ Lost
  \/ Shutdown

\* A pending connect request or an armed timer is eventually acted on.
Spec == Init /\ [][Next]_lcState /\ WF_lcState(StartConnect)

=============================================================================
