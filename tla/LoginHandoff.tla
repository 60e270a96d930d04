---------------------------- MODULE LoginHandoff ----------------------------
(***************************************************************************)
(* The handoff state machine of native/login_handoff.h, as operators on    *)
(* its state.  Its caller holds the packet-dispatch lock.  The deadline is *)
(* 20 seconds of wall-clock time: here it may have passed in any state in  *)
(* which the code looks at it.                                             *)
(***************************************************************************)
HandoffStates == {"Idle", "Capturing", "AwaitingAck", "Active", "Failed"}

\* The teleport ids a client can acknowledge: the one the proxy put into its
\* own snapshot, or one of the remote server's.
TeleportIds == {"local", "remote"}

\* snapshotSent() succeeds only for a capture still in progress.
MaySendSnapshot(h) == h = "Capturing"

\* acknowledge(id) consumes the local id whatever the state...
ConsumesAnyAck(h, id) == TRUE                            \* mutant: the id is not compared

ConsumesAck(h, id) == h \in HandoffStates /\ id = "local"

\* mutant: a handoff that was given up becomes active.
AcknowledgedAlways(h, id) == IF ConsumesAck(h, id) THEN "Active" ELSE h

\* ...but only a waiting handoff becomes active by it.
Acknowledged(h, id) ==
  IF ConsumesAck(h, id) /\ h = "AwaitingAck" THEN "Active" ELSE h

CapturingMayExpire(h) == h = "Capturing"   \* mutant: B may take for ever to answer

\* expired() may hold: both states have a deadline.
MayExpire(h) == h \in {"Capturing", "AwaitingAck"}
=============================================================================
