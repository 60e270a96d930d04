\* Two B channels: an old B and a new one, or two that compete.  The join packet
\* and two live deltas on one connection of A, or two connections: the relay, the
\* target, the gate and the handoff outlive the first.
\* One buffered packet: a full buffer and an overflow.
SPECIFICATION Spec
CONSTANTS
  Channels = {b1, b2}
  NoChannel = NoChannel
  MaxDeltas = 3
  MaxConnections = 2
  MaxPending = 1
SYMMETRY Symmetry
CONSTRAINT ThreeDeltasOrTwoConnections
INVARIANTS
  MirrorComplete
  NoDuplicateDelta
  ControlAfterAck
  NoControlAfterFailure
  HandoffIsOccupants
  ControlOpensGate
PROPERTIES
  SlotSpec
\* the deltas, connections and channels are bounded
CHECK_DEADLOCK FALSE
