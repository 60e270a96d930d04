\* One B, one connection of A.
SPECIFICATION Spec
CONSTANTS
  Channels = {b1}
  NoChannel = NoChannel
  MaxDeltas = 3
  MaxConnections = 1
  MaxPending = 2
INVARIANTS
  SnapshotLosesNothing
CHECK_DEADLOCK FALSE
