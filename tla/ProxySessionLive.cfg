\* Liveness, without symmetry and with a render thread that may stand still: two B
\* channels, the join packet and one live packet, which overflows a buffer of size 0.
SPECIFICATION FairSpec
CONSTANTS
  Channels = {b1, b2}
  NoChannel = NoChannel
  MaxDeltas = 2
  MaxConnections = 1
  MaxPending = 0
PROPERTIES
  SyncEnds
  StopReleasesGate
\* the deltas, connections and channels are bounded
CHECK_DEADLOCK FALSE
