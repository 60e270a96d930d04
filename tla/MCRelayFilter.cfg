\* Two connections of A, attached by their callback and by the controller while
\* sessions stop and start.  MaxMarks = 0 keeps one mark, so that B's second
\* packet displaces the first; a move and a heartbeat of each side.
SPECIFICATION Spec
CONSTANTS
  Connections = {home, away}
  NoConnection = NoConnection
  NoPacket = NoPacket
  AMove = AMove AKeepAlive = AKeepAlive
  BMove1 = BMove1 BMove2 = BMove2 BKeepAlive = BKeepAlive
  APackets <- AAll
  BPackets <- BAll
  Kind <- KindOf
  MaxMarks = 0
SYMMETRY Symmetry
INVARIANTS
  OneRelay
  RelayIsKnown
  StoppedLeavesNothing
  BPacketsPass
  ControlIsExclusive
  HeartbeatIsAs
\* all packets may be sent and A's connections closed
CHECK_DEADLOCK FALSE
