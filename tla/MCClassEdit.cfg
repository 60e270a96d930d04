\* A call of two bytes before code of up to six: a frame at three stays narrow or
\* grows, as at 63 in the code; positions of the longest new code just fit below U2.
\* Pools have up to 13 indexes, the most that 15 allows, and may need seven more.
SPECIFICATION Spec
CONSTANTS
  Builds <- AllBuilds
  PoolLimit = 10
  Files <- AllFiles
  Target = "channelActive"
  TargetType = "(ctx)V"
  Owner = "Bridge"
  Callee = "onChannelActive"
  CalleeType = "(conn,ctx)V"
  Delta = 2
  ExtraStack = 2
  Narrow = 3
  U2 = 9
  PoolU2 = 15
INVARIANTS
  IndexesKeepMeaning
  CallIsTheEdit
  FramesFollowCode
  ScopesFollowCode
\* a class is edited once
CHECK_DEADLOCK FALSE
