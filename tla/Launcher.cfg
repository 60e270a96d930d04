SPECIFICATION FairSpec
CONSTANTS
  Processes = {1}
  Cli = {c1}
  Jni = {j1}
  Classic = {k1}
  MaxDels = 1
INVARIANTS
  OneResident
  HandlesReleased
  FailureBringsNothing
PROPERTIES
  RequestServed
  LauncherEnds
CHECK_DEADLOCK FALSE
