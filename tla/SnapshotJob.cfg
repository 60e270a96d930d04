\* Two logins whose snapshots overlap: the first may have timed out with its
\* task queued, running or about to finish.
SPECIFICATION Spec
CONSTANTS
  Jobs = {first, second}
  MaxPackets = 2
INVARIANTS
  ReferencesAreSound
  NothingLeaks
  SuccessIsWhole
PROPERTIES
  CaptureReturns
\* every job may be over
CHECK_DEADLOCK FALSE
