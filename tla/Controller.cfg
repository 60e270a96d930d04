\* Two callbacks, two DEL presses, two resume events, one failed local frame:
\* enough for a callback inside during a stop, a timed-out stop and its retry,
\* a request that arrives meanwhile and a second stop.
SPECIFICATION FairSpec
CONSTANTS
  Callbacks = {c1, c2}
  MaxDels = 2
  MaxResumes = 2
  MaxNoFrames = 1
INVARIANTS
  QuietCleanup
  CleanMeansReleased
PROPERTIES
  StopCompletes
  ResumeIsKept
\* the controller thread ends when its wait fails
CHECK_DEADLOCK FALSE
