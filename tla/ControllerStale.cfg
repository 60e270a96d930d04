\* One callback, one DEL press, one resume event: the shortest way to a session
\* that starts on a request made before the DEL that cancelled the start.
SPECIFICATION Spec
CONSTANTS
  Callbacks = {c1}
  MaxDels = 1
  MaxResumes = 1
  MaxNoFrames = 0
PROPERTIES
  NoStaleStart
CHECK_DEADLOCK FALSE
