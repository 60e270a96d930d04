\* One client of B, three failures and two sessions: a start that fails at any
\* part, a stop that fails twice, and the session after them.
SPECIFICATION FairSpec
CONSTANTS
  Children = {b1}
  MaxFailures = 3
  MaxStarts = 2
INVARIANTS
  NothingOrphaned
  SuspendedIsGone
  ActiveIsWired
PROPERTIES
  StopSucceeds
  StartSucceeds
\* the starts are bounded
CHECK_DEADLOCK FALSE
