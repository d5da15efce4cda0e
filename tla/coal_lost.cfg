\* The second call comes between the last look at pending and the end.
CONSTANTS
  Callers = {c1, c2}
  MaxCalls = 2
  MayPanic = FALSE
SPECIFICATION CoFairSpec
PROPERTY NoCallLost
CHECK_DEADLOCK FALSE
