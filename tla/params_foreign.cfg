\* Two requests for a route with a parameter and five handlers before its own.
CONSTANTS
  Visits = {"v1", "v2"}
  Sites <- MCSpareSlot
  Buffers = {}
  ContextNames = {1, 2, 3, 4}
SPECIFICATION RqSpec
INVARIANT ParamsAreOwn
CHECK_DEADLOCK FALSE
