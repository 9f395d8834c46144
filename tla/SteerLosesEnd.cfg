\* Finding: a steering message that meets the end of its turn.
SPECIFICATION Spec
CONSTANTS
  Callbacks = {c1}
  NoCallback = NoCallback
  MaxCalls = 2
  MaxFaults = 0
CHECK_DEADLOCK FALSE
INVARIANT NoEndIsLost
