\* A reader that a select! loop may drop between two chunks.
CONSTANTS
  MaxBytes = 7
  Limit = 3
  Capacity = 2

SPECIFICATION TaskSpec

INVARIANT
  TaskFramesAreWhole


\* the stream may end
CHECK_DEADLOCK FALSE
