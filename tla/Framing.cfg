\* A reader that is awaited to its end: every child, every chunking.
CONSTANTS
  MaxBytes = 7
  Limit = 3
  Capacity = 2

SPECIFICATION Spec

INVARIANTS
  FramesAreWholeLines
  RefusedOnlyWhenLong

PROPERTIES
  ImplementsLineStream
  LinesArrive

\* the stream may end
CHECK_DEADLOCK FALSE
