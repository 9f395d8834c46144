\* Two conversations, a lost connection, a second broker process.
CONSTANTS
  Agents = {a1, a2}
  MaxAttempts = 1
  MaxPatches = 1
  MaxRevision = 4
  MaxEpochs = 2
  MaxDrops = 1

SPECIFICATION Spec

INVARIANTS
  TypeOK
  NoSilentGap
  ShownIsTheCopy
  OneRequestInFlight

PROPERTY
  CatchesUp

\* the bounds may stop everything
CHECK_DEADLOCK FALSE
