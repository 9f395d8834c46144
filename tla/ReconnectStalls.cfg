\* One conversation, one connection lost while it is negotiated.
CONSTANTS
  Agents = {a1}
  MaxAttempts = 2
  MaxPatches = 1
  MaxRevision = 1
  MaxEpochs = 1
  MaxDrops = 1

SPECIFICATION Spec

PROPERTY
  ClientRetries

CHECK_DEADLOCK FALSE
