SPECIFICATION FairSpec
CONSTANTS
  Capacity = 2
  Approvals = {a1}
  None = None
  MaxEvents = 3
  MaxCalls = 2
  MaxDrops = 2
  MaxAttempts = 1
  MaxNvimRestarts = 1
  MaxBrokerRestarts = 1
INVARIANTS
  StreamContinues
  ApprovalsShown
  ResponsesAreOurs
PROPERTY
  CatchesUp
CHECK_DEADLOCK FALSE
