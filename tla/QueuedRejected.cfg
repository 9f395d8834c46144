SPECIFICATION Spec
CONSTANTS
  Provider = "claude"
  Approvals = {a1}
  Questions = {}
  None = None
  Requests <- UnansweredRequests
  MaxRequests = 5
  MaxDrops = 0
  MaxCommands = 2
  MaxQueued = 1
INVARIANTS
  QueuedNeverRejected
CHECK_DEADLOCK FALSE
