SPECIFICATION Spec
CONSTANTS
  Provider = "codex"
  Approvals = {}
  Questions = {q1}
  None = None
  Requests <- CallRequests
  MaxRequests = 3
  MaxDrops = 1
  MaxCommands = 1
  MaxQueued = 1
INVARIANTS
  AnsweredAtMostOnce
  OrphansAreDenied
CHECK_DEADLOCK FALSE
