SPECIFICATION FairSpec
CONSTANTS
  Provider = "claude"
  Approvals = {a1}
  Questions = {}
  None = None
  Requests <- TurnRequests
  MaxRequests = 4
  MaxDrops = 0
  MaxCommands = 1
  MaxQueued = 1
INVARIANTS
  ConsentBeforeAllow
  AnsweredAtMostOnce
  PromptsStartInOrder
  OneTurnAtATime
  NoLostTerminal
  PendingCountsMatch
PROPERTIES
  BrokerUnblocks
  QueuedPromptSettles
  DeadProviderReported
  CountsSettle
CHECK_DEADLOCK FALSE
