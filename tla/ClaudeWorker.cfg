\* A Claude task, its worker and a session of the SDK.
SPECIFICATION Spec
CONSTANTS
  Callbacks = {c1, c2}
  NoCallback = NoCallback
  MaxCalls = 3
  MaxFaults = 1
CHECK_DEADLOCK FALSE
INVARIANTS
  ResponsesAccounted
  AllowedByTheUser
  EndIsSeen
  UnreadTurnWasSteered
PROPERTIES
  CallbacksSettle
  CallsReturn
