\* Every conversation of at most MaxRevision changes.
CONSTANTS
  UserTexts <- MCUserTexts
  Histories <- MCHistories
  MaxRevision = 5

SPECIFICATION Spec

INVARIANTS
  TypeOK
  LinesAreTheMessages
  OpenStreamsWereSteered

PROPERTIES
  FinishedLinesStay

\* MaxRevision stops the conversation
CHECK_DEADLOCK FALSE
