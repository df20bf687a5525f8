CONSTANTS
  Commands <- MCCommands
  MaxMsgs = 5
  MaxResets = 2
  None = None
SPECIFICATION FairSpec
INVARIANTS
  AnswersItsRequest
  NothingCrossesReset
  HsmIsAlone
PROPERTIES
  HeldIsAnswered
CHECK_DEADLOCK FALSE
