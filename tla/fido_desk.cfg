CONSTANTS
  ChannelMax = 2
  QueueLen = 1
  MaxMore = 1
  MaxMsgs = 3
  None = None
SPECIFICATION FairSpec
INVARIANTS
  OneUserOfTheBlock
  AnswersWhatWasAsked
PROPERTIES
  NobodyDisturbsAnother
PROPERTIES
  EveryMessageSettles
