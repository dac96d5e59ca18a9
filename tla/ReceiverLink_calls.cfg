CONSTANTS
  Kinds = {"rate"}
  Capacity = 2
  MaxCalls = 3
  MaxLosses = 1
  MaxStray = 1
SPECIFICATION FairSpec
INVARIANTS
  TypeOK
  AnswerCounts
  OwnAckUntilTimeout
  SentOnce
PROPERTY CallsReturn
