CONSTANTS
  Lines <- MCLines
  Transports = {"stream", "datagram"}
  Subscribed <- MCSubscribed
  Capacity = 20
  MaxErrors = 1
SPECIFICATION FairSpec
INVARIANTS
  TypeOK
  RoomToRead
  SentencesAsSent
PROPERTY DeliversFrames
CHECK_DEADLOCK FALSE
