CONSTANTS
  Received <- ReceivedTypes
  Composed <- ComposedTypes
  Counts = {0, 1, 2, 5}
  Trailing = {0, 1, 3}
  WriterSize = 50
  MaxMessages = 2
SPECIFICATION Spec
INVARIANTS
  DecodedAsSent
  ReadsInsidePayload
  EncodedAsDocumented
  WritesInsideBuffer
CHECK_DEADLOCK FALSE
