SPECIFICATION SerializationSpec
CONSTANTS
  Value <- MCValue
  BufferSize = 256
  MaxTupleSize = 16
  little = little
  big = big
  Host = {little, big}
  BigEndian = {big}
  Requests <- MCRequests
  Garbage = {0, 15}
INVARIANT ArrivesAsSent
INVARIANT SentIfItFits
INVARIANT AnswerIsSent
CHECK_DEADLOCK FALSE
