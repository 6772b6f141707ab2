SPECIFICATION LossySpec
CONSTANTS
  NULL = NULL
  ip1 = ip1
  ip2 = ip2
  port = port
  b1 = b1
  b2 = b2
  b3 = b3
  b4 = b4
  Block = {b1, b2, b3, b4}
  Value <- MCValue
  Client <- MCClient
  Tuple <- OneTaskTuple
  Template <- MCTemplate
  Requests = {"inp"}
  ClockPeriod = 1
  ResendInterval = 0
  MaxResend = 1
  CounterMax = 7
  MaxPending = 4
  Program <- OneMoreTask
  MaxCalls <- OnePut
  MaxRepeats = 2
  AckAwaitTime = 1
  CanReceiveIp = FALSE
  SendMayFail = FALSE
  MaxLost = NULL
  Timely = TRUE
  Strangers = FALSE
  MayStop = FALSE
SYMMETRY Symmetry
INVARIANT SystemTypeOK
INVARIANT AnswersFit
INVARIANT NoDoubleDelivery
PROPERTY ImplementsLossySpace
CHECK_DEADLOCK FALSE
