SPECIFICATION SystemSpec
CONSTANTS
  NULL = NULL
  ip1 = ip1
  ip2 = ip2
  port = port
  b1 = b1
  b2 = b2
  b3 = b3
  Block = {b1, b2, b3}
  Value <- MCValue
  Client <- OneClient
  Tuple <- OneTaskTuple
  Template <- MCTemplate
  Requests = {"inp", "in"}
  ClockPeriod = 1
  ResendInterval = 0
  MaxResend = 1
  CounterMax = 7
  MaxPending = 3
  Program <- LateDevice
  MaxCalls <- DeviceCalls
  MaxRepeats = 2
  AckAwaitTime = 1
  CanReceiveIp = TRUE
  SendMayFail = TRUE
  MaxLost = 0
  Timely = FALSE
  Strangers = TRUE
  MayStop = FALSE
SYMMETRY Symmetry
INVARIANT NoDoubleDelivery
INVARIANT CopiesBounded
CHECK_DEADLOCK FALSE
