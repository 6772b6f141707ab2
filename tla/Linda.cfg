SPECIFICATION SystemSpec
CONSTANTS
  NULL = NULL
  ip1 = ip1
  ip2 = ip2
  port = port
  b1 = b1
  b2 = b2
  b3 = b3
  b4 = b4
  Block = {b1, b2, b3, b4}
  Value <- MCValue
  Client <- MCClient
  Tuple <- MCTuple
  Template <- MCTemplate
  Requests = {"inp"}
  ClockPeriod = 1
  ResendInterval = 0
  MaxResend = 1
  CounterMax = 7
  MaxPending = 2
  Program <- Peers
  MaxCalls <- TwoCalls
  MaxRepeats = 2
  AckAwaitTime = 1
  CanReceiveIp = TRUE
  SendMayFail = FALSE
  MaxLost = 0
  Timely = TRUE
  Strangers = FALSE
  MayStop = TRUE
SYMMETRY Symmetry
PROPERTY ImplementsLinda
CHECK_DEADLOCK FALSE
