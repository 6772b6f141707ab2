SPECIFICATION MetricsSpec
CONSTANTS
  NULL = NULL
  ip = ip
  port1 = port1
  port2 = port2
  b1 = b1
  b2 = b2
  Block = {b1, b2}
  Value <- MCValue
  Client <- MCClient
  Tuple <- OneTuple
  Template <- OneTemplate
  Requests = {"in", "inp", "rd", "rdp"}
  ClockPeriod = 1
  ResendInterval = 0
  MaxResend = 1
  CounterMax = 7
  MaxPending = 4
  MaxMessages = 5
SYMMETRY Symmetry
INVARIANT AnswersAccounted
INVARIANT TuplesAccounted
