SPECIFICATION FairSpec
CONSTANTS
  NULL = NULL
  ip = ip
  port1 = port1
  port2 = port2
  b1 = b1
  b2 = b2
  Block = {b1, b2}
  Value <- MCValue
  Client <- MCClient
  Tuple <- OneTuple
  Template <- OneTemplate
  Requests = {"in", "inp", "rd", "rdp"}
  ClockPeriod = 3
  ResendInterval = 0
  MaxResend = 1
  CounterMax = 1
  MaxPending = 2
INVARIANT ResendBounded
PROPERTY LoopContinues
