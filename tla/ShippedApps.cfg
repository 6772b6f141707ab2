SPECIFICATION Spec
CONSTANTS
  NULL = NULL
  ip = ip
  port1 = port1
  port2 = port2
  b1 = b1
  b2 = b2
  b3 = b3
  Block = {b1, b2, b3}
  Value <- MCValue
  Client <- MCClient
  Tuple <- MCTuple
  Template <- MCTemplate
  Requests = {"inp"}
  ClockPeriod = 2
  ResendInterval = 2
  MaxResend = 1
  CounterMax = 7
  MaxPending = 3
SYMMETRY Symmetry
INVARIANT MemorySafe
INVARIANT SoleOwner
INVARIANT NoReplyResent
PROPERTY TakenStaysTaken
