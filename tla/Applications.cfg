SPECIFICATION FairMasterWorkerSpec
CONSTANTS
  NULL = NULL
  Master = Master
  w1 = w1
  w2 = w2
  check_if_prime = check_if_prime
  is_prime = is_prime
  is_not_prime = is_not_prime
  direction_changed = direction_changed
  Worker <- MCWorker
  Client <- MCClient
  Value <- MCValue
  Tuple <- AppTuple
  Template <- AppTemplate
  Requests = {"inp"}
  N = 4
  MaxPuts = 2
  MaxTakes <- Twice
  PinWords <- TwoChanges
  MaxFaults = 0
  MemorySize = 166
  PointerSize = 8
  FieldSize = 16
  StringSize <- MCStringSize
INVARIANT DirectionsBalance
PROPERTY PrintedRight
PROPERTY RoundEnds
