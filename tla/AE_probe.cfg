CONSTANTS
  None = None
  a = a
  b = b
  d = d
  ra = ra
  rb = rb
  kx = kx
  ky = ky
  Call <- MCTwoCalls
  Request <- MCTwoRequests
  Endpoint <- MCOneEndpoint
  RequestOf <- MCRequestOf
  EndpointOf <- MCSameEndpoint
  Batches = {a, b}
  MaxAttempts = 1
  RequestLimit = 3
  DailyLimit = None
  Errors <- MCBlipOrLimit
  RetryAfters <- MCNoneOrOne
  Backoff = 0
  MaxRetryWait = 1
  Deadlines <- MCNoValue
  MinRetryWindow = 1
  RecoverySeconds = 1
  LastResort = FALSE
  LeaseSeconds = 2
  MaxOpenSeconds = 3
  OpenSeconds <- MCOpenSeconds
  FailuresToOpen = 2
  MaxTime = 4
  MaxRequests = 3
  MaxFaults = 0
SPECIFICATION WatchSpec
CHECK_DEADLOCK FALSE
SYMMETRY MCSwap
INVARIANTS OneProber NoProbationForABlip
