CONSTANTS
  None = None
  a = a
  b = b
  d = d
  ra = ra
  rb = rb
  kx = kx
  ky = ky
  Call <- MCTwoCalls
  Request <- MCTwoRequests
  Endpoint <- MCOneEndpoint
  RequestOf <- MCRequestOf
  EndpointOf <- MCSameEndpoint
  Batches = {a}
  MaxAttempts = 1
  RequestLimit = 1
  DailyLimit = None
  Errors <- MCTransient
  RetryAfters <- MCNoValue
  Backoff = 1
  MaxRetryWait = 1
  Deadlines <- MCShortDeadline
  MinRetryWindow = 1
  RecoverySeconds = 1
  LastResort = FALSE
  LeaseSeconds = 2
  MaxOpenSeconds = 3
  OpenSeconds <- MCOpenSeconds
  FailuresToOpen = 2
  MaxTime = 1
  MaxRequests = 0
  MaxFaults = 0
SPECIFICATION Spec
CHECK_DEADLOCK FALSE
INVARIANT DeadlineSkipsUnpaid
