CONSTANTS
  None = None
  a = a
  b = b
  d = d
  ra = ra
  rb = rb
  kx = kx
  ky = ky
  Call <- MCTwoCalls
  Request <- MCTwoRequests
  Endpoint <- MCOneEndpoint
  RequestOf <- MCRequestOf
  EndpointOf <- MCSameEndpoint
  Batches = {a, b}
  MaxAttempts = 2
  RequestLimit = 1
  DailyLimit = None
  Errors <- MCAllErrors
  RetryAfters <- MCRetryAfters
  Backoff = 1
  MaxRetryWait = 1
  Deadlines <- MCDeadlines
  MinRetryWindow = 1
  RecoverySeconds = 1
  LastResort = TRUE
  LeaseSeconds = 2
  MaxOpenSeconds = 3
  OpenSeconds <- MCOpenSeconds
  FailuresToOpen = 2
  MaxTime = 3
  MaxRequests = 1
  MaxFaults = 0
SPECIFICATION Spec
CHECK_DEADLOCK FALSE
SYMMETRY MCSwap
INVARIANTS PaidTryReported UnusedLeaseReturned HardBlockHolds
