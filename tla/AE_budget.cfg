CONSTANTS
  None = None
  a = a
  b = b
  d = d
  ra = ra
  rb = rb
  kx = kx
  ky = ky
  Call <- MCThreeCalls
  Request <- MCTwoRequests
  Endpoint <- MCTwoEndpoints
  RequestOf <- MCRaceRequestOf
  EndpointOf <- MCRaceEndpointOf
  Batches = {a}
  MaxAttempts = 2
  RequestLimit = 1
  DailyLimit = 1
  Errors <- MCTransient
  RetryAfters <- MCNoValue
  Backoff = 0
  MaxRetryWait = 1
  Deadlines <- MCShortDeadline
  MinRetryWindow = 1
  RecoverySeconds = 1
  LastResort = FALSE
  LeaseSeconds = 2
  MaxOpenSeconds = 3
  OpenSeconds <- MCOpenSeconds
  FailuresToOpen = 3
  MaxTime = 1
  MaxRequests = 0
  MaxFaults = 1
SPECIFICATION FairSpec
CHECK_DEADLOCK FALSE
PROPERTIES ImplementsAllowance CallsEnd
INVARIANTS RequestBudgetKept ReservationsMatch
