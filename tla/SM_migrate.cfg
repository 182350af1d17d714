CONSTANTS
  None = None
  t1 = t1
  t2 = t2
  server = server
  cli = cli
  Thread = {t1, t2}
  Process = {server, cli}
  ProcessOf <- MCProcessOf
  HealthThread = {t1}
  Provider = {p}
  Ladder = 1
  Window = 2
  MaxUpdates = 2
  MaxFaults = 1
  User = {u}
  MaxRuns = 2
  MaxCommits = 1
SPECIFICATION Spec
CHECK_DEADLOCK FALSE
PROPERTIES RollbackRestores
INVARIANTS NoSampleLost ImportIsSnapshot
