CONSTANTS
  None = None
  pa = pa
  pb = pb
  pc = pc
  Members <- MCThree
  Domain <- MCDomain
  Payloads <- MCPayloads
  Target = 2
  MinDomains = 2
  MinProviders = 2
  Deadlines <- MCDeadlines
  MaxTime = 1
SPECIFICATION FairSpec
CHECK_DEADLOCK FALSE
INVARIANTS QuorumIsReal FullRecall ReceiptsMatchResults
PROPERTIES AnswersKept PaidIsReported BudgetEndsResearch
