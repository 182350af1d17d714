CONSTANTS
  None = None
  pa = pa
  pb = pb
  pc = pc
  Candidates <- MCThree
  HedgeDelay <- MCDelays
  Outcomes <- AllOutcomes
  Deadlines <- MCDeadlines
  MaxTime = 4
SPECIFICATION FairSpec
CHECK_DEADLOCK FALSE
INVARIANTS EveryoneTried FirstAnswerWins LimitReportedTruly
PROPERTIES DeadlineEndsRace
