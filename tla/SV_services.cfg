CONSTANTS
  None = None
  a = a
  b = b
  px = px
  py = py
  c1 = c1
  c2 = c2
  c3 = c3
  parent = parent
  copy = copy
  Caller <- MCCallers
  Plans <- MCPlans
  Modes <- MCModes
  Ttl = 0
  LinkupLimit = 2
  Stale = 1
  MayClear = TRUE
  MaxTime = 2
  MaxFaults = 1
  NumUrls = 2
  Timeouts = {1}
  RequestDeadlines = {2}
  MaxNoise = 1
  SessionTime = 3
  PoolCaller <- MCPoolCaller
  Process <- MCProcess
  ProcessOf <- MCProcessOf
  Forked = copy
  IdleSeconds = 1
  MaxIdle = 1
  MaxRedirects = 1
  MaxConns = 2
  PoolTime = 1
  PacedCaller <- MCTwoCallers
  Intervals = {0, 1, 3}
  MaxWait = 2
  PacedDeadlines = {1, 3, 6}
  PacedTime = 4
  MaxCalls = 4
  NumPages = 2
  Size <- MCSize
  TextTtl = 1
  MaxBytes = 2
  MinAge = 1
  StoreTime = 2
  MaxJobs = 2
  StoreFaults = 1
  Priority <- MCPriority
  Configured = {"a", "b", "c"}
  Queries <- MCQueries
  AnswerPages <- MCPages
  SameScope <- MCSameScope
  Ladder <- MCLadder
  Decay = 1
  LegacyTtl = 0
  Searches = {1, 2}
  LegacyTime = 1
  ToolCalls <- MCTwoCallers
  Slots = 1
  Adapters = {"firecrawl", "keenable", "serper", "linkup", "exa", "tavily", "you"}
  Sizes = {1, 3}
  Workers = 2
  Patience = 2
  BatchDeadlines = {None, 1}
  BatchTime = 2
  Orders <- MCOrders
  Requests <- MCRequests
  Site <- MCSite
  Covers <- MCCovers
  PublicSuffixes = {".gov"}
  SiteLimit = 2

  BraveLanguages = {"de", "fr", "pt", "it", "en"}
  HomeOf <- MCHomeOf
SPECIFICATION ServicesSpec
CHECK_DEADLOCK FALSE
INVARIANTS HonestHits NoSpuriousQuarantine SessionHolds TransportHolds StoreHolds LegacyHolds ServerHolds BatchHolds SearchHolds
PROPERTIES ForeignTextsKept AlwaysAnswered
