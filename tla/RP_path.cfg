\* Scenes of two requests each that share the cache and the ledger.
CONSTANTS
  None = None
  Provider = {"a", "b"}
  Requests = {1, 2}
  Sizes = {3}
  MinContext = 2
  MaxContext = 6
  MaxAge = 1
  Stale = 1
  Url <- MCUrl
  Canon <- MCCanon
  Earlier <- MCEarlier
  Pages <- MCPages
  Scenes <- MCScenes
SPECIFICATION Spec
CHECK_DEADLOCK FALSE
INVARIANTS PaidIsAnswered   HitsAreWhole
