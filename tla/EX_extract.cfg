CONSTANTS
  None = None
  p1 = p1
  p2 = p2
  p3 = p3
  Url <- MCUrls
  Canon <- MCCanon
  Rewrite <- MCRewrite
  Requests <- MCRequests
  Providers <- MCProviders
  Replies <- MCReplies
  AttemptLimit = 2
SPECIFICATION Spec
CHECK_DEADLOCK FALSE
INVARIANTS SiblingsNotMixed ReadOnce NoneDropped
