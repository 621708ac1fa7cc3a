SPECIFICATION Spec
CONSTANTS
  Requests <- MCRequests
  Content <- MCContent
  Ids = {"out_a", "out_b"}
  Cases = {"a", "b"}
  Minimum = 2
  MaxRuns = 5
  None = None
INVARIANT PromotionIsEarned
INVARIANT CorpusIsWhole
PROPERTY DecisionIsOfCandidate
CHECK_DEADLOCK FALSE
