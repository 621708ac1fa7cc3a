SPECIFICATION FairSpec
CONSTANTS
  Warnings <- MCWarnings2
  KeyOf <- MCKeyOf2
  Keys = {"a", "b"}
  Workers = {k1}
  MaxAttempts = 2
  AttemptCap = 3
  HandlerLimit = 1
  MaxCrashes = 1
  Outcomes = {"ok", "fail"}
  None = None
PROPERTY WorkIsResumed
CHECK_DEADLOCK FALSE
