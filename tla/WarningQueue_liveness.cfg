SPECIFICATION FairSpec
CONSTANTS
  Warnings <- MCWarnings3
  KeyOf <- MCKeyOf3
  Keys = {"a", "b"}
  Workers = {k1}
  MaxAttempts = 2
  AttemptCap = 3
  HandlerLimit = 2
  MaxCrashes = 0
  Outcomes = {"ok", "fail"}
  None = None
PROPERTY SerialIngressDedupes
PROPERTY AdmittedSettles
CHECK_DEADLOCK FALSE
