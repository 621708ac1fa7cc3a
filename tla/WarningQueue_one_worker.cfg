SPECIFICATION Spec
CONSTANTS
  Warnings <- MCWarnings3
  KeyOf <- MCKeyOf3
  Keys = {"a", "b"}
  Workers = {k1}
  MaxAttempts = 2
  AttemptCap = 3
  HandlerLimit = 2
  MaxCrashes = 2
  Outcomes = {"ok", "fail", "recover"}
  None = None
INVARIANT SuppressedByQueued
INVARIANT EntryIsTrue
INVARIANT FailuresBounded
INVARIANT ResultBeforeCompletion
INVARIANT StrandedByCrash
PROPERTY ImplementsLedger
CHECK_DEADLOCK FALSE
