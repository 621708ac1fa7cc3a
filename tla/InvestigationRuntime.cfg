SPECIFICATION FairSpec
CONSTANTS
  Worker <- MCWorker
  Direct = {}
  Probes <- MCProbes
  MaxEdits = 1
  None = None
INVARIANT FailsClosed
INVARIANT ReadyHasProvider
PROPERTY OwnOneAtATime
PROPERTY DisablingEndsWaits
CHECK_DEADLOCK FALSE
