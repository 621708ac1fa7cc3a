SPECIFICATION Spec
CONSTANTS
  Traces <- MCTraces
  Hints = {"downstream"}
  Worlds <- MCWorlds
  Losses <- MCLosses
  LogsLimit = 3
  TracesLimit = 5
  TraceDetailsLimit = 2
  FallbackNovelty = 50
  None = None
  Alerts <- MCAlerts
  Artifacts = {"absent", "ready", "unfit", "incomplete"}
  Hits <- MCHits
  Sigmoid <- MCSigmoid
INVARIANT TypeOK
INVARIANT NoLossWithoutFault
INVARIANT LogsAreOfOneOrigin
INVARIANT CompleteIsWitnessed
INVARIANT LossRaisesNoAlarm
INVARIANT UnprecedentedIsTriggered
INVARIANT ConflictIsInvestigated
CHECK_DEADLOCK FALSE
