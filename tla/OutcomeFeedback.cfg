SPECIFICATION Spec
CONSTANTS
  Requests <- MCRequests
  Content <- MCContent
  Ids = {"out_a", "out_b"}
  Cases = {"packet_a", "packet_b"}
  RuntimeDocs <- MCRuntimeDocs
  Rankings <- MCRankings
  Limit = 2
  MaxFaults = 2
  None = None
INVARIANT IndexesFollowFile
INVARIANT AdmittedIsWhole
INVARIANT HitsAreLabelled
PROPERTY CurrentOneAtATime
PROPERTY ImplementsLog
CHECK_DEADLOCK FALSE
