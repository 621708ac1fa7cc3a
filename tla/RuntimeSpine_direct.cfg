SPECIFICATION Spec
CONSTANTS
  Jobs = {j1, j2}
  Direct = {j2}
  Ids = {i1, i2}
  MaxTries = 2
  Analyses <- MCAnalyses2
  MaxCuts = 1
  None = None
INVARIANT DeliveredIsStored
INVARIANT CompletedIsWhole
INVARIANT StatusTellsRequest
INVARIANT ResultIsOwn
SYMMETRY MCIdSymmetry
CHECK_DEADLOCK FALSE
