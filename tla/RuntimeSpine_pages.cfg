SPECIFICATION Spec
CONSTANTS
  Jobs = {j1}
  Direct = {}
  Ids = {i1, i2}
  MaxTries = 2
  Analyses <- MCAnalyses3
  MaxCuts = 1
  None = None
INVARIANT OnePagePerWarning
SYMMETRY MCIdSymmetry
CHECK_DEADLOCK FALSE
