SPECIFICATION Spec
CONSTANTS
  Requests = {r1, r2, r3}
  Bases = {"x"}
  BaseOf <- MCBaseOf
  HandlerLimit = 3
  None = None
  Empty = Empty
  Torn = Torn
SYMMETRY MCSymmetry
INVARIANT RowIsLoadable
INVARIANT AcceptedIsStored
PROPERTY TakenIsNotReset
CHECK_DEADLOCK FALSE
