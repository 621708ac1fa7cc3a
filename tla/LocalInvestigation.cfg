SPECIFICATION Spec
CONSTANTS
  Packets <- MCPackets
  Decisions <- MCDecisions
  Budgets <- MCBudgets
  LogRows <- MCLogRows
  LiveTraces = {"t4", "t5"}
  Responses <- MCResponses
  Actions <- MCActions
  None = None
INVARIANT BudgetIsOwn
INVARIANT SevenCallsSuffice
INVARIANT EvidenceIsKept
INVARIANT ChangedIsTold
INVARIANT RaisesOnlyAtHandoff
INVARIANT OverBudgetIsEscalated
