SPECIFICATION Spec
CONSTANTS
  MaxDepth = 2
  MaxTransactions = 2
  MaxWrites = 2
  MaxRows = 2
CHECK_DEADLOCK FALSE
INVARIANTS
  OutcomeTellsWrites
  LeftOpenShows
  HandlesAreLive
