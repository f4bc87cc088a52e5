SPECIFICATION Spec
CONSTANTS
  Loops = {l1}
  MaxSubturns = 1
  MaxPerSubturn = 1
  MaxTotal = 2
  MaxTurns = 0
  Keep = 2
  MaxBatch = 2
  MaxInputs = 2
  Ends = {"completed", "waiting_user"}
  Concurrent = FALSE
  Faults = TRUE
INVARIANTS
  NoOrphans
  IInv
  TaskBudgetHolds
  OverrunWasLost
CHECK_DEADLOCK FALSE
