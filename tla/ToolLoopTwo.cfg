SPECIFICATION Spec
CONSTANTS
  Loops = {l1, l2}
  MaxSubturns = 1
  MaxPerSubturn = 1
  MaxTotal = 1
  MaxTurns = 1
  Keep = 2
  MaxBatch = 2
  MaxInputs = 1
  Ends = {"completed", "waiting_user"}
  Concurrent = TRUE
  Faults = FALSE
INVARIANTS
  AnswerFindsItsCall
  BudgetPerLoop
CHECK_DEADLOCK FALSE
