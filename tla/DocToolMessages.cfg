SPECIFICATION Spec
CONSTANTS
  Loops = {l1}
  MaxSubturns = 1
  MaxPerSubturn = 1
  MaxTotal = 1
  MaxTurns = 0
  Keep = 2
  MaxBatch = 2
  MaxInputs = 1
  Ends = {"completed", "waiting_user"}
  Concurrent = FALSE
  Faults = TRUE
INVARIANT
  RequestIsAnswered
CHECK_DEADLOCK FALSE
