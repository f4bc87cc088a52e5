SPECIFICATION FairSpec
CONSTANTS
  Loops = {l1}
  MaxSubturns = 1
  MaxPerSubturn = 1
  MaxTotal = 2
  MaxTurns = 0
  Keep = 2
  MaxBatch = 2
  MaxInputs = 2
  Ends = {"completed", "waiting_user"}
  Concurrent = FALSE
  Faults = FALSE
INVARIANTS
  RequestIsAnswered
  CompactionAccepted
  LogMatchesTranscript
  CompletionIsLast
PROPERTIES
  TranscriptImplemented
  LoopEnds
CHECK_DEADLOCK FALSE
