SPECIFICATION Spec
CONSTANTS
  NoId = NoId
  Steers = {101, 102}
  CallIds <- MCCallIds
  IdOf <- MCIdOf
  TokenLimit = 9
  MaxRounds = 3
  MaxNudges = 1
  Batches <- MCBatches
  Searches = {1, 2}
  Histories <- MCHistories
  ResultSizes = {1, 3}
  MaxInterrupts = 1
INVARIANTS
  PromptPaired
  SteersKept
  RoundsAccounted
  SnapshotFitsEnd
PROPERTIES
  TurnEnds
CHECK_DEADLOCK FALSE
