SPECIFICATION Spec
CONSTANTS
  Threads = {t1}
  t1 = t1
  Kinds = {"user", "shell", "attached", "abort"}
  MaxSub = 3
  EventCap = 1
  Faults = {"stop"}
INVARIANTS
  RecordsMatchStream
  NothingOutlivesStop
  RegisteredTurnRuns
PROPERTIES
  EverySubmissionServed
  ImplementsTurnQueue
  StopReturns
CHECK_DEADLOCK FALSE
