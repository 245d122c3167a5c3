SPECIFICATION Spec
CONSTANTS
  Threads = {t1}
  t1 = t1
  Kinds = {"resume", "abort"}
  MaxSub = 2
  EventCap = 20
  Faults = {}
INVARIANTS
  RegisteredTurnRuns
CHECK_DEADLOCK FALSE
