SPECIFICATION Spec
CONSTANTS
  Threads = {t1}
  t1 = t1
  Kinds = {"user", "abort"}
  MaxSub = 2
  EventCap = 20
  Faults = {"model"}
INVARIANTS
  EndedTurnIsAnnounced
CHECK_DEADLOCK FALSE
