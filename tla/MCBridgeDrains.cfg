SPECIFICATION BridgeSpec
CONSTANTS
  Threads = {t1}
  t1 = t1
  Kinds = {"user", "abort"}
  MaxSub = 4
  EventCap = 20
  Faults = {"model"}
  MaxReq = 3
  ChatFaults = {"stale", "timeout", "burst"}
INVARIANTS
  SerialDrains
  OwnEndLeavesNothing
CHECK_DEADLOCK FALSE
