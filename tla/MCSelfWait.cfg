SPECIFICATION BridgeSpec
CONSTANTS
  Threads = {t1}
  t1 = t1
  Kinds = {"user", "abort"}
  MaxSub = 2
  EventCap = 20
  Faults = {}
  MaxReq = 1
  ChatFaults = {"burst", "timeout"}
PROPERTIES
  EveryRequestAnswered
CHECK_DEADLOCK FALSE
