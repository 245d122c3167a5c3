SPECIFICATION BridgeSpec
CONSTANTS
  Threads = {t1}
  t1 = t1
  Kinds = {"user", "abort"}
  MaxSub = 3
  EventCap = 20
  Faults = {"model"}
  MaxReq = 2
  ChatFaults = {"mode", "timeout"}
PROPERTIES
  EveryRequestAnswered
CHECK_DEADLOCK FALSE
