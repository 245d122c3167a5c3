SPECIFICATION BridgeSpec
CONSTANTS
  Threads = {t1}
  t1 = t1
  Kinds = {"user", "abort"}
  MaxSub = 2
  EventCap = 20
  Faults = {"model"}
  MaxReq = 2
  ChatFaults = {}
INVARIANTS
  AnswerIsOwn
CHECK_DEADLOCK FALSE
