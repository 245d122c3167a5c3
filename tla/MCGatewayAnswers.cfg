SPECIFICATION GatewaySpec
CONSTANTS
  Messages = {m1, m2}
  Timers = {}
  BusSize = 2
  MaxTimeouts = 0
  MaxWarnings = 1
INVARIANTS
  AnswerIsItsOwn
CHECK_DEADLOCK FALSE
