SPECIFICATION Spec
CONSTANTS
  Threads = {t1}
  t1 = t1
  Kinds = {"resume", "shell", "attached", "abort"}
  MaxSub = 3
  EventCap = 2
  Faults = {"model", "store", "prepare", "compact"}
INVARIANTS
  OneTurnRuns
  NoOvertaking
  RecordsMatchStream
  CancelEventStaysClear
PROPERTIES
  TerminalIsLast
CHECK_DEADLOCK FALSE
