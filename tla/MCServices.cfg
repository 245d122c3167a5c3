SPECIFICATION Spec
CONSTANTS
  Jobs = {j1, j2}
  Cap = 1
  MaxSaves = 1
  MaxCrashes = 1
  c1 = c1
  c2 = c2
  Sessions = {s1, s2}
  Clients = {c1, c2}
  Owner <- MCOwner
  MaxRuntimes = 3
  SlotThreads = {t1, t2}
  MaxStarts = 4
  Cards = {k1, k2, k3}
  MaxSlots = 3
  Handles = {h1, h2}
  MaxProcs = 3
  Messages = {m1, m2, m3}
  Timers = {m3}
  BusSize = 1
  MaxTimeouts = 1
  MaxWarnings = 1
  CronJobs = {o1, o2, e1}
  OneShots = {o1, o2}
  Vanishing = {o2}
  MaxEdits = 3
  MaxReboots = 1
  MaxTicks = 2
  CronFaults = {"save"}
  Boxes = {x1, x2}
  MaxBoxes = 1
  BoxCalls = {1, 2}
  MaxBoxCalls = 3
  RemoveTries = 2
  BoxFaults = {"remove", "start", "cancel", "term"}
  MaxKills = 1
INVARIANTS
  CapHolds
  EveryRuntimeReachable
  MappingsAgree
  SlotHasOwner
  OneCard
  AnswerKept
  ProcsAccounted
  AnswersMatch
  OneShotRunsOnce
  CreationsAccounted
  DirsMatchSandboxes
PROPERTIES
  EvictsIdle
  ProviderStays
  EveryEndIsToldOnce
  EveryAskEnds
  DueIsRun
CHECK_DEADLOCK FALSE
