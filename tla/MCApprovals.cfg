SPECIFICATION Spec
CONSTANTS
  edit = edit
  sh1 = sh1
  sh2 = sh2
  idEdit = idEdit
  idShell = idShell
  keyEdit = keyEdit
  keyRun = keyRun
  NoCall = NoCall
  Calls = {edit, sh1, sh2}
  Shells <- MCShells
  ApprovalIds <- MCApprovalIds
  ApprovalId <- MCApprovalId
  Keys <- MCKeys
  Key <- MCKey
  Patterned = {edit, sh1, sh2}
  MaxAborts = 1
  LedgerFails = TRUE
INVARIANTS
  NoOrphanApprovals
  RunsOnlyIfAllowed
  VerdictIsAnnounced
  AnswerComesFirst
PROPERTIES
  EveryCallEnds
CHECK_DEADLOCK FALSE
