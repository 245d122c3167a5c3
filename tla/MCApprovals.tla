---------------------------- MODULE MCApprovals ----------------------------
(* ApprovalOrchestrator for model checking: a call of the model and two     *)
(* shell commands of the user, which share an approval id (user-shell-...). *)
EXTENDS ApprovalOrchestrator

CONSTANTS edit, sh1, sh2, idEdit, idShell, keyEdit, keyRun

MCShells == Calls \cap {sh1, sh2}
MCApprovalIds == {idEdit, idShell}
MCApprovalId == [c \in Calls |-> IF c = edit THEN idEdit ELSE idShell]
MCKeys == {keyEdit, keyRun}
MCKey == [c \in Calls |-> IF c = edit THEN keyEdit ELSE keyRun]
=============================================================================
