------------------------ MODULE ApprovalOrchestrator ------------------------
(***************************************************************************)
(* Approvals of tool calls (miqi/execution/orchestrator.py).  A call that  *)
(* needs one announces it, registers a future under its approval id and    *)
(* waits, with a timeout; a client answers through approvals.resolve; and  *)
(* AbortTurn cancels the calls of the turn and then denies whatever is     *)
(* still registered for the thread (cancel_approvals_for_thread).  The     *)
(* calls of one model response run together, and shell commands of the     *)
(* user run beside them in the same turn.                                  *)
(*                                                                         *)
(* One thread is modelled.  A call that is still idle when an abort is     *)
(* over stands for a call of a later turn.  The events of the queue are    *)
(* emitted without suspending; every append to the ledger suspends.        *)
(***************************************************************************)
EXTENDS Naturals, Sequences, FiniteSets

CONSTANTS Calls,       \* tool calls
          Shells,      \* those of shell commands of the user
          ApprovalIds,
          ApprovalId,  \* f"{turn_id}:{tool_call_id}"
          Keys,
          Key,         \* PermissionEngine._make_key
          Patterned,   \* calls for which _make_approval_pattern is that key
          NoCall,
          MaxAborts,   \* bound: AbortTurn submissions in one behaviour
          LedgerFails  \* may an append to the ledger raise?

ASSUME CallsAssumption ==
  /\ NoCall \notin Calls
  /\ Shells \subseteq Calls /\ Patterned \subseteq Calls
  /\ ApprovalId \in [Calls -> ApprovalIds]
  /\ Key \in [Calls -> Keys]
ASSUME AbortsAssumption == MaxAborts \in Nat /\ LedgerFails \in BOOLEAN

Answers == {"deny", "once", "session"}
Allowing == {"once", "session"}

VARIABLES
  pc,          \* where a call is
  future,      \* the future a call waits for
  verdict,     \* what execute makes of it
  noted,       \* resolved_decision, as the call read it for the ledger
  pending,     \* _pending_approvals: the call that registered the future
  meta,        \* _approval_meta: absent, undecided or resolved_decision
  index,       \* _thread_approvals[thread]
  allowlist,   \* PermissionEngine.session_allowlist
  cancelling,  \* calls with a cancellation requested and not delivered
  abort,       \* where the AbortTurn being served is
  todo,        \* approvals cancel_approvals_for_thread has yet to visit
  aborts,      \* bound: how many there were
  resolved,    \* decisions of the ApprovalResolvedEvents of an approval
  items        \* decisions of its approval_resolved items in the ledger

callVars == <<pc, future, verdict, noted>>
mapVars == <<pending, meta, index>>
abortVars == <<abort, todo, aborts>>
recordVars == <<resolved, items>>
approvalVars == <<callVars, mapVars, allowlist, cancelling, abortVars, recordVars>>

Init ==
  /\ pc = [c \in Calls |-> "idle"]
  /\ future = [c \in Calls |-> "none"]
  /\ verdict = [c \in Calls |-> "none"]
  /\ noted = [c \in Calls |-> "none"]
  /\ pending = [i \in ApprovalIds |-> NoCall]
  /\ meta = [i \in ApprovalIds |-> "absent"]
  /\ index = {}
  /\ allowlist = {}
  /\ cancelling = {}
  /\ abort = "no" /\ todo = {} /\ aborts = 0
  /\ resolved = [i \in ApprovalIds |-> <<>>]
  /\ items = [i \in ApprovalIds |-> <<>>]

Live(c) == pc[c] \notin {"idle", "done"}
Announce(i, d) == resolved' = [resolved EXCEPT ![i] = Append(@, d)]
Record(i, d) == items' = [items EXCEPT ![i] = Append(@, d)]

----------------------------------------------------------------------------
(* A call: execute and _request_approval.                                  *)

Ends(c, v) ==
  /\ pc' = [pc EXCEPT ![c] = "done"]
  /\ verdict' = [verdict EXCEPT ![c] = v]
  /\ cancelling' = cancelling \ {c}

\* permissions.check, then ApprovalRequestedEvent.
Begin(c) ==
  /\ pc[c] = "idle" /\ abort = "no"
  /\ IF Key[c] \in allowlist
     THEN Ends(c, "allow")
     ELSE /\ pc' = [pc EXCEPT ![c] = "asking"]
          /\ UNCHANGED <<verdict, cancelling>>
  /\ UNCHANGED <<future, noted, mapVars, allowlist, abortVars, recordVars>>

\* The request is in the ledger.  An approval id that is registered already
\* is taken over.
Register(c) ==
  LET i == ApprovalId[c] IN
  /\ pc[c] = "asking" /\ c \notin cancelling
  /\ pc' = [pc EXCEPT ![c] = "waiting"]
  /\ future' = [future EXCEPT ![c] = "open"]
  /\ pending' = [pending EXCEPT ![i] = c]
  /\ meta' = [meta EXCEPT ![i] = "undecided"]
  /\ index' = index \cup {i}
  /\ UNCHANGED <<verdict, noted, allowlist, cancelling, abortVars, recordVars>>

\* Mutant: the index of the thread keeps the approval.
CleanupKeepsIndex(i) ==
  /\ pending' = [pending EXCEPT ![i] = NoCall]
  /\ meta' = [meta EXCEPT ![i] = "absent"]
  /\ UNCHANGED index

\* The finally clause, whoever registered the approval last.
Cleanup(i) ==
  /\ pending' = [pending EXCEPT ![i] = NoCall]
  /\ meta' = [meta EXCEPT ![i] = "absent"]
  /\ index' = index \ {i}

\* Mutant: an aborted wait is no denial.
VerdictOfAborted(f) == IF f = "deny" THEN "deny" ELSE "allow"

VerdictOf(f) == IF f \in Allowing THEN "allow" ELSE "deny"

\* wait_for returns.  It may also do so when a cancellation has come after the
\* answer: wait_for of Python 3.11 then returns the answer, 3.12's raises.
Wake(c) ==
  /\ pc[c] = "waiting" /\ future[c] \notin {"open", "cancelled"}
  /\ pc' = [pc EXCEPT ![c] = "recording"]
  /\ noted' = [noted EXCEPT ![c] = IF meta[ApprovalId[c]] \in Answers
                                   THEN meta[ApprovalId[c]] ELSE "deny"]
  /\ cancelling' = cancelling \ {c}
  /\ UNCHANGED <<future, verdict, mapVars, allowlist, abortVars, recordVars>>

Recorded(c) ==
  /\ pc[c] = "recording" /\ c \notin cancelling
  /\ Record(ApprovalId[c], noted[c])
  /\ Cleanup(ApprovalId[c])
  /\ Ends(c, VerdictOf(future[c]))
  /\ UNCHANGED <<future, noted, allowlist, abortVars, resolved>>

\* Mutant: a timeout is not announced; a call times out only while it is the
\* one registered.
ExpireInSilence(c) ==
  /\ pc[c] = "waiting" /\ future[c] = "open" /\ c \notin cancelling
  /\ pc' = [pc EXCEPT ![c] = "expiring"]
  /\ future' = [future EXCEPT ![c] = "cancelled"]
  /\ UNCHANGED <<verdict, noted, mapVars, allowlist, cancelling, abortVars, recordVars>>
ExpireRegistered(c) ==
  /\ pc[c] = "waiting" /\ future[c] = "open" /\ c \notin cancelling
  /\ pending[ApprovalId[c]] = c
  /\ pc' = [pc EXCEPT ![c] = "expiring"]
  /\ future' = [future EXCEPT ![c] = "cancelled"]
  /\ Announce(ApprovalId[c], "timeout")
  /\ UNCHANGED <<verdict, noted, mapVars, allowlist, cancelling, abortVars, items>>

\* wait_for times out.
Expire(c) ==
  /\ pc[c] = "waiting" /\ future[c] = "open" /\ c \notin cancelling
  /\ pc' = [pc EXCEPT ![c] = "expiring"]
  /\ future' = [future EXCEPT ![c] = "cancelled"]
  /\ Announce(ApprovalId[c], "timeout")
  /\ UNCHANGED <<verdict, noted, mapVars, allowlist, cancelling, abortVars, items>>

Expired(c) ==
  /\ pc[c] = "expiring" /\ c \notin cancelling
  /\ Record(ApprovalId[c], "timeout")
  /\ Cleanup(ApprovalId[c])
  /\ Ends(c, "deny")
  /\ UNCHANGED <<future, noted, allowlist, abortVars, resolved>>

\* An append to the ledger raises: the call ends with TOOL_ERROR.
AppendFails(c) ==
  /\ LedgerFails
  /\ c \notin cancelling
  /\ \/ /\ pc[c] = "asking"
        /\ UNCHANGED mapVars
     \/ /\ pc[c] \in {"recording", "expiring"}
        /\ Cleanup(ApprovalId[c])
  /\ Ends(c, "error")
  /\ UNCHANGED <<future, noted, allowlist, abortVars, recordVars>>

\* CancelledError: nothing is announced or recorded for the call.
Cancelled(c) ==
  /\ c \in cancelling
  /\ \/ /\ pc[c] = "asking"
        /\ UNCHANGED <<future, mapVars>>
     \/ /\ pc[c] \in {"waiting", "recording", "expiring"}
        /\ Cleanup(ApprovalId[c])
        /\ future' = [future EXCEPT ![c] = IF @ = "open" THEN "cancelled" ELSE @]
  /\ Ends(c, "cancelled")
  /\ UNCHANGED <<noted, allowlist, abortVars, recordVars>>

CallStep(c) ==
  \/ Register(c) \/ Wake(c) \/ Recorded(c) \/ Expire(c) \/ Expired(c)
  \/ AppendFails(c) \/ Cancelled(c)

----------------------------------------------------------------------------
(* The client: approvals.resolve.                                          *)

\* Mutant: whatever is registered can be answered, timed out or not.
AnswerUnchecked(i, d) ==
  /\ pending[i] # NoCall
  /\ future' = [future EXCEPT ![pending[i]] = d]
  /\ meta' = [meta EXCEPT ![i] = d]
  /\ allowlist' = IF d = "session" /\ pending[i] \in Patterned
                  THEN allowlist \cup {Key[pending[i]]} ELSE allowlist
  /\ Announce(i, d)
  /\ UNCHANGED <<pc, verdict, noted, pending, index, cancelling, abortVars, items>>

\* has_approval and resolve_approval; any other answer is refused.
Answer(i, d) ==
  /\ pending[i] # NoCall /\ future[pending[i]] = "open"
  /\ future' = [future EXCEPT ![pending[i]] = d]
  /\ meta' = [meta EXCEPT ![i] = d]
  /\ allowlist' = IF d = "session" /\ pending[i] \in Patterned
                  THEN allowlist \cup {Key[pending[i]]} ELSE allowlist
  /\ Announce(i, d)
  /\ UNCHANGED <<pc, verdict, noted, pending, index, cancelling, abortVars, items>>

----------------------------------------------------------------------------
(* AbortTurn while the turn runs, as RuntimeSession._run serves it.        *)

\* own: the submission names this thread, and not another one of the session.
Snapshot(own) ==
  /\ abort' = IF own THEN "visiting" ELSE "awaiting"
  /\ todo' = IF own THEN index ELSE {}

\* The tasks are cancelled; shell commands are awaited before the approvals
\* are looked at.  The future a cancelled call waits for is cancelled with it
\* in Python 3.12, and in 3.11 when the call runs.
Abort(own, atOnce) ==
  /\ abort = "no" /\ aborts < MaxAborts
  /\ \E c \in Calls \ Shells : Live(c)
  /\ aborts' = aborts + 1
  /\ cancelling' = {c \in Calls : Live(c)}
  /\ future' = [c \in Calls |->
                  IF atOnce /\ pc[c] = "waiting" /\ future[c] = "open"
                  THEN "cancelled" ELSE future[c]]
  /\ IF \E c \in Shells : Live(c)
     THEN abort' = (IF own THEN "reaping" ELSE "reapingOther") /\ UNCHANGED todo
     ELSE Snapshot(own)
  /\ UNCHANGED <<pc, verdict, noted, mapVars, allowlist, recordVars>>

Reaped ==
  /\ abort \in {"reaping", "reapingOther"}
  /\ \A c \in Shells : ~Live(c)
  /\ Snapshot(abort = "reaping")
  /\ UNCHANGED <<callVars, mapVars, allowlist, cancelling, aborts, recordVars>>

\* One round of cancel_approvals_for_thread.
Visit(i) ==
  /\ abort = "visiting" /\ i \in todo
  /\ future' = [c \in Calls |->
                  IF c = pending[i] /\ future[c] = "open" THEN "abort" ELSE future[c]]
  /\ pending' = [pending EXCEPT ![i] = NoCall]
  /\ meta' = [meta EXCEPT ![i] = "absent"]
  /\ Announce(i, "abort")
  /\ Record(i, "abort")
  /\ todo' = todo \ {i}
  /\ UNCHANGED <<pc, verdict, noted, index, allowlist, cancelling, abort, aborts>>

Visited ==
  /\ abort = "visiting" /\ todo = {}
  /\ index' = {}
  /\ abort' = "awaiting"
  /\ UNCHANGED <<callVars, pending, meta, allowlist, cancelling, todo, aborts,
                 recordVars>>

\* _await_cancelled_turn_task.
AbortDone ==
  /\ abort = "awaiting"
  /\ \A c \in Calls : ~Live(c)
  /\ abort' = "no"
  /\ UNCHANGED <<callVars, mapVars, allowlist, cancelling, todo, aborts, recordVars>>

AbortStep == Reaped \/ (\E i \in ApprovalIds : Visit(i)) \/ Visited \/ AbortDone

Next ==
  \/ \E c \in Calls : Begin(c) \/ CallStep(c)
  \/ \E i \in ApprovalIds, d \in Answers : Answer(i, d)
  \/ \E own, atOnce \in BOOLEAN : Abort(own, atOnce)
  \/ AbortStep

\* Timers expire and every ready task runs; nobody has to answer or abort.
Spec ==
  /\ Init /\ [][Next]_approvalVars
  /\ \A c \in Calls : WF_approvalVars(CallStep(c))
  /\ WF_approvalVars(AbortStep)

----------------------------------------------------------------------------
(* Properties.                                                             *)

\* Type invariant.
TypeOK ==
  /\ pc \in [Calls -> {"idle", "asking", "waiting", "recording", "expiring", "done"}]
  /\ future \in [Calls -> Answers \cup {"none", "open", "abort", "cancelled"}]
  /\ verdict \in [Calls -> {"none", "allow", "deny", "cancelled", "error"}]
  /\ noted \in [Calls -> Answers \cup {"none"}]
  /\ pending \in [ApprovalIds -> Calls \cup {NoCall}]
  /\ meta \in [ApprovalIds -> Answers \cup {"absent", "undecided"}]
  /\ index \subseteq ApprovalIds
  /\ allowlist \subseteq Keys
  /\ cancelling \subseteq Calls
  /\ abort \in {"no", "reaping", "reapingOther", "visiting", "awaiting"}
  /\ todo \subseteq ApprovalIds
  /\ aborts \in 0 .. MaxAborts
  /\ resolved \in [ApprovalIds -> Seq(Answers \cup {"timeout", "abort"})]
  /\ items \in [ApprovalIds -> Seq(Answers \cup {"timeout", "abort"})]

\* No approval outlives its call: once no call waits, nothing is registered and
\* nothing is listed as pending, whichever of the call, the timeout and the
\* abort took the entries out.
NoOrphanApprovals ==
  (\A c \in Calls : ~Live(c)) =>
    /\ \A i \in ApprovalIds : pending[i] = NoCall /\ meta[i] = "absent"
    /\ index = {}

\* A tool runs only if the user allowed it: the future of the call itself, or
\* an earlier answer for the session, said so; never a timeout or an abort.
RunsOnlyIfAllowed ==
  \A c \in Calls :
    verdict[c] = "allow" => future[c] \in Allowing \/ Key[c] \in allowlist

\* A call that ended with a verdict on its approval has been announced as
\* resolved: no request stays open on the screen of the client.  And the item of
\* the ledger always holds a decision, also when the call wakes up after an
\* abort, or the end of a call with the same id, has removed the metadata.
VerdictIsAnnounced ==
  /\ \A c \in Calls :
       future[c] # "none" /\ verdict[c] \in {"allow", "deny"}
         => resolved[ApprovalId[c]] # <<>>
  /\ \A i \in ApprovalIds : \A k \in DOMAIN items[i] :
       items[i][k] \in Answers \cup {"timeout", "abort"}

\* An answer is accepted only while the approval is open: after a timeout, an
\* abort or another answer it is refused.
Unshared(i) == \A c, d \in Calls : ApprovalId[c] = i /\ ApprovalId[d] = i => c = d
AnswerComesFirst ==
  \A i \in ApprovalIds :
    Unshared(i) => \A k \in 2 .. Len(resolved[i]) : resolved[i][k] \notin Answers

\* Every call ends, answered or not, and with calls that share an approval id.
EveryCallEnds == \A c \in Calls : (pc[c] # "idle") ~> (pc[c] = "done")
=============================================================================
