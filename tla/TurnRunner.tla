----------------------------- MODULE TurnRunner -----------------------------
(***************************************************************************)
(* One turn of the model loop (miqi/runtime/turn_runner.py): TurnRunner.run *)
(* with its lifecycle hooks and execution snapshot, and _run_impl with its  *)
(* rounds of a model call and the tools it asks for.  RuntimeSession has    *)
(* all of this as the stage RunModel of a turn.                             *)
(*                                                                          *)
(* A step runs from one suspension to the next.  Steering messages arrive   *)
(* while the turn is suspended, tools of one response end in any order, and *)
(* whatever is awaited may fail or be cancelled.                            *)
(***************************************************************************)
EXTENDS ContextRuntime

CONSTANTS MaxRounds,     \* bound and parameter: max_iterations
          MaxNudges,     \* _EMPTY_RESPONSE_NUDGE_LIMIT
          Batches,       \* sets of calls one response may make
          IdOf(_, _),    \* round, call |-> the id of that call
          Searches,      \* the calls of a batch that are web_search
          Histories,     \* what earlier turns left in the thread
          ResultSizes,   \* tokens of a tool result
          MaxInterrupts  \* bound: failures and cancellations of one turn

ASSUME RunnerAssumption ==
  /\ MaxRounds \in Nat \ {0} /\ MaxNudges \in Nat /\ MaxInterrupts \in Nat
  /\ Histories \subseteq Seq(Messages)
  /\ ResultSizes \subseteq Nat /\ ResultSizes # {}

\* The provider gives every call of a turn an id of its own.
Calls == Searches \cup UNION {ToSet(calls) : calls \in Batches}
ASSUME IdsAssumption ==
  /\ \A calls \in Batches : calls \in Seq(Calls) /\ IsInjective(calls)
  /\ \A r, s \in 1 .. MaxRounds, c, d \in Calls :
       /\ IdOf(r, c) \in CallIds
       /\ IdOf(r, c) = IdOf(s, d) => r = s /\ c = d

VARIABLES
  fast,       \* reasoning_mode == "fast"
  stage,      \* where run or _run_impl is
  messages,   \* messages: after a trim, the prompt
  delta,      \* messages_delta
  round,      \* iterations begun
  nudges,     \* empty_response_nudges
  clock,      \* budget of a fast turn: 1 in its last 5 s, 2 after them
  finalizing, \* _finalizing
  searched,   \* _search_phases
  batch,      \* calls of the response, in order
  skipped,    \* _skipped_ctx, as ids
  running,    \* calls execute_many waits for
  sizes,      \* size of the results that are there
  queue,      \* steer_queue
  started,    \* tool_call_started items of the ledger
  completed,  \* tool_call_completed items
  snapshot,   \* status of the row in execution_snapshots
  outcome,    \* how _run_impl ends
  result,     \* how run ends
  interrupts, \* bound
  accepted,   \* steering messages answered with accepted, in order
  prompted,   \* ids of all messages a prompt held
  trimmed     \* ids of those a trim took out

loopVars == <<messages, delta, round, nudges, finalizing>>
toolVars == <<batch, skipped, running, sizes, searched, started, completed>>
steerVars == <<queue, accepted>>
endVars == <<snapshot, outcome, result, interrupts>>
seenVars == <<prompted, trimmed>>
turnVars == <<fast, stage, clock, seenVars, endVars, loopVars, toolVars, steerVars>>

SizesAtMost == [CallIds -> ResultSizes \cup {0}]

Init ==
  /\ fast \in BOOLEAN
  /\ stage = "hooks"
  /\ \E h \in Histories : messages = <<System(1)>> \o h \o <<User(NoId, 1)>>
  /\ delta = <<>> /\ round = 0 /\ nudges = 0
  /\ clock = 0 /\ finalizing = FALSE /\ searched = FALSE
  /\ batch = <<>> /\ skipped = {} /\ running = {}
  /\ sizes = [c \in CallIds |-> 0]
  /\ queue = <<>> /\ accepted = <<>> /\ prompted = {} /\ trimmed = {}
  /\ started = {} /\ completed = {}
  /\ snapshot = "none" /\ outcome = "none" /\ result = "none" /\ interrupts = 0

Returned == {"final", "exhausted"}

\* Where the coroutine waits; between rounds it does not.
Suspended == stage \notin {"round", "released"}

----------------------------------------------------------------------------
(* Around the loop: run.                                                   *)

\* PROMPT_SUBMIT and TURN_START.
HooksDone ==
  /\ stage = "hooks"
  /\ stage' = "round"
  /\ UNCHANGED <<fast, clock, seenVars, endVars, loopVars,
                 toolVars, steerVars>>

\* The final flush, delete_snapshot if the loop returned, then TURN_END.
Flush ==
  /\ stage = "flushing"
  /\ IF outcome \in Returned
     THEN snapshot' = "completed" /\ stage' = "deleting"
     ELSE snapshot' = "interrupted" /\ stage' = "hook"
  /\ UNCHANGED <<fast, clock, seenVars, outcome, result, interrupts, loopVars, toolVars, steerVars>>

\* Mutant: the row of a turn that has ended stays for the next one.
DeleteNothing ==
  /\ stage = "deleting"
  /\ stage' = "hook"
  /\ UNCHANGED <<fast, clock, seenVars, endVars, loopVars,
                 toolVars, steerVars>>

DeleteSnapshot ==
  /\ stage = "deleting"
  /\ snapshot' = "none" /\ stage' = "hook"
  /\ UNCHANGED <<fast, clock, seenVars, outcome, result, interrupts, loopVars, toolVars, steerVars>>

TurnEndHook ==
  /\ stage = "hook"
  /\ stage' = "ended"
  /\ UNCHANGED <<fast, clock, seenVars, endVars, loopVars,
                 toolVars, steerVars>>

\* An exception or a cancellation (how) reaches the await.  In the loop it
\* leads to the flush; in the hooks before it, out of run; in a statement of
\* the else or finally clause, on to the end.  A statement of a cancelled
\* await may still have been executed.
Interrupt(how) ==
  /\ interrupts < MaxInterrupts
  /\ interrupts' = interrupts + 1
  /\ result' = how
  /\ running' = {}
  /\ \/ /\ stage \in {"streaming", "starting", "recording"}
        /\ stage' = "flushing" /\ outcome' = how /\ UNCHANGED snapshot
     \/ /\ stage = "tools" /\ how = "cancelled"
        /\ stage' = "flushing" /\ outcome' = how /\ UNCHANGED snapshot
     \/ /\ stage \in {"hooks", "hook"}
        /\ stage' = "ended" /\ UNCHANGED <<snapshot, outcome>>
     \/ /\ stage = "flushing"
        /\ stage' = "hook" /\ UNCHANGED outcome
        /\ \/ UNCHANGED snapshot
           \/ /\ how = "cancelled"
              /\ snapshot' = IF outcome \in Returned
                             THEN "completed" ELSE "interrupted"
     \/ /\ stage = "deleting"
        /\ stage' = "hook" /\ UNCHANGED outcome
        /\ \/ UNCHANGED snapshot
           \/ how = "cancelled" /\ snapshot' = "none"
  /\ UNCHANGED <<fast, clock, seenVars, loopVars, batch, skipped, sizes, searched,
                 started, completed, steerVars>>

----------------------------------------------------------------------------
(* A round: the prompt, the model call and its response.                   *)

Returns(how) == stage' = "flushing" /\ outcome' = how /\ result' = how

FinalPrompt == System(1)
Ids(ms) == {ms[i].id : i \in DOMAIN ms}

\* The clock of a fast turn is read between rounds only.
Reads(now) == now >= clock /\ (fast \/ now = 0)

\* Out of iterations, or past the hard stop of a fast turn: the loop returns
\* a note, and does not look at the steer queue.
Exhaust(now) ==
  /\ stage = "round" /\ Reads(now)
  /\ round = MaxRounds \/ now = 2
  /\ clock' = now
  /\ delta' = Append(delta, Assistant({}, 1))
  /\ Returns("exhausted")
  /\ UNCHANGED <<fast, seenVars, snapshot, interrupts, messages, round, nudges,
                 finalizing, toolVars, steerVars>>

\* Mutant: a prompt that fits is sent as it is.
CallModelUnpruned(now) ==
  /\ stage = "round" /\ Reads(now)
  /\ round < MaxRounds /\ now # 2
  /\ clock' = now
  /\ LET late == now = 1
         asked == IF late /\ ~finalizing THEN Append(messages, FinalPrompt) ELSE messages
     IN  /\ messages' = IF Tokens(asked) <= TokenLimit THEN asked ELSE Trim(asked)
         /\ finalizing' = (finalizing \/ late)
  /\ round' = round + 1
  /\ prompted' = prompted \cup Ids(messages')
  /\ trimmed' = trimmed \cup (Ids(messages) \ Ids(messages'))
  /\ stage' = "streaming"
  /\ UNCHANGED <<fast, endVars, delta, nudges, toolVars,
                 steerVars>>

\* The time fuse and the trim, up to stream_chat.
CallModel(now) ==
  /\ stage = "round" /\ Reads(now)
  /\ round < MaxRounds /\ now # 2
  /\ clock' = now
  /\ LET late == now = 1
         asked == IF late /\ ~finalizing THEN Append(messages, FinalPrompt) ELSE messages
     IN  /\ messages' = Trim(asked)
         /\ finalizing' = (finalizing \/ late)
  /\ round' = round + 1
  /\ prompted' = prompted \cup Ids(messages')
  /\ trimmed' = trimmed \cup (Ids(messages) \ Ids(messages'))
  /\ stage' = "streaming"
  /\ UNCHANGED <<fast, endVars, delta, nudges, toolVars,
                 steerVars>>

\* A delta is due for the snapshot.
StreamDelta ==
  /\ stage = "streaming" /\ snapshot # "running"
  /\ snapshot' = "running"
  /\ UNCHANGED <<fast, stage, clock, seenVars, outcome, result, interrupts, loopVars, toolVars,
                 steerVars>>

UsersOf(ids) == [k \in DOMAIN ids |-> User(ids[k], 1)]

\* Mutant: a response after which steering messages wait is the answer.
SteeredReturns ==
  /\ stage = "streaming" /\ queue # <<>>
  /\ messages' = messages \o <<Assistant({}, 1)>> \o UsersOf(queue)
  /\ delta' = delta \o <<Assistant({}, 1)>> \o UsersOf(queue)
  /\ queue' = <<>>
  /\ Returns("final")
  /\ UNCHANGED <<fast, clock, seenVars, snapshot, interrupts, round, nudges,
                 finalizing, toolVars, accepted>>

\* A response without calls while steering messages wait, whatever it says.
Steered ==
  /\ stage = "streaming" /\ queue # <<>>
  /\ messages' = messages \o <<Assistant({}, 1)>> \o UsersOf(queue)
  /\ delta' = delta \o <<Assistant({}, 1)>> \o UsersOf(queue)
  /\ queue' = <<>>
  /\ stage' = "round"
  /\ UNCHANGED <<fast, clock, seenVars, endVars, round, nudges,
                 finalizing, toolVars, accepted>>

\* An empty response: the model is asked to go on, and the third time the
\* turn fails.
Nudge ==
  /\ stage = "streaming" /\ queue = <<>>
  /\ IF nudges < MaxNudges
     THEN /\ nudges' = nudges + 1
          /\ messages' = messages \o <<Assistant({}, 1), User(NoId, 1)>>
          /\ stage' = "round"
          /\ UNCHANGED <<outcome, result>>
     ELSE /\ Returns("empty")
          /\ UNCHANGED <<messages, nudges>>
  /\ UNCHANGED <<fast, clock, seenVars, snapshot, interrupts, delta, round, finalizing,
                 toolVars, steerVars>>

\* A call written as text is not executed; the model is told.
Feedback ==
  /\ stage = "streaming" /\ queue = <<>>
  /\ messages' = messages \o <<Assistant({}, 1), User(NoId, 1)>>
  /\ delta' = Append(delta, Assistant({}, 1))
  /\ stage' = "round"
  /\ UNCHANGED <<fast, clock, seenVars, endVars, round, nudges,
                 finalizing, toolVars, steerVars>>

Answer ==
  /\ stage = "streaming" /\ queue = <<>>
  /\ messages' = Append(messages, Assistant({}, 1))
  /\ delta' = Append(delta, Assistant({}, 1))
  /\ Returns("final")
  /\ UNCHANGED <<fast, clock, seenVars, snapshot, interrupts, round, nudges, finalizing,
                 toolVars, steerVars>>

----------------------------------------------------------------------------
(* The tools of a response.                                                *)

Id(k) == IdOf(round, batch[k])

\* The appends of tool_call_started, one after the other, are one step; so are
\* those of tool_call_completed.
CallTools(calls) ==
  /\ stage = "streaming"
  /\ batch' = calls
  /\ started' = started \cup {IdOf(round, calls[k]) : k \in DOMAIN calls}
  /\ stage' = "starting"
  /\ UNCHANGED <<fast, clock, seenVars, endVars, loopVars, skipped, running, sizes,
                 searched, completed, steerVars>>

\* Mutant: the search of an earlier round is forgotten.
RefusedForgetful(k) ==
  fast /\ (finalizing \/ (/\ batch[k] \in Searches
                          /\ \E j \in 1 .. k - 1 : batch[j] \in Searches))

\* _budget_skip_reason: a fast turn that is finalizing refuses every call, and
\* before that every search after the first of the turn.
Refused(k) ==
  fast /\ (finalizing \/ (/\ batch[k] \in Searches
                          /\ searched \/ \E j \in 1 .. k - 1 : batch[j] \in Searches))

Execute ==
  /\ stage = "starting"
  /\ LET kept == {k \in DOMAIN batch : ~Refused(k)} IN
     /\ running' = {Id(k) : k \in kept}
     /\ skipped' = {Id(k) : k \in DOMAIN batch \ kept}
     /\ searched' = (searched \/ (fast /\ \E k \in kept : batch[k] \in Searches))
  /\ stage' = "tools"
  /\ UNCHANGED <<fast, clock, seenVars, endVars, loopVars, batch,
                 sizes, started, completed, steerVars>>

ToolEnds(c, n) ==
  /\ stage = "tools" /\ c \in running
  /\ running' = running \ {c}
  /\ sizes' = [sizes EXCEPT ![c] = n]
  /\ UNCHANGED <<fast, stage, clock, seenVars, endVars, loopVars,
                 batch, skipped, searched, started, completed, steerVars>>

Executed == {Id(k) : k \in DOMAIN batch} \ skipped

\* Mutant: the refused calls are waited for as well.
GatherAll ==
  /\ stage = "tools" /\ running = {} /\ skipped = {}
  /\ completed' = completed \cup Executed
  /\ stage' = "recording"
  /\ UNCHANGED <<fast, clock, seenVars, endVars, loopVars, batch, skipped, running,
                 sizes, searched, started, steerVars>>

\* gather returns when all of them have; their items are appended.
Gather ==
  /\ stage = "tools" /\ running = {}
  /\ completed' = completed \cup Executed
  /\ stage' = "recording"
  /\ UNCHANGED <<fast, clock, seenVars, endVars, loopVars, batch, skipped, running,
                 sizes, searched, started, steerVars>>

\* The results of the calls that were kept, then the notices for the others.
ResultOrder ==
  {order \in Bijection(DOMAIN batch, DOMAIN batch) :
     \A j, k \in DOMAIN batch : j < k =>
       LET refused(i) == Id(order[i]) \in skipped IN
       IF refused(j) = refused(k) THEN order[j] < order[k] ELSE refused(k)}

Result(k) == ToolResult(Id(k), IF Id(k) \in skipped THEN 1 ELSE sizes[Id(k)])

\* The assistant with the calls that were kept, and all the results.
AddResults ==
  /\ stage = "recording"
  /\ \E order \in ResultOrder :
       LET added == <<Assistant(Executed, 1)>> \o [k \in DOMAIN batch |-> Result(order[k])]
       IN  messages' = messages \o added /\ delta' = delta \o added
  /\ batch' = <<>> /\ skipped' = {}
  /\ stage' = "round"
  /\ UNCHANGED <<fast, clock, seenVars, endVars, round, nudges,
                 finalizing, running, sizes, searched, started, completed, steerVars>>

----------------------------------------------------------------------------
(* Around the turn.                                                        *)

\* TaskRunner.steer_turn, as long as the turn is registered.  The messages are
\* numbered as they come.
Steer(s) ==
  /\ Suspended /\ s \notin ToSet(accepted)
  /\ \A t \in Steers \ ToSet(accepted) : s <= t
  /\ queue' = Append(queue, s) /\ accepted' = Append(accepted, s)
  /\ UNCHANGED <<fast, stage, clock, seenVars, endVars, loopVars,
                 toolVars>>

\* The turn is deregistered (RuntimeSession: Release).
Deregister ==
  /\ stage = "ended"
  /\ stage' = "released"
  /\ UNCHANGED <<fast, clock, seenVars, endVars, loopVars, toolVars,
                 steerVars>>

Respond ==
  \/ Steered \/ Nudge \/ Feedback \/ Answer
  \/ \E calls \in Batches : CallTools(calls)

NextRound(now) == Exhaust(now) \/ CallModel(now)

Progress ==
  \/ HooksDone \/ Flush \/ DeleteSnapshot \/ TurnEndHook
  \/ Respond \/ Execute \/ Gather \/ AddResults
  \/ \E c \in CallIds, n \in ResultSizes : ToolEnds(c, n)
  \/ Deregister

Next ==
  \/ Progress
  \/ \E now \in 0 .. 2 : NextRound(now)
  \/ StreamDelta
  \/ \E s \in Steers : Steer(s)
  \/ \E how \in {"error", "cancelled"} : Interrupt(how)

\* Streams and tools end (each has a timeout), and ready coroutines run.  The
\* second conjunct is weak fairness of NextRound, by its effect on stage.
Spec ==
  /\ Init /\ [][Next]_turnVars
  /\ WF_turnVars(Progress)
  /\ WF_stage(stage = "round" /\ stage' \in {"streaming", "flushing"})

----------------------------------------------------------------------------
(* Properties.                                                             *)

Stages == {"hooks", "round", "streaming", "starting", "tools", "recording",
           "flushing", "deleting", "hook", "ended", "released"}

\* Type invariant: among others, no more items are owed to the ledger than the
\* response has calls.
TypeOK ==
  /\ fast \in BOOLEAN /\ stage \in Stages
  /\ messages \in Seq(Messages) /\ delta \in Seq(Messages)
  /\ round \in 0 .. MaxRounds /\ nudges \in 0 .. MaxNudges
  /\ clock \in 0 .. 2
  /\ finalizing \in BOOLEAN /\ searched \in BOOLEAN
  /\ skipped \cup running \subseteq {Id(k) : k \in DOMAIN batch}
  /\ sizes \in SizesAtMost
  /\ ToSet(queue) \subseteq ToSet(accepted) /\ ToSet(accepted) \subseteq Steers
  /\ completed \subseteq started /\ started \subseteq CallIds
  /\ snapshot \in {"none", "running", "interrupted", "completed"}
  /\ {outcome, result} \subseteq Returned \cup {"none", "empty", "error", "cancelled"}
  /\ interrupts \in 0 .. MaxInterrupts

\* The provider is never sent a tool result without its call, or a call without
\* all of its results: after calls were refused, after a trim, and with a
\* history that an earlier turn left unpaired.  And the one pass that prunes
\* the messages takes out no more than what is unpaired.
PromptPaired ==
  /\ stage = "streaming" => WellPaired(messages)
  /\ stage = "round" => Prune(messages) = PruneReference(messages)

SteerAt(ms) == {k \in DOMAIN ms : ms[k].role = "user" /\ ms[k].id \in Steers}

\* The steering messages of ms are the first n of ids, in order.
InOrder(ms, ids, n) ==
  \E at \in [1 .. n -> SteerAt(ms)] :
    /\ \A k \in 1 .. n : ms[at[k]].id = ids[k]
    /\ \A j, k \in 1 .. n : j < k => at[j] < at[k]
    /\ \A i \in SteerAt(ms) : \E k \in 1 .. n : at[k] = i

\* Steering messages are neither lost, repeated nor reordered: those accepted
\* are, in order, those the turn will persist and those that still wait.  And a
\* final answer is given with every one the turn persists in sight of the
\* model, unless a trim has taken it out: past the head the groups of users, so
\* of steering messages, are cut before older results.
SteersKept ==
  /\ \E n \in 0 .. Len(accepted) :
       queue = SubSeq(accepted, n + 1, Len(accepted)) /\ InOrder(delta, accepted, n)
  /\ outcome = "final" => {delta[k].id : k \in SteerAt(delta)} \subseteq prompted \cup trimmed

\* Between rounds the ledger, the messages to persist and the calls agree: each
\* call that was announced was completed or, in a fast turn, refused, and has
\* one result; outside fast turns what will be persisted is paired.  A fast turn
\* executes at most one search, in whichever round.
ResultsAt(ms) == {k \in DOMAIN ms : ms[k].role = "tool"}
SearchesDone == {rk \in (1 .. MaxRounds) \X Searches : IdOf(rk[1], rk[2]) \in completed \cup running}
RoundsAccounted ==
  stage \in {"round", "streaming"} =>
    /\ {delta[k].id : k \in ResultsAt(delta)} = started
    /\ \A j, k \in ResultsAt(delta) : delta[j].id = delta[k].id => j = k
    /\ UNION {delta[k].calls : k \in DOMAIN delta} = completed
    /\ IF fast
       THEN \A first, second \in SearchesDone : first = second
       ELSE started = completed /\ WellPaired(delta)

\* A turn whose answer is returned leaves no snapshot, so it is not offered for
\* resumption; one whose loop failed or was cancelled leaves the latest state of
\* its answer, unless the flush is interrupted as well.
SnapshotFitsEnd ==
  stage \in {"ended", "released"} =>
    /\ result \in Returned => snapshot = "none"
    /\ (\/ outcome = "empty" /\ interrupts = 0
        \/ outcome \in {"error", "cancelled"} /\ interrupts = 1)
       => snapshot = "interrupted"

\* Every turn ends: rounds are bounded, also by steering, nudges and feedback.
TurnEnds == <>(stage = "released")
=============================================================================
