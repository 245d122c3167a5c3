--------------------------- MODULE RuntimeSession ---------------------------
(***************************************************************************)
(* A RuntimeSession of miqi: the dispatch loop that serves one submission  *)
(* queue (miqi/runtime/session.py), the task of the turn it runs, the      *)
(* shell commands it runs beside that turn, and what a turn leaves behind  *)
(* (miqi/runtime/task_runner.py): its registration, its row in the history *)
(* database, its items in the ledger and its events.                       *)
(*                                                                         *)
(* Everything runs on one asyncio event loop, so a step of the model is    *)
(* the code between two points where a coroutine can be suspended.  A      *)
(* submission is known by its position in the order of submission, which   *)
(* also stands for the id of its turn; 0 (None) is "no submission".        *)
(***************************************************************************)
EXTENDS Naturals, Sequences, FiniteSets

CONSTANTS Threads,    \* conversation threads of the session
          Kinds,      \* the kinds of submission clients make
          MaxSub,     \* bound: submissions in one behaviour
          EventCap,   \* capacity of the event queue (4096 in the code)
          Faults      \* what may go wrong: see AllFaults

AllKinds == {"user", "resume", "shell", "attached", "abort"}
AllFaults == {"model", "store", "prepare", "compact", "stop"}

ASSUME ThreadsAssumption == Threads # {}
ASSUME KindsAssumption == Kinds \subseteq AllKinds
ASSUME BoundsAssumption == MaxSub \in Nat /\ EventCap \in Nat \ {0}
ASSUME FaultsAssumption == Faults \subseteq AllFaults

Ids == 1 .. MaxSub
None == 0

VARIABLES
  sub,          \* the submissions made so far: kind, thread and turn id
  submissions,  \* _submissions, the queue clients put into
  pending,      \* _pending, submissions set aside while a turn ran
  got,          \* the result of get_task, the loop's waiting queue getter
  seen,         \* was got in the done set the loop is working through?
  loop,         \* where _run is
  active,       \* _active_turn_task
  aux,          \* _pending_aux_tasks
  halt,         \* where stop() is
  doomed,       \* the auxiliary tasks stop() waits for
  stage,        \* where the task of a submission is
  cancelling,   \* tasks with a cancellation requested and not delivered
  activeTurn,   \* TaskRunner._active_turn_ids
  cancelEvt,    \* TaskRunner._turn_cancel_events: absent, clear or set
  history,      \* status column of runtime_turns
  ledger,       \* item types of a turn in the append-only ledger
  events,       \* the event queue between the session and its reader
  said          \* auxiliary: the terminal events each turn has emitted

loopVars == <<submissions, pending, got, seen, loop, active, aux>>
stopVars == <<halt, doomed>>
taskVars == <<stage, cancelling, activeTurn, cancelEvt>>
storeVars == <<history, ledger>>
eventVars == <<events, said>>
vars == <<sub, submissions, pending, got, seen, loop, active, aux, halt,
          doomed, stage, cancelling, activeTurn, cancelEvt, history, ledger, events,
          said>>

----------------------------------------------------------------------------
(* The stages of a task.  A table gives, for each stage, the write or the  *)
(* event that stage performs and where it leads: when it succeeds, when    *)
(* it raises and when a cancellation is delivered to it.                   *)

Ended == {"ok", "cancelled", "crashed"}

\* _handle_user_message, body of its try statement.
BodyStages == {"startHist", "startLedger", "compact", "announce", "model",
               "doneHist", "doneLedger", "say", "finish"}
\* Its except Exception and except CancelledError handlers.
ErrorStages == {"errHist", "errLedger", "errEvent", "errFinish"}
AbortStages == {"abHist", "abLedger", "abEvent"}
\* _handle_user_shell_command: body, except Exception, except CancelledError.
ShellStages == {"shLedger", "shStart", "exec", "shDone", "shFinish"}
ShellErrorStages == {"shErrLedger", "shErrFinish", "shErrEvent"}
ShellAbortStages == {"shAbLedger"}

Working == {"prepare"} \cup BodyStages \cup ErrorStages \cup AbortStages
             \cup ShellStages \cup ShellErrorStages \cup ShellAbortStages
Stages == {"new", "spawned"} \cup Working \cup Ended

\* history.start_turn and history.complete_turn.
HistoryWrite == [startHist |-> "running", doneHist |-> "completed",
                 errHist |-> "error", abHist |-> "aborted"]

\* ledger.append_item.
LedgerWrite == [startLedger |-> "turn_started", doneLedger |-> "turn_completed",
                errLedger |-> "error", abLedger |-> "turn_aborted",
                shLedger |-> "turn_started", shDone |-> "turn_completed",
                shErrLedger |-> "error", shAbLedger |-> "turn_aborted"]

StoreStages == DOMAIN HistoryWrite \cup DOMAIN LedgerWrite

\* Mutant: the turn is ended before its message, or why it failed, is told.
EventPutEndsFirst ==
  [announce |-> "started", say |-> "complete", finish |-> "message",
   errEvent |-> "failed", errFinish |-> "error", abEvent |-> "aborted",
   shStart |-> "started", shFinish |-> "complete",
   shErrFinish |-> "failed", shErrEvent |-> "error"]

\* self._events.put.  The outcome of a shell command is not told apart.
EventPut == [announce |-> "started", say |-> "message", finish |-> "complete",
             errEvent |-> "error", errFinish |-> "failed", abEvent |-> "aborted",
             shStart |-> "started", shFinish |-> "complete",
             shErrFinish |-> "failed", shErrEvent |-> "error"]

PutStages == DOMAIN EventPut

\* The events that end a turn for whoever reads the queue.
TerminalTypes == {"complete", "failed", "aborted"}
EventTypes == TerminalTypes \cup {"started", "message", "error", "warning", "output"}

OnSuccess == [startHist |-> "startLedger", startLedger |-> "compact",
              compact |-> "announce", announce |-> "model", model |-> "doneHist",
              doneHist |-> "doneLedger", doneLedger |-> "say", say |-> "finish",
              finish |-> "ok",
              errHist |-> "errLedger", errLedger |-> "errEvent",
              errEvent |-> "errFinish", errFinish |-> "ok",
              abHist |-> "abLedger", abLedger |-> "abEvent",
              abEvent |-> "cancelled",
              shLedger |-> "shStart", shStart |-> "exec", shDone |-> "shFinish",
              shFinish |-> "ok", shErrLedger |-> "shErrFinish",
              shErrFinish |-> "shErrEvent", shErrEvent |-> "ok",
              shAbLedger |-> "cancelled"]

\* An exception raised by the stage.  One raised inside a handler leaves
\* the coroutine and is found by whoever awaits the task.
OnFailure(s) ==
  CASE s \in BodyStages  -> "errHist"
    [] s \in ShellStages -> "shErrLedger"
    [] OTHER             -> "crashed"

\* CancelledError raised by the stage.  One raised inside a handler ends the
\* coroutine there.  orchestrator.execute returns a cancelled tool call as a
\* result, so a shell command that is cancelled while it executes goes on.
OnCancel(s, kind) ==
  CASE s \in BodyStages -> "abHist"
    [] s = "exec"       -> IF kind = "attached" THEN "ok" ELSE "shDone"
    [] s \in ShellStages \ {"exec"} -> "shAbLedger"
    [] OTHER            -> "cancelled"

----------------------------------------------------------------------------
Kind(w) == sub[w].kind
Thread(w) == sub[w].thread
Turn(w) == sub[w].turn

Submissions ==
  [kind : AllKinds, thread : Threads, turn : Ids]

EventRecords == [type : EventTypes, turn : Ids \cup {None}]

Event(type, turn) == [type |-> type, turn |-> turn]
Room == Len(events) < EventCap

Unfinished(w) == stage[w] \notin Ended \cup {"new"}

Emit(e) ==
  /\ events' = Append(events, e)
  /\ said' = IF e.turn # None /\ e.type \in TerminalTypes
             THEN [said EXCEPT ![e.turn] = Append(@, e.type)]
             ELSE said

Init ==
  /\ sub = <<>>
  /\ submissions = <<>> /\ pending = <<>>
  /\ got = None /\ seen = FALSE
  /\ loop = "top" /\ active = None /\ aux = {}
  /\ halt = "no" /\ doomed = {}
  /\ stage = [w \in Ids |-> "new"]
  /\ cancelling = {}
  /\ activeTurn = [t \in Threads |-> None]
  /\ cancelEvt = [t \in Threads |-> "absent"]
  /\ history = [w \in Ids |-> "none"]
  /\ ledger = [w \in Ids |-> <<>>]
  /\ events = <<>>
  /\ said = [w \in Ids |-> <<>>]

----------------------------------------------------------------------------
(* Clients: submit() and the reader of the event queue.                    *)

\* What a client may ask of thread t: chat.send, turn/start and chat.abort
\* at any time; thread/shellCommand runs inside the turn that is registered
\* for the thread, or as a turn of its own when none is.
CanAsk(kind, t) ==
  CASE kind = "attached" -> activeTurn[t] # None
    [] kind = "shell"    -> activeTurn[t] = None
    [] OTHER             -> TRUE

Submit(kind, t) ==
  LET w == Len(sub) + 1 IN
  /\ halt = "no"
  /\ w <= MaxSub
  /\ CanAsk(kind, t)
  /\ sub' = Append(sub, [kind |-> kind, thread |-> t,
                         turn |-> IF kind = "attached" THEN activeTurn[t] ELSE w])
  /\ submissions' = Append(submissions, w)
  /\ UNCHANGED <<pending, got, seen, loop, active, aux, stopVars, taskVars,
                 storeVars, eventVars>>

\* Mutant: the reader leaves when the session is stopped.
NextEventUntilStop ==
  /\ halt = "no" /\ events # <<>>
  /\ events' = Tail(events)
  /\ UNCHANGED <<sub, loopVars, stopVars, taskVars, storeVars, said>>

\* _mirror_event_to_ledger: an ErrorEvent, which the ledger has already been
\* told of when it is the event of a failed turn, becomes an item.
MirrorEvent(e) ==
  ledger' = IF e.type \in {"error", "warning"} /\ e.turn # None
            THEN [ledger EXCEPT ![e.turn] = Append(@, "error")]
            ELSE ledger

\* next_event: take an event and mirror it into the ledger.
NextEvent ==
  /\ events # <<>>
  /\ events' = Tail(events)
  /\ MirrorEvent(Head(events))
  /\ UNCHANGED <<sub, loopVars, stopVars, taskVars, history, said>>

----------------------------------------------------------------------------
(* Tasks: _handle_user_message and _handle_user_shell_command.             *)

\* Mutant: a turn pops its cancel event and stays registered.
ReleaseForgets(w) ==
  LET t == Thread(w) IN
  /\ cancelEvt' = IF Kind(w) \in {"user", "resume"}
                  THEN [cancelEvt EXCEPT ![t] = "absent"] ELSE cancelEvt
  /\ UNCHANGED activeTurn

\* The finally clause.  The entry of _turn_cancel_events is this turn's own:
\* only a later turn of the thread would replace it, and turns do not overlap.
Release(w) ==
  LET t == Thread(w) IN
  /\ cancelEvt' = IF Kind(w) \in {"user", "resume"}
                  THEN [cancelEvt EXCEPT ![t] = "absent"] ELSE cancelEvt
  /\ activeTurn' = IF \/ Kind(w) = "shell"
                      \/ Kind(w) \in {"user", "resume"} /\ activeTurn[t] = w
                   THEN [activeTurn EXCEPT ![t] = None] ELSE activeTurn

MoveTo(w, s) ==
  /\ stage' = [stage EXCEPT ![w] = s]
  /\ IF s \in Ended THEN Release(w) ELSE UNCHANGED <<activeTurn, cancelEvt>>

\* start_turn inserts the row, complete_turn updates it if there is one.
HasRow(w, s) == s = "startHist" \/ history[w] # "none"

\* Mutant: only a turn that completes has its history row updated.
WriteOnlySuccess(w) ==
  LET s == stage[w] IN
  /\ history' = IF s \in DOMAIN HistoryWrite \ {"errHist", "abHist"} /\ HasRow(w, s)
                THEN [history EXCEPT ![w] = HistoryWrite[s]] ELSE history
  /\ ledger' = IF s \in DOMAIN LedgerWrite
               THEN [ledger EXCEPT ![w] = Append(@, LedgerWrite[s])] ELSE ledger

Write(w) ==
  LET s == stage[w] IN
  /\ history' = IF s \in DOMAIN HistoryWrite /\ HasRow(w, s)
                THEN [history EXCEPT ![w] = HistoryWrite[s]] ELSE history
  /\ ledger' = IF s \in DOMAIN LedgerWrite
               THEN [ledger EXCEPT ![w] = Append(@, LedgerWrite[s])] ELSE ledger

\* The code before the first await: the turn registers itself.
Begin(w) ==
  LET t == Thread(w) IN
  /\ stage[w] = "spawned" /\ w \notin cancelling
  /\ \/ /\ Kind(w) \in {"user", "resume"}
        /\ cancelEvt' = [cancelEvt EXCEPT ![t] = "clear"]
        /\ activeTurn' = [activeTurn EXCEPT ![t] = w]
        /\ stage' = [stage EXCEPT ![w] = IF Kind(w) = "resume" THEN "prepare"
                                         ELSE "startHist"]
     \/ /\ Kind(w) = "shell"
        /\ activeTurn' = [activeTurn EXCEPT ![t] = w]
        /\ stage' = [stage EXCEPT ![w] = "shLedger"]
        /\ UNCHANGED cancelEvt
     \/ /\ Kind(w) = "attached"
        /\ stage' = [stage EXCEPT ![w] = "exec"]
        /\ UNCHANGED <<activeTurn, cancelEvt>>
  /\ UNCHANGED <<sub, loopVars, stopVars, cancelling, storeVars, eventVars>>

\* An exception while the turn's prompt is put together, before the try: the
\* coroutine ends and its registrations stay.
BeginFails(w) ==
  LET t == Thread(w) IN
  /\ "prepare" \in Faults
  /\ stage[w] = "spawned" /\ w \notin cancelling
  /\ Kind(w) \in {"user", "resume"}
  /\ cancelEvt' = [cancelEvt EXCEPT ![t] = "clear"]
  /\ activeTurn' = [activeTurn EXCEPT ![t] = w]
  /\ stage' = [stage EXCEPT ![w] = "crashed"]
  /\ UNCHANGED <<sub, loopVars, stopVars, cancelling, storeVars, eventVars>>

\* A resumed turn awaits the snapshot of the turn it resumes; a failed lookup
\* is logged and the turn goes on without it.
ReadSnapshot(w) ==
  /\ stage[w] = "prepare" /\ w \notin cancelling
  /\ MoveTo(w, "startHist")
  /\ UNCHANGED <<sub, loopVars, stopVars, cancelling, storeVars, eventVars>>

StoreStep(w) ==
  /\ stage[w] \in StoreStages /\ w \notin cancelling
  /\ Write(w)
  /\ MoveTo(w, OnSuccess[stage[w]])
  /\ cancelling' = cancelling \ {w}
  /\ UNCHANGED <<sub, loopVars, stopVars, eventVars>>

\* start_turn is followed by load_messages and complete_turn by
\* delete_snapshot: either may raise after the row was written.
StoreFails(w) ==
  /\ "store" \in Faults
  /\ stage[w] \in StoreStages /\ w \notin cancelling
  /\ MoveTo(w, OnFailure(stage[w]))
  /\ \/ stage[w] \in {"startHist", "doneHist"} /\ Write(w)
     \/ UNCHANGED storeVars
  /\ UNCHANGED <<sub, loopVars, stopVars, cancelling, eventVars>>

\* Auto-compaction: a failure is reported by a recoverable ErrorEvent of the
\* turn and the turn goes on.
Compact(w) ==
  /\ stage[w] = "compact" /\ w \notin cancelling
  /\ MoveTo(w, "announce")
  /\ \/ UNCHANGED eventVars
     \/ /\ "compact" \in Faults /\ Room
        /\ Emit(Event("warning", Turn(w)))
  /\ UNCHANGED <<sub, loopVars, stopVars, cancelling, storeVars>>

\* Persist the user's message, run the model and its tools, persist the
\* messages they add.  A cancel event set before this point ends the turn.
RunModel(w) ==
  /\ stage[w] = "model" /\ w \notin cancelling
  /\ \/ MoveTo(w, IF cancelEvt[Thread(w)] = "set" THEN "abHist" ELSE "doneHist")
     \/ /\ Faults \cap {"model", "store"} # {}
        /\ MoveTo(w, "errHist")
  /\ UNCHANGED <<sub, loopVars, stopVars, cancelling, storeVars, eventVars>>

\* ExecTool tells the reader that the command begins, what it prints, that it
\* still runs and that it has ended, as events of the turn it runs in: also when
\* that turn has ended, and while the command is being cancelled.
ExecOutput(w) ==
  /\ stage[w] = "exec" /\ Room
  /\ Emit(Event("output", Turn(w)))
  /\ UNCHANGED <<sub, loopVars, stopVars, taskVars, storeVars>>

\* The command has ended and said so.
Execute(w) ==
  /\ stage[w] = "exec" /\ w \notin cancelling
  /\ MoveTo(w, IF Kind(w) = "attached" THEN "ok" ELSE "shDone")
  /\ UNCHANGED <<sub, loopVars, stopVars, cancelling, storeVars, eventVars>>

\* put does not suspend while the queue has room, so a cancellation cannot
\* come between it and what follows.
PutStep(w) ==
  /\ stage[w] \in PutStages /\ Room
  /\ Emit(Event(EventPut[stage[w]], Turn(w)))
  /\ MoveTo(w, OnSuccess[stage[w]])
  /\ cancelling' = IF OnSuccess[stage[w]] \in Ended THEN cancelling \ {w}
                   ELSE cancelling
  /\ UNCHANGED <<sub, loopVars, stopVars, storeVars>>

\* CancelledError is raised where the task is suspended.  A write that was
\* handed to the database's thread may still be done.  It is lost on the way
\* when saving the interrupted turn's snapshot raises.
DeliverCancel(w) ==
  LET s == stage[w] IN
  /\ w \in cancelling
  /\ \/ /\ s \in {"spawned", "prepare"}
        /\ stage' = [stage EXCEPT ![w] = "cancelled"]
        /\ UNCHANGED <<activeTurn, cancelEvt, storeVars>>
     \/ /\ s \in StoreStages
        /\ MoveTo(w, OnCancel(s, Kind(w)))
        /\ (Write(w) \/ UNCHANGED storeVars)
     \/ /\ s \in {"compact", "model", "exec"} \cup (IF Room THEN {} ELSE PutStages)
        /\ MoveTo(w, OnCancel(s, Kind(w)))
        /\ UNCHANGED storeVars
     \/ /\ s = "model" /\ "store" \in Faults
        /\ MoveTo(w, "errHist")
        /\ UNCHANGED storeVars
  /\ cancelling' = cancelling \ {w}
  /\ UNCHANGED <<sub, loopVars, stopVars, eventVars>>

TaskStep(w) ==
  \/ Begin(w) \/ BeginFails(w) \/ ReadSnapshot(w) \/ StoreStep(w)
  \/ StoreFails(w) \/ Compact(w) \/ RunModel(w) \/ Execute(w) \/ PutStep(w)
  \/ DeliverCancel(w)

----------------------------------------------------------------------------
(* The dispatch loop: _run.  It waits for the turn to finish, for a        *)
(* submission (get_task) and for the shell commands beside the turn, and   *)
(* works through whichever are done, in any order.  seen tells whether     *)
(* get_task is among them: if it is not, it is cancelled at the end, and   *)
(* what it has fetched meanwhile goes with it.                             *)

AuxEnded(S) == \A w \in S : stage[w] \in Ended
Unended(S) == {w \in S : stage[w] \notin Ended}

\* TaskRunner.handle(AbortTurn) when the session runs no turn.
AbortIdle(w) ==
  LET t == Thread(w) IN
  /\ Room
  /\ Emit(Event("warning", None))
  /\ cancelEvt' = [cancelEvt EXCEPT ![t] = IF @ = "absent" THEN @ ELSE "set"]
  /\ stage' = [stage EXCEPT ![w] = "ok"]
  /\ UNCHANGED activeTurn

\* Mutant: the queue is served before what was set aside.
TakeNextQueueFirst ==
  /\ loop = "top" /\ halt = "no"
  /\ \/ /\ submissions # <<>>
        /\ submissions' = Tail(submissions)
        /\ UNCHANGED pending
     \/ /\ submissions = <<>> /\ pending # <<>>
        /\ pending' = Tail(pending)
        /\ UNCHANGED submissions
  /\ LET w == IF submissions # <<>> THEN Head(submissions) ELSE Head(pending) IN
     \/ /\ Kind(w) = "abort"
        /\ AbortIdle(w)
        /\ UNCHANGED <<active, loop>>
     \/ /\ Kind(w) # "abort"
        /\ active' = w
        /\ stage' = [stage EXCEPT ![w] = "spawned"]
        /\ loop' = "wait"
        /\ UNCHANGED <<activeTurn, cancelEvt, eventVars>>
  /\ UNCHANGED <<sub, got, seen, aux, stopVars, cancelling, storeVars>>

\* No turn runs: submissions set aside come first.
TakeNext ==
  /\ loop = "top" /\ halt = "no"
  /\ \/ /\ pending # <<>>
        /\ pending' = Tail(pending)
        /\ UNCHANGED submissions
     \/ /\ pending = <<>> /\ submissions # <<>>
        /\ submissions' = Tail(submissions)
        /\ UNCHANGED pending
  /\ LET w == IF pending # <<>> THEN Head(pending) ELSE Head(submissions) IN
     \/ /\ Kind(w) = "abort"
        /\ AbortIdle(w)
        /\ UNCHANGED <<active, loop>>
     \/ /\ Kind(w) # "abort"
        /\ active' = w
        /\ stage' = [stage EXCEPT ![w] = "spawned"]
        /\ loop' = "wait"
        /\ UNCHANGED <<activeTurn, cancelEvt, eventVars>>
  /\ UNCHANGED <<sub, got, seen, aux, stopVars, cancelling, storeVars>>

\* get_task completes.  A task the loop has created takes its first step
\* before the getter created after it.
GetSubmission ==
  /\ \/ loop = "wait"
     \/ loop \in {"report", "auxReport"} /\ ~seen /\ ~Room
  /\ got = None /\ submissions # <<>>
  /\ \A w \in Ids : stage[w] # "spawned"
  /\ got' = Head(submissions)
  /\ submissions' = Tail(submissions)
  /\ UNCHANGED <<sub, pending, seen, loop, active, aux, stopVars, taskVars,
                 storeVars, eventVars>>

\* The turn has ended; an exception that left its task is reported first.
TurnEnded ==
  /\ loop = "wait" /\ active # None /\ stage[active] \in Ended
  /\ active' = None
  /\ seen' = (got # None)
  /\ IF stage[active] = "crashed"
     THEN loop' = "report" /\ UNCHANGED cancelling
     ELSE loop' = "reap" /\ cancelling' = cancelling \cup Unended(aux)
  /\ UNCHANGED <<sub, submissions, pending, got, aux, stopVars, stage,
                 activeTurn, cancelEvt, storeVars, eventVars>>

\* put suspends while the queue is full, with get_task still waiting.
Report ==
  /\ loop = "report" /\ Room
  /\ Emit(Event("error", None))
  /\ got' = IF seen THEN got ELSE None
  /\ loop' = "reap"
  /\ cancelling' = cancelling \cup Unended(aux)
  /\ UNCHANGED <<sub, submissions, pending, seen, active, aux, stopVars, stage,
                 activeTurn, cancelEvt, storeVars>>

\* _cancel_aux_tasks has awaited the shell commands it cancelled.
Reaped ==
  /\ loop = "reap" /\ AuxEnded(aux)
  /\ aux' = {}
  /\ loop' = IF got = None THEN "top" ELSE "flush"
  /\ UNCHANGED <<sub, submissions, pending, got, seen, active, stopVars,
                 taskVars, storeVars, eventVars>>

\* A submission while a turn runs, or while the loop is done with it: shell
\* commands run beside the turn, turns wait for it to end.
SetAside(w) ==
  IF Kind(w) \in {"shell", "attached"}
  THEN /\ aux' = aux \cup {w}
       /\ stage' = [stage EXCEPT ![w] = "spawned"]
       /\ UNCHANGED pending
  ELSE /\ pending' = Append(pending, w)
       /\ UNCHANGED <<aux, stage>>

\* Mutant: what was fetched together with the end of the turn is dropped.
FlushDrops ==
  /\ loop = "flush"
  /\ got' = None
  /\ loop' = "top"
  /\ UNCHANGED <<sub, submissions, pending, seen, active, aux, stopVars,
                 taskVars, storeVars, eventVars>>

\* The submission fetched together with the end of the turn.
Flush ==
  /\ loop = "flush"
  /\ \/ /\ Kind(got) = "abort"
        /\ AbortIdle(got)
        /\ UNCHANGED <<pending, aux>>
     \/ /\ Kind(got) # "abort"
        /\ SetAside(got)
        /\ UNCHANGED <<activeTurn, cancelEvt, eventVars>>
  /\ got' = None
  /\ loop' = "top"
  /\ UNCHANGED <<sub, submissions, seen, active, stopVars, cancelling, storeVars>>

GotWork ==
  /\ loop = "wait" /\ got # None /\ Kind(got) # "abort"
  /\ SetAside(got)
  /\ got' = None
  /\ UNCHANGED <<sub, submissions, seen, loop, active, stopVars, cancelling,
                 activeTurn, cancelEvt, storeVars, eventVars>>

\* Mutant: the abort is left to TaskRunner.handle, which sets the cancel event.
GotAbortSetsEvent ==
  /\ loop = "wait" /\ got # None /\ Kind(got) = "abort"
  /\ AbortIdle(got)
  /\ got' = None
  /\ UNCHANGED <<sub, submissions, pending, seen, loop, active, aux, stopVars,
                 cancelling, storeVars>>

\* AbortTurn while a turn runs cancels that turn and the shell commands.
GotAbort ==
  /\ loop = "wait" /\ got # None /\ Kind(got) = "abort"
  /\ cancelling' = cancelling \cup Unended({active} \cup aux)
  /\ stage' = [stage EXCEPT ![got] = "ok"]
  /\ got' = None
  /\ loop' = "abortReap"
  /\ UNCHANGED <<sub, submissions, pending, seen, active, aux, stopVars,
                 activeTurn, cancelEvt, storeVars, eventVars>>

\* Mutant: the loop goes on without awaiting the turn it has cancelled.
AbortReapedNoWait ==
  /\ loop = "abortReap" /\ AuxEnded(aux)
  /\ aux' = {}
  /\ active' = None
  /\ loop' = "top"
  /\ UNCHANGED <<sub, submissions, pending, got, seen, stopVars,
                 taskVars, storeVars, eventVars>>

AbortReaped ==
  /\ loop = "abortReap" /\ AuxEnded(aux)
  /\ aux' = {}
  /\ loop' = "abortWait"
  /\ UNCHANGED <<sub, submissions, pending, got, seen, active, stopVars,
                 taskVars, storeVars, eventVars>>

\* _await_cancelled_turn_task: the next submission is served when the
\* cancelled turn has cleaned up; a failed clean-up still reads as an abort.
AbortDone ==
  /\ loop = "abortWait" /\ stage[active] \in Ended
  /\ IF stage[active] = "crashed"
     THEN Room /\ Emit(Event("aborted", None))
     ELSE UNCHANGED eventVars
  /\ active' = None
  /\ loop' = "top"
  /\ UNCHANGED <<sub, submissions, pending, got, seen, aux, stopVars, taskVars,
                 storeVars>>

\* A shell command beside the turn has ended.
AuxDone(w) ==
  /\ loop = "wait" /\ w \in aux /\ stage[w] \in Ended
  /\ aux' = aux \ {w}
  /\ IF stage[w] = "crashed"
     THEN loop' = "auxReport" /\ seen' = (got # None)
     ELSE UNCHANGED <<loop, seen>>
  /\ UNCHANGED <<sub, submissions, pending, got, active, stopVars, taskVars,
                 storeVars, eventVars>>

AuxReport ==
  /\ loop = "auxReport" /\ Room
  /\ Emit(Event("error", None))
  /\ got' = IF seen THEN got ELSE None
  /\ loop' = "wait"
  /\ UNCHANGED <<sub, submissions, pending, seen, active, aux, stopVars,
                 taskVars, storeVars>>

\* while not self._stopped.is_set()
LeaveLoop ==
  /\ loop = "top" /\ halt # "no"
  /\ loop' = "stopped"
  /\ UNCHANGED <<sub, submissions, pending, got, seen, active, aux, stopVars,
                 taskVars, storeVars, eventVars>>

LoopStep ==
  \/ TakeNext \/ GetSubmission \/ TurnEnded \/ Report \/ Reaped \/ Flush
  \/ GotWork \/ GotAbort \/ AbortReaped \/ AbortDone
  \/ \E w \in aux : AuxDone(w)
  \/ AuxReport \/ LeaveLoop

----------------------------------------------------------------------------
(* stop(): cancel the shell commands and await them, cancel the loop and   *)
(* the turn and await them, close the stores.                              *)

CancelLoop ==
  /\ halt' = "await"
  /\ loop' = "stopped"
  /\ cancelling' = cancelling \cup Unended({active} \ {None})

\* With no shell command to await stop() does not suspend before CancelLoop.
StopBegin ==
  /\ "stop" \in Faults /\ halt = "no"
  /\ doomed' = aux
  /\ IF aux = {}
     THEN CancelLoop
     ELSE /\ halt' = "reap"
          /\ cancelling' = cancelling \cup Unended(aux)
          /\ UNCHANGED loop
  /\ UNCHANGED <<sub, submissions, pending, got, seen, active, aux, stage,
                 activeTurn, cancelEvt, storeVars, eventVars>>

StopLoop ==
  /\ halt = "reap" /\ AuxEnded(doomed)
  /\ CancelLoop
  /\ aux' = aux \ doomed
  /\ UNCHANGED <<sub, submissions, pending, got, seen, active, doomed, stage,
                 activeTurn, cancelEvt, storeVars, eventVars>>

\* Mutant: the stores are closed without awaiting the turn.
StopCloseNoWait ==
  /\ halt = "await"
  /\ halt' = "closed"
  /\ UNCHANGED <<sub, loopVars, doomed, taskVars, storeVars, eventVars>>

StopClose ==
  /\ halt = "await" /\ (active # None => stage[active] \in Ended)
  /\ halt' = "closed"
  /\ UNCHANGED <<sub, loopVars, doomed, taskVars, storeVars, eventVars>>

StopStep == StopBegin \/ StopLoop \/ StopClose

Next ==
  \/ \E kind \in Kinds, t \in Threads : Submit(kind, t)
  \/ NextEvent
  \/ \E w \in Ids : TaskStep(w) \/ ExecOutput(w)
  \/ LoopStep
  \/ StopStep

\* The event loop runs every ready coroutine; providers and databases answer
\* or fail in the end, and commands end; whoever reads the events keeps reading.
Fairness ==
  /\ WF_vars(NextEvent)
  /\ \A w \in Ids : WF_vars(TaskStep(w))
  /\ WF_vars(LoopStep)
  /\ WF_vars(StopLoop \/ StopClose)

Spec == Init /\ [][Next]_vars /\ Fairness

----------------------------------------------------------------------------
(* Properties.                                                             *)

TypeOK ==
  /\ sub \in Seq(Submissions) /\ Len(sub) <= MaxSub
  /\ submissions \in Seq(Ids) /\ pending \in Seq(Ids)
  /\ got \in Ids \cup {None} /\ seen \in BOOLEAN
  /\ loop \in {"top", "wait", "report", "reap", "flush", "abortReap",
               "abortWait", "auxReport", "stopped"}
  /\ active \in Ids \cup {None} /\ aux \subseteq Ids
  /\ halt \in {"no", "reap", "await", "closed"} /\ doomed \subseteq Ids
  /\ stage \in [Ids -> Stages]
  /\ cancelling \subseteq Ids
  /\ activeTurn \in [Threads -> Ids \cup {None}]
  /\ cancelEvt \in [Threads -> {"absent", "clear", "set"}]
  /\ history \in [Ids -> {"none", "running", "completed", "error", "aborted"}]
  /\ ledger \in [Ids -> Seq({"turn_started", "turn_completed", "turn_aborted",
                             "error"})]
  /\ events \in Seq(EventRecords)
  /\ said \in [Ids -> Seq(TerminalTypes)]

Accepted == 1 .. Len(sub)
IsTurn(w) == Kind(w) \in {"user", "resume"}
InQueue(w, q) == \E i \in 1 .. Len(q) : q[i] = w

\* Turns of a session never overlap: an aborted turn has cleaned up before
\* the next submission is served (_await_cancelled_turn_task).
OneTurnRuns ==
  \A v, w \in Accepted :
    IsTurn(v) /\ IsTurn(w) /\ Unfinished(v) /\ Unfinished(w) => v = w

\* No turn overtakes another: a turn that waits, in the queue, in _pending or
\* in the loop's getter, was submitted after every turn that has started.
Waiting(w) == InQueue(w, submissions) \/ InQueue(w, pending) \/ w = got
NoOvertaking ==
  \A v, w \in Accepted :
    IsTurn(v) /\ IsTurn(w) /\ stage[v] # "new" /\ Waiting(w) => v < w

\* The history database: one terminal event, and a row, unless its creation was
\* lost, of that outcome.
OutcomeOf == [completed |-> "complete", error |-> "failed",
              aborted |-> "aborted"]
HistoryMatches ==
  \A w \in Accepted :
    IsTurn(w) /\ said[w] # <<>> =>
      /\ Len(said[w]) = 1
      /\ \/ history[w] = "none" /\ said[w][1] # "complete"
         \/ history[w] \in DOMAIN OutcomeOf /\ said[w][1] = OutcomeOf[history[w]]

\* The ledger: replay (replay_runtime.py) takes the last of these items as the
\* outcome of the turn, and never calls a turn completed that ended otherwise.
Outcomes == {"turn_completed", "turn_aborted"}
ReplaysAs(items, outcome) ==
  \E i \in 1 .. Len(items) :
    /\ items[i] = outcome
    /\ \A j \in i + 1 .. Len(items) : items[j] \notin Outcomes
ReplaysOpen(items) == \A i \in 1 .. Len(items) : items[i] \notin Outcomes
ReplayMatches ==
  \A w \in Accepted :
    said[w] # <<>> =>
      CASE said[w][1] = "complete" -> ReplaysAs(ledger[w], "turn_completed")
        [] said[w][1] = "aborted"  -> ReplaysAs(ledger[w], "turn_aborted")
        [] OTHER                   -> ReplaysOpen(ledger[w])

\* What a turn told its reader, what the history database says of it and what a
\* replay of the ledger finds agree, wherever in the course of the turn a
\* cancellation or a failure struck.
RecordsMatchStream == HistoryMatches /\ ReplayMatches

\* active_turn_id names a turn of that thread that is running: a thread is
\* not locked by a turn that has ended.
RegisteredTurnRuns ==
  \A t \in Threads :
    activeTurn[t] # None =>
      Thread(activeTurn[t]) = t /\ Unfinished(activeTurn[t])

\* A cancel event that is set never reaches a turn: no turn is aborted
\* "before start", AbortTurn always finds it through its task.
CancelEventStaysClear ==
  \A w \in Accepted :
    IsTurn(w) /\ Unfinished(w) /\ stage[w] \notin {"spawned"} =>
      cancelEvt[Thread(w)] = "clear"

\* When the stores are closed nothing that writes to them runs, but for the
\* shell commands the loop has started since stop() took its copy of aux.
NothingOutlivesStop ==
  halt = "closed" =>
    \A w \in Accepted : Unfinished(w) => w \in aux /\ w \notin doomed

\* The terminal event of a turn is the last event of that turn, so whoever
\* stops reading there leaves nothing of it in the queue, but for what a shell
\* command attached to the turn prints until the loop has reaped it.
AttachedRuns(w) ==
  \E v \in Accepted : Kind(v) = "attached" /\ Turn(v) = w /\ stage[v] = "exec"
TerminalIsLast ==
  [][\A w \in Accepted :
       /\ IsTurn(w) /\ said[w] # <<>> /\ ~AttachedRuns(w)
       /\ Len(events') > Len(events)
       => events'[Len(events')].turn # w]_vars

\* A turn whose task has ended has told its reader how it ended.
EndedTurnIsAnnounced ==
  \A w \in Accepted :
    IsTurn(w) /\ stage[w] \in {"ok", "cancelled"} => said[w] # <<>>

\* The session as a TurnQueue.
Phase(w) ==
  IF w \notin Accepted THEN "absent"
  ELSE IF stage[w] = "new" THEN "waiting"
  ELSE IF stage[w] \in Ended THEN "done"
  ELSE IF w = active THEN "turn" ELSE "side"

TQ == INSTANCE TurnQueue WITH Requests <- Ids, phase <- [w \in Ids |-> Phase(w)]

\* The dispatch loop, with its three places for what it has not served yet,
\* its cancelled getters and its tasks, is such a queue.
ImplementsTurnQueue == TQ!Spec

\* Every submission is served in the end.
EverySubmissionServed ==
  \A w \in Ids :
    (w <= Len(sub)) ~> (stage[w] \in Ended \/ halt # "no")

\* stop() returns: what it awaits, and cancels once, ends.
StopReturns == (halt # "no") ~> (halt = "closed")
=============================================================================
