# MiQi: models, checks and proofs of the runtime

MiQi is a desktop agent.  A bridge process reads JSON lines from the desktop
application, keeps one *runtime session* per conversation, and runs the turns of
that session: model calls, tool calls with the user's approval, and shell
commands of the user.  All of it is Python on one asyncio event loop, so what is
hard is not data races but *suspension*: every `await` is a place where another
coroutine runs, a cancellation arrives or a timeout fires.  This directory models
that control with TLA+, checks it with TLC and proves its central invariants
with TLAPS.

## 1. Inventory

| Part | State | Operations | Interacts with |
| --- | --- | --- | --- |
| Session dispatch loop, `runtime/session.py` | submission queue, `_pending`, getter task, `_active_turn_task`, `_pending_aux_tasks`, event queue | `submit`, `_run`, `next_event`, `stop`, `active_turn_id` | creates the tasks below; clients submit and read events |
| Turn and shell-command tasks, `runtime/task_runner.py` | `_active_turn_ids`, `_turn_cancel_events`, `_steer_queues` | `handle`, `_handle_user_message`, `_handle_user_shell_command` | history, ledger, event queue; cancelled by the loop |
| History and ledger, `runtime/history_runtime.py`, `ledger_runtime.py` | a row per turn; append-only items | `start_turn`, `complete_turn`, `append_item` | written by tasks and approvals, read by replay |
| Chat bridge, `bridge/loop.py`, `runtime/app_server.py` | `_session_drain_tasks` (the turn lock), `_released_drain_tasks` | `chat.send`, `chat.abort`, `_drain_chat_events`, `release_turn_lock` | submits to the session, is the reader of its events |
| Approvals, `execution/orchestrator.py`, `runtime/approval_handlers.py` | `_pending_approvals`, `_approval_meta`, `_thread_approvals`, session allowlist | `_request_approval`, `resolve_approval`, `cancel_approvals_for_thread` | tool calls of a turn wait in it; AbortTurn empties it |
| Turn slots, `runtime/turn_app_handlers.py`, `session.py` | `_turn_reservations`, `_active_turn_ids`, drain tasks | `turn/start`, `drain_turn_events`, `turn/steer`, `turn/interrupt` | reserves a thread, submits to the loop, reads its events |
| Agent loop, `runtime/turn_runner.py`, `context_runtime.py` | message list, iteration budget, steer queue, execution snapshot | model rounds, tool rounds, steering, trimming | the `model` stage of a turn |
| Sub-agents, `runtime/agent_control.py`, `agent_jobs.py` | live agents, jobs, the agent graph store | spawn, kill, completion, recovery | run on the session's own `TurnRunner` beside the turn |
| Session registry, `runtime/app_server.py` | sessions, clients, activity times | create, use, authorize, stop, TTL loop | owns the sessions |
| Confirm cards, `kun_runtime/user_input_gate.py` | pending cards, one slot per turn | `request`, `resolve`, timeout | tool calls of a turn wait in it |
| Workbench processes, `runtime/workbench_process_runtime.py` | handles, live processes, history | spawn, kill, `kill_client` | the operating system, the client |
| Gateway, `bus/queue.py`, `runtime/gateway_dispatcher.py`, `client.py` | two bounded queues, a task per message, `_ask_lock` | publish, dispatch, `ask`, reply | one session serves all channels, timers and heartbeats |
| Timed jobs, `cron/service.py` | jobs in memory and in `jobs.json`, one timer | tick, run, save; edits by other processes | asks the gateway's session |
| Sandboxes, `sandbox/manager.py`, `bwrap.py`, `bridge/server.py` | `_sandboxes`, `_creating`, directories in Linux, `sandbox_state.json` | create, evict, destroy, clean up at the start, shut down | tool calls of all sessions; outlives the bridge on disk |
| Tools, memory, providers, channel adapters, documents, skills, configuration, desktop | files, HTTP, user interface | | leaves of the system |

What makes each right, in short.  *Loop*: turns run one at a time and in the
order of submission, nothing submitted is lost, an abort waits for the clean-up
of what it cancelled, stop() returns and leaves nothing running.  *Tasks*: the
row in the history, the items in the ledger and the event stream agree on how a
turn ended; whatever a turn registers is removed.  *Bridge*: one drain reads at a
time, a request is answered, and with its own turn.  *Approvals*: a tool runs
only if the user allowed it, a request is resolved on the client's screen, no
entry outlives its call.  *Turn slots*: a reservation is never leaked, nor freed by
another turn's end.  *Agent loop*: what the provider is sent is well formed, what the
user steered is kept, ledger, messages and calls agree, a finished turn leaves no
snapshot.  *Sub-agents*: the limit holds and an end is told once.  *Registry*: no
runtime is lost, clients and sessions agree.  *Cards*: one at a time, and an answer
that was accepted counts.  *Processes*: a live one can be killed, an ended one is
recorded once.  *Gateway*: an answer goes to its own message.  *Timed jobs*: a
one-shot job runs once, a due job runs.  *Sandboxes*: one per session, with its
directory, and no directory is left that nobody will remove.

The hazards, each at its line and with the properties that would catch it, are
listed in `PROJECT.json`.

## 2. Modules

| Module | What it is |
| --- | --- |
| `TurnQueue` | The abstract specification: what a session promises to whoever submits to it. |
| `RuntimeSession` | The core: the dispatch loop, the tasks it makes, and what these leave in history, ledger and event queue. |
| `MCRuntimeSession` | RuntimeSession for TLC. |
| `ChatBridge`, `MCChatBridge` | The chat methods of the bridge, composed with RuntimeSession, which it extends. |
| `ApprovalOrchestrator`, `MCApprovals` | Approvals of tool calls, with the abort that empties them. |
| `ContextRuntime` | The message list of a turn: trimming and pruning as operators. |
| `TurnRunner`, `MCTurnRunner` | The rounds of one turn, over ContextRuntime. |
| `AgentJobs` | Sub-agents and the jobs that run them. |
| `SessionRegistry` | Which sessions exist and who may use them. |
| `TurnSlots` | Reservation of a thread by `turn/start`. |
| `UserInputGate` | Confirm cards of a turn. |
| `WorkbenchProcesses` | Handles and processes of a client. |
| `GatewayClient` | The gateway: bus, dispatcher and `ask`. |
| `CronService` | Timed jobs and the file they share with other processes. |
| `SandboxManager` | Sandboxes, their directories and the file that survives the bridge. |
| `MCServices` | The services, from AgentJobs on, for TLC. |
| `RuntimeSession_proof` | Types and mutual exclusion of turns. |
| `RuntimeSessionOrder_proof` | EXTENDS it: order of turns, and RuntimeSession implements TurnQueue. |
| `RuntimeSessionRecords_proof` | EXTENDS that: history, ledger and events of a turn, cancel events, stop(), registrations. |
| `ChatBridge_proof` | The drains, and the session under the bridge. |
| `ApprovalOrchestrator_proof` | Approvals. |
| `TurnRunner_proof` | Pruning and trimming for every message list, and the rounds of a turn. |
| `Services_proof` | The main invariants of the services but for the sandboxes. |
| `SandboxManager_proof` | Sandboxes and their directories. |

Definitions named as a mutation of another one (`WriteOnlySuccess`, `FlushDrops`,
...) are not part of any specification: each says how a plausible bug would
change the definition that follows it, and some property fails when it does.

### RuntimeSession

A step is the code between two points where a coroutine can be suspended.

* *Submissions* are numbers, in the order of `submit()`; `sub` holds their kind,
  thread and turn id.  `submissions` is the queue, `pending` is `_pending`, `got`
  what the loop's `get_task` has fetched: the three places where a submission can
  wait.  The kinds are `user` and `resume` (a UserMessage, the second resuming an
  interrupted turn), `shell` and `attached` (RunUserShellCommand, standalone or
  inside the registered turn) and `abort` (AbortTurn).
* *The loop* (`loop`, one action per branch of `_run`): `TakeNext` at the top,
  `GetSubmission`, and for each member of `done`, in any order, `TurnEnded`,
  `GotWork`, `GotAbort`, `AuxDone`; `Report` and `AuxReport` are its puts, which
  suspend when the queue is full; `Reaped`, `Flush`, `AbortReaped` and
  `AbortDone` are what follows its awaits.  `seen` records whether the getter was
  among `done`: if it was not it is cancelled, and with it what it fetches in the
  meantime.
* *Tasks*: `stage[w]` is the await a task is at.  `OnSuccess`, `OnFailure` and
  `OnCancel` are the control flow of the two handlers with their `except` and
  `finally` clauses; `HistoryWrite`, `LedgerWrite` and `EventPut` say what a stage
  writes.  `DeliverCancel` is CancelledError raised at an await; a write already
  handed to the database's thread may still be done.  The whole loop of model
  and tool calls is the one stage `model`.  A command of the user is the stage
  `exec`; `ExecOutput` are the events ExecTool emits meanwhile (that it begins,
  prints, still runs, has ended), with the turn id it was given: for an attached
  command the id of the turn it was submitted in, which may have ended since.
* *Abstractions*: message contents, token usage, the model's output and the
  wording of events are left out; a turn id is the position of its submission;
  the reservation that keeps two standalone shell commands of one thread apart is
  not there, so the model has more behaviours than the code in that respect.
  Reading an event mirrors ErrorEvents into the ledger (`MirrorEvent`).

`Faults` says what may go wrong in an instance: `model` (the model loop raises),
`store` (a write raises), `prepare` (putting the prompt together raises, before
the `try`), `compact` (auto-compaction fails), `stop` (stop() is called).

### TurnQueue and the refinement

TurnQueue has one variable, the phase of each request: absent, waiting, in the
exclusive slot, beside it, done.  A turn starts when the slot is free and nothing
older waits.  `RuntimeSession!Phase` is the refinement mapping: whether a
submission waits, runs as `active`, runs beside it or has ended; the three
waiting places, the getter and its cancellation all disappear under it.

### ChatBridge

EXTENDS RuntimeSession and replaces its clients: `Send`, `SendStale`,
`SendResumes` and `Abort` submit, and the drain of a request is the reader.
`lock` is `_session_drain_tasks[session]`, `released` is
`_released_drain_tasks[session]`.  `answer` is the first terminal event sent for a
request (`_emit_terminal` sends one), `endedBy` what ended its drain.
`ChatFaults`: `mode` (a request persists a reasoning mode, which suspends its
handler between the check of the lock and taking it), `stale` (the stale-turn
guard), `timeout` (the idle timeout of a drain), `burst` (chat.abort is served
before the drain of the chat.send before it has taken its first step; every line
from stdin is a task of its own).

### ApprovalOrchestrator

One thread.  `pc[c]` is where a call is in `_request_approval`, `future[c]` its
future, `pending`, `meta` and `index` are the three maps.  `Answer` is
`approvals.resolve`; `Abort`, `Reaped`, `Visit`, `Visited`, `AbortDone` are the
branch of the dispatch loop that cancels the tasks, awaits the shell commands,
runs `cancel_approvals_for_thread` (one `Visit` per approval, since it awaits the
ledger in between) and awaits the turn.  `Wake` allows both Python 3.11, whose
`wait_for` returns the answer when a cancellation comes after it, and 3.12, whose
`wait_for` raises.  The two shell commands of the instance share an approval id,
as those of one turn do in the code.

### ContextRuntime and TurnRunner

A message keeps its role, the ids of the calls it makes or answers and its tokens.
`Prune` is `_prune_unpaired_tool_messages`, one pass with a group held back, and
`Trim` is `trim_for_model`, which cuts the oldest groups until the prompt fits.  Both
are recursive functions: `Passes(ms)[k]` is the pass after k messages, `Cuts(ms)[k]`
what is left after k rounds of the loop, of which there are fewer than messages.
`PruneReference` is the declarative definition `Prune` is compared with.

`stage` of TurnRunner is where `run` or `_run_impl` is suspended: `hooks`,
`streaming` (the model call), `starting` and `recording` (the ledger), `tools`
(`execute_many`), `flushing` and `deleting` (the snapshot), `hook` (TURN_END).  In
`round` it does not suspend.  The branches of a response are actions: `Steered`,
`Nudge`, `Feedback`, `Answer`, `CallTools`; `Exhaust` is the end of the budget.
`Interrupt` is an exception or a cancellation at any of these awaits, with the
`except`, `else` and `finally` clauses it runs through.  A fast turn has a clock of
three values (time left, last seconds, past the hard stop), read between rounds.
Which calls a response makes, how large results are and what earlier turns left in
the thread are chosen from small sets.

### The services

Each is a module of its own, without shared state.

* `AgentJobs`.  `SpawnAgent` is the check of the limit and the registration,
  `AgentSpawned` what `spawn()` does after its awaits; `JobEnds` and `Notified` are
  the task of a job and the frontend's callback, `KillAgent` is the client's.
  `RunnerBegins` is `_adopt_pending_provider` with the one flag `_running` that turns
  and jobs share; `ConfigSave` parks a provider while it is set.  `JobsRestart`
  reloads the rows.
* `SessionRegistry`.  `creating` and `stops` are calls suspended in the start and
  the stop of a runtime; the lock of `create_session` is not taken by `stop_session`.
  Time is whether a session has been idle beyond the timeout.  The TTL loop runs
  without suspending except while it stops a session (`ttl`).
* `TurnSlots`.  `TurnStart` reserves, `StartSubmits` and `StartFails` follow the
  handler's await, a drain ends with the first terminal event in the queue or
  by its timeout.  The loop is the abstract queue: turns run one after the other.
* `UserInputGate`.  `slotOf` is the slot object a call refers to, `entry` the one
  the dictionary holds.  `AnswerCard` is the first answer to a card; a second one that
  comes while the card is still in `_pending` is also told it was taken, and changes
  nothing (user_input_gate.py:50-52, 225-243).  `CardExpires` and `CardExpired` are the timer and the code
  after it, between which an answer may come.
* `WorkbenchProcesses`.  `runner` is the stage of `_background_runner`; handles are
  popped by key (`RunnerEnds`, `KillVictim`).  `dropped` records processes whose
  entry another's clean-up removed.
* `GatewayClient`.  `askLock` is `_ask_lock` with its waiters, `news` the events of
  the session that `ask()` looks at; `ask` returns or raises at the first.  A full
  queue of the bus loses its oldest message.
* `CronService`.  `store` is the gateway's copy, `file` is `jobs.json`, which
  `Edit` (another process) rewrites and `TickEnds` overwrites.  A write that fails
  (`SaveFails`) leaves the file as it was or truncated, which loads as no jobs; it ends
  a start of the gateway (`CronStartFails`), and in a tick the task that would have
  armed the timer (`TickDies`, timer `dead`).
* `SandboxManager`.  `boxes` is `_sandboxes` in the order of creation, `underway` is
  `_creating`; `dirs` are the directories in the sandbox's Linux, `stateFile` what
  `sandbox_state.json` lists.  `call` and `stage` say what a task does and at which
  await it is: `asking` whether sandboxes can be had, `start`, `made` and `checked` in
  `BwrapSandbox.start`, `removing` (with `rest`, what it still has to remove) and
  `verifying` in `_rm_rf_retry`.  Task 0 is the bridge's own clean-up at its start
  (`LoadState`, `CleanedUp`) and its end (`Exit`, `Left`).  A clean-up that has begun
  goes on when sandboxes are disabled meanwhile, and then writes enabled = True to the
  configuration (`configured`), which decides whether the next bridge has a manager.
  With the fault `save` a write of the file fails and is logged: the old one stays, or
  on Windows has been removed already (`SaveState`, `ClearState`).  `Sigterm` is the signal
  handler: `run_until_complete` raises on the running loop, so `destroy_all` is a task
  that runs later and the file is removed at once.  `Kill` may fall between the
  removal of the old file and the renaming of the new one.  `raced` and `strayed` are
  history: sandboxes created while their directory was being removed, and
  directories that were left behind or are missing in the file (section 3).

`MCServices` composes them for TLC: `focus` picks one service, which runs while the
others rest, so that one run has the sum and not the product of their states.

## 3. Runs

| Run | Instance | Question |
| --- | --- | --- |
| `session_outcomes` | 3 submissions of resumed turns, shell commands, standalone and attached, and aborts, 1 thread, 2 places in the event queue, all faults | Do turns exclude each other and keep their order, and do the three records of a turn agree, whatever fails or is cancelled at any await? |
| `session_commands` | 3 submissions of all kinds but `resume`, 1 thread, 1 place in the event queue, stop() | With shell commands inside and beside turns and a queue that is full most of the time: does the loop implement TurnQueue and serve everything; do the records agree when stop() cancels; does it return, and what still runs then; is no thread left locked |
| `bridge_drains` | 3 requests, 4 submissions, stale guard, timeouts, bursts | One reader at a time, and nothing of an ended turn left for the next? |
| `bridge_live` | 2 requests, 3 submissions, `mode`, timeouts | Is every request answered? |
| `approvals` | a call of the model, two shell commands with one approval id, an abort, ledger failures | Only what was allowed runs; no entry, request or call is left behind. |
| `turn_rounds` | a turn of at most 3 rounds, 2 steering messages, responses with two calls, results of two sizes, 1 interruption | Is every prompt well formed, every steering message kept and seen, every call accounted for, and the snapshot in keeping with the end? |
| `services` | 2 jobs (limit 1), 2 sessions and clients, 4 `turn/start` on 2 threads, 3 cards, 3 processes, 3 messages, 3 timed jobs, 2 sandboxes (limit 1) with 2 tasks and 3 calls; 1 crash, 1 timeout, 1 warning, 1 killed bridge, failing saves of jobs and of the sandboxes' list | The properties of the eight services, one service at a time. |
| `thread_lock_leak` | violation | see below |
| `abort_unannounced` | violation | see below |
| `stale_terminal` | violation | see below |
| `self_wait` | violation | see below |
| `gateway_answers` | violation | see below |

*Bounds.*  `MaxSub` = 3 lets one turn run, one submission arrive while it runs
and one more arrive at any later point: the queue, `_pending` and the getter can
all be occupied at once, which is what ordering and loss depend on.  One or two
places in the event queue make every `put` suspend somewhere; 20 make none.
Three requests let a drain have both a predecessor and a successor.  One abort is
enough for approvals, since an abort starts only after the one before it has ended.
In `turn_rounds` three rounds let a search be refused that an earlier round made,
and a prompt be trimmed twice; `TokenLimit` = 9 makes some prompts fit and others
not, also below the protected head; two steering messages show order, loss and
repetition.  In `services` a limit of one job makes two jobs contend for it; three
cards are one that is shown, one that waits and a newcomer; three processes and two
handles let a handle be used again while the old runner is still cleaning up; three
messages are one that is asked, one that waits and a third in a bus of size one,
which loses one; four turns on two threads let each thread's slot be taken a second
time; two ticks and three edits let a stale copy be written back after a restart; three calls on two sandboxes, one allowed, let a
session's sandbox be evicted and created again while its old directory is being
removed, and two attempts at a removal let one fail, or both.

Each mutant listed in `PROJECT.json` breaks its property within these bounds, so the
case the property is about does occur in them.

`RegisteredTurnRuns` passes in `session_commands`, whose turns are not resumed
and whose prompts do not fail, and is violated in `thread_lock_leak`;
`EveryRequestAnswered` passes without `burst` and is violated with it;
`AnswersMatch` passes and says what `AnswerIsItsOwn`, violated in `gateway_answers`,
needs.  In these cases the passing run says that, within its bounds, the property
fails on no other path.  `EverySubmissionServed` is checked with a full event queue
and turns that do not fail: with failing stores the loop reports a task's exception into the
full queue while its getter waits, and what the getter fetches is lost
(session.py:515).  `CHECK_DEADLOCK FALSE` everywhere: when all submissions are made
and served the system really stops.

*What the violations show.*

1. `thread_lock_leak`.  A turn registers itself before the `try` whose `finally`
   removes the registration.  A resumed turn awaits in between; aborted there, it
   stays registered, `active_turn_id` goes on naming it, and the thread is locked
   for `turn/start` and shell commands.
2. `abort_unannounced`.  An abort delivered while the error handler of a turn
   writes to a store leaves the coroutine there, and no terminal event is sent.
3. `stale_terminal`.  A failed turn emits an ErrorEvent and then its terminal
   event; the drain stops at the first, and the second is the answer to the next
   request.
4. `self_wait`.  chat.abort served before the new drain's first step files that
   drain as its own predecessor; it awaits itself, and later drains await it.
5. `gateway_answers`.  `ask()` raises at the first ErrorEvent, also at the warning of
   a turn that goes on.  The turn's answer is then what the next `ask()` returns, for
   another message and perhaps another channel, and every later one is off by one.  A
   timeout does the same.

*What properties except.*  `TerminalIsLast`: an attached command runs with the id of the
turn it was submitted in, and prints events of it also after the turn's terminal event,
until the loop has reaped it (`AttachedRuns`).  `session_outcomes` has such commands; the
bridge submits none.  `DueIsRun`: a tick saves the jobs before it arms the timer and outside any `try`
(service.py:247-248); when the save raises, no timer is left until the gateway is
restarted.

`CreationsAccounted` excepts nothing.  `DirsMatchSandboxes` names what the code leaves
open.  A sandbox created while its directory is being removed (`raced`) may lose it: a
sandbox leaves the map before its directory is gone, and tools create sandboxes while the
clean-up at the start runs, although a comment (loop.py:180) says that `get_or_create`
returns None until then.  A directory may be left with nobody to remove it, or that of a
live sandbox be missing in the file, so that it is left when the bridge is killed
(`strayed`), in seven cases:

* a removal fails, and the sandbox is no longer listed;
* a creation is given up after its mkdir, or with what it evicted not yet removed;
* the bridge is killed, or its tasks are cancelled, while a directory is made or removed
  or the file is written;
* the list of an earlier bridge, kept because a removal failed (manager.py:689) or not yet
  worked off, or the entry of a sandbox that is being removed, is dropped by the next
  save, which lists only what this bridge has registered, by a SIGTERM or by the end of
  the bridge, which remove the file;
* the bridge ends or is killed after a SIGTERM and before `destroy_all` has run: the signal
  handler has removed the file at once, contrary to the comment at server.py:571;
* the clean-up at the start removes the file, in which live sandboxes are listed by then
  (manager.py:685-687), without any fault and contrary to "tracks all active sandboxes"
  (manager.py:12), until the next save;
* a write of the file fails (manager.py:486-495), which is logged only, on Windows perhaps
  after the old file was removed.

What is in no such case is in the file: until a SIGTERM every directory of a live sandbox
is (`RegisterUnsaved`, the mutant, forgets one save).  `max_sandboxes` is no property: two
creations at a time exceed it.

*Fairness.*  Weak fairness for every task, for the loop and for stop(), once
called: the event loop runs every ready coroutine, and providers and databases
answer or raise in the end (tool and model timeouts).  For the reader of events:
a client keeps reading (`NextEvent` in RuntimeSession; in ChatBridge the drains,
whose idle timeout expires).
For a turn of TurnRunner: its steps, and the beginning of a round (`stream_chat` and
tools have timeouts; hooks and stores return).  For the services with a liveness
property: `JobStep` (a job's task, whose run ends), `AskStep` and `SessionStep` (the
task of a message and the gateway's session) and `CronStep` (the timer, and the job
it runs, which has a timeout); none for clients, kills, edits and crashes.  None for `Submit`, `StopBegin`, `Send`, `Abort` or
`Answer`: nobody has to submit, answer or abort.

## 4. Proofs

For all values of the constants, from the assumptions named in the modules.  Those that
say more than what set a constant is in: `BridgeKindsAssumption` (what the bridge asks
of the session, clients may ask of it) and `IdsAssumption` (the provider gives every
call of a turn an id of its own; with a repeated id no accounting by ids can be right).
Every safety property of a passing run has its theorem here.  Three of the theorems have
a hypothesis, each because the property fails without it, as section 3 and the hazards in
`PROJECT.json` say: `SessionIsTurnQueue` that no write and no prompt fails
(`NeverCrashes`), `RegisteredTurnsRun` that no turn is resumed and no prompt fails
(`TriesAtOnce`), `DrainsAreSerial` that no reasoning mode is persisted.

None of these invariants is inductive as a run checks it.  What had to be added, and why:

*The session.*

* `TypeCorrect`.  An event carries the turn id of a submission, so whatever is queued, set
  aside, fetched, active or auxiliary was submitted, and only submitted positions have a
  task.  `TypeInv` is cut into six parts along the groups of variables the actions change;
  the lemma `Frames` carries a part over a step that leaves its group alone.
* `TurnsDoNotOverlap`.  `TurnInv` says which turn runs, the one in `active`, and that the
  loop is back at the top only without one.  What makes it inductive is `AbortDone`: the
  loop leaves `abortWait` only when the cancelled task has ended.
* `TurnsStartInOrder`.  `OrderInv`: `pending` and `submissions` are sorted, everything in
  `pending` is older than what `got` holds, and that older than the queue; `TakeNext`
  then takes the oldest of what waits.
* `SessionIsTurnQueue`, the refinement.  `WaitInv`: what waits is new, what is active is
  not.  Every step is then shown to serve one submission (`Serves`: in the free slot and
  before all that waits, beside it, or at once), to end one, or to be a stutter.  The one
  step that is none of these cancels a getter that fetched something while the loop
  reports a crashed task; `KeptInv` says that nothing crashes under `NeverCrashes`.
* `RecordsAlwaysMatch`, `TerminalStaysLast`.  `RecordsInv` says for each await of the two
  handlers what the row, the items and the events of the task are there.  Two cases make
  it more than a table: a clean-up that is itself cancelled adds `turn_aborted` after
  `turn_completed`, which replay reads as the last outcome, and then ends only in that
  event; and a shell command inside a turn writes and prints for that turn, so that its
  items must not decide it, and after the terminal event only such a command (the
  exception in `TerminalIsLast`) puts an event of the turn.
* `CancelEventsStayClear`.  `CancelInv`: no turn that has begun has its thread's event set;
  the abort that sets it found no task of a turn, and the next turn makes a new event.
* `StopLeavesNothing`.  `StoppedInv`: a task that has not ended is `active` or in the
  loop's set of commands until stop() has awaited it.
* `RegisteredTurnsRun`.  `RegisteredInv`: a registration is of a task of that thread that
  has begun and not ended.

*The bridge.*  `BridgeUsesSession`: what the bridge does to the session are steps of the
session, so everything above holds under it (`SessionHoldsUnderBridge`).
`DrainsAreSerial`: `DrainsInv` says that the lock is with the last request, that every
other open drain was released and the last of them is in `released`, and that a drain
that waits does so for the last of its predecessors, or for one released later, which may
be itself (the deadlock of `self_wait` is within the invariant).  `OwnEndsLeaveNothing`:
`EndsInv` orders the events in the queue (behind a terminal event none of its turn) and
needs `RecordsInv` for what is still to come: a turn that has emitted its terminal event
emits nothing more, as nothing is attached to it under the bridge.

*Approvals.*  `ApprovalInv`: `CallsFit` ties a call's place to its future and to what was
announced, `EntriesOwned` gives every entry of the maps a call that will remove it, also
with a shared id, and `OpenUnresolved` says that an open future whose id no other call
has is registered and unannounced.

*The turn.*  TurnRunner_proof starts with induction: `LeastExists` takes a least number
from the well-foundedness of the naturals, `SetInduction` and `BoundedInduction` follow
from it for a set, and `IterationExists` says that a function defined by its value at 0
and a step exists, from which `PassesDef`, `CutsDef` and `PickedDef` unfold the
recursive functions of ContextRuntime.  With these:

* `CutsEnd`: each round of the loop of `trim_for_model` that does not end it makes the
  list shorter, so the loop ends, and with what it was to reach.
* `PruneKeeps`: `Prune` = `PruneReference` for every list.  `ScanFits` says what the pass
  holds after k messages: what the reference keeps of them, but for the group of the
  last head, and which of its results were seen.
* `PromptsArePaired`, from `PrunedIsPaired`: `PassInv` keeps what is released paired and
  the group held back a head with distinct results of it.
* `RoundsAreTyped`.  `RunInv` adds that the calls of a response are announced before they
  run and that no batch is left over between rounds.
* `SteersAreKept`.  `SteerInv` adds that what the turn will persist is in the prompt, in
  the messages or was trimmed as soon as the loop may answer.
* `RoundsAreAccounted`.  `LedgerInv` says at each stage of a batch where its ids are, and
  that ids of a later round are new (`IdsUpTo`); `PairInv` that outside fast turns nothing
  is refused; `SearchInv` that a fast turn that has executed a search, or is about to,
  has noted it.
* `SnapshotFitsAlways`.  `EndInv` follows outcome, result and interruptions through the
  `except`, `else` and `finally` clauses.

*The services.*

* `SlotsHaveOwners` (TurnSlots).  A reservation is only released by the turn that holds it,
  so two turns of one thread never have handlers or drains at once.
* `OneCardAtATime`, `AnswersAreKept` (UserInputGate).  A card before the user holds its
  slot, and a slot with a holder or a waiter is the one in `entry`, so that all live calls
  refer to one slot; that fails exactly when a slot is dropped too early.
  `CardAnswerInv` ties `accepted` to `resolution`.
* `RuntimesAreReachable`, `MappingsAgreeAlways`, `OnlyIdleAreEvicted` (SessionRegistry).
  `RegInv`: at most one creation under the lock, a runtime that is up is registered and
  vice versa, no runtime is stopped twice.  `MapInv` adds the two client maps, for
  sessions not created again during a stop.  `IdleInv`: until its first await nothing
  else runs beside the TTL loop.
* `ProcessesAreAccounted` (WorkbenchProcesses).  While a process is being started the lock
  keeps the entries as they are and its own is empty; a runner that has waited has
  recorded its process; a live process has its entry unless it was dropped.
* `AnswersAreMatched` (GatewayClient).  The head of the lock's queue is the only task
  between its submission and its answer; as long as nothing timed out or warned, whatever
  the session has queued, runs or has reported is of that task.
* `OneShotsRunOnce` (CronService).  A one-shot that has run has passed its time, so
  `_compute_next_run` never arms it again, whatever is read from the file.
* `CapIsKept`, `ProviderIsKept`, `NoEndIsToldTwice` (AgentJobs).  Active jobs are among the
  counted agents; a turn has its runner busy unless a job shares it; who tells of an end
  has set the flag of the agent first.
* `CreationsAreAccounted`, `SandboxesHaveTheirDirs` (SandboxManager).  `OneCreator`: what
  is under way has one task.  `RacesNoted` and `DirsKnown` follow a directory from its
  making to its removal, through the file, over the bridges.  `DirsKnown` needs that the
  file lists the live sandboxes, for the case that the bridge is killed, and that a bridge
  that leaves relies on its own removals, as it deletes the file.  `SavedState` and
  `ClearedState` say what both outcomes of a write and of a removal of the file note.

*Model-checked only*: liveness, which needs ENABLED and is out of the prover's reach:
EverySubmissionServed, StopReturns, EveryRequestAnswered, EveryCallEnds, TurnEnds,
EveryAskEnds, DueIsRun, and that every end of a job is told at all (EveryEndIsToldOnce; that
it is not told twice is proved).

## 5. Not modelled, and the plan

Parts of modelled components that are left out, in the order in which they would be
added:

1. `interrupt_turn` of a turn that is only reserved, and the session's emitters,
   which a drain unsets for its successor.
2. The composition of ApprovalOrchestrator with the loop, where a failing ledger
   append in the abort ends the loop, and the permanent allowlist.
3. `stop_all` of the workbench processes, `fork` of sub-agents.
4. Sandboxes: the scan after a damaged state file, re-enabling with a second
   manager; `activate`, which nothing calls.
5. Proofs: every safety property of a passing run has its theorem.  What would be
   added are theorems that tie modules together, as `BridgeUsesSession` does: TurnRunner
   as the stage `model` of RuntimeSession, TurnQueue as the loop TurnSlots and the
   gateway assume.

Not planned, and most of the lines of the repository: the implementations of tools
(shell, files, documents, papers), the command guard and the commands run in a sandbox (string
processing and operating-system calls, sequential in each call), memory and context
heuristics (text), channel adapters and providers (network I/O), CRUD over SQLite and
JSON files, request and response schemas, configuration, command line, terminal and
desktop user interfaces.  They keep no state that two actors share, and what could
be wrong in them is in the data a model of control abstracts from.
