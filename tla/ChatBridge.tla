----------------------------- MODULE ChatBridge -----------------------------
(***************************************************************************)
(* The chat methods of the bridge (miqi/bridge/loop.py and chat.abort in   *)
(* miqi/runtime/app_server.py) on top of one RuntimeSession.  chat.send    *)
(* submits a message and spawns a drain, a task that reads the session's   *)
(* events and answers the request with the first terminal one; the drain   *)
(* in _session_drain_tasks is the turn lock of the session.  chat.abort    *)
(* submits AbortTurn and releases the lock, leaving the drain to read on;  *)
(* the drain of the next request waits for it.                             *)
(*                                                                         *)
(* All drains of a session read the one event queue of the session, and an *)
(* event is the answer to whoever reads it: nothing compares its turn with *)
(* the turn of the request.                                                *)
(***************************************************************************)
EXTENDS RuntimeSession

CONSTANTS MaxReq,      \* bound: chat.send requests in one behaviour
          ChatFaults   \* what may happen: see ChatFaultsAssumption

Reqs == 1 .. MaxReq

\* mode: a request persists a reasoning mode, which suspends its handler;
\* stale: a drain may see no activity for STALE_TURN_TIMEOUT; timeout: none for
\* CHAT_DRAIN_IDLE_TIMEOUT_SECONDS; burst: chat.abort may be served right after
\* chat.send, before the new drain has run.
ASSUME ChatFaultsAssumption ==
  /\ MaxReq \in Nat \ {0}
  /\ ChatFaults \subseteq {"mode", "stale", "timeout", "burst"}

\* What the bridge asks of the session, clients may ask of it.
ASSUME BridgeKindsAssumption == {"user", "abort"} \subseteq Kinds

VARIABLES
  drain,      \* where the drain of a request is
  turnOf,     \* the turn chat.send submitted for the request
  waitsFor,   \* the released drain a drain awaits
  lock,       \* _session_drain_tasks[session]
  released,   \* _released_drain_tasks[session]
  answer,     \* the terminal event sent for the request
  endedBy     \* auxiliary: the event that ended the drain

lockVars == <<lock, released>>
chatVars == <<drain, turnOf, waitsFor, lock, released, answer, endedBy>>
bridgeVars == <<vars, chatVars>>

NoEvent == Event("none", None)
\* The idle timeout and the cancellation of a drain answer with no event.
TimedOut == Event("timeout", None)
Cancelled == Event("aborted", None)

BridgeInit ==
  /\ Init
  /\ drain = [r \in Reqs |-> "none"]
  /\ turnOf = [r \in Reqs |-> None]
  /\ waitsFor = [r \in Reqs |-> None]
  /\ lock = None /\ released = None
  /\ answer = [r \in Reqs |-> NoEvent]
  /\ endedBy = [r \in Reqs |-> NoEvent]

----------------------------------------------------------------------------
(* chat.send and chat.abort.                                               *)

\* Mutant: an aborted turn is no answer.
AnswerNotAborted(ans, r, e) ==
  IF ans[r] = NoEvent /\ e.type # "aborted" THEN [ans EXCEPT ![r] = e] ELSE ans

\* _emit_terminal: at most one terminal event per request.
Answer(ans, r, e) == IF ans[r] = NoEvent THEN [ans EXCEPT ![r] = e] ELSE ans

\* Submit the message and spawn the drain, which takes the lock.
Spawn(r, drains) ==
  /\ \E t \in Threads : Submit("user", t)
  /\ turnOf' = [turnOf EXCEPT ![r] = Len(sub) + 1]
  /\ drain' = [drains EXCEPT ![r] = "created"]
  /\ lock' = r

\* With no reasoning mode to persist the handler does not suspend.
Accept(r, drains) ==
  \/ Spawn(r, drains)
  \/ /\ "mode" \in ChatFaults
     /\ drain' = [drains EXCEPT ![r] = "persisting"]
     /\ lock' = None
     /\ UNCHANGED <<vars, turnOf>>

IsNext(r) == \A q \in Reqs : drain[q] = "none" <=> q >= r

\* A request that finds the session locked is rejected (TURN_IN_PROGRESS).
Send(r) ==
  /\ IsNext(r)
  /\ lock = None
  /\ Accept(r, drain)
  /\ UNCHANGED <<waitsFor, released, answer, endedBy>>

\* The stale-turn guard cancels an inactive drain and takes its lock.  A drain
\* that still awaits its predecessor is not yet in its try statement.
SendStale(r) ==
  /\ "stale" \in ChatFaults
  /\ IsNext(r)
  /\ lock # None /\ drain[lock] \in {"awaiting", "draining"}
  /\ Accept(r, [drain EXCEPT ![lock] = "done"])
  /\ answer' = IF drain[lock] = "draining" THEN Answer(answer, lock, Cancelled)
               ELSE answer
  /\ endedBy' = [endedBy EXCEPT ![lock] = Cancelled]
  /\ UNCHANGED <<waitsFor, released>>

\* The mode is persisted; the lock is not looked at again.
SendResumes(r) ==
  /\ drain[r] = "persisting"
  /\ Spawn(r, drain)
  /\ UNCHANGED <<waitsFor, released, answer, endedBy>>

\* release_turn_lock: the drain that held the lock reads on without it.
ReleaseTurnLock ==
  /\ released' = IF lock = None THEN released ELSE lock
  /\ lock' = None

\* chat.abort.
Abort ==
  /\ \E t \in Threads : Submit("abort", t)
  /\ lock # None /\ drain[lock] = "created" => "burst" \in ChatFaults
  /\ ReleaseTurnLock
  /\ UNCHANGED <<drain, turnOf, waitsFor, answer, endedBy>>

----------------------------------------------------------------------------
(* The drain: _drain_chat_events.                                          *)

\* Mutant: the drain reads without awaiting its predecessor.
DrainStartAtOnce(r) ==
  /\ drain[r] = "created"
  /\ drain' = [drain EXCEPT ![r] = "draining"]
  /\ UNCHANGED <<vars, turnOf, waitsFor, lockVars, answer, endedBy>>

\* _await_released_predecessor.
DrainStart(r) ==
  /\ drain[r] = "created"
  /\ drain' = [drain EXCEPT ![r] = IF released = None THEN "draining"
                                   ELSE "awaiting"]
  /\ waitsFor' = [waitsFor EXCEPT ![r] = released]
  /\ UNCHANGED <<vars, turnOf, lockVars, answer, endedBy>>

DrainGo(r) ==
  /\ drain[r] = "awaiting" /\ drain[waitsFor[r]] = "done"
  /\ drain' = [drain EXCEPT ![r] = "draining"]
  /\ UNCHANGED <<vars, turnOf, waitsFor, lockVars, answer, endedBy>>

\* break, and the done callbacks of the task.
DrainEnds(r, e) ==
  /\ drain' = [drain EXCEPT ![r] = "done"]
  /\ endedBy' = [endedBy EXCEPT ![r] = e]
  /\ lock' = IF lock = r THEN None ELSE lock
  /\ released' = IF released = r THEN None ELSE released

DrainEvent(r) ==
  /\ drain[r] = "draining"
  /\ NextEvent
  /\ LET e == Head(events) IN
     \/ /\ e.type = "started"
        /\ UNCHANGED <<drain, lockVars, answer, endedBy>>
     \/ /\ e.type = "message"
        /\ answer' = Answer(answer, r, e)
        /\ UNCHANGED <<drain, lockVars, endedBy>>
     \/ /\ e.type \in {"complete", "failed", "aborted", "error", "warning"}
        /\ answer' = Answer(answer, r, e)
        /\ DrainEnds(r, e)
  /\ UNCHANGED <<turnOf, waitsFor>>

\* next_event(timeout=CHAT_DRAIN_IDLE_TIMEOUT_SECONDS) returned None.
DrainTimeout(r) ==
  /\ "timeout" \in ChatFaults
  /\ drain[r] = "draining" /\ events = <<>>
  /\ answer' = Answer(answer, r, TimedOut)
  /\ DrainEnds(r, TimedOut)
  /\ UNCHANGED <<vars, turnOf, waitsFor>>

DrainStep(r) == DrainStart(r) \/ DrainGo(r) \/ DrainEvent(r) \/ DrainTimeout(r)

\* The session under the bridge: its clients and its reader are the above.  A
\* new drain is already scheduled, and takes its first step first.
SessionStep ==
  /\ \A r \in Reqs : drain[r] # "created"
  /\ (\E w \in Ids : TaskStep(w)) \/ LoopStep
  /\ UNCHANGED chatVars

BridgeNext ==
  \/ \E r \in Reqs : Send(r) \/ SendStale(r) \/ SendResumes(r) \/ DrainStep(r)
  \/ Abort
  \/ SessionStep

\* The event loop runs every ready task, and the idle timeout of a drain that
\* is never served expires.
BridgeFairness ==
  /\ \A w \in Ids : WF_vars(TaskStep(w))
  /\ WF_vars(LoopStep)
  /\ \A r \in Reqs : WF_bridgeVars(SendResumes(r)) /\ WF_bridgeVars(DrainStep(r))

BridgeSpec == BridgeInit /\ [][BridgeNext]_bridgeVars /\ BridgeFairness

----------------------------------------------------------------------------
(* Properties.                                                             *)

BridgeTypeOK ==
  LET E == [type : EventTypes \cup {"none", "timeout"}, turn : Ids \cup {None}] IN
  /\ drain \in [Reqs -> {"none", "persisting", "created", "awaiting", "draining",
                         "done"}]
  /\ turnOf \in [Reqs -> Ids \cup {None}]
  /\ waitsFor \in [Reqs -> Reqs \cup {None}]
  /\ lock \in Reqs \cup {None} /\ released \in Reqs \cup {None}
  /\ answer \in [Reqs -> E] /\ endedBy \in [Reqs -> E]

\* The drains of a session read one after the other, in the order of their
\* requests: neither chat.abort, which frees the lock under a reading drain,
\* nor the stale-turn guard ever lets a later one at the queue.
SerialDrains ==
  \A q, r \in Reqs :
    q < r /\ drain[r] = "draining" => drain[q] = "done"

\* A drain that ended with the terminal event of its own turn has left nothing
\* of that turn in the queue for the next drain to take for its own.
OwnEndLeavesNothing ==
  \A r \in Reqs :
    endedBy[r].type \in TerminalTypes /\ endedBy[r].turn = turnOf[r]
      => \A i \in 1 .. Len(events) : events[i].turn # turnOf[r]

\* The answer to a request is about the turn of that request.
AnswerIsOwn ==
  \A r \in Reqs : answer[r].turn \in {None, turnOf[r]}

\* Every request that was accepted is answered: no chain of drains waiting for
\* drains holds a request back for ever.
EveryRequestAnswered ==
  \A r \in Reqs : (turnOf[r] # None) ~> (answer[r] # NoEvent)
=============================================================================
