--------------------------- MODULE GatewayClient ---------------------------
(***************************************************************************)
(* The gateway: messages of chat channels come through a bounded bus       *)
(* (miqi/bus/queue.py), the dispatcher starts a task for each              *)
(* (runtime/gateway_dispatcher.py), and every task asks the one session of *)
(* the gateway (runtime/client.py: RuntimeClient.ask), one at a time under *)
(* the session's _ask_lock.  Jobs of the timer service and heartbeats ask  *)
(* in the same way, as messages that do not come through the bus.          *)
(*                                                                         *)
(* The session is a queue of submissions whose turns run in order          *)
(* (TurnQueue).  Of the events of a turn, ask() looks at the message and   *)
(* the error alone.                                                        *)
(***************************************************************************)
EXTENDS Naturals, Sequences, FiniteSets

CONSTANTS Messages,
          Timers,      \* the messages of timer jobs and heartbeats
          BusSize,     \* maxsize of both queues of the bus
          MaxTimeouts, \* bound: asks that time out
          MaxWarnings  \* bound: compactions that fail

ASSUME GatewayAssumption ==
  /\ Timers \subseteq Messages
  /\ BusSize \in Nat \ {0} /\ MaxTimeouts \in Nat /\ MaxWarnings \in Nat

VARIABLES
  inbound,   \* MessageBus.inbound
  ask,       \* stage of the task of a message
  askLock,   \* _ask_lock: its holder and then its waiters, in order
  submitted, \* the session's queue
  turnOf,    \* the message whose turn runs, as a set
  news,      \* events that ask() looks at: kind and the message of the turn
  got,       \* the message whose answer the task was given, as a set
  outbound,  \* answers in MessageBus.outbound
  timeouts,  \* asks that have timed out
  warnings   \* turns that have reported an error and gone on

gatewayVars == <<inbound, ask, askLock, submitted, turnOf, news, got, outbound, timeouts,
                 warnings>>

GatewayInit ==
  /\ inbound = <<>> /\ outbound = <<>>
  /\ ask = [m \in Messages |-> "new"]
  /\ askLock = <<>> /\ submitted = <<>> /\ news = <<>>
  /\ turnOf = {}
  /\ got = [m \in Messages |-> {}]
  /\ timeouts = 0 /\ warnings = 0

SetAsk(m, stage) == ask' = [ask EXCEPT ![m] = stage]

----------------------------------------------------------------------------
(* The bus and the dispatcher.                                             *)

\* publish_inbound: a full queue loses its oldest message.
Publish(m) ==
  /\ ask[m] = "new" /\ m \notin Timers
  /\ IF Len(inbound) < BusSize
     THEN inbound' = Append(inbound, m) /\ SetAsk(m, "inbound")
     ELSE /\ inbound' = Append(Tail(inbound), m)
          /\ ask' = [ask EXCEPT ![m] = "inbound", ![Head(inbound)] = "dropped"]
  /\ UNCHANGED <<askLock, submitted, turnOf, news, got, outbound, timeouts, warnings>>

\* GatewayRuntimeDispatcher.run: the task of the message queues for the lock.
Dispatch ==
  /\ inbound # <<>>
  /\ inbound' = Tail(inbound)
  /\ SetAsk(Head(inbound), "waits")
  /\ askLock' = Append(askLock, Head(inbound))
  /\ UNCHANGED <<submitted, turnOf, news, got, outbound, timeouts, warnings>>

TimerAsks(m) ==
  /\ ask[m] = "new" /\ m \in Timers
  /\ SetAsk(m, "waits")
  /\ askLock' = Append(askLock, m)
  /\ UNCHANGED <<inbound, submitted, turnOf, news, got, outbound, timeouts, warnings>>

----------------------------------------------------------------------------
(* RuntimeClient.ask.                                                      *)

\* Mutant: a lock for each client.
HoldsLockAlways(m) == TRUE

HoldsLock(m) == askLock # <<>> /\ Head(askLock) = m

Submit(m) ==
  /\ ask[m] = "waits" /\ HoldsLock(m)
  /\ SetAsk(m, "reads")
  /\ submitted' = Append(submitted, m)
  /\ UNCHANGED <<inbound, askLock, turnOf, news, got, outbound, timeouts, warnings>>

Unlock == askLock' = Tail(askLock)

\* The first message or error is taken for one's own.
AskReads(m) ==
  /\ ask[m] = "reads" /\ news # <<>>
  /\ news' = Tail(news)
  /\ IF Head(news).kind = "message"
     THEN SetAsk(m, "answered") /\ got' = [got EXCEPT ![m] = {Head(news).of}]
     ELSE SetAsk(m, "failed") /\ UNCHANGED got
  /\ Unlock
  /\ UNCHANGED <<inbound, submitted, turnOf, outbound, timeouts, warnings>>

\* Mutant: the ask that times out does not return the lock.
AskTimesOutLocked(m) ==
  /\ ask[m] = "reads" /\ news = <<>> /\ timeouts < MaxTimeouts
  /\ SetAsk(m, "failed")
  /\ timeouts' = timeouts + 1
  /\ UNCHANGED <<inbound, askLock, submitted, turnOf, news, got, outbound, warnings>>

\* Nothing came for 120 s; the turn runs on.
AskTimesOut(m) ==
  /\ ask[m] = "reads" /\ news = <<>> /\ timeouts < MaxTimeouts
  /\ SetAsk(m, "failed")
  /\ timeouts' = timeouts + 1
  /\ Unlock
  /\ UNCHANGED <<inbound, submitted, turnOf, news, got, outbound, warnings>>

\* publish_outbound: dropped when there is no room for ten seconds.
Reply(m) ==
  /\ ask[m] = "answered"
  /\ IF Len(outbound) < BusSize
     THEN outbound' = Append(outbound, m) /\ SetAsk(m, "replied")
     ELSE UNCHANGED outbound /\ SetAsk(m, "dropped")
  /\ UNCHANGED <<inbound, askLock, submitted, turnOf, news, got, timeouts, warnings>>

\* A channel sends what is in the queue.
ChannelSends ==
  /\ outbound # <<>>
  /\ outbound' = Tail(outbound)
  /\ UNCHANGED <<inbound, ask, askLock, submitted, turnOf, news, got, timeouts, warnings>>

----------------------------------------------------------------------------
(* The session.                                                            *)

TurnStarts ==
  /\ turnOf = {} /\ submitted # <<>>
  /\ turnOf' = {Head(submitted)}
  /\ submitted' = Tail(submitted)
  /\ UNCHANGED <<inbound, ask, askLock, news, got, outbound, timeouts, warnings>>

\* The history is too long and its compaction fails: an ErrorEvent of severity
\* WARNING, and the turn goes on.
TurnWarns ==
  /\ warnings < MaxWarnings
  /\ warnings' = warnings + 1
  /\ \E m \in turnOf : news' = Append(news, [kind |-> "error", of |-> m])
  /\ UNCHANGED <<inbound, ask, askLock, submitted, turnOf, got, outbound, timeouts>>

TurnReports ==
  /\ turnOf # {}
  /\ \E kind \in {"message", "error"}, m \in turnOf :
       news' = Append(news, [kind |-> kind, of |-> m])
  /\ turnOf' = {}
  /\ UNCHANGED <<inbound, ask, askLock, submitted, got, outbound, timeouts, warnings>>

AskStep(m) == Submit(m) \/ AskReads(m) \/ Reply(m)
SessionStep == TurnStarts \/ TurnReports

GatewayNext ==
  \/ \E m \in Messages : Publish(m) \/ TimerAsks(m) \/ AskStep(m) \/ AskTimesOut(m)
  \/ Dispatch \/ ChannelSends \/ SessionStep \/ TurnWarns

GatewaySpec == GatewayInit /\ [][GatewayNext]_gatewayVars

----------------------------------------------------------------------------
(* Properties.                                                             *)

\* Type invariant.
GatewayTypeOK ==
  /\ inbound \in Seq(Messages) /\ Len(inbound) <= BusSize
  /\ outbound \in Seq(Messages) /\ Len(outbound) <= BusSize
  /\ ask \in [Messages -> {"new", "inbound", "waits", "reads", "answered", "replied",
                           "failed", "dropped"}]
  /\ askLock \in Seq(Messages) /\ submitted \in Seq(Messages)
  /\ turnOf \in SUBSET Messages /\ Cardinality(turnOf) <= 1
  /\ news \in Seq([kind : {"message", "error"}, of : Messages])
  /\ got \in [Messages -> SUBSET Messages]
  /\ timeouts \in 0 .. MaxTimeouts /\ warnings \in 0 .. MaxWarnings

\* Every task is given the answer to its own message (client.py: "submits, then
\* drains events until its AgentMessageEvent").
AnswerIsItsOwn == \A m \in Messages : got[m] \subseteq {m}

\* It is, while no ask has timed out and no turn has gone on after an error: the
\* lock leaves no event of one turn to the ask of another, also when turns fail.
\* After either, every later ask is given the answer to the one before.
AnswersMatch == timeouts = 0 /\ warnings = 0 => AnswerIsItsOwn

\* A message that has reached the dispatcher is answered, fails or is dropped
\* in the end: the lock comes round, whatever became of the asks before.
EveryAskEnds ==
  \A m \in Messages : (ask[m] = "waits") ~> (ask[m] \in {"replied", "failed", "dropped"})
=============================================================================
