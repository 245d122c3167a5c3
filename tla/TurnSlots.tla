----------------------------- MODULE TurnSlots -----------------------------
(***************************************************************************)
(* The slot of a thread that turn/start takes (turn_app_handlers.py over   *)
(* try_reserve_turn and its release of RuntimeSession).  The handler       *)
(* reserves the thread, awaits a look-up, submits the message and starts a *)
(* drain; the drain reads the events of the whole session and frees the    *)
(* slot when it sees a turn end, whichever turn that is.                   *)
(*                                                                         *)
(* Turns run one at a time, in order (TurnQueue); what a turn does is left *)
(* out.  A turn is its number in the order of the turn/start requests.     *)
(***************************************************************************)
EXTENDS Naturals, Sequences

CONSTANTS SlotThreads,
          MaxStarts  \* bound: turn/start requests that are accepted

ASSUME SlotsAssumption == MaxStarts \in Nat

VARIABLES
  threadOf,  \* threadOf[u]: the thread of turn u
  handlers,  \* turns whose turn/start handler awaits get_thread
  drains,    \* turns whose drain reads events
  reserved,  \* _turn_reservations, 0 if none
  active,    \* _active_turn_ids, 0 if none
  waiting,   \* turns that were submitted and have not begun
  running,   \* "none", a turn that runs, or one that has announced its end
  ends       \* the turns of the events in the queue that end a drain

slotsVars == <<threadOf, handlers, drains, reserved, active, waiting, running, ends>>

NoTurn == [turn |-> 0, over |-> FALSE]

SlotsInit ==
  /\ threadOf = <<>> /\ handlers = {} /\ drains = {}
  /\ reserved = [t \in SlotThreads |-> 0]
  /\ active = [t \in SlotThreads |-> 0]
  /\ waiting = <<>> /\ running = NoTurn
  /\ ends = <<>>

Turns == 1 .. Len(threadOf)

----------------------------------------------------------------------------
(* turn/start.                                                             *)

\* Mutant: the running turn alone is looked at.
SlotFreeOfActive(t) == active[t] = 0

\* try_reserve_turn.
SlotFree(t) == active[t] = 0 /\ reserved[t] = 0

TurnStart(t) ==
  /\ Len(threadOf) < MaxStarts
  /\ SlotFree(t)
  /\ threadOf' = Append(threadOf, t)
  /\ reserved' = [reserved EXCEPT ![t] = Len(threadOf) + 1]
  /\ handlers' = handlers \cup {Len(threadOf) + 1}
  /\ UNCHANGED <<drains, active, waiting, running, ends>>

\* release_turn_reservation.
ReleaseSlot(u) == reserved' = [reserved EXCEPT ![threadOf[u]] = 0]

\* The thread exists: the message is submitted and the drain created.
StartSubmits(u) ==
  /\ u \in handlers
  /\ handlers' = handlers \ {u}
  /\ waiting' = Append(waiting, u)
  /\ drains' = drains \cup {u}
  /\ UNCHANGED <<threadOf, reserved, active, running, ends>>

\* The look-up fails or the handler is cancelled; or the task of the drain
\* cannot be created, when the message has already been submitted.
StartFails(u) ==
  /\ u \in handlers
  /\ handlers' = handlers \ {u}
  /\ waiting' \in {waiting, Append(waiting, u)}
  /\ ReleaseSlot(u)
  /\ UNCHANGED <<threadOf, drains, active, running, ends>>

----------------------------------------------------------------------------
(* drain_turn_events.                                                      *)

\* No event came for 300 s.
DrainTimesOut(u) ==
  /\ u \in drains /\ ends = <<>>
  /\ drains' = drains \ {u}
  /\ ReleaseSlot(u)
  /\ UNCHANGED <<threadOf, handlers, active, waiting, running, ends>>

\* The first such event ends the drain, also that of another turn.
DrainEnds(u) ==
  /\ u \in drains /\ ends # <<>>
  /\ ends' = Tail(ends)
  /\ drains' = drains \ {u}
  /\ ReleaseSlot(u)
  /\ UNCHANGED <<threadOf, handlers, active, waiting, running>>

----------------------------------------------------------------------------
(* The dispatch loop, as the abstract TurnQueue has it.                    *)

TurnBegins ==
  /\ running = NoTurn /\ waiting # <<>>
  /\ running' = [turn |-> Head(waiting), over |-> FALSE]
  /\ active' = [active EXCEPT ![threadOf[Head(waiting)]] = Head(waiting)]
  /\ waiting' = Tail(waiting)
  /\ UNCHANGED <<threadOf, handlers, drains, reserved, ends>>

\* It completes, fails, or an abort has cancelled it.  A failure that is not
\* recoverable is an event that ends a drain before the terminal one does.
TurnAnnounces ==
  /\ running # NoTurn /\ ~running.over
  /\ running' = [running EXCEPT !.over = TRUE]
  /\ \/ ends' = Append(ends, running.turn)
     \/ ends' = ends \o <<running.turn, running.turn>>
  /\ UNCHANGED <<threadOf, handlers, drains, reserved, active, waiting>>

\* The finally clause of _handle_user_message.
TurnClears ==
  /\ running.over
  /\ running' = NoTurn
  /\ active' = [active EXCEPT ![threadOf[running.turn]] = 0]
  /\ UNCHANGED <<threadOf, handlers, drains, reserved, waiting, ends>>

StartStep == \E u \in Turns : StartSubmits(u) \/ StartFails(u)
DrainStep == \E u \in Turns : DrainEnds(u) \/ DrainTimesOut(u)
LoopStep == TurnBegins \/ TurnAnnounces \/ TurnClears

SlotsNext ==
  \/ \E t \in SlotThreads : TurnStart(t)
  \/ StartStep \/ DrainStep \/ LoopStep

SlotsSpec == SlotsInit /\ [][SlotsNext]_slotsVars

----------------------------------------------------------------------------
(* Properties.                                                             *)

\* Type invariant.
SlotsTypeOK ==
  /\ threadOf \in Seq(SlotThreads) /\ Len(threadOf) <= MaxStarts
  /\ handlers \subseteq Turns /\ drains \subseteq Turns
  /\ reserved \in [SlotThreads -> Turns \cup {0}]
  /\ active \in [SlotThreads -> Turns \cup {0}]
  /\ waiting \in Seq(Turns) /\ ends \in Seq(Turns)
  /\ running \in [turn : Turns \cup {0}, over : BOOLEAN]

\* A slot is never leaked and never freed by another's release: it is reserved
\* exactly while the handler or the drain of its own turn is there to free it.
SlotHasOwner ==
  /\ \A t \in SlotThreads :
       reserved[t] # 0 => reserved[t] \in handlers \cup drains /\ threadOf[reserved[t]] = t
  /\ \A u \in handlers \cup drains : reserved[threadOf[u]] = u
=============================================================================
