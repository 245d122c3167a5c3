--------------------------- MODULE UserInputGate ---------------------------
(***************************************************************************)
(* Confirm cards of one turn: UserInputGate and its per-turn slot          *)
(* (miqi/kun_runtime/user_input_gate.py), as the resolver of the runtime   *)
(* uses them (miqi/agent/user_input_resolver.py).  One card at a time is   *)
(* pending; the others wait for the slot, an object that is created on     *)
(* demand and dropped by whoever leaves it idle.                           *)
(*                                                                         *)
(* A turn is aborted by cancelling the tasks of its calls; cancel_all is   *)
(* called from tests alone and left out.  Turns share nothing but the      *)
(* remembered choices, so one turn is modelled.                            *)
(***************************************************************************)
EXTENDS Naturals, FiniteSets

CONSTANTS Cards,
          MaxSlots  \* bound: slot objects created

ASSUME GateAssumption == MaxSlots \in Nat

VARIABLES
  card,       \* stage of a request() call
  slotOf,     \* the slot object a call has a reference to
  entry,      \* _turn_slots[turn], 0 if none
  slotsMade,  \* slot objects created so far
  held,       \* slot objects with _held
  pending,    \* _pending
  resolution, \* UserInputRequest._resolution
  accepted    \* the cards for which the user's answer was taken

gateVars == <<card, slotOf, entry, slotsMade, held, pending, resolution, accepted>>

GateInit ==
  /\ card = [c \in Cards |-> "new"]
  /\ slotOf = [c \in Cards |-> 0]
  /\ entry = 0 /\ slotsMade = 0 /\ held = {}
  /\ pending = {}
  /\ resolution = [c \in Cards |-> "none"]
  /\ accepted = {}

SetCard(c, stage) == card' = [card EXCEPT ![c] = stage]

Waiters(s) == {c \in Cards : card[c] = "queued" /\ slotOf[c] = s}

\* _TurnSlot.idle, for the slot that c gives up.
IdleWithout(s, c) == s \notin held \ {slotOf[c]} /\ Waiters(s) \subseteq {c}

----------------------------------------------------------------------------
(* request.                                                                *)

\* The slot is taken in the same step, when it is free.
AskCard(c) ==
  LET s == IF entry # 0 THEN entry ELSE slotsMade + 1 IN
  /\ card[c] = "new" /\ s <= MaxSlots
  /\ entry' = s
  /\ slotsMade' = IF entry # 0 THEN slotsMade ELSE s
  /\ slotOf' = [slotOf EXCEPT ![c] = s]
  /\ IF s \in held
     THEN SetCard(c, "queued") /\ UNCHANGED <<held, pending>>
     ELSE SetCard(c, "announcing") /\ held' = held \cup {s} /\ pending' = pending \cup {c}
  /\ UNCHANGED <<resolution, accepted>>

\* A waiter wakes and finds the slot free; a newcomer may have been faster.
TakeSlot(c) ==
  /\ card[c] = "queued" /\ slotOf[c] \notin held
  /\ held' = held \cup {slotOf[c]}
  /\ pending' = pending \cup {c}
  /\ SetCard(c, "announcing")
  /\ UNCHANGED <<slotOf, entry, slotsMade, resolution, accepted>>

\* on_pending has been awaited.
CardShown(c) ==
  /\ card[c] = "announcing"
  /\ SetCard(c, "shown")
  /\ UNCHANGED <<slotOf, entry, slotsMade, held, pending, resolution, accepted>>

\* Mutant: the entry is dropped although others wait for the slot.
LeaveSlotAlways(c) ==
  /\ held' = held \ {slotOf[c]}
  /\ entry' = 0

\* The outer finally clause.
LeaveSlot(c) ==
  /\ held' = held \ {slotOf[c]}
  /\ entry' = IF IdleWithout(slotOf[c], c) THEN 0 ELSE entry

\* wait() returns what the card was resolved with.
CardReturns(c) ==
  /\ card[c] = "shown" /\ resolution[c] # "none"
  /\ SetCard(c, resolution[c])
  /\ pending' = pending \ {c}
  /\ LeaveSlot(c)
  /\ UNCHANGED <<slotOf, slotsMade, resolution, accepted>>

\* The timer of wait_for fires; its task goes on a step later.
CardExpires(c) ==
  /\ card[c] = "shown" /\ resolution[c] = "none"
  /\ SetCard(c, "expired")
  /\ UNCHANGED <<slotOf, entry, slotsMade, held, pending, resolution, accepted>>

\* Mutant: the timeout overrides an answer that came in between.
OutcomeAfterTimeoutLate(c) == "cancelled"

OutcomeAfterTimeout(c) == IF resolution[c] = "none" THEN "cancelled" ELSE resolution[c]

CardExpired(c) ==
  /\ card[c] = "expired"
  /\ resolution' = [resolution EXCEPT ![c] = OutcomeAfterTimeout(c)]
  /\ SetCard(c, OutcomeAfterTimeout(c))
  /\ pending' = pending \ {c}
  /\ LeaveSlot(c)
  /\ UNCHANGED <<slotOf, slotsMade, accepted>>

\* The task of a card that waits for the slot is cancelled: the exception does
\* not pass the code that would drop an idle entry.
CancelQueued(c) ==
  /\ card[c] = "queued"
  /\ SetCard(c, "aborted")
  /\ UNCHANGED <<slotOf, entry, slotsMade, held, pending, resolution, accepted>>

\* It is cancelled while the card is announced, when it stays in _pending, or
\* while the card is shown.
CancelCard(c) ==
  /\ card[c] \in {"announcing", "shown", "expired"}
  /\ SetCard(c, "aborted")
  /\ pending' = IF card[c] = "announcing" THEN pending ELSE pending \ {c}
  /\ LeaveSlot(c)
  /\ UNCHANGED <<slotOf, slotsMade, resolution, accepted>>

----------------------------------------------------------------------------
(* resolve, by the user.                                                   *)

\* The first answer to a card.  A second one that comes before wait() has returned
\* is told that it was taken, too, and changes nothing.
AnswerCard(c) ==
  /\ c \in pending
  /\ resolution[c] = "none"
  /\ resolution' = [resolution EXCEPT ![c] = "submitted"]
  /\ accepted' = accepted \cup {c}
  /\ UNCHANGED <<card, slotOf, entry, slotsMade, held, pending>>

CardStep(c) == TakeSlot(c) \/ CardShown(c) \/ CardReturns(c) \/ CardExpires(c) \/ CardExpired(c)

GateNext ==
  \E c \in Cards :
    AskCard(c) \/ CardStep(c) \/ CancelQueued(c) \/ CancelCard(c) \/ AnswerCard(c)

GateSpec == GateInit /\ [][GateNext]_gateVars

----------------------------------------------------------------------------
(* Properties.                                                             *)

Holders == {c \in Cards : card[c] \in {"announcing", "shown", "expired"}}

\* Type invariant.
GateTypeOK ==
  /\ card \in [Cards -> {"new", "queued", "announcing", "shown", "expired", "submitted",
                         "cancelled", "aborted"}]
  /\ slotOf \in [Cards -> 0 .. slotsMade]
  /\ slotsMade \in 0 .. MaxSlots /\ entry \in 0 .. slotsMade
  /\ held \subseteq 1 .. slotsMade
  /\ pending \subseteq Cards /\ accepted \subseteq Cards
  /\ resolution \in [Cards -> {"none", "submitted", "cancelled"}]

\* At most one card of a turn is before the user, although the slot that
\* serializes them is dropped and made again while calls refer to it.
OneCard == \A c, d \in Holders : c = d

\* The first answer that was taken is what the call returns, also when the timeout has
\* fired before it; only a call that was aborted loses it.
AnswerKept ==
  \A c \in accepted : card[c] \notin {"cancelled", "queued", "new"}
=============================================================================
