------------------------------ MODULE TurnQueue ------------------------------
(***************************************************************************)
(* What a RuntimeSession promises to whoever submits to it, with no word   *)
(* of queues, tasks or getters: a submission is either served in the one   *)
(* exclusive slot, and then in the order of submission, or beside it, or   *)
(* answered on the spot; and it is never forgotten, served twice or taken  *)
(* back.  RuntimeSession implements this specification.                    *)
(***************************************************************************)
EXTENDS Naturals

CONSTANT Requests   \* natural numbers: the positions in the order of submission

VARIABLE phase   \* absent, waiting, turn, side or done

Init == phase = [r \in Requests |-> "absent"]

Is(p) == {r \in Requests : phase[r] = p}
Set(r, p) == phase' = [phase EXCEPT ![r] = p]

\* Submissions are accepted in order.
Accept(r) ==
  /\ r \in Is("absent")
  /\ \A q \in Is("absent") : r <= q
  /\ Set(r, "waiting")

\* The slot is exclusive, and nothing that was submitted earlier still waits.
StartTurn(r) ==
  /\ r \in Is("waiting")
  /\ Is("turn") = {}
  /\ \A q \in Is("waiting") : r <= q
  /\ Set(r, "turn")

\* A shell command runs beside a turn.
StartSide(r) ==
  /\ r \in Is("waiting")
  /\ Set(r, "side")

\* An abort is answered without running.
Answer(r) ==
  /\ r \in Is("waiting")
  /\ Set(r, "done")

Finish(r) ==
  /\ r \in Is("turn") \cup Is("side")
  /\ Set(r, "done")

Next ==
  \E r \in Requests :
    Accept(r) \/ StartTurn(r) \/ StartSide(r) \/ Answer(r) \/ Finish(r)

Spec == Init /\ [][Next]_phase

=============================================================================
