---------------------- MODULE RuntimeSessionOrder_proof ----------------------
(***************************************************************************)
(* Proof that the turns of a session start in the order of submission.     *)
(* NoOvertaking speaks of three places where a submission may wait; it is  *)
(* inductive once each of them is ordered, and all of _pending is older    *)
(* than what get_task holds, and that older than the queue.                *)
(***************************************************************************)
EXTENDS RuntimeSession_proof

Sorted(q) == \A i, j \in 1 .. Len(q) : i < j => q[i] < q[j]
Below(q, x) == \A i \in 1 .. Len(q) : q[i] < x
Above(q, x) == \A i \in 1 .. Len(q) : x < q[i]

OrderInv ==
  /\ Sorted(pending) /\ Sorted(submissions)
  /\ \A i \in 1 .. Len(pending) : Above(submissions, pending[i])
  /\ got # None => Below(pending, got) /\ Above(submissions, got)
  /\ loop \in {"top", "abortReap", "abortWait"} => got = None
  /\ NoOvertaking

----------------------------------------------------------------------------
(* Sequences of numbers in increasing order.                               *)

\* The rest of an ordered sequence is ordered, and above its head.
LEMMA SortedTail ==
  ASSUME NEW n \in Nat, NEW q \in Seq(1 .. n), q # <<>>, Sorted(q)
  PROVE  /\ Sorted(Tail(q)) /\ Above(Tail(q), Head(q))
         /\ Len(Tail(q)) = Len(q) - 1
         /\ \A i \in 1 .. Len(Tail(q)) : Tail(q)[i] = q[i + 1]
<1>1. /\ Len(q) \in Nat \ {0} /\ Head(q) = q[1]
      /\ Len(Tail(q)) = Len(q) - 1
      /\ \A i \in 1 .. Len(Tail(q)) : Tail(q)[i] = q[i + 1]
  OBVIOUS
<1>2. QED
  BY <1>1 DEF Sorted, Above

\* Appending something above an ordered sequence keeps it ordered.
LEMMA SortedAppend ==
  ASSUME NEW n \in Nat, NEW q \in Seq(1 .. n), NEW x \in 1 .. n, Sorted(q),
         Below(q, x)
  PROVE  Sorted(Append(q, x))
<1>1. /\ Len(q) \in Nat /\ Len(Append(q, x)) = Len(q) + 1
      /\ \A i \in 1 .. Len(q) : Append(q, x)[i] = q[i]
      /\ Append(q, x)[Len(q) + 1] = x
  OBVIOUS
<1>2. QED
  BY <1>1 DEF Sorted, Below

\* What is in the tail of a sequence is in the sequence.
LEMMA InTail ==
  ASSUME NEW n \in Nat, NEW q \in Seq(1 .. n), q # <<>>, NEW w,
         InQueue(w, Tail(q))
  PROVE  InQueue(w, q)
<1>1. /\ Len(q) \in Nat \ {0} /\ Len(Tail(q)) = Len(q) - 1
      /\ \A i \in 1 .. Len(Tail(q)) : Tail(q)[i] = q[i + 1]
  OBVIOUS
<1>2. QED
  BY <1>1 DEF InQueue

\* What is in an extended sequence was in it or is the new element.
LEMMA InAppend ==
  ASSUME NEW n \in Nat, NEW q \in Seq(1 .. n), NEW x \in 1 .. n, NEW w,
         InQueue(w, Append(q, x))
  PROVE  InQueue(w, q) \/ w = x
<1>1. /\ Len(q) \in Nat /\ Len(Append(q, x)) = Len(q) + 1
      /\ \A i \in 1 .. Len(q) : Append(q, x)[i] = q[i]
      /\ Append(q, x)[Len(q) + 1] = x
  OBVIOUS
<1>2. QED
  BY <1>1 DEF InQueue

----------------------------------------------------------------------------
(* The steps.                                                              *)

\* Nothing waits at first.
LEMMA InitOrderInv == Init => OrderInv
BY DEF Init, OrderInv, NoOvertaking, Accepted, Sorted

\* A step that adds nothing to what waits and starts no turn.
LEMMA OvertakingFrame ==
  ASSUME NoOvertaking, UNCHANGED sub,
         \A w \in Accepted : Waiting(w)' => Waiting(w),
         \A v \in Accepted : IsTurn(v) /\ stage'[v] # "new" => stage[v] # "new"
  PROVE  NoOvertaking'
BY DEF NoOvertaking, Accepted, IsTurn, Kind

\* A step that does not touch what waits.
LEMMA OrderFrame ==
  ASSUME OrderInv, UNCHANGED <<sub, submissions, pending, got>>,
         loop' \in {"top", "abortReap", "abortWait"} => got = None,
         \A v \in Accepted : IsTurn(v) /\ stage'[v] # "new" => stage[v] # "new"
  PROVE  OrderInv'
<1>1. NoOvertaking'
  BY OvertakingFrame DEF OrderInv, Waiting, InQueue
<1>2. QED
  BY <1>1 DEF OrderInv, Sorted, Below, Above

\* A new submission is younger than everything that waits.
LEMMA SubmitOrder ==
  ASSUME TypeInv, OrderInv, NEW kind \in Kinds, NEW t \in Threads, Submit(kind, t)
  PROVE  OrderInv'
<1> DEFINE w == Len(sub) + 1
<1>1. /\ submissions' = Append(submissions, w)
      /\ UNCHANGED <<pending, got, loop, stage>>
  BY DEF Submit, taskVars
<1>2. /\ Len(sub') = w /\ Len(sub) \in Nat /\ w \in Ids
      /\ \A v \in Accepted : sub'[v] = sub[v]
  BY DEF Submit, Accepted, TypeInv, LoopInv, Ids
<1>3. /\ submissions \in Seq(1 .. w) /\ Below(submissions, w)
      /\ pending \in Seq(1 .. w) /\ Below(pending, w)
      /\ got < w /\ got \in Nat
  <2>1. /\ submissions \in Seq(Accepted) /\ pending \in Seq(Accepted)
        /\ Accepted = 1 .. Len(sub) /\ (got \in Accepted \/ got = None)
    BY DEF TypeInv, LoopInv, Accepted
  <2>2. Accepted \subseteq 1 .. w /\ \A v \in Accepted : v < w
    BY <1>2, <2>1
  <2>3. got < w /\ got \in Nat
    BY <1>2, <2>1 DEF None
  <2>. QED BY <1>2, <2>1, <2>2, <2>3 DEF Below
<1>4. Sorted(submissions')
  BY <1>1, <1>2, <1>3, SortedAppend DEF OrderInv
<1>5. /\ Len(submissions') = Len(submissions) + 1 /\ Len(submissions) \in Nat
      /\ submissions'[Len(submissions) + 1] = w
      /\ \A i \in 1 .. Len(submissions) : submissions'[i] = submissions[i]
  BY <1>1, <1>2, <1>3
<1>6. ASSUME NEW i \in 1 .. Len(pending) PROVE Above(submissions', pending[i])
  <2>1. pending[i] < w /\ Above(submissions, pending[i])
    BY <1>3 DEF OrderInv, Below
  <2>2. ASSUME NEW j \in 1 .. Len(submissions') PROVE pending[i] < submissions'[j]
    BY <1>5, <2>1 DEF Above
  <2>3. QED
    BY <2>2 DEF Above
<1>7. got # None => Above(submissions, got)'
  BY <1>1, <1>3, <1>5 DEF OrderInv, Above
<1>8. NoOvertaking'
  <2> SUFFICES ASSUME NEW v \in Accepted', NEW u \in Accepted',
                      IsTurn(v)', IsTurn(u)', stage'[v] # "new", Waiting(u)'
               PROVE  v < u
    BY DEF NoOvertaking
  <2>1. stage[w] = "new"
    BY <1>2 DEF TypeInv, StageInv, Accepted
  <2>2. v \in Accepted /\ IsTurn(v) /\ stage[v] # "new"
    BY <1>1, <1>2, <2>1 DEF Accepted, IsTurn, Kind
  <2>3. Waiting(u) \/ u = w
    BY <1>1, <1>2, <1>3, InAppend DEF Waiting, InQueue
  <2>4. CASE u = w
    BY <1>2, <2>2, <2>4 DEF Accepted
  <2>5. CASE Waiting(u) /\ u # w
    <3>1. u \in Accepted /\ IsTurn(u)
      BY <1>2, <2>5 DEF Accepted, IsTurn, Kind
    <3>2. QED
      BY <2>2, <2>5, <3>1 DEF OrderInv, NoOvertaking
  <2>6. QED
    BY <2>3, <2>4, <2>5
<1>9. QED
  BY <1>1, <1>4, <1>6, <1>7, <1>8 DEF OrderInv, Sorted, Below

\* The queues hold submissions.
LEMMA QueueTypes ==
  ASSUME TypeInv
  PROVE  /\ Len(sub) \in Nat /\ Accepted = 1 .. Len(sub)
         /\ submissions \in Seq(1 .. Len(sub)) /\ pending \in Seq(1 .. Len(sub))
BY DEF TypeInv, LoopInv, Accepted

\* The oldest of what waits is what the loop takes at the top.
LEMMA TakeNextOrder ==
  ASSUME TypeInv, OrderInv, TakeNext
  PROVE  OrderInv'
<1> DEFINE w == IF pending # <<>> THEN Head(pending) ELSE Head(submissions)
<1>1. /\ w \in Accepted /\ got = None /\ got' = None /\ sub' = sub
      /\ loop = "top"
  BY NextIsSubmitted DEF TakeNext, OrderInv
<1>2. /\ \A u \in Accepted : Waiting(u)' => Waiting(u) /\ w < u
      /\ Sorted(pending') /\ Sorted(submissions')
      /\ \A i \in 1 .. Len(pending') : Above(submissions', pending'[i])
  <2>1. CASE pending # <<>> /\ pending' = Tail(pending) /\ UNCHANGED submissions
    <3>1. /\ Sorted(pending') /\ Above(pending', w)
          /\ Len(pending') = Len(pending) - 1
          /\ \A i \in 1 .. Len(pending') : pending'[i] = pending[i + 1]
      BY <2>1, QueueTypes, SortedTail DEF OrderInv
    <3>2. Len(pending) \in Nat \ {0} /\ w = pending[1]
      BY <2>1, QueueTypes
    <3>3. Above(submissions, w)
      BY <3>2 DEF OrderInv
    <3>4. \A i \in 1 .. Len(pending') : Above(submissions', pending'[i])
      BY <2>1, <3>1, <3>2 DEF OrderInv
    <3>5. \A u : InQueue(u, pending') => InQueue(u, pending)
      BY <2>1, QueueTypes, InTail
    <3>6. \A u \in Accepted : Waiting(u)' => Waiting(u) /\ w < u
      <4> SUFFICES ASSUME NEW u \in Accepted, Waiting(u)'
                   PROVE  Waiting(u) /\ w < u
        OBVIOUS
      <4>1. InQueue(u, submissions) \/ InQueue(u, pending')
        BY <1>1, <2>1, QueueTypes DEF Waiting, InQueue, None
      <4>2. QED
        BY <3>1, <3>3, <3>5, <4>1 DEF Waiting, InQueue, Above
    <3>7. QED
      BY <2>1, <3>1, <3>4, <3>6 DEF OrderInv
  <2>2. CASE /\ pending = <<>> /\ submissions # <<>>
             /\ submissions' = Tail(submissions) /\ UNCHANGED pending
    <3>1. Sorted(submissions') /\ Above(submissions', w)
      BY <2>2, QueueTypes, SortedTail DEF OrderInv
    <3>2. \A u : InQueue(u, submissions') => InQueue(u, submissions)
      BY <2>2, QueueTypes, InTail
    <3>3. \A u \in Accepted : Waiting(u)' => Waiting(u) /\ w < u
      <4> SUFFICES ASSUME NEW u \in Accepted, Waiting(u)'
                   PROVE  Waiting(u) /\ w < u
        OBVIOUS
      <4>1. InQueue(u, submissions')
        BY <1>1, <2>2, QueueTypes DEF Waiting, InQueue, None
      <4>2. QED
        BY <3>1, <3>2, <4>1 DEF Waiting, InQueue, Above
    <3>4. QED
      BY <2>2, <3>1, <3>3 DEF Sorted
  <2>3. QED
    BY <2>1, <2>2 DEF TakeNext
<1>3. \A v \in Accepted : v # w => stage'[v] = stage[v]
  BY <1>1, SubmittedIsId DEF TakeNext, AbortIdle, TypeInv, StageInv
<1>4. NoOvertaking'
  <2> SUFFICES ASSUME NEW v \in Accepted, NEW u \in Accepted, IsTurn(v), IsTurn(u),
                      stage'[v] # "new", Waiting(u)'
               PROVE  v < u
    BY <1>1 DEF NoOvertaking, Accepted, IsTurn, Kind
  <2>1. QED
    BY <1>2, <1>3 DEF OrderInv, NoOvertaking
<1>5. QED
  BY <1>1, <1>2, <1>4 DEF OrderInv

\* The getter takes the oldest of the queue, which is above all of _pending.
LEMMA GetSubmissionOrder ==
  ASSUME TypeInv, OrderInv, GetSubmission
  PROVE  OrderInv'
<1>1. /\ submissions # <<>> /\ got = None
      /\ got' = Head(submissions) /\ submissions' = Tail(submissions)
      /\ UNCHANGED <<sub, pending, loop, stage>>
      /\ loop \notin {"top", "abortReap", "abortWait"}
  BY DEF GetSubmission, taskVars
<1>2. /\ Sorted(submissions') /\ Above(submissions', got')
      /\ Len(submissions') = Len(submissions) - 1
      /\ \A i \in 1 .. Len(submissions') : submissions'[i] = submissions[i + 1]
  BY <1>1, QueueTypes, SortedTail DEF OrderInv
<1>3. Len(submissions) \in Nat \ {0} /\ got' = submissions[1]
  BY <1>1, QueueTypes
<1>4. Below(pending, got')
  BY <1>3 DEF OrderInv, Above, Below
<1>5. \A i \in 1 .. Len(pending) : Above(submissions', pending[i])
  BY <1>2, <1>3 DEF OrderInv, Above
<1>6. \A u \in Accepted : Waiting(u)' => Waiting(u)
  <2> SUFFICES ASSUME NEW u \in Accepted, Waiting(u)' PROVE Waiting(u)
    OBVIOUS
  <2>1. InQueue(u, Tail(submissions)) \/ InQueue(u, pending) \/ u = submissions[1]
    BY <1>1, <1>3 DEF Waiting
  <2>2. InQueue(u, Tail(submissions)) => InQueue(u, submissions)
    BY <1>1, QueueTypes, InTail
  <2>3. u = submissions[1] => InQueue(u, submissions)
    BY <1>3 DEF InQueue
  <2>4. QED
    BY <2>1, <2>2, <2>3 DEF Waiting
<1>7. NoOvertaking'
  BY <1>1, <1>6, OvertakingFrame DEF OrderInv
<1>8. QED
  BY <1>1, <1>2, <1>4, <1>5, <1>7 DEF OrderInv

\* What get_task held is dropped.
LEMMA ForgetOrder ==
  ASSUME TypeInv, OrderInv, UNCHANGED <<sub, submissions, pending>>,
         got' \in {got, None},
         loop' \in {"top", "abortReap", "abortWait"} => got' = None,
         \A v \in Accepted : IsTurn(v) /\ stage'[v] # "new" => stage[v] # "new"
  PROVE  OrderInv'
<1>1. \A u \in Accepted : Waiting(u)' => Waiting(u)
  BY QueueTypes DEF Waiting, InQueue, None
<1>2. NoOvertaking'
  BY <1>1, OvertakingFrame DEF OrderInv
<1>3. QED
  BY <1>2 DEF OrderInv, Sorted, Below, Above

\* What get_task held is set aside: it is the youngest of _pending.
LEMMA SetAsideOrder ==
  ASSUME TypeInv, OrderInv, got # None, SetAside(got), got' = None,
         UNCHANGED <<sub, submissions>>
  PROVE  OrderInv'
<1>0. got \in Accepted
  BY GotIsSubmitted
<1>1. \A v \in Accepted : IsTurn(v) => stage'[v] = stage[v]
  BY <1>0, SetAsideStage
<1>2. CASE Kind(got) \in {"shell", "attached"}
  <2>1. UNCHANGED pending
    BY <1>2 DEF SetAside
  <2>2. QED
    BY <1>1, <2>1, ForgetOrder
<1>3. CASE Kind(got) \notin {"shell", "attached"}
  <2>1. pending' = Append(pending, got)
    BY <1>3 DEF SetAside
  <2>2. Sorted(pending')
    BY <1>0, <2>1, QueueTypes, SortedAppend DEF OrderInv
  <2>3. /\ Len(pending) \in Nat /\ Len(pending') = Len(pending) + 1
        /\ \A i \in 1 .. Len(pending) : pending'[i] = pending[i]
        /\ pending'[Len(pending) + 1] = got
    BY <1>0, <2>1, QueueTypes
  <2>4. \A i \in 1 .. Len(pending') : Above(submissions, pending'[i])
    BY <2>3 DEF OrderInv
  <2>5. \A u \in Accepted : Waiting(u)' => Waiting(u)
    <3> SUFFICES ASSUME NEW u \in Accepted, Waiting(u)' PROVE Waiting(u)
      OBVIOUS
    <3>1. u # None
      BY QueueTypes DEF None
    <3>2. InQueue(u, submissions) \/ InQueue(u, Append(pending, got))
      BY <2>1, <3>1 DEF Waiting
    <3>3. InQueue(u, Append(pending, got)) => InQueue(u, pending) \/ u = got
      BY <1>0, QueueTypes, InAppend
    <3>4. QED
      BY <3>2, <3>3 DEF Waiting
  <2>6. NoOvertaking'
    BY <1>1, <2>5, OvertakingFrame DEF OrderInv
  <2>7. QED
    BY <2>2, <2>4, <2>6 DEF OrderInv
<1>4. QED
  BY <1>2, <1>3

\* The dispatch loop.
LEMMA LoopStepOrder == TypeInv /\ OrderInv /\ LoopStep => OrderInv'
<1> SUFFICES ASSUME TypeInv, OrderInv, LoopStep PROVE OrderInv'
  OBVIOUS
<1>1. CASE TakeNext
  BY <1>1, TakeNextOrder
<1>2. CASE GetSubmission
  BY <1>2, GetSubmissionOrder
<1>3. CASE TurnEnded
  BY <1>3, OrderFrame DEF TurnEnded
<1>4. CASE Report
  BY <1>4, ForgetOrder DEF Report
<1>5. CASE Reaped
  BY <1>5, OrderFrame DEF Reaped, taskVars
<1>6. CASE Flush
  <2>1. got \in Accepted /\ got # None
    BY <1>6, GotIsSubmitted, QueueTypes DEF Flush, None
  <2>2. CASE Kind(got) = "abort"
    <3>1. stage' = [stage EXCEPT ![got] = "ok"] /\ UNCHANGED pending
      BY <1>6, <2>2 DEF Flush, AbortIdle
    <3>2. \A v \in Accepted : IsTurn(v) => stage'[v] = stage[v]
      BY <1>6, <2>1, <2>2, <3>1, AbortStage DEF Flush
    <3>3. QED
      BY <1>6, <3>1, <3>2, ForgetOrder DEF Flush
  <2>3. CASE Kind(got) # "abort"
    BY <1>6, <2>1, <2>3, SetAsideOrder DEF Flush
  <2>4. QED
    BY <2>2, <2>3
<1>7. CASE GotWork
  BY <1>7, SetAsideOrder DEF GotWork
<1>8. CASE GotAbort
  <2>1. got \in Accepted
    BY <1>8, GotIsSubmitted DEF GotAbort
  <2>2. \A v \in Accepted : IsTurn(v) => stage'[v] = stage[v]
    BY <1>8, <2>1, AbortStage DEF GotAbort
  <2>3. QED
    BY <1>8, <2>2, ForgetOrder DEF GotAbort
<1>9. CASE AbortReaped
  BY <1>9, OrderFrame DEF AbortReaped, taskVars, OrderInv
<1>10. CASE AbortDone
  BY <1>10, OrderFrame DEF AbortDone, taskVars, OrderInv
<1>11. ASSUME NEW w \in aux, AuxDone(w) PROVE OrderInv'
  BY <1>11, OrderFrame DEF AuxDone, taskVars
<1>12. CASE AuxReport
  BY <1>12, ForgetOrder DEF AuxReport, taskVars
<1>13. CASE LeaveLoop
  BY <1>13, OrderFrame DEF LeaveLoop, taskVars
<1>14. QED
  BY <1>1, <1>2, <1>3, <1>4, <1>5, <1>6, <1>7, <1>8, <1>9, <1>10, <1>11, <1>12,
     <1>13 DEF LoopStep

\* Every step keeps the order.
LEMMA OrderInvNext == TypeInv /\ OrderInv /\ [Next]_vars => OrderInv'
<1> SUFFICES ASSUME TypeInv, OrderInv, [Next]_vars PROVE OrderInv'
  OBVIOUS
<1>1. ASSUME NEW kind \in Kinds, NEW t \in Threads, Submit(kind, t)
      PROVE  OrderInv'
  BY <1>1, SubmitOrder
<1>2. CASE NextEvent \/ Printing
  <2>1. UNCHANGED <<sub, submissions, pending, got, loop, stage>>
    BY <1>2, PrintingEffect DEF NextEvent, loopVars, taskVars
  <2>2. QED
    BY <2>1, OrderFrame DEF OrderInv
<1>3. ASSUME NEW w \in Ids, TaskStep(w) PROVE OrderInv'
  <2>1. TaskEffect(w)
    BY <1>3, TaskStepEffect
  <2>2. \A v \in Accepted : stage'[v] # "new" => stage[v] # "new"
    BY <2>1, SubmittedIsId DEF TaskEffect, TypeInv, StageInv, Unfinished
  <2>3. QED
    BY <2>1, <2>2, OrderFrame DEF TaskEffect, loopVars, OrderInv
<1>4. CASE LoopStep
  BY <1>4, LoopStepOrder
<1>5. CASE StopStep
  <2>1. /\ UNCHANGED <<sub, submissions, pending, got, stage>>
        /\ loop' = loop \/ loop' = "stopped"
    BY <1>5 DEF StopStep, StopBegin, StopLoop, StopClose, CancelLoop, loopVars, taskVars
  <2>2. QED
    BY <2>1, OrderFrame DEF OrderInv
<1>6. CASE UNCHANGED vars
  BY <1>6, OrderFrame DEF vars, OrderInv
<1>7. QED
  BY <1>1, <1>2, <1>3, <1>4, <1>5, <1>6 DEF Next, Printing

\* Turns start in the order in which they were submitted: neither the queue of
\* set-aside submissions nor a submission fetched in the moment a turn ended or
\* was aborted lets a later turn go first.
THEOREM TurnsStartInOrder == Spec => []NoOvertaking
<1>1. Init => TypeInv /\ OrderInv
  BY InitTypeInv, InitOrderInv
<1>2. TypeInv /\ OrderInv /\ [Next]_vars => TypeInv' /\ OrderInv'
  BY TypeInvNext, OrderInvNext
<1>3. OrderInv => NoOvertaking
  BY DEF OrderInv
<1>4. QED
  BY <1>1, <1>2, <1>3, PTL DEF Spec

----------------------------------------------------------------------------
(* The session as a TurnQueue.  A submission waits exactly as long as it   *)
(* is new, unless it was forgotten with a getter that was cancelled while  *)
(* the loop reported that a task had crashed.                              *)

\* What waits has not been served, and what is being served does not wait.
WaitInv ==
  /\ \A w \in Accepted : Waiting(w) => stage[w] = "new"
  /\ active # None => stage[active] # "new"

\* The elements of a sequence are its head and those of its tail.
LEMMA TailMembers ==
  ASSUME NEW n \in Nat, NEW q \in Seq(1 .. n), q # <<>>, NEW w
  PROVE  InQueue(w, q) <=> w = Head(q) \/ InQueue(w, Tail(q))
<1>1. /\ Len(q) \in Nat \ {0} /\ Len(Tail(q)) = Len(q) - 1 /\ Head(q) = q[1]
      /\ \A i \in 1 .. Len(Tail(q)) : Tail(q)[i] = q[i + 1]
  OBVIOUS
<1>2. ASSUME NEW i \in 1 .. Len(q), q[i] = w, i # 1 PROVE InQueue(w, Tail(q))
  <2>1. i - 1 \in 1 .. Len(Tail(q)) /\ Tail(q)[i - 1] = w
    BY <1>1, <1>2
  <2>. QED BY <2>1 DEF InQueue
<1>3. 1 \in 1 .. Len(q) /\ \A i \in 1 .. Len(Tail(q)) : i + 1 \in 1 .. Len(q)
  BY <1>1
<1>. QED BY <1>1, <1>2, <1>3 DEF InQueue

\* Those of an extended sequence are its own and the new one.
LEMMA AppendMembers ==
  ASSUME NEW n \in Nat, NEW q \in Seq(1 .. n), NEW x \in 1 .. n, NEW w
  PROVE  InQueue(w, Append(q, x)) <=> InQueue(w, q) \/ w = x
<1>1. /\ Len(q) \in Nat /\ Len(Append(q, x)) = Len(q) + 1
      /\ \A i \in 1 .. Len(q) : Append(q, x)[i] = q[i]
      /\ Append(q, x)[Len(q) + 1] = x
  OBVIOUS
<1>. QED BY <1>1 DEF InQueue

\* A submission is served once it no longer waits: in the slot, which was free, and
\* before everything that waits; beside it; or, being an abort, on the spot.
Serves(w) ==
  /\ w \in Accepted /\ Waiting(w) /\ ~Waiting(w)'
  /\ \A u \in Accepted : u # w => (Waiting(u)' <=> Waiting(u))
  /\ \/ /\ Kind(w) # "abort" /\ stage' = [stage EXCEPT ![w] = "spawned"]
        /\ active = None /\ active' = w
        /\ \A u \in Accepted : Waiting(u) => w <= u
     \/ /\ Kind(w) \in {"shell", "attached"} /\ stage' = [stage EXCEPT ![w] = "spawned"]
        /\ active' = active
     \/ /\ Kind(w) = "abort" /\ stage' = [stage EXCEPT ![w] = "ok"]
        /\ active' = active

\* A step of the loop that serves nothing: it may be done with the turn in the slot.
ServesNothing ==
  /\ UNCHANGED stage
  /\ active' # active => active' = None /\ stage[active] \in Ended
  /\ \A u \in Accepted : Waiting(u)' => Waiting(u)
  /\ loop \notin {"report", "auxReport"} => \A u \in Accepted : Waiting(u) => Waiting(u)'

\* The head of what waits is served first.
LEMMA TakeNextServes ==
  ASSUME TypeInv, TurnInv, OrderInv, TakeNext
  PROVE  \E w \in Accepted : Serves(w)
<1> DEFINE w == IF pending # <<>> THEN Head(pending) ELSE Head(submissions)
<1>1. /\ w \in Accepted /\ got = None /\ got' = None /\ sub' = sub /\ active = None
      /\ \A u \in Accepted : u # None
  BY NextIsSubmitted, QueueTypes DEF TakeNext, OrderInv, TurnInv, None
<1>2. \A u \in Accepted : (Waiting(u) <=> Waiting(u)' \/ u = w) /\ (Waiting(u)' => w < u)
  <2>1. CASE pending # <<>> /\ pending' = Tail(pending) /\ UNCHANGED submissions
    <3>1. Above(pending', w)
      BY <2>1, QueueTypes, SortedTail DEF OrderInv
    <3>2. Len(pending) \in Nat \ {0} /\ w = pending[1]
      BY <2>1, QueueTypes
    <3>3. Above(submissions, w)
      BY <3>2 DEF OrderInv
    <3>4. \A u : InQueue(u, pending) <=> u = w \/ InQueue(u, pending')
      BY <2>1, QueueTypes, TailMembers
    <3>. QED BY <1>1, <2>1, <3>1, <3>3, <3>4 DEF Waiting, InQueue, Above
  <2>2. CASE /\ pending = <<>> /\ submissions # <<>>
             /\ submissions' = Tail(submissions) /\ UNCHANGED pending
    <3>1. Above(submissions', w)
      BY <2>2, QueueTypes, SortedTail DEF OrderInv
    <3>2. \A u : InQueue(u, submissions) <=> u = w \/ InQueue(u, submissions')
      BY <2>2, QueueTypes, TailMembers
    <3>3. \A u : ~InQueue(u, pending) /\ ~InQueue(u, pending')
      BY <2>2 DEF InQueue
    <3>. QED BY <1>1, <3>1, <3>2, <3>3 DEF Waiting, InQueue, Above
  <2>. QED BY <2>1, <2>2 DEF TakeNext
<1>3. PICK x \in Accepted : x = w
  BY <1>1
<1>4. \/ Kind(x) = "abort" /\ stage' = [stage EXCEPT ![x] = "ok"] /\ active' = active
      \/ Kind(x) # "abort" /\ stage' = [stage EXCEPT ![x] = "spawned"] /\ active' = x
  BY <1>3 DEF TakeNext, AbortIdle
<1>5. \A u \in Accepted : (Waiting(u) <=> Waiting(u)' \/ u = x) /\ (Waiting(u)' => x < u)
  BY <1>2, <1>3
<1>6. /\ Waiting(x) /\ ~Waiting(x)'
      /\ \A u \in Accepted : u # x => (Waiting(u)' <=> Waiting(u))
      /\ \A u \in Accepted : Waiting(u) => x <= u
  BY <1>5, QueueTypes
<1>. QED BY <1>1, <1>4, <1>6 DEF Serves

\* What the getter has fetched waits nowhere else.
LEMMA GotAlone ==
  ASSUME TypeInv, OrderInv, got # None
  PROVE  ~InQueue(got, submissions) /\ ~InQueue(got, pending)
BY QueueTypes DEF TypeInv, LoopInv, OrderInv, Above, Below, InQueue

\* What the getter has fetched is served or set aside.
LEMMA GotServes ==
  ASSUME TypeInv, OrderInv, got # None, got' = None, UNCHANGED <<sub, submissions, active>>,
         \/ SetAside(got) /\ Kind(got) # "abort"
         \/ Kind(got) = "abort" /\ stage' = [stage EXCEPT ![got] = "ok"] /\ UNCHANGED pending
  PROVE  \/ \E w \in Accepted : Serves(w)
         \/ UNCHANGED stage /\ \A u \in Accepted : Waiting(u)' <=> Waiting(u)
<1>1. got \in Accepted /\ (\A u \in Accepted : u # None) /\ Waiting(got)
  BY GotIsSubmitted, QueueTypes DEF None, Waiting
<1>2. CASE UNCHANGED pending
  <2>0. PICK x \in Accepted : x = got
    BY <1>1
  <2>1. ~Waiting(x)' /\ \A u \in Accepted : u # x => (Waiting(u)' <=> Waiting(u))
    BY <1>1, <1>2, <2>0, GotAlone DEF Waiting, InQueue
  <2>2. \/ /\ Kind(got) \in {"shell", "attached"} /\ stage' = [stage EXCEPT ![got] = "spawned"]
           /\ Kind(got) # "abort"
        \/ Kind(got) = "abort" /\ stage' = [stage EXCEPT ![got] = "ok"]
        \/ pending' = Append(pending, got)
    BY DEF SetAside
  <2>3. pending' # Append(pending, got)
    BY <1>1, <1>2, QueueTypes
  <2>. QED BY <1>1, <2>0, <2>1, <2>2, <2>3 DEF Serves
<1>3. CASE pending' = Append(pending, got) /\ UNCHANGED stage
  <2>1. \A u : InQueue(u, pending') <=> InQueue(u, pending) \/ u = got
    BY <1>1, <1>3, QueueTypes, AppendMembers
  <2>. QED BY <1>1, <1>3, <2>1 DEF Waiting, InQueue
<1>. QED BY <1>2, <1>3 DEF SetAside

\* What a step of the dispatch loop does to what waits and to what is served.
LEMMA LoopServes ==
  ASSUME TypeInv, TurnInv, OrderInv, LoopStep
  PROVE  sub' = sub /\ (ServesNothing \/ \E w \in Accepted : Serves(w))
<1>1. CASE TakeNext
  BY <1>1, TakeNextServes DEF TakeNext
<1>2. CASE GetSubmission
  <2>1. \A u : InQueue(u, submissions) <=> u = got' \/ InQueue(u, submissions')
    BY <1>2, QueueTypes, TailMembers DEF GetSubmission
  <2>2. \A u : InQueue(u, pending)' <=> InQueue(u, pending)
    BY <1>2 DEF GetSubmission, InQueue
  <2>3. got = None /\ \A u \in Accepted : u # None
    BY <1>2, QueueTypes DEF GetSubmission, None
  <2>4. \A u \in Accepted : Waiting(u)' <=> Waiting(u)
    BY <2>1, <2>2, <2>3 DEF Waiting
  <2>. QED BY <1>2, <2>4 DEF GetSubmission, taskVars, ServesNothing
<1>3. CASE TurnEnded
  BY <1>3 DEF TurnEnded, ServesNothing, Waiting, InQueue
<1>4. CASE Report \/ AuxReport
  <2>1. UNCHANGED <<sub, submissions, pending, stage, active>> /\ got' \in {got, None}
        /\ loop \in {"report", "auxReport"}
    BY <1>4 DEF Report, AuxReport, taskVars
  <2>2. \A u \in Accepted : u # None
    BY QueueTypes DEF None
  <2>. QED BY <2>1, <2>2 DEF ServesNothing, Waiting, InQueue
<1>5. CASE Reaped \/ AbortReaped \/ LeaveLoop \/ \E w \in aux : AuxDone(w)
  BY <1>5 DEF Reaped, AbortReaped, LeaveLoop, AuxDone, taskVars, ServesNothing, Waiting, InQueue
<1>6. CASE AbortDone
  BY <1>6 DEF AbortDone, taskVars, ServesNothing, Waiting, InQueue
<1>7. CASE Flush \/ GotWork \/ GotAbort
  <2>1. got \in Accepted /\ got # None
    BY <1>7, GotIsSubmitted, QueueTypes DEF Flush, GotWork, GotAbort, None
  <2>2. \/ SetAside(got) /\ Kind(got) # "abort"
        \/ Kind(got) = "abort" /\ stage' = [stage EXCEPT ![got] = "ok"] /\ UNCHANGED pending
    BY <1>7 DEF Flush, GotWork, GotAbort, AbortIdle
  <2>3. got' = None /\ UNCHANGED <<sub, submissions, active>>
    BY <1>7 DEF Flush, GotWork, GotAbort
  <2>. QED BY <2>1, <2>2, <2>3, GotServes DEF ServesNothing
<1>. QED BY <1>1, <1>2, <1>3, <1>4, <1>5, <1>6, <1>7 DEF LoopStep

\* What waits before and after a submission is made.
LEMMA SubmitWaits ==
  ASSUME TypeInv, NEW kind \in Kinds, NEW t \in Threads, Submit(kind, t)
  PROVE  /\ Len(sub) + 1 \in Ids /\ Accepted' = Accepted \cup {Len(sub) + 1}
         /\ Len(sub) + 1 \notin Accepted /\ (\A u \in Ids \ Accepted : u >= Len(sub) + 1)
         /\ \A u \in Accepted : sub'[u] = sub[u]
         /\ \A u : Waiting(u)' <=> Waiting(u) \/ u = Len(sub) + 1
         /\ UNCHANGED <<stage, active, loop>>
<1> DEFINE w == Len(sub) + 1
<1>1. /\ submissions' = Append(submissions, w) /\ UNCHANGED <<pending, got, loop, active, stage>>
      /\ w <= MaxSub
  BY DEF Submit, taskVars
<1>2. /\ Len(sub') = w /\ Len(sub) \in Nat /\ w \in Ids
      /\ \A v \in Accepted : sub'[v] = sub[v]
  BY DEF Submit, Accepted, TypeInv, LoopInv, Ids
<1>3. submissions \in Seq(1 .. w) /\ w \in 1 .. w
  <2>1. 1 .. Len(sub) \subseteq 1 .. w
    BY <1>2
  <2>. QED BY <1>2, <2>1, QueueTypes
<1>4. \A u : InQueue(u, submissions') <=> InQueue(u, submissions) \/ u = w
  BY <1>1, <1>2, <1>3, AppendMembers
<1>5. \A u : Waiting(u)' <=> Waiting(u) \/ u = w
  BY <1>1, <1>4 DEF Waiting, InQueue
<1>. QED BY <1>1, <1>2, <1>5 DEF Accepted, Ids

\* What waits does not change when neither queue nor the getter does.
LEMMA WaitsFrame ==
  ASSUME UNCHANGED <<submissions, pending, got>>
  PROVE  \A u : Waiting(u)' <=> Waiting(u)
BY DEF Waiting, InQueue

\* No submission waits or is served at first.
LEMMA InitWaitInv == Init => WaitInv
BY DEF Init, WaitInv, Accepted, None

\* Nothing that waits is served already, and nothing that was served waits again.
LEMMA WaitInvNext == TypeInv /\ TurnInv /\ OrderInv /\ WaitInv /\ [Next]_vars => WaitInv'
<1> SUFFICES ASSUME TypeInv, TurnInv, OrderInv, WaitInv, [Next]_vars PROVE WaitInv'
  OBVIOUS
<1>0. stage \in [Ids -> Stages] /\ Accepted \subseteq Ids /\ active \in Accepted \cup {None}
      /\ \A w \in Ids \ Accepted : stage[w] = "new"
  BY SubmittedIsId DEF TypeInv, StageInv, LoopInv
<1>1. ASSUME NEW kind \in Kinds, NEW t \in Threads, Submit(kind, t) PROVE WaitInv'
  BY <1>0, <1>1, SubmitWaits DEF WaitInv
<1>2. CASE NextEvent \/ Printing \/ UNCHANGED vars \/ StopStep
  <2>1. UNCHANGED <<sub, submissions, pending, got, active, stage>>
    BY <1>2, PrintingEffect DEF NextEvent, loopVars, taskVars, vars, StopStep, StopBegin, StopLoop, StopClose,
                CancelLoop
  <2>. QED BY <2>1, WaitsFrame DEF WaitInv, Accepted
<1>3. ASSUME NEW w \in Ids, TaskStep(w) PROVE WaitInv'
  <2>1. /\ UNCHANGED <<sub, submissions, pending, got, active>> /\ stage[w] # "new"
        /\ \E s \in Begun : stage' = [stage EXCEPT ![w] = s]
    BY <1>3, TaskStepEffect DEF TaskEffect, loopVars, Unfinished
  <2>. QED BY <1>0, <2>1, WaitsFrame DEF WaitInv, Accepted, Begun
<1>4. CASE LoopStep
  <2>1. sub' = sub /\ (ServesNothing \/ \E w \in Accepted : Serves(w))
    BY <1>4, LoopServes
  <2>2. CASE ServesNothing
    BY <2>1, <2>2 DEF ServesNothing, WaitInv, Accepted
  <2>3. ASSUME NEW w \in Accepted, Serves(w) PROVE WaitInv'
    <3>1. \A u \in Accepted : u # w => stage'[u] = stage[u]
      BY <1>0, <2>3 DEF Serves
    <3>2. \A u \in Accepted : Waiting(u)' => stage'[u] = "new"
      BY <2>3, <3>1 DEF Serves, WaitInv
    <3>3. active' # None => stage'[active'] # "new"
      BY <1>0, <2>3, <3>1 DEF Serves, WaitInv
    <3>. QED BY <2>1, <3>2, <3>3 DEF WaitInv, Accepted
  <2>. QED BY <2>1, <2>2, <2>3
<1>. QED BY <1>1, <1>2, <1>3, <1>4 DEF Next, Printing

\* With no failing write and no failure before a turn's try statement no task
\* crashes, the loop has nothing to report, and no submission is forgotten.
KeptInv ==
  /\ \A w \in Accepted : stage[w] = "new" => Waiting(w)
  /\ \A w \in Ids : stage[w] # "crashed"
  /\ loop \notin {"report", "auxReport"}

NeverCrashes == Faults \cap {"store", "prepare"} = {}

\* The loop reports crashed tasks only.
LEMMA LoopReports ==
  ASSUME TypeInv, LoopStep, loop' \in {"report", "auxReport"}
  PROVE  loop \in {"report", "auxReport"} \/ \E w \in Ids : stage[w] = "crashed"
<1>1. active # None => active \in Ids
  BY SubmittedIsId DEF TypeInv, LoopInv
<1>2. aux \subseteq Ids
  BY SubmittedIsId DEF TypeInv, LoopInv
<1>. QED
  BY <1>1, <1>2
  DEF LoopStep, TakeNext, GetSubmission, TurnEnded, Report, Reaped, Flush, GotWork, GotAbort,
      AbortReaped, AbortDone, AuxDone, AuxReport, LeaveLoop

\* Nothing was submitted, spawned or reported at first.
LEMMA InitKeptInv == Init => KeptInv
BY DEF Init, KeptInv, Accepted

\* Every step keeps what was submitted and is not served among what waits.
LEMMA KeptInvNext ==
  ASSUME NeverCrashes, TypeInv, TurnInv, OrderInv, KeptInv, [Next]_vars
  PROVE  KeptInv'
<1>0. stage \in [Ids -> Stages] /\ Accepted \subseteq Ids
  BY SubmittedIsId DEF TypeInv, StageInv
<1>1. ASSUME NEW kind \in Kinds, NEW t \in Threads, Submit(kind, t) PROVE KeptInv'
  BY <1>0, <1>1, SubmitWaits DEF KeptInv
<1>2. CASE NextEvent \/ Printing \/ UNCHANGED vars \/ StopStep
  <2>1. UNCHANGED <<sub, submissions, pending, got, stage>> /\ loop' \in {loop, "stopped"}
    BY <1>2, PrintingEffect DEF NextEvent, loopVars, taskVars, vars, StopStep, StopBegin, StopLoop, StopClose,
                CancelLoop
  <2>. QED BY <2>1, WaitsFrame DEF KeptInv, Accepted
<1>3. ASSUME NEW w \in Ids, TaskStep(w) PROVE KeptInv'
  <2>1. /\ UNCHANGED <<sub, submissions, pending, got, loop>> /\ stage[w] # "new"
        /\ \E s \in Begun : stage' = [stage EXCEPT ![w] = s]
    BY <1>3, TaskStepEffect DEF TaskEffect, loopVars, Unfinished
  <2>. QED BY <1>0, <2>1, WaitsFrame DEF KeptInv, Accepted, Begun, NeverCrashes
<1>4. CASE LoopStep
  <2>1. sub' = sub /\ (ServesNothing \/ \E w \in Accepted : Serves(w))
    BY <1>4, LoopServes
  <2>2. loop' \notin {"report", "auxReport"}
    BY <1>4, LoopReports DEF KeptInv
  <2>3. CASE ServesNothing
    BY <2>1, <2>2, <2>3 DEF ServesNothing, KeptInv, Accepted
  <2>4. ASSUME NEW w \in Accepted, Serves(w) PROVE KeptInv'
    <3>1. \A u \in Ids : u # w => stage'[u] = stage[u]
      BY <1>0, <2>4 DEF Serves
    <3>2. stage'[w] \in {"spawned", "ok"}
      BY <1>0, <2>4 DEF Serves
    <3>3. \A u \in Accepted : stage'[u] = "new" => Waiting(u)'
      BY <1>0, <2>4, <3>1, <3>2 DEF Serves, KeptInv
    <3>. QED BY <2>1, <2>2, <3>1, <3>2, <3>3 DEF KeptInv, Accepted
  <2>. QED BY <2>1, <2>3, <2>4
<1>. QED BY <1>1, <1>2, <1>3, <1>4 DEF Next, Printing

----------------------------------------------------------------------------
(* The refinement mapping.                                                 *)

\* A change of the phase of one submission is an assignment to the abstract variable.
LEMMA PhaseSet ==
  ASSUME NEW w \in Ids, NEW p, Phase(w)' = p, \A u \in Ids \ {w} : Phase(u)' = Phase(u)
  PROVE  TQ!Set(w, p)
BY DEF TQ!Set

\* So is no change at all.
LEMMA PhaseSame ==
  ASSUME \A u \in Ids : Phase(u)' = Phase(u)
  PROVE  UNCHANGED [w \in Ids |-> Phase(w)]
OBVIOUS

\* The phases a submission goes through.
LEMMA PhaseIs ==
  ASSUME NEW p, NEW w \in Ids
  PROVE  w \in TQ!Is(p) <=> Phase(w) = p
BY DEF TQ!Is

\* Every step of the session is a step of the queue or leaves it as it is.
LEMMA SessionStepsQueue ==
  ASSUME TypeInv, TurnInv, OrderInv, WaitInv, KeptInv, [Next]_vars
  PROVE  TQ!Next \/ UNCHANGED [w \in Ids |-> Phase(w)]
<1>0. stage \in [Ids -> Stages] /\ Accepted \subseteq Ids /\ active \in Accepted \cup {None}
      /\ None \notin Ids /\ (\A w \in Ids \ Accepted : stage[w] = "new") /\ Ids \subseteq Nat
  BY SubmittedIsId DEF TypeInv, StageInv, LoopInv, None, Ids
<1>1. ASSUME NEW kind \in Kinds, NEW t \in Threads, Submit(kind, t) PROVE TQ!Next
  <2> DEFINE w == Len(sub) + 1
  <2>1. PICK r \in Ids : r = w /\ r \notin Accepted /\ \A u \in Ids \ Accepted : u >= r
    BY <1>1, SubmitWaits
  <2>2. Accepted' = Accepted \cup {r} /\ UNCHANGED <<stage, active>>
    BY <1>1, <2>1, SubmitWaits
  <2>3. Phase(r) = "absent" /\ Phase(r)' = "waiting"
    BY <1>0, <2>1, <2>2 DEF Phase
  <2>4. \A u \in Ids \ {r} : Phase(u)' = Phase(u)
    BY <2>2 DEF Phase
  <2>5. TQ!Set(r, "waiting")
    BY <2>3, <2>4, PhaseSet
  <2>6. \A q \in Ids : Phase(q) = "absent" => r <= q
    BY <1>0, <2>1 DEF Phase
  <2>7. \A q \in TQ!Is("absent") : q \in Ids /\ Phase(q) = "absent"
    BY DEF TQ!Is
  <2>8. TQ!Accept(r)
    BY <2>3, <2>5, <2>6, <2>7, PhaseIs DEF TQ!Accept
  <2>. QED BY <2>8 DEF TQ!Next
<1>2. CASE NextEvent \/ Printing \/ UNCHANGED vars \/ StopStep
  <2>1. UNCHANGED <<sub, active, stage>>
    BY <1>2, PrintingEffect DEF NextEvent, loopVars, taskVars, vars, StopStep, StopBegin, StopLoop, StopClose,
                CancelLoop
  <2>. QED BY <2>1, PhaseSame DEF Phase, Accepted
<1>3. ASSUME NEW w \in Ids, TaskStep(w)
      PROVE  TQ!Next \/ UNCHANGED [v \in Ids |-> Phase(v)]
  <2>1. /\ UNCHANGED <<sub, active>> /\ Unfinished(w) /\ w \in Accepted
        /\ \E s \in Begun : stage' = [stage EXCEPT ![w] = s]
    BY <1>0, <1>3, TaskStepEffect DEF TaskEffect, loopVars, Unfinished
  <2>2. PICK s \in Begun : stage' = [stage EXCEPT ![w] = s]
    BY <2>1
  <2>3. Accepted' = Accepted /\ \A u \in Ids \ {w} : Phase(u)' = Phase(u)
    BY <1>0, <2>1, <2>2 DEF Phase, Accepted
  <2>4. Phase(w) \in {"turn", "side"}
    BY <2>1 DEF Phase, Unfinished
  <2>5. CASE s \in Ended
    <3>1. Phase(w)' = "done"
      BY <1>0, <2>1, <2>2, <2>3, <2>5 DEF Phase, Ended
    <3>2. TQ!Finish(w)
      BY <2>3, <2>4, <3>1, PhaseSet, PhaseIs DEF TQ!Finish
    <3>. QED BY <3>2 DEF TQ!Next
  <2>6. CASE s \notin Ended
    <3>1. Phase(w)' = Phase(w)
      BY <1>0, <2>1, <2>2, <2>3, <2>6 DEF Phase, Begun, Unfinished
    <3>. QED BY <2>3, <3>1, PhaseSame
  <2>. QED BY <2>5, <2>6
<1>4. ASSUME ServesNothing, sub' = sub PROVE UNCHANGED [w \in Ids |-> Phase(w)]
  <2>1. \A u \in Ids : Phase(u)' = Phase(u)
    BY <1>0, <1>4 DEF ServesNothing, Phase, Accepted
  <2>. QED BY <2>1, PhaseSame
<1>5. ASSUME NEW w \in Accepted, Serves(w), sub' = sub PROVE TQ!Next
  <2>0. w \in Ids /\ Accepted' = Accepted /\ stage[w] = "new" /\ w # active
    BY <1>0, <1>5 DEF Serves, WaitInv, Accepted
  <2>1. Phase(w) = "waiting"
    BY <2>0 DEF Phase
  <2>2. \A u \in Ids : u # w => stage'[u] = stage[u]
    BY <1>0, <1>5 DEF Serves
  <2>3. CASE /\ stage' = [stage EXCEPT ![w] = "spawned"] /\ active = None /\ active' = w
             /\ \A u \in Accepted : Waiting(u) => w <= u
    <3>1. Phase(w)' = "turn"
      BY <1>0, <2>0, <2>3 DEF Phase, Ended
    <3>2. \A u \in Ids \ {w} : Phase(u)' = Phase(u)
      BY <1>0, <2>0, <2>2, <2>3 DEF Phase
    <3>3. TQ!Set(w, "turn")
      BY <2>0, <3>1, <3>2, PhaseSet
    <3>4. TQ!Is("turn") = {}
      BY <1>0, <2>3 DEF TQ!Is, Phase
    <3>5. \A q \in TQ!Is("waiting") : w <= q
      BY <1>0, <2>3 DEF TQ!Is, Phase, KeptInv
    <3>6. TQ!StartTurn(w)
      BY <2>0, <2>1, <3>3, <3>4, <3>5, PhaseIs DEF TQ!StartTurn
    <3>. QED BY <2>0, <3>6 DEF TQ!Next
  <2>4. CASE stage' = [stage EXCEPT ![w] = "spawned"] /\ active' = active
    <3>1. Phase(w)' = "side"
      BY <1>0, <2>0, <2>4 DEF Phase, Ended
    <3>2. \A u \in Ids \ {w} : Phase(u)' = Phase(u)
      BY <1>0, <2>0, <2>2, <2>4 DEF Phase
    <3>3. TQ!StartSide(w)
      BY <2>0, <2>1, <3>1, <3>2, PhaseSet, PhaseIs DEF TQ!StartSide
    <3>. QED BY <2>0, <3>3 DEF TQ!Next
  <2>5. CASE stage' = [stage EXCEPT ![w] = "ok"] /\ active' = active
    <3>1. Phase(w)' = "done"
      BY <1>0, <2>0, <2>5 DEF Phase, Ended
    <3>2. \A u \in Ids \ {w} : Phase(u)' = Phase(u)
      BY <1>0, <2>0, <2>2, <2>5 DEF Phase
    <3>3. TQ!Answer(w)
      BY <2>0, <2>1, <3>1, <3>2, PhaseSet, PhaseIs DEF TQ!Answer
    <3>. QED BY <2>0, <3>3 DEF TQ!Next
  <2>. QED BY <1>5, <2>3, <2>4, <2>5 DEF Serves
<1>6. CASE LoopStep
  BY <1>4, <1>5, <1>6, LoopServes
<1>. QED BY <1>1, <1>2, <1>3, <1>6 DEF Next, Printing

\* A session starts as an empty queue.
LEMMA SessionStartsQueue == Init => TQ!Init
BY DEF Init, TQ!Init, Phase, Accepted, Ids

\* The dispatch loop, with its three places for what it has not served yet, its getters
\* and its tasks, is a queue with one exclusive slot that serves submissions in order
\* and forgets none, as long as no task crashes, however often turns are aborted or
\* fail and whenever the session is stopped.
THEOREM SessionIsTurnQueue == NeverCrashes /\ Spec => ImplementsTurnQueue
<1> SUFFICES ASSUME NeverCrashes PROVE Spec => ImplementsTurnQueue
  OBVIOUS
<1> DEFINE Inv == TypeInv /\ TurnInv /\ OrderInv /\ WaitInv /\ KeptInv
<1>1. Init => Inv
  BY InitTypeInv, InitTurnInv, InitOrderInv, InitWaitInv, InitKeptInv
<1>2. Inv /\ [Next]_vars => Inv'
  BY TypeInvNext, TurnInvNext, OrderInvNext, WaitInvNext, KeptInvNext
<1>3. Inv /\ [Next]_vars => [TQ!Next]_([w \in Ids |-> Phase(w)])
  BY SessionStepsQueue
<1>4. Init => TQ!Init
  BY SessionStartsQueue
<1> HIDE DEF Inv
<1>. QED BY <1>1, <1>2, <1>3, <1>4, PTL DEF Spec, ImplementsTurnQueue, TQ!Spec
=============================================================================
