------------------------ MODULE RuntimeSession_proof ------------------------
(***************************************************************************)
(* Proofs about RuntimeSession for every number of submissions, every set  *)
(* of threads, every capacity of the event queue and every set of faults.  *)
(***************************************************************************)
EXTENDS RuntimeSession, TLAPS, SequenceTheorems

USE BoundsAssumption

----------------------------------------------------------------------------
(* The tables of a task.                                                   *)

\* What a task may come to: only a failing write, or a failure before its try
\* statement, lets an exception leave the coroutine.
Begun == {s \in Stages \ {"new"} : s = "crashed" => Faults \cap {"store", "prepare"} # {}}

\* The control tables of a task lead from stages to stages, never back to the first.
LEMMA StageTables ==
  /\ \A s \in StoreStages \cup PutStages : OnSuccess[s] \in Stages \ {"new", "crashed"}
  /\ \A s \in Stages : OnFailure(s) \in Stages \ {"new"}
  /\ \A s \in Stages, kind \in AllKinds : OnCancel(s, kind) \in Stages \ {"new", "crashed"}
<1>1. \A s \in StoreStages \cup PutStages : OnSuccess[s] \in Stages \ {"new", "crashed"}
  BY DEF StoreStages, PutStages, HistoryWrite, LedgerWrite, EventPut, OnSuccess,
         Stages, Working, BodyStages, ErrorStages, AbortStages, ShellStages,
         ShellErrorStages, ShellAbortStages, Ended
<1>2. \A s \in Stages : OnFailure(s) \in Stages \ {"new"}
  BY DEF OnFailure, Stages, Working, BodyStages, ErrorStages, AbortStages,
         ShellStages, ShellErrorStages, ShellAbortStages, Ended
<1>3. \A s \in Stages, kind \in AllKinds : OnCancel(s, kind) \in Stages \ {"new", "crashed"}
  BY DEF OnCancel, Stages, Working, BodyStages, ErrorStages, AbortStages,
         ShellStages, ShellErrorStages, ShellAbortStages, Ended
<1>4. QED BY <1>1, <1>2, <1>3

\* What the tables write to the stores and emit is of the types of those.
LEMMA WriteTables ==
  /\ \A s \in DOMAIN HistoryWrite :
       HistoryWrite[s] \in {"running", "completed", "error", "aborted"}
  /\ \A s \in DOMAIN LedgerWrite :
       LedgerWrite[s] \in {"turn_started", "turn_completed", "turn_aborted",
                           "error"}
  /\ \A s \in PutStages : EventPut[s] \in EventTypes
BY DEF HistoryWrite, LedgerWrite, PutStages, EventPut, EventTypes, TerminalTypes

----------------------------------------------------------------------------
(* Type correctness.  An event carries the turn id of a submission, so the *)
(* types need that whatever waits, runs or is about to run was submitted.  *)
(* The invariant is cut along the groups of variables the actions change.  *)

LoopInv ==
  /\ sub \in Seq(Submissions) /\ Len(sub) <= MaxSub
  /\ submissions \in Seq(Accepted) /\ pending \in Seq(Accepted)
  /\ got \in Accepted \cup {None} /\ seen \in BOOLEAN
  /\ loop \in {"top", "wait", "report", "reap", "flush", "abortReap",
               "abortWait", "auxReport", "stopped"}
  /\ active \in Accepted \cup {None} /\ aux \subseteq Accepted
  /\ loop = "flush" => got # None
  /\ loop \in {"wait", "abortReap", "abortWait", "auxReport"} => active # None

StopInv ==
  /\ halt \in {"no", "reap", "await", "closed"} /\ doomed \subseteq Ids
  /\ cancelling \subseteq Ids

StageInv ==
  /\ stage \in [Ids -> Stages]
  /\ \A w \in Ids \ Accepted : stage[w] = "new"

RegisterInv ==
  /\ activeTurn \in [Threads -> Ids \cup {None}]
  /\ cancelEvt \in [Threads -> {"absent", "clear", "set"}]

StoreInv ==
  /\ history \in [Ids -> {"none", "running", "completed", "error", "aborted"}]
  /\ ledger \in [Ids -> Seq({"turn_started", "turn_completed", "turn_aborted",
                             "error"})]

EventInv ==
  /\ events \in Seq(EventRecords)
  /\ said \in [Ids -> Seq(TerminalTypes)]

TypeInv ==
  LoopInv /\ StopInv /\ StageInv /\ RegisterInv /\ StoreInv /\ EventInv

\* The parts of the invariant together give the type invariant.
LEMMA TypeInvImpliesTypeOK == TypeInv => TypeOK
<1> SUFFICES ASSUME TypeInv PROVE TypeOK
  OBVIOUS
<1>1. Accepted \subseteq Ids
  BY DEF TypeInv, LoopInv, Accepted, Ids
<1>2. submissions \in Seq(Ids) /\ pending \in Seq(Ids)
  BY <1>1 DEF TypeInv, LoopInv
<1>3. QED
  BY <1>1, <1>2
     DEF TypeInv, TypeOK, LoopInv, StopInv, StageInv, RegisterInv, StoreInv, EventInv

\* A group of variables that does not change keeps its part of the invariant.
LEMMA Frames ==
  /\ LoopInv /\ UNCHANGED <<sub, loopVars>> => LoopInv'
  /\ StopInv /\ UNCHANGED <<stopVars, cancelling>> => StopInv'
  /\ StageInv /\ UNCHANGED <<sub, stage>> => StageInv'
  /\ RegisterInv /\ UNCHANGED <<activeTurn, cancelEvt>> => RegisterInv'
  /\ StoreInv /\ UNCHANGED storeVars => StoreInv'
  /\ EventInv /\ UNCHANGED eventVars => EventInv'
<1>1. LoopInv /\ UNCHANGED <<sub, loopVars>> => LoopInv'
  BY DEF LoopInv, loopVars, Accepted
<1>2. StageInv /\ UNCHANGED <<sub, stage>> => StageInv'
  BY DEF StageInv, Accepted
<1>3. QED
  BY <1>1, <1>2
     DEF StopInv, RegisterInv, StoreInv, EventInv, stopVars, storeVars, eventVars

\* Nothing is queued, spawned or registered at first.
LEMMA InitTypeInv == Init => TypeInv
<1> SUFFICES ASSUME Init PROVE TypeInv
  OBVIOUS
<1>1. LoopInv
  <2>1. sub = <<>> /\ submissions = <<>> /\ pending = <<>> /\ got = None
        /\ seen = FALSE /\ loop = "top" /\ active = None /\ aux = {}
    BY DEF Init
  <2>2. sub \in Seq(Submissions) /\ Len(sub) <= MaxSub
    BY <2>1
  <2>3. submissions \in Seq(Accepted) /\ pending \in Seq(Accepted)
    BY <2>1
  <2>4. QED
    BY <2>1, <2>2, <2>3 DEF LoopInv
<1>2. StageInv /\ RegisterInv
  BY DEF Init, StageInv, RegisterInv, Stages, Ids, None
<1>3. StoreInv /\ EventInv /\ StopInv
  BY DEF Init, StoreInv, EventInv, StopInv
<1>4. QED
  BY <1>1, <1>2, <1>3 DEF TypeInv

\* Only a submission that was made has a task.
LEMMA BusyIsSubmitted ==
  ASSUME StageInv, NEW w \in Ids, stage[w] # "new"
  PROVE  w \in Accepted
BY DEF StageInv

\* The turn id of a submission is a submission.
LEMMA TurnIsId ==
  ASSUME LoopInv, NEW w \in Accepted
  PROVE  Kind(w) \in AllKinds /\ Thread(w) \in Threads /\ Turn(w) \in Ids
<1>1. sub[w] \in Submissions
  BY DEF LoopInv, Accepted
<1>2. QED
  BY <1>1 DEF Submissions, Kind, Thread, Turn

\* Giving a stage to something that was submitted keeps the stages typed.
LEMMA StageSet ==
  ASSUME StageInv, UNCHANGED sub, NEW w \in Accepted, NEW s \in Stages,
         stage' = [stage EXCEPT ![w] = s]
  PROVE  StageInv'
BY DEF StageInv, Accepted

\* Removing the registrations of a turn keeps them typed.
LEMMA ReleaseTypes ==
  ASSUME RegisterInv, NEW w \in Ids, Release(w)
  PROVE  RegisterInv'
BY DEF RegisterInv, Release, None

\* So does moving to another stage, which may remove them.
LEMMA MoveToTypes ==
  ASSUME RegisterInv, NEW w \in Ids, NEW s, MoveTo(w, s)
  PROVE  RegisterInv' /\ stage' = [stage EXCEPT ![w] = s]
<1>1. CASE s \in Ended
  BY <1>1, ReleaseTypes DEF MoveTo
<1>2. CASE s \notin Ended
  BY <1>2 DEF MoveTo, RegisterInv
<1>3. QED
  BY <1>1, <1>2

\* An event of a known type about a submission, or about none, may be emitted.
LEMMA EmitTypes ==
  ASSUME EventInv, NEW e \in EventRecords, Emit(e)
  PROVE  EventInv'
BY DEF EventInv, Emit, EventRecords, None

\* The writes of a stage keep the stores typed.
LEMMA WriteTypes ==
  ASSUME StoreInv, NEW w \in Ids, Write(w)
  PROVE  StoreInv'
<1>1. history' \in [Ids -> {"none", "running", "completed", "error", "aborted"}]
  BY WriteTables DEF StoreInv, Write
<1>2. ledger' \in [Ids -> Seq({"turn_started", "turn_completed", "turn_aborted",
                               "error"})]
  BY WriteTables DEF StoreInv, Write
<1>3. QED
  BY <1>1, <1>2 DEF StoreInv

----------------------------------------------------------------------------
(* What a step of a task may change: its own stage, and only once it was   *)
(* dispatched.                                                             *)

TaskEffect(w) ==
  /\ UNCHANGED <<sub, loopVars, stopVars>>
  /\ Unfinished(w)
  /\ \E s \in Begun : stage' = [stage EXCEPT ![w] = s]
  /\ cancelling' \subseteq cancelling
  /\ RegisterInv' /\ StoreInv' /\ EventInv'

\* The groups of stages are stages.
LEMMA StageSets ==
  /\ StoreStages \subseteq Stages /\ PutStages \subseteq Stages
  /\ {"new", "spawned", "prepare", "compact", "model", "exec"} \subseteq Stages
  /\ StoreStages \cap (Ended \cup {"new"}) = {}
  /\ PutStages \cap (Ended \cup {"new"}) = {}
  /\ {"spawned", "prepare", "compact", "model", "exec"}
       \cap (Ended \cup {"new"}) = {}
  /\ {"startHist", "announce", "doneHist", "errHist", "abHist", "shLedger",
      "shDone", "ok", "cancelled", "crashed"} \subseteq Stages
BY DEF StoreStages, PutStages, HistoryWrite, LedgerWrite, EventPut, Stages, Working,
       BodyStages, ErrorStages, AbortStages, ShellStages, ShellErrorStages,
       ShellAbortStages, Ended

\* What the steps of a task have in common: they keep the types of what tasks
\* change, and leave the loop, stop() and the submissions alone.
LEMMA TaskStepEffect ==
  ASSUME TypeInv, NEW w \in Ids, TaskStep(w)
  PROVE  TaskEffect(w)
<1> USE DEF TypeInv
<1>1. CASE Begin(w)
  <2>1. Unfinished(w)
    BY <1>1, StageSets DEF Begin, Unfinished
  <2>2. \E s \in Begun : stage' = [stage EXCEPT ![w] = s]
    BY <1>1, StageSets DEF Begin, Begun
  <2>3. RegisterInv'
    BY <1>1 DEF Begin, RegisterInv
  <2>4. QED
    BY <1>1, <2>1, <2>2, <2>3, Frames DEF Begin, TaskEffect
<1>2. CASE BeginFails(w)
  <2>1. Unfinished(w)
    BY <1>2, StageSets DEF BeginFails, Unfinished
  <2>2. RegisterInv'
    BY <1>2 DEF BeginFails, RegisterInv
  <2>3. QED
    BY <1>2, <2>1, <2>2, StageSets, Frames DEF BeginFails, TaskEffect, Begun
<1>3. CASE ReadSnapshot(w)
  <2>1. Unfinished(w)
    BY <1>3, StageSets DEF ReadSnapshot, Unfinished
  <2>2. RegisterInv' /\ stage' = [stage EXCEPT ![w] = "startHist"]
    BY <1>3, MoveToTypes DEF ReadSnapshot
  <2>3. QED
    BY <1>3, <2>1, <2>2, StageSets, Frames DEF ReadSnapshot, TaskEffect, Begun
<1>4. CASE StoreStep(w)
  <2>1. Unfinished(w)
    BY <1>4, StageSets DEF StoreStep, Unfinished
  <2>2. RegisterInv' /\ stage' = [stage EXCEPT ![w] = OnSuccess[stage[w]]]
    BY <1>4, MoveToTypes DEF StoreStep
  <2>3. OnSuccess[stage[w]] \in Begun
    BY <1>4, StageTables DEF StoreStep, Begun
  <2>4. StoreInv'
    BY <1>4, WriteTypes DEF StoreStep
  <2>5. QED
    BY <1>4, <2>1, <2>2, <2>3, <2>4, Frames DEF StoreStep, TaskEffect
<1>5. CASE StoreFails(w)
  <2>1. Unfinished(w)
    BY <1>5, StageSets DEF StoreFails, Unfinished
  <2>2. RegisterInv' /\ stage' = [stage EXCEPT ![w] = OnFailure(stage[w])]
    BY <1>5, MoveToTypes DEF StoreFails
  <2>3. OnFailure(stage[w]) \in Begun
    BY <1>5, StageTables, StageSets DEF StoreFails, Begun
  <2>4. StoreInv'
    BY <1>5, WriteTypes, Frames DEF StoreFails
  <2>5. QED
    BY <1>5, <2>1, <2>2, <2>3, <2>4, Frames DEF StoreFails, TaskEffect
<1>6. CASE Compact(w)
  <2>1. Unfinished(w) /\ w \in Accepted
    BY <1>6, StageSets, BusyIsSubmitted DEF Compact, Unfinished
  <2>2. RegisterInv' /\ stage' = [stage EXCEPT ![w] = "announce"]
    BY <1>6, MoveToTypes DEF Compact
  <2>3. Event("warning", Turn(w)) \in EventRecords
    BY <2>1, TurnIsId DEF Event, EventRecords, EventTypes
  <2>4. EventInv'
    BY <1>6, <2>3, EmitTypes, Frames DEF Compact
  <2>5. QED
    BY <1>6, <2>1, <2>2, <2>4, StageSets, Frames DEF Compact, TaskEffect, Begun
<1>7. CASE RunModel(w)
  <2>1. Unfinished(w)
    BY <1>7, StageSets DEF RunModel, Unfinished
  <2>2. PICK s \in Begun : MoveTo(w, s)
    BY <1>7, StageSets DEF RunModel, Begun
  <2>3. RegisterInv' /\ stage' = [stage EXCEPT ![w] = s]
    BY <2>2, MoveToTypes
  <2>4. QED
    BY <1>7, <2>1, <2>3, Frames DEF RunModel, TaskEffect
<1>8. CASE Execute(w)
  <2>1. Unfinished(w)
    BY <1>8, StageSets DEF Execute, Unfinished
  <2>2. PICK s \in Begun : MoveTo(w, s)
    BY <1>8, StageSets DEF Execute, Begun
  <2>3. RegisterInv' /\ stage' = [stage EXCEPT ![w] = s]
    BY <2>2, MoveToTypes
  <2>4. QED
    BY <1>8, <2>1, <2>3, Frames DEF Execute, TaskEffect
<1>9. CASE PutStep(w)
  <2>1. Unfinished(w) /\ w \in Accepted
    BY <1>9, StageSets, BusyIsSubmitted DEF PutStep, Unfinished
  <2>2. RegisterInv' /\ stage' = [stage EXCEPT ![w] = OnSuccess[stage[w]]]
    BY <1>9, MoveToTypes DEF PutStep
  <2>3. OnSuccess[stage[w]] \in Begun
    BY <1>9, StageTables DEF PutStep, Begun
  <2>4. Event(EventPut[stage[w]], Turn(w)) \in EventRecords
    BY <1>9, <2>1, TurnIsId, WriteTables DEF PutStep, Event, EventRecords
  <2>5. EventInv'
    BY <1>9, <2>4, EmitTypes DEF PutStep
  <2>6. QED
    BY <1>9, <2>1, <2>2, <2>3, <2>5, Frames DEF PutStep, TaskEffect
<1>10. CASE DeliverCancel(w)
  <2>1. stage[w] \in {"spawned", "prepare", "compact", "model", "exec"}
                      \cup StoreStages \cup PutStages
    BY <1>10 DEF DeliverCancel
  <2>2. Unfinished(w) /\ w \in Accepted
    BY <2>1, StageSets, BusyIsSubmitted DEF Unfinished
  <2>3. OnCancel(stage[w], Kind(w)) \in Begun
    BY <2>1, <2>2, StageTables, StageSets, TurnIsId DEF Begun
  <2>4. RegisterInv' /\ \E s \in Begun : stage' = [stage EXCEPT ![w] = s]
    BY <1>10, <2>3, MoveToTypes, StageSets, Frames DEF DeliverCancel, Begun
  <2>5. StoreInv'
    BY <1>10, WriteTypes, Frames DEF DeliverCancel, storeVars
  <2>6. QED
    BY <1>10, <2>2, <2>4, <2>5, Frames DEF DeliverCancel, TaskEffect
<1>11. QED
  BY <1>1, <1>2, <1>3, <1>4, <1>5, <1>6, <1>7, <1>8, <1>9, <1>10 DEF TaskStep

----------------------------------------------------------------------------
(* The steps of clients, of the dispatch loop and of stop().               *)

\* Submissions are numbered up to the bound.
LEMMA SubmittedIsId == LoopInv => Accepted \subseteq Ids
BY DEF LoopInv, Accepted, Ids

\* The events the loop emits itself are about no turn.
LEMMA SessionEvents ==
  \A type \in EventTypes : Event(type, None) \in EventRecords
BY DEF Event, EventRecords

\* AbortTurn with no turn running.
LEMMA AbortIdleTypes ==
  ASSUME LoopInv, StageInv, RegisterInv, EventInv, UNCHANGED sub,
         NEW w \in Accepted, AbortIdle(w)
  PROVE  StageInv' /\ RegisterInv' /\ EventInv'
<1>1. StageInv'
  BY StageSet, StageSets DEF AbortIdle
<1>2. RegisterInv'
  BY DEF AbortIdle, RegisterInv
<1>3. Event("warning", None) \in EventRecords
  BY SessionEvents DEF EventTypes
<1>4. EventInv'
  BY <1>3, EmitTypes DEF AbortIdle
<1>5. QED
  BY <1>1, <1>2, <1>4

\* A submission that is set aside, or spawned beside the turn.
LEMMA SetAsideTypes ==
  ASSUME LoopInv, StageInv, UNCHANGED sub, NEW w \in Accepted, SetAside(w)
  PROVE  StageInv' /\ pending' \in Seq(Accepted) /\ aux' \subseteq Accepted
<1>1. CASE Kind(w) \in {"shell", "attached"}
  <2>1. StageInv'
    BY <1>1, StageSet, StageSets DEF SetAside
  <2>2. QED
    BY <1>1, <2>1 DEF SetAside, LoopInv
<1>2. CASE Kind(w) \notin {"shell", "attached"}
  <2>1. StageInv'
    BY <1>2, Frames DEF SetAside
  <2>2. pending' = Append(pending, w) /\ aux' = aux
    BY <1>2 DEF SetAside
  <2>3. pending \in Seq(Accepted) /\ aux \subseteq Accepted
    BY DEF LoopInv
  <2>4. QED
    BY <2>1, <2>2, <2>3
<1>3. QED
  BY <1>1, <1>2

\* submit(): what was accepted stays so, and one more is.
LEMMA SubmitTypes ==
  ASSUME TypeInv, NEW kind \in Kinds, NEW t \in Threads, Submit(kind, t)
  PROVE  TypeInv'
<1> USE DEF TypeInv
<1> DEFINE w == Len(sub) + 1
           r == [kind |-> kind, thread |-> t,
                 turn |-> IF kind = "attached" THEN activeTurn[t] ELSE w]
<1>1. w \in Ids
  BY DEF Submit, LoopInv, Ids
<1>2. r \in Submissions
  BY <1>1, KindsAssumption DEF Submit, CanAsk, Submissions, RegisterInv
<1>3. sub' = Append(sub, r) /\ submissions' = Append(submissions, w)
  BY DEF Submit
<1>4. sub' \in Seq(Submissions) /\ Len(sub') = w /\ Len(sub') <= MaxSub
  BY <1>1, <1>2, <1>3 DEF LoopInv, Ids
<1>5. Accepted \subseteq Accepted' /\ w \in Accepted'
  BY <1>1, <1>4 DEF LoopInv, Accepted
<1>6. submissions' \in Seq(Accepted') /\ pending' \in Seq(Accepted')
  BY <1>3, <1>5 DEF Submit, LoopInv
<1>7. LoopInv'
  BY <1>4, <1>5, <1>6 DEF Submit, LoopInv
<1>8. StageInv'
  BY <1>5 DEF Submit, StageInv, taskVars
<1>9. QED
  BY <1>7, <1>8, Frames DEF Submit, taskVars, stopVars

\* Reading an event and mirroring it into the ledger.
LEMMA NextEventTypes == TypeInv /\ NextEvent => TypeInv'
<1> SUFFICES ASSUME TypeInv, NextEvent PROVE TypeInv'
  OBVIOUS
<1> USE DEF TypeInv
<1>1. Head(events) \in EventRecords /\ events' \in Seq(EventRecords)
  BY DEF NextEvent, EventInv
<1>2. EventInv'
  BY <1>1 DEF NextEvent, EventInv
<1>3. Head(events).turn \in Ids \cup {None}
  BY <1>1 DEF EventRecords
<1>4. StoreInv'
  <2>1. CASE UNCHANGED ledger
    BY <2>1 DEF NextEvent, StoreInv
  <2>2. CASE /\ Head(events).turn \in Ids
             /\ ledger' = [ledger EXCEPT ![Head(events).turn] = Append(@, "error")]
    BY <2>2 DEF NextEvent, StoreInv
  <2>3. QED
    BY <1>3, <2>1, <2>2 DEF NextEvent, MirrorEvent
<1>5. QED
  BY <1>2, <1>4, Frames DEF NextEvent, taskVars, stopVars

\* The dispatch loop.
LEMMA LoopStepTypes == TypeInv /\ LoopStep => TypeInv'
<1> SUFFICES ASSUME TypeInv, LoopStep PROVE TypeInv'
  OBVIOUS
<1> USE DEF TypeInv
<1>0. Accepted \subseteq Ids
  BY SubmittedIsId
<1>1. CASE TakeNext
  <2> DEFINE w == IF pending # <<>> THEN Head(pending) ELSE Head(submissions)
  <2>1. /\ w \in Accepted
        /\ pending' \in Seq(Accepted) /\ submissions' \in Seq(Accepted)
    <3>1. CASE pending # <<>> /\ pending' = Tail(pending) /\ UNCHANGED submissions
      BY <3>1 DEF LoopInv
    <3>2. CASE /\ pending = <<>> /\ submissions # <<>>
               /\ submissions' = Tail(submissions) /\ UNCHANGED pending
      BY <3>2 DEF LoopInv
    <3>3. QED
      BY <1>1, <3>1, <3>2 DEF TakeNext
  <2>2. CASE Kind(w) = "abort"
    <3>1. AbortIdle(w) /\ UNCHANGED <<active, loop>>
      BY <1>1, <2>2 DEF TakeNext
    <3>2. LoopInv'
      BY <1>1, <2>1, <3>1 DEF TakeNext, LoopInv, Accepted
    <3>3. StageInv' /\ RegisterInv' /\ EventInv'
      BY <1>1, <2>1, <3>1, AbortIdleTypes DEF TakeNext
    <3>4. QED
      BY <1>1, <3>2, <3>3, Frames DEF TakeNext
  <2>3. CASE Kind(w) # "abort"
    <3>1. /\ active' = w /\ stage' = [stage EXCEPT ![w] = "spawned"]
          /\ loop' = "wait" /\ UNCHANGED <<activeTurn, cancelEvt, eventVars>>
      BY <1>1, <2>3 DEF TakeNext
    <3>2. LoopInv'
      <4>1. Accepted' = Accepted
        BY <1>1 DEF TakeNext, Accepted
      <4>2. w # None
        BY <2>1 DEF Accepted, None
      <4>3. UNCHANGED <<sub, got, seen, aux>>
        BY <1>1 DEF TakeNext
      <4>4. QED
        BY <2>1, <3>1, <4>1, <4>2, <4>3 DEF LoopInv
    <3>3. StageInv'
      BY <1>1, <2>1, <3>1, StageSet, StageSets DEF TakeNext
    <3>4. QED
      BY <1>1, <3>1, <3>2, <3>3, Frames DEF TakeNext
  <2>4. QED
    BY <2>2, <2>3
<1>2. CASE GetSubmission
  <2>1. LoopInv'
    BY <1>2 DEF GetSubmission, LoopInv, Accepted
  <2>2. QED
    BY <1>2, <2>1, Frames DEF GetSubmission, taskVars, stopVars
<1>3. CASE TurnEnded
  <2>1. LoopInv'
    BY <1>3 DEF TurnEnded, LoopInv, Accepted
  <2>2. StopInv'
    BY <1>3, <1>0 DEF TurnEnded, StopInv, stopVars, Unended, LoopInv
  <2>3. QED
    BY <1>3, <2>1, <2>2, Frames DEF TurnEnded
<1>4. CASE Report
  <2>1. LoopInv'
    BY <1>4 DEF Report, LoopInv, Accepted
  <2>2. StopInv'
    BY <1>4, <1>0 DEF Report, StopInv, stopVars, Unended, LoopInv
  <2>3. EventInv'
    BY <1>4, SessionEvents, EmitTypes DEF Report, EventTypes
  <2>4. QED
    BY <1>4, <2>1, <2>2, <2>3, Frames DEF Report
<1>5. CASE Reaped
  <2>1. LoopInv'
    BY <1>5 DEF Reaped, LoopInv, Accepted
  <2>2. QED
    BY <1>5, <2>1, Frames DEF Reaped, taskVars, stopVars
<1>6. CASE Flush
  <2>1. got \in Accepted
    BY <1>6 DEF Flush, LoopInv
  <2>2. CASE Kind(got) = "abort"
    <3>1. AbortIdle(got) /\ UNCHANGED <<pending, aux>>
      BY <1>6, <2>2 DEF Flush
    <3>2. LoopInv'
      BY <1>6, <3>1 DEF Flush, LoopInv, Accepted
    <3>3. QED
      BY <1>6, <2>1, <3>1, <3>2, AbortIdleTypes, Frames DEF Flush
  <2>3. CASE Kind(got) # "abort"
    <3>1. SetAside(got) /\ UNCHANGED <<activeTurn, cancelEvt, eventVars>>
      BY <1>6, <2>3 DEF Flush
    <3>2. StageInv' /\ pending' \in Seq(Accepted) /\ aux' \subseteq Accepted
      BY <1>6, <2>1, <3>1, SetAsideTypes DEF Flush
    <3>3. LoopInv'
      BY <1>6, <3>2 DEF Flush, LoopInv, Accepted
    <3>4. QED
      BY <1>6, <3>1, <3>2, <3>3, Frames DEF Flush
  <2>4. QED
    BY <2>2, <2>3
<1>7. CASE GotWork
  <2>1. got \in Accepted
    BY <1>7 DEF GotWork, LoopInv
  <2>2. StageInv' /\ pending' \in Seq(Accepted) /\ aux' \subseteq Accepted
    BY <1>7, <2>1, SetAsideTypes DEF GotWork
  <2>3. LoopInv'
    BY <1>7, <2>2 DEF GotWork, LoopInv, Accepted
  <2>4. QED
    BY <1>7, <2>2, <2>3, Frames DEF GotWork
<1>8. CASE GotAbort
  <2>1. got \in Accepted
    BY <1>8 DEF GotAbort, LoopInv
  <2>2. StageInv'
    BY <1>8, <2>1, StageSet, StageSets DEF GotAbort
  <2>3. LoopInv'
    BY <1>8 DEF GotAbort, LoopInv, Accepted
  <2>4. StopInv'
    BY <1>8, <1>0 DEF GotAbort, StopInv, stopVars, Unended, LoopInv
  <2>5. QED
    BY <1>8, <2>2, <2>3, <2>4, Frames DEF GotAbort
<1>9. CASE AbortReaped
  <2>1. LoopInv'
    BY <1>9 DEF AbortReaped, LoopInv, Accepted
  <2>2. QED
    BY <1>9, <2>1, Frames DEF AbortReaped, taskVars, stopVars
<1>10. CASE AbortDone
  <2>1. LoopInv'
    BY <1>10 DEF AbortDone, LoopInv, Accepted
  <2>2. EventInv'
    BY <1>10, SessionEvents, EmitTypes, Frames DEF AbortDone, EventTypes, TerminalTypes
  <2>3. QED
    BY <1>10, <2>1, <2>2, Frames DEF AbortDone, taskVars, stopVars
<1>11. ASSUME NEW w \in aux, AuxDone(w) PROVE TypeInv'
  <2>1. LoopInv'
    BY <1>11 DEF AuxDone, LoopInv, Accepted
  <2>2. QED
    BY <1>11, <2>1, Frames DEF AuxDone, taskVars, stopVars
<1>12. CASE AuxReport
  <2>1. LoopInv'
    BY <1>12 DEF AuxReport, LoopInv, Accepted
  <2>2. EventInv'
    BY <1>12, SessionEvents, EmitTypes DEF AuxReport, EventTypes
  <2>3. QED
    BY <1>12, <2>1, <2>2, Frames DEF AuxReport, taskVars, stopVars
<1>13. CASE LeaveLoop
  <2>1. LoopInv'
    BY <1>13 DEF LeaveLoop, LoopInv, Accepted
  <2>2. QED
    BY <1>13, <2>1, Frames DEF LeaveLoop, taskVars, stopVars
<1>14. QED
  BY <1>1, <1>2, <1>3, <1>4, <1>5, <1>6, <1>7, <1>8, <1>9, <1>10, <1>11, <1>12,
     <1>13 DEF LoopStep

\* stop().
LEMMA StopStepTypes == TypeInv /\ StopStep => TypeInv'
<1> SUFFICES ASSUME TypeInv, StopStep PROVE TypeInv'
  OBVIOUS
<1> USE DEF TypeInv
<1>0. Accepted \subseteq Ids
  BY SubmittedIsId
<1>1. CASE StopBegin
  <2>1. LoopInv'
    BY <1>1 DEF StopBegin, CancelLoop, LoopInv, Accepted
  <2>2. StopInv'
    BY <1>1, <1>0 DEF StopBegin, CancelLoop, StopInv, Unended, LoopInv
  <2>3. QED
    BY <1>1, <2>1, <2>2, Frames DEF StopBegin
<1>2. CASE StopLoop
  <2>1. LoopInv'
    BY <1>2 DEF StopLoop, CancelLoop, LoopInv, Accepted
  <2>2. StopInv'
    BY <1>2, <1>0 DEF StopLoop, CancelLoop, StopInv, Unended, LoopInv
  <2>3. QED
    BY <1>2, <2>1, <2>2, Frames DEF StopLoop
<1>3. CASE StopClose
  <2>1. StopInv'
    BY <1>3 DEF StopClose, StopInv, taskVars
  <2>2. QED
    BY <1>3, <2>1, Frames DEF StopClose, taskVars
<1>4. QED
  BY <1>1, <1>2, <1>3 DEF StopStep

\* What a shell command prints changes the event queue alone.
Printing == \E w \in Ids : ExecOutput(w)
LEMMA PrintingEffect ==
  ASSUME TypeInv, Printing
  PROVE  EventInv' /\ UNCHANGED <<sub, loopVars, stopVars, taskVars, storeVars, said>>
<1>1. PICK w \in Ids : ExecOutput(w)
  BY DEF Printing
<1>2. Turn(w) \in Ids
  BY <1>1, StageSets, BusyIsSubmitted, TurnIsId DEF ExecOutput, TypeInv
<1>3. Event("output", Turn(w)) \in EventRecords
  BY <1>2 DEF Event, EventRecords, EventTypes
<1>. QED
  BY <1>1, <1>3, EmitTypes DEF ExecOutput, Emit, Event, TerminalTypes, TypeInv

\* Every step keeps the types.
LEMMA TypeInvNext == TypeInv /\ [Next]_vars => TypeInv'
<1> SUFFICES ASSUME TypeInv, [Next]_vars PROVE TypeInv'
  OBVIOUS
<1>1. ASSUME NEW kind \in Kinds, NEW t \in Threads, Submit(kind, t)
      PROVE  TypeInv'
  BY <1>1, SubmitTypes
<1>2. CASE NextEvent
  BY <1>2, NextEventTypes
<1>3. ASSUME NEW w \in Ids, TaskStep(w) PROVE TypeInv'
  <2>1. TaskEffect(w)
    BY <1>3, TaskStepEffect
  <2>2. w \in Accepted
    BY <2>1, BusyIsSubmitted DEF TypeInv, TaskEffect, Unfinished
  <2>3. StageInv'
    BY <2>1, <2>2, StageSet DEF TypeInv, TaskEffect, Begun
  <2>4. StopInv'
    BY <2>1 DEF TypeInv, TaskEffect, StopInv, stopVars
  <2>5. QED
    BY <2>1, <2>3, <2>4, Frames DEF TypeInv, TaskEffect
<1>4. CASE LoopStep
  BY <1>4, LoopStepTypes
<1>5. CASE StopStep
  BY <1>5, StopStepTypes
<1>6. CASE UNCHANGED vars
  BY <1>6, Frames DEF TypeInv, vars, loopVars, stopVars, storeVars, eventVars
<1>7. CASE Printing
  BY <1>7, PrintingEffect, Frames DEF TypeInv, taskVars
<1>8. QED
  BY <1>1, <1>2, <1>3, <1>4, <1>5, <1>6, <1>7 DEF Next, Printing

\* Every variable of the session keeps its type: no interleaving of clients,
\* tasks, dispatch loop and stop() spawns, queues or reports anything that was
\* not submitted.
THEOREM TypeCorrect == Spec => []TypeOK
<1>1. Init => TypeInv
  BY InitTypeInv
<1>2. TypeInv /\ [Next]_vars => TypeInv'
  BY TypeInvNext
<1>3. TypeInv => TypeOK
  BY TypeInvImpliesTypeOK
<1>4. QED
  BY <1>1, <1>2, <1>3, PTL DEF Spec

----------------------------------------------------------------------------
(* Mutual exclusion of turns.  OneTurnRuns is not inductive: it does not   *)
(* say which turn runs.  The loop keeps it in active from when it makes    *)
(* the task, and is back at the top, where it makes the next, without one. *)

TurnInv ==
  /\ loop \in {"top", "report", "reap", "flush"} => active = None
  /\ \A w \in Accepted : IsTurn(w) /\ Unfinished(w) => w = active

\* If every unfinished turn is the active one there is at most one.
LEMMA TurnInvImpliesOneTurnRuns == TurnInv => OneTurnRuns
BY DEF TurnInv, OneTurnRuns

\* No turn runs at first.
LEMMA InitTurnInv == Init => TurnInv
BY DEF Init, TurnInv, Accepted

\* A step that starts no turn and leaves the running one in active.
LEMMA TurnFrame ==
  ASSUME TurnInv, UNCHANGED <<sub, active>>,
         loop' \in {"top", "report", "reap", "flush"} => active = None,
         \A w \in Accepted : IsTurn(w) /\ Unfinished(w)' => Unfinished(w)
  PROVE  TurnInv'
BY DEF TurnInv, Accepted, IsTurn, Kind

\* A submission that is made starts nothing.
LEMMA SubmitTurn ==
  ASSUME TypeInv, TurnInv, NEW kind \in Kinds, NEW t \in Threads, Submit(kind, t)
  PROVE  TurnInv'
<1>1. stage' = stage /\ active' = active /\ loop' = loop
  BY DEF Submit, taskVars
<1>2. Len(sub') = Len(sub) + 1 /\ Len(sub) \in Nat
      /\ \A w \in Accepted : sub'[w] = sub[w]
  BY DEF Submit, Accepted, TypeInv, LoopInv
<1>3. stage[Len(sub) + 1] = "new"
  BY <1>2 DEF Submit, TypeInv, StageInv, Accepted, Ids
<1>4. ASSUME NEW w \in Accepted', IsTurn(w)', Unfinished(w)' PROVE w = active
  <2>1. w # Len(sub) + 1
    BY <1>1, <1>3, <1>4 DEF Unfinished
  <2>2. w \in Accepted
    BY <1>2, <1>4, <2>1 DEF Accepted
  <2>3. IsTurn(w) /\ Unfinished(w)
    BY <1>1, <1>2, <1>4, <2>2 DEF IsTurn, Kind, Unfinished
  <2>4. QED
    BY <2>2, <2>3 DEF TurnInv
<1>5. QED
  BY <1>1, <1>4 DEF TurnInv

\* A stage set by the loop starts no turn unless the submission is a turn.
LEMMA SideStage ==
  ASSUME TypeInv, NEW w \in Accepted, ~IsTurn(w), UNCHANGED sub,
         NEW s \in Stages, stage' = [stage EXCEPT ![w] = s]
  PROVE  \A v \in Accepted : IsTurn(v) => stage'[v] = stage[v]
BY SubmittedIsId DEF TypeInv, StageInv

\* Setting a submission aside starts no turn.
LEMMA SetAsideStage ==
  ASSUME TypeInv, NEW w \in Accepted, UNCHANGED sub, SetAside(w)
  PROVE  \A v \in Accepted : IsTurn(v) => stage'[v] = stage[v]
<1>1. CASE Kind(w) \in {"shell", "attached"}
  BY <1>1, SideStage, StageSets DEF SetAside, IsTurn
<1>2. CASE Kind(w) \notin {"shell", "attached"}
  BY <1>2 DEF SetAside
<1>3. QED
  BY <1>1, <1>2

\* Nor does answering an abort.
LEMMA AbortStage ==
  ASSUME TypeInv, NEW w \in Accepted, Kind(w) = "abort", UNCHANGED sub,
         stage' = [stage EXCEPT ![w] = "ok"]
  PROVE  \A v \in Accepted : IsTurn(v) => stage'[v] = stage[v]
BY SideStage, StageSets DEF IsTurn

\* What the getter holds was submitted.
LEMMA GotIsSubmitted ==
  ASSUME TypeInv, loop = "flush" \/ got # None
  PROVE  got \in Accepted
BY DEF TypeInv, LoopInv

\* So was what the loop takes at the top.
LEMMA NextIsSubmitted ==
  ASSUME TypeInv, TakeNext
  PROVE  (IF pending # <<>> THEN Head(pending) ELSE Head(submissions)) \in Accepted
<1>1. CASE pending # <<>>
  BY <1>1 DEF TypeInv, LoopInv
<1>2. CASE pending = <<>> /\ submissions # <<>>
  BY <1>2 DEF TypeInv, LoopInv
<1>3. QED
  BY <1>1, <1>2 DEF TakeNext

\* The dispatch loop makes the task of a turn only at the top, without one.
LEMMA LoopStepTurn == TypeInv /\ TurnInv /\ LoopStep => TurnInv'
<1> SUFFICES ASSUME TypeInv, TurnInv, LoopStep PROVE TurnInv'
  OBVIOUS
<1>1. CASE TakeNext
  <2> DEFINE w == IF pending # <<>> THEN Head(pending) ELSE Head(submissions)
  <2>1. w \in Accepted /\ loop = "top" /\ sub' = sub
    BY <1>1, NextIsSubmitted DEF TakeNext
  <2>2. CASE Kind(w) = "abort"
    <3>1. stage' = [stage EXCEPT ![w] = "ok"] /\ UNCHANGED <<active, loop>>
      BY <1>1, <2>2 DEF TakeNext, AbortIdle
    <3>2. \A v \in Accepted : IsTurn(v) => stage'[v] = stage[v]
      BY <2>1, <2>2, <3>1, AbortStage
    <3>3. QED
      BY <2>1, <3>1, <3>2, TurnFrame DEF TurnInv, Unfinished
  <2>3. CASE Kind(w) # "abort"
    <3>1. active' = w /\ stage' = [stage EXCEPT ![w] = "spawned"] /\ loop' = "wait"
      BY <1>1, <2>3 DEF TakeNext
    <3>2. \A v \in Accepted : IsTurn(v) => ~Unfinished(v)
      BY <2>1, SubmittedIsId DEF TypeInv, LoopInv, TurnInv, Accepted, None
    <3>3. \A v \in Accepted : v # w => stage'[v] = stage[v]
      BY <3>1, SubmittedIsId DEF TypeInv, StageInv
    <3>4. QED
      BY <2>1, <3>1, <3>2, <3>3 DEF TurnInv, Accepted, IsTurn, Kind, Unfinished
  <2>4. QED
    BY <2>2, <2>3
<1>2. CASE GetSubmission
  BY <1>2, TurnFrame DEF GetSubmission, taskVars, Unfinished, TurnInv
<1>3. CASE TurnEnded
  <2>1. active \in Accepted /\ stage[active] \in Ended
    BY <1>3 DEF TurnEnded, TypeInv, LoopInv
  <2>2. \A w \in Accepted : IsTurn(w) => ~Unfinished(w)
    BY <2>1 DEF TurnInv, Unfinished
  <2>3. QED
    BY <1>3, <2>2 DEF TurnEnded, TurnInv, Accepted, IsTurn, Kind, Unfinished
<1>4. CASE Report
  BY <1>4, TurnFrame DEF Report, Unfinished, TurnInv
<1>5. CASE Reaped
  BY <1>5, TurnFrame DEF Reaped, taskVars, Unfinished, TurnInv
<1>6. CASE Flush
  <2>1. got \in Accepted
    BY <1>6, GotIsSubmitted DEF Flush
  <2>2. \A v \in Accepted : IsTurn(v) => stage'[v] = stage[v]
    BY <1>6, <2>1, AbortStage, SetAsideStage DEF Flush, AbortIdle
  <2>3. QED
    BY <1>6, <2>2, TurnFrame DEF Flush, TurnInv, Unfinished
<1>7. CASE GotWork
  <2>1. got \in Accepted
    BY <1>7, GotIsSubmitted DEF GotWork
  <2>2. \A v \in Accepted : IsTurn(v) => stage'[v] = stage[v]
    BY <1>7, <2>1, SetAsideStage DEF GotWork
  <2>3. QED
    BY <1>7, <2>2, TurnFrame DEF GotWork, TurnInv, Unfinished
<1>8. CASE GotAbort
  <2>1. got \in Accepted
    BY <1>8, GotIsSubmitted DEF GotAbort
  <2>2. \A v \in Accepted : IsTurn(v) => stage'[v] = stage[v]
    BY <1>8, <2>1, AbortStage DEF GotAbort
  <2>3. QED
    BY <1>8, <2>2, TurnFrame DEF GotAbort, TurnInv, Unfinished
<1>9. CASE AbortReaped
  BY <1>9, TurnFrame DEF AbortReaped, taskVars, Unfinished
<1>10. CASE AbortDone
  <2>1. active \in Accepted /\ stage[active] \in Ended
    BY <1>10 DEF AbortDone, TypeInv, LoopInv
  <2>2. \A w \in Accepted : IsTurn(w) => ~Unfinished(w)
    BY <2>1 DEF TurnInv, Unfinished
  <2>3. QED
    BY <1>10, <2>2 DEF AbortDone, taskVars, TurnInv, Accepted, IsTurn, Kind, Unfinished
<1>11. ASSUME NEW w \in aux, AuxDone(w) PROVE TurnInv'
  BY <1>11, TurnFrame DEF AuxDone, taskVars, Unfinished
<1>12. CASE AuxReport
  BY <1>12, TurnFrame DEF AuxReport, taskVars, Unfinished
<1>13. CASE LeaveLoop
  BY <1>13, TurnFrame DEF LeaveLoop, taskVars, Unfinished
<1>14. QED
  BY <1>1, <1>2, <1>3, <1>4, <1>5, <1>6, <1>7, <1>8, <1>9, <1>10, <1>11, <1>12,
     <1>13 DEF LoopStep

\* Every step keeps turns apart.
LEMMA TurnInvNext == TypeInv /\ TurnInv /\ [Next]_vars => TurnInv'
<1> SUFFICES ASSUME TypeInv, TurnInv, [Next]_vars PROVE TurnInv'
  OBVIOUS
<1>1. ASSUME NEW kind \in Kinds, NEW t \in Threads, Submit(kind, t)
      PROVE  TurnInv'
  BY <1>1, SubmitTurn
<1>2. CASE NextEvent \/ Printing
  <2>1. UNCHANGED <<sub, active, loop, stage>>
    BY <1>2, PrintingEffect DEF NextEvent, loopVars, taskVars
  <2>2. QED
    BY <2>1, TurnFrame DEF Unfinished, TurnInv
<1>3. ASSUME NEW w \in Ids, TaskStep(w) PROVE TurnInv'
  <2>1. TaskEffect(w)
    BY <1>3, TaskStepEffect
  <2>2. \A v \in Accepted : Unfinished(v)' => Unfinished(v)
    BY <2>1, SubmittedIsId DEF TaskEffect, TypeInv, StageInv, Unfinished
  <2>3. QED
    BY <2>1, <2>2, TurnFrame DEF TaskEffect, loopVars, TurnInv
<1>4. CASE LoopStep
  BY <1>4, LoopStepTurn
<1>5. CASE StopStep
  <2>1. UNCHANGED <<sub, stage, active>> /\ (loop' = loop \/ loop' = "stopped")
    BY <1>5 DEF StopStep, StopBegin, StopLoop, StopClose, CancelLoop, loopVars, taskVars
  <2>2. QED
    BY <2>1, TurnFrame DEF TurnInv, Unfinished
<1>6. CASE UNCHANGED vars
  BY <1>6, TurnFrame DEF vars, Unfinished, TurnInv
<1>7. QED
  BY <1>1, <1>2, <1>3, <1>4, <1>5, <1>6 DEF Next, Printing

\* Turns of a session never overlap, whatever is aborted, fails or is stopped,
\* and whatever shell commands run beside them.
THEOREM TurnsDoNotOverlap == Spec => []OneTurnRuns
<1>1. Init => TypeInv /\ TurnInv
  BY InitTypeInv, InitTurnInv
<1>2. TypeInv /\ TurnInv /\ [Next]_vars => TypeInv' /\ TurnInv'
  BY TypeInvNext, TurnInvNext
<1>3. TurnInv => OneTurnRuns
  BY TurnInvImpliesOneTurnRuns
<1>4. QED
  BY <1>1, <1>2, <1>3, PTL DEF Spec
=============================================================================
