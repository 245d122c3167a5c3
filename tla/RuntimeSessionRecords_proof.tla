-------------------- MODULE RuntimeSessionRecords_proof --------------------
(***************************************************************************)
(* Proofs about what the turns of a session leave behind: their events,    *)
(* their rows in the history database, their items in the ledger, their    *)
(* registrations and, when the session is stopped, their tasks.  The       *)
(* invariants say, for every stage a task can be suspended in, what it has *)
(* recorded by then.                                                       *)
(***************************************************************************)
EXTENDS RuntimeSessionOrder_proof

----------------------------------------------------------------------------
(* The stages of a task and what it has recorded when it is there.         *)

TurnStages == {"prepare"} \cup BodyStages \cup ErrorStages \cup AbortStages
CommandStages == ShellStages \cup ShellErrorStages \cup ShellAbortStages

\* A task is in the coroutine of its kind, and the turn it is about is its own
\* unless it runs inside another turn.
KindFits(w) ==
  /\ stage[w] \in TurnStages => IsTurn(w)
  /\ stage[w] \in CommandStages \ {"exec"} => Kind(w) = "shell"
  /\ stage[w] = "exec" => Kind(w) \in {"shell", "attached"}
  /\ w \in Accepted /\ Kind(w) # "attached" => Turn(w) = w

\* The terminal event comes last, but for the error that follows the end of a
\* shell command.
SaidFits(w) ==
  /\ stage[w] \notin Ended \cup {"shErrEvent"} => said[w] = <<>>
  /\ stage[w] = "shErrEvent" => said[w] = <<"failed">>

\* The row says how the turn ends as soon as that is decided, if there is one.
HistoryFits(w) ==
  /\ stage[w] \in {"startLedger", "compact", "announce", "model", "doneHist"}
       => history[w] = "running"
  /\ stage[w] \in {"doneLedger", "say", "finish"} => history[w] = "completed"
  /\ stage[w] \in {"errLedger", "errEvent", "errFinish"} => history[w] \in {"none", "error"}
  /\ stage[w] \in {"abLedger", "abEvent"} => history[w] \in {"none", "aborted"}
  /\ IsTurn(w) /\ said[w] # <<>> =>
       \/ said[w] = <<"complete">> /\ history[w] = "completed"
       \/ said[w] = <<"failed">> /\ history[w] \in {"none", "error"}
       \/ said[w] = <<"aborted">> /\ history[w] \in {"none", "aborted"}

\* A clean-up that was interrupted after the item of a completed turn was written adds
\* the item of an aborted one, and then only ends in that event.
LedgerFits(w) ==
  /\ stage[w] \in Stages \ ({"say", "finish", "shFinish", "shAbLedger"} \cup AbortStages \cup Ended)
       => ReplaysOpen(ledger[w])
  /\ stage[w] \in {"say", "finish", "shFinish"} => ReplaysAs(ledger[w], "turn_completed")
  /\ stage[w] = "abEvent" => ReplaysAs(ledger[w], "turn_aborted")
  /\ said[w] # <<>> =>
       \/ said[w] = <<"complete">> /\ ReplaysAs(ledger[w], "turn_completed")
       \/ said[w] = <<"failed">> /\ ReplaysOpen(ledger[w])
       \/ said[w] = <<"aborted">> /\ ReplaysAs(ledger[w], "turn_aborted")

RecordsInv ==
  \A w \in Ids : (w \in Accepted => KindFits(w) /\ HistoryFits(w)) /\ SaidFits(w) /\ LedgerFits(w)
                 /\ (w \notin Accepted => said[w] = <<>>)

CancelInv ==
  \A w \in Accepted :
    IsTurn(w) /\ Unfinished(w) /\ stage[w] # "spawned" => cancelEvt[Thread(w)] = "clear"

\* A task that has not ended is with the loop until stop() has awaited it.
StoppedInv ==
  /\ \A w \in Accepted : Unfinished(w) => w = active \/ w \in aux
  /\ halt \in {"await", "closed"} =>
       loop = "stopped" /\ \A w \in doomed : stage[w] \in Ended
  /\ halt = "closed" /\ active # None => stage[active] \in Ended

\* A registration is of a task that has begun, and none is of a resumed turn.
RegisteredInv ==
  /\ \A t \in Threads :
       activeTurn[t] # None =>
         /\ activeTurn[t] \in Accepted /\ Thread(activeTurn[t]) = t
         /\ Unfinished(activeTurn[t]) /\ stage[activeTurn[t]] # "spawned"
         /\ Kind(activeTurn[t]) \in {"user", "shell"}
  /\ \A w \in Accepted : Kind(w) # "resume" /\ stage[w] # "prepare"

----------------------------------------------------------------------------
(* What replay makes of a longer ledger.                                   *)

\* Only an item that is an outcome changes the outcome, to itself.
LEMMA ReplayAppend ==
  ASSUME NEW T, NEW items \in Seq(T), NEW x \in T
  PROVE  /\ x \notin Outcomes =>
              /\ ReplaysOpen(items) => ReplaysOpen(Append(items, x))
              /\ \A o : ReplaysAs(items, o) => ReplaysAs(Append(items, x), o)
         /\ x \in Outcomes => ReplaysAs(Append(items, x), x)
<1>1. /\ Len(items) \in Nat /\ Len(Append(items, x)) = Len(items) + 1
      /\ \A i \in 1 .. Len(items) : Append(items, x)[i] = items[i]
      /\ Append(items, x)[Len(items) + 1] = x
  BY AppendProperties, LenProperties
<1>2. ASSUME x \notin Outcomes, ReplaysOpen(items) PROVE ReplaysOpen(Append(items, x))
  BY <1>1, <1>2 DEF ReplaysOpen
<1>3. ASSUME x \notin Outcomes, NEW o, ReplaysAs(items, o) PROVE ReplaysAs(Append(items, x), o)
  <2>1. PICK i \in 1 .. Len(items) :
          items[i] = o /\ \A j \in i + 1 .. Len(items) : items[j] \notin Outcomes
    BY <1>3 DEF ReplaysAs
  <2>2. \A j \in i + 1 .. Len(items) + 1 : Append(items, x)[j] \notin Outcomes
    BY <1>1, <1>3, <2>1
  <2>. QED BY <1>1, <2>1, <2>2 DEF ReplaysAs
<1>4. ASSUME x \in Outcomes PROVE ReplaysAs(Append(items, x), x)
  BY <1>1 DEF ReplaysAs
<1>. QED BY <1>2, <1>3, <1>4

----------------------------------------------------------------------------
(* A step of a task.                                                       *)

\* What a task does to the records of its own turn, and of no other.
LEMMA OwnRecords ==
  ASSUME TypeInv, RecordsInv, NEW w \in Ids, TaskStep(w)
  PROVE  /\ w \in Accepted /\ sub' = sub
         /\ \A u \in Ids \ {w} : /\ stage'[u] = stage[u] /\ said'[u] = said[u]
                                 /\ history'[u] = history[u] /\ ledger'[u] = ledger[u]
<1>1. TaskEffect(w)
  BY TaskStepEffect
<1>2. w \in Accepted /\ sub' = sub /\ \A u \in Ids \ {w} : stage'[u] = stage[u]
  BY <1>1, BusyIsSubmitted DEF TaskEffect, Unfinished, TypeInv, StageInv
<1>3. \A u \in Ids \ {w} : history'[u] = history[u] /\ ledger'[u] = ledger[u]
  BY DEF TypeInv, StoreInv, TaskStep, Begin, BeginFails, ReadSnapshot, StoreStep, StoreFails,
         Compact, RunModel, Execute, PutStep, DeliverCancel, Write, storeVars
<1>4. stage[w] \in PutStages \cup {"compact"} => Turn(w) = w
  BY <1>2 DEF RecordsInv, KindFits, TurnStages, CommandStages, BodyStages, ErrorStages, AbortStages,
         ShellStages, ShellErrorStages, ShellAbortStages, PutStages, EventPut, IsTurn
<1>5. \A u \in Ids \ {w} : said'[u] = said[u]
  BY <1>4 DEF TypeInv, EventInv, TaskStep, Begin, BeginFails, ReadSnapshot, StoreStep, StoreFails,
         Compact, RunModel, Execute, PutStep, DeliverCancel, Emit, Event, eventVars
<1>. QED BY <1>2, <1>3, <1>5

\* Whatever has not changed of a task fits as it did.
LEMMA FitsFrame ==
  ASSUME NEW w \in Ids, sub' = sub, stage'[w] = stage[w], said'[w] = said[w],
         history'[w] = history[w], ledger'[w] = ledger[w]
  PROVE  /\ KindFits(w)' <=> KindFits(w)
         /\ HistoryFits(w)' <=> HistoryFits(w)
         /\ SaidFits(w)' <=> SaidFits(w)
         /\ LedgerFits(w)' <=> LedgerFits(w)
BY DEF KindFits, HistoryFits, SaidFits, LedgerFits, Accepted, IsTurn, Kind, Turn

\* What is asked of a task in all.
Fits(w) == KindFits(w) /\ SaidFits(w) /\ HistoryFits(w) /\ LedgerFits(w)

\* A task that moves without a record.
LEMMA MoveFits ==
  ASSUME TypeInv, NEW w \in Accepted, Fits(w), sub' = sub,
         NEW s \in Stages, stage' = [stage EXCEPT ![w] = s],
         said'[w] = said[w], history'[w] = history[w], ledger'[w] = ledger[w],
         \/ s \in Ended
         \/ stage[w] \in {"new", "spawned"} /\ s = "spawned"
         \/ stage[w] \in {"spawned", "prepare"} /\ s \in {"prepare", "startHist"} /\ IsTurn(w)
         \/ stage[w] = "spawned" /\ s = "shLedger" /\ Kind(w) = "shell"
         \/ stage[w] = "spawned" /\ s = "exec" /\ Kind(w) = "attached"
         \/ stage[w] = "exec" /\ s = "shDone" /\ Kind(w) # "attached"
         \/ stage[w] = "compact" /\ s = "announce"
         \/ stage[w] = "model" /\ s = "doneHist"
         \/ stage[w] \in BodyStages \ {"say", "finish"} /\ s = "errHist"
         \/ stage[w] \in BodyStages /\ s = "abHist"
         \/ stage[w] \in ShellStages \ {"shFinish"} /\ s = "shErrLedger" /\ stage[w] # "exec"
         \/ stage[w] \in ShellStages \ {"exec"} /\ s = "shAbLedger"
  PROVE  Fits(w)'
<1>0. w \in Ids /\ stage'[w] = s /\ Accepted' = Accepted
  BY SubmittedIsId DEF TypeInv, StageInv, Accepted
<1>. USE DEF Fits
<1>1. KindFits(w)'
  BY <1>0 DEF KindFits, TurnStages, CommandStages, BodyStages, ErrorStages, AbortStages,
         ShellStages, ShellErrorStages, ShellAbortStages, Ended, Accepted, IsTurn, Kind, Turn
<1>2. SaidFits(w)'
  BY <1>0 DEF SaidFits, BodyStages, ShellStages, Ended
<1>3. HistoryFits(w)'
  BY <1>0 DEF HistoryFits, BodyStages, ShellStages, Ended, IsTurn, Kind
<1>4. LedgerFits(w)'
  BY <1>0 DEF LedgerFits, BodyStages, ShellStages, AbortStages, Ended, Stages, Working
<1>. QED BY <1>1, <1>2, <1>3, <1>4

\* What a write of a stage leaves in the stores.
LEMMA OwnWrite ==
  ASSUME TypeInv, NEW w \in Ids, Write(w)
  PROVE  /\ history'[w] = IF stage[w] \in DOMAIN HistoryWrite /\ HasRow(w, stage[w])
                          THEN HistoryWrite[stage[w]] ELSE history[w]
         /\ stage[w] \notin DOMAIN LedgerWrite => ledger'[w] = ledger[w]
         /\ stage[w] \in DOMAIN LedgerWrite =>
              /\ LedgerWrite[stage[w]] \notin Outcomes /\ ReplaysOpen(ledger[w]) => ReplaysOpen(ledger'[w])
              /\ LedgerWrite[stage[w]] \in Outcomes => ReplaysAs(ledger'[w], LedgerWrite[stage[w]])
<1>1. /\ history \in [Ids -> {"none", "running", "completed", "error", "aborted"}]
      /\ ledger \in [Ids -> Seq({"turn_started", "turn_completed", "turn_aborted", "error"})]
  BY DEF TypeInv, StoreInv
<1>2. ASSUME stage[w] \in DOMAIN LedgerWrite
      PROVE  /\ ledger'[w] = Append(ledger[w], LedgerWrite[stage[w]])
             /\ LedgerWrite[stage[w]] \in {"turn_started", "turn_completed", "turn_aborted", "error"}
             /\ ledger[w] \in Seq({"turn_started", "turn_completed", "turn_aborted", "error"})
  BY <1>1, <1>2, WriteTables DEF Write
<1>3. ASSUME stage[w] \in DOMAIN LedgerWrite
      PROVE  /\ LedgerWrite[stage[w]] \notin Outcomes /\ ReplaysOpen(ledger[w]) => ReplaysOpen(ledger'[w])
             /\ LedgerWrite[stage[w]] \in Outcomes => ReplaysAs(ledger'[w], LedgerWrite[stage[w]])
  <2>. DEFINE T == {"turn_started", "turn_completed", "turn_aborted", "error"}
              L == ledger[w]
              x == LedgerWrite[stage[w]]
  <2>1. L \in Seq(T) /\ x \in T /\ ledger'[w] = Append(L, x)
    BY <1>2, <1>3
  <2>. HIDE DEF T, L, x
  <2>2. /\ x \notin Outcomes /\ ReplaysOpen(L) => ReplaysOpen(Append(L, x))
        /\ x \in Outcomes => ReplaysAs(Append(L, x), x)
    BY <2>1, ReplayAppend
  <2>. QED BY <2>1, <2>2 DEF L, x
<1>. QED BY <1>1, <1>3 DEF Write

\* A write that is done.
LEMMA StoreStepFits ==
  ASSUME TypeInv, NEW w \in Accepted, Fits(w), StoreStep(w)
  PROVE  Fits(w)'
<1>0. /\ w \in Ids /\ sub' = sub /\ Accepted' = Accepted /\ said' = said /\ stage[w] \in StoreStages
      /\ stage'[w] = OnSuccess[stage[w]] /\ Write(w)
  BY SubmittedIsId DEF StoreStep, MoveTo, eventVars, Accepted, TypeInv, StageInv
<1>. USE DEF Fits
<1>1. KindFits(w)'
  BY <1>0 DEF KindFits, StoreStages, HistoryWrite, LedgerWrite, OnSuccess, TurnStages, CommandStages,
         BodyStages, ErrorStages, AbortStages, ShellStages, ShellErrorStages, ShellAbortStages, Ended,
         IsTurn, Kind, Turn
<1>2. SaidFits(w)' /\ said[w] = <<>>
  BY <1>0 DEF SaidFits, StoreStages, HistoryWrite, LedgerWrite, OnSuccess, Ended
<1>3. HistoryFits(w)'
  <2>1. history'[w] = IF stage[w] \in DOMAIN HistoryWrite /\ HasRow(w, stage[w])
                      THEN HistoryWrite[stage[w]] ELSE history[w]
    BY <1>0, OwnWrite
  <2>2. said'[w] = <<>>
    BY <1>0, <1>2
  <2>. QED BY <1>0, <2>1, <2>2 DEF HistoryFits, StoreStages, HistoryWrite, LedgerWrite, OnSuccess, HasRow
<1>4. LedgerFits(w)'
  <2>1. /\ stage[w] \notin DOMAIN LedgerWrite => ledger'[w] = ledger[w]
        /\ stage[w] \in DOMAIN LedgerWrite =>
             /\ LedgerWrite[stage[w]] \notin Outcomes /\ ReplaysOpen(ledger[w]) => ReplaysOpen(ledger'[w])
             /\ LedgerWrite[stage[w]] \in Outcomes => ReplaysAs(ledger'[w], LedgerWrite[stage[w]])
    BY <1>0, OwnWrite
  <2>2. said'[w] = <<>>
    BY <1>0, <1>2
  <2>. QED BY <1>0, <2>1, <2>2 DEF LedgerFits, StoreStages, HistoryWrite, LedgerWrite, OnSuccess,
              Outcomes, AbortStages, Ended, Stages, Working, BodyStages, ErrorStages, ShellStages,
              ShellErrorStages, ShellAbortStages
<1>. QED BY <1>1, <1>2, <1>3, <1>4

\* A write that raises, or during which a cancellation arrives, done or not: the
\* handler it leads to trusts neither record.
LEMMA StoreLostFits ==
  ASSUME TypeInv, NEW w \in Accepted, Fits(w), sub' = sub, said' = said,
         stage[w] \in StoreStages,
         \/ /\ stage' = [stage EXCEPT ![w] = OnFailure(stage[w])]
            /\ \/ stage[w] \in {"startHist", "doneHist"} /\ Write(w)
               \/ UNCHANGED storeVars
         \/ /\ stage' = [stage EXCEPT ![w] = OnCancel(stage[w], Kind(w))]
            /\ Write(w) \/ UNCHANGED storeVars
  PROVE  Fits(w)'
<1>0. w \in Ids /\ Accepted' = Accepted /\ stage'[w] \in {OnFailure(stage[w]), OnCancel(stage[w], Kind(w))}
  BY SubmittedIsId DEF Accepted, TypeInv, StageInv
<1>. USE DEF Fits
<1>1. KindFits(w)'
  BY <1>0 DEF KindFits, StoreStages, HistoryWrite, LedgerWrite, OnFailure, OnCancel, TurnStages,
         CommandStages, BodyStages, ErrorStages, AbortStages, ShellStages, ShellErrorStages,
         ShellAbortStages, Ended, IsTurn, Kind, Turn
<1>2. stage'[w] \in {"errHist", "abHist", "shErrLedger", "shAbLedger", "crashed", "cancelled"}
  BY <1>0 DEF StoreStages, HistoryWrite, LedgerWrite, OnFailure, OnCancel
<1>3. said'[w] = <<>>
  BY DEF SaidFits, StoreStages, HistoryWrite, LedgerWrite, Ended
<1>4. ASSUME stage'[w] \in {"errHist", "shErrLedger"} PROVE ReplaysOpen(ledger'[w])
  <2>1. stage' = [stage EXCEPT ![w] = OnFailure(stage[w])] /\ stage[w] \in BodyStages \cup ShellStages
    BY <1>0, <1>4 DEF StoreStages, HistoryWrite, LedgerWrite, OnFailure, OnCancel
  <2>2. ReplaysOpen(ledger[w])
    BY <1>0, <2>1 DEF LedgerFits, TypeInv, StageInv, StoreStages, HistoryWrite, LedgerWrite,
          BodyStages, ShellStages, AbortStages, Ended
  <2>3. stage' # [stage EXCEPT ![w] = OnCancel(stage[w], Kind(w))]
    BY <1>0, <1>4 DEF TypeInv, StageInv, StoreStages, HistoryWrite, LedgerWrite, OnCancel
  <2>4. ledger'[w] = ledger[w]
    BY <1>0, <2>3, OwnWrite DEF storeVars, LedgerWrite
  <2>. QED BY <2>2, <2>4
<1>. QED BY <1>1, <1>2, <1>3, <1>4 DEF SaidFits, HistoryFits, LedgerFits, Ended, AbortStages

\* An event that is put: it is the terminal one when the records say so.
LEMMA PutStepFits ==
  ASSUME TypeInv, NEW w \in Accepted, Fits(w), PutStep(w)
  PROVE  Fits(w)'
<1>0. /\ w \in Ids /\ sub' = sub /\ Accepted' = Accepted /\ stage[w] \in PutStages
      /\ history' = history /\ ledger' = ledger
      /\ stage'[w] = OnSuccess[stage[w]] /\ Emit(Event(EventPut[stage[w]], Turn(w)))
  BY SubmittedIsId DEF PutStep, MoveTo, storeVars, Accepted, TypeInv, StageInv
<1>. USE DEF Fits
<1>1. KindFits(w)'
  BY <1>0 DEF KindFits, PutStages, EventPut, OnSuccess, TurnStages, CommandStages,
         BodyStages, ErrorStages, AbortStages, ShellStages, ShellErrorStages, ShellAbortStages, Ended,
         IsTurn, Kind, Turn
<1>2. Turn(w) = w /\ w # None
  BY <1>0 DEF KindFits, TurnStages, CommandStages, BodyStages, ErrorStages, AbortStages,
         ShellStages, ShellErrorStages, ShellAbortStages, PutStages, EventPut, IsTurn, Ids, None
<1>3. said'[w] = IF EventPut[stage[w]] \in TerminalTypes THEN Append(said[w], EventPut[stage[w]])
                 ELSE said[w]
  BY <1>0, <1>2 DEF Emit, Event, TypeInv, EventInv
<1>a. \A x \in TerminalTypes : Append(<<>>, x) = <<x>>
  OBVIOUS
<1>4. stage[w] # "shErrEvent" => said[w] = <<>> /\ \A x \in TerminalTypes : Append(said[w], x) = <<x>>
  BY <1>0, <1>a DEF SaidFits, PutStages, EventPut, Ended
<1>5. stage[w] = "shErrEvent" => said'[w] = said[w] /\ stage'[w] = "ok"
  BY <1>0, <1>3 DEF EventPut, TerminalTypes, OnSuccess
<1>6. CASE stage[w] = "shErrEvent"
  BY <1>0, <1>1, <1>5, <1>6 DEF SaidFits, HistoryFits, LedgerFits, Ended, IsTurn, Kind
<1>7. CASE stage[w] # "shErrEvent"
  <2>1. SaidFits(w)'
    BY <1>0, <1>3, <1>4, <1>7 DEF SaidFits, PutStages, EventPut, OnSuccess, TerminalTypes, Ended
  <2>2. HistoryFits(w)'
    BY <1>0, <1>3, <1>4, <1>7 DEF KindFits, HistoryFits, PutStages, EventPut, OnSuccess, TerminalTypes,
          CommandStages, ShellStages, ShellErrorStages, IsTurn, Kind
  <2>3. LedgerFits(w)'
    BY <1>0, <1>3, <1>4, <1>7 DEF LedgerFits, PutStages, EventPut, OnSuccess, TerminalTypes,
          Ended, AbortStages, Stages, Working, BodyStages, ErrorStages, ShellStages, ShellErrorStages
  <2>. QED BY <1>1, <2>1, <2>2, <2>3
<1>. QED BY <1>6, <1>7

\* Every step of a task leaves it where its records say it is.
LEMMA TaskStepFits ==
  ASSUME TypeInv, RecordsInv, NEW w \in Accepted, Fits(w), TaskStep(w)
  PROVE  Fits(w)'
<1>0. w \in Ids /\ stage[w] \in Stages /\ Kind(w) \in AllKinds
  BY SubmittedIsId, TurnIsId DEF TypeInv, StageInv
<1>1. CASE Begin(w)
  <2>1. /\ UNCHANGED <<sub, said, history, ledger>> /\ stage[w] = "spawned"
        /\ \/ stage' = [stage EXCEPT ![w] = "prepare"] /\ IsTurn(w)
           \/ stage' = [stage EXCEPT ![w] = "startHist"] /\ IsTurn(w)
           \/ stage' = [stage EXCEPT ![w] = "shLedger"] /\ Kind(w) = "shell"
           \/ stage' = [stage EXCEPT ![w] = "exec"] /\ Kind(w) = "attached"
    BY <1>1 DEF Begin, storeVars, eventVars, IsTurn
  <2>. QED BY <1>0, <2>1, StageSets, MoveFits DEF Stages, Working, ShellStages
<1>2. CASE BeginFails(w)
  BY <1>2, StageSets, MoveFits DEF BeginFails, storeVars, eventVars, Ended
<1>3. CASE ReadSnapshot(w)
  <2>1. IsTurn(w)
    BY <1>0, <1>3 DEF RecordsInv, KindFits, ReadSnapshot, TurnStages
  <2>. QED BY <1>3, <2>1, StageSets, MoveFits DEF ReadSnapshot, MoveTo, storeVars, eventVars
<1>4. CASE StoreStep(w)
  BY <1>4, StoreStepFits
<1>5. CASE StoreFails(w)
  BY <1>5, StoreLostFits DEF StoreFails, MoveTo, eventVars
<1>6. CASE Compact(w)
  <2>1. Turn(w) \in Ids
    BY TurnIsId DEF TypeInv
  <2>2. UNCHANGED <<sub, said, history, ledger>>
    BY <1>6 DEF Compact, Emit, Event, TerminalTypes, storeVars, eventVars
  <2>. QED BY <1>6, <2>2, StageSets, MoveFits DEF Compact, MoveTo
<1>7. CASE RunModel(w)
  <2>1. UNCHANGED <<sub, said, history, ledger>> /\ stage[w] = "model"
        /\ \E s \in {"abHist", "doneHist", "errHist"} : stage' = [stage EXCEPT ![w] = s]
    BY <1>7 DEF RunModel, MoveTo, storeVars, eventVars
  <2>. QED BY <2>1, StageSets, MoveFits DEF BodyStages
<1>8. CASE Execute(w)
  <2>1. UNCHANGED <<sub, said, history, ledger>> /\ stage[w] = "exec"
        /\ \/ stage' = [stage EXCEPT ![w] = "ok"]
           \/ stage' = [stage EXCEPT ![w] = "shDone"] /\ Kind(w) # "attached"
    BY <1>8 DEF Execute, MoveTo, storeVars, eventVars
  <2>. QED BY <2>1, StageSets, MoveFits DEF Ended
<1>9. CASE PutStep(w)
  BY <1>9, PutStepFits
<1>10. CASE DeliverCancel(w)
  <2>1. UNCHANGED <<sub, said>>
    BY <1>10 DEF DeliverCancel, eventVars
  <2>2. CASE stage[w] \in {"spawned", "prepare"} /\ stage' = [stage EXCEPT ![w] = "cancelled"]
             /\ UNCHANGED storeVars
    BY <2>1, <2>2, StageSets, MoveFits DEF storeVars, Ended
  <2>3. CASE /\ stage[w] \in StoreStages /\ (Write(w) \/ UNCHANGED storeVars)
             /\ stage' = [stage EXCEPT ![w] = OnCancel(stage[w], Kind(w))]
    BY <2>1, <2>3, StoreLostFits
  <2>4. CASE /\ stage[w] \in {"compact", "model", "exec"} \cup PutStages /\ UNCHANGED storeVars
             /\ stage' = [stage EXCEPT ![w] = OnCancel(stage[w], Kind(w))]
    <3>1. /\ OnCancel(stage[w], Kind(w)) \in Stages
          /\ \/ OnCancel(stage[w], Kind(w)) \in Ended
             \/ stage[w] \in BodyStages /\ OnCancel(stage[w], Kind(w)) = "abHist"
             \/ stage[w] = "exec" /\ OnCancel(stage[w], Kind(w)) = "shDone" /\ Kind(w) # "attached"
             \/ stage[w] \in ShellStages \ {"exec"} /\ OnCancel(stage[w], Kind(w)) = "shAbLedger"
      BY <1>0, <2>4, StageTables DEF OnCancel, Ended
    <3>. QED BY <2>1, <2>4, <3>1, MoveFits DEF storeVars
  <2>5. CASE stage[w] = "model" /\ stage' = [stage EXCEPT ![w] = "errHist"] /\ UNCHANGED storeVars
    BY <2>1, <2>5, StageSets, MoveFits DEF storeVars, BodyStages
  <2>. QED BY <1>10, <2>2, <2>3, <2>4, <2>5 DEF DeliverCancel, MoveTo
<1>. QED BY <1>1, <1>2, <1>3, <1>4, <1>5, <1>6, <1>7, <1>8, <1>9, <1>10 DEF TaskStep

----------------------------------------------------------------------------
(* The other steps.                                                        *)

\* The loop records nothing, and its events are about no turn.
LEMMA LoopLeavesRecords ==
  ASSUME LoopStep
  PROVE  /\ UNCHANGED <<history, ledger, said>>
         /\ \/ UNCHANGED events
            \/ \E type \in EventTypes : events' = Append(events, Event(type, None))
BY DEF LoopStep, TakeNext, GetSubmission, TurnEnded, Report, Reaped, Flush, GotWork, GotAbort,
       AbortReaped, AbortDone, AuxDone, AuxReport, LeaveLoop, AbortIdle, Emit, Event, EventTypes,
       TerminalTypes, taskVars, storeVars, eventVars

\* The error an event of a turn adds to its ledger is no outcome.
LEMMA NextEventReplays ==
  ASSUME TypeInv, NextEvent, NEW w \in Ids
  PROVE  /\ ReplaysOpen(ledger[w]) => ReplaysOpen(ledger'[w])
         /\ \A o : ReplaysAs(ledger[w], o) => ReplaysAs(ledger'[w], o)
<1>. DEFINE T == {"turn_started", "turn_completed", "turn_aborted", "error"}
            L == ledger[w]
<1>1. L \in Seq(T) /\ "error" \in T /\ "error" \notin Outcomes
  BY DEF TypeInv, StoreInv, Outcomes
<1>2. ledger'[w] = L \/ ledger'[w] = Append(L, "error")
  BY DEF NextEvent, MirrorEvent, TypeInv, StoreInv
<1>. HIDE DEF T, L
<1>3. /\ ReplaysOpen(L) => ReplaysOpen(Append(L, "error"))
      /\ \A o : ReplaysAs(L, o) => ReplaysAs(Append(L, "error"), o)
  BY <1>1, ReplayAppend
<1>. QED BY <1>2, <1>3 DEF L

\* Nothing is recorded at first.
LEMMA InitRecordsInv == Init => RecordsInv
<1> SUFFICES ASSUME Init PROVE RecordsInv
  OBVIOUS
<1>1. Len(<<>>) = 0 /\ ReplaysOpen(<<>>)
  BY DEF ReplaysOpen
<1>. QED
  BY <1>1 DEF Init, RecordsInv, SaidFits, LedgerFits, Accepted, AbortStages, Ended

\* Every step keeps the records of every turn in accordance with its stage.
LEMMA RecordsInvNext ==
  ASSUME TypeInv, TurnInv, OrderInv, WaitInv, RecordsInv, [Next]_vars
  PROVE  RecordsInv'
<1>0. stage \in [Ids -> Stages] /\ Accepted \subseteq Ids /\ \A w \in Ids \ Accepted : stage[w] = "new"
  BY SubmittedIsId DEF TypeInv, StageInv
<1>1. ASSUME NEW kind \in Kinds, NEW t \in Threads, Submit(kind, t) PROVE RecordsInv'
  <2>1. PICK w \in Ids : w = Len(sub) + 1
    BY <1>1, SubmitWaits
  <2>2. /\ UNCHANGED <<stage, said, history, ledger>> /\ Len(sub) \in Nat
        /\ sub' = Append(sub, [kind |-> kind, thread |-> t,
                               turn |-> IF kind = "attached" THEN activeTurn[t] ELSE w])
    BY <1>1, <2>1 DEF Submit, taskVars, storeVars, eventVars, TypeInv, LoopInv
  <2>3. Accepted' = Accepted \cup {w} /\ w \notin Accepted /\ \A u \in Accepted : sub'[u] = sub[u]
    BY <1>1, <2>1, SubmitWaits
  <2>4. sub'[w].kind = kind /\ (kind # "attached" => sub'[w].turn = w)
    <3>1. sub \in Seq(Submissions)
      BY DEF TypeInv, LoopInv
    <3>2. sub'[w] = [kind |-> kind, thread |-> t, turn |-> IF kind = "attached" THEN activeTurn[t] ELSE w]
      BY <2>1, <2>2, <3>1
    <3>. QED BY <3>2
  <2>5. \A u \in Ids : SaidFits(u)' /\ LedgerFits(u)'
    BY <2>2 DEF RecordsInv, SaidFits, LedgerFits
  <2>6. ASSUME NEW u \in Accepted PROVE KindFits(u)' /\ HistoryFits(u)'
    <3>1. sub'[u] = sub[u] /\ KindFits(u) /\ HistoryFits(u)
      BY <1>0, <2>3 DEF RecordsInv
    <3>2. KindFits(u)'
      BY <2>2, <3>1 DEF KindFits, IsTurn, Kind, Turn
    <3>3. HistoryFits(u)'
      BY <2>2, <3>1 DEF HistoryFits, IsTurn, Kind
    <3>. QED BY <3>2, <3>3
  <2>7. stage'[w] = "new" /\ said'[w] = <<>>
    BY <1>0, <2>2, <2>3 DEF RecordsInv
  <2>8. KindFits(w)' /\ HistoryFits(w)'
    BY <2>4, <2>7 DEF KindFits, HistoryFits, TurnStages, CommandStages, BodyStages, ErrorStages, AbortStages,
          ShellStages, ShellErrorStages, ShellAbortStages, Kind, Turn
  <2>. QED BY <1>0, <2>2, <2>3, <2>5, <2>6, <2>8 DEF RecordsInv
<1>2. CASE UNCHANGED vars \/ StopStep \/ Printing
  <2>1. UNCHANGED <<sub, stage, said, history, ledger>>
    BY <1>2, PrintingEffect DEF taskVars, storeVars, eventVars, vars, StopStep, StopBegin, StopLoop, StopClose,
                CancelLoop
  <2>. QED BY <2>1, FitsFrame DEF RecordsInv, Accepted
<1>3. CASE NextEvent
  <2>1. UNCHANGED <<sub, stage, said, history>>
    BY <1>3 DEF NextEvent, loopVars, taskVars
  <2>2. \A u \in Ids : LedgerFits(u) => LedgerFits(u)'
    BY <1>3, <2>1, NextEventReplays DEF LedgerFits
  <2>3. \A u \in Ids : /\ KindFits(u)' <=> KindFits(u)
                       /\ HistoryFits(u)' <=> HistoryFits(u)
                       /\ SaidFits(u)' <=> SaidFits(u)
    BY <2>1 DEF KindFits, HistoryFits, SaidFits, Accepted, IsTurn, Kind, Turn
  <2>. QED BY <2>1, <2>2, <2>3 DEF RecordsInv, Accepted
<1>4. ASSUME NEW w \in Ids, TaskStep(w) PROVE RecordsInv'
  <2>1. /\ w \in Accepted /\ sub' = sub /\ Fits(w)
        /\ \A u \in Ids \ {w} : /\ stage'[u] = stage[u] /\ said'[u] = said[u]
                                /\ history'[u] = history[u] /\ ledger'[u] = ledger[u]
    BY <1>4, OwnRecords DEF RecordsInv, Fits
  <2>2. Fits(w)'
    BY <1>4, <2>1, TaskStepFits
  <2>. QED BY <2>1, <2>2, FitsFrame DEF RecordsInv, Accepted, Fits
<1>5. CASE LoopStep
  <2>1. sub' = sub /\ UNCHANGED <<history, ledger, said>>
        /\ (UNCHANGED stage \/ \E w \in Accepted : Serves(w))
    BY <1>5, LoopServes, LoopLeavesRecords DEF ServesNothing
  <2>2. CASE UNCHANGED stage
    BY <2>1, <2>2, FitsFrame DEF RecordsInv, Accepted
  <2>3. ASSUME NEW w \in Accepted, Serves(w) PROVE RecordsInv'
    <3>1. stage[w] = "new" /\ Fits(w)
      BY <1>0, <2>3 DEF Serves, WaitInv, RecordsInv, Fits
    <3>2. \E s \in {"spawned", "ok"} : stage' = [stage EXCEPT ![w] = s]
      BY <2>3 DEF Serves
    <3>3. Fits(w)'
      BY <2>1, <3>1, <3>2, StageSets, MoveFits DEF Ended
    <3>4. \A u \in Ids \ {w} : stage'[u] = stage[u]
      BY <1>0, <3>2
    <3>. QED BY <2>1, <3>3, <3>4, FitsFrame DEF RecordsInv, Accepted, Fits
  <2>. QED BY <2>1, <2>2, <2>3
<1>. QED BY <1>1, <1>2, <1>3, <1>4, <1>5 DEF Next, Printing

\* The records agree once the terminal event is out.
LEMMA RecordsAgree == TypeInv /\ RecordsInv => RecordsMatchStream
<1> SUFFICES ASSUME TypeInv, RecordsInv, NEW w \in Accepted, said[w] # <<>>
             PROVE  /\ IsTurn(w) => /\ Len(said[w]) = 1
                                    /\ \/ history[w] = "none" /\ said[w][1] # "complete"
                                       \/ /\ history[w] \in DOMAIN OutcomeOf
                                          /\ said[w][1] = OutcomeOf[history[w]]
                    /\ CASE said[w][1] = "complete" -> ReplaysAs(ledger[w], "turn_completed")
                         [] said[w][1] = "aborted"  -> ReplaysAs(ledger[w], "turn_aborted")
                         [] OTHER                   -> ReplaysOpen(ledger[w])
  BY DEF RecordsMatchStream, HistoryMatches, ReplayMatches
<1>1. w \in Ids
  BY SubmittedIsId DEF TypeInv
<1>2. /\ IsTurn(w) =>
           \/ said[w] = <<"complete">> /\ history[w] = "completed"
           \/ said[w] = <<"failed">> /\ history[w] \in {"none", "error"}
           \/ said[w] = <<"aborted">> /\ history[w] \in {"none", "aborted"}
      /\ \/ said[w] = <<"complete">> /\ ReplaysAs(ledger[w], "turn_completed")
         \/ said[w] = <<"failed">> /\ ReplaysOpen(ledger[w])
         \/ said[w] = <<"aborted">> /\ ReplaysAs(ledger[w], "turn_aborted")
  BY <1>1 DEF RecordsInv, HistoryFits, LedgerFits
<1>3. CASE said[w] = <<"complete">>
  <2>1. Len(said[w]) = 1 /\ said[w][1] = "complete"
    BY <1>3
  <2>. QED BY <1>2, <1>3, <2>1 DEF OutcomeOf
<1>4. CASE said[w] = <<"failed">>
  <2>1. Len(said[w]) = 1 /\ said[w][1] = "failed"
    BY <1>4
  <2>. QED BY <1>2, <1>4, <2>1 DEF OutcomeOf
<1>5. CASE said[w] = <<"aborted">>
  <2>1. Len(said[w]) = 1 /\ said[w][1] = "aborted"
    BY <1>5
  <2>. QED BY <1>2, <1>5, <2>1 DEF OutcomeOf
<1>. QED BY <1>2, <1>3, <1>4, <1>5

\* What a turn or a shell command has told its reader, what the history database says
\* of it and what a replay of the ledger finds agree, wherever a cancellation or a
\* failing write struck.
THEOREM RecordsAlwaysMatch == Spec => []RecordsMatchStream
<1> DEFINE Inv == TypeInv /\ TurnInv /\ OrderInv /\ WaitInv /\ RecordsInv
<1>1. Init => Inv
  BY InitTypeInv, InitTurnInv, InitOrderInv, InitWaitInv, InitRecordsInv
<1>2. Inv /\ [Next]_vars => Inv'
  BY TypeInvNext, TurnInvNext, OrderInvNext, WaitInvNext, RecordsInvNext
<1>3. Inv => RecordsMatchStream
  BY RecordsAgree
<1> HIDE DEF Inv
<1>. QED BY <1>1, <1>2, <1>3, PTL DEF Spec

\* Once a turn has told how it ended, only the shell commands attached to it emit events of
\* that turn, and none do when none of them is executing.
THEOREM TerminalStaysLast == Spec => TerminalIsLast
<1> DEFINE Inv == TypeInv /\ TurnInv /\ OrderInv /\ WaitInv /\ RecordsInv
           Last == \A w \in Accepted : /\ IsTurn(w) /\ said[w] # <<>> /\ ~AttachedRuns(w)
                                       /\ Len(events') > Len(events)
                                       => events'[Len(events')].turn # w
<1>1. Init => Inv
  BY InitTypeInv, InitTurnInv, InitOrderInv, InitWaitInv, InitRecordsInv
<1>2. Inv /\ [Next]_vars => Inv'
  BY TypeInvNext, TurnInvNext, OrderInvNext, WaitInvNext, RecordsInvNext
<1>3. ASSUME Inv, [Next]_vars PROVE Last
  <2> SUFFICES ASSUME NEW w \in Accepted, IsTurn(w), said[w] # <<>>, ~AttachedRuns(w),
                      Len(events') > Len(events)
               PROVE  events'[Len(events')].turn # w
    OBVIOUS
  <2>0. events \in Seq(EventRecords) /\ Len(events) \in Nat /\ w \in Ids /\ w # None
    BY <1>3, SubmittedIsId DEF TypeInv, EventInv, Ids, None
  <2>1. stage[w] \in Ended
    BY <1>3, <2>0 DEF RecordsInv, SaidFits, KindFits, CommandStages, ShellErrorStages, IsTurn
  <2>2. \/ \E type \in EventTypes, u \in Ids \cup {None} :
             u # w /\ events' = Append(events, Event(type, u))
        \/ UNCHANGED events
        \/ events # <<>> /\ events' = Tail(events)
    <3>1. ASSUME NEW kind \in Kinds, NEW t \in Threads, Submit(kind, t) PROVE UNCHANGED events
      BY <3>1 DEF Submit, eventVars
    <3>2. ASSUME NEW v \in Ids, TaskStep(v)
          PROVE  \/ \E type \in EventTypes, u \in Ids \cup {None} :
                      u # w /\ events' = Append(events, Event(type, u))
                 \/ UNCHANGED events
      <4>1. Unfinished(v) /\ v \in Accepted
        BY <1>3, <3>2, TaskStepEffect, BusyIsSubmitted DEF TaskEffect, TypeInv, Unfinished
      <4>2. v # w
        BY <2>1, <4>1 DEF Unfinished
      <4>3. \/ /\ stage[v] \in PutStages \cup {"compact"}
               /\ \E type \in EventTypes : events' = Append(events, Event(type, Turn(v)))
            \/ UNCHANGED events
        BY <3>2, WriteTables
           DEF TaskStep, Begin, BeginFails, ReadSnapshot, StoreStep, StoreFails, Compact, RunModel,
               Execute, PutStep, DeliverCancel, Emit, eventVars, EventTypes
      <4>4. stage[v] \in PutStages \cup {"compact"} => Turn(v) = v
        BY <1>3, <4>1 DEF RecordsInv, KindFits, TurnStages, CommandStages, BodyStages, ErrorStages,
               AbortStages, ShellStages, ShellErrorStages, ShellAbortStages, PutStages, EventPut, IsTurn
      <4>. QED BY <4>2, <4>3, <4>4
    <3>3. CASE LoopStep
      BY <2>0, <3>3, LoopLeavesRecords
    <3>4. CASE NextEvent \/ StopStep \/ UNCHANGED vars
      BY <3>4 DEF NextEvent, StopStep, StopBegin, StopLoop, StopClose, CancelLoop, eventVars, vars
    <3>5. ASSUME NEW v \in Ids, ExecOutput(v)
          PROVE  \E type \in EventTypes, u \in Ids \cup {None} :
                   u # w /\ events' = Append(events, Event(type, u))
      <4>1. v \in Accepted /\ stage[v] = "exec" /\ events' = Append(events, Event("output", Turn(v)))
        BY <1>3, <3>5, StageSets, BusyIsSubmitted DEF ExecOutput, Emit, TypeInv
      <4>2. Turn(v) \in Ids /\ Turn(v) # w
        <5>1. Turn(v) \in Ids /\ KindFits(v)
          BY <1>3, <3>5, <4>1, TurnIsId DEF TypeInv, RecordsInv
        <5>2. CASE Kind(v) = "attached"
          BY <4>1, <5>1, <5>2 DEF AttachedRuns
        <5>3. CASE Kind(v) = "shell"
          BY <4>1, <5>1, <5>3 DEF KindFits, IsTurn
        <5>. QED BY <4>1, <5>1, <5>2, <5>3 DEF KindFits
      <4>. QED BY <4>1, <4>2 DEF EventTypes
    <3>. QED BY <1>3, <3>1, <3>2, <3>3, <3>4, <3>5 DEF Next
  <2>3. ASSUME NEW type \in EventTypes, NEW u \in Ids \cup {None}, u # w,
               events' = Append(events, Event(type, u))
        PROVE  events'[Len(events')].turn # w
    <3>1. Event(type, u) \in EventRecords /\ Event(type, u).turn = u
      BY DEF Event, EventRecords
    <3>2. events'[Len(events')] = Event(type, u)
      BY <2>0, <2>3, <3>1, AppendProperties
    <3>. QED BY <2>3, <3>1, <3>2
  <2>4. events # <<>> => Len(Tail(events)) = Len(events) - 1
    BY <2>0
  <2>. QED BY <2>0, <2>2, <2>3, <2>4
<1> HIDE DEF Inv, Last
<1>4. Inv /\ [Next]_vars => [Last]_vars
  BY <1>3
<1>. QED BY <1>1, <1>2, <1>4, PTL DEF Spec, TerminalIsLast, Last

----------------------------------------------------------------------------
(* The registrations of turns and their cancel events.                     *)

\* What a step of a task does to them: the first one registers the turn, the last one
\* removes it, unless the task is cancelled before its try statement.
RegistersTurn(w) ==
  /\ stage[w] = "spawned" /\ IsTurn(w) /\ stage'[w] \notin {"spawned"}
  /\ stage'[w] = "crashed" => "prepare" \in Faults
  /\ stage'[w] \in Ended => stage'[w] = "crashed"
  /\ stage'[w] = "prepare" => Kind(w) = "resume"
  /\ cancelEvt' = [cancelEvt EXCEPT ![Thread(w)] = "clear"]
  /\ activeTurn' = [activeTurn EXCEPT ![Thread(w)] = w]
RegistersCommand(w) ==
  /\ stage[w] = "spawned" /\ Kind(w) = "shell" /\ stage'[w] = "shLedger"
  /\ activeTurn' = [activeTurn EXCEPT ![Thread(w)] = w]
  /\ UNCHANGED cancelEvt
GoesOn(w) ==
  /\ stage[w] = "spawned" => Kind(w) = "attached"
  /\ stage'[w] \notin Ended \cup {"spawned", "prepare"}
  /\ UNCHANGED <<activeTurn, cancelEvt>>
EndsRegistered(w) == stage[w] # "spawned" /\ stage'[w] \in Ended /\ Release(w)
NeverBegins(w) ==
  /\ stage[w] \in {"spawned", "prepare"} /\ stage'[w] = "cancelled"
  /\ UNCHANGED <<activeTurn, cancelEvt>>

\* Where a stage that has begun leads: to no stage before the try statement.
LEMMA GoesOnTables ==
  /\ "spawned" \notin StoreStages \cup PutStages
  /\ \A s \in StoreStages \cup PutStages : OnSuccess[s] \notin {"spawned", "prepare"}
  /\ \A s \in Stages : OnFailure(s) \notin {"spawned", "prepare"}
  /\ \A s \in Stages, kind \in AllKinds : OnCancel(s, kind) \notin {"spawned", "prepare"}
BY DEF StoreStages, PutStages, HistoryWrite, LedgerWrite, EventPut, OnSuccess, OnFailure, OnCancel,
       Stages, Working, BodyStages, ErrorStages, AbortStages, ShellStages, ShellErrorStages,
       ShellAbortStages, Ended

\* Moving on keeps the registrations until the end, which removes them.
LEMMA MoveToRegisters ==
  ASSUME TypeInv, NEW w \in Ids, stage[w] # "spawned",
         NEW s \in Stages \ {"spawned", "prepare"}, MoveTo(w, s)
  PROVE  GoesOn(w) \/ EndsRegistered(w)
<1>1. stage'[w] = s
  BY DEF MoveTo, TypeInv, StageInv
<1>. QED BY <1>1 DEF MoveTo, GoesOn, EndsRegistered

\* The steps of a task are of these five sorts.
LEMMA TaskRegisters ==
  ASSUME TypeInv, RecordsInv, NEW w \in Ids, TaskStep(w)
  PROVE  RegistersTurn(w) \/ RegistersCommand(w) \/ GoesOn(w) \/ EndsRegistered(w) \/ NeverBegins(w)
<1>0. w \in Accepted /\ stage \in [Ids -> Stages] /\ Kind(w) \in AllKinds
  BY OwnRecords, TurnIsId DEF TypeInv, StageInv
<1>1. CASE Begin(w)
  BY <1>0, <1>1 DEF Begin, RegistersTurn, RegistersCommand, GoesOn, IsTurn, Ended
<1>2. CASE BeginFails(w)
  BY <1>0, <1>2 DEF BeginFails, RegistersTurn, IsTurn, Ended
<1>3. CASE ReadSnapshot(w)
  BY <1>0, <1>3, MoveToRegisters, StageSets DEF ReadSnapshot
<1>4. CASE StoreStep(w)
  BY <1>0, <1>4, MoveToRegisters, StageSets, StageTables, GoesOnTables DEF StoreStep
<1>5. CASE StoreFails(w)
  BY <1>0, <1>5, MoveToRegisters, StageSets, StageTables, GoesOnTables DEF StoreFails
<1>6. CASE Compact(w)
  BY <1>0, <1>6, MoveToRegisters, StageSets DEF Compact
<1>7. CASE RunModel(w)
  <2>1. \E s \in {"abHist", "doneHist", "errHist"} : MoveTo(w, s)
    BY <1>7 DEF RunModel
  <2>. QED BY <1>7, <2>1, MoveToRegisters, StageSets DEF RunModel
<1>8. CASE Execute(w)
  <2>1. \E s \in {"ok", "shDone"} : MoveTo(w, s)
    BY <1>8 DEF Execute
  <2>. QED BY <1>8, <2>1, MoveToRegisters, StageSets DEF Execute
<1>9. CASE PutStep(w)
  BY <1>0, <1>9, MoveToRegisters, StageSets, StageTables, GoesOnTables DEF PutStep
<1>10. CASE DeliverCancel(w)
  <2>1. CASE stage[w] \in {"spawned", "prepare"} /\ stage' = [stage EXCEPT ![w] = "cancelled"]
             /\ UNCHANGED <<activeTurn, cancelEvt>>
    BY <1>0, <2>1 DEF NeverBegins
  <2>2. CASE stage[w] \in {"compact", "model", "exec"} \cup StoreStages \cup PutStages
             /\ MoveTo(w, OnCancel(stage[w], Kind(w)))
    <3>1. OnCancel(stage[w], Kind(w)) \in Stages \ {"spawned", "prepare"}
      BY <1>0, StageTables, GoesOnTables
    <3>2. stage[w] # "spawned"
      BY <2>2, StageSets DEF StoreStages, PutStages, HistoryWrite, LedgerWrite, EventPut
    <3>. QED BY <2>2, <3>1, <3>2, MoveToRegisters
  <2>3. CASE stage[w] = "model" /\ MoveTo(w, "errHist")
    BY <2>3, MoveToRegisters, StageSets
  <2>. QED BY <1>10, <2>1, <2>2, <2>3 DEF DeliverCancel
<1>. QED BY <1>1, <1>2, <1>3, <1>4, <1>5, <1>6, <1>7, <1>8, <1>9, <1>10 DEF TaskStep

\* The loop registers nothing, and sets a cancel event only where it runs no turn.
LEMMA LoopRegisters ==
  ASSUME LoopStep
  PROVE  /\ UNCHANGED <<activeTurn>>
         /\ UNCHANGED cancelEvt \/ loop \in {"top", "flush"}
BY DEF LoopStep, TakeNext, GetSubmission, TurnEnded, Report, Reaped, Flush, GotWork, GotAbort,
       AbortReaped, AbortDone, AuxDone, AuxReport, LeaveLoop, AbortIdle, taskVars

\* The tasks of the others do not move when a task takes a step.
LEMMA OthersStay ==
  ASSUME TypeInv, NEW w \in Ids, TaskStep(w)
  PROVE  /\ w \in Accepted /\ Unfinished(w) /\ UNCHANGED <<sub, loopVars, stopVars>> /\ Accepted' = Accepted
         /\ \A u \in Ids \ {w} : stage'[u] = stage[u]
<1>1. TaskEffect(w)
  BY TaskStepEffect
<1>. QED BY <1>1, BusyIsSubmitted DEF TaskEffect, Unfinished, TypeInv, StageInv, Accepted

\* No turn has begun at first.
LEMMA InitCancelInv == Init => CancelInv
BY DEF Init, CancelInv, Accepted

\* Every step leaves the cancel event of a turn that has begun clear.
LEMMA CancelInvNext ==
  ASSUME TypeInv, TurnInv, OrderInv, WaitInv, RecordsInv, CancelInv, [Next]_vars
  PROVE  CancelInv'
<1>0. stage \in [Ids -> Stages] /\ Accepted \subseteq Ids /\ (\A w \in Ids \ Accepted : stage[w] = "new")
      /\ (\A w \in Accepted : w # None) /\ cancelEvt \in [Threads -> {"absent", "clear", "set"}]
      /\ \A w \in Accepted : Thread(w) \in Threads
  BY SubmittedIsId, TurnIsId, QueueTypes DEF TypeInv, StageInv, RegisterInv, None
<1>1. ASSUME NEW kind \in Kinds, NEW t \in Threads, Submit(kind, t) PROVE CancelInv'
  <2>1. UNCHANGED <<stage, cancelEvt>> /\ \A u \in Accepted : sub'[u] = sub[u]
    BY <1>1, SubmitWaits DEF Submit, taskVars
  <2>2. \A u \in Accepted' : Unfinished(u)' => u \in Accepted
    BY <1>0, <1>1, <2>1, SubmitWaits DEF Unfinished
  <2>. QED BY <2>1, <2>2 DEF CancelInv, Unfinished, IsTurn, Kind, Thread
<1>2. CASE NextEvent \/ Printing \/ UNCHANGED vars \/ StopStep
  <2>1. UNCHANGED <<sub, stage, cancelEvt>>
    BY <1>2, PrintingEffect DEF NextEvent, loopVars, taskVars, vars, StopStep, StopBegin, StopLoop, StopClose,
                CancelLoop
  <2>. QED BY <2>1 DEF CancelInv, Unfinished, Accepted, IsTurn, Kind, Thread
<1>3. ASSUME NEW w \in Ids, TaskStep(w) PROVE CancelInv'
  <2> SUFFICES ASSUME NEW u \in Accepted, IsTurn(u), Unfinished(u)', stage'[u] # "spawned"
               PROVE  cancelEvt'[Thread(u)] = "clear"
    BY <1>3, OthersStay DEF CancelInv, IsTurn, Kind, Thread
  <2>1. w \in Accepted /\ Unfinished(w) /\ \A v \in Ids \ {w} : stage'[v] = stage[v]
    BY <1>3, OthersStay
  <2>2. Unfinished(u) /\ u = active
    BY <1>0, <2>1 DEF TurnInv, Unfinished
  <2>3. CASE u = w
    BY <1>0, <1>3, <2>2, <2>3, TaskRegisters
       DEF RegistersTurn, RegistersCommand, GoesOn, EndsRegistered, NeverBegins, CancelInv, Unfinished,
           IsTurn, Ended
  <2>4. CASE u # w
    <3>1. ~IsTurn(w) /\ cancelEvt[Thread(u)] = "clear"
      BY <1>0, <2>1, <2>2, <2>4 DEF TurnInv, CancelInv
    <3>2. UNCHANGED cancelEvt
      BY <1>3, <3>1, TaskRegisters
         DEF RegistersTurn, RegistersCommand, GoesOn, EndsRegistered, NeverBegins, Release, IsTurn
    <3>. QED BY <3>1, <3>2
  <2>. QED BY <2>3, <2>4
<1>4. CASE LoopStep
  <2>1. sub' = sub /\ (UNCHANGED stage \/ \E w \in Accepted : Serves(w))
    BY <1>4, LoopServes DEF ServesNothing
  <2>2. \A u \in Accepted : Unfinished(u)' /\ stage'[u] # "spawned" => Unfinished(u) /\ stage[u] # "spawned"
    BY <1>0, <2>1 DEF Serves, Unfinished, Ended
  <2>3. loop \in {"top", "flush"} => \A u \in Accepted : IsTurn(u) => ~Unfinished(u)
    BY <1>0 DEF TurnInv
  <2>. QED BY <1>4, <2>1, <2>2, <2>3, LoopRegisters DEF CancelInv, Accepted, IsTurn, Kind, Thread
<1>. QED BY <1>1, <1>2, <1>3, <1>4 DEF Next, Printing

\* A cancel event that is set never reaches a turn: an abort finds the turn through its
\* task, or finds none.
THEOREM CancelEventsStayClear == Spec => []CancelEventStaysClear
<1> DEFINE Inv == TypeInv /\ TurnInv /\ OrderInv /\ WaitInv /\ RecordsInv /\ CancelInv
<1>1. Init => Inv
  BY InitTypeInv, InitTurnInv, InitOrderInv, InitWaitInv, InitRecordsInv, InitCancelInv
<1>2. Inv /\ [Next]_vars => Inv'
  BY TypeInvNext, TurnInvNext, OrderInvNext, WaitInvNext, RecordsInvNext, CancelInvNext
<1>3. Inv => CancelEventStaysClear
  BY DEF CancelInv, CancelEventStaysClear
<1> HIDE DEF Inv
<1>. QED BY <1>1, <1>2, <1>3, PTL DEF Spec

----------------------------------------------------------------------------
(* Stopping.                                                               *)

\* A stopped loop does nothing.
LEMMA StoppedLoopStops == LoopStep => loop # "stopped"
BY DEF LoopStep, TakeNext, GetSubmission, TurnEnded, Report, Reaped, Flush, GotWork, GotAbort,
       AbortReaped, AbortDone, AuxDone, AuxReport, LeaveLoop

\* The loop lets go of a task when that has ended.
LEMMA LoopKeepsTasks ==
  ASSUME TypeInv, TurnInv, LoopStep, NEW w \in Accepted, Unfinished(w), w = active \/ w \in aux
  PROVE  w = active' \/ w \in aux'
<1>0. w # None /\ stage[w] \notin Ended
  BY QueueTypes DEF None, Unfinished
<1>1. CASE TakeNext \/ GetSubmission \/ Reaped \/ AbortReaped \/ LeaveLoop \/ AuxReport
  BY <1>0, <1>1 DEF TakeNext, GetSubmission, Reaped, AbortReaped, LeaveLoop, AuxReport, AuxEnded, TurnInv
<1>2. CASE TurnEnded \/ Report \/ AbortDone
  BY <1>0, <1>2 DEF TurnEnded, Report, AbortDone
<1>3. CASE Flush \/ GotWork \/ GotAbort
  BY <1>3 DEF Flush, GotWork, GotAbort, SetAside
<1>4. ASSUME NEW v \in aux, AuxDone(v) PROVE w = active' \/ w \in aux'
  BY <1>0, <1>4 DEF AuxDone
<1>. QED BY <1>1, <1>2, <1>3, <1>4 DEF LoopStep

\* What the loop makes a task of it keeps, in the slot or beside it.
LEMMA LoopTakesTasks ==
  ASSUME TypeInv, OrderInv, LoopStep, NEW w \in Accepted, stage[w] = "new", stage'[w] = "spawned"
  PROVE  w = active' \/ w \in aux'
<1>0. stage \in [Ids -> Stages] /\ w \in Ids
  BY SubmittedIsId DEF TypeInv, StageInv
<1>1. CASE TakeNext
  BY <1>0, <1>1 DEF TakeNext, AbortIdle
<1>2. CASE Flush \/ GotWork \/ GotAbort
  BY <1>0, <1>2 DEF Flush, GotWork, GotAbort, SetAside, AbortIdle
<1>3. CASE ~(TakeNext \/ Flush \/ GotWork \/ GotAbort)
  <2>1. UNCHANGED stage
    BY <1>3 DEF LoopStep, GetSubmission, TurnEnded, Report, Reaped, AbortReaped, AbortDone, AuxDone,
                AuxReport, LeaveLoop, taskVars
  <2>. QED BY <2>1
<1>. QED BY <1>1, <1>2, <1>3

\* No task and no stop at first.
LEMMA InitStoppedInv == Init => StoppedInv
BY DEF Init, StoppedInv, Accepted

\* Every step keeps unfinished tasks with the loop, and what stop() has awaited ended.
LEMMA StoppedInvNext ==
  ASSUME TypeInv, TurnInv, OrderInv, WaitInv, StoppedInv, [Next]_vars
  PROVE  StoppedInv'
<1>0. stage \in [Ids -> Stages] /\ Accepted \subseteq Ids /\ (\A w \in Ids \ Accepted : stage[w] = "new")
      /\ (\A w \in Accepted : w # None) /\ doomed \subseteq Ids /\ active \in Accepted \cup {None}
  BY SubmittedIsId, QueueTypes DEF TypeInv, StageInv, StopInv, LoopInv, None
<1>1. ASSUME NEW kind \in Kinds, NEW t \in Threads, Submit(kind, t) PROVE StoppedInv'
  <2>1. UNCHANGED <<stage, active, aux, halt, doomed, loop>> /\ halt = "no"
    BY <1>1 DEF Submit, taskVars, stopVars
  <2>2. \A u \in Accepted' : Unfinished(u)' => u \in Accepted
    BY <1>0, <1>1, <2>1, SubmitWaits DEF Unfinished
  <2>. QED BY <2>1, <2>2 DEF StoppedInv, Unfinished
<1>2. CASE NextEvent \/ Printing \/ UNCHANGED vars
  <2>1. UNCHANGED <<sub, stage, active, aux, halt, doomed, loop>>
    BY <1>2, PrintingEffect DEF NextEvent, loopVars, taskVars, stopVars, vars
  <2>. QED BY <2>1 DEF StoppedInv, Unfinished, Accepted
<1>3. ASSUME NEW w \in Ids, TaskStep(w) PROVE StoppedInv'
  <2>1. /\ w \in Accepted /\ Unfinished(w) /\ \A u \in Ids \ {w} : stage'[u] = stage[u]
        /\ UNCHANGED <<sub, active, aux, halt, doomed, loop>> /\ Accepted' = Accepted
    BY <1>3, OthersStay DEF loopVars, stopVars
  <2>2. \A u \in Ids : stage[u] \in Ended => stage'[u] \in Ended
    BY <2>1 DEF Unfinished
  <2>3. \A u \in Accepted : Unfinished(u)' => Unfinished(u)
    BY <1>0, <2>1 DEF Unfinished
  <2>. QED BY <1>0, <2>1, <2>2, <2>3 DEF StoppedInv
<1>4. CASE LoopStep
  <2>1. sub' = sub /\ Accepted' = Accepted /\ (UNCHANGED stage \/ \E w \in Accepted : Serves(w))
    BY <1>4, LoopServes DEF ServesNothing, Accepted
  <2>2. halt' = halt /\ halt \notin {"await", "closed"}
    BY <1>4, StoppedLoopStops
       DEF StoppedInv, LoopStep, TakeNext, GetSubmission, TurnEnded, Report, Reaped, Flush, GotWork, GotAbort,
           AbortReaped, AbortDone, AuxDone, AuxReport, LeaveLoop, stopVars
  <2>3. ASSUME NEW u \in Accepted, Unfinished(u)' PROVE u = active' \/ u \in aux'
    <3>1. ASSUME NEW w \in Accepted, Serves(w)
          PROVE  stage'[u] = stage[u] \/ (stage[u] = "new" /\ stage'[u] = "spawned")
      <4>1. stage[w] = "new"
        BY <3>1 DEF Serves, WaitInv
      <4>2. \E s \in {"spawned", "ok"} : stage' = [stage EXCEPT ![w] = s]
        BY <3>1 DEF Serves
      <4>. QED BY <1>0, <2>3, <4>1, <4>2 DEF Unfinished, Ended
    <3>2. stage'[u] = stage[u] \/ (stage[u] = "new" /\ stage'[u] = "spawned")
      BY <2>1, <3>1
    <3>. QED BY <1>4, <2>3, <3>2, LoopKeepsTasks, LoopTakesTasks DEF StoppedInv, Unfinished
  <2>. QED BY <2>1, <2>2, <2>3 DEF StoppedInv
<1>5. CASE StopBegin
  <2>1. UNCHANGED <<sub, stage, active, aux>> /\ halt = "no" /\ doomed' = aux
        /\ (halt' = "reap" \/ (aux = {} /\ halt' = "await" /\ loop' = "stopped"))
    BY <1>5 DEF StopBegin, CancelLoop
  <2>. QED BY <2>1 DEF StoppedInv, Unfinished, Accepted
<1>6. CASE StopLoop
  <2>1. UNCHANGED <<sub, stage, active, doomed>> /\ aux' = aux \ doomed /\ AuxEnded(doomed)
        /\ halt' = "await" /\ loop' = "stopped"
    BY <1>6 DEF StopLoop, CancelLoop
  <2>. QED BY <2>1 DEF StoppedInv, Unfinished, Accepted, AuxEnded
<1>7. CASE StopClose
  <2>1. UNCHANGED <<sub, stage, active, doomed, aux, loop>> /\ halt = "await" /\ halt' = "closed"
        /\ (active # None => stage[active] \in Ended)
    BY <1>7 DEF StopClose, loopVars, taskVars
  <2>. QED BY <2>1 DEF StoppedInv, Unfinished, Accepted
<1>. QED BY <1>1, <1>2, <1>3, <1>4, <1>5, <1>6, <1>7 DEF Next, StopStep, Printing

\* When the stores are closed no turn runs, nor any shell command stop() knew of.
THEOREM StopLeavesNothing == Spec => []NothingOutlivesStop
<1> DEFINE Inv == TypeInv /\ TurnInv /\ OrderInv /\ WaitInv /\ StoppedInv
<1>1. Init => Inv
  BY InitTypeInv, InitTurnInv, InitOrderInv, InitWaitInv, InitStoppedInv
<1>2. Inv /\ [Next]_vars => Inv'
  BY TypeInvNext, TurnInvNext, OrderInvNext, WaitInvNext, StoppedInvNext
<1>3. Inv => NothingOutlivesStop
  BY QueueTypes DEF StoppedInv, NothingOutlivesStop, Unfinished, None
<1> HIDE DEF Inv
<1>. QED BY <1>1, <1>2, <1>3, PTL DEF Spec

----------------------------------------------------------------------------
(* Registration.                                                           *)

\* Nothing awaits, and nothing fails, between a turn's registration and its try
\* statement: only a resumed turn awaits there.
TriesAtOnce == "resume" \notin Kinds /\ "prepare" \notin Faults

\* No turn is registered at first.
LEMMA InitRegisteredInv == Init => RegisteredInv
BY DEF Init, RegisteredInv, Accepted

\* Every step keeps the registrations those of running turns.
LEMMA RegisteredInvNext ==
  ASSUME TriesAtOnce, TypeInv, TurnInv, OrderInv, WaitInv, RecordsInv, RegisteredInv, [Next]_vars
  PROVE  RegisteredInv'
<1>0. stage \in [Ids -> Stages] /\ Accepted \subseteq Ids /\ (\A w \in Ids \ Accepted : stage[w] = "new")
      /\ (\A w \in Accepted : w # None /\ Thread(w) \in Threads)
      /\ activeTurn \in [Threads -> Ids \cup {None}]
  BY SubmittedIsId, TurnIsId, QueueTypes DEF TypeInv, StageInv, RegisterInv, None
<1>1. ASSUME NEW kind \in Kinds, NEW t \in Threads, Submit(kind, t) PROVE RegisteredInv'
  <2>1. PICK w \in Ids : w = Len(sub) + 1
    BY <1>1, SubmitWaits
  <2>2. /\ UNCHANGED <<stage, activeTurn>> /\ \A u \in Accepted : sub'[u] = sub[u]
        /\ Accepted' = Accepted \cup {w} /\ w \notin Accepted
    BY <1>1, <2>1, SubmitWaits DEF Submit, taskVars
  <2>3. sub'[w].kind = kind /\ stage[w] = "new"
    <3>1. sub \in Seq(Submissions) /\ Len(sub) \in Nat
      BY DEF TypeInv, LoopInv
    <3>2. sub'[w] = [kind |-> kind, thread |-> t, turn |-> IF kind = "attached" THEN activeTurn[t] ELSE w]
      BY <1>1, <2>1, <3>1 DEF Submit
    <3>. QED BY <1>0, <2>2, <3>2
  <2>4. \A u \in Accepted' : Kind(u)' # "resume" /\ stage'[u] # "prepare"
    BY <2>2, <2>3 DEF RegisteredInv, TriesAtOnce, Kind
  <2>. QED BY <1>0, <2>2, <2>4 DEF RegisteredInv, Unfinished, Kind, Thread
<1>2. CASE NextEvent \/ Printing \/ UNCHANGED vars \/ StopStep
  <2>1. UNCHANGED <<sub, stage, activeTurn>>
    BY <1>2, PrintingEffect DEF NextEvent, loopVars, taskVars, vars, StopStep, StopBegin, StopLoop, StopClose,
                CancelLoop
  <2>. QED BY <2>1 DEF RegisteredInv, Unfinished, Accepted, Kind, Thread
<1>3. ASSUME NEW w \in Ids, TaskStep(w) PROVE RegisteredInv'
  <2>1. /\ w \in Accepted /\ Unfinished(w) /\ \A u \in Ids \ {w} : stage'[u] = stage[u]
        /\ sub' = sub /\ Accepted' = Accepted
    BY <1>3, OthersStay
  <2>2. \A u \in Accepted : Kind(u)' = Kind(u) /\ Thread(u)' = Thread(u)
    BY <2>1 DEF Kind, Thread
  <2>3. stage'[w] \notin {"prepare", "spawned"} /\ Kind(w) # "resume"
    BY <1>3, <2>1, TaskRegisters
       DEF RegistersTurn, RegistersCommand, GoesOn, EndsRegistered, NeverBegins, RegisteredInv, Ended
  <2>4. ASSUME NEW t \in Threads, activeTurn'[t] # None
        PROVE  /\ activeTurn'[t] \in Accepted /\ Thread(activeTurn'[t]) = t
               /\ stage'[activeTurn'[t]] \notin Ended \cup {"new", "spawned"}
               /\ Kind(activeTurn'[t]) \in {"user", "shell"}
    <3>1. CASE RegistersTurn(w) \/ RegistersCommand(w)
      <4>1. /\ activeTurn' = [activeTurn EXCEPT ![Thread(w)] = w] /\ Kind(w) \in {"user", "shell"}
            /\ stage'[w] \notin Ended \cup {"new", "spawned"}
        <5>1. stage'[w] # "new"
          BY <1>0, <1>3, <2>1, TaskStepEffect DEF TaskEffect, Begun
        <5>. QED BY <2>3, <3>1, <5>1 DEF RegistersTurn, RegistersCommand, TriesAtOnce, IsTurn, Ended
      <4>. QED BY <1>0, <2>1, <2>4, <4>1 DEF RegisteredInv, Unfinished
    <3>2. CASE GoesOn(w) \/ NeverBegins(w)
      <4>1. UNCHANGED activeTurn
        BY <3>2 DEF GoesOn, NeverBegins
      <4>2. activeTurn[t] = w => stage'[w] \notin Ended \cup {"new", "spawned"}
        <5>1. stage'[w] # "new"
          BY <1>0, <1>3, <2>1, TaskStepEffect DEF TaskEffect, Begun
        <5>2. activeTurn[t] = w => stage[w] \notin {"spawned", "prepare"}
          BY <2>1, <2>4, <4>1 DEF RegisteredInv
        <5>. QED BY <3>2, <5>1, <5>2 DEF GoesOn, NeverBegins
      <4>. QED BY <1>0, <2>1, <2>4, <4>1, <4>2 DEF RegisteredInv, Unfinished
    <3>3. CASE EndsRegistered(w)
      <4>1. activeTurn'[t] = activeTurn[t] /\ activeTurn[t] # w
        <5>1. activeTurn' \in {activeTurn, [activeTurn EXCEPT ![Thread(w)] = None]}
          BY <3>3 DEF EndsRegistered, Release
        <5>2. activeTurn'[t] = activeTurn[t]
          BY <1>0, <2>4, <5>1
        <5>3. CASE activeTurn[t] = w
          <6>1. Thread(w) = t /\ Kind(w) \in {"user", "shell"}
            BY <2>4, <5>2, <5>3 DEF RegisteredInv
          <6>2. activeTurn'[t] = None
            BY <1>0, <3>3, <5>3, <6>1 DEF EndsRegistered, Release
          <6>. QED BY <2>4, <6>2
        <5>. QED BY <5>2, <5>3
      <4>. QED BY <1>0, <2>1, <2>4, <4>1 DEF RegisteredInv, Unfinished
    <3>. QED BY <1>3, <3>1, <3>2, <3>3, TaskRegisters
  <2>5. \A t \in Threads : activeTurn'[t] # None =>
          /\ activeTurn'[t] \in Accepted' /\ Thread(activeTurn[t])' = t
          /\ Unfinished(activeTurn[t])' /\ stage'[activeTurn'[t]] # "spawned"
          /\ Kind(activeTurn[t])' \in {"user", "shell"}
    BY <2>1, <2>4 DEF Unfinished, Kind, Thread
  <2>6. \A u \in Accepted' : Kind(u)' # "resume" /\ stage'[u] # "prepare"
    BY <1>0, <2>1, <2>2, <2>3 DEF RegisteredInv
  <2>. QED BY <2>5, <2>6 DEF RegisteredInv
<1>4. CASE LoopStep
  <2>1. sub' = sub /\ Accepted' = Accepted /\ UNCHANGED activeTurn
        /\ (UNCHANGED stage \/ \E w \in Accepted : Serves(w))
    BY <1>4, LoopServes, LoopRegisters DEF ServesNothing, Accepted
  <2>2. \A u \in Accepted : /\ stage'[u] # stage[u] => stage[u] = "new" /\ stage'[u] \in {"spawned", "ok"}
    <3>1. ASSUME NEW w \in Accepted, Serves(w)
          PROVE  stage[w] = "new" /\ \E s \in {"spawned", "ok"} : stage' = [stage EXCEPT ![w] = s]
      BY <3>1 DEF Serves, WaitInv
    <3>. QED BY <1>0, <2>1, <3>1
  <2>. QED BY <1>0, <2>1, <2>2 DEF RegisteredInv, Unfinished, Kind, Thread
<1>. QED BY <1>1, <1>2, <1>3, <1>4 DEF Next, Printing

\* A thread is locked by no turn that has ended, as long as no turn is resumed and
\* nothing fails while a turn's prompt is put together: cancelled, failing and
\* overlapping turns, commands and stops all remove the registration.
THEOREM RegisteredTurnsRun == TriesAtOnce /\ Spec => []RegisteredTurnRuns
<1> SUFFICES ASSUME TriesAtOnce PROVE Spec => []RegisteredTurnRuns
  OBVIOUS
<1> DEFINE Inv == TypeInv /\ TurnInv /\ OrderInv /\ WaitInv /\ RecordsInv /\ RegisteredInv
<1>1. Init => Inv
  BY InitTypeInv, InitTurnInv, InitOrderInv, InitWaitInv, InitRecordsInv, InitRegisteredInv
<1>2. Inv /\ [Next]_vars => Inv'
  BY TypeInvNext, TurnInvNext, OrderInvNext, WaitInvNext, RecordsInvNext, RegisteredInvNext
<1>3. Inv => RegisteredTurnRuns
  BY DEF RegisteredInv, RegisteredTurnRuns
<1> HIDE DEF Inv
<1>. QED BY <1>1, <1>2, <1>3, PTL DEF Spec
=============================================================================
