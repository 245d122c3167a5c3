--------------------------- MODULE Services_proof ---------------------------
(***************************************************************************)
(* Proofs about the services beside the sessions, one section for each:    *)
(* they share no state, and every section is about the specification of    *)
(* its own module, for all values of that module's constants.              *)
(***************************************************************************)
EXTENDS TurnSlots, UserInputGate, CronService, WorkbenchProcesses, AgentJobs,
        SessionRegistry, GatewayClient, TLAPS, FiniteSetTheorems, SequenceTheorems

----------------------------------------------------------------------------
(* TurnSlots: every slot has an owner, for any number of threads and requests. *)

\* What the steps of handlers and drains rely on: the turns that have one are
\* turns that were started, and none has both.
OwnersAreTurns ==
  /\ threadOf \in Seq(SlotThreads)
  /\ reserved \in [SlotThreads -> Nat]
  /\ handlers \subseteq Turns /\ drains \subseteq Turns
  /\ handlers \cap drains = {}

SlotsInv == OwnersAreTurns /\ SlotHasOwner

\* No slot is reserved at first.
LEMMA SlotsInitially == SlotsInit => SlotsInv
BY DEF SlotsInit, SlotsInv, OwnersAreTurns, SlotHasOwner, Turns

\* A turn with a handler or a drain that gives up the slot of its thread takes
\* it from itself.
LEMMA OwnerReleases ==
  ASSUME SlotsInv, NEW u \in handlers \cup drains,
         ReleaseSlot(u), threadOf' = threadOf,
         (handlers \cup drains)' = (handlers \cup drains) \ {u},
         handlers' \subseteq handlers, drains' \subseteq drains
  PROVE  SlotsInv'
<1>1. u \in Turns /\ threadOf[u] \in SlotThreads
  BY DEF SlotsInv, OwnersAreTurns, Turns
<1>2. OwnersAreTurns'
  BY <1>1 DEF SlotsInv, OwnersAreTurns, ReleaseSlot, Turns
<1>3. \A v \in (handlers \cup drains)' : threadOf[v] # threadOf[u] /\ threadOf[v] \in SlotThreads
  BY DEF SlotsInv, OwnersAreTurns, SlotHasOwner, Turns
<1>4. SlotHasOwner'
  BY <1>1, <1>3 DEF SlotsInv, OwnersAreTurns, SlotHasOwner, ReleaseSlot, Turns
<1>. QED BY <1>2, <1>4 DEF SlotsInv

\* A slot that is free has no owner that will free it.
LEMMA SlotTaken == ASSUME SlotsInv, NEW t \in SlotThreads, TurnStart(t) PROVE SlotsInv'
<1>. DEFINE n == Len(threadOf) + 1
<1>1. /\ n \in Nat \ {0} /\ n \notin Turns
      /\ Turns' = Turns \cup {n}
      /\ threadOf' \in Seq(SlotThreads)
      /\ threadOf'[n] = t
      /\ \A u \in Turns : threadOf'[u] = threadOf[u] /\ threadOf[u] \in SlotThreads
  BY DEF SlotsInv, OwnersAreTurns, TurnStart, Turns
<1>2. reserved' = [reserved EXCEPT ![t] = n] /\ handlers' = handlers \cup {n} /\ drains' = drains
  BY DEF TurnStart
<1>. HIDE DEF n
<1>3. OwnersAreTurns'
  BY <1>1, <1>2 DEF SlotsInv, OwnersAreTurns
<1>4. \A u \in handlers \cup drains : threadOf[u] # t
  BY DEF SlotsInv, SlotHasOwner, OwnersAreTurns, TurnStart, SlotFree, Turns
<1>5. SlotHasOwner'
  <2>1. /\ reserved \in [SlotThreads -> Nat]
        /\ handlers \cup drains \subseteq Turns
        /\ SlotHasOwner
    BY DEF SlotsInv, OwnersAreTurns
  <2>2. ASSUME NEW s \in SlotThreads, reserved'[s] # 0
        PROVE  reserved'[s] \in handlers' \cup drains' /\ threadOf'[reserved'[s]] = s
    <3>1. CASE s = t
      BY <1>1, <1>2, <2>1, <3>1
    <3>2. CASE s # t
      BY <1>1, <1>2, <2>1, <2>2, <3>2 DEF SlotHasOwner
    <3>. QED BY <3>1, <3>2
  <2>3. ASSUME NEW u \in handlers' \cup drains'
        PROVE  reserved'[threadOf'[u]] = u
    BY <1>1, <1>2, <1>4, <2>1, <2>3 DEF SlotHasOwner
  <2>. QED BY <2>2, <2>3 DEF SlotHasOwner
<1>. QED BY <1>3, <1>5 DEF SlotsInv

\* Reservations, releases and the ends of drains keep the owners of the slots.
LEMMA SlotsStep == SlotsInv /\ [SlotsNext]_slotsVars => SlotsInv'
<1>. SUFFICES ASSUME SlotsInv, [SlotsNext]_slotsVars PROVE SlotsInv'
  OBVIOUS
<1>1. ASSUME NEW t \in SlotThreads, TurnStart(t) PROVE SlotsInv'
  BY <1>1, SlotTaken
<1>2. ASSUME NEW u \in Turns, StartSubmits(u) PROVE SlotsInv'
  BY <1>2 DEF StartSubmits, SlotsInv, OwnersAreTurns, SlotHasOwner, Turns
<1>3. ASSUME NEW u \in Turns, StartFails(u) PROVE SlotsInv'
  BY <1>3, OwnerReleases DEF StartFails, SlotsInv, OwnersAreTurns
<1>4. ASSUME NEW u \in Turns, DrainEnds(u) PROVE SlotsInv'
  BY <1>4, OwnerReleases DEF DrainEnds, SlotsInv, OwnersAreTurns
<1>5. ASSUME NEW u \in Turns, DrainTimesOut(u) PROVE SlotsInv'
  BY <1>5, OwnerReleases DEF DrainTimesOut, SlotsInv, OwnersAreTurns
<1>6. CASE LoopStep
  BY <1>6 DEF LoopStep, TurnBegins, TurnAnnounces, TurnClears, SlotsInv, OwnersAreTurns,
              SlotHasOwner, Turns
<1>7. CASE UNCHANGED slotsVars
  BY <1>7 DEF slotsVars, SlotsInv, OwnersAreTurns, SlotHasOwner, Turns
<1>. QED
  BY <1>1, <1>2, <1>3, <1>4, <1>5, <1>6, <1>7 DEF SlotsNext, StartStep, DrainStep

\* No slot is leaked or freed by another: whatever handlers and drains of all
\* threads do, a slot is reserved exactly while its own turn will free it.
THEOREM SlotsHaveOwners == SlotsSpec => []SlotHasOwner
<1>1. SlotsInv => SlotHasOwner
  BY DEF SlotsInv
<1>. QED BY SlotsInitially, SlotsStep, <1>1, PTL DEF SlotsSpec

----------------------------------------------------------------------------
(* UserInputGate: the cards of a turn, for any number of them and of slots. *)

CardStages == {"new", "queued", "announcing", "shown", "expired", "submitted", "cancelled",
           "aborted"}

Engaged == {c \in Cards : card[c] \in {"queued", "announcing", "shown", "expired"}}

\* Every call that has a reference to a slot object in use has it to the entry
\* of the turn: the entry is not dropped while somebody waits for it.
OneCardSlot ==
  /\ \A c \in Engaged : slotOf[c] = entry /\ entry # 0
  /\ \A c \in Holders : slotOf[c] \in held

GateFunctions ==
  /\ card \in [Cards -> CardStages] /\ slotOf \in [Cards -> Nat]
  /\ entry \in Nat /\ slotsMade \in Nat
  /\ resolution \in [Cards -> {"none", "submitted", "cancelled"}]

CardSlotInv == GateFunctions /\ OneCardSlot /\ OneCard

\* What the answers rely on: a card can be answered while its call is on, or
\* was aborted as it was announced, and keeps the answer.
CardAnswerInv ==
  /\ GateFunctions
  /\ pending \subseteq {c \in Cards : card[c] \in {"announcing", "shown", "expired", "aborted"}}
  /\ \A c \in accepted :
       c \in Cards /\ resolution[c] = "submitted" /\ card[c] \notin {"cancelled", "queued", "new"}

\* No card is shown and none was answered at first.
LEMMA GateInitially == GateInit => CardSlotInv /\ CardAnswerInv
BY DEF CardStages, GateInit, CardSlotInv, CardAnswerInv, GateFunctions, OneCardSlot, OneCard, Engaged, Holders

\* The holder that gives up its slot leaves nobody with a slot that was dropped.
LEMMA HolderLeaves ==
  ASSUME CardSlotInv, NEW c \in Holders, NEW stage \in CardStages, SetCard(c, stage),
         stage \notin {"queued", "announcing", "shown", "expired"},
         LeaveSlot(c), slotOf' = slotOf
  PROVE  OneCardSlot' /\ OneCard' /\ entry' \in Nat
<1>1. \A d \in Cards : d # c => card'[d] = card[d] /\ d \notin Holders
  BY DEF CardSlotInv, OneCard, Holders, SetCard, GateFunctions
<1>2. card'[c] = stage
  BY DEF SetCard, CardSlotInv, GateFunctions, Holders
<1>3. Holders' = {}
  BY <1>1, <1>2 DEF Holders
<1>4. \A d \in Engaged' : d # c /\ d \in Waiters(slotOf[c]) /\ slotOf[d] = entry /\ entry # 0
  BY <1>1, <1>2 DEF Engaged, Holders, Waiters, CardSlotInv, OneCardSlot
<1>5. Engaged' # {} => ~IdleWithout(slotOf[c], c)
  BY <1>4 DEF IdleWithout
<1>. QED
  BY <1>3, <1>4, <1>5 DEF LeaveSlot, OneCardSlot, OneCard, CardSlotInv, GateFunctions

\* Whoever asks, shows, answers, expires or is cancelled keeps the cards to their slot.
LEMMA CardSlotStep == CardSlotInv /\ [GateNext]_gateVars => CardSlotInv'
<1>. SUFFICES ASSUME CardSlotInv, [GateNext]_gateVars PROVE CardSlotInv'
  OBVIOUS
<1>. USE DEF CardSlotInv, GateFunctions, CardStages
<1>1. ASSUME NEW c \in Cards, AskCard(c) PROVE CardSlotInv'
  <2>. DEFINE s == IF entry # 0 THEN entry ELSE slotsMade + 1
  <2>1. s \in Nat \ {0} /\ entry' = s /\ slotsMade' \in Nat /\ (Engaged # {} => s = entry)
    BY <1>1 DEF AskCard, OneCardSlot
  <2>2. /\ slotOf' = [slotOf EXCEPT ![c] = s]
        /\ \A d \in Cards : d # c => card'[d] = card[d] /\ slotOf'[d] = slotOf[d]
        /\ card' \in [Cards -> CardStages] /\ resolution' = resolution
        /\ held \subseteq held'
    BY <1>1, <2>1 DEF AskCard, SetCard
  <2>3. \/ card'[c] = "queued"
        \/ card'[c] = "announcing" /\ s \notin held /\ s \in held'
    BY <1>1 DEF AskCard, SetCard
  <2>. HIDE DEF s
  <2>4. \A d \in Engaged' : slotOf'[d] = s
    BY <2>1, <2>2 DEF Engaged, OneCardSlot
  <2>5. \A d \in Holders' : d \in Holders \/ (d = c /\ card'[c] = "announcing")
    BY <2>2, <2>3 DEF Holders
  <2>6. Holders \subseteq Engaged
    BY DEF Holders, Engaged
  <2>7. \A d \in Holders : d # c
    BY <1>1 DEF Holders, AskCard
  <2>8. card'[c] = "announcing" => Holders = {}
    BY <2>1, <2>3, <2>6 DEF OneCardSlot
  <2>9. OneCard'
    BY <2>5, <2>8 DEF OneCard
  <2>10. OneCardSlot'
    <3>1. ASSUME NEW d \in Holders' PROVE slotOf'[d] \in held'
      BY <2>2, <2>3, <2>5, <2>7, <3>1 DEF OneCardSlot, Holders
    <3>. QED BY <2>1, <2>4, <3>1 DEF OneCardSlot
  <2>. QED BY <2>1, <2>2, <2>9, <2>10
<1>2. ASSUME NEW c \in Cards, TakeSlot(c) PROVE CardSlotInv'
  <2>1. Holders = {}
    BY <1>2 DEF TakeSlot, OneCardSlot, Holders, Engaged
  <2>2. Engaged' = Engaged /\ Holders' = {c}
    BY <1>2, <2>1 DEF TakeSlot, Engaged, Holders, SetCard
  <2>. QED BY <1>2, <2>2 DEF TakeSlot, OneCardSlot, OneCard, SetCard
<1>3. ASSUME NEW c \in Cards, CardShown(c) \/ CardExpires(c) PROVE CardSlotInv'
  <2>1. Engaged' = Engaged /\ Holders' = Holders
    BY <1>3 DEF CardShown, CardExpires, Engaged, Holders, SetCard
  <2>. QED BY <1>3, <2>1 DEF CardShown, CardExpires, OneCardSlot, OneCard, SetCard
<1>4. ASSUME NEW c \in Cards, CardReturns(c) PROVE CardSlotInv'
  BY <1>4, HolderLeaves DEF CardReturns, Holders, SetCard
<1>5. ASSUME NEW c \in Cards, CardExpired(c) PROVE CardSlotInv'
  BY <1>5, HolderLeaves DEF CardExpired, OutcomeAfterTimeout, Holders, SetCard
<1>6. ASSUME NEW c \in Cards, CancelQueued(c) PROVE CardSlotInv'
  <2>1. Engaged' \subseteq Engaged /\ Holders' = Holders
    BY <1>6 DEF CancelQueued, Engaged, Holders, SetCard
  <2>. QED BY <1>6, <2>1 DEF CancelQueued, OneCardSlot, OneCard, SetCard
<1>7. ASSUME NEW c \in Cards, CancelCard(c) PROVE CardSlotInv'
  BY <1>7, HolderLeaves DEF CancelCard, Holders, SetCard
<1>8. CASE \/ \E c \in Cards : AnswerCard(c)
           \/ UNCHANGED gateVars
  BY <1>8 DEF AnswerCard, gateVars, OneCardSlot, OneCard, Engaged, Holders
<1>. QED
  BY <1>1, <1>2, <1>3, <1>4, <1>5, <1>6, <1>7, <1>8 DEF GateNext, CardStep

\* No step of the gate takes back an answer that was accepted.
LEMMA CardAnswerStep == CardAnswerInv /\ CardSlotInv' /\ [GateNext]_gateVars => CardAnswerInv'
<1>. SUFFICES ASSUME CardAnswerInv, CardSlotInv', [GateNext]_gateVars PROVE CardAnswerInv'
  OBVIOUS
<1>. USE DEF CardAnswerInv, GateFunctions, CardStages
<1>1. GateFunctions'
  BY DEF CardSlotInv
<1>2. ASSUME NEW c \in Cards, AskCard(c) PROVE CardAnswerInv'
  BY <1>1, <1>2 DEF AskCard, SetCard
<1>3. ASSUME NEW c \in Cards, TakeSlot(c) \/ CardShown(c) \/ CardExpires(c) PROVE CardAnswerInv'
  BY <1>1, <1>3 DEF TakeSlot, CardShown, CardExpires, SetCard
<1>4. ASSUME NEW c \in Cards, CardReturns(c) \/ CardExpired(c) PROVE CardAnswerInv'
  BY <1>1, <1>4 DEF CardReturns, CardExpired, OutcomeAfterTimeout, SetCard
<1>5. ASSUME NEW c \in Cards, CancelQueued(c) \/ CancelCard(c) PROVE CardAnswerInv'
  BY <1>1, <1>5 DEF CancelQueued, CancelCard, SetCard
<1>6. ASSUME NEW c \in Cards, AnswerCard(c) PROVE CardAnswerInv'
  BY <1>1, <1>6 DEF AnswerCard
<1>7. CASE UNCHANGED gateVars
  BY <1>7 DEF gateVars
<1>. QED
  BY <1>2, <1>3, <1>4, <1>5, <1>6, <1>7 DEF GateNext, CardStep

\* The slot serializes the cards of a turn although it is dropped and made again
\* between the steps of its waiters.
THEOREM OneCardAtATime == GateSpec => []OneCard
<1>1. CardSlotInv => OneCard
  BY DEF CardSlotInv
<1>. QED BY GateInitially, CardSlotStep, <1>1, PTL DEF GateSpec

\* No timeout and no waiter overrides an answer that was taken.
THEOREM AnswersAreKept == GateSpec => []AnswerKept
<1>1. CardAnswerInv => AnswerKept
  BY DEF CardAnswerInv, AnswerKept
<1>. QED BY GateInitially, CardSlotStep, CardAnswerStep, <1>1, PTL DEF GateSpec

----------------------------------------------------------------------------
(* CronService: one-shot jobs, for any number of edits, restarts and ticks. *)

CronTypes ==
  /\ nextRun \in [CronJobs -> {"none", "later", "due"}]
  /\ runs \in [CronJobs -> Nat]
  /\ dueJobs \subseteq CronJobs /\ executing \subseteq CronJobs

\* Jobs are executed one at a time, in a tick.
OneTick ==
  /\ dueJobs \cup executing # {} => timer = "ticks"
  /\ \A j, k \in executing : j = k

\* The time of a one-shot tells whether it may still be started: a time to come
\* has not passed, and a time that has passed was not computed from the file but
\* kept from before.
ShotsAreTimed ==
  \A j \in OneShots :
    /\ nextRun[j] = "later" => j \notin passed /\ runs[j] = 0
    /\ nextRun[j] = "due" => j \in passed /\ (runs[j] = 0 \/ j \in executing)
    /\ j \in dueJobs => runs[j] = 0 /\ j \in passed
    /\ runs[j] # 0 => runs[j] = 1 /\ j \in passed

CronInv == CronTypes /\ OneTick /\ ShotsAreTimed

\* No job has run at first.
LEMMA CronInitially == CronInit => CronInv
BY CronAssumption DEF CronInit, CronInv, CronTypes, OneTick, ShotsAreTimed

\* Ticks, edits of the file, saves, saves that fail and restarts never arm a one-shot job that has run.
LEMMA CronInvStep == CronInv /\ [CronNext]_cronVars => CronInv'
<1>. SUFFICES ASSUME CronInv, [CronNext]_cronVars PROVE CronInv'
  OBVIOUS
<1>. USE CronAssumption DEF CronInv, CronTypes
<1>1. CASE CronStart
  <2>1. dueJobs = {} /\ executing = {}
    BY <1>1 DEF CronStart, OneTick
  <2>2. \A j \in CronJobs : nextRun'[j] \in {"none", "later"} /\ (nextRun'[j] = "later" => j \notin passed)
    BY <1>1 DEF CronStart, ComputeNextRun
  <2>3. nextRun' \in [CronJobs -> {"none", "later", "due"}]
    BY <1>1 DEF CronStart, ComputeNextRun
  <2>. QED BY <1>1, <2>1, <2>2, <2>3 DEF CronStart, OneTick, ShotsAreTimed
<1>2. ASSUME NEW j \in CronJobs, BecomesDue(j) PROVE CronInv'
  BY <1>2 DEF BecomesDue, OneTick, ShotsAreTimed
<1>3. CASE Tick
  <2>1. executing = {} /\ dueJobs = {}
    BY <1>3 DEF Tick, OneTick
  <2>. QED BY <1>3, <2>1 DEF Tick, OneTick, ShotsAreTimed
<1>4. ASSUME NEW j \in CronJobs, Execute(j) PROVE CronInv'
  BY <1>4 DEF Execute, OneTick, ShotsAreTimed
<1>5. ASSUME NEW j \in CronJobs, Executed(j) PROVE CronInv'
  <2>1. /\ executing = {j} /\ executing' = {} /\ timer = "ticks"
        /\ \A k \in CronJobs : k # j => nextRun'[k] = nextRun[k]
        /\ nextRun'[j] \in {"none", "later"}
        /\ j \in OneShots => nextRun'[j] = "none"
        /\ nextRun' \in [CronJobs -> {"none", "later", "due"}]
    BY <1>5 DEF Executed, OneTick, ComputeNextRun
  <2>. QED BY <1>5, <2>1 DEF Executed, OneTick, ShotsAreTimed
<1>6. CASE TickEnds
  BY <1>6 DEF TickEnds, OneTick, ShotsAreTimed
<1>7. CASE Dies
  BY <1>7 DEF Dies, OneTick, ShotsAreTimed
<1>8. ASSUME NEW j \in CronJobs, \E copy \in {"absent", "off", "on"} : Edit(j, copy)
      PROVE  CronInv'
  BY <1>8 DEF Edit, OneTick, ShotsAreTimed
<1>9. CASE CronStartFails \/ TickDies
  BY <1>9 DEF CronStartFails, TickDies, OneTick, ShotsAreTimed
<1>10. CASE UNCHANGED cronVars
  BY <1>10 DEF cronVars, OneTick, ShotsAreTimed
<1>. QED
  BY <1>1, <1>2, <1>3, <1>4, <1>5, <1>6, <1>7, <1>8, <1>9, <1>10 DEF CronNext, CronStep

\* A restart of the gateway, or a copy of the job that is written back or enabled
\* after its time, does not start it again.
THEOREM OneShotsRunOnce == CronSpec => []OneShotRunsOnce
<1>1. CronInv => OneShotRunsOnce
  BY CronAssumption DEF CronInv, CronTypes, ShotsAreTimed, OneShotRunsOnce
<1>. QED BY CronInitially, CronInvStep, <1>1, PTL DEF CronSpec

----------------------------------------------------------------------------
(* WorkbenchProcesses: processes, for any number of handles.              *)

ProcTypes ==
  /\ handles \in [Handles -> ProcIds \cup {0}]
  /\ handleOf \in Seq(Handles) /\ Len(handleOf) <= MaxProcs
  /\ alive \subseteq Spawned
  /\ runner \in [ProcIds -> {"none", "waits", "telling", "done"}]
  /\ starting \subseteq Handles
  /\ recorded \in [ProcIds -> {0, 1}]

\* A spawn is let in while there is a number left, and numbers are given in order.
Numbered ==
  /\ starting # {} => NewProc \in ProcIds
  /\ \A p \in ProcIds : runner[p] # "none" => p \in Spawned

\* A runner has waited for its process; the history has it then.
RunnersWaited ==
  \A p \in ProcIds :
    runner[p] \in {"telling", "done"} => p \notin alive /\ recorded[p] = 1

\* While a process is being started under a handle, the lock keeps every entry
\* from being removed, and no other is made.
HandleKept ==
  /\ \A h, g \in starting : h = g
  /\ \A h \in starting : handles[h] = 0

WorkInv == ProcTypes /\ Numbered /\ RunnersWaited /\ HandleKept /\ LiveIsListed

\* Processes that were spawned are numbered.
LEMMA SpawnedAreIds ==
  ASSUME ProcTypes
  PROVE  /\ Spawned \subseteq ProcIds /\ 0 \notin ProcIds
         /\ NewProc \notin Spawned
         /\ \A p \in Spawned : handleOf[p] \in Handles
BY ProcAssumption DEF ProcTypes, Spawned, ProcIds, NewProc

\* No process runs at first.
LEMMA WorkInitially == ProcInit => WorkInv
<1>. SUFFICES ASSUME ProcInit PROVE WorkInv
  OBVIOUS
<1>1. ProcTypes
  BY ProcAssumption DEF ProcInit, ProcTypes, Spawned
<1>. QED
  BY <1>1 DEF ProcInit, WorkInv, Numbered, RunnersWaited, HandleKept, LiveIsListed

\* The spawn that ends finds its handle free still.
LEMMA SpawnKeeps ==
  ASSUME WorkInv, NEW h \in Handles, ProcSpawned(h)
  PROVE  WorkInv'
<1>. DEFINE n == NewProc
<1>. USE DEF WorkInv
<1>1. /\ h \in starting /\ handles[h] = 0 /\ starting' = {}
      /\ handles' = [handles EXCEPT ![h] = n]
      /\ handleOf' = Append(handleOf, h)
      /\ alive' = alive \cup {n}
      /\ runner' = [runner EXCEPT ![n] = "waits"]
      /\ recorded' = recorded /\ dropped' = dropped
  BY DEF ProcSpawned, HandleKept
<1>2. /\ Spawned' = Spawned \cup {n} /\ handleOf'[n] = h
      /\ \A p \in Spawned : p # n /\ handleOf'[p] = handleOf[p] /\ handleOf[p] \in Handles
      /\ handleOf' \in Seq(Handles) /\ Len(handleOf') <= MaxProcs
  BY <1>1, ProcAssumption DEF Numbered, ProcTypes, Spawned, NewProc, ProcIds
<1>3. Spawned \subseteq ProcIds /\ 0 \notin ProcIds
  BY SpawnedAreIds
<1>. HIDE DEF n
<1>4. n \in ProcIds
  BY <1>1 DEF n, Numbered
<1>5. ProcTypes'
  BY <1>1, <1>2, <1>4 DEF ProcTypes, Spawned
<1>6. RunnersWaited' /\ Numbered'
  BY <1>1, <1>2, <1>4 DEF RunnersWaited, Numbered, ProcTypes
<1>7. HandleKept'
  BY <1>1 DEF HandleKept
<1>8. LiveIsListed'
  <2>1. handles'[h] = n
    BY <1>1 DEF ProcTypes
  <2>2. ASSUME NEW p \in alive, p \notin dropped PROVE handles'[handleOf'[p]] = p
    <3>1. p \in Spawned /\ handles[handleOf[p]] = p /\ p # 0
      BY <2>2, <1>3 DEF LiveIsListed, ProcTypes
    <3>2. handleOf'[p] = handleOf[p] /\ handleOf[p] # h /\ handleOf[p] \in Handles
      BY <3>1, <1>1, <1>2
    <3>. QED BY <3>1, <3>2, <1>1 DEF ProcTypes
  <2>. QED BY <1>1, <1>2, <2>1, <2>2 DEF LiveIsListed
<1>. QED BY <1>5, <1>6, <1>7, <1>8

\* The runner that ends removes its own entry, or notes the one it dropped.
LEMMA RunnerKeeps ==
  ASSUME WorkInv, NEW p \in ProcIds, RunnerStep(p)
  PROVE  WorkInv'
<1>. USE DEF WorkInv
<1>1. CASE RunnerRecords(p)
  BY <1>1 DEF RunnerRecords, Record, ProcTypes, Numbered, RunnersWaited, HandleKept, LiveIsListed,
        Spawned, NewProc
<1>2. CASE RunnerEnds(p)
  <2>. DEFINE h == handleOf[p]
  <2>1. p \in Spawned
    BY <1>2 DEF RunnerEnds, Numbered
  <2>2. /\ h \in Handles /\ p \notin alive /\ recorded[p] = 1 /\ starting = {}
        /\ handles' = [handles EXCEPT ![h] = 0]
        /\ dropped' = dropped \cup ({handles[h]} \ {0, p})
        /\ runner' = [runner EXCEPT ![p] = "done"]
        /\ UNCHANGED <<handleOf, alive, starting, recorded>>
    BY <1>2, <2>1, SpawnedAreIds DEF RunnerEnds, RunnersWaited
  <2>. HIDE DEF h
  <2>3. ProcTypes'
    BY <2>2 DEF ProcTypes, Spawned
  <2>4. RunnersWaited' /\ HandleKept' /\ Numbered'
    BY <2>1, <2>2 DEF ProcTypes, RunnersWaited, HandleKept, Numbered, Spawned, NewProc
  <2>5. LiveIsListed'
    <3>1. ASSUME NEW q \in alive, q \notin dropped' PROVE handles'[handleOf[q]] = q
      <4>1. /\ handleOf[q] \in Handles /\ q # 0 /\ q # p
            /\ handles[handleOf[q]] = q
        BY <2>2, <3>1, SpawnedAreIds DEF LiveIsListed, ProcTypes
      <4>2. handleOf[q] # h
        BY <2>2, <3>1, <4>1
      <4>. QED BY <2>2, <4>1, <4>2 DEF ProcTypes
    <3>. QED BY <2>2, <3>1 DEF LiveIsListed
  <2>. QED BY <2>3, <2>4, <2>5
<1>. QED BY <1>1, <1>2 DEF RunnerStep

\* Spawning, ending and killing keep the entries and the processes in agreement.
LEMMA WorkStep == WorkInv /\ [ProcNext]_procVars => WorkInv'
<1>. SUFFICES ASSUME WorkInv, [ProcNext]_procVars PROVE WorkInv'
  OBVIOUS
<1>. USE DEF WorkInv
<1>1. ASSUME NEW h \in Handles, SpawnProc(h) PROVE WorkInv'
  BY <1>1 DEF SpawnProc, HandleFree, ProcTypes, Numbered, RunnersWaited, HandleKept, LiveIsListed,
        Spawned, NewProc
<1>2. ASSUME NEW h \in Handles, ProcSpawned(h) PROVE WorkInv'
  BY <1>2, SpawnKeeps
<1>3. ASSUME NEW h \in Handles, SpawnFails(h) \/ KillHandle(h) PROVE WorkInv'
  BY <1>3 DEF SpawnFails, KillHandle, ProcTypes, Numbered, RunnersWaited, HandleKept, LiveIsListed,
        Spawned, NewProc
<1>4. ASSUME NEW p \in ProcIds, ProcExits(p) \/ KillVictim(p) PROVE WorkInv'
  BY <1>4 DEF ProcExits, KillVictim, ProcTypes, Numbered, RunnersWaited, HandleKept, LiveIsListed,
        Spawned, NewProc
<1>5. ASSUME NEW p \in ProcIds, HandleKilled(p) PROVE WorkInv'
  BY <1>5 DEF HandleKilled, Record, ProcTypes, Numbered, RunnersWaited, HandleKept, LiveIsListed,
        Spawned, NewProc
<1>6. ASSUME NEW p \in ProcIds, RunnerStep(p) PROVE WorkInv'
  BY <1>6, RunnerKeeps
<1>7. CASE ClientGone
  BY <1>7 DEF ClientGone, ProcTypes, Numbered, RunnersWaited, HandleKept, LiveIsListed,
        Spawned, NewProc
<1>8. CASE ClientForgotten
  BY <1>8, SpawnedAreIds
     DEF ClientForgotten, ProcTypes, Numbered, RunnersWaited, HandleKept, LiveIsListed,
        Spawned, NewProc
<1>9. CASE UNCHANGED procVars
  BY <1>9 DEF procVars, ProcTypes, Numbered, RunnersWaited, HandleKept, LiveIsListed,
        Spawned, NewProc
<1>. QED
  BY <1>1, <1>2, <1>3, <1>4, <1>5, <1>6, <1>7, <1>8, <1>9 DEF ProcNext

\* Listed while it runs and in the history once it has ended: no interleaving of
\* a runner, kill() and the client's leaving loses a process or counts it twice.
THEOREM ProcessesAreAccounted == ProcSpec => []ProcsAccounted
<1>1. WorkInv => ProcsAccounted
  BY SpawnedAreIds
     DEF WorkInv, ProcTypes, RunnersWaited, ProcsAccounted, LiveIsListed, RecordedOnce
<1>. QED BY WorkInitially, WorkStep, <1>1, PTL DEF ProcSpec

----------------------------------------------------------------------------
(* AgentJobs: sub-agents, for any number of jobs, saves and restarts.     *)

\* A job whose task is to run has an agent that counts against the cap.
JobTypes ==
  /\ agent \in [Jobs -> JobTerminal \cup {"none", "idle", "thinking"}]
  /\ task \in [Jobs -> {"none", "ready", "running", "notifying", "done"}]
  /\ registered \subseteq Jobs /\ spawning \subseteq Jobs

CapInv ==
  /\ JobTypes
  /\ ActiveJobs \subseteq Counted
  /\ Cardinality(Counted) <= Cap

\* Agents that stop being counted make room.
LEMMA CountedShrinks ==
  ASSUME JobTypes, JobTypes', Cardinality(Counted) <= Cap, Counted' \subseteq Counted
  PROVE  Cardinality(Counted') <= Cap
<1>1. IsFiniteSet(Counted)
  BY JobsAssumption, FS_Subset DEF JobTypes, Counted
<1>2. Cardinality(Counted') <= Cardinality(Counted) /\ IsFiniteSet(Counted')
  BY <1>1, FS_Subset
<1>3. Cardinality(Counted) \in Nat /\ Cardinality(Counted') \in Nat
  BY <1>1, <1>2, FS_CardinalityType
<1>. QED BY <1>2, <1>3, JobsAssumption

\* No job is active at first.
LEMMA CapInitially == JobsInit => CapInv
<1>. SUFFICES ASSUME JobsInit PROVE CapInv
  OBVIOUS
<1>1. ActiveJobs = {} /\ Counted = {}
  BY DEF JobsInit, ActiveJobs, Counted
<1>. QED
  BY <1>1, JobsAssumption, FS_EmptySet DEF JobsInit, CapInv, JobTypes

\* Only spawn() adds to what is counted, and it looks first.
LEMMA CapStep == CapInv /\ [JobsNext]_jobsVars => CapInv'
<1>. SUFFICES ASSUME CapInv, [JobsNext]_jobsVars PROVE CapInv'
  OBVIOUS
<1>. USE DEF CapInv, JobTypes
<1>1. ASSUME NEW j \in Jobs, SpawnAgent(j) PROVE CapInv'
  <2>1. JobTypes'
    BY <1>1 DEF SpawnAgent
  <2>2. Counted' = Counted \cup {j} /\ ActiveJobs' \subseteq ActiveJobs \cup {j}
    BY <1>1 DEF SpawnAgent, Counted, ActiveJobs, JobTerminal
  <2>3. IsFiniteSet(Counted)
    BY JobsAssumption, FS_Subset DEF Counted
  <2>4. Cardinality(Counted') <= Cap
    <3>1. Cardinality(Counted) < Cap
      BY <1>1 DEF SpawnAgent
    <3>2. Cardinality(Counted) \in Nat
      BY <2>3, FS_CardinalityType
    <3>3. Cardinality(Counted') <= Cardinality(Counted) + 1 /\ Cardinality(Counted') \in Nat
      BY <2>2, <2>3, <3>2, FS_AddElement, FS_CardinalityType
    <3>. QED BY <3>1, <3>2, <3>3, JobsAssumption
  <2>. QED BY <2>1, <2>2, <2>4
<1>2. ASSUME NEW j \in Jobs, AgentSpawned(j) \/ SpawnInterrupted(j) PROVE CapInv'
  <2>1. JobTypes' /\ Counted' = Counted /\ ActiveJobs' = ActiveJobs
    BY <1>2 DEF AgentSpawned, SpawnInterrupted, Counted, ActiveJobs, jobVars, AgentCanMove,
                JobTerminal
  <2>. QED BY <2>1
<1>3. ASSUME NEW j \in Jobs, JobBegins(j) \/ NeverBegins(j) PROVE CapInv'
  <2>1. JobTypes' /\ Counted' = Counted /\ ActiveJobs' \subseteq ActiveJobs
    BY <1>3 DEF JobBegins, NeverBegins, agentVars, Counted, ActiveJobs
  <2>. QED BY <2>1
<1>4. ASSUME NEW j \in Jobs, NEW how \in JobTerminal, JobEnds(j, how) PROVE CapInv'
  <2>1. JobTypes'
    BY <1>4 DEF JobEnds, Notify
  <2>2. Counted' \subseteq Counted /\ Counted \subseteq Counted' \cup {j}
    BY <1>4 DEF JobEnds, Notify, Counted
  <2>3. ActiveJobs' \subseteq ActiveJobs \ {j}
    BY <1>4 DEF JobEnds, Notify, ActiveJobs
  <2>. QED BY <2>1, <2>2, <2>3, CountedShrinks
<1>5. ASSUME NEW j \in Jobs, Notified(j) PROVE CapInv'
  <2>1. JobTypes' /\ Counted' = Counted /\ ActiveJobs' = ActiveJobs
    BY <1>5 DEF Notified, agentVars, Counted, ActiveJobs
  <2>. QED BY <2>1
<1>6. ASSUME NEW j \in Jobs, KillAgent(j) PROVE CapInv'
  <2>1. JobTypes'
    BY <1>6 DEF KillAgent, JobTerminal
  <2>2. Counted' \subseteq Counted /\ Counted \subseteq Counted' \cup {j}
    BY <1>6 DEF KillAgent, Counted
  <2>3. ActiveJobs' \subseteq ActiveJobs \ {j}
    BY <1>6 DEF KillAgent, ActiveJobs
  <2>. QED BY <2>1, <2>2, <2>3, CountedShrinks
<1>7. CASE JobsRestart
  <2>1. JobTypes' /\ Counted' = {} /\ ActiveJobs' = {}
    BY <1>7 DEF JobsRestart, Counted, ActiveJobs
  <2>. QED BY <2>1, FS_EmptySet, JobsAssumption
<1>8. CASE MainBegins \/ MainEnds \/ ConfigSave \/ UNCHANGED jobsVars
  <2>1. UNCHANGED <<agent, task, registered, spawning, cancelling>>
    BY <1>8 DEF MainBegins, MainEnds, ConfigSave, jobsVars, jobVars, agentVars
  <2>. QED BY <2>1 DEF Counted, ActiveJobs
<1>. QED
  BY <1>1, <1>2, <1>3, <1>4, <1>5, <1>6, <1>7, <1>8 DEF JobsNext, JobStep

\* No more than max_concurrent sub-agents run, whatever number of jobs there are
\* and whenever they are killed, end or are loaded again.
THEOREM CapIsKept == JobsSpec => []CapHolds
<1>1. CapInv => CapHolds
  <2>. SUFFICES ASSUME CapInv PROVE CapHolds
    OBVIOUS
  <2>1. IsFiniteSet(Counted)
    BY JobsAssumption, FS_Subset DEF CapInv, JobTypes, Counted
  <2>. QED
    BY <2>1, FS_Subset, FS_CardinalityType, JobsAssumption DEF CapInv, CapHolds
<1>. QED BY CapInitially, CapStep, <1>1, PTL DEF JobsSpec

\* What a config save relies on while it does not find the runner busy: a turn
\* of the user then shares the runner with a job.
RunnerInv ==
  /\ task \in [Jobs -> {"none", "ready", "running", "notifying", "done"}]
  /\ mainTurn => busy \/ shared
  /\ mainTurn => \A j \in Jobs : task[j] = "running" => shared

\* A config save that lands while only the turn of the user runs does not change
\* the provider under it.
THEOREM ProviderIsKept == JobsSpec => ProviderStays
<1>1. JobsInit => RunnerInv
  BY DEF JobsInit, RunnerInv
<1>2. RunnerInv /\ [JobsNext]_jobsVars => RunnerInv'
  <2>. SUFFICES ASSUME RunnerInv, [JobsNext]_jobsVars PROVE RunnerInv'
    OBVIOUS
  <2>. USE DEF RunnerInv
  <2>1. ASSUME NEW j \in Jobs, SpawnAgent(j) PROVE RunnerInv'
    BY <2>1 DEF SpawnAgent, runnerVars
  <2>2. ASSUME NEW j \in Jobs, AgentSpawned(j) \/ SpawnInterrupted(j) PROVE RunnerInv'
    BY <2>2 DEF AgentSpawned, SpawnInterrupted, runnerVars, jobVars
  <2>3. ASSUME NEW j \in Jobs, JobBegins(j) PROVE RunnerInv'
    BY <2>3 DEF JobBegins, RunnerBegins
  <2>4. ASSUME NEW j \in Jobs, NeverBegins(j) PROVE RunnerInv'
    BY <2>4 DEF NeverBegins, runnerVars
  <2>5. ASSUME NEW j \in Jobs, NEW how \in JobTerminal, JobEnds(j, how) PROVE RunnerInv'
    BY <2>5 DEF JobEnds, Notify
  <2>6. ASSUME NEW j \in Jobs, Notified(j) \/ KillAgent(j) PROVE RunnerInv'
    BY <2>6 DEF Notified, KillAgent, runnerVars
  <2>7. CASE MainBegins \/ MainEnds \/ ConfigSave
    <3>1. UNCHANGED task
      BY <2>7 DEF MainBegins, MainEnds, ConfigSave, jobVars
    <3>2. CASE MainBegins
      BY <3>1, <3>2 DEF MainBegins, RunnerBegins
    <3>3. CASE MainEnds
      BY <3>1, <3>3 DEF MainEnds
    <3>4. CASE ConfigSave
      BY <3>1, <3>4 DEF ConfigSave
    <3>. QED BY <2>7, <3>2, <3>3, <3>4
  <2>8. CASE JobsRestart
    BY <2>8 DEF JobsRestart
  <2>9. CASE UNCHANGED jobsVars
    BY <2>9 DEF jobsVars, jobVars, runnerVars
  <2>. QED
    BY <2>1, <2>2, <2>3, <2>4, <2>5, <2>6, <2>7, <2>8, <2>9 DEF JobsNext, JobStep
<1>3. RunnerInv /\ [JobsNext]_jobsVars
        => [mainTurn /\ mainTurn' /\ provider' # provider => shared \/ shared']_jobsVars
  BY DEF RunnerInv, JobsNext, JobStep, SpawnAgent, AgentSpawned, SpawnInterrupted, JobBegins,
         NeverBegins, JobEnds, Notified, KillAgent, MainBegins, MainEnds, ConfigSave,
         JobsRestart, RunnerBegins, runnerVars, jobsVars
<1>. QED BY <1>1, <1>2, <1>3, PTL DEF JobsSpec, ProviderStays

\* Why nobody is told twice: who tells the frontend of the end of a job has set
\* the flag of its agent, and a job is registered only once, before its end.
ToldInv ==
  /\ status \in [Jobs -> JobTerminal \cup {"none", "queued", "running", "interrupted"}]
  /\ row \in [Jobs -> JobTerminal \cup {"none", "queued", "running"}]
  /\ task \in [Jobs -> {"none", "ready", "running", "notifying", "done"}]
  /\ told \in [Jobs -> Nat]
  /\ \A j \in Jobs :
       /\ told[j] <= 1
       /\ status[j] = "none" => row[j] = "none" /\ j \notin registered
       /\ row[j] = "none" => told[j] = 0 /\ task[j] = "none"
       /\ j \in registered /\ j \notin emitted => told[j] = 0
       /\ task[j] = "notifying" => j \in emitted /\ told[j] = 0

\* The flag of the agent and the removal from the registry keep it so.
LEMMA ToldStep == ToldInv /\ [JobsNext]_jobsVars => ToldInv'
<1>. SUFFICES ASSUME ToldInv, [JobsNext]_jobsVars PROVE ToldInv'
  OBVIOUS
<1>. USE DEF ToldInv, JobTerminal, SetStatus
<1>1. ASSUME NEW j \in Jobs, SpawnAgent(j) PROVE ToldInv'
  BY <1>1 DEF SpawnAgent, tellVars
<1>2. ASSUME NEW j \in Jobs, AgentSpawned(j) \/ SpawnInterrupted(j) PROVE ToldInv'
  BY <1>2 DEF AgentSpawned, SpawnInterrupted, tellVars, jobVars
<1>3. ASSUME NEW j \in Jobs, JobBegins(j) PROVE ToldInv'
  BY <1>3 DEF JobBegins, tellVars, agentVars
<1>4. ASSUME NEW j \in Jobs, NeverBegins(j) PROVE ToldInv'
  BY <1>4 DEF NeverBegins, tellVars, agentVars
<1>5. ASSUME NEW j \in Jobs, NEW how \in JobTerminal, JobEnds(j, how) PROVE ToldInv'
  BY <1>5 DEF JobEnds, Notify, MustTell
<1>6. ASSUME NEW j \in Jobs, Notified(j) PROVE ToldInv'
  BY <1>6 DEF Notified, agentVars
<1>7. ASSUME NEW j \in Jobs, KillAgent(j) PROVE ToldInv'
  BY <1>7 DEF KillAgent, MustTell
<1>8. CASE JobsRestart
  BY <1>8 DEF JobsRestart, LoadJob
<1>9. CASE MainBegins \/ MainEnds \/ ConfigSave \/ UNCHANGED jobsVars
  <2>1. UNCHANGED <<status, row, task, told, registered, emitted>>
    BY <1>9 DEF MainBegins, MainEnds, ConfigSave, jobsVars, jobVars, agentVars, tellVars
  <2>. QED BY <2>1
<1>. QED
  BY <1>1, <1>2, <1>3, <1>4, <1>5, <1>6, <1>7, <1>8, <1>9 DEF JobsNext, JobStep

\* The safety half of EveryEndIsToldOnce: the kill of a job and the task that it
\* cancels never both tell the frontend of its end, however often the process is
\* restarted in between.
THEOREM NoEndIsToldTwice == JobsSpec => [](\A j \in Jobs : told[j] <= 1)
<1>1. JobsInit => ToldInv
  BY DEF JobsInit, ToldInv
<1>2. ToldInv => \A j \in Jobs : told[j] <= 1
  BY DEF ToldInv
<1>. QED BY <1>1, <1>2, ToldStep, PTL DEF JobsSpec

----------------------------------------------------------------------------
(* SessionRegistry: runtimes, for any number of sessions and clients.     *)

RegistryTypes ==
  /\ sessions \in [Sessions -> Runtimes \cup {0}]
  /\ runtime \in [Runtimes -> {"none", "starting", "up", "failed", "stopping", "down"}]
  /\ creating \subseteq [session : Sessions, runtime : Runtimes]
  /\ stops \subseteq [session : Sessions, runtime : Runtimes, by : {"client", "ttl"}]

\* The lock lets one creation through at a time, of a session that has no
\* runtime until the creation ends.
OneCreation ==
  /\ \A x, y \in creating : x = y
  /\ \A x \in creating : runtime[x.runtime] = "starting" /\ sessions[x.session] = 0

\* A runtime is stopped by one call, and is no longer the runtime of a session.
OneStop ==
  /\ \A x, y \in stops : x.runtime = y.runtime => x = y
  /\ \A x \in stops : runtime[x.runtime] = "stopping"

\* The runtime of a session is up, and of that session alone.
Registered ==
  /\ \A s \in Sessions : sessions[s] # 0 => runtime[sessions[s]] = "up"
  /\ \A s, t \in Sessions : sessions[s] = sessions[t] /\ sessions[s] # 0 => s = t
  /\ \A r \in Runtimes : runtime[r] = "up" => \E s \in Sessions : sessions[s] = r

RegInv == RegistryTypes /\ OneCreation /\ OneStop /\ Registered

\* Zero stands for no runtime.
LEMMA ZeroIsNoRuntime == 0 \notin Runtimes
BY RegistryAssumption DEF Runtimes

\* No runtime is up at first.
LEMMA RegistryInitially == RegistryInit => RegInv
BY ZeroIsNoRuntime DEF RegistryInit, RegInv, RegistryTypes, OneCreation, OneStop, Registered

\* stop_session takes the runtime from its session before it awaits the stop.
LEMMA StopBeginsKeeps ==
  ASSUME RegInv, NEW s \in Sessions, NEW by \in {"client", "ttl"}, StopBegins(s, by),
         creating' = creating
  PROVE  RegInv'
<1>. DEFINE r == sessions[s]
            x == [session |-> s, runtime |-> r, by |-> by]
<1>. USE DEF RegInv, RegistryTypes
<1>1. r \in Runtimes /\ runtime[r] = "up"
  BY DEF StopBegins, Registered
<1>2. /\ stops' = stops \cup {x}
      /\ runtime' = [runtime EXCEPT ![r] = "stopping"]
      /\ sessions' = [sessions EXCEPT ![s] = 0]
  BY DEF StopBegins
<1>3. RegistryTypes'
  BY <1>1, <1>2
<1>. HIDE DEF r
<1>4. OneCreation'
  BY <1>1, <1>2 DEF OneCreation
<1>5. OneStop'
  <2>1. \A y \in stops : y.runtime # r
    BY <1>1 DEF OneStop
  <2>. QED BY <1>1, <1>2, <2>1 DEF OneStop
<1>6. Registered'
  <2>1. \A t \in Sessions : t # s => sessions'[t] = sessions[t] /\ sessions[t] # r
    BY <1>1, <1>2, ZeroIsNoRuntime DEF Registered, r
  <2>2. sessions'[s] = 0
    BY <1>2
  <2>3. \A q \in Runtimes : q # r => runtime'[q] = runtime[q] /\ sessions[s] # q
    BY <1>2 DEF r
  <2>4. runtime'[r] = "stopping"
    BY <1>1, <1>2
  <2>. QED BY <1>3, <2>1, <2>2, <2>3, <2>4, ZeroIsNoRuntime DEF Registered
<1>. QED BY <1>3, <1>4, <1>5, <1>6

\* create_session keeps the registry.
LEMMA CreateKeeps ==
  ASSUME RegInv, CreateStep \/ \E s \in Sessions, r \in Runtimes : CreateBegins(s, r)
  PROVE  RegInv'
<1>. USE DEF RegInv, RegistryTypes
<1>1. ASSUME NEW s \in Sessions, NEW r \in Runtimes, CreateBegins(s, r) PROVE RegInv'
  <2>1. /\ creating = {} /\ creating' = {[session |-> s, runtime |-> r]}
        /\ sessions[s] = 0 /\ runtime[r] = "none"
        /\ runtime' = [runtime EXCEPT ![r] = "starting"]
        /\ sessions' = sessions /\ stops' = stops
    BY <1>1 DEF CreateBegins, LockFree, mapVars
  <2>2. OneCreation'
    BY <2>1 DEF OneCreation
  <2>3. OneStop'
    BY <2>1 DEF OneStop
  <2>4. Registered'
    BY <2>1 DEF Registered
  <2>. QED BY <2>1, <2>2, <2>3, <2>4
<1>2. ASSUME NEW x \in creating, CreateEnds(x) PROVE RegInv'
  <2>. DEFINE s == x.session
              r == x.runtime
  <2>1. /\ s \in Sessions /\ r \in Runtimes /\ r # 0
        /\ runtime[r] = "starting" /\ sessions[s] = 0
    BY ZeroIsNoRuntime DEF OneCreation
  <2>2. /\ creating' = {}
        /\ runtime' = [runtime EXCEPT ![r] = "up"]
        /\ sessions' = [sessions EXCEPT ![s] = r]
        /\ stops' = stops
    BY <1>2 DEF CreateEnds, OneCreation
  <2>. HIDE DEF s, r
  <2>3. OneCreation' /\ OneStop'
    BY <2>1, <2>2 DEF OneCreation, OneStop
  <2>4. Registered'
    <3>1. \A t \in Sessions : t # s => sessions'[t] = sessions[t] /\ sessions[t] # r
      BY <2>1, <2>2 DEF Registered
    <3>2. sessions'[s] = r /\ runtime'[r] = "up"
      BY <2>1, <2>2
    <3>3. \A q \in Runtimes : q # r => runtime'[q] = runtime[q] /\ sessions[s] # q
      BY <2>1, <2>2, ZeroIsNoRuntime
    <3>. QED BY <2>1, <3>1, <3>2, <3>3 DEF Registered
  <2>. QED BY <2>1, <2>2, <2>3, <2>4
<1>3. ASSUME NEW x \in creating, CreateFails(x) PROVE RegInv'
  <2>1. /\ x.runtime \in Runtimes /\ runtime[x.runtime] = "starting"
        /\ creating' = {} /\ stops' = stops /\ sessions' = sessions
        /\ runtime' = [runtime EXCEPT ![x.runtime] = "failed"]
    BY <1>3 DEF CreateFails, OneCreation, mapVars
  <2>2. OneCreation' /\ OneStop'
    BY <2>1 DEF OneCreation, OneStop
  <2>3. Registered'
    BY <2>1 DEF Registered
  <2>. QED BY <2>1, <2>2, <2>3
<1>. QED BY <1>1, <1>2, <1>3 DEF CreateStep

\* So does the end of a stop.
LEMMA StopEndsKeeps == ASSUME RegInv, NEW x \in stops, StopEnds(x) PROVE RegInv'
<1>. USE DEF RegInv, RegistryTypes
<1>1. /\ x.runtime \in Runtimes /\ runtime[x.runtime] = "stopping"
      /\ stops' = stops \ {x} /\ creating' = creating /\ sessions' = sessions
      /\ runtime' = [runtime EXCEPT ![x.runtime] = "down"]
  BY DEF StopEnds, OneStop
<1>2. OneCreation'
  BY <1>1 DEF OneCreation
<1>3. OneStop'
  BY <1>1 DEF OneStop
<1>4. Registered'
  BY <1>1 DEF Registered
<1>. QED BY <1>1, <1>2, <1>3, <1>4

\* No step of the registry, of its clients or of the TTL loop loses a runtime.
LEMMA RegistryStep == RegInv /\ [RegistryNext]_registryVars => RegInv'
<1>. SUFFICES ASSUME RegInv, [RegistryNext]_registryVars PROVE RegInv'
  OBVIOUS
<1>1. ASSUME UNCHANGED <<sessions, creating, runtime, stops>> PROVE RegInv'
  BY <1>1 DEF RegInv, RegistryTypes, OneCreation, OneStop, Registered
<1>2. CASE Scan \/ RoundEnds
  BY <1>1, <1>2 DEF Scan, RoundEnds, mapVars
<1>3. ASSUME NEW s \in Sessions, Evict(s) PROVE RegInv'
  BY <1>1, <1>3, StopBeginsKeeps DEF Evict
<1>4. ASSUME NEW s \in Sessions, CreateFinds(s) \/ Elapse(s) PROVE RegInv'
  BY <1>1, <1>4 DEF CreateFinds, Elapse
<1>5. ASSUME NEW c \in Clients, NEW s \in Sessions, DeleteSession(c, s) PROVE RegInv'
  BY <1>5, StopBeginsKeeps DEF DeleteSession
<1>6. ASSUME NEW c \in Clients, NEW d \in Clients, NEW s \in Sessions,
             UseSession(c, s) \/ AuthorizeClient(c, s, d)
      PROVE  RegInv'
  BY <1>1, <1>6 DEF UseSession, AuthorizeClient
<1>7. CASE UNCHANGED registryVars
  BY <1>1, <1>7 DEF registryVars, mapVars
<1>. QED
  BY <1>2, <1>3, <1>4, <1>5, <1>6, <1>7, CreateKeeps, StopEndsKeeps
     DEF RegistryNext, TtlStep, StopStep

\* However creations and stops of a session overlap, a runtime that is up can be
\* found through exactly one session.
THEOREM RuntimesAreReachable == RegistrySpec => []EveryRuntimeReachable
<1>1. RegInv => EveryRuntimeReachable
  BY ZeroIsNoRuntime DEF RegInv, Registered, RegistryTypes, EveryRuntimeReachable
<1>. QED BY RegistryInitially, RegistryStep, <1>1, PTL DEF RegistrySpec

----------------------------------------------------------------------------
(* The mappings.                                                           *)

MapTypes ==
  /\ clientsOf \in [Sessions -> SUBSET Clients]
  /\ sessionsOf \in [Clients -> SUBSET Sessions]
  /\ activity \in [Sessions -> {"absent", "recent", "idle"}]

Symmetric(s) == \A c \in Clients : s \in sessionsOf[c] <=> c \in clientsOf[s]

Usable(s) == sessions[s] # 0 => Owner[s] \in clientsOf[s] /\ activity[s] # "absent"

Forgotten(s) == clientsOf[s] = {} /\ \A c \in Clients : s \notin sessionsOf[c]

BeingStopped(s) == \E x \in stops : x.session = s

\* A session that has no runtime and is not being stopped is forgotten; one that
\* is being stopped has none, or was created meanwhile.
StopsForget ==
  \A s \in Sessions :
    /\ sessions[s] = 0 /\ ~BeingStopped(s) => Forgotten(s)
    /\ BeingStopped(s) /\ s \notin overlapped => sessions[s] = 0

MapInv ==
  /\ MapTypes
  /\ StopsForget
  /\ \A s \in Sessions \ overlapped : Symmetric(s) /\ Usable(s)

\* No client has a session at first.
LEMMA MapInitially == RegistryInit => MapInv
BY DEF RegistryInit, MapInv, MapTypes, StopsForget, Symmetric, Usable, Forgotten, BeingStopped

\* Only stops and creations change which sessions there are.
LEMMA MappingsStay ==
  ASSUME MapInv, MapTypes', UNCHANGED <<sessions, stops, overlapped>>,
         \A s \in Sessions : Forgotten(s) => Forgotten(s)',
         \A s \in Sessions \ overlapped : Symmetric(s) => Symmetric(s)',
         \A s \in Sessions : clientsOf[s] \subseteq clientsOf'[s],
         \A s \in Sessions : activity'[s] = "absent" => activity[s] = "absent"
  PROVE  MapInv'
<1>1. StopsForget'
  BY DEF MapInv, StopsForget, BeingStopped
<1>2. \A s \in Sessions \ overlapped' : Symmetric(s)' /\ Usable(s)'
  BY DEF MapInv, Usable
<1>. QED BY <1>1, <1>2 DEF MapInv

\* Linking a client to a session leaves the links of other sessions as they are.
LEMMA LinkStays ==
  ASSUME MapTypes, NEW c \in Clients, NEW s \in Sessions, clientsOf[s] # {} \/ sessions[s] # 0,
         Link(c, s, clientsOf[s])
  PROVE  /\ clientsOf' \in [Sessions -> SUBSET Clients]
         /\ sessionsOf' \in [Clients -> SUBSET Sessions]
         /\ \A t \in Sessions : Symmetric(t) => Symmetric(t)'
         /\ \A t \in Sessions : t # s /\ Forgotten(t) => Forgotten(t)'
         /\ \A t \in Sessions : clientsOf[t] \subseteq clientsOf'[t]
<1>1. /\ clientsOf' = [clientsOf EXCEPT ![s] = clientsOf[s] \cup {c}]
      /\ sessionsOf' = [sessionsOf EXCEPT ![c] = sessionsOf[c] \cup {s}]
  BY DEF Link, MapTypes
<1>. QED BY <1>1 DEF MapTypes, Symmetric, Forgotten

\* A stop that begins takes the session out; its clients stay linked until it ends.
LEMMA StopBeginsForgets ==
  ASSUME MapInv, NEW s \in Sessions, NEW by \in {"client", "ttl"}, StopBegins(s, by),
         UNCHANGED <<clientsOf, sessionsOf, overlapped>>, MapTypes',
         \A t \in Sessions : activity'[t] = "absent" => activity[t] = "absent",
         sessions \in [Sessions -> Runtimes \cup {0}]
  PROVE  MapInv'
<1>. DEFINE z == [session |-> s, runtime |-> sessions[s], by |-> by]
<1>0. sessions' = [sessions EXCEPT ![s] = 0] /\ stops' = stops \cup {z} /\ z.session = s
  BY DEF StopBegins
<1>. HIDE DEF z
<1>1. /\ sessions' = [sessions EXCEPT ![s] = 0]
      /\ \E x \in stops' : x.session = s
      /\ stops \subseteq stops'
      /\ \A x \in stops' : x \in stops \/ x.session = s
  BY <1>0
<1>2. \A t \in Sessions : t # s => sessions'[t] = sessions[t] /\ (BeingStopped(t)' <=> BeingStopped(t))
  <2>1. ASSUME NEW t \in Sessions, t # s PROVE BeingStopped(t)' <=> BeingStopped(t)
    BY <1>1, <2>1 DEF BeingStopped
  <2>. QED BY <1>1, <2>1
<1>3. sessions'[s] = 0 /\ BeingStopped(s)'
  BY <1>1 DEF BeingStopped
<1>4. StopsForget'
  BY <1>2, <1>3 DEF MapInv, StopsForget, Forgotten
<1>5. \A t \in Sessions \ overlapped' : Symmetric(t)' /\ Usable(t)'
  BY <1>2, <1>3 DEF MapInv, Symmetric, Usable
<1>. QED BY <1>4, <1>5 DEF MapInv

\* A creation that ends links its client to its session.
LEMMA CreateEndsMaps ==
  ASSUME MapInv, RegInv, NEW x \in creating, CreateEnds(x)
  PROVE  MapInv'
<1>. DEFINE s == x.session
            c == Owner[s]
<1>1. /\ s \in Sessions /\ c \in Clients /\ x.runtime # 0
      /\ sessions[s] = 0 /\ sessions \in [Sessions -> Runtimes \cup {0}]
  BY RegistryAssumption, ZeroIsNoRuntime DEF RegInv, RegistryTypes, OneCreation
<1>2. /\ sessions' = [sessions EXCEPT ![s] = x.runtime]
      /\ clientsOf' = [clientsOf EXCEPT ![s] = {c}]
      /\ sessionsOf' = [sessionsOf EXCEPT ![c] = sessionsOf[c] \cup {s}]
      /\ activity' = [activity EXCEPT ![s] = "recent"]
      /\ overlapped' = IF BeingStopped(s) THEN overlapped \cup {s} ELSE overlapped \ {s}
      /\ stops' = stops
  BY <1>1 DEF CreateEnds, Link, Touch, BeingStopped, MapInv, MapTypes
<1>. HIDE DEF s, c
<1>3. MapTypes'
  BY <1>1, <1>2 DEF MapInv, MapTypes
<1>4. \A t \in Sessions : BeingStopped(t)' = BeingStopped(t)
  BY <1>2 DEF BeingStopped
<1>5. ASSUME NEW t \in Sessions, t # s
      PROVE  /\ sessions'[t] = sessions[t] /\ activity'[t] = activity[t]
             /\ clientsOf'[t] = clientsOf[t] /\ (t \in overlapped' <=> t \in overlapped)
             /\ \A d \in Clients : t \in sessionsOf'[d] <=> t \in sessionsOf[d]
  BY <1>1, <1>2, <1>5 DEF MapInv, MapTypes
<1>6. sessions'[s] # 0 /\ activity'[s] # "absent" /\ clientsOf'[s] = {c}
  BY <1>1, <1>2 DEF MapInv, MapTypes
<1>7. StopsForget'
  BY <1>2, <1>4, <1>5, <1>6 DEF MapInv, StopsForget, Forgotten
<1>8. ~BeingStopped(s) => Symmetric(s)' /\ Usable(s)'
  BY <1>1, <1>2, <1>6 DEF MapInv, MapTypes, StopsForget, Forgotten, Symmetric, Usable, c
<1>9. \A t \in Sessions \ overlapped' : Symmetric(t)' /\ Usable(t)'
  BY <1>2, <1>5, <1>8 DEF MapInv, Symmetric, Usable
<1>. QED BY <1>3, <1>7, <1>9 DEF MapInv

\* The end of a stop leaves no client behind.
LEMMA StopEndsForgets ==
  ASSUME MapInv, RegInv, NEW x \in stops, StopEnds(x)
  PROVE  MapInv'
<1>. DEFINE s == x.session
<1>1. /\ s \in Sessions /\ stops' = stops \ {x}
      /\ sessionsOf' = [c \in Clients |-> sessionsOf[c] \ {s}]
      /\ clientsOf' = [clientsOf EXCEPT ![s] = {}]
      /\ activity' = [activity EXCEPT ![s] = "absent"]
      /\ UNCHANGED <<sessions, overlapped>>
      /\ BeingStopped(s)
  BY DEF RegInv, RegistryTypes, StopEnds, Forgets, BeingStopped
<1>2. \A t \in Sessions : t # s => BeingStopped(t)' = BeingStopped(t)
  BY <1>1 DEF BeingStopped
<1>. HIDE DEF s
<1>3. MapTypes'
  BY <1>1 DEF MapInv, MapTypes
<1>4. BeingStopped(s)' => BeingStopped(s)
  BY <1>1 DEF BeingStopped
<1>5. Forgotten(s)'
  BY <1>1, <1>3 DEF MapInv, MapTypes, Forgotten
<1>6. \A t \in Sessions : t # s => /\ clientsOf'[t] = clientsOf[t] /\ activity'[t] = activity[t]
                                   /\ \A c \in Clients : t \in sessionsOf'[c] <=> t \in sessionsOf[c]
  BY <1>1 DEF MapInv, MapTypes
<1>7. StopsForget'
  BY <1>1, <1>2, <1>4, <1>5, <1>6 DEF MapInv, StopsForget, Forgotten
<1>8. ASSUME NEW t \in Sessions \ overlapped' PROVE Symmetric(t)' /\ Usable(t)'
  <2>1. t \notin overlapped /\ Symmetric(t) /\ Usable(t) /\ sessions'[t] = sessions[t]
    BY <1>1 DEF MapInv
  <2>2. CASE t = s
    <3>1. sessions'[t] = 0
      BY <1>1, <2>1, <2>2 DEF MapInv, StopsForget
    <3>. QED BY <1>5, <2>2, <3>1 DEF Symmetric, Usable, Forgotten
  <2>3. CASE t # s
    BY <1>6, <2>1, <2>3 DEF Symmetric, Usable
  <2>. QED BY <2>2, <2>3
<1>. QED BY <1>3, <1>7, <1>8 DEF MapInv

\* No step of the registry leaves one map without its entry in the other.
LEMMA MapStep == MapInv /\ RegInv /\ [RegistryNext]_registryVars => MapInv'
<1>. SUFFICES ASSUME MapInv, RegInv, [RegistryNext]_registryVars PROVE MapInv'
  OBVIOUS
<1>1. ASSUME UNCHANGED <<mapVars, stops, overlapped>> PROVE MapInv'
  BY <1>1 DEF mapVars, MapInv, MapTypes, StopsForget, Symmetric, Usable, Forgotten, BeingStopped
<1>2. CASE Scan \/ RoundEnds
  BY <1>1, <1>2 DEF Scan, RoundEnds
<1>3. ASSUME NEW s \in Sessions, Evict(s) PROVE MapInv'
  BY <1>1, <1>3, StopBeginsForgets DEF Evict, mapVars, MapInv, MapTypes, RegInv, RegistryTypes
<1>4. ASSUME NEW s \in Sessions, CreateFinds(s) PROVE MapInv'
  <2>1. /\ Link(Owner[s], s, clientsOf[s]) /\ Owner[s] \in Clients /\ sessions[s] # 0
        /\ activity' = [activity EXCEPT ![s] = "recent"]
        /\ UNCHANGED <<sessions, stops, overlapped>>
    BY <1>4, RegistryAssumption DEF CreateFinds, Touch
  <2>2. MapTypes
    BY DEF MapInv
  <2>3. \A t \in Sessions \ overlapped : Symmetric(t) /\ Usable(t)
    BY DEF MapInv
  <2>4. /\ clientsOf' \in [Sessions -> SUBSET Clients]
        /\ sessionsOf' \in [Clients -> SUBSET Sessions]
        /\ \A t \in Sessions : Symmetric(t) => Symmetric(t)'
        /\ \A t \in Sessions : t # s /\ Forgotten(t) => Forgotten(t)'
        /\ \A t \in Sessions : clientsOf[t] \subseteq clientsOf'[t]
    BY <2>1, <2>2, LinkStays
  <2>5. MapTypes' /\ \A t \in Sessions : activity'[t] = "absent" => activity[t] = "absent"
    BY <2>1, <2>2, <2>4 DEF MapTypes
  <2>6. StopsForget'
    BY <2>1, <2>4 DEF MapInv, StopsForget, BeingStopped
  <2>7. \A t \in Sessions \ overlapped' : Symmetric(t)' /\ Usable(t)'
    BY <2>1, <2>3, <2>4, <2>5 DEF Usable
  <2>. QED BY <2>5, <2>6, <2>7 DEF MapInv
<1>5. ASSUME NEW s \in Sessions, Elapse(s) PROVE MapInv'
  BY <1>5, MappingsStay DEF Elapse, MapInv, MapTypes, Symmetric, Forgotten
<1>6. ASSUME NEW c \in Clients, NEW s \in Sessions, DeleteSession(c, s) PROVE MapInv'
  <2>1. MapTypes' /\ \A t \in Sessions : activity'[t] = "absent" => activity[t] = "absent"
    BY <1>6 DEF DeleteSession, Touch, MapInv, MapTypes
  <2>. QED BY <1>6, <2>1, StopBeginsForgets DEF DeleteSession, RegInv, RegistryTypes
<1>7. ASSUME NEW c \in Clients, NEW s \in Sessions, UseSession(c, s) PROVE MapInv'
  BY <1>7, MappingsStay DEF UseSession, Touch, MapInv, MapTypes, Symmetric, Forgotten
<1>8. ASSUME NEW c \in Clients, NEW d \in Clients, NEW s \in Sessions, AuthorizeClient(c, s, d)
      PROVE  MapInv'
  <2>1. /\ c \in clientsOf[s] /\ Link(d, s, clientsOf[s])
        /\ UNCHANGED <<sessions, stops, overlapped, activity>>
    BY <1>8 DEF AuthorizeClient
  <2>2. MapTypes
    BY DEF MapInv
  <2>3. ~Forgotten(s)
    BY <2>1 DEF Forgotten
  <2>4. /\ clientsOf' \in [Sessions -> SUBSET Clients]
        /\ sessionsOf' \in [Clients -> SUBSET Sessions]
        /\ \A t \in Sessions : Symmetric(t) => Symmetric(t)'
        /\ \A t \in Sessions : t # s /\ Forgotten(t) => Forgotten(t)'
        /\ \A t \in Sessions : clientsOf[t] \subseteq clientsOf'[t]
    BY <2>1, <2>2, LinkStays
  <2>5. MapTypes'
    BY <2>1, <2>2, <2>4 DEF MapTypes
  <2>. QED BY <2>1, <2>3, <2>4, <2>5, MappingsStay
<1>9. ASSUME NEW s \in Sessions, NEW r \in Runtimes, CreateBegins(s, r) PROVE MapInv'
  BY <1>1, <1>9 DEF CreateBegins
<1>10. ASSUME NEW x \in creating, CreateFails(x) PROVE MapInv'
  BY <1>1, <1>10 DEF CreateFails
<1>11. CASE UNCHANGED registryVars
  BY <1>1, <1>11 DEF registryVars
<1>. QED
  BY <1>2, <1>3, <1>4, <1>5, <1>6, <1>7, <1>8, <1>9, <1>10, <1>11, CreateEndsMaps, StopEndsForgets
     DEF RegistryNext, TtlStep, StopStep, CreateStep

\* The two halves of a stop, and whatever comes between them, leave no session
\* that its owner cannot use and no client that is told of a session it may not
\* use, unless a session was created again in between.
THEOREM MappingsAgreeAlways == RegistrySpec => []MappingsAgree
<1>1. MapInv => MappingsAgree
  BY DEF MapInv, Symmetric, Usable, MappingsAgree
<1>. QED BY MapInitially, RegistryInitially, MapStep, RegistryStep, <1>1, PTL DEF RegistrySpec

\* What the copy of the TTL loop is worth: until its first await the sessions in it
\* are idle still, as nothing else runs.
IdleInv ==
  /\ DOMAIN sessions = Sessions
  /\ \A x \in stops : x.by = "ttl" => ttl = "awaits" /\ \A y \in stops : y.by = "ttl" => x = y
  /\ ttl = "awaits" => awaited
  /\ ttl = "runs" /\ ~awaited => \A s \in idleList : activity[s] = "idle"

\* The TTL loop stops a session in use only if it awaited the stop of another one
\* since it looked, for any number of sessions, clients and runtimes.
THEOREM OnlyIdleAreEvicted == RegistrySpec => EvictsIdle
<1>1. RegistryInit => IdleInv
  BY DEF RegistryInit, IdleInv
<1>2. IdleInv /\ [RegistryNext]_registryVars => IdleInv'
  <2>. SUFFICES ASSUME IdleInv, [RegistryNext]_registryVars PROVE IdleInv'
    OBVIOUS
  <2>. USE DEF IdleInv
  <2>1. CASE Scan
    BY <2>1 DEF Scan, mapVars
  <2>2. ASSUME NEW s \in Sessions, Evict(s) PROVE IdleInv'
    BY <2>2 DEF Evict, StopBegins, IdleInv
  <2>3. CASE RoundEnds
    BY <2>3 DEF RoundEnds, mapVars
  <2>4. ASSUME ttl # "runs", NEW s \in Sessions, CreateFinds(s) \/ Elapse(s) PROVE IdleInv'
    BY <2>4 DEF CreateFinds, Elapse, ttlVars, mapVars
  <2>5. ASSUME ttl # "runs", NEW s \in Sessions, NEW r \in Runtimes, CreateBegins(s, r) PROVE IdleInv'
    BY <2>5 DEF CreateBegins, ttlVars, mapVars
  <2>6. ASSUME ttl # "runs", NEW c \in Clients, NEW s \in Sessions, UseSession(c, s) PROVE IdleInv'
    BY <2>6 DEF UseSession, ttlVars
  <2>7. ASSUME ttl # "runs", NEW c \in Clients, NEW s \in Sessions, DeleteSession(c, s) PROVE IdleInv'
    BY <2>7 DEF DeleteSession, StopBegins, ttlVars
  <2>8. ASSUME ttl # "runs", NEW c \in Clients, NEW d \in Clients, NEW s \in Sessions,
               AuthorizeClient(c, s, d) PROVE IdleInv'
    BY <2>8 DEF AuthorizeClient, ttlVars
  <2>9. ASSUME ttl # "runs", NEW x \in creating, CreateEnds(x) \/ CreateFails(x) PROVE IdleInv'
    BY <2>9 DEF CreateEnds, CreateFails, ttlVars, mapVars
  <2>10. ASSUME ttl # "runs", NEW x \in stops, StopEnds(x) PROVE IdleInv'
    BY <2>10 DEF StopEnds
  <2>11. CASE UNCHANGED registryVars
    BY <2>11 DEF registryVars, mapVars, ttlVars
  <2>. QED
    BY <2>1, <2>2, <2>3, <2>4, <2>5, <2>6, <2>7, <2>8, <2>9, <2>10, <2>11
    DEF RegistryNext, TtlStep, CreateStep, StopStep
<1>3. IdleInv /\ [RegistryNext]_registryVars
        => [\A s \in Sessions : ttl = "runs" /\ sessions'[s] # sessions[s]
              => activity[s] # "recent" \/ awaited]_registryVars
  <2>. SUFFICES ASSUME IdleInv, RegistryNext, NEW s \in Sessions, ttl = "runs",
                       sessions'[s] # sessions[s], ~awaited
                PROVE  activity[s] # "recent"
    OBVIOUS
  <2>1. Scan \/ RoundEnds \/ \E t \in Sessions : Evict(t)
    BY DEF RegistryNext, TtlStep
  <2>2. PICK t \in Sessions : Evict(t)
    BY <2>1 DEF Scan, RoundEnds, mapVars
  <2>3. s = t
    BY <2>2 DEF Evict, StopBegins, IdleInv
  <2>. QED BY <2>2, <2>3 DEF Evict, IdleInv
<1>. QED BY <1>1, <1>2, <1>3, PTL DEF RegistrySpec, EvictsIdle

----------------------------------------------------------------------------
(* GatewayClient: the gateway, for any number of messages and any bus size. *)

AskStages == {"new", "inbound", "waits", "reads", "answered", "replied", "failed", "dropped"}

GatewayTypes ==
  /\ inbound \in Seq(Messages) /\ askLock \in Seq(Messages) /\ submitted \in Seq(Messages)
  /\ ask \in [Messages -> AskStages]
  /\ turnOf \subseteq Messages
  /\ news \in Seq([kind : {"message", "error"}, of : Messages])
  /\ got \in [Messages -> SUBSET Messages]
  /\ timeouts \in Nat /\ warnings \in Nat

Asking == {m \in Messages : ask[m] = "reads"}

\* The ask that reads is at the head of the lock.
LockHeld == \A m \in Asking : HoldsLock(m)

\* A message is in the bus once, and does not ask before it is taken from there.
InBus ==
  \A i \in 1 .. Len(inbound) :
    /\ ask[inbound[i]] = "inbound"
    /\ \A j \in 1 .. Len(inbound) : inbound[i] = inbound[j] => i = j

\* What the session has to do or has done for m, alone: m waits in its queue,
\* is its turn, or has its one event in the stream.
Serves(m) ==
  \/ submitted = <<m>> /\ turnOf = {} /\ news = <<>>
  \/ submitted = <<>> /\ turnOf = {m} /\ news = <<>>
  \/ /\ submitted = <<>> /\ turnOf = {}
     /\ Len(news) = 1 /\ news[1].of = m

\* Nothing of an earlier ask is left in the session when it is free.
NothingLeft ==
  /\ Asking = {} => submitted = <<>> /\ turnOf = {} /\ news = <<>>
  /\ \A m \in Asking : Serves(m)

Untroubled == timeouts = 0 /\ warnings = 0

AskInv == GatewayTypes /\ LockHeld /\ InBus /\ (Untroubled => NothingLeft /\ AnswerIsItsOwn)

\* No message is asked at first.
LEMMA GatewayInitially == GatewayInit => AskInv
BY GatewayAssumption
   DEF GatewayInit, AskInv, GatewayTypes, AskStages, LockHeld, InBus, NothingLeft,
       AnswerIsItsOwn, Asking

\* Only the holder of the lock reads the events of the session.
LEMMA OneReads == ASSUME LockHeld PROVE \A m, k \in Asking : m = k
BY DEF LockHeld, HoldsLock

\* The steps that leave the asks that read, and the session, as they are.
LEMMA AskingStays ==
  ASSUME AskInv, GatewayTypes', InBus', Asking' = Asking,
         \A m \in Asking : HoldsLock(m)',
         UNCHANGED <<submitted, turnOf, news, got, timeouts, warnings>>
  PROVE  AskInv'
<1>1. LockHeld'
  BY DEF LockHeld
<1>2. Untroubled' => Untroubled
  BY DEF Untroubled
<1>3. AnswerIsItsOwn => AnswerIsItsOwn'
  BY DEF AnswerIsItsOwn
<1>4. ASSUME NEW m \in Asking, Serves(m) PROVE Serves(m)'
  BY <1>4 DEF Serves
<1>5. NothingLeft => NothingLeft'
  BY <1>4 DEF NothingLeft
<1>6. Untroubled' => NothingLeft' /\ AnswerIsItsOwn'
  BY <1>2, <1>3, <1>5 DEF AskInv
<1>. QED BY <1>1, <1>6 DEF AskInv

\* A queue that grows keeps its head.
LEMMA LockGrows ==
  ASSUME GatewayTypes, LockHeld, NEW k \in Messages, askLock' = Append(askLock, k)
  PROVE  askLock' \in Seq(Messages) /\ \A m \in Asking : HoldsLock(m)'
<1>1. askLock \in Seq(Messages)
  BY DEF GatewayTypes
<1>2. askLock' \in Seq(Messages) /\ askLock' # <<>>
  BY <1>1
<1>3. askLock # <<>> => Head(askLock') = Head(askLock)
  BY <1>1
<1>. QED BY <1>2, <1>3 DEF LockHeld, HoldsLock

\* What the bus takes in, loses or sends out does not touch the asks.
LEMMA BusStep ==
  ASSUME AskInv, NEW m \in Messages, Publish(m) \/ TimerAsks(m) \/ Reply(m)
  PROVE  AskInv'
<1>. USE DEF AskInv, GatewayTypes, AskStages
<1>1. CASE Publish(m)
  <2>1. CASE Len(inbound) < BusSize
    <3>1. inbound' = Append(inbound, m) /\ ask' = [ask EXCEPT ![m] = "inbound"] /\ ask[m] = "new"
      BY <1>1, <2>1 DEF Publish, SetAsk
    <3>2. InBus'
      BY <3>1 DEF InBus
    <3>3. Asking' = Asking
      BY <3>1 DEF Asking
    <3>. QED BY <1>1, <3>1, <3>2, <3>3, AskingStays DEF Publish, HoldsLock, LockHeld
  <2>2. CASE ~(Len(inbound) < BusSize)
    <3>. DEFINE h == Head(inbound)
    <3>1. Len(inbound) > 0 /\ Len(inbound) \in Nat
      BY <2>2, GatewayAssumption
    <3>2. /\ inbound' = Append(Tail(inbound), m)
          /\ ask' = [ask EXCEPT ![m] = "inbound", ![h] = "dropped"]
          /\ ask[m] = "new"
      BY <1>1, <2>2 DEF Publish
    <3>3. h = inbound[1] /\ h \in Messages /\ ask[h] = "inbound" /\ h # m
      BY <3>1, <3>2 DEF InBus
    <3>4. \A i \in 1 .. Len(inbound) - 1 : inbound'[i] = inbound[i + 1] /\ inbound[i + 1] # h
      <4>1. ASSUME NEW i \in 1 .. Len(inbound) - 1 PROVE inbound[i + 1] # h
        BY <3>1, <3>3 DEF InBus
      <4>2. ASSUME NEW i \in 1 .. Len(inbound) - 1 PROVE inbound'[i] = inbound[i + 1]
        BY <3>1, <3>2
      <4>. QED BY <4>1, <4>2
    <3>5. Len(inbound') = Len(inbound) /\ inbound'[Len(inbound)] = m /\ inbound' \in Seq(Messages)
      BY <3>1, <3>2
    <3>. HIDE DEF h
    <3>6. InBus'
      <4>1. ASSUME NEW i \in 1 .. Len(inbound) - 1
            PROVE  /\ i + 1 \in 1 .. Len(inbound) /\ inbound[i + 1] \in Messages
                   /\ inbound'[i] # m /\ inbound'[i] # h /\ ask[inbound'[i]] = "inbound"
        BY <3>1, <3>2, <3>3, <3>4 DEF InBus
      <4>2. ASSUME NEW i \in 1 .. Len(inbound) - 1, NEW j \in 1 .. Len(inbound) - 1,
                   inbound'[i] = inbound'[j]
            PROVE  i = j
        <5>1. i + 1 \in 1 .. Len(inbound) /\ j + 1 \in 1 .. Len(inbound)
          BY <3>1
        <5>2. inbound[i + 1] = inbound[j + 1]
          BY <3>4, <4>2
        <5>3. i + 1 = j + 1
          BY <5>1, <5>2 DEF InBus
        <5>. QED BY <5>3
      <4>3. ASSUME NEW i \in 1 .. Len(inbound') PROVE ask'[inbound'[i]] = "inbound"
        <5>1. CASE i \in 1 .. Len(inbound) - 1
          BY <3>2, <3>4, <4>1, <5>1
        <5>2. CASE i = Len(inbound)
          BY <3>2, <3>5, <5>2
        <5>. QED BY <3>1, <3>5, <5>1, <5>2
      <4>4. ASSUME NEW i \in 1 .. Len(inbound'), NEW j \in 1 .. Len(inbound'),
                   inbound'[i] = inbound'[j]
            PROVE  i = j
        <5>1. CASE i \in 1 .. Len(inbound) - 1 /\ j \in 1 .. Len(inbound) - 1
          BY <4>2, <4>4, <5>1
        <5>2. CASE i = Len(inbound) \/ j = Len(inbound)
          <6>1. ASSUME NEW k \in 1 .. Len(inbound), inbound'[k] = m PROVE k = Len(inbound)
            <7>1. k \notin 1 .. Len(inbound) - 1
              BY <4>1, <6>1
            <7>. QED BY <3>1, <7>1
          <6>2. i \in 1 .. Len(inbound) /\ j \in 1 .. Len(inbound)
            BY <3>5
          <6>3. inbound'[i] = m /\ inbound'[j] = m
            BY <3>5, <4>4, <5>2
          <6>. QED BY <6>1, <6>2, <6>3
        <5>. QED BY <3>1, <3>5, <5>1, <5>2
      <4>. QED BY <4>3, <4>4 DEF InBus
    <3>7. Asking' = Asking
      BY <3>2, <3>3 DEF Asking
    <3>8. GatewayTypes'
      BY <1>1, <3>2, <3>3, <3>5 DEF Publish
    <3>. QED BY <1>1, <3>6, <3>7, <3>8, AskingStays DEF Publish, HoldsLock, LockHeld
  <2>. QED BY <2>1, <2>2
<1>2. CASE TimerAsks(m)
  <2>1. /\ ask[m] = "new" /\ ask' = [ask EXCEPT ![m] = "waits"]
        /\ askLock' = Append(askLock, m)
        /\ UNCHANGED <<inbound, submitted, turnOf, news, got, timeouts, warnings>>
    BY <1>2 DEF TimerAsks, SetAsk
  <2>2. Asking' = Asking
    BY <2>1 DEF Asking
  <2>3. InBus'
    BY <2>1 DEF InBus
  <2>. QED BY <2>1, <2>2, <2>3, LockGrows, AskingStays
<1>3. CASE Reply(m)
  <2>1. /\ ask[m] = "answered" /\ ask' \in [Messages -> AskStages]
        /\ ask'[m] \in {"replied", "dropped"}
        /\ \A k \in Messages : k # m => ask'[k] = ask[k]
        /\ UNCHANGED <<inbound, askLock, submitted, turnOf, news, got, timeouts, warnings>>
    BY <1>3 DEF Reply, SetAsk
  <2>2. Asking' = Asking
    BY <2>1 DEF Asking
  <2>3. InBus'
    BY <2>1 DEF InBus
  <2>. QED BY <2>1, <2>2, <2>3, AskingStays DEF HoldsLock, LockHeld
<1>. QED BY <1>1, <1>2, <1>3

\* A message that is dispatched queues behind the asks before it.
LEMMA DispatchStep == ASSUME AskInv, Dispatch PROVE AskInv'
<1>. DEFINE h == Head(inbound)
<1>. USE DEF AskInv, GatewayTypes, AskStages
<1>1. /\ Len(inbound) > 0 /\ Len(inbound) \in Nat
      /\ h = inbound[1] /\ h \in Messages /\ ask[h] = "inbound"
  BY DEF Dispatch, InBus
<1>2. /\ inbound' = Tail(inbound)
      /\ ask' = [ask EXCEPT ![h] = "waits"]
      /\ askLock' = Append(askLock, h)
      /\ UNCHANGED <<submitted, turnOf, news, got, timeouts, warnings>>
  BY DEF Dispatch, SetAsk
<1>3. \A i \in 1 .. Len(inbound') :
        i + 1 \in 1 .. Len(inbound) /\ inbound'[i] = inbound[i + 1] /\ inbound[i + 1] # h
  <2>1. ASSUME NEW i \in 1 .. Len(inbound')
        PROVE  i + 1 \in 1 .. Len(inbound) /\ inbound'[i] = inbound[i + 1]
    BY <1>1, <1>2
  <2>2. ASSUME NEW i \in 1 .. Len(inbound') PROVE inbound[i + 1] # h
    BY <1>1, <2>1 DEF InBus
  <2>. QED BY <2>1, <2>2
<1>. HIDE DEF h
<1>4. InBus'
  <2>1. ASSUME NEW i \in 1 .. Len(inbound') PROVE ask'[inbound'[i]] = "inbound"
    <3>1. inbound[i + 1] \in Messages /\ ask[inbound[i + 1]] = "inbound"
      BY <1>1, <1>3 DEF InBus
    <3>. QED BY <1>2, <1>3, <3>1
  <2>2. ASSUME NEW i \in 1 .. Len(inbound'), NEW j \in 1 .. Len(inbound'),
               inbound'[i] = inbound'[j]
        PROVE  i = j
    <3>1. i + 1 = j + 1
      BY <1>3, <2>2 DEF InBus
    <3>. QED BY <3>1
  <2>. QED BY <2>1, <2>2 DEF InBus
<1>5. Asking' = Asking
  BY <1>1, <1>2 DEF Asking
<1>. QED BY <1>1, <1>2, <1>4, <1>5, LockGrows, AskingStays

\* An ask that submits, reads or times out keeps what the session holds with its holder.
LEMMA ClientStep ==
  ASSUME AskInv, NEW m \in Messages, Submit(m) \/ AskReads(m) \/ AskTimesOut(m)
  PROVE  AskInv'
<1>. USE DEF AskInv, GatewayTypes, AskStages
<1>1. CASE Submit(m)
  <2>1. /\ ask[m] = "waits" /\ HoldsLock(m) /\ ask' = [ask EXCEPT ![m] = "reads"]
        /\ submitted' = Append(submitted, m)
        /\ UNCHANGED <<inbound, askLock, turnOf, news, got, timeouts, warnings>>
    BY <1>1 DEF Submit, SetAsk
  <2>2. Asking = {} /\ Asking' = {m}
    BY <2>1 DEF Asking, LockHeld, HoldsLock
  <2>3. InBus' /\ LockHeld'
    BY <2>1, <2>2 DEF InBus, LockHeld, HoldsLock
  <2>4. Untroubled => submitted' = <<m>> /\ turnOf' = {} /\ news' = <<>>
    BY <2>1, <2>2 DEF NothingLeft
  <2>5. Untroubled' => NothingLeft' /\ AnswerIsItsOwn'
    BY <2>1, <2>2, <2>4 DEF NothingLeft, Serves, AnswerIsItsOwn, Untroubled
  <2>. QED BY <2>1, <2>3, <2>5
<1>2. CASE AskReads(m)
  <2>1. /\ ask[m] = "reads" /\ news # <<>> /\ news' = Tail(news) /\ askLock' = Tail(askLock)
        /\ ask' \in [Messages -> AskStages] /\ ask'[m] \in {"answered", "failed"}
        /\ \A k \in Messages : k # m => ask'[k] = ask[k]
        /\ UNCHANGED <<inbound, submitted, turnOf, timeouts, warnings>>
    BY <1>2 DEF AskReads, SetAsk, Unlock
  <2>2. m \in Asking /\ Asking' = {} /\ askLock # <<>>
    BY <2>1, OneReads DEF Asking, LockHeld, HoldsLock
  <2>3. InBus' /\ LockHeld'
    BY <2>1, <2>2 DEF InBus, LockHeld
  <2>4. got' = got \/ got' = [got EXCEPT ![m] = {news[1].of}]
    BY <1>2, <2>1 DEF AskReads
  <2>5. /\ news[1].of \in Messages /\ askLock' \in Seq(Messages)
        /\ news' \in Seq([kind : {"message", "error"}, of : Messages])
    <3>. DEFINE Event == [kind : {"message", "error"}, of : Messages]
    <3>1. \A e \in Event : e.of \in Messages
      OBVIOUS
    <3>2. news \in Seq(Event)
      OBVIOUS
    <3>. HIDE DEF Event
    <3>3. news[1] \in Event /\ Tail(news) \in Seq(Event)
      BY <2>1, <3>2
    <3>. QED BY <2>1, <2>2, <3>1, <3>3 DEF Event
  <2>6. Untroubled => submitted = <<>> /\ turnOf = {} /\ Len(news) = 1 /\ news[1].of = m
    BY <2>1, <2>2 DEF NothingLeft, Serves
  <2>7. Untroubled => news' = <<>>
    BY <2>1, <2>6
  <2>8. Untroubled' => NothingLeft' /\ AnswerIsItsOwn'
    BY <2>1, <2>2, <2>4, <2>6, <2>7 DEF NothingLeft, AnswerIsItsOwn, Untroubled
  <2>9. got' \in [Messages -> SUBSET Messages]
    <3>1. {news[1].of} \in SUBSET Messages
      BY <2>5
    <3>. QED BY <2>4, <3>1
  <2>. QED BY <2>1, <2>3, <2>5, <2>8, <2>9
<1>3. CASE AskTimesOut(m)
  <2>1. /\ ask[m] = "reads" /\ ask' = [ask EXCEPT ![m] = "failed"]
        /\ askLock' = Tail(askLock) /\ timeouts' = timeouts + 1
        /\ UNCHANGED <<inbound, submitted, turnOf, news, got, warnings>>
    BY <1>3 DEF AskTimesOut, SetAsk, Unlock
  <2>2. m \in Asking /\ Asking' = {} /\ askLock # <<>>
    BY <2>1, OneReads DEF Asking, LockHeld, HoldsLock
  <2>3. InBus' /\ LockHeld' /\ askLock' \in Seq(Messages)
    BY <2>1, <2>2 DEF InBus, LockHeld
  <2>4. ~Untroubled'
    BY <2>1 DEF Untroubled
  <2>. QED BY <2>1, <2>3, <2>4
<1>. QED BY <1>1, <1>2, <1>3

\* The session serves and reports for the holder of the lock only.
LEMMA ServerStep ==
  ASSUME AskInv, SessionStep \/ TurnWarns
  PROVE  AskInv'
<1>. USE DEF AskInv, GatewayTypes
<1>1. UNCHANGED <<inbound, ask, askLock, got, timeouts>> /\ Asking' = Asking
  BY DEF SessionStep, TurnStarts, TurnReports, TurnWarns, Asking
<1>2. InBus' /\ LockHeld' /\ AnswerIsItsOwn' = AnswerIsItsOwn
  BY <1>1 DEF InBus, LockHeld, HoldsLock, AnswerIsItsOwn
<1>3. CASE TurnStarts
  <2>1. /\ turnOf = {} /\ submitted # <<>> /\ turnOf' = {Head(submitted)}
        /\ submitted' = Tail(submitted) /\ news' = news /\ warnings' = warnings
    BY <1>3 DEF TurnStarts
  <2>2. ASSUME Untroubled, NEW m \in Asking PROVE Serves(m)'
    BY <1>1, <2>1, <2>2 DEF NothingLeft, Serves
  <2>3. Untroubled => Asking # {}
    BY <2>1 DEF NothingLeft
  <2>. QED BY <1>1, <1>2, <2>1, <2>2, <2>3 DEF NothingLeft, Untroubled
<1>4. CASE TurnReports
  <2>1. PICK e \in [kind : {"message", "error"}, of : turnOf] : news' = Append(news, e)
    BY <1>4 DEF TurnReports
  <2>2. turnOf # {} /\ turnOf' = {} /\ submitted' = submitted /\ warnings' = warnings
    BY <1>4 DEF TurnReports
  <2>3. ASSUME Untroubled, NEW m \in Asking PROVE Serves(m)'
    BY <1>1, <2>1, <2>2, <2>3 DEF NothingLeft, Serves
  <2>4. Untroubled => Asking # {}
    BY <2>2 DEF NothingLeft
  <2>. QED BY <1>1, <1>2, <2>1, <2>2, <2>3, <2>4 DEF NothingLeft, Untroubled
<1>5. CASE TurnWarns
  <2>1. warnings' = warnings + 1 /\ turnOf' = turnOf /\ submitted' = submitted
        /\ \E m \in turnOf : news' = Append(news, [kind |-> "error", of |-> m])
    BY <1>5 DEF TurnWarns
  <2>2. ~Untroubled'
    BY <2>1 DEF Untroubled
  <2>. QED BY <1>1, <1>2, <2>1, <2>2
<1>. QED BY <1>3, <1>4, <1>5 DEF SessionStep

\* Every step of the gateway keeps the answers with their asks.
LEMMA GatewayInvStep == AskInv /\ [GatewayNext]_gatewayVars => AskInv'
<1>. SUFFICES ASSUME AskInv, [GatewayNext]_gatewayVars PROVE AskInv'
  OBVIOUS
<1>1. CASE UNCHANGED gatewayVars
  BY <1>1 DEF gatewayVars, AskInv, GatewayTypes, LockHeld, HoldsLock, InBus, Asking,
              NothingLeft, Serves, AnswerIsItsOwn, Untroubled
<1>2. CASE ChannelSends
  <2>1. UNCHANGED <<inbound, ask, askLock, submitted, turnOf, news, got, timeouts, warnings>>
    BY <1>2 DEF ChannelSends
  <2>. QED
    BY <2>1 DEF AskInv, GatewayTypes, LockHeld, HoldsLock, InBus, Asking,
                NothingLeft, Serves, AnswerIsItsOwn, Untroubled
<1>. QED
  BY <1>1, <1>2, BusStep, DispatchStep, ClientStep, ServerStep DEF GatewayNext, AskStep

\* Turns that fail, messages that are dropped and asks in any order leave no
\* answer to the ask of another.
THEOREM AnswersAreMatched == GatewaySpec => []AnswersMatch
<1>1. AskInv => AnswersMatch
  BY DEF AskInv, AnswersMatch, Untroubled
<1>. QED BY GatewayInitially, GatewayInvStep, <1>1, PTL DEF GatewaySpec
=============================================================================
