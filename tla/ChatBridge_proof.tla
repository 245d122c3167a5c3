-------------------------- MODULE ChatBridge_proof --------------------------
(***************************************************************************)
(* Proofs about the bridge, for any number of requests and whatever the    *)
(* session under it does.  The drains of a session take turns although     *)
(* chat.abort frees the lock under a reading drain and the stale-turn      *)
(* guard takes it from one: the proof says what links the lock, the        *)
(* released drain and the predecessor a drain waits for.                   *)
(***************************************************************************)
EXTENDS ChatBridge, RuntimeSessionRecords_proof

Open(r) == drain[r] \in {"created", "awaiting", "draining"}

DrainsOK ==
  /\ drain \in [Reqs -> {"none", "created", "awaiting", "draining", "done"}]
  /\ waitsFor \in [Reqs -> Reqs \cup {None}]
  /\ lock \in Reqs \cup {None} /\ released \in Reqs \cup {None}

\* Requests are numbered in the order in which they were made.
InOrder == \A q, r \in Reqs : q <= r /\ drain[q] = "none" => drain[r] = "none"

\* The lock is with the last request, and every other drain that has not ended was
\* released: the last of them to be released is the one to wait for.
LockAndReleased ==
  /\ lock # None => Open(lock) /\ \A q \in Reqs : q > lock => drain[q] = "none"
  /\ released # None => Open(released) /\ released # lock
  /\ \A q \in Reqs : Open(q) /\ q # lock => released # None /\ q <= released

\* A drain that waits does so for the last of those that were before it, or for one
\* that was released after it was created and may be itself.
Awaits(r) ==
  LET w == waitsFor[r] IN
  /\ w \in Reqs /\ w # lock /\ drain[w] # "none"
  /\ \/ \A q \in Reqs : q < r => drain[q] = "done"
     \/ /\ drain[w] # "done"
        /\ w >= r \/ \A q \in Reqs : q < r /\ drain[q] # "done" => q <= w

DrainsInv ==
  /\ DrainsOK /\ InOrder /\ LockAndReleased /\ SerialDrains
  /\ \A r \in Reqs : drain[r] = "awaiting" => Awaits(r)

\* The invariant holds before the first request.
LEMMA DrainsInitially == BridgeInit => DrainsInv
BY ChatFaultsAssumption
DEF BridgeInit, DrainsInv, DrainsOK, InOrder, LockAndReleased, SerialDrains, Awaits, Open, Reqs, None

\* Every step of the bridge keeps it when no handler of chat.send suspends between
\* its look at the lock and the drain that takes it.
LEMMA DrainsStep ==
  ASSUME "mode" \notin ChatFaults, DrainsInv, [BridgeNext]_bridgeVars
  PROVE  DrainsInv'
<1>0. Reqs \subseteq Nat /\ None \in Nat /\ None \notin Reqs
  BY ChatFaultsAssumption DEF Reqs, None
<1>. USE DEF DrainsInv
<1>1. ASSUME NEW r \in Reqs, Send(r) PROVE DrainsInv'
  <2>0. /\ \A q \in Reqs : drain[q] = "none" <=> q >= r
        /\ lock = None /\ lock' = r /\ drain' = [drain EXCEPT ![r] = "created"]
        /\ UNCHANGED <<waitsFor, released>>
    BY <1>1 DEF Send, Accept, Spawn, IsNext
  <2>1. DrainsOK'
    BY <2>0 DEF DrainsOK
  <2>2. InOrder'
    BY <1>0, <2>0 DEF DrainsOK, InOrder
  <2>3. LockAndReleased'
    BY <1>0, <2>0 DEF DrainsOK, InOrder, LockAndReleased, Open
  <2>4. SerialDrains'
    BY <1>0, <2>0 DEF DrainsOK, SerialDrains
  <2>5. ASSUME NEW q \in Reqs, drain'[q] = "awaiting" PROVE Awaits(q)'
    BY <1>0, <2>0, <2>5 DEF DrainsOK, Awaits
  <2>. QED BY <2>1, <2>2, <2>3, <2>4, <2>5
<1>2. ASSUME NEW r \in Reqs, SendStale(r) PROVE DrainsInv'
  <2>0. /\ \A q \in Reqs : drain[q] = "none" <=> q >= r
        /\ lock \in Reqs /\ lock' = r /\ Open(lock) /\ lock # r
        /\ drain' = [[drain EXCEPT ![lock] = "done"] EXCEPT ![r] = "created"]
        /\ UNCHANGED <<waitsFor, released>>
    BY <1>0, <1>2 DEF SendStale, Accept, Spawn, IsNext, Open, DrainsOK
  <2>a. \A q \in Reqs : drain'[q] = IF q = r THEN "created" ELSE IF q = lock THEN "done" ELSE drain[q]
    BY <2>0 DEF DrainsOK
  <2>1. DrainsOK'
    BY <2>0 DEF DrainsOK
  <2>b. \A q \in Reqs : drain'[q] = "none" <=> q > r
    <3>. TAKE q \in Reqs
    <3>1. q \in Nat /\ r \in Nat /\ lock \in Nat
      BY <1>0, <2>0
    <3>2. ~(lock >= r)
      BY <2>0 DEF Open
    <3>3. CASE q = r
      BY <2>a, <3>1, <3>3
    <3>4. CASE q = lock /\ q # r
      BY <2>a, <3>1, <3>2, <3>4
    <3>5. CASE q # r /\ q # lock
      <4>1. drain'[q] = drain[q]
        BY <2>a, <3>5
      <4>2. drain[q] = "none" <=> q >= r
        BY <2>0
      <4>3. q >= r <=> q > r
        BY <3>1, <3>5
      <4>. QED BY <4>1, <4>2, <4>3
    <3>. QED BY <3>3, <3>4, <3>5
  <2>2. InOrder'
    BY <1>0, <2>b DEF InOrder
  <2>3. LockAndReleased'
    BY <1>0, <2>0, <2>a DEF DrainsOK, InOrder, LockAndReleased, Open
  <2>4. SerialDrains'
    BY <1>0, <2>0, <2>a DEF DrainsOK, SerialDrains
  <2>5. ASSUME NEW q \in Reqs, drain'[q] = "awaiting" PROVE Awaits(q)'
    <3>1. drain[q] = "awaiting" /\ q # lock /\ q # r /\ q < r
      <4>1. q \in Nat /\ r \in Nat /\ ~(q > r) /\ q # r /\ q # lock
        BY <1>0, <2>a, <2>b, <2>5
      <4>2. drain'[q] = drain[q]
        BY <2>a, <4>1
      <4>3. q < r
        BY <4>1
      <4>. QED BY <2>5, <4>1, <4>2, <4>3
    <3>2. Awaits(q)
      BY <3>1
    <3>3. waitsFor[q] \in Nat /\ r \in Nat /\ ~(waitsFor[q] >= r)
      BY <1>0, <2>0, <3>2 DEF Awaits
    <3>4. waitsFor[q] # r /\ waitsFor[q] # lock /\ drain'[waitsFor[q]] = drain[waitsFor[q]]
      <4>1. waitsFor[q] # r
        BY <3>3
      <4>. QED BY <2>a, <3>2, <4>1 DEF Awaits
    <3>5. \A p \in Reqs : p < q => p # r /\ (drain[p] = "done" => drain'[p] = "done")
      BY <1>0, <2>a, <3>1
    <3>. QED BY <2>0, <3>2, <3>4, <3>5 DEF Awaits
  <2>. QED BY <2>1, <2>2, <2>3, <2>4, <2>5
<1>3. ASSUME NEW r \in Reqs, SendResumes(r) PROVE DrainsInv'
  BY <1>3 DEF SendResumes, DrainsOK
<1>4. CASE Abort
  <2>0. /\ UNCHANGED <<drain, waitsFor>> /\ lock' = None
        /\ released' = IF lock = None THEN released ELSE lock
    BY <1>4 DEF Abort, ReleaseTurnLock
  <2>1. DrainsOK' /\ InOrder' /\ SerialDrains'
    BY <2>0 DEF DrainsOK, InOrder, SerialDrains
  <2>2. LockAndReleased'
    BY <1>0, <2>0 DEF DrainsOK, LockAndReleased, Open
  <2>3. ASSUME NEW q \in Reqs, drain'[q] = "awaiting" PROVE Awaits(q)'
    BY <1>0, <2>0, <2>3 DEF Awaits
  <2>. QED BY <2>1, <2>2, <2>3
<1>5. ASSUME NEW r \in Reqs, DrainStart(r) PROVE DrainsInv'
  <2>0. /\ UNCHANGED <<lock, released>> /\ drain[r] = "created"
        /\ drain' = [drain EXCEPT ![r] = IF released = None THEN "draining" ELSE "awaiting"]
        /\ waitsFor' = [waitsFor EXCEPT ![r] = released]
    BY <1>5 DEF DrainStart, lockVars
  <2>a. released = None => \A q \in Reqs : q < r => drain[q] = "done"
    <3>. SUFFICES ASSUME released = None, NEW q \in Reqs, q < r PROVE drain[q] = "done"
      OBVIOUS
    <3>1. r = lock /\ q # lock
      BY <1>0, <2>0 DEF LockAndReleased, Open
    <3>2. drain[q] # "none"
      BY <1>0, <2>0 DEF InOrder
    <3>. QED BY <3>1, <3>2 DEF DrainsOK, LockAndReleased, Open
  <2>b. released # None => \A q \in Reqs : q < r /\ drain[q] # "done" => q <= released
    <3>. SUFFICES ASSUME released # None, NEW q \in Reqs, q < r, drain[q] # "done" PROVE q <= released
      OBVIOUS
    <3>1. Open(q)
      BY <1>0, <2>0 DEF InOrder, DrainsOK, Open
    <3>2. q # lock
      BY <1>0, <2>0 DEF LockAndReleased
    <3>. QED BY <3>1, <3>2 DEF LockAndReleased
  <2>1. DrainsOK'
    BY <2>0 DEF DrainsOK
  <2>2. InOrder'
    BY <1>0, <2>0 DEF DrainsOK, InOrder
  <2>3. LockAndReleased'
    BY <1>0, <2>0 DEF DrainsOK, LockAndReleased, Open
  <2>4. SerialDrains'
    BY <1>0, <2>0, <2>a DEF DrainsOK, SerialDrains
  <2>5. ASSUME NEW q \in Reqs, drain'[q] = "awaiting" PROVE Awaits(q)'
    <3>1. CASE q = r
      BY <1>0, <2>0, <2>b, <2>5, <3>1 DEF DrainsOK, LockAndReleased, Open, Awaits
    <3>2. CASE q # r
      BY <1>0, <2>0, <2>5, <3>2 DEF DrainsOK, Awaits
    <3>. QED BY <3>1, <3>2
  <2>. QED BY <2>1, <2>2, <2>3, <2>4, <2>5
<1>6. ASSUME NEW r \in Reqs, DrainGo(r) PROVE DrainsInv'
  <2>0. /\ UNCHANGED <<lock, released, waitsFor>> /\ drain[r] = "awaiting" /\ drain[waitsFor[r]] = "done"
        /\ drain' = [drain EXCEPT ![r] = "draining"]
    BY <1>6 DEF DrainGo, lockVars
  <2>a. \A q \in Reqs : q < r => drain[q] = "done"
    BY <2>0 DEF Awaits
  <2>1. DrainsOK'
    BY <2>0 DEF DrainsOK
  <2>2. InOrder'
    BY <1>0, <2>0 DEF DrainsOK, InOrder
  <2>3. LockAndReleased'
    BY <1>0, <2>0 DEF DrainsOK, LockAndReleased, Open
  <2>4. SerialDrains'
    BY <1>0, <2>0, <2>a DEF DrainsOK, SerialDrains
  <2>5. ASSUME NEW q \in Reqs, drain'[q] = "awaiting" PROVE Awaits(q)'
    BY <1>0, <2>0, <2>5 DEF DrainsOK, Awaits
  <2>. QED BY <2>1, <2>2, <2>3, <2>4, <2>5
<1>7. ASSUME NEW r \in Reqs, drain[r] = "draining", UNCHANGED waitsFor, NEW e, DrainEnds(r, e)
      PROVE  DrainsInv'
  <2>0. /\ drain' = [drain EXCEPT ![r] = "done"]
        /\ lock' = (IF lock = r THEN None ELSE lock)
        /\ released' = IF released = r THEN None ELSE released
    BY <1>7 DEF DrainEnds
  <2>a. \A q \in Reqs : q < r => drain[q] = "done"
    BY <1>7 DEF SerialDrains
  <2>1. DrainsOK'
    BY <1>7, <2>0 DEF DrainsOK
  <2>2. InOrder'
    BY <1>0, <1>7, <2>0 DEF DrainsOK, InOrder
  <2>3. LockAndReleased'
    BY <1>0, <2>0, <2>a DEF DrainsOK, LockAndReleased, Open
  <2>4. SerialDrains'
    BY <1>0, <2>0, <2>a DEF DrainsOK, SerialDrains
  <2>5. ASSUME NEW q \in Reqs, drain'[q] = "awaiting" PROVE Awaits(q)'
    <3>1. drain[q] = "awaiting" /\ q > r /\ waitsFor' = waitsFor
      BY <1>0, <1>7, <2>0, <2>a, <2>5 DEF DrainsOK
    <3>2. waitsFor[q] \in Reqs /\ waitsFor[q] # lock' /\ drain'[waitsFor[q]] # "none"
      BY <1>0, <1>7, <2>0, <3>1 DEF DrainsOK, Awaits
    <3>3. CASE waitsFor[q] = r
      BY <1>0, <1>7, <2>0, <2>a, <3>1, <3>2, <3>3 DEF DrainsOK, Awaits
    <3>4. CASE waitsFor[q] # r
      BY <1>0, <1>7, <2>0, <3>1, <3>2, <3>4 DEF DrainsOK, Awaits
    <3>. QED BY <3>3, <3>4
  <2>. QED BY <2>1, <2>2, <2>3, <2>4, <2>5
<1>8. ASSUME UNCHANGED <<drain, waitsFor, lock, released>> PROVE DrainsInv'
  BY <1>8 DEF DrainsOK, InOrder, LockAndReleased, SerialDrains, Awaits, Open
<1>9. ASSUME NEW r \in Reqs, DrainEvent(r) PROVE DrainsInv'
  <2>1. \/ UNCHANGED <<drain, waitsFor, lock, released>>
        \/ DrainEnds(r, Head(events)) /\ UNCHANGED waitsFor
    BY <1>9 DEF DrainEvent, lockVars
  <2>. QED BY <1>7, <1>8, <1>9, <2>1 DEF DrainEvent
<1>10. ASSUME NEW r \in Reqs, DrainTimeout(r) PROVE DrainsInv'
  BY <1>7, <1>10 DEF DrainTimeout
<1>11. CASE SessionStep \/ UNCHANGED bridgeVars
  BY <1>8, <1>11 DEF SessionStep, bridgeVars, chatVars
<1>. QED
  BY <1>1, <1>2, <1>3, <1>4, <1>5, <1>6, <1>9, <1>10, <1>11 DEF BridgeNext, DrainStep

\* While no reasoning mode is persisted, the drains of a session read its events one
\* after the other, in the order of the requests, for any number of requests, aborts
\* (also one that overtakes the first step of a drain), stale turns and timeouts.
THEOREM DrainsAreSerial == ("mode" \notin ChatFaults) /\ BridgeSpec => []SerialDrains
<1>. SUFFICES ASSUME "mode" \notin ChatFaults PROVE BridgeSpec => []SerialDrains
  OBVIOUS
<1>1. DrainsInv /\ [BridgeNext]_bridgeVars => DrainsInv'
  BY DrainsStep
<1>2. DrainsInv => SerialDrains
  BY DEF DrainsInv
<1>. QED BY DrainsInitially, <1>1, <1>2, PTL DEF BridgeSpec

----------------------------------------------------------------------------
(* The events of a turn in the queue of the session, behind which another  *)
(* drain may wait.  A terminal event is the last of its turn from when it  *)
(* is emitted until it is read, and when it has been read no event of the  *)
(* turn is emitted any more, because the turn has ended.                   *)

IsTerminal(e) == e.type \in TerminalTypes /\ e.turn # None
Gone(turn) == \A i \in 1 .. Len(events) : events[i].turn # turn

EndsInv ==
  /\ events \in Seq(EventRecords)
  /\ \A i \in 1 .. Len(events) : IsTerminal(events[i]) =>
       /\ said[events[i].turn] # <<>>
       /\ \A j \in i + 1 .. Len(events) : events[j].turn # events[i].turn
  /\ \A r \in Reqs : IsTerminal(endedBy[r]) =>
       said[endedBy[r].turn] # <<>> /\ Gone(endedBy[r].turn)

\* A drain, from when it is made, is for a turn; one that was not made did not end.
OwnTurns ==
  /\ drain \in [Reqs -> {"none", "persisting", "created", "awaiting", "draining", "done"}]
  /\ turnOf \in [Reqs -> Ids \cup {None}] /\ endedBy \in [Reqs -> [type : EventTypes \cup {"none", "timeout"}, turn : Ids \cup {None}]]
  /\ lock \in Reqs \cup {None}
  /\ \A r \in Reqs : IF drain[r] \in {"none", "persisting"} THEN endedBy[r] = NoEvent ELSE turnOf[r] # None

\* The submissions of the bridge.
BridgeAsks == \A w \in Accepted : Kind(w) \in {"user", "abort"}

\* What a step of the session under the bridge does to the events: it adds one about a
\* turn that has said nothing yet, or about none, or the oldest is read.
Emits(u) ==
  \E type \in EventTypes :
    /\ events' = Append(events, Event(type, u))
    /\ u # None => u \in Ids /\ said[u] = <<>> /\ (type \in TerminalTypes => said'[u] # <<>>)
SaysMore == \A u \in Ids : said[u] # <<>> => said'[u] # <<>>

\* The invariant of the events is kept by such a step when drains end on what they read.
LEMMA EmitsKeeps ==
  ASSUME EndsInv, OwnTurns, NEW u \in Ids \cup {None}, Emits(u), SaysMore, UNCHANGED endedBy
  PROVE  EndsInv'
<1>1. PICK type \in EventTypes : /\ events' = Append(events, Event(type, u))
                                 /\ u # None => said[u] = <<>> /\ (type \in TerminalTypes => said'[u] # <<>>)
  BY DEF Emits
<1>2. Event(type, u) \in EventRecords /\ Event(type, u).turn = u /\ Event(type, u).type = type
  BY DEF Event, EventRecords
<1>3. /\ Len(events) \in Nat /\ Len(events') = Len(events) + 1 /\ events' \in Seq(EventRecords)
      /\ \A i \in 1 .. Len(events) : events'[i] = events[i] /\ events[i] \in EventRecords
      /\ events'[Len(events) + 1] = Event(type, u)
  BY <1>1, <1>2, AppendProperties, ElementOfSeq DEF EndsInv
<1>4. ASSUME NEW i \in 1 .. Len(events'), IsTerminal(events'[i])
      PROVE  /\ said'[events'[i].turn] # <<>>
             /\ \A j \in i + 1 .. Len(events') : events'[j].turn # events'[i].turn
  <2>1. CASE i = Len(events) + 1
    BY <1>1, <1>2, <1>3, <1>4, <2>1 DEF IsTerminal
  <2>2. CASE i \in 1 .. Len(events)
    <3>1. /\ events'[i] = events[i] /\ events[i].turn \in Ids /\ said[events[i].turn] # <<>>
          /\ \A j \in i + 1 .. Len(events) : events[j].turn # events[i].turn
      BY <1>3, <1>4, <2>2 DEF EndsInv, IsTerminal, EventRecords
    <3>2. u # events[i].turn
      BY <1>1, <3>1 DEF Ids, None
    <3>3. ASSUME NEW j \in i + 1 .. Len(events') PROVE events'[j].turn # events'[i].turn
      BY <1>2, <1>3, <2>2, <3>1, <3>2
    <3>. QED BY <3>1, <3>3 DEF SaysMore
  <2>. QED BY <1>3, <2>1, <2>2
<1>5. ASSUME NEW r \in Reqs, IsTerminal(endedBy[r]), endedBy[r].turn \in Ids
      PROVE  said'[endedBy[r].turn] # <<>> /\ \A i \in 1 .. Len(events') : events'[i].turn # endedBy[r].turn
  <2>1. said[endedBy[r].turn] # <<>> /\ \A i \in 1 .. Len(events) : events[i].turn # endedBy[r].turn
    BY <1>5 DEF EndsInv, Gone
  <2>2. u # endedBy[r].turn
    BY <1>1, <1>5, <2>1 DEF Ids, None
  <2>. QED BY <1>2, <1>3, <1>5, <2>1, <2>2 DEF SaysMore
<1>6. \A r \in Reqs : IsTerminal(endedBy[r]) => endedBy[r].turn \in Ids
  BY DEF OwnTurns, IsTerminal
<1>. QED BY <1>3, <1>4, <1>5, <1>6 DEF EndsInv, Gone, IsTerminal

\* So it is when nothing is emitted and a drain ends, on no event of the session.
LEMMA QuietKeeps ==
  ASSUME EndsInv, OwnTurns, UNCHANGED <<events, said>>,
         \A r \in Reqs : endedBy'[r] = endedBy[r] \/ ~IsTerminal(endedBy'[r])
  PROVE  EndsInv'
BY DEF EndsInv, Gone, IsTerminal

\* And when the oldest event is read, by a drain that may end with it.
LEMMA ReadKeeps ==
  ASSUME EndsInv, OwnTurns, events # <<>>, events' = Tail(events), UNCHANGED said,
         \A r \in Reqs : endedBy'[r] = endedBy[r] \/ endedBy'[r] = Head(events)
  PROVE  EndsInv'
<1>1. /\ Len(events) \in Nat /\ Len(events') = Len(events) - 1 /\ events' \in Seq(EventRecords)
      /\ \A i \in 1 .. Len(events') : events'[i] = events[i + 1] /\ i + 1 \in 1 .. Len(events)
      /\ Head(events) = events[1] /\ 1 \in 1 .. Len(events)
  BY DEF EndsInv
<1>2. ASSUME NEW i \in 1 .. Len(events'), IsTerminal(events'[i])
      PROVE  /\ said[events'[i].turn] # <<>>
             /\ \A j \in i + 1 .. Len(events') : events'[j].turn # events'[i].turn
  <2>1. /\ said[events[i + 1].turn] # <<>>
        /\ \A j \in (i + 1) + 1 .. Len(events) : events[j].turn # events[i + 1].turn
    BY <1>1, <1>2 DEF EndsInv
  <2>2. \A j \in i + 1 .. Len(events') : events'[j] = events[j + 1] /\ j + 1 \in (i + 1) + 1 .. Len(events)
    BY <1>1
  <2>. QED BY <1>1, <2>1, <2>2
<1>3. ASSUME NEW r \in Reqs, IsTerminal(endedBy'[r])
      PROVE  /\ said[endedBy'[r].turn] # <<>>
             /\ \A i \in 1 .. Len(events') : events'[i].turn # endedBy'[r].turn
  <2>1. CASE endedBy'[r] = endedBy[r]
    <3>1. said[endedBy[r].turn] # <<>> /\ Gone(endedBy[r].turn)
      BY <1>3, <2>1 DEF EndsInv
    <3>. QED BY <1>1, <2>1, <3>1 DEF Gone
  <2>2. CASE endedBy'[r] = events[1]
    <3>1. /\ said[events[1].turn] # <<>>
          /\ \A j \in 1 + 1 .. Len(events) : events[j].turn # events[1].turn
      BY <1>1, <1>3, <2>2 DEF EndsInv
    <3>2. \A i \in 1 .. Len(events') : i + 1 \in 1 + 1 .. Len(events)
      BY <1>1
    <3>. QED BY <1>1, <2>2, <3>1, <3>2
  <2>. QED BY <1>1, <1>3, <2>1, <2>2
<1>. QED BY <1>1, <1>2, <1>3 DEF EndsInv, Gone, IsTerminal

\* The session under the bridge.
SessionInv == TypeInv /\ TurnInv /\ OrderInv /\ WaitInv /\ RecordsInv

\* What the bridge does to the session are steps of the session.
LEMMA BridgeStepsSession == BridgeNext => [Next]_vars
BY BridgeKindsAssumption
DEF BridgeNext, Send, SendStale, SendResumes, Accept, Spawn, DrainStep, DrainStart, DrainGo, DrainEvent,
    DrainTimeout, Abort, SessionStep, Next

\* A step of a task or of the loop tells of a turn that has told nothing, or of none.
LEMMA SessionEmits ==
  ASSUME SessionInv, BridgeAsks, (\E w \in Ids : TaskStep(w)) \/ LoopStep
  PROVE  SaysMore /\ (UNCHANGED events \/ \E u \in Ids \cup {None} : Emits(u))
<1>0. said \in [Ids -> Seq(TerminalTypes)]
  BY DEF SessionInv, TypeInv, EventInv
<1>1. CASE LoopStep
  BY <1>1, LoopLeavesRecords DEF SaysMore, Emits
<1>2. ASSUME NEW w \in Ids, TaskStep(w)
      PROVE  SaysMore /\ (UNCHANGED events \/ \E u \in Ids \cup {None} : Emits(u))
  <2>1. w \in Accepted /\ Unfinished(w) /\ w # None
    BY <1>2, OthersStay DEF SessionInv, Ids, None
  <2>2. stage[w] \in PutStages \cup {"compact"} => Turn(w) = w /\ said[w] = <<>>
    BY <2>1 DEF SessionInv, RecordsInv, KindFits, SaidFits, BridgeAsks, TurnStages, CommandStages, BodyStages,
           ErrorStages, AbortStages, ShellStages, ShellErrorStages, ShellAbortStages, PutStages, EventPut,
           IsTurn, Unfinished
  <2>3. \/ UNCHANGED <<events, said>>
        \/ stage[w] \in PutStages \cup {"compact"} /\ \E type \in EventTypes : Emit(Event(type, Turn(w)))
    BY <1>2, WriteTables
       DEF TaskStep, Begin, BeginFails, ReadSnapshot, StoreStep, StoreFails, Compact, RunModel,
           Execute, PutStep, DeliverCancel, eventVars, EventTypes
  <2>4. CASE UNCHANGED <<events, said>>
    BY <2>4 DEF SaysMore
  <2>5. ASSUME NEW type \in EventTypes, said[w] = <<>>, Emit(Event(type, w))
        PROVE  SaysMore /\ Emits(w)
    <3>1. events' = Append(events, Event(type, w))
          /\ said' = IF type \in TerminalTypes THEN [said EXCEPT ![w] = Append(@, type)] ELSE said
      BY <2>1, <2>5 DEF Emit, Event
    <3>2. type \in TerminalTypes => Append(said[w], type) # <<>>
      BY <2>5
    <3>. QED BY <1>0, <2>1, <2>5, <3>1, <3>2 DEF SaysMore, Emits
  <2>. QED BY <2>2, <2>3, <2>4, <2>5
<1>. QED BY <1>1, <1>2

\* The bridge starts with no event, no submission and no drain.
LEMMA BridgeStarts == BridgeInit => SessionInv /\ BridgeAsks /\ OwnTurns /\ EndsInv
<1> SUFFICES ASSUME BridgeInit PROVE SessionInv /\ BridgeAsks /\ OwnTurns /\ EndsInv
  OBVIOUS
<1>1. Init /\ SessionInv
  BY InitTypeInv, InitTurnInv, InitOrderInv, InitWaitInv, InitRecordsInv DEF BridgeInit, SessionInv
<1>2. BridgeAsks
  BY <1>1 DEF Init, BridgeAsks, Accepted
<1>3. OwnTurns
  BY DEF BridgeInit, OwnTurns, NoEvent, Event
<1>4. events = <<>> /\ Len(events) = 0 /\ events \in Seq(EventRecords)
  BY <1>1 DEF Init
<1>5. \A r \in Reqs : ~IsTerminal(endedBy[r])
  BY DEF BridgeInit, NoEvent, Event, IsTerminal, TerminalTypes
<1>. QED BY <1>1, <1>2, <1>3, <1>4, <1>5 DEF EndsInv

\* Submitting makes a submission of the kind it says.
LEMMA AsksMore ==
  ASSUME SessionInv, BridgeAsks, NEW kind \in {"user", "abort"}, NEW t \in Threads, Submit(kind, t)
  PROVE  BridgeAsks' /\ Len(sub) + 1 \in Ids /\ UNCHANGED <<events, said>>
<1>0. sub \in Seq(Submissions) /\ Len(sub) \in Nat /\ TypeInv /\ kind \in Kinds
  BY BridgeKindsAssumption DEF SessionInv, TypeInv, LoopInv
<1>1. PICK w \in Ids : w = Len(sub) + 1
  BY <1>0, SubmitWaits
<1>2. Accepted' = Accepted \cup {w} /\ \A u \in Accepted : sub'[u] = sub[u]
  BY <1>0, <1>1, SubmitWaits
<1>3. sub'[w] = [kind |-> kind, thread |-> t, turn |-> IF kind = "attached" THEN activeTurn[t] ELSE w]
  BY <1>0, <1>1 DEF Submit
<1>4. sub'[w].kind = kind
  BY <1>3
<1>. QED BY <1>1, <1>2, <1>4 DEF BridgeAsks, Kind, Submit, eventVars

\* Every step of the bridge keeps what it asks, whose turn a drain is for and where the
\* terminal events are.
LEMMA BridgeStep ==
  ASSUME SessionInv, BridgeAsks, OwnTurns, EndsInv, [BridgeNext]_bridgeVars
  PROVE  SessionInv' /\ BridgeAsks' /\ OwnTurns' /\ EndsInv'
<1>0. /\ SessionInv'
      /\ Reqs \subseteq Nat /\ None \in Nat /\ None \notin Reqs /\ None \notin Ids
  <2>1. [Next]_vars
    BY BridgeStepsSession DEF bridgeVars
  <2>. QED BY <2>1, TypeInvNext, TurnInvNext, OrderInvNext, WaitInvNext, RecordsInvNext, ChatFaultsAssumption
           DEF SessionInv, Reqs, None, Ids
<1>a. ASSUME UNCHANGED vars PROVE BridgeAsks' /\ UNCHANGED <<events, said>>
  BY <1>a DEF vars, BridgeAsks, Accepted, Kind
<1>b. ASSUME NEW r \in Reqs, NEW drains \in [Reqs -> {"none", "persisting", "created", "awaiting", "draining", "done"}],
             Accept(r, drains)
      PROVE  /\ BridgeAsks' /\ UNCHANGED <<events, said>> /\ lock' \in {r, None}
             /\ \/ /\ drain' = [drains EXCEPT ![r] = "created"]
                   /\ turnOf' \in [Reqs -> Ids \cup {None}] /\ turnOf'[r] # None
                \/ drain' = [drains EXCEPT ![r] = "persisting"] /\ turnOf' = turnOf
             /\ \A q \in Reqs \ {r} : turnOf'[q] = turnOf[q]
  <2>1. CASE Spawn(r, drains)
    <3>1. PICK t \in Threads : Submit("user", t)
      BY <2>1 DEF Spawn
    <3>2. BridgeAsks' /\ Len(sub) + 1 \in Ids /\ UNCHANGED <<events, said>>
      BY <3>1, AsksMore
    <3>. QED BY <1>0, <2>1, <3>2 DEF Spawn, OwnTurns
  <2>2. CASE ~Spawn(r, drains)
    BY <1>a, <1>b, <2>2 DEF Accept
  <2>. QED BY <2>1, <2>2
<1>c. NoEvent \in [type : EventTypes \cup {"none", "timeout"}, turn : Ids \cup {None}]
      /\ TimedOut \in [type : EventTypes \cup {"none", "timeout"}, turn : Ids \cup {None}]
      /\ Cancelled \in [type : EventTypes \cup {"none", "timeout"}, turn : Ids \cup {None}]
      /\ ~IsTerminal(TimedOut) /\ ~IsTerminal(Cancelled)
  BY DEF NoEvent, TimedOut, Cancelled, Event, IsTerminal, TerminalTypes, EventTypes
<1>1. ASSUME NEW r \in Reqs, Send(r) PROVE BridgeAsks' /\ OwnTurns' /\ EndsInv'
  <2>1. drain[r] = "none" /\ Accept(r, drain) /\ UNCHANGED endedBy
    BY <1>0, <1>1 DEF Send, IsNext
  <2>2. BridgeAsks' /\ UNCHANGED <<events, said>>
    BY <1>b, <2>1 DEF OwnTurns
  <2>3. OwnTurns'
    BY <1>b, <2>1 DEF OwnTurns
  <2>. QED BY <2>1, <2>2, <2>3, QuietKeeps
<1>2. ASSUME NEW r \in Reqs, SendStale(r) PROVE BridgeAsks' /\ OwnTurns' /\ EndsInv'
  <2>1. /\ drain[r] = "none" /\ lock \in Reqs /\ drain[lock] \in {"awaiting", "draining"} /\ lock # r
        /\ Accept(r, [drain EXCEPT ![lock] = "done"])
        /\ endedBy' = [endedBy EXCEPT ![lock] = Cancelled]
    BY <1>0, <1>2 DEF SendStale, IsNext, OwnTurns
  <2>2. [drain EXCEPT ![lock] = "done"]
          \in [Reqs -> {"none", "persisting", "created", "awaiting", "draining", "done"}]
    BY DEF OwnTurns
  <2>3. BridgeAsks' /\ UNCHANGED <<events, said>>
    BY <1>b, <2>1, <2>2
  <2>d. /\ lock' \in {r, None} /\ (\A q \in Reqs \ {r} : turnOf'[q] = turnOf[q])
        /\ \/ /\ drain' = [[drain EXCEPT ![lock] = "done"] EXCEPT ![r] = "created"]
              /\ turnOf' \in [Reqs -> Ids \cup {None}] /\ turnOf'[r] # None
           \/ drain' = [[drain EXCEPT ![lock] = "done"] EXCEPT ![r] = "persisting"] /\ turnOf' = turnOf
    BY <1>b, <2>1, <2>2
  <2>4. OwnTurns'
    <3>1. \A q \in Reqs \ {r, lock} : drain'[q] = drain[q] /\ turnOf'[q] = turnOf[q] /\ endedBy'[q] = endedBy[q]
      BY <2>1, <2>d DEF OwnTurns
    <3>2. endedBy'[r] = NoEvent /\ turnOf[lock] # None /\ turnOf'[lock] = turnOf[lock] /\ drain'[lock] = "done"
      BY <2>1, <2>d DEF OwnTurns
    <3>3. drain'[r] = "persisting" \/ (drain'[r] = "created" /\ turnOf'[r] # None)
      BY <2>1, <2>d DEF OwnTurns
    <3>4. \A q \in Reqs : IF drain'[q] \in {"none", "persisting"} THEN endedBy'[q] = NoEvent ELSE turnOf'[q] # None
      <4>. TAKE q \in Reqs
      <4>1. CASE q = r
        BY <3>2, <3>3, <4>1
      <4>2. CASE q = lock
        BY <3>2, <4>2
      <4>3. CASE q \notin {r, lock}
        BY <3>1, <4>3 DEF OwnTurns
      <4>. QED BY <4>1, <4>2, <4>3
    <3>5. /\ drain' \in [Reqs -> {"none", "persisting", "created", "awaiting", "draining", "done"}]
          /\ turnOf' \in [Reqs -> Ids \cup {None}] /\ lock' \in Reqs \cup {None}
          /\ endedBy' \in [Reqs -> [type : EventTypes \cup {"none", "timeout"}, turn : Ids \cup {None}]]
      BY <1>c, <2>1, <2>d DEF OwnTurns
    <3>. QED BY <3>4, <3>5 DEF OwnTurns
  <2>5. \A q \in Reqs : endedBy'[q] = endedBy[q] \/ ~IsTerminal(endedBy'[q])
    BY <1>c, <2>1 DEF OwnTurns
  <2>. QED BY <2>3, <2>4, <2>5, QuietKeeps
<1>3. ASSUME NEW r \in Reqs, SendResumes(r) PROVE BridgeAsks' /\ OwnTurns' /\ EndsInv'
  <2>1. drain[r] = "persisting" /\ Accept(r, drain) /\ UNCHANGED endedBy
    BY <1>3 DEF SendResumes, Accept
  <2>2. BridgeAsks' /\ UNCHANGED <<events, said>>
    BY <1>b, <2>1 DEF OwnTurns
  <2>3. OwnTurns'
    BY <1>b, <2>1 DEF OwnTurns
  <2>. QED BY <2>1, <2>2, <2>3, QuietKeeps
<1>4. CASE Abort
  <2>1. BridgeAsks' /\ UNCHANGED <<events, said>> /\ UNCHANGED <<drain, turnOf, endedBy>> /\ lock' = None
    BY <1>4, AsksMore DEF Abort, ReleaseTurnLock
  <2>2. OwnTurns'
    BY <2>1 DEF OwnTurns
  <2>. QED BY <1>0, <2>1, <2>2, QuietKeeps
<1>5. ASSUME NEW r \in Reqs, DrainStart(r) \/ DrainGo(r) PROVE BridgeAsks' /\ OwnTurns' /\ EndsInv'
  <2>1. /\ UNCHANGED <<vars, turnOf, lock, endedBy>> /\ drain[r] \in {"created", "awaiting"}
        /\ \E d \in {"awaiting", "draining"} : drain' = [drain EXCEPT ![r] = d]
    BY <1>5 DEF DrainStart, DrainGo, lockVars
  <2>2. OwnTurns'
    BY <2>1 DEF OwnTurns
  <2>. QED BY <1>a, <2>1, <2>2, QuietKeeps
<1>6. ASSUME NEW r \in Reqs, DrainEvent(r) PROVE BridgeAsks' /\ OwnTurns' /\ EndsInv'
  <2>1. /\ drain[r] = "draining" /\ events # <<>> /\ events' = Tail(events) /\ UNCHANGED <<sub, said, turnOf>>
        /\ \/ UNCHANGED <<drain, lock, endedBy>>
           \/ /\ drain' = [drain EXCEPT ![r] = "done"] /\ endedBy' = [endedBy EXCEPT ![r] = Head(events)]
              /\ lock' \in {lock, None}
    BY <1>6 DEF DrainEvent, DrainEnds, NextEvent, lockVars
  <2>2. Head(events) \in [type : EventTypes \cup {"none", "timeout"}, turn : Ids \cup {None}]
    <3>1. Head(events) \in EventRecords
      BY <2>1 DEF EndsInv
    <3>. QED BY <3>1 DEF EventRecords
  <2>3. OwnTurns'
    BY <2>1, <2>2 DEF OwnTurns
  <2>4. \A q \in Reqs : endedBy'[q] = endedBy[q] \/ endedBy'[q] = Head(events)
    BY <2>1 DEF OwnTurns
  <2>5. BridgeAsks'
    BY <2>1 DEF BridgeAsks, Accepted, Kind
  <2>. QED BY <2>1, <2>3, <2>4, <2>5, ReadKeeps
<1>7. ASSUME NEW r \in Reqs, DrainTimeout(r) PROVE BridgeAsks' /\ OwnTurns' /\ EndsInv'
  <2>1. /\ drain[r] = "draining" /\ UNCHANGED <<vars, turnOf>>
        /\ drain' = [drain EXCEPT ![r] = "done"] /\ endedBy' = [endedBy EXCEPT ![r] = TimedOut]
        /\ lock' \in {lock, None}
    BY <1>7 DEF DrainTimeout, DrainEnds
  <2>2. OwnTurns'
    BY <1>c, <2>1 DEF OwnTurns
  <2>3. \A q \in Reqs : endedBy'[q] = endedBy[q] \/ ~IsTerminal(endedBy'[q])
    BY <1>c, <2>1 DEF OwnTurns
  <2>. QED BY <1>a, <2>1, <2>2, <2>3, QuietKeeps
<1>8. CASE SessionStep
  <2>1. UNCHANGED <<drain, turnOf, lock, endedBy>> /\ SaysMore
        /\ (UNCHANGED events \/ \E u \in Ids \cup {None} : Emits(u))
    BY <1>8, SessionEmits DEF SessionStep, chatVars
  <2>2. OwnTurns'
    BY <2>1 DEF OwnTurns
  <2>3. sub' = sub
    BY <1>8, OthersStay, LoopServes DEF SessionStep, SessionInv
  <2>4. EndsInv'
    <3>1. CASE UNCHANGED events
      <4>1. ASSUME NEW i \in 1 .. Len(events), IsTerminal(events[i]) PROVE events[i].turn \in Ids
        <5>1. events[i] \in EventRecords
          BY ElementOfSeq DEF EndsInv
        <5>. QED BY <4>1, <5>1 DEF IsTerminal, EventRecords
      <4>2. \A r \in Reqs : IsTerminal(endedBy[r]) => endedBy[r].turn \in Ids
        BY DEF OwnTurns, IsTerminal
      <4>. QED BY <2>1, <3>1, <4>1, <4>2 DEF EndsInv, SaysMore, Gone, IsTerminal
    <3>. QED BY <2>1, <3>1, EmitsKeeps
  <2>. QED BY <1>0, <2>2, <2>3, <2>4 DEF BridgeAsks, Accepted, Kind
<1>9. CASE UNCHANGED bridgeVars
  <2>1. OwnTurns'
    BY <1>9 DEF bridgeVars, chatVars, OwnTurns
  <2>. QED BY <1>0, <1>9, <1>a, <2>1, QuietKeeps DEF bridgeVars, chatVars
<1>. QED
  BY <1>0, <1>1, <1>2, <1>3, <1>4, <1>5, <1>6, <1>7, <1>8, <1>9 DEF BridgeNext, DrainStep

\* A drain that ended with the terminal event of its own turn leaves nothing of that turn
\* in the queue, whatever modes are persisted, drains are replaced as stale or time out.
THEOREM OwnEndsLeaveNothing == BridgeSpec => []OwnEndLeavesNothing
<1> DEFINE Inv == SessionInv /\ BridgeAsks /\ OwnTurns /\ EndsInv
<1>1. BridgeInit => Inv
  BY BridgeStarts
<1>2. Inv /\ [BridgeNext]_bridgeVars => Inv'
  BY BridgeStep
<1>3. Inv => OwnEndLeavesNothing
  <2> SUFFICES ASSUME Inv, NEW r \in Reqs, endedBy[r].type \in TerminalTypes, endedBy[r].turn = turnOf[r]
               PROVE  \A i \in 1 .. Len(events) : events[i].turn # turnOf[r]
    BY DEF OwnEndLeavesNothing
  <2>1. endedBy[r] # NoEvent
    BY DEF NoEvent, Event, TerminalTypes
  <2>2. turnOf[r] # None
    BY <2>1 DEF OwnTurns
  <2>. QED BY <2>2 DEF EndsInv, IsTerminal, Gone
<1> HIDE DEF Inv
<1>. QED BY <1>1, <1>2, <1>3, PTL DEF BridgeSpec

----------------------------------------------------------------------------
(* The session under the bridge.                                           *)

\* chat.send, chat.abort and the drains do nothing to the session that its own clients
\* and its own reader could not do: without its fairness, the bridge implements the
\* session's specification.
THEOREM BridgeUsesSession == BridgeSpec => Init /\ [][Next]_vars
<1>1. BridgeInit => Init
  BY DEF BridgeInit
<1>2. [BridgeNext]_bridgeVars => [Next]_vars
  BY BridgeStepsSession DEF bridgeVars
<1>. QED BY <1>1, <1>2, PTL DEF BridgeSpec

\* Under the bridge, with every fault of the bridge and of the session, turns run one
\* at a time and in order, and their records agree.
THEOREM SessionHoldsUnderBridge == BridgeSpec => [](OneTurnRuns /\ NoOvertaking /\ RecordsMatchStream)
<1> DEFINE Inv == TypeInv /\ TurnInv /\ OrderInv /\ WaitInv /\ RecordsInv
           Safe == OneTurnRuns /\ NoOvertaking /\ RecordsMatchStream
<1>1. Init => Inv
  BY InitTypeInv, InitTurnInv, InitOrderInv, InitWaitInv, InitRecordsInv
<1>2. Inv /\ [Next]_vars => Inv'
  BY TypeInvNext, TurnInvNext, OrderInvNext, WaitInvNext, RecordsInvNext
<1>3. Inv => Safe
  <2>1. OrderInv => NoOvertaking
    BY DEF OrderInv
  <2>. QED BY <2>1, TurnInvImpliesOneTurnRuns, RecordsAgree
<1> HIDE DEF Inv, Safe
<1>4. BridgeSpec => []Safe
  BY <1>1, <1>2, <1>3, BridgeUsesSession, PTL
<1>. QED BY <1>4 DEF Safe
=============================================================================
