------------------------- MODULE SandboxManager_proof -------------------------
(***************************************************************************)
(* Proofs about the sandboxes, for any number of sessions, calls, attempts *)
(* at a removal and bridges that are killed, and whatever goes wrong.      *)
(* First the bookkeeping of creations, then what is known of directories.  *)
(***************************************************************************)
EXTENDS SandboxManager, TLAPS, FiniteSetTheorems, SequenceTheorems

BoxStages == {"idle", "asking", "scheduled", "start", "made", "checked", "removing", "verifying"}

CallRecords == [op : {"none", "ask", "create", "destroy", "disable", "destroyAll"},
                box : Boxes \cup {"none"}]

\* What tasks are doing: where a creation, a removal or the bridge's own start and
\* end stands, and which sequences it works on.
BoxTypes ==
  /\ boxes \in Seq(Boxes) /\ IsInjective(boxes)
  /\ underway \subseteq Boxes /\ dirs \subseteq Boxes
  /\ stateFile \subseteq Boxes /\ IsFiniteSet(stateFile)
  /\ bridge \in {"booting", "cleaning", "ready", "leaving", "down"}
  /\ call \in [BoxCalls -> CallRecords]
  /\ stage \in [Tasks -> BoxStages]
  /\ rest \in [Tasks -> Seq(Boxes)]

StagesFit ==
  /\ \A c \in BoxCalls :
       /\ stage[c] = "idle" <=> call[c].op = "none"
       /\ stage[c] = "asking" <=> call[c].op = "ask"
       /\ stage[c] \in {"start", "made", "checked"} => call[c].op = "create"
       /\ call[c].op \in {"ask", "create"} => call[c].box \in Boxes
  /\ \A t \in Tasks :
       /\ stage[t] = "verifying" => rest[t] # <<>>
       /\ stage[t] \notin {"removing", "verifying"} => rest[t] = <<>>
  /\ stage[Main] \in {"idle", "removing", "verifying"}
  /\ stage[Main] # "idle" <=> bridge \in {"cleaning", "leaving"}
  /\ bridge \in {"leaving", "down"} =>
       boxes = <<>> /\ underway = {} /\ \A c \in BoxCalls : stage[c] = "idle"

\* One task creates a sandbox that is under way, and nobody one that is not.
OneCreator ==
  \A k \in Boxes :
    /\ k \in underway <=> \E c \in BoxCalls : call[c].op = "create" /\ call[c].box = k
    /\ \A c, d \in BoxCalls :
         call[c].op = "create" /\ call[d].op = "create" /\ call[c].box = k /\ call[d].box = k
           => c = d
    /\ k \in underway => k \notin Registered

\* Sandboxes whose directory has been made, and those whose directory was seen.
Seen == Registered \cup {call[c].box : c \in {d \in BoxCalls : stage[d] = "checked"}}
Housed == Seen \cup {call[c].box : c \in {d \in BoxCalls : stage[d] = "made"}}

\* A sandbox whose directory may be being removed is noted as raced, from the
\* making of that directory on.
RacesNoted ==
  /\ \A k \in Seen : k \in dirs \cup raced
  /\ \A k \in Housed : Removers(k) # {} => k \in raced

\* A directory has somebody to remove it.  A registered sandbox is listed in the
\* file for the case that the bridge is killed, and a bridge that leaves relies on
\* nothing but its own removals, as it deletes the file.
DirsKnown ==
  /\ \A k \in dirs :
       k \in Registered \cup underway \cup stateFile \cup strayed \/ Removers(k) # {}
  /\ ~termed => \A k \in dirs \cap Registered : k \in stateFile \cup strayed
  /\ bridge = "leaving" => \A k \in dirs : k \in strayed \cup ToSet(rest[Main])

SandboxInv == BoxTypes /\ StagesFit /\ OneCreator /\ RacesNoted /\ DirsKnown

\* The elements of the sequences that the manager works on.
LEMMA EmptyElements == ASSUME NEW S PROVE <<>> \in Seq(S) /\ ToSet(<<>>) = {} /\ IsInjective(<<>>)
BY DEF ToSet, IsInjective

\* The elements of a sequence are in the set it is over, and finitely many.
LEMMA ElementsTyped ==
  ASSUME NEW S, NEW s \in Seq(S)
  PROVE  ToSet(s) \subseteq S /\ IsFiniteSet(ToSet(s)) /\ (ToSet(s) = {} => s = <<>>)
<1>1. ToSet(s) \subseteq S
  BY DEF ToSet
<1>2. ToSet(s) = {} => s = <<>>
  <2>. SUFFICES ASSUME s # <<>> PROVE ToSet(s) # {}
    OBVIOUS
  <2>1. 1 \in DOMAIN s
    BY EmptySeq, LenProperties
  <2>. QED BY <2>1 DEF ToSet
<1>3. s \in [1 .. Len(s) -> ToSet(s)] /\ DOMAIN s = 1 .. Len(s) /\ Len(s) \in Nat
  BY LenProperties DEF ToSet
<1>4. s \in Surjection(1 .. Len(s), ToSet(s))
  BY <1>3 DEF Surjection, ToSet
<1>5. IsFiniteSet(ToSet(s))
  BY <1>3, <1>4, FS_NatSurjection DEF ExistsSurjection
<1>. QED BY <1>1, <1>2, <1>5

\* The first and the others.
LEMMA TailElements ==
  ASSUME NEW S, NEW s \in Seq(S), s # <<>>
  PROVE  /\ Head(s) \in S /\ Tail(s) \in Seq(S)
         /\ ToSet(s) = {Head(s)} \cup ToSet(Tail(s))
         /\ IsInjective(s) => IsInjective(Tail(s)) /\ Head(s) \notin ToSet(Tail(s))
<1>1. /\ Len(s) \in Nat \ {0} /\ DOMAIN s = 1 .. Len(s) /\ Head(s) = s[1] /\ Head(s) \in S
      /\ Tail(s) \in Seq(S) /\ DOMAIN Tail(s) = 1 .. Len(s) - 1
      /\ \A i \in 1 .. Len(s) - 1 : Tail(s)[i] = s[i + 1]
  BY HeadTailProperties, LenProperties, EmptySeq
<1>2. ToSet(s) \subseteq {Head(s)} \cup ToSet(Tail(s))
  <2>. SUFFICES ASSUME NEW i \in DOMAIN s, s[i] # Head(s) PROVE s[i] \in ToSet(Tail(s))
    BY DEF ToSet
  <2>1. i - 1 \in DOMAIN Tail(s) /\ Tail(s)[i - 1] = s[i]
    BY <1>1
  <2>. QED BY <2>1 DEF ToSet
<1>3. {Head(s)} \cup ToSet(Tail(s)) \subseteq ToSet(s)
  BY <1>1 DEF ToSet
<1>4. ASSUME IsInjective(s) PROVE IsInjective(Tail(s)) /\ Head(s) \notin ToSet(Tail(s))
  BY <1>1, <1>4 DEF ToSet, IsInjective
<1>. QED BY <1>1, <1>2, <1>3, <1>4

\* A sandbox that is registered is the last.
LEMMA AppendElements ==
  ASSUME NEW S, NEW s \in Seq(S), NEW e \in S
  PROVE  /\ Append(s, e) \in Seq(S)
         /\ ToSet(Append(s, e)) = ToSet(s) \cup {e}
         /\ IsInjective(s) /\ e \notin ToSet(s) => IsInjective(Append(s, e))
<1>1. /\ Len(s) \in Nat /\ DOMAIN s = 1 .. Len(s)
      /\ Append(s, e) \in Seq(S) /\ DOMAIN Append(s, e) = 1 .. Len(s) + 1
      /\ \A i \in 1 .. Len(s) : Append(s, e)[i] = s[i]
      /\ Append(s, e)[Len(s) + 1] = e
  BY AppendProperties, LenProperties
<1>2. ToSet(Append(s, e)) \subseteq ToSet(s) \cup {e}
  BY <1>1 DEF ToSet
<1>3. ToSet(s) \cup {e} \subseteq ToSet(Append(s, e))
  BY <1>1 DEF ToSet
<1>4. ASSUME IsInjective(s), e \notin ToSet(s) PROVE IsInjective(Append(s, e))
  BY <1>1, <1>4 DEF ToSet, IsInjective
<1>. QED BY <1>1, <1>2, <1>3, <1>4

\* A sequence without one of its elements.
LEMMA RemovedElements ==
  ASSUME NEW S, NEW s \in Seq(S), IsInjective(s), NEW i \in DOMAIN s
  PROVE  /\ RemoveAt(s, i) \in Seq(S) /\ IsInjective(RemoveAt(s, i))
         /\ ToSet(RemoveAt(s, i)) = ToSet(s) \ {s[i]}
<1>. DEFINE before == SubSeq(s, 1, i - 1)
            after == SubSeq(s, i + 1, Len(s))
            both == before \o after
<1>1. Len(s) \in Nat /\ DOMAIN s = 1 .. Len(s) /\ i \in 1 .. Len(s)
  BY LenProperties
<1>2. \A j \in 1 .. Len(s) : s[j] \in S
  BY ElementOfSeq
<1>3. /\ before \in Seq(S) /\ Len(before) = i - 1
      /\ \A j \in 1 .. i - 1 : before[j] = s[j]
  <2>1. 1 \in Int /\ i - 1 \in Int /\ \A j \in 1 .. i - 1 : s[j] \in S
    BY <1>1, <1>2
  <2>2. /\ before \in Seq(S) /\ Len(before) = IF 1 <= i - 1 THEN (i - 1) - 1 + 1 ELSE 0
        /\ \A j \in 1 .. (i - 1) - 1 + 1 : before[j] = s[1 + j - 1]
    BY <2>1, SubSeqProperties
  <2>. QED BY <1>1, <2>2
<1>4. /\ after \in Seq(S) /\ Len(after) = Len(s) - i
      /\ \A j \in 1 .. Len(s) - i : after[j] = s[i + j]
  <2>1. i + 1 \in Int /\ Len(s) \in Int /\ \A j \in i + 1 .. Len(s) : s[j] \in S
    BY <1>1, <1>2
  <2>2. /\ after \in Seq(S) /\ Len(after) = IF i + 1 <= Len(s) THEN Len(s) - (i + 1) + 1 ELSE 0
        /\ \A j \in 1 .. Len(s) - (i + 1) + 1 : after[j] = s[(i + 1) + j - 1]
    BY <2>1, SubSeqProperties
  <2>. QED BY <1>1, <2>2
<1>. HIDE DEF before, after, both
<1>5. /\ both \in Seq(S) /\ DOMAIN both = 1 .. Len(s) - 1
      /\ \A j \in 1 .. Len(s) - 1 : both[j] = IF j < i THEN s[j] ELSE s[j + 1]
  <2>1. /\ both \in Seq(S) /\ Len(both) = Len(before) + Len(after)
        /\ \A j \in 1 .. Len(before) + Len(after) :
             both[j] = IF j <= Len(before) THEN before[j] ELSE after[j - Len(before)]
    BY <1>3, <1>4, ConcatProperties DEF both
  <2>2. Len(both) = Len(s) - 1 /\ DOMAIN both = 1 .. Len(both)
    BY <1>1, <1>3, <1>4, <2>1, LenProperties
  <2>3. \A j \in 1 .. Len(s) - 1 : j < i => both[j] = s[j]
    BY <1>1, <1>3, <1>4, <2>1
  <2>4. ASSUME NEW j \in 1 .. Len(s) - 1, ~(j < i) PROVE both[j] = s[j + 1]
    <3>1. both[j] = after[j - (i - 1)] /\ j - (i - 1) \in 1 .. Len(s) - i
      BY <1>1, <1>3, <1>4, <2>1, <2>4
    <3>2. i + (j - (i - 1)) = j + 1
      BY <1>1
    <3>. QED BY <1>4, <3>1, <3>2
  <2>. QED BY <2>1, <2>2, <2>3, <2>4
<1>6. RemoveAt(s, i) = both
  BY DEF RemoveAt, before, after, both
<1>7. IsInjective(both)
  <2>. SUFFICES ASSUME NEW j \in 1 .. Len(s) - 1, NEW k \in 1 .. Len(s) - 1, both[j] = both[k]
                PROVE  j = k
    BY <1>5 DEF IsInjective
  <2>. DEFINE at(l) == IF l < i THEN l ELSE l + 1
  <2>1. at(j) \in DOMAIN s /\ at(k) \in DOMAIN s /\ s[at(j)] = s[at(k)]
    BY <1>1, <1>5
  <2>2. at(j) = at(k)
    BY <2>1 DEF IsInjective
  <2>. QED BY <1>1, <2>2
<1>8. ToSet(both) \subseteq ToSet(s) \ {s[i]}
  BY <1>1, <1>5 DEF ToSet, IsInjective
<1>9. ToSet(s) \ {s[i]} \subseteq ToSet(both)
  <2>. SUFFICES ASSUME NEW j \in 1 .. Len(s), j # i PROVE s[j] \in ToSet(both)
    BY <1>1 DEF ToSet
  <2>1. CASE j < i
    <3>1. j \in 1 .. Len(s) - 1 /\ both[j] = s[j]
      BY <1>1, <1>5, <2>1
    <3>. QED BY <3>1, <1>5 DEF ToSet
  <2>2. CASE j > i
    <3>1. j - 1 \in 1 .. Len(s) - 1 /\ both[j - 1] = s[j]
      BY <1>1, <1>5, <2>2
    <3>. QED BY <3>1, <1>5 DEF ToSet
  <2>. QED BY <1>1, <2>1, <2>2
<1>. QED BY <1>5, <1>6, <1>7, <1>8, <1>9

\* The sequence that cleanup_stale works on holds only what the file lists.
LEMMA ListedElements ==
  ASSUME NEW S, NEW T \in SUBSET S, IsFiniteSet(T)
  PROVE  SetToSeq(T) \in Seq(S) /\ ToSet(SetToSeq(T)) \subseteq T
<1>. DEFINE n == Cardinality(T)
<1>1. n \in Nat /\ Bijection(1 .. n, T) # {}
  BY FS_CardinalityType DEF ExistsBijection
<1>2. \E f \in [1 .. n -> T] : IsInjective(f)
  BY <1>1 DEF Bijection, Injection
<1>3. SetToSeq(T) \in [1 .. n -> T]
  <2>. HIDE DEF n
  <2>1. (CHOOSE f \in [1 .. n -> T] : IsInjective(f)) \in [1 .. n -> T]
    BY <1>2, Zenon
  <2>. QED BY <2>1 DEF SetToSeq, n
<1>4. SetToSeq(T) \in Seq(S) /\ DOMAIN SetToSeq(T) = 1 .. n
  BY <1>1, <1>3, SeqDef
<1>. QED BY <1>3, <1>4 DEF ToSet

\* What one eviction removes.
LEMMA OneElement == ASSUME NEW e PROVE ToSet(<<e>>) = {e}
BY DEF ToSet

\* Whether a write of the file succeeds or fails, it lists sandboxes, and which
\* directories are then listed no longer is noted.
LEMMA SavedState ==
  ASSUME BoxTypes, NEW B \in Seq(Boxes), SaveState(B)
  PROVE  /\ stateFile' \subseteq Boxes /\ IsFiniteSet(stateFile')
         /\ (stateFile \cup ToSet(B)) \cap dirs \subseteq stateFile' \cup strayed'
         /\ strayed \subseteq stateFile' \cup strayed'
<1>1. stateFile' \in {ToSet(B), stateFile, {}}
  BY DEF SaveState
<1>2. IsFiniteSet(ToSet(B)) /\ ToSet(B) \subseteq Boxes /\ IsFiniteSet({})
  BY ElementsTyped, FS_EmptySet
<1>3. strayed' = (strayed \cup ((stateFile \cup ToSet(B)) \cap dirs)) \ stateFile'
  BY DEF SaveState
<1>. QED BY <1>1, <1>2, <1>3 DEF BoxTypes

\* The same when the file is removed.
LEMMA ClearedState ==
  ASSUME BoxTypes, NEW D, ClearState(D)
  PROVE  /\ stateFile' \subseteq Boxes /\ IsFiniteSet(stateFile')
         /\ strayed \subseteq strayed'
         /\ D \cap stateFile \cap dirs \subseteq stateFile' \cup strayed'
         /\ stateFile' \in {stateFile, {}}
BY FS_EmptySet DEF ClearState, Stray, BoxTypes

\* The start and the end of the bridge are no call.
LEMMA MainApart == Main \notin BoxCalls /\ Tasks = BoxCalls \cup {Main} /\ BoxCalls \subseteq Tasks
BY BoxAssumption DEF Main, Tasks

\* The bookkeeping: what CreationsAccounted needs to be inductive.
ControlInv == BoxTypes /\ StagesFit /\ OneCreator

\* The first bridge starts with nothing.
LEMMA ControlInitially == SandboxInit => ControlInv
<1>. SUFFICES ASSUME SandboxInit PROVE ControlInv
  OBVIOUS
<1>1. boxes \in Seq(Boxes) /\ IsInjective(boxes) /\ ToSet(boxes) = {} /\ IsFiniteSet({})
  BY EmptyElements, FS_EmptySet DEF SandboxInit
<1>2. rest \in [Tasks -> Seq(Boxes)]
  BY EmptyElements DEF SandboxInit
<1>. QED
  BY <1>1, <1>2, MainApart
  DEF SandboxInit, ControlInv, BoxTypes, BoxStages, CallRecords, StagesFit, OneCreator, Registered, Nothing

\* Tasks go on creating what they created.
LEMMA StillCreates ==
  ASSUME OneCreator, underway' = underway, Registered' \subseteq Registered,
         \A c \in BoxCalls : /\ call'[c].op = "create" <=> call[c].op = "create"
                             /\ call[c].op = "create" => call'[c].box = call[c].box
  PROVE  OneCreator'
BY DEF OneCreator

\* The bookkeeping survives every step, one case for each action.
LEMMA ControlStep == ControlInv /\ [SandboxNext]_sandboxVars => ControlInv'
<1>. SUFFICES ASSUME BoxTypes, StagesFit, OneCreator, [SandboxNext]_sandboxVars PROVE ControlInv'
  BY DEF ControlInv
<1>. USE DEF ControlInv, BoxStages, CallRecords
<1>1. ASSUME NEW c \in BoxCalls, NEW k \in Boxes, Ask(c, k) PROVE ControlInv'
  <2>1. BoxTypes'
    BY <1>1 DEF Ask, Takes, Up, boxMaps, bridgeVars, Registered, SetStage, Busy, Nothing, BoxTypes
  <2>2. StagesFit'
    BY <1>1, MainApart
    DEF Ask, Takes, Up, boxMaps, bridgeVars, Registered, SetStage, Busy, Nothing, BoxTypes,
        StagesFit
  <2>3. OneCreator'
    BY <1>1, StillCreates
    DEF Ask, Takes, Up, boxMaps, bridgeVars, Registered, SetStage, Busy, Nothing, BoxTypes,
        StagesFit
  <2>. QED BY <2>1, <2>2, <2>3
<1>2. ASSUME NEW c \in BoxCalls, NEW k \in Boxes, GetOrCreate(c, k) PROVE ControlInv'
  <2>a. stage[c] \in {"idle", "asking"} /\ rest[c] = <<>>
    BY <1>2, MainApart DEF GetOrCreate, MayCreate, Takes, Asked, StagesFit, Busy
  <2>b. Len(boxes) >= MaxBoxes => boxes # <<>>
    BY BoxAssumption, EmptySeq
  <2>c. /\ boxes' \in Seq(Boxes) /\ IsInjective(boxes') /\ Registered' \subseteq Registered
        /\ rest' \in [Tasks -> Seq(Boxes)]
    <3>1. CASE Len(boxes) >= MaxBoxes
      <4>1. Head(boxes) \in Boxes /\ <<Head(boxes)>> \in Seq(Boxes)
        BY <2>b, <3>1, TailElements DEF BoxTypes
      <4>2. boxes' = Tail(boxes) /\ rest' = [rest EXCEPT ![c] = <<Head(boxes)>>]
        BY <1>2, <3>1 DEF GetOrCreate, BeginRemoval
      <4>3. boxes' \in Seq(Boxes) /\ IsInjective(boxes') /\ Registered' \subseteq Registered
        BY <2>b, <3>1, <4>2, TailElements DEF BoxTypes, Registered
      <4>. QED BY <4>1, <4>2, <4>3 DEF BoxTypes
    <3>2. CASE ~(Len(boxes) >= MaxBoxes)
      BY <1>2, <3>2 DEF GetOrCreate, BoxTypes, Registered
    <3>. QED BY <3>1, <3>2
  <2>d. /\ call' \in [BoxCalls -> CallRecords]
        /\ call'[c].op = "create" /\ call'[c].box = k
        /\ \A d \in BoxCalls \ {c} : call'[d] = call[d]
        /\ call[c].op # "create" /\ bridge \notin {"leaving", "down"}
    <3>1. CASE Takes(c, "create", k)
      BY <3>1 DEF Takes, Up, Busy, BoxTypes, StagesFit
    <3>2. CASE Asked(c, k)
      BY <3>2, MainApart DEF Asked, BoxTypes, StagesFit
    <3>. QED BY <1>2, <3>1, <3>2 DEF GetOrCreate, MayCreate
  <2>e. /\ stage' \in [Tasks -> BoxStages]
        /\ \/ stage'[c] = "removing"
           \/ stage'[c] = "start" /\ rest'[c] = <<>>
        /\ \A t \in Tasks \ {c} : stage'[t] = stage[t] /\ rest'[t] = rest[t]
    <3>1. c \in Tasks
      BY MainApart
    <3>2. CASE Len(boxes) >= MaxBoxes
      <4>1. stage' = [stage EXCEPT ![c] = "removing"] /\ \E todo : rest' = [rest EXCEPT ![c] = todo]
        BY <1>2, <3>2 DEF GetOrCreate, BeginRemoval, SetStage
      <4>2. rest \in [Tasks -> Seq(Boxes)] /\ stage \in [Tasks -> BoxStages]
        BY DEF BoxTypes
      <4>3. PICK todo : rest' = [rest EXCEPT ![c] = todo]
        BY <4>1
      <4>. QED BY <3>1, <4>1, <4>2, <4>3
    <3>3. CASE ~(Len(boxes) >= MaxBoxes)
      BY <1>2, <2>a, <3>1, <3>3 DEF GetOrCreate, SetStage, BoxTypes
    <3>. QED BY <3>2, <3>3
  <2>f. /\ k \notin Registered \cup underway /\ underway' = underway \cup {k}
        /\ UNCHANGED <<dirs, stateFile, bridge>>
    BY <1>2 DEF GetOrCreate, bridgeVars
  <2>1. BoxTypes'
    BY <2>c, <2>d, <2>e, <2>f DEF BoxTypes
  <2>2. StagesFit'
    BY <2>d, <2>e, <2>f, MainApart DEF StagesFit
  <2>3. OneCreator'
    <3>1. \A x \in BoxCalls : call'[x].op = "create" <=> x = c \/ call[x].op = "create"
      BY <2>d
    <3>2. \A x \in BoxCalls : call[x].op = "create" => call'[x].box = call[x].box
      BY <2>d
    <3>3. \A x \in BoxCalls : call[x].op = "create" => call[x].box # k
      BY <2>f DEF OneCreator
    <3>4. ASSUME NEW x \in Boxes
          PROVE  /\ x \in underway' <=>
                      \E y \in BoxCalls : call'[y].op = "create" /\ call'[y].box = x
                 /\ x \in underway' => x \notin Registered'
      <4>1. CASE x = k
        BY <2>c, <2>d, <2>f, <4>1
      <4>2. CASE x # k
        <5>1. \A y \in BoxCalls : call'[y].op = "create" /\ call'[y].box = x
                                    <=> call[y].op = "create" /\ call[y].box = x
          BY <2>d, <4>2
        <5>. QED BY <2>c, <2>f, <4>2, <5>1 DEF OneCreator
      <4>. QED BY <4>1, <4>2
    <3>5. ASSUME NEW x \in BoxCalls, NEW y \in BoxCalls,
                 call'[x].op = "create", call'[y].op = "create",
                 call'[x].box = call'[y].box, call'[x].box \in Boxes
          PROVE  x = y
      BY <2>d, <3>1, <3>2, <3>3, <3>5 DEF OneCreator
    <3>. QED BY <3>4, <3>5 DEF OneCreator
  <2>. QED BY <2>1, <2>2, <2>3
<1>3. ASSUME NEW c \in BoxCalls, NEW k \in Boxes, Destroy(c, k) PROVE ControlInv'
  <2>a. /\ boxes' \in Seq(Boxes) /\ IsInjective(boxes') /\ Registered' \subseteq Registered
        /\ <<k>> \in Seq(Boxes)
    BY <1>3, RemovedElements DEF Destroy, BoxTypes, Registered
  <2>1. BoxTypes'
    BY <1>3, <2>a
    DEF Destroy, Takes, Up, BeginRemoval, bridgeVars, SetStage, Busy, Nothing, BoxTypes
  <2>2. StagesFit'
    BY <1>3, MainApart, <2>a
    DEF Destroy, Takes, Up, BeginRemoval, bridgeVars, SetStage, Busy, Nothing, BoxTypes, StagesFit
  <2>3. OneCreator'
    BY <1>3, <2>a, StillCreates
    DEF Destroy, Takes, Up, BeginRemoval, bridgeVars, SetStage, Busy, Nothing, BoxTypes, StagesFit
  <2>. QED BY <2>1, <2>2, <2>3
<1>4. ASSUME NEW c \in BoxCalls, Disable(c) PROVE ControlInv'
  <2>a. /\ boxes' \in Seq(Boxes) /\ IsInjective(boxes') /\ Registered' \subseteq Registered
    BY <1>4, EmptyElements DEF Disable, Registered
  <2>1. BoxTypes'
    BY <1>4, <2>a DEF Disable, Takes, Up, BeginRemoval, SetStage, Busy, Nothing, BoxTypes
  <2>2. StagesFit'
    BY <1>4, MainApart, <2>a
    DEF Disable, Takes, Up, BeginRemoval, SetStage, Busy, Nothing, BoxTypes, StagesFit
  <2>3. OneCreator'
    BY <1>4, <2>a, StillCreates
    DEF Disable, Takes, Up, BeginRemoval, SetStage, Busy, Nothing, BoxTypes, StagesFit
  <2>. QED BY <2>1, <2>2, <2>3
<1>5. ASSUME NEW c \in BoxCalls, Sigterm(c) PROVE ControlInv'
  <2>1. BoxTypes'
    BY <1>5, ClearedState
    DEF Sigterm, Takes, Up, boxMaps, Registered, SetStage, Busy, Nothing, BoxTypes
  <2>2. StagesFit'
    BY <1>5, MainApart
    DEF Sigterm, Takes, Up, boxMaps, Registered, SetStage, Busy, Nothing, BoxTypes, StagesFit
  <2>3. OneCreator'
    BY <1>5, StillCreates
    DEF Sigterm, Takes, Up, boxMaps, Registered, SetStage, Busy, Nothing, BoxTypes, StagesFit
  <2>. QED BY <2>1, <2>2, <2>3
<1>6. ASSUME NEW t \in Tasks, Attempt(t) PROVE ControlInv'
  <2>a. rest[t] # <<>> /\ Tail(rest[t]) \in Seq(Boxes)
    BY <1>6, TailElements DEF Attempt, BoxTypes
  <2>1. BoxTypes'
    BY <1>6, <2>a
    DEF Attempt, Retry, boxMaps, bridgeVars, callVars, Registered, SetStage, Busy, Nothing,
        BoxTypes
  <2>2. StagesFit'
    <3>1. stage[t] = "removing" /\ stage'[t] \in {"removing", "verifying"}
          /\ (stage'[t] = "verifying" => rest'[t] = rest[t])
          /\ \A u \in Tasks \ {t} : stage'[u] = stage[u] /\ rest'[u] = rest[u]
      BY <1>6 DEF Attempt, Retry, SetStage, BoxTypes
    <3>2. UNCHANGED <<boxes, underway, bridge, call>>
      BY <1>6 DEF Attempt, boxMaps, bridgeVars, callVars
    <3>. QED BY <2>a, <3>1, <3>2, MainApart DEF StagesFit
  <2>3. OneCreator'
    BY <1>6, StillCreates
    DEF Attempt, Retry, boxMaps, bridgeVars, callVars, Registered, SetStage, Busy, Nothing,
        BoxTypes, StagesFit
  <2>. QED BY <2>1, <2>2, <2>3
<1>7. ASSUME NEW t \in Tasks, Verify(t) PROVE ControlInv'
  <2>a. rest[t] # <<>> /\ Tail(rest[t]) \in Seq(Boxes)
    BY <1>7, TailElements DEF Verify, BoxTypes, StagesFit
  <2>1. BoxTypes'
    BY <1>7, <2>a
    DEF Verify, Retry, boxMaps, bridgeVars, callVars, Registered, SetStage, Busy, Nothing,
        BoxTypes
  <2>2. StagesFit'
    BY <1>7, MainApart
    DEF Verify, Retry, boxMaps, bridgeVars, callVars, Registered, SetStage, Busy, Nothing,
        BoxTypes, StagesFit
  <2>3. OneCreator'
    BY <1>7, StillCreates
    DEF Verify, Retry, boxMaps, bridgeVars, callVars, Registered, SetStage, Busy, Nothing,
        BoxTypes, StagesFit
  <2>. QED BY <2>1, <2>2, <2>3
<1>8. ASSUME NEW c \in BoxCalls, DestroyAll(c) PROVE ControlInv'
  <2>a. /\ boxes' \in Seq(Boxes) /\ IsInjective(boxes') /\ Registered' \subseteq Registered
    BY <1>8, EmptyElements DEF DestroyAll, Registered
  <2>1. BoxTypes'
    BY <1>8, <2>a
    DEF DestroyAll, BeginRemoval, bridgeVars, callVars, SetStage, Busy, Nothing, BoxTypes
  <2>2. StagesFit'
    BY <1>8, MainApart, <2>a
    DEF DestroyAll, BeginRemoval, bridgeVars, callVars, SetStage, Busy, Nothing, BoxTypes,
        StagesFit
  <2>3. OneCreator'
    BY <1>8, <2>a, StillCreates
    DEF DestroyAll, BeginRemoval, bridgeVars, callVars, SetStage, Busy, Nothing, BoxTypes,
        StagesFit
  <2>. QED BY <2>1, <2>2, <2>3
<1>9. ASSUME NEW c \in BoxCalls, Stopped(c) PROVE ControlInv'
  <2>a. IsFiniteSet(stateFile') /\ stateFile' \subseteq Boxes
    BY <1>9, SavedState DEF Stopped, BoxTypes
  <2>b. call[c].op = "create" => call[c].box \in underway /\ call[c].box \notin Registered
    BY <1>9 DEF StagesFit, OneCreator
  <2>c. UNCHANGED <<boxes, dirs, bridge, rest>> /\ stage[c] = "removing" /\ rest[c] = <<>>
    BY <1>9 DEF Stopped
  <2>d. \/ /\ call[c].op = "create" /\ stage' = [stage EXCEPT ![c] = "start"]
           /\ UNCHANGED <<underway, call>>
        \/ /\ call[c].op # "create" /\ stage' = [stage EXCEPT ![c] = "idle"]
           /\ call' = [call EXCEPT ![c] = Nothing] /\ UNCHANGED underway
    BY <1>9, <2>b DEF Stopped, SetStage, Return, callVars
  <2>e. /\ call' \in [BoxCalls -> CallRecords]
        /\ \A d \in BoxCalls \ {c} : call'[d] = call[d]
        /\ \/ stage'[c] = "start" /\ call'[c] = call[c] /\ call[c].op = "create"
           \/ stage'[c] = "idle" /\ call'[c].op = "none" /\ call[c].op # "create"
    <3>1. /\ Nothing.op = "none"
          /\ Nothing \in CallRecords
      BY DEF Nothing
    <3>2. /\ call \in [BoxCalls -> CallRecords]
          /\ stage \in [Tasks -> BoxStages]
          /\ c \in Tasks
      BY MainApart DEF BoxTypes
    <3>. QED BY <2>d, <3>1, <3>2
  <2>f. /\ stage' \in [Tasks -> BoxStages]
        /\ \A t \in Tasks \ {c} : stage'[t] = stage[t]
    BY <2>d DEF BoxTypes
  <2>g. UNCHANGED underway
    BY <2>d
  <2>1. BoxTypes'
    BY <2>a, <2>c, <2>e, <2>f, <2>g DEF BoxTypes
  <2>2. StagesFit'
    BY <2>c, <2>e, <2>f, <2>g, MainApart DEF StagesFit
  <2>3. OneCreator'
    BY <2>c, <2>e, <2>g, StillCreates DEF Registered
  <2>. QED BY <2>1, <2>2, <2>3
<1>10. ASSUME NEW c \in BoxCalls, MakeDir(c) PROVE ControlInv'
  <2>1. BoxTypes'
    BY <1>10, MainApart DEF MakeDir, boxMaps, bridgeVars, callVars, SetStage, BoxTypes, StagesFit
  <2>2. StagesFit'
    BY <1>10, MainApart
    DEF MakeDir, boxMaps, bridgeVars, callVars, Registered, SetStage, Busy, Nothing, BoxTypes,
        StagesFit
  <2>3. OneCreator'
    BY <1>10, StillCreates
    DEF MakeDir, boxMaps, bridgeVars, callVars, Registered, SetStage, Busy, Nothing, BoxTypes,
        StagesFit
  <2>. QED BY <2>1, <2>2, <2>3
<1>11. ASSUME NEW c \in BoxCalls, CheckDir(c) PROVE ControlInv'
  <2>1. BoxTypes'
    BY <1>11
    DEF CheckDir, boxMaps, bridgeVars, callVars, Registered, SetStage, Busy, Nothing, BoxTypes
  <2>2. StagesFit'
    BY <1>11, MainApart
    DEF CheckDir, boxMaps, bridgeVars, callVars, Registered, SetStage, Busy, Nothing, BoxTypes,
        StagesFit
  <2>3. OneCreator'
    BY <1>11, StillCreates
    DEF CheckDir, boxMaps, bridgeVars, callVars, Registered, SetStage, Busy, Nothing, BoxTypes,
        StagesFit
  <2>. QED BY <2>1, <2>2, <2>3
<1>12. ASSUME NEW c \in BoxCalls, Register(c) PROVE ControlInv'
  <2>a. call[c].op = "create" /\ call[c].box \in Boxes /\ call[c].box \notin Registered
    BY <1>12 DEF Register, StagesFit, OneCreator
  <2>b. /\ boxes' \in Seq(Boxes) /\ IsInjective(boxes')
        /\ Registered' = Registered \cup {call[c].box}
    BY <1>12, <2>a, AppendElements DEF Register, BoxTypes, Registered
  <2>c. IsFiniteSet(stateFile') /\ stateFile' \subseteq Boxes
    BY <1>12, <2>b, SavedState DEF Register
  <2>1. BoxTypes'
    BY <1>12, <2>a, <2>b, <2>c
    DEF Register, Return, bridgeVars, SetStage, Busy, Nothing, BoxTypes
  <2>2. StagesFit'
    BY <1>12, MainApart, <2>a
    DEF Register, Return, bridgeVars, SetStage, Busy, Nothing, BoxTypes, StagesFit
  <2>3. OneCreator'
    BY <1>12, <2>1, <2>a, <2>b
    DEF Register, Return, bridgeVars, SetStage, Busy, Nothing, BoxTypes, StagesFit,
        OneCreator
  <2>. QED BY <2>1, <2>2, <2>3
<1>13. ASSUME NEW c \in BoxCalls, Abandon(c) PROVE ControlInv'
  <2>1. BoxTypes'
    BY <1>13, EmptyElements
    DEF Abandon, Return, bridgeVars, Registered, SetStage, Busy, Nothing, BoxTypes
  <2>2. StagesFit'
    BY <1>13, MainApart
    DEF Abandon, Return, bridgeVars, Registered, SetStage, Busy, Nothing, BoxTypes, StagesFit
  <2>3. OneCreator'
    BY <1>13, <2>1
    DEF Abandon, Return, bridgeVars, Registered, SetStage, Busy, Nothing, BoxTypes, StagesFit,
        OneCreator
  <2>. QED BY <2>1, <2>2, <2>3
<1>14. ASSUME NEW c \in BoxCalls, Refuse(c) PROVE ControlInv'
  <2>1. BoxTypes'
    BY <1>14 DEF Refuse, Return, boxMaps, bridgeVars, Registered, SetStage, Busy, Nothing, BoxTypes
  <2>2. StagesFit'
    BY <1>14, MainApart
    DEF Refuse, Return, boxMaps, bridgeVars, Registered, SetStage, Busy, Nothing, BoxTypes,
        StagesFit
  <2>3. OneCreator'
    BY <1>14, StillCreates
    DEF Refuse, Return, boxMaps, bridgeVars, Registered, SetStage, Busy, Nothing, BoxTypes,
        StagesFit
  <2>. QED BY <2>1, <2>2, <2>3
<1>15. CASE LoadState
  <2>a. UNCHANGED <<boxes, underway, dirs, stateFile, call>> /\ bridge = "booting"
    BY <1>15 DEF LoadState, boxMaps, callVars
  <2>b. /\ stage[Main] = "idle" /\ rest[Main] = <<>>
        /\ stage \in [Tasks -> BoxStages] /\ rest \in [Tasks -> Seq(Boxes)] /\ Main \in Tasks
    BY <2>a, MainApart DEF StagesFit, BoxTypes
  <2>c. /\ stage' \in [Tasks -> BoxStages] /\ rest' \in [Tasks -> Seq(Boxes)]
        /\ \A t \in Tasks \ {Main} : stage'[t] = stage[t] /\ rest'[t] = rest[t]
        /\ \/ bridge' = "ready" /\ stage'[Main] = "idle" /\ rest'[Main] = <<>>
           \/ bridge' = "cleaning" /\ stage'[Main] = "removing"
    <3>1. CASE stateFile = {}
      BY <1>15, <2>b, <3>1 DEF LoadState, Initialized
    <3>2. CASE stateFile # {}
      <4>1. SetToSeq(stateFile) \in Seq(Boxes)
        BY ListedElements DEF BoxTypes
      <4>2. /\ bridge' = "cleaning" /\ stage' = [stage EXCEPT ![Main] = "removing"]
            /\ rest' = [rest EXCEPT ![Main] = SetToSeq(stateFile)]
        BY <1>15, <3>2 DEF LoadState, BeginRemoval, SetStage
      <4>. QED BY <2>b, <4>1, <4>2
    <3>. QED BY <3>1, <3>2
  <2>1. BoxTypes'
    BY <2>a, <2>c DEF BoxTypes
  <2>2. StagesFit'
    BY <2>a, <2>c, MainApart DEF StagesFit
  <2>3. OneCreator'
    BY <2>a, StillCreates DEF Registered
  <2>. QED BY <2>1, <2>2, <2>3
<1>16. CASE CleanedUp
  <2>a. IsFiniteSet(stateFile') /\ stateFile' \subseteq Boxes
    BY <1>16, ClearedState DEF CleanedUp, BoxTypes
  <2>b. /\ UNCHANGED <<boxes, underway, dirs, call, rest>>
        /\ bridge = "cleaning" /\ bridge' = "ready" /\ rest[Main] = <<>>
        /\ stage' = [stage EXCEPT ![Main] = "idle"]
    BY <1>16 DEF CleanedUp, Initialized, SetStage, boxMaps, callVars
  <2>1. BoxTypes'
    BY <2>a, <2>b DEF BoxTypes
  <2>2. StagesFit'
    BY <2>b, MainApart DEF StagesFit, BoxTypes
  <2>3. OneCreator'
    BY <2>b, StillCreates DEF Registered
  <2>. QED BY <2>1, <2>2, <2>3
<1>17. CASE Exit
  <2>1. BoxTypes'
    BY <1>17, EmptyElements DEF Exit, TasksEnd, SetStage, Busy, Nothing, BoxTypes
  <2>2. StagesFit'
    BY <1>17, MainApart, EmptyElements
    DEF Exit, TasksEnd, SetStage, Busy, Nothing, BoxTypes, StagesFit
  <2>3. OneCreator'
    BY <1>17, EmptyElements DEF Exit, TasksEnd, SetStage, Busy, Nothing, OneCreator, Registered
  <2>. QED BY <2>1, <2>2, <2>3
<1>18. CASE Left
  <2>1. BoxTypes'
    BY <1>18, ClearedState
    DEF Left, boxMaps, callVars, Registered, SetStage, Busy, Nothing, BoxTypes
  <2>2. StagesFit'
    BY <1>18, MainApart
    DEF Left, boxMaps, callVars, Registered, SetStage, Busy, Nothing, BoxTypes, StagesFit
  <2>3. OneCreator'
    BY <1>18, StillCreates
    DEF Left, boxMaps, callVars, Registered, SetStage, Busy, Nothing, BoxTypes, StagesFit
  <2>. QED BY <2>1, <2>2, <2>3
<1>19. CASE Kill
  <2>1. BoxTypes'
    BY <1>19, EmptyElements, FS_EmptySet DEF Kill, TasksEnd, SetStage, Busy, Nothing, BoxTypes
  <2>2. StagesFit'
    BY <1>19, MainApart DEF Kill, TasksEnd, SetStage, Busy, Nothing, BoxTypes, StagesFit
  <2>3. OneCreator'
    BY <1>19, EmptyElements DEF Kill, TasksEnd, SetStage, Busy, Nothing, OneCreator, Registered
  <2>. QED BY <2>1, <2>2, <2>3
<1>20. CASE Start
  <2>1. BoxTypes'
    BY <1>20 DEF Start, boxMaps, callVars, Registered, SetStage, Busy, Nothing, BoxTypes
  <2>2. StagesFit'
    BY <1>20, MainApart
    DEF Start, boxMaps, callVars, Registered, SetStage, Busy, Nothing, BoxTypes, StagesFit
  <2>3. OneCreator'
    BY <1>20, StillCreates
    DEF Start, boxMaps, callVars, Registered, SetStage, Busy, Nothing, BoxTypes, StagesFit
  <2>. QED BY <2>1, <2>2, <2>3
<1>21. CASE UNCHANGED sandboxVars
  <2>1. BoxTypes'
    BY <1>21
    DEF sandboxVars, boxMaps, bridgeVars, callVars, Registered, SetStage, Busy, Nothing, BoxTypes
  <2>2. StagesFit'
    BY <1>21, MainApart
    DEF sandboxVars, boxMaps, bridgeVars, callVars, Registered, SetStage, Busy, Nothing,
        BoxTypes, StagesFit
  <2>3. OneCreator'
    BY <1>21, StillCreates
    DEF sandboxVars, boxMaps, bridgeVars, callVars, Registered, SetStage, Busy, Nothing,
        BoxTypes, StagesFit
  <2>. QED BY <2>1, <2>2, <2>3
<1>. QED
  BY <1>1, <1>2, <1>3, <1>4, <1>5, <1>6, <1>7, <1>8, <1>9, <1>10, <1>11, <1>12, <1>13, <1>14,
     <1>15, <1>16, <1>17, <1>18, <1>19, <1>20, <1>21
  DEF SandboxNext, BoxStep

\* Who removes a directory when a task is given sandboxes to remove.
LEMMA RemoversOfRest ==
  ASSUME BoxTypes, NEW t \in Tasks, NEW todo, rest' = [rest EXCEPT ![t] = todo], NEW k
  PROVE  /\ k \notin ToSet(todo) => Removers(k)' \subseteq Removers(k)
         /\ ToSet(rest[t]) \subseteq ToSet(todo) => Removers(k) \subseteq Removers(k)'
         /\ k \in ToSet(todo) => Removers(k)' # {}
BY DEF BoxTypes, Removers

\* Who removes it when a task goes on to its next one.
LEMMA RemoversOfTail ==
  ASSUME BoxTypes, NEW t \in Tasks, rest[t] # <<>>,
         rest' = rest \/ rest' = [rest EXCEPT ![t] = Tail(rest[t])], NEW k
  PROVE  /\ Removers(k)' \subseteq Removers(k)
         /\ k # Head(rest[t]) => Removers(k)' = Removers(k)
         /\ Removers(Head(rest[t])) # {}
<1>1. ToSet(rest[t]) = {Head(rest[t])} \cup ToSet(Tail(rest[t]))
  BY TailElements DEF BoxTypes
<1>. QED BY <1>1 DEF BoxTypes, Removers

\* Steps that make no directory and remove none that a sandbox relies on.
LEMMA RacesKept ==
  ASSUME RacesNoted, Seen' \subseteq Seen, Housed' \subseteq Housed,
         \A k \in Housed' : /\ k \in raced => k \in raced'
                            /\ k \in dirs => k \in dirs' \cup raced'
                            /\ Removers(k)' # {} => Removers(k) # {}
  PROVE  RacesNoted'
<1>1. Seen' \subseteq Housed'
  BY DEF Housed
<1>. QED BY <1>1 DEF RacesNoted

\* The sandbox that a task creates is not one of the others.
LEMMA HousedApart ==
  ASSUME ControlInv
  PROVE  /\ Housed \subseteq Registered \cup underway
         /\ Seen \subseteq Housed
         /\ Registered \subseteq Seen
BY DEF ControlInv, OneCreator, StagesFit, BoxTypes, BoxStages, CallRecords, Housed, Seen

\* Sandboxes that are given up, and whose directories a task then removes.
LEMMA GivenUp ==
  ASSUME ControlInv, RacesNoted, dirs' = dirs,
         NEW t \in Tasks, NEW todo, rest' = [rest EXCEPT ![t] = todo],
         ToSet(todo) \subseteq Registered, Registered' \subseteq Registered \ ToSet(todo),
         \A c \in BoxCalls : stage'[c] \in {"made", "checked"} =>
                               stage'[c] = stage[c] /\ call'[c].box = call[c].box,
         \A k \in raced \cap (Registered' \cup underway) : k \in ToSet(todo) \cup raced'
  PROVE  RacesNoted'
<1>1. Seen' \subseteq Seen /\ Housed' \subseteq Housed
  BY DEF Seen, Housed
<1>2. \A c \in BoxCalls : stage[c] \in {"made", "checked"} =>
                            call[c].box \in underway /\ call[c].box \notin Registered
  BY DEF ControlInv, StagesFit, OneCreator
<1>3. Housed' \subseteq (Registered' \cup underway) \ ToSet(todo)
  BY <1>2 DEF Seen, Housed
<1>4. \A k \in Housed' : k \in raced => k \in raced'
  BY <1>3
<1>5. \A k \in Housed' : Removers(k)' # {} => Removers(k) # {}
  BY <1>3, RemoversOfRest DEF ControlInv
<1>. QED BY <1>1, <1>4, <1>5, RacesKept

\* No step removes the directory of a sandbox that is not noted as raced.
LEMMA RacesStep == ControlInv /\ ControlInv' /\ RacesNoted /\ [SandboxNext]_sandboxVars => RacesNoted'
<1>. SUFFICES ASSUME ControlInv, ControlInv', RacesNoted, [SandboxNext]_sandboxVars PROVE RacesNoted'
  OBVIOUS
<1>0. BoxTypes /\ StagesFit /\ OneCreator
  BY DEF ControlInv
<1>1. ASSUME NEW c \in BoxCalls, NEW k \in Boxes, Ask(c, k) PROVE RacesNoted'
  BY <1>0, <1>1, MainApart, RacesKept
  DEF Ask, Takes, boxMaps, Busy, SetStage, BoxTypes, Seen, Housed, Registered, Removers
<1>2. ASSUME NEW c \in BoxCalls, NEW k \in Boxes, GetOrCreate(c, k) PROVE RacesNoted'
  <2>1. \A d \in BoxCalls : stage'[d] \in {"made", "checked"} =>
                              stage'[d] = stage[d] /\ call'[d].box = call[d].box
    <3>1. stage' = [stage EXCEPT ![c] = "removing"] \/ stage' = [stage EXCEPT ![c] = "start"]
      BY <1>2 DEF GetOrCreate, BeginRemoval, SetStage
    <3>2. \A d \in BoxCalls \ {c} : call'[d] = call[d]
      BY <1>0, <1>2 DEF GetOrCreate, MayCreate, Takes, Asked, BoxTypes
    <3>. QED BY <1>0, <3>1, <3>2, MainApart DEF BoxTypes
  <2>2. dirs' = dirs
    BY <1>2 DEF GetOrCreate
  <2>3. CASE Len(boxes) >= MaxBoxes
    <3>1. boxes # <<>> /\ boxes' = Tail(boxes) /\ rest' = [rest EXCEPT ![c] = <<Head(boxes)>>]
          /\ raced' = raced \ {Head(boxes)}
      BY <1>2, <2>3, BoxAssumption, EmptySeq DEF GetOrCreate, BeginRemoval
    <3>2. /\ ToSet(boxes) = {Head(boxes)} \cup ToSet(Tail(boxes))
          /\ Head(boxes) \notin ToSet(Tail(boxes))
      BY <1>0, <3>1, TailElements DEF BoxTypes
    <3>3. ToSet(<<Head(boxes)>>) = {Head(boxes)}
      BY OneElement
    <3>. QED BY <2>1, <2>2, <3>1, <3>2, <3>3, MainApart, GivenUp DEF Registered
  <2>4. CASE ~(Len(boxes) >= MaxBoxes)
    <3>1. UNCHANGED <<boxes, rest, raced>>
      BY <1>2, <2>4 DEF GetOrCreate
    <3>2. Seen' \subseteq Seen /\ Housed' \subseteq Housed
      BY <2>1, <3>1 DEF Seen, Housed, Registered
    <3>. QED BY <2>2, <3>1, <3>2, RacesKept DEF Removers
  <2>. QED BY <2>3, <2>4
<1>3. ASSUME NEW c \in BoxCalls, NEW k \in Boxes, Destroy(c, k) PROVE RacesNoted'
  <2>1. ToSet(<<k>>) = {k} /\ k \in Registered /\ Registered' = Registered \ {k}
    <3>1. PICK i \in DOMAIN boxes : boxes[i] = k /\ boxes' = RemoveAt(boxes, i)
      BY <1>3 DEF Destroy
    <3>2. ToSet(RemoveAt(boxes, i)) = ToSet(boxes) \ {boxes[i]}
      BY <1>0, RemovedElements DEF BoxTypes
    <3>3. k \in ToSet(boxes)
      BY <3>1 DEF ToSet
    <3>. QED BY <3>1, <3>2, <3>3, OneElement DEF Registered
  <2>2. \A d \in BoxCalls : stage'[d] \in {"made", "checked"} =>
                              stage'[d] = stage[d] /\ call'[d].box = call[d].box
    BY <1>0, <1>3, MainApart DEF Destroy, Takes, BeginRemoval, SetStage, BoxTypes
  <2>. QED
    BY <1>3, <2>1, <2>2, MainApart, GivenUp DEF Destroy, BeginRemoval
<1>4. ASSUME NEW c \in BoxCalls, Disable(c) PROVE RacesNoted'
  <2>1. Registered' = {}
    BY <1>4, EmptyElements DEF Disable, Registered
  <2>2. \A d \in BoxCalls : stage'[d] \in {"made", "checked"} =>
                              stage'[d] = stage[d] /\ call'[d].box = call[d].box
    BY <1>0, <1>4, MainApart DEF Disable, Takes, BeginRemoval, SetStage, BoxTypes
  <2>. QED
    BY <1>4, <2>1, <2>2, MainApart, GivenUp DEF Disable, BeginRemoval, Registered
<1>5. ASSUME NEW c \in BoxCalls, Sigterm(c) PROVE RacesNoted'
  BY <1>0, <1>5, MainApart, RacesKept
  DEF Sigterm, Takes, boxMaps, Busy, SetStage, BoxTypes, Seen, Housed, Registered, Removers
<1>6. ASSUME NEW t \in Tasks, Attempt(t) PROVE RacesNoted'
  <2>1. rest' = rest \/ rest' = [rest EXCEPT ![t] = Tail(rest[t])]
    BY <1>6 DEF Attempt, Retry
  <2>2. Seen' = Seen /\ Housed' = Housed
    BY <1>0, <1>6, MainApart
    DEF Attempt, Retry, SetStage, boxMaps, callVars, BoxTypes, Seen, Housed, Registered
  <2>3. dirs' = dirs \/ dirs' = dirs \ {Head(rest[t])}
    BY <1>6 DEF Attempt
  <2>. QED BY <1>0, <1>6, <2>1, <2>2, <2>3, RacesKept, RemoversOfTail DEF Attempt, RacesNoted
<1>7. ASSUME NEW t \in Tasks, Verify(t) PROVE RacesNoted'
  <2>1. rest' = rest \/ rest' = [rest EXCEPT ![t] = Tail(rest[t])]
    BY <1>7 DEF Verify, Retry
  <2>2. Seen' = Seen /\ Housed' = Housed /\ rest[t] # <<>>
    BY <1>0, <1>7, MainApart
    DEF Verify, Retry, SetStage, boxMaps, callVars, BoxTypes, StagesFit, Seen, Housed, Registered
  <2>. QED BY <1>0, <1>7, <2>1, <2>2, RacesKept, RemoversOfTail DEF Verify
<1>8. ASSUME NEW c \in BoxCalls, DestroyAll(c) PROVE RacesNoted'
  <2>1. Registered' = {}
    BY <1>8, EmptyElements DEF DestroyAll, Registered
  <2>2. \A d \in BoxCalls : stage'[d] \in {"made", "checked"} =>
                              stage'[d] = stage[d] /\ call'[d].box = call[d].box
    BY <1>0, <1>8, MainApart DEF DestroyAll, callVars, BeginRemoval, SetStage, BoxTypes
  <2>. QED
    BY <1>8, <2>1, <2>2, MainApart, GivenUp DEF DestroyAll, BeginRemoval, Registered
<1>9. ASSUME NEW c \in BoxCalls, Stopped(c) PROVE RacesNoted'
  <2>1. \A d \in BoxCalls : stage'[d] \in {"made", "checked"} =>
                              stage'[d] = stage[d] /\ call'[d].box = call[d].box
    BY <1>0, <1>9, MainApart DEF Stopped, Return, callVars, SetStage, BoxTypes
  <2>2. UNCHANGED <<boxes, dirs, raced, rest>>
    BY <1>9 DEF Stopped
  <2>. QED BY <2>1, <2>2, RacesKept DEF Seen, Housed, Registered, Removers
<1>10. ASSUME NEW c \in BoxCalls, MakeDir(c) PROVE RacesNoted'
  <2>. DEFINE k == call[c].box
  <2>1. UNCHANGED <<boxes, call, rest>> /\ stage' = [stage EXCEPT ![c] = "made"] /\ dirs' = dirs \cup {k}
    BY <1>10 DEF MakeDir, SetStage, boxMaps, callVars
  <2>2. stage[c] = "start" /\ k \in underway /\ k \notin Registered
    BY <1>0, <1>10 DEF MakeDir, StagesFit, OneCreator
  <2>3. Seen' = Seen /\ Housed' = Housed \cup {k}
    BY <1>0, <2>1, <2>2, MainApart DEF BoxTypes, Seen, Housed, Registered
  <2>4. raced \ {k} \subseteq raced' /\ (Removers(k) # {} => k \in raced')
    BY <1>10 DEF MakeDir
  <2>5. \A x : Removers(x)' = Removers(x)
    BY <2>1 DEF Removers
  <2>. QED BY <2>1, <2>3, <2>4, <2>5 DEF RacesNoted
<1>11. ASSUME NEW c \in BoxCalls, CheckDir(c) PROVE RacesNoted'
  <2>1. UNCHANGED <<boxes, call, rest, dirs, raced>> /\ stage' = [stage EXCEPT ![c] = "checked"]
        /\ stage[c] = "made" /\ call[c].box \in dirs
    BY <1>11 DEF CheckDir, SetStage, boxMaps, callVars
  <2>2. Seen' = Seen \cup {call[c].box} /\ Housed' = Housed
    BY <1>0, <2>1, MainApart DEF BoxTypes, Seen, Housed, Registered
  <2>3. \A x : Removers(x)' = Removers(x)
    BY <2>1 DEF Removers
  <2>. QED BY <2>1, <2>2, <2>3 DEF RacesNoted
<1>12. ASSUME NEW c \in BoxCalls, Register(c) PROVE RacesNoted'
  <2>1. UNCHANGED <<rest, dirs, raced>> /\ stage' = [stage EXCEPT ![c] = "idle"]
        /\ stage[c] = "checked" /\ boxes' = Append(boxes, call[c].box)
        /\ call' = [call EXCEPT ![c] = Nothing]
    BY <1>12 DEF Register, Return, SetStage
  <2>2. call[c].box \in Boxes
    BY <1>0, <2>1 DEF StagesFit
  <2>3. Registered' = Registered \cup {call[c].box}
    BY <1>0, <2>1, <2>2, AppendElements DEF BoxTypes, Registered
  <2>4. Seen' \subseteq Seen /\ Housed' \subseteq Housed
    BY <1>0, <2>1, <2>3, MainApart DEF BoxTypes, Seen, Housed
  <2>. QED BY <2>1, <2>4, RacesKept DEF Removers
<1>13. ASSUME NEW c \in BoxCalls, Abandon(c) PROVE RacesNoted'
  <2>. DEFINE k == call[c].box
  <2>1. UNCHANGED <<boxes, dirs>> /\ stage' = [stage EXCEPT ![c] = "idle"]
        /\ call' = [call EXCEPT ![c] = Nothing] /\ raced' = raced \ {k}
        /\ rest' = [rest EXCEPT ![c] = <<>>] /\ call[c].op = "create"
    BY <1>13 DEF Abandon, Return, SetStage
  <2>2. k \in underway /\ k \notin Registered /\ \A d \in BoxCalls \ {c} :
          stage[d] \in {"made", "checked"} => call[d].box # k
    BY <1>0, <2>1 DEF StagesFit, OneCreator
  <2>3. Seen' \subseteq Seen /\ Housed' \subseteq Housed /\ k \notin Housed'
    BY <1>0, <2>1, <2>2, MainApart DEF BoxTypes, Seen, Housed, Registered
  <2>4. \A x : Removers(x)' \subseteq Removers(x)
    BY <1>0, <2>1, MainApart, EmptyElements, RemoversOfRest
  <2>. QED BY <2>1, <2>3, <2>4, RacesKept
<1>14. ASSUME NEW c \in BoxCalls, Refuse(c) PROVE RacesNoted'
  BY <1>0, <1>14, MainApart, RacesKept
  DEF Refuse, Return, boxMaps, SetStage, BoxTypes, Seen, Housed, Registered, Removers
<1>15. CASE LoadState
  <2>. DEFINE todo == SetToSeq(stateFile)
  <2>1. UNCHANGED <<boxes, dirs, call>>
        /\ raced' = raced \cup (stateFile \cap (Registered \cup underway))
    BY <1>15 DEF LoadState, boxMaps, callVars
  <2>2. CASE stateFile = {}
    BY <1>15, <2>1, <2>2, RacesKept DEF LoadState, Seen, Housed, Registered, Removers
  <2>3. CASE stateFile # {}
    <3>1. /\ stage' = [stage EXCEPT ![Main] = "removing"]
          /\ rest' = [rest EXCEPT ![Main] = todo]
      BY <1>15, <2>3 DEF LoadState, BeginRemoval, SetStage
    <3>2. ToSet(todo) \subseteq stateFile
      BY <1>0, ListedElements DEF BoxTypes
    <3>3. Seen' = Seen /\ Housed' = Housed
      BY <1>0, <2>1, <3>1, MainApart DEF BoxTypes, Seen, Housed, Registered
    <3>4. \A k \in Housed : Removers(k)' # {} => k \in raced'
      <4>. SUFFICES ASSUME NEW k \in Housed, Removers(k)' # {}, k \notin raced PROVE k \in stateFile
        BY <2>1, HousedApart
      <4>. QED BY <1>0, <3>1, <3>2, MainApart, RemoversOfRest DEF RacesNoted
    <3>. QED BY <2>1, <3>3, <3>4 DEF RacesNoted
  <2>. QED BY <2>2, <2>3
<1>16. CASE CleanedUp
  BY <1>0, <1>16, MainApart, RacesKept
  DEF CleanedUp, boxMaps, callVars, SetStage, BoxTypes, Seen, Housed, Registered, Removers
<1>17. CASE Exit
  <2>1. boxes' = <<>> /\ \A c \in BoxCalls : stage'[c] = "idle"
    BY <1>17, MainApart DEF Exit
  <2>2. Housed' = {} /\ Seen' = {}
    BY <2>1, EmptyElements DEF Housed, Seen, Registered
  <2>. QED BY <2>2 DEF RacesNoted
<1>18. CASE Left
  BY <1>0, <1>18, MainApart, RacesKept
  DEF Left, boxMaps, callVars, SetStage, BoxTypes, Seen, Housed, Registered, Removers
<1>19. CASE Kill
  <2>1. boxes' = <<>> /\ \A c \in BoxCalls : stage'[c] = "idle"
    BY <1>19, MainApart DEF Kill
  <2>2. Housed' = {} /\ Seen' = {}
    BY <2>1, EmptyElements DEF Housed, Seen, Registered
  <2>. QED BY <2>2 DEF RacesNoted
<1>20. CASE Start
  BY <1>0, <1>20, RacesKept DEF Start, boxMaps, callVars, Seen, Housed, Registered, Removers
<1>21. CASE UNCHANGED sandboxVars
  BY <1>0, <1>21, RacesKept DEF sandboxVars, boxMaps, callVars, Seen, Housed, Registered, Removers
<1>. QED
  BY <1>1, <1>2, <1>3, <1>4, <1>5, <1>6, <1>7, <1>8, <1>9, <1>10, <1>11, <1>12, <1>13, <1>14, <1>15,
     <1>16, <1>17, <1>18, <1>19, <1>20, <1>21
  DEF SandboxNext, BoxStep

\* Sandboxes that are given up and whose directories a task then removes are known.
LEMMA HandedOver ==
  ASSUME ControlInv, DirsKnown, UNCHANGED <<dirs, stateFile, strayed, termed>>,
         NEW t \in Tasks, rest[t] = <<>>, NEW todo, rest' = [rest EXCEPT ![t] = todo],
         Registered \subseteq Registered' \cup ToSet(todo), Registered' \subseteq Registered,
         underway \subseteq underway', bridge' # "leaving"
  PROVE  DirsKnown'
<1>1. \A k : Removers(k) \subseteq Removers(k)'
  BY EmptyElements, RemoversOfRest DEF ControlInv
<1>2. \A k \in ToSet(todo) : Removers(k)' # {}
  BY RemoversOfRest DEF ControlInv
<1>. QED BY <1>1, <1>2 DEF DirsKnown

\* An attempt that is not the last, or the end of the attempts.
LEMMA RetryKnown ==
  ASSUME ControlInv, DirsKnown, NEW t \in Tasks, rest[t] # <<>>, Retry(t),
         UNCHANGED <<boxes, underway, dirs, stateFile, termed, bridge>>
  PROVE  DirsKnown'
<1>. DEFINE k == Head(rest[t])
<1>1. CASE UNCHANGED <<rest, strayed>>
  BY <1>1 DEF DirsKnown, Registered, Removers
<1>2. CASE /\ rest' = [rest EXCEPT ![t] = Tail(rest[t])]
           /\ strayed' = strayed \cup ((IF bridge # "leaving" THEN {k} \ stateFile ELSE {k}) \cap dirs)
  <2>1. \A x : x # k => Removers(x)' = Removers(x)
    BY <1>2, RemoversOfTail DEF ControlInv
  <2>2. ToSet(rest[Main]) \subseteq {k} \cup ToSet(rest'[Main])
    BY <1>2, MainApart, TailElements DEF ControlInv, BoxTypes
  <2>. QED BY <1>2, <2>1, <2>2 DEF DirsKnown, Registered
<1>. QED BY <1>1, <1>2 DEF Retry, Stray

\* No step forgets a directory without noting it as strayed.
LEMMA DirsStep == ControlInv /\ ControlInv' /\ DirsKnown /\ [SandboxNext]_sandboxVars => DirsKnown'
<1>. SUFFICES ASSUME ControlInv, ControlInv', DirsKnown, [SandboxNext]_sandboxVars PROVE DirsKnown'
  OBVIOUS
<1>0. BoxTypes /\ StagesFit /\ OneCreator
  BY DEF ControlInv
<1>1. ASSUME NEW c \in BoxCalls, NEW k \in Boxes, Ask(c, k) PROVE DirsKnown'
  BY <1>1 DEF Ask, boxMaps, bridgeVars, DirsKnown, Registered, Removers
<1>2. ASSUME NEW c \in BoxCalls, NEW k \in Boxes, GetOrCreate(c, k) PROVE DirsKnown'
  <2>1. rest[c] = <<>> /\ bridge # "leaving"
    BY <1>0, <1>2, MainApart DEF GetOrCreate, MayCreate, Takes, Up, Busy, Asked, StagesFit
  <2>2. UNCHANGED <<dirs, stateFile, strayed, termed, bridge>> /\ underway \subseteq underway'
    BY <1>2 DEF GetOrCreate, bridgeVars
  <2>3. CASE Len(boxes) >= MaxBoxes
    <3>1. boxes # <<>> /\ boxes' = Tail(boxes) /\ rest' = [rest EXCEPT ![c] = <<Head(boxes)>>]
      BY <1>2, <2>3, BoxAssumption, EmptySeq DEF GetOrCreate, BeginRemoval
    <3>2. ToSet(boxes) = {Head(boxes)} \cup ToSet(Tail(boxes))
      BY <1>0, <3>1, TailElements DEF BoxTypes
    <3>3. ToSet(<<Head(boxes)>>) = {Head(boxes)}
      BY OneElement
    <3>. QED BY <2>1, <2>2, <3>1, <3>2, <3>3, MainApart, HandedOver DEF Registered
  <2>4. CASE ~(Len(boxes) >= MaxBoxes)
    <3>1. UNCHANGED <<boxes, rest>>
      BY <1>2, <2>4 DEF GetOrCreate
    <3>. QED BY <2>1, <2>2, <3>1 DEF DirsKnown, Registered, Removers
  <2>. QED BY <2>3, <2>4
<1>3. ASSUME NEW c \in BoxCalls, NEW k \in Boxes, Destroy(c, k) PROVE DirsKnown'
  <2>1. PICK i \in DOMAIN boxes : boxes[i] = k /\ boxes' = RemoveAt(boxes, i)
    BY <1>3 DEF Destroy
  <2>2. ToSet(RemoveAt(boxes, i)) = ToSet(boxes) \ {boxes[i]} /\ ToSet(<<k>>) = {k}
    BY <1>0, OneElement, RemovedElements DEF BoxTypes
  <2>3. rest[c] = <<>> /\ bridge # "leaving"
    BY <1>0, <1>3, MainApart DEF Destroy, Takes, Up, Busy, StagesFit
  <2>. QED BY <1>3, <2>1, <2>2, <2>3, MainApart, HandedOver
    DEF Destroy, BeginRemoval, bridgeVars, Registered
<1>4. ASSUME NEW c \in BoxCalls, Disable(c) PROVE DirsKnown'
  <2>1. rest[c] = <<>> /\ bridge # "leaving"
    BY <1>0, <1>4, MainApart DEF Disable, Takes, Up, Busy, StagesFit
  <2>. QED
    BY <1>4, <2>1, EmptyElements, MainApart, HandedOver DEF Disable, BeginRemoval, Registered
<1>5. ASSUME NEW c \in BoxCalls, Sigterm(c) PROVE DirsKnown'
  <2>1. UNCHANGED <<boxes, underway, dirs, bridge, rest>> /\ bridge # "leaving" /\ termed' = TRUE
    BY <1>5 DEF Sigterm, Takes, Up, boxMaps
  <2>2. /\ strayed \subseteq strayed'
        /\ (stateFile \ Registered) \cap stateFile \cap dirs \subseteq stateFile' \cup strayed'
    BY <1>0, <1>5, ClearedState DEF Sigterm
  <2>. QED BY <2>1, <2>2 DEF DirsKnown, Registered, Removers
<1>6. ASSUME NEW t \in Tasks, Attempt(t) PROVE DirsKnown'
  <2>1. UNCHANGED <<boxes, underway, stateFile, termed, bridge>> /\ rest[t] # <<>>
    BY <1>6 DEF Attempt, boxMaps, bridgeVars
  <2>2. CASE dirs' = dirs \ {Head(rest[t])} /\ strayed' = strayed \ {Head(rest[t])} /\ rest' = rest
    BY <2>1, <2>2 DEF DirsKnown, Registered, Removers
  <2>3. CASE Retry(t) /\ UNCHANGED dirs
    BY <2>1, <2>3, RetryKnown
  <2>. QED BY <1>6, <2>2, <2>3 DEF Attempt
<1>7. ASSUME NEW t \in Tasks, Verify(t) PROVE DirsKnown'
  <2>1. UNCHANGED <<boxes, underway, dirs, stateFile, termed, bridge>> /\ rest[t] # <<>>
    BY <1>0, <1>7 DEF Verify, boxMaps, bridgeVars, StagesFit
  <2>2. CASE Retry(t)
    BY <2>1, <2>2, RetryKnown
  <2>3. CASE /\ rest' = [rest EXCEPT ![t] = Tail(rest[t])] /\ UNCHANGED strayed
             /\ Head(rest[t]) \notin dirs
    <3>1. \A x : x # Head(rest[t]) => Removers(x)' = Removers(x)
      BY <1>0, <2>1, <2>3, RemoversOfTail
    <3>2. ToSet(rest[Main]) \subseteq {Head(rest[t])} \cup ToSet(rest'[Main])
      BY <1>0, <2>1, <2>3, MainApart, TailElements DEF BoxTypes
    <3>. QED BY <2>1, <2>3, <3>1, <3>2 DEF DirsKnown, Registered
  <2>. QED BY <1>7, <2>2, <2>3 DEF Verify
<1>8. ASSUME NEW c \in BoxCalls, DestroyAll(c) PROVE DirsKnown'
  <2>1. rest[c] = <<>> /\ bridge # "leaving"
    BY <1>0, <1>8, MainApart DEF DestroyAll, StagesFit
  <2>. QED
    BY <1>8, <2>1, EmptyElements, MainApart, HandedOver
    DEF DestroyAll, BeginRemoval, bridgeVars, Registered
<1>9. ASSUME NEW c \in BoxCalls, Stopped(c) PROVE DirsKnown'
  <2>1. UNCHANGED underway
    BY <1>0, <1>9 DEF Stopped, StagesFit, OneCreator
  <2>2. bridge # "leaving"
    BY <1>0, <1>9 DEF Stopped, StagesFit
  <2>3. \A k : Removers(k)' = Removers(k)
    BY <1>9 DEF Stopped, Removers
  <2>4. (stateFile \cup Registered) \cap dirs \subseteq stateFile' \cup strayed'
        /\ strayed \subseteq stateFile' \cup strayed'
    BY <1>0, <1>9, SavedState DEF Stopped, BoxTypes, Registered
  <2>. QED BY <1>9, <2>1, <2>2, <2>3, <2>4 DEF Stopped, DirsKnown, Registered
<1>10. ASSUME NEW c \in BoxCalls, MakeDir(c) PROVE DirsKnown'
  <2>1. call[c].box \in underway /\ call[c].box \notin Registered /\ bridge # "leaving"
    BY <1>0, <1>10 DEF MakeDir, StagesFit, OneCreator
  <2>. QED BY <1>10, <2>1 DEF MakeDir, boxMaps, bridgeVars, DirsKnown, Registered, Removers
<1>11. ASSUME NEW c \in BoxCalls, CheckDir(c) PROVE DirsKnown'
  BY <1>11 DEF CheckDir, boxMaps, bridgeVars, DirsKnown, Registered, Removers
<1>12. ASSUME NEW c \in BoxCalls, Register(c) PROVE DirsKnown'
  <2>1. call[c].box \in Boxes /\ bridge # "leaving"
    BY <1>0, <1>12 DEF Register, StagesFit
  <2>2. Registered' = Registered \cup {call[c].box}
    BY <1>0, <1>12, <2>1, AppendElements DEF Register, BoxTypes, Registered
  <2>3. \A k : Removers(k)' = Removers(k)
    BY <1>12 DEF Register, Removers
  <2>4. (stateFile \cup Registered') \cap dirs \subseteq stateFile' \cup strayed'
        /\ strayed \subseteq stateFile' \cup strayed'
    <3>1. Append(boxes, call[c].box) \in Seq(Boxes)
      BY <1>0, <2>1, AppendElements DEF BoxTypes
    <3>. QED BY <1>0, <1>12, <3>1, SavedState DEF Register, Registered
  <2>. QED BY <1>12, <2>1, <2>2, <2>3, <2>4 DEF Register, bridgeVars, DirsKnown
<1>13. ASSUME NEW c \in BoxCalls, Abandon(c) PROVE DirsKnown'
  <2>1. bridge # "leaving"
    BY <1>0, <1>13 DEF Abandon, StagesFit
  <2>2. \A k : k \notin ToSet(rest[c]) => Removers(k) \subseteq Removers(k)'
    BY <1>0, <1>13, MainApart DEF Abandon, BoxTypes, Removers
  <2>3. /\ UNCHANGED <<dirs, stateFile, termed, bridge>> /\ Registered' = Registered
        /\ underway' = underway \ {call[c].box}
        /\ strayed' = strayed \cup (({call[c].box} \cup ToSet(rest[c])) \cap dirs)
    BY <1>13 DEF Abandon, Stray, bridgeVars, Registered
  <2>. QED BY <2>1, <2>2, <2>3 DEF DirsKnown
<1>14. ASSUME NEW c \in BoxCalls, Refuse(c) PROVE DirsKnown'
  BY <1>14 DEF Refuse, boxMaps, bridgeVars, DirsKnown, Registered, Removers
<1>15. CASE LoadState
  <2>1. UNCHANGED <<boxes, underway, dirs, stateFile, strayed, termed>> /\ bridge' # "leaving"
    BY <1>15 DEF LoadState, Initialized, boxMaps
  <2>2. CASE stateFile = {}
    BY <1>15, <2>1, <2>2 DEF LoadState, DirsKnown, Registered, Removers
  <2>3. CASE stateFile # {}
    <3>1. rest[Main] = <<>> /\ rest' = [rest EXCEPT ![Main] = SetToSeq(stateFile)]
      BY <1>0, <1>15, <2>3, MainApart DEF LoadState, BeginRemoval, StagesFit
    <3>. QED BY <2>1, <3>1, MainApart, HandedOver DEF Registered
  <2>. QED BY <2>2, <2>3
<1>16. CASE CleanedUp
  <2>1. UNCHANGED <<boxes, underway, dirs, termed, rest>> /\ bridge' = "ready"
    BY <1>16 DEF CleanedUp, Initialized, boxMaps
  <2>2. /\ strayed \subseteq strayed'
        /\ stateFile \cap dirs \subseteq stateFile' \cup strayed'
    BY <1>0, <1>16, ClearedState DEF CleanedUp
  <2>. QED BY <2>1, <2>2 DEF DirsKnown, Registered, Removers
<1>17. CASE Exit
  <2>1. \A k : Removers(k) # {} => k \in Loose
    BY DEF Removers, Loose
  <2>2. Registered' = {} /\ underway' = {}
    BY <1>17, EmptyElements DEF Exit, TasksEnd, Registered
  <2>3. CASE manager = "off" \/ termed
    BY <1>17, <2>1, <2>2, <2>3 DEF Exit, Stray, Loose, DirsKnown
  <2>4. CASE ~(manager = "off" \/ termed)
    <3>1. Main \in Tasks /\ rest'[Main] = boxes
      BY <1>17, <2>4, MainApart DEF Exit
    <3>2. \A k \in Registered : Removers(k)' # {} /\ k \in ToSet(rest'[Main])
      BY <3>1 DEF Registered, Removers
    <3>. QED BY <1>17, <2>1, <2>2, <2>4, <3>2 DEF Exit, Stray, Loose, DirsKnown
  <2>. QED BY <2>3, <2>4
<1>18. CASE Left
  <2>1. Registered = {}
    BY <1>0, <1>18, EmptyElements DEF Left, StagesFit, Registered
  <2>2. UNCHANGED <<boxes, underway, dirs, termed, rest>> /\ strayed \subseteq strayed'
        /\ bridge = "leaving" /\ bridge' = "down" /\ rest[Main] = <<>>
    BY <1>0, <1>18, ClearedState DEF Left, boxMaps
  <2>. QED
    BY <2>1, <2>2, EmptyElements DEF DirsKnown, Registered
<1>19. CASE Kill
  <2>1. \A k : Removers(k) # {} => k \in Loose
    BY DEF Removers, Loose
  <2>2. Registered' = {} /\ underway' = {}
    BY <1>19, EmptyElements DEF Kill, TasksEnd, Registered
  <2>. QED BY <1>19, <2>1, <2>2 DEF Kill, Stray, Loose, DirsKnown
<1>20. CASE Start
  <2>1. Registered' = {}
    BY <1>0, <1>20, EmptyElements DEF Start, boxMaps, StagesFit, Registered
  <2>. QED BY <1>20, <2>1 DEF Start, boxMaps, DirsKnown, Registered, Removers
<1>21. CASE UNCHANGED sandboxVars
  BY <1>21 DEF sandboxVars, boxMaps, bridgeVars, DirsKnown, Registered, Removers
<1>. QED
  BY <1>1, <1>2, <1>3, <1>4, <1>5, <1>6, <1>7, <1>8, <1>9, <1>10, <1>11, <1>12, <1>13, <1>14, <1>15,
     <1>16, <1>17, <1>18, <1>19, <1>20, <1>21
  DEF SandboxNext, BoxStep

\* However creations end and whenever the bridge is killed: one creation of a sandbox
\* at a time, none while it is registered, and _creating says what is under way.
THEOREM CreationsAreAccounted == SandboxSpec => []CreationsAccounted
<1>1. ControlInv => CreationsAccounted
  <2>. SUFFICES ASSUME ControlInv PROVE CreationsAccounted
    OBVIOUS
  <2>1. ASSUME NEW k \in Boxes
        PROVE  Creators(k) = {c \in BoxCalls : call[c].op = "create" /\ call[c].box = k}
    BY DEF Creators, ControlInv, BoxTypes, CallRecords
  <2>2. ASSUME NEW k \in Boxes PROVE Cardinality(Creators(k)) <= 1
    <3>1. CASE Creators(k) = {}
      BY <3>1, FS_EmptySet
    <3>2. CASE Creators(k) # {}
      <4>1. PICK c \in Creators(k) : TRUE
        BY <3>2
      <4>2. Creators(k) = {c}
        BY <2>1, <4>1 DEF ControlInv, OneCreator
      <4>. QED BY <4>2, FS_Singleton
    <3>. QED BY <3>1, <3>2
  <2>3. \A k \in Boxes : (k \in underway) = (Creators(k) # {})
    BY <2>1 DEF ControlInv, OneCreator
  <2>. QED BY <2>2, <2>3 DEF CreationsAccounted, ControlInv, OneCreator, BoxTypes
<1>. QED BY <1>1, ControlInitially, ControlStep, PTL DEF SandboxSpec

\* A sandbox has its directory unless the making of it met a removal of the same
\* directory, a directory has its sandbox, a remover or a place in the file, and until
\* a SIGTERM a sandbox's directory is in the file, but for what strayed notes: the
\* exceptions that the comment of the definition lists.
THEOREM SandboxesHaveTheirDirs == SandboxSpec => []DirsMatchSandboxes
<1>1. SandboxInit => RacesNoted /\ DirsKnown
  <2>. SUFFICES ASSUME SandboxInit PROVE RacesNoted /\ DirsKnown
    OBVIOUS
  <2>1. Seen = {} /\ Housed = {} /\ dirs = {} /\ Registered = {} /\ bridge = "booting"
    BY EmptyElements, MainApart DEF SandboxInit, Seen, Housed, Registered
  <2>. QED BY <2>1 DEF RacesNoted, DirsKnown
<1>2. RacesNoted /\ DirsKnown => DirsMatchSandboxes
  BY DEF RacesNoted, DirsKnown, DirsMatchSandboxes, Seen
<1>. QED
  BY <1>1, <1>2, ControlInitially, ControlStep, RacesStep, DirsStep, PTL DEF SandboxSpec
===============================================================================
