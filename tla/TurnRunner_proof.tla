-------------------------- MODULE TurnRunner_proof --------------------------
(***************************************************************************)
(* Proofs about the rounds of one turn: what its end leaves in the         *)
(* snapshot, what becomes of its steering messages, and what its tools     *)
(* leave in the ledger and in the messages that are kept.                  *)
(***************************************************************************)
EXTENDS TurnRunner, TLAPS, WellFoundedInduction

----------------------------------------------------------------------------
(* Induction: a set of numbers has a least one.                            *)

\* A set of numbers that is not empty has a least element: induction rests on it.
LEMMA LeastExists ==
  ASSUME NEW T, T \subseteq Nat, T # {}
  PROVE  \E m \in T : \A n \in T : m <= n
<1> DEFINE R == {ss \in Nat \X Nat : ss[1] < ss[2]}
<1>1. IsWellFoundedOn(R, Nat)
  BY NatLessThanWellFounded DEF OpToRel
<1> HIDE DEF R
<1>2. PICK m \in T : \A n \in T : ~ (<<n, m>> \in R)
  BY <1>1, WFMin
<1> USE DEF R
<1>3. ASSUME NEW n \in T PROVE m <= n
  <2>1. m \in Nat /\ n \in Nat /\ ~ (n < m)
    BY <1>2
  <2> QED
    BY <2>1
<1> QED
  BY <1>3

\* What holds of 0, and of n + 1 when it holds of n, holds of every number, said of a set.
LEMMA SetInduction ==
  ASSUME NEW S, 0 \in S, \A n \in Nat : n \in S => n + 1 \in S
  PROVE  Nat \subseteq S
<1> SUFFICES ASSUME Nat \ S # {} PROVE FALSE
  OBVIOUS
<1>1. PICK m \in Nat \ S : \A n \in Nat \ S : m <= n
  BY LeastExists, Nat \ S \subseteq Nat
<1>2. m # 0
  OBVIOUS
<1>3. m - 1 \in Nat /\ m - 1 \in S
  BY <1>1, <1>2
<1> QED
  BY <1>1, <1>3, m - 1 + 1 = m

\* The same up to a bound.
LEMMA BoundedInduction ==
  ASSUME NEW S, NEW b \in Nat, 0 \in S, \A n \in 0 .. b - 1 : n \in S => n + 1 \in S
  PROVE  0 .. b \subseteq S
<1> DEFINE T == {n \in Nat : n <= b => n \in S}
<1>1. 0 \in T
  OBVIOUS
<1>2. ASSUME NEW n \in Nat, n \in T PROVE n + 1 \in T
  BY <1>2
<1>3. Nat \subseteq T
  <2> HIDE DEF T
  <2> QED
    BY <1>1, <1>2, SetInduction
<1> QED
  BY <1>3

----------------------------------------------------------------------------
(* The recursive functions of ContextRuntime are what their equations say. *)

\* f holds n + 1 values of V, each made by step from the one before.
Iterates(f, V, first, n, step) ==
  /\ f \in [0 .. n -> V] /\ f[0] = first
  /\ \A k \in 1 .. n : f[k] = step[<<k, f[k - 1]>>]

\* There is such an f.
LEMMA IterationExists ==
  ASSUME NEW V, NEW first \in V, NEW n \in Nat, NEW step \in [(1 .. n) \X V -> V]
  PROVE  \E f : Iterates(f, V, first, n, step)
<1> DEFINE Is(f, m) == f[0] = first /\ \A k \in 1 .. m : f[k] = step[<<k, f[k - 1]>>]
           S == {m \in 0 .. n : \E f \in [0 .. m -> V] : Is(f, m)}
<1>1. 0 \in S
  <2> DEFINE f == [k \in 0 .. 0 |-> first]
  <2>1. f \in [0 .. 0 -> V] /\ Is(f, 0)
    OBVIOUS
  <2> HIDE DEF f, Is
  <2> QED
    BY <2>1
<1>2. ASSUME NEW m \in 0 .. n - 1, m \in S PROVE m + 1 \in S
  <2>1. PICK f \in [0 .. m -> V] : Is(f, m)
    BY <1>2
  <2> DEFINE g == [k \in 0 .. m + 1 |-> IF k = m + 1 THEN step[<<m + 1, f[m]>>] ELSE f[k]]
  <2>2. m + 1 \in 1 .. n /\ <<m + 1, f[m]>> \in (1 .. n) \X V
    OBVIOUS
  <2>3. g \in [0 .. m + 1 -> V]
    BY <2>2
  <2>4. ASSUME NEW k \in 1 .. m + 1 PROVE g[k] = step[<<k, g[k - 1]>>]
    <3>1. CASE k \in 1 .. m
      BY <2>1, <3>1
    <3>2. CASE k = m + 1
      <4>1. g[k] = step[<<k, f[m]>>] /\ g[m] = f[m] /\ k - 1 = m
        BY <3>2
      <4> QED
        BY <4>1
    <3> QED
      BY <3>1, <3>2
  <2>5. g[0] = first
    BY <2>1
  <2> HIDE DEF g
  <2>6. Is(g, m + 1) /\ m + 1 \in 0 .. n
    BY <2>4, <2>5
  <2> HIDE DEF Is
  <2> QED
    BY <2>3, <2>6
<1>3. n \in S
  <2> HIDE DEF S
  <2> QED
    BY <1>1, <1>2, BoundedInduction
<1> QED
  BY <1>3 DEF Iterates

\* The values of a pass: what it has released, and a group with the calls of its head and
\* those that have been answered.
PassStates == [fixed : Seq(Messages), group : Seq(Messages),
               calls : SUBSET CallIds, seen : SUBSET (CallIds \cup Steers \cup {NoId})]
NothingYet == [fixed |-> <<>>, group |-> <<>>, calls |-> {}, seen |-> {}]

\* Releasing a group makes a list of messages.
LEMMA ReleaseType ==
  ASSUME NEW p \in PassStates PROVE Release(p) \in Seq(Messages)
BY DEF Release, PassStates

\* A step of the pass makes a pass.
LEMMA PruneStepType ==
  ASSUME NEW p \in PassStates, NEW m \in Messages PROVE PruneStep(p, m) \in PassStates
<1>1. m.id \in CallIds \cup Steers \cup {NoId} /\ m.calls \in SUBSET CallIds
  BY DEF Messages
<1>2. CASE m.role = "tool" /\ m.id \in p.calls \ p.seen
  <2>1. PruneStep(p, m) = [fixed |-> p.fixed, group |-> Append(p.group, m),
                           calls |-> p.calls, seen |-> p.seen \cup {m.id}]
    BY <1>2 DEF PruneStep, PassStates
  <2>2. Append(p.group, m) \in Seq(Messages) /\ p.fixed \in Seq(Messages)
        /\ p.calls \in SUBSET CallIds
        /\ p.seen \cup {m.id} \in SUBSET (CallIds \cup Steers \cup {NoId})
    BY <1>1 DEF PassStates
  <2> QED
    BY <2>1, <2>2 DEF PassStates
<1>3. CASE m.role = "tool" /\ m.id \notin p.calls \ p.seen
  BY <1>3 DEF PruneStep
<1>4. CASE m.role # "tool"
  BY <1>1, <1>4, ReleaseType DEF PruneStep, PassStates
<1> QED
  BY <1>2, <1>3, <1>4

\* The pass begins with nothing and takes one message after the other.
LEMMA PassesDef ==
  ASSUME NEW ms \in Seq(Messages)
  PROVE  /\ Passes(ms) \in [0 .. Len(ms) -> PassStates]
         /\ Passes(ms)[0] = NothingYet
         /\ \A k \in 1 .. Len(ms) : Passes(ms)[k] = PruneStep(Passes(ms)[k - 1], ms[k])
<1> DEFINE n == Len(ms)
           step == [kp \in (1 .. n) \X PassStates |-> PruneStep(kp[2], ms[kp[1]])]
           Is(f) == f = [k \in 0 .. n |->
                           IF k = 0 THEN NothingYet ELSE PruneStep(f[k - 1], ms[k])]
<1>1. n \in Nat /\ NothingYet \in PassStates
  BY DEF NothingYet, PassStates
<1>2. step \in [(1 .. n) \X PassStates -> PassStates]
  <2>1. \A k \in 1 .. n : ms[k] \in Messages
    OBVIOUS
  <2> QED
    BY <2>1, PruneStepType
<1>3. PICK f : Iterates(f, PassStates, NothingYet, n, step)
  <2> HIDE DEF step, n
  <2> QED
    BY <1>1, <1>2, IterationExists
<1>4. \A k \in 1 .. n : f[k] = PruneStep(f[k - 1], ms[k])
  BY <1>1, <1>3 DEF Iterates
<1>5. Is(f)
  BY <1>1, <1>3, <1>4 DEF Iterates
<1>6. Is(Passes(ms))
  BY <1>5 DEF Passes, NothingYet
<1> HIDE DEF step
<1>7. \A k \in 0 .. n : Passes(ms)[k] \in PassStates
  <2> DEFINE S == {k \in 0 .. n : Passes(ms)[k] \in PassStates}
  <2>1. 0 \in S
    BY <1>1, <1>6
  <2>2. ASSUME NEW k \in 0 .. n - 1, k \in S PROVE k + 1 \in S
    <3>1. k + 1 \in 1 .. n /\ ms[k + 1] \in Messages
      BY <1>1
    <3>2. Passes(ms)[k + 1] = PruneStep(Passes(ms)[k], ms[k + 1])
      BY <1>1, <1>6, <3>1
    <3> QED
      BY <2>2, <3>1, <3>2, PruneStepType
  <2>3. 0 .. n \subseteq S
    <3> HIDE DEF S, n
    <3> QED
      BY <1>1, <2>1, <2>2, BoundedInduction
  <2> QED
    BY <2>3
<1> QED
  BY <1>1, <1>6, <1>7

\* Min is the least element.
LEMMA MinIsLeast ==
  ASSUME NEW S, S \subseteq Nat, S # {}
  PROVE  Min(S) \in S /\ \A k \in S : Min(S) <= k
BY LeastExists DEF Min

----------------------------------------------------------------------------
(* Trimming.                                                               *)

\* What is cut out is at least one message, and the others stay as they are.
LEMMA CutType ==
  ASSUME NEW w \in Seq(Messages), NEW i \in 1 .. Len(w), NEW stops
  PROVE  Cut(w, i, stops) \in Seq(Messages) /\ Len(Cut(w, i, stops)) < Len(w)
<1> DEFINE ends == {k \in i + 1 .. Len(w) : w[k].role \in stops}
<1>1. Len(w) \in Nat /\ SubSeq(w, 1, i - 1) \in Seq(Messages) /\ Len(SubSeq(w, 1, i - 1)) = i - 1
  OBVIOUS
<1>2. CASE ends = {}
  <2>1. Cut(w, i, stops) = SubSeq(w, 1, i - 1) \o <<>>
    BY <1>2 DEF Cut
  <2> QED
    BY <1>1, <2>1
<1>3. CASE ends # {}
  <2> DEFINE m == Min(ends)
  <2>1. m \in i + 1 .. Len(w)
    <3>1. ends \subseteq Nat
      BY <1>1
    <3> HIDE DEF ends
    <3>2. m \in ends
      BY <1>3, <3>1, MinIsLeast
    <3> USE DEF ends
    <3> QED
      BY <3>2
  <2>2. Cut(w, i, stops) = SubSeq(w, 1, i - 1) \o SubSeq(w, m, Len(w))
    BY <1>3 DEF Cut
  <2> HIDE DEF m, ends
  <2>3. SubSeq(w, m, Len(w)) \in Seq(Messages) /\ Len(SubSeq(w, m, Len(w))) = Len(w) - m + 1
    BY <1>1, <2>1
  <2> QED
    BY <1>1, <2>1, <2>2, <2>3
<1> QED
  BY <1>2, <1>3

\* Cutting the oldest group makes a shorter list of messages.
LEMMA CutOldestType ==
  ASSUME NEW w \in Seq(Messages), CanCut(w)
  PROVE  CutOldest(w) \in Seq(Messages) /\ Len(CutOldest(w)) < Len(w)
<1>1. \A role : Starts(w, role) \subseteq 1 .. Len(w)
  BY DEF Starts, HeadProtect
<1>2. \A role : Starts(w, role) # {} => Min(Starts(w, role)) \in 1 .. Len(w)
  BY <1>1, MinIsLeast
<1>3. CASE Starts(w, "user") # {}
  BY <1>2, <1>3, CutType DEF CutOldest
<1>4. CASE Starts(w, "user") = {}
  BY <1>2, <1>4, CutType DEF CutOldest, CanCut
<1> QED
  BY <1>3, <1>4

CutOnce(w) == IF Fits(w) THEN w ELSE CutOldest(w)

\* So does a round of the loop, unless it is the last.
LEMMA CutOnceType ==
  ASSUME NEW w \in Seq(Messages)
  PROVE  /\ CutOnce(w) \in Seq(Messages)
         /\ Fits(w) \/ Len(CutOnce(w)) < Len(w)
BY CutOldestType DEF CutOnce, Fits

\* The loop begins with all messages and cuts once in every round.
LEMMA CutsDef ==
  ASSUME NEW ms \in Seq(Messages)
  PROVE  /\ \A k \in 0 .. Len(ms) : Cuts(ms)[k] \in Seq(Messages)
         /\ Cuts(ms)[0] = ms
         /\ \A k \in 1 .. Len(ms) : Cuts(ms)[k] = CutOnce(Cuts(ms)[k - 1])
<1> DEFINE n == Len(ms)
           step == [kw \in (1 .. n) \X Seq(Messages) |-> CutOnce(kw[2])]
           Is(f) == f = [k \in 0 .. n |->
                           IF k = 0 THEN ms ELSE LET w == f[k - 1] IN IF Fits(w) THEN w ELSE CutOldest(w)]
<1>1. n \in Nat
  OBVIOUS
<1>2. step \in [(1 .. n) \X Seq(Messages) -> Seq(Messages)]
  BY CutOnceType
<1>3. PICK f : Iterates(f, Seq(Messages), ms, n, step)
  <2> HIDE DEF step, n
  <2> QED
    BY <1>1, <1>2, IterationExists
<1>4. ASSUME NEW k \in 1 .. n PROVE f[k] = CutOnce(f[k - 1])
  <2>1. f[k] = step[<<k, f[k - 1]>>]
    BY <1>3 DEF Iterates
  <2>2. k - 1 \in 0 .. n /\ f \in [0 .. n -> Seq(Messages)]
    BY <1>1, <1>3 DEF Iterates
  <2>3. <<k, f[k - 1]>> \in (1 .. n) \X Seq(Messages)
    BY <2>2
  <2> QED
    BY <2>1, <2>3
<1>5. Is(f)
  BY <1>1, <1>3, <1>4 DEF Iterates, CutOnce
<1>6. Is(Cuts(ms))
  BY <1>5 DEF Cuts
<1> HIDE DEF step
<1>7. \A k \in 1 .. n : Cuts(ms)[k] = CutOnce(Cuts(ms)[k - 1])
  BY <1>1, <1>6 DEF CutOnce
<1>8. Cuts(ms)[0] = ms
  BY <1>1, <1>6
<1>9. \A k \in 0 .. n : Cuts(ms)[k] \in Seq(Messages)
  <2> DEFINE S == {k \in 0 .. n : Cuts(ms)[k] \in Seq(Messages)}
  <2>1. 0 \in S
    BY <1>1, <1>8
  <2>2. ASSUME NEW k \in 0 .. n - 1, k \in S PROVE k + 1 \in S
    <3>1. k + 1 \in 1 .. n /\ Cuts(ms)[k + 1] = CutOnce(Cuts(ms)[k])
      BY <1>1, <1>7
    <3> QED
      BY <2>2, <3>1, CutOnceType
  <2>3. 0 .. n \subseteq S
    <3> HIDE DEF S, n
    <3> QED
      BY <1>1, <2>1, <2>2, BoundedInduction
  <2> QED
    BY <2>3
<1> QED
  BY <1>7, <1>8, <1>9

\* Every round of the loop that does not end it takes out a message, so as many rounds as
\* there are messages are enough: what is left fits, or has nothing that may be cut.
THEOREM CutsEnd ==
  ASSUME NEW ms \in Seq(Messages)
  PROVE  Fits(Cuts(ms)[Len(ms)])
<1> DEFINE n == Len(ms)
           S == {k \in 0 .. n : Fits(Cuts(ms)[k]) \/ Len(Cuts(ms)[k]) <= n - k}
<1>1. n \in Nat
  OBVIOUS
<1>2. 0 \in S
  BY CutsDef
<1>3. ASSUME NEW k \in 0 .. n - 1, k \in S PROVE k + 1 \in S
  <2>1. k + 1 \in 1 .. n /\ k + 1 \in 0 .. n /\ k \in 0 .. n
    BY <1>1
  <2>2. Cuts(ms)[k + 1] = CutOnce(Cuts(ms)[k]) /\ Cuts(ms)[k] \in Seq(Messages)
    BY <2>1, CutsDef
  <2>3. CASE Fits(Cuts(ms)[k])
    BY <2>1, <2>2, <2>3 DEF CutOnce
  <2>4. CASE ~ Fits(Cuts(ms)[k])
    <3>1. Len(CutOnce(Cuts(ms)[k])) < Len(Cuts(ms)[k]) /\ CutOnce(Cuts(ms)[k]) \in Seq(Messages)
      BY <2>2, <2>4, CutOnceType
    <3>2. Len(Cuts(ms)[k]) <= n - k
      BY <1>3, <2>4
    <3> QED
      BY <1>1, <2>1, <2>2, <3>1, <3>2
  <2> QED
    BY <2>3, <2>4
<1>4. n \in S
  <2> HIDE DEF S, n
  <2>1. 0 .. n \subseteq S
    BY <1>1, <1>2, <1>3, BoundedInduction
  <2> QED
    BY <1>1, <2>1
<1>5. CASE Len(Cuts(ms)[n]) <= 0
  <2>1. Cuts(ms)[n] \in Seq(Messages)
    BY <1>1, CutsDef
  <2> QED
    BY <1>5, <2>1 DEF Fits, CanCut, HeadProtect
<1> QED
  BY <1>4, <1>5

----------------------------------------------------------------------------
(* Pruning: what is left is paired.                                        *)

\* A message, with the results of all its calls and no others.
Group(g) ==
  /\ g \in Seq(Messages) /\ Len(g) >= 1 /\ g[1].role # "tool"
  /\ \A k \in 2 .. Len(g) : g[k].role = "tool"
  /\ \A j, k \in 2 .. Len(g) : g[j].id = g[k].id => j = k
  /\ {g[k].id : k \in 2 .. Len(g)} = g[1].calls

\* Paired messages stay paired when a complete group follows them.
LEMMA PairedExtended ==
  ASSUME NEW f \in Seq(Messages), WellPaired(f), NEW g, Group(g)
  PROVE  WellPaired(f \o g)
<1> DEFINE w == f \o g
           L == Len(f)
           M == Len(g)
<1>1. /\ L \in Nat /\ M \in Nat /\ M >= 1 /\ w \in Seq(Messages) /\ Len(w) = L + M
      /\ DOMAIN w = 1 .. L + M /\ DOMAIN f = 1 .. L /\ g \in Seq(Messages)
  BY DEF Group
<1>2. \A k \in 1 .. L : w[k] = f[k]
  OBVIOUS
<1>3. \A k \in 1 .. M : w[L + k] = g[k]
  BY DEF Group
<1>4. w[L + 1].role # "tool" /\ w[L + 1] = g[1]
  BY <1>1, <1>3 DEF Group
<1> HIDE DEF w, L, M
<1>5. ASSUME NEW h \in 1 .. L PROVE ResultsAfter(w, h) = ResultsAfter(f, h)
  <2>1. ASSUME NEW k \in ResultsAfter(w, h) PROVE k \in ResultsAfter(f, h)
    <3>1. k \in h + 1 .. L + M /\ \A j \in h + 1 .. k : w[j].role = "tool"
      BY <1>1, <2>1 DEF ResultsAfter
    <3>2. k <= L
      BY <1>1, <1>4, <3>1
    <3>3. k \in h + 1 .. L /\ \A j \in h + 1 .. k : f[j].role = "tool"
      BY <1>1, <1>2, <3>1, <3>2
    <3> QED
      BY <3>3 DEF ResultsAfter, L
  <2>2. ASSUME NEW k \in ResultsAfter(f, h) PROVE k \in ResultsAfter(w, h)
    <3>1. k \in h + 1 .. L /\ \A j \in h + 1 .. k : f[j].role = "tool"
      BY <1>1, <2>2 DEF ResultsAfter, L
    <3>2. k \in h + 1 .. L + M /\ \A j \in h + 1 .. k : w[j].role = "tool"
      BY <1>1, <1>2, <3>1
    <3> QED
      BY <1>1, <3>2 DEF ResultsAfter
  <2> QED
    BY <2>1, <2>2
<1>6. ASSUME NEW h \in 1 .. L PROVE Answering(w, h) = Answering(f, h)
  <2>1. w[h] = f[h]
    BY <1>2
  <2>2. \A k \in ResultsAfter(f, h) :
          /\ w[k] = f[k]
          /\ \A j \in h + 1 .. k - 1 : w[j] = f[j]
    <3>1. \A k \in ResultsAfter(f, h) : k \in h + 1 .. L
      BY <1>1 DEF ResultsAfter, L
    <3> QED
      BY <1>1, <1>2, <3>1
  <2> QED
    BY <1>5, <2>1, <2>2 DEF Answering
<1>7. ASSUME NEW h \in 1 .. L PROVE Answered(w, h) <=> Answered(f, h)
  <2>1. w[h] = f[h]
    BY <1>2
  <2>2. \A k \in Answering(f, h) : w[k] = f[k]
    BY <1>1, <1>2 DEF Answering, ResultsAfter, L
  <2> QED
    BY <1>6, <2>1, <2>2 DEF Answered
<1>8. Answering(w, L + 1) = L + 2 .. L + M
  <2>1. \A k \in L + 2 .. L + M : w[k].role = "tool" /\ w[k].id \in w[L + 1].calls
    <3>1. ASSUME NEW k \in L + 2 .. L + M PROVE w[k].role = "tool" /\ w[k].id \in w[L + 1].calls
      <4>1. k - L \in 2 .. M /\ k - L \in 1 .. M /\ k = L + (k - L)
        BY <1>1
      <4>2. w[k] = g[k - L]
        BY <1>3, <4>1
      <4> QED
        BY <1>4, <4>1, <4>2 DEF Group, M
    <3> QED
      BY <3>1
  <2>2. \A j, k \in L + 2 .. L + M : w[j].id = w[k].id => j = k
    <3>1. ASSUME NEW j \in L + 2 .. L + M, NEW k \in L + 2 .. L + M, w[j].id = w[k].id PROVE j = k
      <4>1. j - L \in 2 .. M /\ k - L \in 2 .. M /\ j = L + (j - L) /\ k = L + (k - L)
        BY <1>1
      <4>2. w[j] = g[j - L] /\ w[k] = g[k - L]
        BY <1>1, <1>3, <4>1
      <4>3. j - L = k - L
        BY <3>1, <4>1, <4>2 DEF Group, M
      <4> QED
        BY <1>1, <4>3
    <3> QED
      BY <3>1
  <2>3. ResultsAfter(w, L + 1) = L + 2 .. L + M
    BY <1>1, <2>1 DEF ResultsAfter
  <2>4. \A k \in L + 2 .. L + M : \A j \in L + 2 .. k - 1 : w[j].id # w[k].id
    BY <1>1, <2>2
  <2> QED
    BY <1>1, <2>1, <2>3, <2>4 DEF Answering
<1>9. Answered(w, L + 1)
  <2>1. {w[k].id : k \in L + 2 .. L + M} = {g[k].id : k \in 2 .. M}
    <3>1. ASSUME NEW k \in L + 2 .. L + M PROVE k - L \in 2 .. M /\ w[k] = g[k - L]
      <4>1. k - L \in 2 .. M /\ k - L \in 1 .. M /\ k = L + (k - L)
        BY <1>1
      <4> QED
        BY <1>3, <4>1
    <3>2. ASSUME NEW k \in 2 .. M PROVE L + k \in L + 2 .. L + M /\ w[L + k] = g[k]
      BY <1>1, <1>3
    <3> QED
      BY <3>1, <3>2
  <2> QED
    BY <1>4, <1>8, <2>1 DEF Answered, Group, M
<1>10. ASSUME NEW h \in DOMAIN w, w[h].role # "tool" PROVE Answered(w, h)
  <2>1. CASE h \in 1 .. L
    BY <1>1, <1>2, <1>7, <1>10, <2>1 DEF WellPaired
  <2>2. CASE h \in L + 1 .. L + M
    <3>1. h - L \in 1 .. M /\ h = L + (h - L)
      BY <1>1, <2>2
    <3>2. w[h] = g[h - L]
      BY <1>3, <3>1
    <3>3. h - L = 1
      BY <1>10, <3>1, <3>2 DEF Group, M
    <3> QED
      BY <1>1, <1>9, <3>3
  <2> QED
    BY <1>1, <2>1, <2>2
<1>11. ASSUME NEW k \in DOMAIN w, w[k].role = "tool"
       PROVE  \E h \in DOMAIN w : w[h].role # "tool" /\ k \in Answering(w, h)
  <2>1. CASE k \in 1 .. L
    <3>1. f[k].role = "tool"
      BY <1>2, <1>11, <2>1
    <3>2. PICK h \in DOMAIN f : f[h].role # "tool" /\ k \in Answering(f, h)
      BY <1>1, <2>1, <3>1 DEF WellPaired
    <3> QED
      BY <1>1, <1>2, <1>6, <3>2
  <2>2. CASE k \in L + 1 .. L + M
    <3>1. k # L + 1
      BY <1>4, <1>11
    <3>2. k \in Answering(w, L + 1) /\ L + 1 \in DOMAIN w
      BY <1>1, <1>8, <2>2, <3>1
    <3> QED
      BY <1>4, <3>2
  <2> QED
    BY <1>1, <2>1, <2>2
<1> QED
  BY <1>10, <1>11 DEF WellPaired, w

\* The empty list is paired.
LEMMA PairedEmpty == WellPaired(<<>>)
BY DEF WellPaired

\* Between two messages, what a pass has released is paired, and what it holds back is the
\* head of a group with the results of some of its calls.
PassInv(p) ==
  /\ p \in PassStates /\ WellPaired(p.fixed)
  /\ p.group = <<>> => p.calls = {}
  /\ p.group # <<>> =>
       /\ p.group[1].role # "tool" /\ p.group[1].calls = p.calls
       /\ \A k \in 2 .. Len(p.group) : p.group[k].role = "tool"
       /\ \A j, k \in 2 .. Len(p.group) : p.group[j].id = p.group[k].id => j = k
       /\ {p.group[k].id : k \in 2 .. Len(p.group)} = p.seen

\* What the pass would release is paired.
LEMMA ReleasePaired ==
  ASSUME NEW p, PassInv(p) PROVE WellPaired(Release(p))
<1>1. p.fixed \in Seq(Messages) /\ p.group \in Seq(Messages)
  BY DEF PassInv, PassStates
<1>2. CASE p.seen # p.calls
  BY <1>2 DEF Release, PassInv
<1>3. CASE p.seen = p.calls /\ p.group = <<>>
  BY <1>1, <1>3 DEF Release, PassInv
<1>4. CASE p.seen = p.calls /\ p.group # <<>>
  <2>1. Group(p.group)
    BY <1>1, <1>4 DEF Group, PassInv
  <2> QED
    BY <1>1, <1>4, <2>1, PairedExtended DEF Release, PassInv
<1> QED
  BY <1>2, <1>3, <1>4

\* A step of the pass keeps what it has released paired, and its group with one head.
LEMMA PruneStepPaired ==
  ASSUME NEW p, PassInv(p), NEW m \in Messages PROVE PassInv(PruneStep(p, m))
<1>1. p \in PassStates /\ PruneStep(p, m) \in PassStates
  BY PruneStepType DEF PassInv
<1>2. Release(p) \in Seq(Messages) /\ WellPaired(Release(p))
  BY <1>1, ReleaseType, ReleasePaired
<1>3. CASE m.role = "tool" /\ m.id \notin p.calls \ p.seen
  BY <1>3 DEF PruneStep
<1>4. CASE m.role = "tool" /\ m.id \in p.calls \ p.seen
  <2> DEFINE q == [fixed |-> p.fixed, group |-> Append(p.group, m),
                   calls |-> p.calls, seen |-> p.seen \cup {m.id}]
             g == p.group
  <2>1. PruneStep(p, m) = q
    BY <1>1, <1>4 DEF PruneStep, PassStates
  <2>2. g # <<>> /\ g \in Seq(Messages)
    BY <1>1, <1>4 DEF PassInv, PassStates
  <2>3. /\ Len(q.group) = Len(g) + 1 /\ q.group[Len(g) + 1] = m
        /\ \A k \in 1 .. Len(g) : q.group[k] = g[k]
        /\ Len(g) \in Nat /\ Len(g) >= 1 /\ q.group # <<>>
    BY <2>2
  <2>4. \A k \in 2 .. Len(g) : g[k].id \in p.seen
    BY <2>2 DEF PassInv
  <2>5. q.group[1].role # "tool" /\ q.group[1].calls = q.calls
    BY <2>2, <2>3 DEF PassInv
  <2>6. \A k \in 2 .. Len(q.group) : k \in 2 .. Len(g) \/ k = Len(g) + 1
    BY <2>3
  <2> HIDE DEF q
  <2>7. \A k \in 2 .. Len(q.group) : q.group[k].role = "tool"
    BY <1>4, <2>2, <2>3, <2>6 DEF PassInv
  <2>8. \A j, k \in 2 .. Len(q.group) : q.group[j].id = q.group[k].id => j = k
    <3>1. \A j, k \in 2 .. Len(g) : g[j].id = g[k].id => j = k
      BY <2>2 DEF PassInv
    <3>2. m.id \notin p.seen
      BY <1>4
    <3>3. \A k \in 2 .. Len(g) : q.group[k] = g[k] /\ g[k].id # m.id
      BY <2>3, <2>4, <3>2
    <3> QED
      BY <2>3, <2>6, <3>1, <3>3
  <2>9. {q.group[k].id : k \in 2 .. Len(q.group)} = q.seen
    <3>1. q.seen = {g[k].id : k \in 2 .. Len(g)} \cup {m.id}
      BY <2>2 DEF PassInv, q
    <3>2. \A k \in 2 .. Len(g) : k \in 2 .. Len(q.group) /\ q.group[k] = g[k]
      BY <2>3
    <3>3. Len(g) + 1 \in 2 .. Len(q.group)
      BY <2>3
    <3> QED
      BY <2>3, <2>6, <3>1, <3>2, <3>3
  <2>10. WellPaired(q.fixed)
    BY DEF PassInv, q
  <2> QED
    BY <1>1, <2>1, <2>3, <2>5, <2>7, <2>8, <2>9, <2>10 DEF PassInv
<1>5. CASE m.role # "tool" /\ m.calls # {}
  <2>1. PruneStep(p, m) = [fixed |-> Release(p), group |-> <<m>>, calls |-> m.calls, seen |-> {}]
    BY <1>5 DEF PruneStep
  <2> QED
    BY <1>1, <1>2, <1>5, <2>1 DEF PassInv
<1>6. CASE m.role # "tool" /\ m.calls = {}
  <2>1. PruneStep(p, m) = [fixed |-> Append(Release(p), m), group |-> <<>>, calls |-> {}, seen |-> {}]
    BY <1>6 DEF PruneStep
  <2>2. Group(<<m>>)
    BY <1>6 DEF Group
  <2>3. Append(Release(p), m) = Release(p) \o <<m>>
    BY <1>2
  <2> QED
    BY <1>1, <1>2, <2>1, <2>2, <2>3, PairedExtended DEF PassInv
<1> QED
  BY <1>3, <1>4, <1>5, <1>6

\* Whatever the messages are, the pruned ones are messages of which every result follows
\* its call, and every call has its results.
LEMMA PrunedIsPaired ==
  ASSUME NEW ms \in Seq(Messages)
  PROVE  Prune(ms) \in Seq(Messages) /\ WellPaired(Prune(ms))
<1> DEFINE n == Len(ms)
           S == {k \in 0 .. n : PassInv(Passes(ms)[k])}
<1>1. n \in Nat
  OBVIOUS
<1>2. 0 \in S
  <2>1. PassInv(NothingYet)
    BY PairedEmpty DEF PassInv, NothingYet, PassStates
  <2> QED
    BY <2>1, PassesDef
<1>3. ASSUME NEW k \in 0 .. n - 1, k \in S PROVE k + 1 \in S
  <2>1. k + 1 \in 1 .. n /\ ms[k + 1] \in Messages /\ (k + 1) - 1 = k
    BY <1>1
  <2>2. Passes(ms)[k + 1] = PruneStep(Passes(ms)[k], ms[k + 1])
    BY <2>1, PassesDef
  <2> QED
    BY <1>3, <2>1, <2>2, PruneStepPaired
<1>4. n \in S
  <2> HIDE DEF S, n
  <2>1. 0 .. n \subseteq S
    BY <1>1, <1>2, <1>3, BoundedInduction
  <2> QED
    BY <1>1, <2>1
<1> QED
  BY <1>4, ReleasePaired, ReleaseType DEF Prune, PassInv

\* The prompt is paired, whatever was cut out of the messages before.
LEMMA TrimmedIsPaired ==
  ASSUME NEW ms \in Seq(Messages)
  PROVE  Trim(ms) \in Seq(Messages) /\ WellPaired(Trim(ms))
BY CutsDef, PrunedIsPaired, Len(ms) \in 0 .. Len(ms) DEF Trim

----------------------------------------------------------------------------
(* Pruning: what is left is what should be.                                *)

\* Picking takes one message after the other, and leaves out the others.
LEMMA PickedDef ==
  ASSUME NEW ms \in Seq(Messages), NEW places
  PROVE  /\ \A k \in 0 .. Len(ms) : Picked(ms, places)[k] \in Seq(Messages)
         /\ Picked(ms, places)[0] = <<>>
         /\ \A k \in 1 .. Len(ms) :
              Picked(ms, places)[k] = IF k \in places THEN Append(Picked(ms, places)[k - 1], ms[k])
                                      ELSE Picked(ms, places)[k - 1]
<1> DEFINE n == Len(ms)
           next(k, s) == IF k \in places THEN Append(s, ms[k]) ELSE s
           step == [ks \in (1 .. n) \X Seq(Messages) |-> next(ks[1], ks[2])]
           Is(f) == f = [k \in 0 .. n |-> IF k = 0 THEN <<>> ELSE next(k, f[k - 1])]
<1>1. n \in Nat /\ <<>> \in Seq(Messages)
  OBVIOUS
<1>2. \A k \in 1 .. n, s \in Seq(Messages) : next(k, s) \in Seq(Messages)
  OBVIOUS
<1> HIDE DEF next
<1>3. step \in [(1 .. n) \X Seq(Messages) -> Seq(Messages)]
  BY <1>2
<1>4. PICK f : Iterates(f, Seq(Messages), <<>>, n, step)
  <2> HIDE DEF step, n
  <2> QED
    BY <1>1, <1>3, IterationExists
<1>5. ASSUME NEW k \in 1 .. n PROVE f[k] = next(k, f[k - 1])
  <2>1. f[k] = step[<<k, f[k - 1]>>]
    BY <1>4 DEF Iterates
  <2>2. k - 1 \in 0 .. n /\ f \in [0 .. n -> Seq(Messages)]
    BY <1>1, <1>4 DEF Iterates
  <2>3. <<k, f[k - 1]>> \in (1 .. n) \X Seq(Messages)
    BY <2>2
  <2> QED
    BY <2>1, <2>3
<1> HIDE DEF step
<1>6. Is(f)
  BY <1>1, <1>4, <1>5 DEF Iterates
<1>7. Is(Picked(ms, places))
  BY <1>6 DEF Picked, next
<1>8. Picked(ms, places)[0] = <<>>
  BY <1>1, <1>7
<1>9. \A k \in 1 .. n : Picked(ms, places)[k] = next(k, Picked(ms, places)[k - 1])
  BY <1>1, <1>7
<1>10. \A k \in 0 .. n : Picked(ms, places)[k] \in Seq(Messages)
  <2> DEFINE S == {k \in 0 .. n : Picked(ms, places)[k] \in Seq(Messages)}
  <2>1. 0 \in S
    <3>1. 0 \in 0 .. n /\ Picked(ms, places)[0] \in Seq(Messages)
      BY <1>1, <1>8
    <3> QED
      BY <3>1
  <2>2. ASSUME NEW k \in 0 .. n - 1, k \in S PROVE k + 1 \in S
    <3>1. k + 1 \in 1 .. n /\ Picked(ms, places)[k + 1] = next(k + 1, Picked(ms, places)[k])
      BY <1>1, <1>9
    <3> QED
      BY <1>2, <2>2, <3>1
  <2>3. 0 .. n \subseteq S
    <3> HIDE DEF S, n
    <3> QED
      BY <1>1, <2>1, <2>2, BoundedInduction
  <2> QED
    BY <2>3
<1> QED
  BY <1>8, <1>9, <1>10 DEF next

\* Appending two lists one after the other appends both at once.
LEMMA ConcatThird ==
  ASSUME NEW s \in Seq(Messages), NEW t \in Seq(Messages), NEW m \in Messages
  PROVE  s \o <<m>> \o t = s \o (<<m>> \o t)
<1> DEFINE a == s \o <<m>> \o t
           b == s \o (<<m>> \o t)
<1>1. Len(s) \in Nat /\ Len(t) \in Nat
  OBVIOUS
<1>2. a \in Seq(Messages) /\ b \in Seq(Messages)
      /\ Len(a) = Len(s) + 1 + Len(t) /\ Len(b) = Len(s) + 1 + Len(t)
  OBVIOUS
<1>3. ASSUME NEW k \in 1 .. Len(s) + 1 + Len(t) PROVE a[k] = b[k]
  <2>1. CASE k \in 1 .. Len(s)
    BY <1>1, <2>1
  <2>2. CASE k = Len(s) + 1
    BY <1>1, <2>2
  <2>3. CASE k \in Len(s) + 2 .. Len(s) + 1 + Len(t)
    BY <1>1, <2>3
  <2> QED
    BY <1>1, <2>1, <2>2, <2>3
<1> HIDE DEF a, b
<1>4. a = b
  BY <1>2, <1>3
<1> QED
  BY <1>4 DEF a, b

\* Appending to the end is appending to the last part.
LEMMA AppendToSecond ==
  ASSUME NEW s \in Seq(Messages), NEW t \in Seq(Messages), NEW m \in Messages
  PROVE  Append(s \o t, m) = s \o Append(t, m)
<1> DEFINE a == Append(s \o t, m)
           b == s \o Append(t, m)
<1>1. Len(s) \in Nat /\ Len(t) \in Nat
  OBVIOUS
<1>2. a \in Seq(Messages) /\ b \in Seq(Messages)
      /\ Len(a) = Len(s) + Len(t) + 1 /\ Len(b) = Len(s) + Len(t) + 1
  OBVIOUS
<1>3. ASSUME NEW k \in 1 .. Len(s) + Len(t) + 1 PROVE a[k] = b[k]
  <2>1. CASE k \in 1 .. Len(s)
    BY <1>1, <2>1
  <2>2. CASE k \in Len(s) + 1 .. Len(s) + Len(t)
    BY <1>1, <2>2
  <2>3. CASE k = Len(s) + Len(t) + 1
    BY <1>1, <2>3
  <2> QED
    BY <1>1, <2>1, <2>2, <2>3
<1> HIDE DEF a, b
<1>4. a = b
  BY <1>2, <1>3
<1> QED
  BY <1>4 DEF a, b

\* Message h is the last before k + 1 that is no result.
IsHead(ms, h, k) ==
  h \in 1 .. k /\ ms[h].role # "tool" /\ \A j \in h + 1 .. k : ms[j].role = "tool"

\* A result answers nothing but the last message before it that is none.
LEMMA HeadIsUnique ==
  ASSUME NEW ms \in Seq(Messages), NEW k \in 0 .. Len(ms) - 1, NEW h, IsHead(ms, h, k),
         NEW g \in DOMAIN ms, ms[g].role # "tool", k + 1 \in Answering(ms, g)
  PROVE  g = h
<1>1. g + 1 <= k + 1 /\ \A j \in g + 1 .. k + 1 : ms[j].role = "tool"
  BY DEF Answering, ResultsAfter
<1>2. g \in Nat /\ h \in Nat /\ k \in Nat /\ h <= k
  BY DEF IsHead
<1>3. ~ (g < h)
  <2> SUFFICES ASSUME g < h PROVE FALSE
    OBVIOUS
  <2>1. h \in g + 1 .. k + 1
    BY <1>2
  <2> QED
    BY <1>1, <2>1 DEF IsHead
<1>4. ~ (h < g)
  BY <1>1, <1>2 DEF IsHead
<1> QED
  BY <1>2, <1>3, <1>4

\* The calls of head h that were answered before k + 1.
SeenBy(ms, h, k) == {ms[i].id : i \in {j \in Answering(ms, h) : j <= k}}

\* A result answers a call that no result before it has answered.
LEMMA AnswersIfUnseen ==
  ASSUME NEW ms \in Seq(Messages), NEW k \in 0 .. Len(ms) - 1, NEW h, IsHead(ms, h, k),
         ms[k + 1].role = "tool"
  PROVE  k + 1 \in Answering(ms, h) <=> ms[k + 1].id \in ms[h].calls \ SeenBy(ms, h, k)
<1>1. k \in Nat /\ h \in Nat /\ 1 <= h /\ h <= k /\ k + 1 \in h + 1 .. Len(ms)
  BY DEF IsHead
<1>2. \A i \in h + 1 .. k + 1 : i \in ResultsAfter(ms, h)
  BY <1>1 DEF IsHead, ResultsAfter
<1>3. ASSUME k + 1 \in Answering(ms, h), ms[k + 1].id \in SeenBy(ms, h, k) PROVE FALSE
  <2>1. PICK i \in Answering(ms, h) : i <= k /\ ms[i].id = ms[k + 1].id
    BY <1>3 DEF SeenBy
  <2>2. i \in h + 1 .. (k + 1) - 1
    BY <1>1, <2>1 DEF Answering, ResultsAfter
  <2> QED
    BY <1>3, <2>1, <2>2 DEF Answering
<1>4. ASSUME ms[k + 1].id \in ms[h].calls \ SeenBy(ms, h, k) PROVE k + 1 \in Answering(ms, h)
  <2> DEFINE T == {j \in h + 1 .. k : ms[j].id = ms[k + 1].id}
  <2>1. T = {}
    <3> SUFFICES ASSUME T # {} PROVE FALSE
      OBVIOUS
    <3>1. T \subseteq Nat
      BY <1>1
    <3>2. PICK i \in T : \A j \in T : i <= j
      <4> HIDE DEF T
      <4> QED
        BY <3>1, LeastExists
    <3>3. i \in h + 1 .. k /\ ms[i].id = ms[k + 1].id
      OBVIOUS
    <3>4. \A j \in h + 1 .. i - 1 : ms[j].id # ms[i].id
      BY <1>1, <3>2, <3>3
    <3>5. i \in Answering(ms, h)
      BY <1>1, <1>2, <1>4, <3>3, <3>4 DEF Answering
    <3> QED
      BY <1>1, <1>4, <3>3, <3>5 DEF SeenBy
  <2>2. (k + 1) - 1 = k /\ k + 1 \in ResultsAfter(ms, h)
    BY <1>1, <1>2
  <2> QED
    BY <1>4, <2>1, <2>2 DEF Answering
<1>5. k + 1 \in Answering(ms, h) => ms[k + 1].id \in ms[h].calls
  BY DEF Answering
<1> QED
  BY <1>3, <1>4, <1>5

\* The next result is seen if it answers its head.
LEMMA SeenGrows ==
  ASSUME NEW ms \in Seq(Messages), NEW k \in 0 .. Len(ms) - 1, NEW h
  PROVE  SeenBy(ms, h, k + 1) = IF k + 1 \in Answering(ms, h)
                                THEN SeenBy(ms, h, k) \cup {ms[k + 1].id} ELSE SeenBy(ms, h, k)
<1>1. \A i \in Answering(ms, h) : i \in Int
  BY DEF Answering, ResultsAfter
<1>2. {j \in Answering(ms, h) : j <= k + 1} =
        IF k + 1 \in Answering(ms, h) THEN {j \in Answering(ms, h) : j <= k} \cup {k + 1}
        ELSE {j \in Answering(ms, h) : j <= k}
  BY <1>1
<1> QED
  BY <1>2 DEF SeenBy

\* What a pass has made of the first k messages: it has released those that should be
\* kept, but for a head that should, whose group it still holds back.
ScanFits(ms, k, p, picked) ==
  \/ /\ \A j \in 1 .. k : ms[j].role = "tool"
     /\ p = NothingYet /\ picked = <<>>
  \/ \E h \in 1 .. k :
       /\ IsHead(ms, h, k)
       /\ p.calls = ms[h].calls /\ p.seen = SeenBy(ms, h, k)
       /\ picked = IF Answered(ms, h) THEN p.fixed \o p.group ELSE p.fixed

\* When the next message is no result, or there is none, the group is complete.
LEMMA ReleaseIsPicked ==
  ASSUME NEW ms \in Seq(Messages), NEW k \in 0 .. Len(ms), NEW p \in PassStates, NEW picked,
         ScanFits(ms, k, p, picked), k = Len(ms) \/ ms[k + 1].role # "tool"
  PROVE  Release(p) = picked
<1>1. CASE p = NothingYet /\ picked = <<>>
  BY <1>1 DEF Release, NothingYet
<1>2. ASSUME NEW h \in 1 .. k, IsHead(ms, h, k), p.calls = ms[h].calls, p.seen = SeenBy(ms, h, k),
             picked = IF Answered(ms, h) THEN p.fixed \o p.group ELSE p.fixed
      PROVE  Release(p) = picked
  <2>1. ASSUME NEW i \in Answering(ms, h) PROVE i <= k
    <3>1. i \in h + 1 .. Len(ms) /\ \A j \in h + 1 .. i : ms[j].role = "tool"
      BY DEF Answering, ResultsAfter
    <3>2. k \in Nat /\ Len(ms) \in Nat /\ h \in Nat /\ h <= k /\ k <= Len(ms)
      OBVIOUS
    <3> QED
      BY <3>1, <3>2
  <2>2. SeenBy(ms, h, k) = {ms[i].id : i \in Answering(ms, h)}
    BY <2>1 DEF SeenBy
  <2> QED
    BY <1>2, <2>2 DEF Release, Answered
<1> QED
  BY <1>1, <1>2 DEF ScanFits

\* A step of the pass decides as the reference does about the message it reads.
LEMMA ScanStep ==
  ASSUME NEW ms \in Seq(Messages), NEW k \in 0 .. Len(ms) - 1, NEW p \in PassStates,
         NEW picked \in Seq(Messages), ScanFits(ms, k, p, picked)
  PROVE  ScanFits(ms, k + 1, PruneStep(p, ms[k + 1]),
                  IF k + 1 \in KeptBy(ms) THEN Append(picked, ms[k + 1]) ELSE picked)
<1> DEFINE m == ms[k + 1]
           q == PruneStep(p, m)
           longer == IF k + 1 \in KeptBy(ms) THEN Append(picked, m) ELSE picked
<1>1. k \in Nat /\ k + 1 \in 1 .. Len(ms) /\ m \in Messages /\ DOMAIN ms = 1 .. Len(ms)
      /\ k + 1 \in DOMAIN ms
  OBVIOUS
<1>2. p.fixed \in Seq(Messages) /\ p.group \in Seq(Messages)
  BY DEF PassStates
<1>3. CASE m.role # "tool"
  <2>1. Release(p) = picked
    BY <1>1, <1>3, ReleaseIsPicked
  <2>2. \A h \in DOMAIN ms : k + 1 \notin Answering(ms, h)
    BY <1>3 DEF Answering, ResultsAfter
  <2>3. k + 1 \in KeptBy(ms) <=> Answered(ms, k + 1)
    BY <1>1, <1>3, <2>2 DEF KeptBy
  <2>4. IsHead(ms, k + 1, k + 1)
    BY <1>1, <1>3 DEF IsHead
  <2>5. SeenBy(ms, k + 1, k + 1) = {}
    BY <1>1 DEF SeenBy, Answering, ResultsAfter
  <2>6. CASE m.calls # {}
    <3>1. q = [fixed |-> picked, group |-> <<m>>, calls |-> m.calls, seen |-> {}]
      BY <1>3, <2>1, <2>6 DEF PruneStep
    <3>2. q.fixed \o q.group = Append(picked, m) /\ q.fixed = picked
      <4>1. q.fixed = picked /\ q.group = <<m>>
        BY <3>1
      <4> QED
        BY <1>1, <4>1
    <3> HIDE DEF q
    <3>a. longer = IF Answered(ms, k + 1) THEN q.fixed \o q.group ELSE q.fixed
      BY <2>3, <3>2
    <3> USE DEF q
    <3>3. q.calls = ms[k + 1].calls /\ q.seen = SeenBy(ms, k + 1, k + 1)
      BY <2>5, <3>1
    <3> HIDE DEF q, longer
    <3>4. ScanFits(ms, k + 1, q, longer)
      BY <1>1, <2>4, <3>a, <3>3 DEF ScanFits
    <3> QED
      BY <3>4 DEF q, longer
  <2>7. CASE m.calls = {}
    <3>1. q = [fixed |-> Append(picked, m), group |-> <<>>, calls |-> {}, seen |-> {}]
      BY <1>3, <2>1, <2>7 DEF PruneStep
    <3>2. Answered(ms, k + 1)
      BY <2>7 DEF Answered, Answering
    <3>3. longer = IF Answered(ms, k + 1) THEN q.fixed \o q.group ELSE q.fixed
      BY <2>3, <3>1, <3>2
    <3>4. q.calls = ms[k + 1].calls /\ q.seen = SeenBy(ms, k + 1, k + 1)
      BY <2>5, <2>7, <3>1
    <3> HIDE DEF q, longer
    <3>5. ScanFits(ms, k + 1, q, longer)
      BY <1>1, <2>4, <3>3, <3>4 DEF ScanFits
    <3> QED
      BY <3>5 DEF q, longer
  <2> QED
    BY <2>6, <2>7
<1>4. ASSUME m.role = "tool", \A j \in 1 .. k : ms[j].role = "tool", p = NothingYet, picked = <<>>
      PROVE  ScanFits(ms, k + 1, q, longer)
  <2>1. \A j \in 1 .. k + 1 : ms[j].role = "tool"
    BY <1>1, <1>4
  <2>2. q = NothingYet
    BY <1>4 DEF PruneStep, NothingYet
  <2>3. k + 1 \notin KeptBy(ms)
    <3>1. ASSUME NEW g \in DOMAIN ms, ms[g].role # "tool", k + 1 \in Answering(ms, g) PROVE FALSE
      <4>1. g <= k
        BY <1>1, <3>1 DEF Answering, ResultsAfter
      <4> QED
        BY <1>1, <1>4, <3>1, <4>1
    <3> QED
      BY <1>4, <3>1 DEF KeptBy
  <2> HIDE DEF q
  <2> QED
    BY <1>4, <2>1, <2>2, <2>3 DEF ScanFits
<1>5. ASSUME m.role = "tool", NEW h \in 1 .. k, IsHead(ms, h, k), p.calls = ms[h].calls,
             p.seen = SeenBy(ms, h, k),
             picked = IF Answered(ms, h) THEN p.fixed \o p.group ELSE p.fixed
      PROVE  ScanFits(ms, k + 1, q, longer)
  <2>1. k + 1 \in Answering(ms, h) <=> m.id \in p.calls \ p.seen
    BY <1>5, AnswersIfUnseen
  <2>2. k + 1 \in KeptBy(ms) <=> Answered(ms, h) /\ k + 1 \in Answering(ms, h)
    <3>1. h \in DOMAIN ms /\ ms[h].role # "tool"
      BY <1>1, <1>5 DEF IsHead
    <3>2. \A g \in DOMAIN ms : ms[g].role # "tool" /\ k + 1 \in Answering(ms, g) => g = h
      BY <1>5, HeadIsUnique
    <3> QED
      BY <1>5, <3>1, <3>2 DEF KeptBy
  <2>3. IsHead(ms, h, k + 1) /\ h \in 1 .. k + 1
    <3>1. \A j \in h + 1 .. k + 1 : j \in h + 1 .. k \/ j = k + 1
      BY <1>1
    <3>2. h \in 1 .. k + 1 /\ ms[h].role # "tool"
      BY <1>1, <1>5 DEF IsHead
    <3>3. \A j \in h + 1 .. k + 1 : ms[j].role = "tool"
      BY <1>5, <3>1 DEF IsHead
    <3> QED
      BY <3>2, <3>3 DEF IsHead
  <2>4. CASE m.id \in p.calls \ p.seen
    <3>1. q = [fixed |-> p.fixed, group |-> Append(p.group, m),
               calls |-> p.calls, seen |-> p.seen \cup {m.id}]
      BY <1>5, <2>4 DEF PruneStep, PassStates
    <3>2. q.calls = ms[h].calls /\ q.seen = SeenBy(ms, h, k + 1)
      <4>1. SeenBy(ms, h, k + 1) = SeenBy(ms, h, k) \cup {m.id}
        BY <2>1, <2>4, SeenGrows
      <4> QED
        BY <1>5, <3>1, <4>1
    <3>3. q.fixed = p.fixed /\ q.group = Append(p.group, m)
      BY <3>1
    <3>4. longer = IF Answered(ms, h) THEN Append(picked, m) ELSE picked
      BY <2>1, <2>2, <2>4
    <3>5. Append(p.fixed \o p.group, m) = p.fixed \o Append(p.group, m)
      BY <1>1, <1>2, AppendToSecond
    <3>6. longer = IF Answered(ms, h) THEN q.fixed \o q.group ELSE q.fixed
      BY <1>5, <3>3, <3>4, <3>5
    <3> HIDE DEF q, longer
    <3> QED
      BY <2>3, <3>2, <3>6 DEF ScanFits
  <2>5. CASE m.id \notin p.calls \ p.seen
    <3>1. q = p
      BY <1>5, <2>5 DEF PruneStep
    <3>2. q.calls = ms[h].calls /\ q.seen = SeenBy(ms, h, k + 1)
      BY <1>5, <2>1, <2>5, <3>1, SeenGrows
    <3>3. longer = picked
      BY <2>1, <2>2, <2>5
    <3> HIDE DEF q, longer
    <3> QED
      BY <1>5, <2>3, <3>1, <3>2, <3>3 DEF ScanFits
  <2> QED
    BY <2>4, <2>5
<1> QED
  BY <1>3, <1>4, <1>5 DEF ScanFits

\* The pass takes out nothing but the messages without a call or without all their
\* results.
THEOREM PruneKeeps ==
  ASSUME NEW ms \in Seq(Messages)
  PROVE  Prune(ms) = PruneReference(ms)
<1> DEFINE n == Len(ms)
           kept == KeptBy(ms)
           S == {k \in 0 .. n : ScanFits(ms, k, Passes(ms)[k], Picked(ms, kept)[k])}
<1>1. n \in Nat
  OBVIOUS
<1>2. 0 \in S
  BY <1>1, PassesDef, PickedDef DEF ScanFits
<1>3. ASSUME NEW k \in 0 .. n - 1, k \in S PROVE k + 1 \in S
  <2>1. k + 1 \in 1 .. n /\ k \in 0 .. n /\ k + 1 \in 0 .. n /\ (k + 1) - 1 = k
    BY <1>1
  <2>2. Passes(ms)[k] \in PassStates /\ Passes(ms)[k + 1] = PruneStep(Passes(ms)[k], ms[k + 1])
    BY <2>1, PassesDef
  <2> HIDE DEF kept
  <2>3. /\ Picked(ms, kept)[k] \in Seq(Messages)
        /\ Picked(ms, kept)[k + 1] = IF k + 1 \in kept THEN Append(Picked(ms, kept)[k], ms[k + 1])
                                     ELSE Picked(ms, kept)[k]
    BY <2>1, PickedDef
  <2>4. ScanFits(ms, k, Passes(ms)[k], Picked(ms, kept)[k])
    BY <1>3
  <2>5. ScanFits(ms, k + 1, Passes(ms)[k + 1], Picked(ms, kept)[k + 1])
    BY <2>2, <2>3, <2>4, ScanStep DEF kept
  <2> QED
    BY <2>1, <2>5
<1>4. n \in S
  <2> HIDE DEF S, n
  <2>1. 0 .. n \subseteq S
    BY <1>1, <1>2, <1>3, BoundedInduction
  <2> QED
    BY <1>1, <2>1
<1>5. Release(Passes(ms)[n]) = Picked(ms, kept)[n]
  <2>1. n \in 0 .. n /\ Passes(ms)[n] \in PassStates /\ ScanFits(ms, n, Passes(ms)[n], Picked(ms, kept)[n])
    BY <1>1, <1>4, PassesDef
  <2> QED
    BY <2>1, ReleaseIsPicked
<1> QED
  BY <1>5 DEF Prune, PruneReference

----------------------------------------------------------------------------
(* The snapshot.                                                           *)

LoopStages == {"hooks", "round", "streaming", "starting", "tools", "recording"}

\* While the turn ends, the snapshot is what its outcome and the interruptions of its
\* end allow.
EndInv ==
  /\ stage \in Stages /\ interrupts \in 0 .. MaxInterrupts
  /\ snapshot \in {"none", "running", "interrupted", "completed"}
  /\ {outcome, result} \subseteq Returned \cup {"none", "empty", "error", "cancelled"}
  /\ stage \in LoopStages => outcome = "none" /\ result = "none"
  /\ stage \in {"flushing", "deleting"} => outcome = result
  /\ stage = "deleting" => outcome \in Returned
  /\ outcome \in {"error", "cancelled"} => interrupts >= 1
  /\ stage \in {"hook", "ended", "released"} =>
       /\ result \in Returned => snapshot = "none"
       /\ (\/ outcome = "empty" /\ interrupts = 0
           \/ outcome \in {"error", "cancelled"} /\ interrupts = 1)
          => snapshot = "interrupted"

\* No turn has ended at first.
LEMMA EndInit == Init => EndInv
BY RunnerAssumption DEF Init, EndInv, Stages, LoopStages, Returned

\* Flushes, deletions, hooks and their interruptions leave a snapshot the outcome allows.
LEMMA EndStep == EndInv /\ [Next]_turnVars => EndInv'
<1> SUFFICES ASSUME EndInv, [Next]_turnVars PROVE EndInv'
  OBVIOUS
<1> USE DEF EndInv, Stages, LoopStages, Returned
<1>1. CASE HooksDone \/ DeleteSnapshot \/ TurnEndHook \/ Deregister
  BY <1>1 DEF HooksDone, DeleteSnapshot, TurnEndHook, Deregister, endVars
<1>2. CASE Flush
  BY <1>2 DEF Flush
<1>3. CASE Respond
  BY <1>3 DEF Respond, Steered, Nudge, Feedback, Answer, CallTools, Returns, endVars
<1>4. CASE \E now \in 0 .. 2 : NextRound(now)
  BY <1>4 DEF NextRound, Exhaust, CallModel, Returns, endVars
<1>5. CASE Execute \/ Gather \/ AddResults \/ \E c \in CallIds, n \in ResultSizes : ToolEnds(c, n)
  BY <1>5 DEF Execute, Gather, AddResults, ToolEnds, endVars
<1>6. CASE StreamDelta \/ \E s \in Steers : Steer(s)
  BY <1>6 DEF StreamDelta, Steer, endVars
<1>7. ASSUME NEW how \in {"error", "cancelled"}, Interrupt(how) PROVE EndInv'
  BY <1>7, RunnerAssumption DEF Interrupt
<1>8. CASE UNCHANGED turnVars
  BY <1>8 DEF turnVars, endVars
<1> QED
  BY <1>1, <1>2, <1>3, <1>4, <1>5, <1>6, <1>7, <1>8 DEF Next, Progress

\* A turn whose answer is returned leaves no snapshot, and one whose loop failed or was
\* cancelled leaves an interrupted one unless its end is interrupted as well.
THEOREM SnapshotFitsAlways == Spec => []SnapshotFitsEnd
<1>1. EndInv => SnapshotFitsEnd
  BY DEF EndInv, SnapshotFitsEnd
<1> QED
  BY <1>1, EndInit, EndStep, PTL DEF Spec

----------------------------------------------------------------------------
(* Types.                                                                  *)

BatchIds == {Id(k) : k \in DOMAIN batch}

\* What the types of the messages rest on: the calls of a response are announced before
\* they are executed, and belong to a round.
RunInv ==
  /\ fast \in BOOLEAN /\ stage \in Stages
  /\ messages \in Seq(Messages) /\ delta \in Seq(Messages)
  /\ round \in 0 .. MaxRounds /\ nudges \in 0 .. MaxNudges /\ clock \in 0 .. 2
  /\ finalizing \in BOOLEAN /\ searched \in BOOLEAN
  /\ batch \in Seq(Calls) /\ IsInjective(batch)
  /\ batch # <<>> \/ stage \in {"streaming", "starting", "tools", "recording"} => round >= 1
  /\ stage \in {"hooks", "round", "streaming"} => batch = <<>>
  /\ stage \in {"starting", "tools", "recording"} => BatchIds \subseteq started
  /\ stage # "tools" => running = {}
  /\ skipped \subseteq BatchIds /\ running \subseteq BatchIds \ skipped
  /\ stage = "starting" => skipped = {}
  /\ sizes \in SizesAtMost
  /\ queue \in Seq(Steers) /\ accepted \in Seq(Steers) /\ ToSet(queue) \subseteq ToSet(accepted)
  /\ completed \subseteq started /\ started \subseteq CallIds

\* The calls of a response have ids, each its own.
LEMMA BatchIdsType ==
  ASSUME RunInv
  PROVE  /\ BatchIds \subseteq CallIds
         /\ \A k \in DOMAIN batch : Id(k) \in CallIds /\ batch[k] \in Calls /\ round \in 1 .. MaxRounds
         /\ \A j, k \in DOMAIN batch : Id(j) = Id(k) => j = k
<1>1. ASSUME NEW k \in DOMAIN batch PROVE batch[k] \in Calls /\ round \in 1 .. MaxRounds
  <2>1. batch # <<>>
    OBVIOUS
  <2> QED
    BY <2>1, RunnerAssumption DEF RunInv
<1>2. \A k \in DOMAIN batch : Id(k) \in CallIds
  BY <1>1, IdsAssumption DEF Id
<1>3. \A j, k \in DOMAIN batch : Id(j) = Id(k) => j = k
  BY <1>1, IdsAssumption DEF Id, RunInv, IsInjective
<1> QED
  BY <1>1, <1>2, <1>3 DEF BatchIds

\* The constructors make messages.
LEMMA MessageTypes ==
  /\ \A n \in Nat : System(n) \in Messages
  /\ \A s \in Steers \cup {NoId}, n \in Nat : User(s, n) \in Messages
  /\ \A cs \in SUBSET CallIds, n \in Nat : Assistant(cs, n) \in Messages
  /\ \A c \in CallIds, n \in Nat : ToolResult(c, n) \in Messages
BY DEF Messages, System, User, Assistant, ToolResult

\* Steering messages are messages.
LEMMA UsersType ==
  ASSUME NEW ids \in Seq(Steers) PROVE UsersOf(ids) \in Seq(Messages) /\ Len(UsersOf(ids)) = Len(ids)
<1>1. \A k \in 1 .. Len(ids) : User(ids[k], 1) \in Messages
  BY MessageTypes
<1> QED
  BY <1>1 DEF UsersOf

\* The notice and the results of a batch, in their order.
ResultsIn(order) == [k \in DOMAIN batch |-> Result(order[k])]

\* The results of a batch are messages, one for each call.
LEMMA ResultsType ==
  ASSUME RunInv, NEW order \in ResultOrder
  PROVE  ResultsIn(order) \in Seq(Messages) /\ Len(ResultsIn(order)) = Len(batch)
<1>1. order \in [DOMAIN batch -> DOMAIN batch]
  BY DEF ResultOrder, Bijection, Injection
<1>2. \A k \in DOMAIN batch : Result(k) \in Messages
  <2>1. \A c \in CallIds : sizes[c] \in ResultSizes \cup {0}
    BY DEF RunInv, SizesAtMost
  <2>2. ResultSizes \cup {0} \subseteq Nat
    BY RunnerAssumption
  <2> QED
    BY <2>1, <2>2, BatchIdsType, MessageTypes DEF Result
<1>3. DOMAIN batch = 1 .. Len(batch) /\ Len(batch) \in Nat
  BY DEF RunInv
<1> QED
  BY <1>1, <1>2, <1>3 DEF ResultsIn

\* A turn begins with typed messages and no calls.
LEMMA RunInit == Init => RunInv
<1> SUFFICES ASSUME Init PROVE RunInv
  OBVIOUS
<1>1. messages \in Seq(Messages)
  <2>1. PICK h \in Histories : messages = <<System(1)>> \o h \o <<User(NoId, 1)>>
    BY DEF Init
  <2>2. h \in Seq(Messages)
    BY RunnerAssumption
  <2>3. System(1) \in Messages /\ User(NoId, 1) \in Messages
    BY MessageTypes
  <2>4. <<System(1)>> \in Seq(Messages) /\ <<User(NoId, 1)>> \in Seq(Messages)
    BY <2>3
  <2> QED
    BY <2>1, <2>2, <2>4
<1>2. BatchIds = {}
  BY DEF Init, BatchIds
<1>3. sizes \in SizesAtMost
  BY DEF Init, SizesAtMost
<1>4. batch = <<>> /\ batch \in Seq(Calls) /\ IsInjective(batch)
  BY DEF Init, IsInjective
<1>5. round \in 0 .. MaxRounds /\ nudges \in 0 .. MaxNudges /\ clock \in 0 .. 2
  BY RunnerAssumption DEF Init
<1>6. delta = <<>> /\ queue = <<>> /\ accepted = <<>> /\ ToSet(queue) = {}
  BY DEF Init, ToSet
<1>7. stage = "hooks" /\ skipped = {} /\ running = {} /\ started = {} /\ completed = {}
      /\ fast \in BOOLEAN /\ finalizing = FALSE /\ searched = FALSE
  BY DEF Init
<1>8. /\ delta \in Seq(Messages) /\ queue \in Seq(Steers) /\ accepted \in Seq(Steers)
      /\ ToSet(queue) \subseteq ToSet(accepted)
  BY <1>6
<1> QED
  BY <1>1, <1>2, <1>3, <1>4, <1>5, <1>7, <1>8 DEF RunInv, Stages

\* Every step of a turn keeps the types.
LEMMA RunStep == RunInv /\ [Next]_turnVars => RunInv'
<1> SUFFICES ASSUME RunInv, [Next]_turnVars PROVE RunInv'
  OBVIOUS
<1> USE DEF RunInv, Stages
<1>0. (batch' = batch /\ round' = round) => BatchIds' = BatchIds
  BY DEF BatchIds, Id
<1>1. CASE HooksDone \/ DeleteSnapshot \/ TurnEndHook \/ Deregister \/ Flush \/ StreamDelta
  BY <1>0, <1>1 DEF HooksDone, DeleteSnapshot, TurnEndHook, Deregister, Flush, StreamDelta,
     loopVars, toolVars, steerVars
<1>2. ASSUME NEW how \in {"error", "cancelled"}, Interrupt(how) PROVE RunInv'
  BY <1>0, <1>2 DEF Interrupt, loopVars, steerVars
<1>3. CASE Steered
  <2>1. <<Assistant({}, 1)>> \o UsersOf(queue) \in Seq(Messages)
    BY UsersType, MessageTypes
  <2>2. messages' \in Seq(Messages) /\ delta' \in Seq(Messages)
    BY <1>3, UsersType, MessageTypes DEF Steered
  <2> QED
    BY <1>0, <1>3, <2>2 DEF Steered, toolVars, ToSet
<1>4. CASE Nudge \/ Feedback \/ Answer
  <2>1. messages' \in Seq(Messages) /\ delta' \in Seq(Messages)
    <3>1. Assistant({}, 1) \in Messages /\ User(NoId, 1) \in Messages
      BY MessageTypes
    <3>2. CASE Nudge
      <4>1. messages' = messages \o <<Assistant({}, 1), User(NoId, 1)>> \/ messages' = messages
        BY <3>2 DEF Nudge
      <4>2. <<Assistant({}, 1), User(NoId, 1)>> \in Seq(Messages)
        BY <3>1
      <4> DEFINE more == <<Assistant({}, 1), User(NoId, 1)>>
      <4>3. messages' \in Seq(Messages)
        <5>1. messages \in Seq(Messages) /\ more \in Seq(Messages)
          BY <4>2
        <5> HIDE DEF more, RunInv
        <5>2. messages \o more \in Seq(Messages)
          BY <5>1
        <5> QED
          BY <4>1, <5>1, <5>2 DEF more
      <4>4. delta' = delta
        BY <3>2 DEF Nudge
      <4> QED
        BY <4>3, <4>4
    <3>3. CASE Feedback
      BY <3>1, <3>3 DEF Feedback
    <3>4. CASE Answer
      BY <3>1, <3>4 DEF Answer
    <3> QED
      BY <1>4, <3>2, <3>3, <3>4
  <2>2. nudges' \in 0 .. MaxNudges
    BY <1>4, RunnerAssumption DEF Nudge, Feedback, Answer
  <2> QED
    BY <1>0, <1>4, <2>1, <2>2 DEF Nudge, Feedback, Answer, Returns, toolVars, steerVars
<1>5. ASSUME NEW calls \in Batches, CallTools(calls) PROVE RunInv'
  <2>1. calls \in Seq(Calls) /\ IsInjective(calls)
    BY IdsAssumption
  <2>2. BatchIds' = {IdOf(round, calls[k]) : k \in DOMAIN calls}
    BY <1>5 DEF CallTools, BatchIds, Id, loopVars
  <2>3. BatchIds' \subseteq CallIds
    BY <1>5, <2>1, <2>2, IdsAssumption, RunnerAssumption DEF CallTools
  <2>4. started' = started \cup BatchIds'
    BY <1>5, <2>2 DEF CallTools
  <2>5. skipped = {} /\ running = {}
    BY <1>5 DEF CallTools, BatchIds
  <2> QED
    BY <1>5, <2>1, <2>3, <2>4, <2>5 DEF CallTools, loopVars, steerVars
<1>6. ASSUME NEW now \in 0 .. 2, Exhaust(now) PROVE RunInv'
  <2>1. delta' \in Seq(Messages)
    BY <1>6, MessageTypes DEF Exhaust
  <2> QED
    BY <1>0, <1>6, <2>1 DEF Exhaust, Returns, toolVars, steerVars
<1>7. ASSUME NEW now \in 0 .. 2, CallModel(now) PROVE RunInv'
  <2>1. messages' \in Seq(Messages)
    <3>1. System(1) \in Messages
      BY MessageTypes
    <3>2. messages \in Seq(Messages) /\ Append(messages, System(1)) \in Seq(Messages)
      BY <3>1
    <3>3. messages' = Trim(messages) \/ messages' = Trim(Append(messages, System(1)))
      BY <1>7 DEF CallModel, FinalPrompt
    <3> QED
      BY <3>2, <3>3, TrimmedIsPaired
  <2>2. finalizing' \in BOOLEAN
    BY <1>7 DEF CallModel
  <2>3. round' \in 0 .. MaxRounds /\ round' >= 1
    BY <1>7, RunnerAssumption DEF CallModel
  <2>4. BatchIds' = {} /\ BatchIds = {}
    BY <1>7 DEF CallModel, BatchIds, toolVars
  <2> QED
    BY <1>7, <2>1, <2>2, <2>3, <2>4 DEF CallModel, toolVars, steerVars
<1>8. CASE Execute
  <2>1. BatchIds' = BatchIds
    BY <1>0, <1>8 DEF Execute, loopVars
  <2>2. skipped' \subseteq BatchIds /\ running' \subseteq BatchIds
    BY <1>8 DEF Execute, BatchIds
  <2>3. running' \cap skipped' = {}
    BY <1>8, BatchIdsType DEF Execute
  <2>4. searched' \in BOOLEAN
    BY <1>8 DEF Execute
  <2> QED
    BY <1>8, <2>1, <2>2, <2>3, <2>4 DEF Execute, loopVars, steerVars
<1>9. ASSUME NEW c \in CallIds, NEW n \in ResultSizes, ToolEnds(c, n) PROVE RunInv'
  <2>1. sizes' \in SizesAtMost
    BY <1>9 DEF ToolEnds, SizesAtMost
  <2> QED
    BY <1>0, <1>9, <2>1 DEF ToolEnds, loopVars, steerVars
<1>10. CASE Gather
  <2>1. Executed \subseteq BatchIds
    BY DEF Executed, BatchIds
  <2> QED
    BY <1>0, <1>10, <2>1 DEF Gather, loopVars, steerVars
<1>11. CASE AddResults
  <2>1. messages' \in Seq(Messages) /\ delta' \in Seq(Messages)
    <3>1. PICK order \in ResultOrder :
            LET added == <<Assistant(Executed, 1)>> \o ResultsIn(order)
            IN  messages' = messages \o added /\ delta' = delta \o added
      BY <1>11 DEF AddResults, ResultsIn
    <3>2. Assistant(Executed, 1) \in Messages
      BY BatchIdsType, MessageTypes DEF Executed, BatchIds
    <3> HIDE DEF RunInv
    <3>3. ResultsIn(order) \in Seq(Messages)
      BY ResultsType
    <3> USE DEF RunInv
    <3> QED
      BY <3>1, <3>2, <3>3
  <2>2. BatchIds' = {} /\ batch' = <<>> /\ IsInjective(batch') /\ batch' \in Seq(Calls)
    BY <1>11 DEF AddResults, BatchIds, IsInjective
  <2>3. running = {}
    BY <1>11 DEF AddResults
  <2> QED
    BY <1>11, <2>1, <2>2, <2>3 DEF AddResults, steerVars
<1>12. ASSUME NEW s \in Steers, Steer(s) PROVE RunInv'
  <2>1. queue' \in Seq(Steers) /\ accepted' \in Seq(Steers)
    BY <1>12 DEF Steer
  <2>2. ToSet(queue') \subseteq ToSet(accepted')
    <3>1. \A x \in ToSet(queue') : x \in ToSet(queue) \/ x = s
      BY <1>12 DEF Steer, ToSet
    <3>2. ASSUME NEW x \in ToSet(accepted) \cup {s} PROVE x \in ToSet(accepted')
      <4>1. accepted' = Append(accepted, s) /\ Len(accepted) \in Nat
        BY <1>12 DEF Steer
      <4>2. CASE x = s
        BY <4>1, <4>2 DEF ToSet
      <4>3. ASSUME NEW i \in DOMAIN accepted, accepted[i] = x PROVE x \in ToSet(accepted')
        <5>1. i \in DOMAIN accepted' /\ accepted'[i] = x
          BY <4>1, <4>3
        <5> QED
          BY <5>1 DEF ToSet
      <4> QED
        BY <4>2, <4>3 DEF ToSet
    <3> QED
      BY <3>1, <3>2
  <2> QED
    BY <1>0, <1>12, <2>1, <2>2 DEF Steer, loopVars, toolVars
<1>13. CASE UNCHANGED turnVars
  BY <1>0, <1>13 DEF turnVars, loopVars, toolVars, steerVars
<1> QED
  BY <1>1, <1>2, <1>3, <1>4, <1>5, <1>6, <1>7, <1>8, <1>9, <1>10, <1>11, <1>12, <1>13
     DEF Next, Progress, Respond, NextRound

\* Among others, no more items are owed to the ledger than the response has calls.
THEOREM RoundsAreTyped == Spec => []TypeOK
<1>1. RunInv /\ EndInv => TypeOK
  <2>1. RunInv => skipped \cup running \subseteq {Id(k) : k \in DOMAIN batch}
    BY DEF RunInv, BatchIds
  <2>2. RunInv => ToSet(accepted) \subseteq Steers
    BY DEF RunInv, ToSet
  <2> QED
    BY <2>1, <2>2 DEF RunInv, EndInv, TypeOK
<1> QED
  BY <1>1, EndInit, EndStep, RunInit, RunStep, PTL DEF Spec

----------------------------------------------------------------------------
(* Prompts.                                                                *)

PromptInv == stage = "streaming" => WellPaired(messages)

\* Only CallModel makes a prompt, and trims it.
LEMMA PromptStep == RunInv /\ PromptInv /\ [Next]_turnVars => PromptInv'
<1> SUFFICES ASSUME RunInv, PromptInv, [Next]_turnVars, stage' = "streaming" PROVE WellPaired(messages')
  BY DEF PromptInv
<1>1. CASE UNCHANGED <<stage, messages>>
  BY <1>1 DEF PromptInv
<1>2. ASSUME NEW now \in 0 .. 2, CallModel(now) PROVE WellPaired(messages')
  <2>1. System(1) \in Messages /\ messages \in Seq(Messages)
    BY MessageTypes DEF RunInv
  <2>2. messages' = Trim(messages) \/ messages' = Trim(Append(messages, System(1)))
    BY <1>2 DEF CallModel, FinalPrompt
  <2>3. Append(messages, System(1)) \in Seq(Messages)
    BY <2>1
  <2> QED
    BY <2>1, <2>2, <2>3, TrimmedIsPaired
<1>3. ASSUME NEW now \in 0 .. 2, Exhaust(now) PROVE FALSE
  BY <1>3 DEF Exhaust, Returns
<1>4. ASSUME Progress, ~ UNCHANGED <<stage, messages>> PROVE FALSE
  BY <1>4 DEF Progress, Respond, HooksDone, Flush, DeleteSnapshot, TurnEndHook, Steered, Nudge,
     Feedback, Answer, CallTools, Returns, Execute, Gather, AddResults, ToolEnds, Deregister, loopVars
<1>5. CASE StreamDelta \/ \E s \in Steers : Steer(s)
  BY <1>1, <1>5 DEF StreamDelta, Steer, loopVars
<1>6. ASSUME NEW how \in {"error", "cancelled"}, Interrupt(how) PROVE WellPaired(messages')
  BY <1>1, <1>6 DEF Interrupt, loopVars
<1>7. CASE UNCHANGED turnVars
  BY <1>1, <1>7 DEF turnVars, loopVars
<1> QED
  BY <1>1, <1>2, <1>3, <1>4, <1>5, <1>6, <1>7 DEF Next, NextRound

\* However many messages a turn has and whatever was refused or cut out before, the provider
\* is never sent a result without its call or a call without its results, and pruning takes
\* out no more than those.
THEOREM PromptsArePaired == Spec => []PromptPaired
<1>1. Init => PromptInv
  BY DEF Init, PromptInv
<1>2. RunInv /\ PromptInv => PromptPaired
  BY PruneKeeps DEF RunInv, PromptInv, PromptPaired
<1> QED
  BY <1>1, <1>2, PromptStep, RunInit, RunStep, PTL DEF Spec

----------------------------------------------------------------------------
(* Longer messages.                                                        *)

\* Neither results nor calls, nor steering messages.
Plain(ms) == ms \in Seq(Messages) /\ \A k \in DOMAIN ms : ms[k].role # "tool" /\ ms[k].calls = {}

ToolIds(ms) == {ms[k].id : k \in ResultsAt(ms)}
CallsOf(ms) == UNION {ms[k].calls : k \in DOMAIN ms}
AnswersOnce(ms) == \A j, k \in ResultsAt(ms) : ms[j].id = ms[k].id => j = k

\* Where the messages of two lists are when one follows the other.
LEMMA PlaceIn ==
  ASSUME NEW f \in Seq(Messages), NEW g \in Seq(Messages)
  PROVE  /\ f \o g \in Seq(Messages) /\ Len(f) \in Nat /\ Len(g) \in Nat
         /\ DOMAIN f = 1 .. Len(f) /\ DOMAIN g = 1 .. Len(g)
         /\ DOMAIN (f \o g) = 1 .. Len(f) + Len(g)
         /\ \A k \in 1 .. Len(f) : (f \o g)[k] = f[k]
         /\ \A k \in 1 .. Len(g) : (f \o g)[Len(f) + k] = g[k]
         /\ \A i \in 1 .. Len(f) + Len(g) :
              i \in 1 .. Len(f) \/ \E k \in 1 .. Len(g) : i = Len(f) + k
<1>1. f \o g \in Seq(Messages) /\ Len(f) \in Nat /\ Len(g) \in Nat
      /\ DOMAIN f = 1 .. Len(f) /\ DOMAIN g = 1 .. Len(g)
      /\ DOMAIN (f \o g) = 1 .. Len(f) + Len(g)
  OBVIOUS
<1>2. \A k \in 1 .. Len(f) : (f \o g)[k] = f[k]
  OBVIOUS
<1>3. \A k \in 1 .. Len(g) : (f \o g)[Len(f) + k] = g[k]
  OBVIOUS
<1>4. ASSUME NEW i \in 1 .. Len(f) + Len(g), i \notin 1 .. Len(f)
      PROVE  \E k \in 1 .. Len(g) : i = Len(f) + k
  <2>1. i - Len(f) \in 1 .. Len(g) /\ i = Len(f) + (i - Len(f))
    BY <1>1, <1>4
  <2> QED
    BY <2>1
<1> QED
  BY <1>1, <1>2, <1>3, <1>4

\* Results and calls of two lists add up, and none is doubled when the ids differ.
LEMMA AccountsAdd ==
  ASSUME NEW f \in Seq(Messages), NEW g \in Seq(Messages)
  PROVE  /\ ToolIds(f \o g) = ToolIds(f) \cup ToolIds(g)
         /\ CallsOf(f \o g) = CallsOf(f) \cup CallsOf(g)
         /\ AnswersOnce(f) /\ AnswersOnce(g) /\ ToolIds(f) \cap ToolIds(g) = {}
            => AnswersOnce(f \o g)
<1> DEFINE w == f \o g
           L == Len(f)
<1>1. /\ L \in Nat /\ Len(g) \in Nat
      /\ DOMAIN f = 1 .. L /\ DOMAIN g = 1 .. Len(g) /\ DOMAIN w = 1 .. L + Len(g)
      /\ \A k \in 1 .. L : w[k] = f[k] /\ k \in 1 .. L + Len(g)
      /\ \A k \in 1 .. Len(g) : w[L + k] = g[k] /\ L + k \in 1 .. L + Len(g)
      /\ \A i \in 1 .. L + Len(g) : i \in 1 .. L \/ \E k \in 1 .. Len(g) : i = L + k
  BY PlaceIn
<1> HIDE DEF w, L
<1>2. ToolIds(w) = ToolIds(f) \cup ToolIds(g)
  <2>1. ASSUME NEW i \in ResultsAt(w) PROVE w[i].id \in ToolIds(f) \cup ToolIds(g)
    <3>1. i \in 1 .. L + Len(g) /\ w[i].role = "tool"
      BY <1>1 DEF ResultsAt
    <3>2. CASE i \in 1 .. L
      <4>1. i \in ResultsAt(f) /\ w[i] = f[i]
        BY <1>1, <3>1, <3>2 DEF ResultsAt
      <4> QED
        BY <4>1 DEF ToolIds
    <3>3. ASSUME NEW k \in 1 .. Len(g), i = L + k PROVE w[i].id \in ToolIds(g)
      <4>1. k \in ResultsAt(g) /\ w[i] = g[k]
        BY <1>1, <3>1, <3>3 DEF ResultsAt
      <4> QED
        BY <4>1 DEF ToolIds
    <3> QED
      BY <1>1, <3>1, <3>2, <3>3
  <2>2. \A x \in ToolIds(f) : x \in ToolIds(w)
    BY <1>1 DEF ToolIds, ResultsAt
  <2>3. \A x \in ToolIds(g) : x \in ToolIds(w)
    BY <1>1 DEF ToolIds, ResultsAt
  <2> QED
    BY <2>1, <2>2, <2>3 DEF ToolIds
<1>3. CallsOf(w) = CallsOf(f) \cup CallsOf(g)
  <2>1. \A x \in CallsOf(w) : x \in CallsOf(f) \cup CallsOf(g)
    BY <1>1 DEF CallsOf
  <2>2. \A x \in CallsOf(f) : x \in CallsOf(w)
    BY <1>1 DEF CallsOf
  <2>3. \A x \in CallsOf(g) : x \in CallsOf(w)
    BY <1>1 DEF CallsOf
  <2> QED
    BY <2>1, <2>2, <2>3
<1>4. ASSUME AnswersOnce(f), AnswersOnce(g), ToolIds(f) \cap ToolIds(g) = {},
             NEW i \in ResultsAt(w), NEW j \in ResultsAt(w), w[i].id = w[j].id
      PROVE  i = j
  <2>1. ASSUME NEW k \in ResultsAt(w)
        PROVE  \/ k \in ResultsAt(f) /\ w[k].id = f[k].id
               \/ \E l \in ResultsAt(g) : k = L + l /\ w[k].id = g[l].id
    <3>1. k \in 1 .. L + Len(g) /\ w[k].role = "tool"
      BY <1>1 DEF ResultsAt
    <3>2. CASE k \in 1 .. L
      BY <1>1, <3>1, <3>2 DEF ResultsAt
    <3>3. ASSUME NEW l \in 1 .. Len(g), k = L + l PROVE l \in ResultsAt(g) /\ w[k].id = g[l].id
      BY <1>1, <3>1, <3>3 DEF ResultsAt
    <3> QED
      BY <1>1, <3>1, <3>2, <3>3
  <2>2. \A k \in ResultsAt(f) : f[k].id \in ToolIds(f)
    BY DEF ToolIds
  <2>3. \A k \in ResultsAt(g) : g[k].id \in ToolIds(g)
    BY DEF ToolIds
  <2>4. CASE i \in ResultsAt(f) /\ w[i].id = f[i].id
    BY <1>4, <2>1, <2>2, <2>3, <2>4 DEF AnswersOnce
  <2>5. ASSUME NEW l \in ResultsAt(g), i = L + l, w[i].id = g[l].id PROVE i = j
    BY <1>4, <2>1, <2>2, <2>3, <2>5 DEF AnswersOnce
  <2> QED
    BY <2>1, <2>4, <2>5
<1> QED
  BY <1>2, <1>3, <1>4 DEF AnswersOnce, w

\* Plain messages have neither results nor calls.
LEMMA PlainAccounts ==
  ASSUME NEW ms, Plain(ms) PROVE ToolIds(ms) = {} /\ CallsOf(ms) = {} /\ AnswersOnce(ms)
BY DEF Plain, ToolIds, CallsOf, AnswersOnce, ResultsAt

\* Paired messages stay paired when plain ones follow them.
LEMMA PlainPaired ==
  ASSUME NEW f \in Seq(Messages), WellPaired(f), NEW xs, Plain(xs)
  PROVE  WellPaired(f \o xs)
<1> DEFINE n == Len(xs)
           front(k) == f \o SubSeq(xs, 1, k)
           S == {k \in 0 .. n : WellPaired(front(k))}
<1>1. n \in Nat /\ xs \in Seq(Messages)
  BY DEF Plain
<1>2. 0 \in S
  <2>1. SubSeq(xs, 1, 0) = <<>> /\ f \o <<>> = f
    BY <1>1
  <2>2. front(0) = f
    BY <2>1
  <2> HIDE DEF front
  <2> QED
    BY <1>1, <2>2
<1>3. ASSUME NEW k \in 0 .. n - 1, k \in S PROVE k + 1 \in S
  <2> DEFINE s == SubSeq(xs, 1, k)
             m == xs[k + 1]
  <2>1. k \in Nat /\ k + 1 \in 1 .. n /\ k + 1 \in 0 .. n /\ m \in Messages
        /\ m.role # "tool" /\ m.calls = {}
    BY <1>1 DEF Plain
  <2>2. s \in Seq(Messages) /\ SubSeq(xs, 1, k + 1) = Append(s, m)
    BY <1>1, <2>1
  <2>3. Group(<<m>>)
    BY <2>1 DEF Group
  <2>4. WellPaired(f \o s)
    BY <1>3
  <2> HIDE DEF s, m
  <2>5. Append(f \o s, m) = f \o Append(s, m)
    BY <2>1, <2>2, AppendToSecond
  <2>6. f \o s \in Seq(Messages) /\ Append(f \o s, m) = (f \o s) \o <<m>>
    BY <2>1, <2>2
  <2>7. WellPaired((f \o s) \o <<m>>)
    BY <2>3, <2>4, <2>6, PairedExtended
  <2>8. WellPaired(front(k + 1))
    BY <2>2, <2>5, <2>6, <2>7
  <2> QED
    BY <2>1, <2>8
<1>4. n \in S
  <2> HIDE DEF S, n
  <2>1. 0 .. n \subseteq S
    BY <1>1, <1>2, <1>3, BoundedInduction
  <2> QED
    BY <1>1, <2>1
<1>5. SubSeq(xs, 1, n) = xs
  BY <1>1
<1> QED
  BY <1>4, <1>5

----------------------------------------------------------------------------
(* Steering.                                                               *)

\* The steering messages of two lists add up.
LEMMA SteersAdd ==
  ASSUME NEW f \in Seq(Messages), NEW g \in Seq(Messages)
  PROVE  SteerAt(f \o g) = SteerAt(f) \cup {Len(f) + k : k \in SteerAt(g)}
<1> DEFINE w == f \o g
           L == Len(f)
<1>1. /\ L \in Nat /\ Len(g) \in Nat
      /\ DOMAIN f = 1 .. L /\ DOMAIN g = 1 .. Len(g) /\ DOMAIN w = 1 .. L + Len(g)
      /\ \A k \in 1 .. L : w[k] = f[k] /\ k \in 1 .. L + Len(g)
      /\ \A k \in 1 .. Len(g) : w[L + k] = g[k] /\ L + k \in 1 .. L + Len(g)
      /\ \A i \in 1 .. L + Len(g) : i \in 1 .. L \/ \E k \in 1 .. Len(g) : i = L + k
  BY PlaceIn
<1> HIDE DEF w, L
<1>2. ASSUME NEW i \in SteerAt(w) PROVE i \in SteerAt(f) \cup {L + k : k \in SteerAt(g)}
  <2>1. i \in 1 .. L + Len(g) /\ w[i].role = "user" /\ w[i].id \in Steers
    BY <1>1 DEF SteerAt
  <2>2. CASE i \in 1 .. L
    BY <1>1, <2>1, <2>2 DEF SteerAt
  <2>3. ASSUME NEW k \in 1 .. Len(g), i = L + k PROVE k \in SteerAt(g)
    BY <1>1, <2>1, <2>3 DEF SteerAt
  <2> QED
    BY <1>1, <2>1, <2>2, <2>3
<1>3. SteerAt(f) \subseteq SteerAt(w)
  BY <1>1 DEF SteerAt
<1>4. \A k \in SteerAt(g) : L + k \in SteerAt(w)
  BY <1>1 DEF SteerAt
<1> QED
  BY <1>2, <1>3, <1>4 DEF w, L

SteerIds(ms) == {ms[k].id : k \in SteerAt(ms)}

\* The messages to persist may grow by others: the order of the steering messages stays.
LEMMA OrderKept ==
  ASSUME NEW f \in Seq(Messages), NEW g \in Seq(Messages), SteerAt(g) = {}
  PROVE  /\ SteerIds(f \o g) = SteerIds(f)
         /\ \A ids, n : InOrder(f, ids, n) => InOrder(f \o g, ids, n)
<1>1. SteerAt(f \o g) = SteerAt(f)
  <2>1. SteerAt(f \o g) = SteerAt(f) \cup {Len(f) + k : k \in SteerAt(g)}
    BY SteersAdd
  <2> QED
    BY <2>1
<1>2. \A k \in SteerAt(f) : (f \o g)[k] = f[k]
  BY PlaceIn DEF SteerAt
<1>3. SteerIds(f \o g) = SteerIds(f)
  BY <1>1, <1>2 DEF SteerIds
<1>4. ASSUME NEW ids, NEW n, InOrder(f, ids, n) PROVE InOrder(f \o g, ids, n)
  <2>1. PICK at \in [1 .. n -> SteerAt(f)] :
          /\ \A k \in 1 .. n : f[at[k]].id = ids[k]
          /\ \A j, k \in 1 .. n : j < k => at[j] < at[k]
          /\ \A i \in SteerAt(f) : \E k \in 1 .. n : at[k] = i
    BY <1>4 DEF InOrder
  <2>2. \A k \in 1 .. n : (f \o g)[at[k]].id = ids[k]
    BY <1>2, <2>1
  <2>3. at \in [1 .. n -> SteerAt(f \o g)]
    BY <1>1, <2>1
  <2> HIDE DEF SteerAt
  <2> QED
    BY <1>1, <2>1, <2>2, <2>3 DEF InOrder
<1> QED
  BY <1>3, <1>4

\* What waits is put in order after what is there.
LEMMA OrderTaken ==
  ASSUME RunInv, NEW n \in 0 .. Len(accepted), queue = SubSeq(accepted, n + 1, Len(accepted)),
         InOrder(delta, accepted, n), NEW m \in Messages, m.role # "user"
  PROVE  /\ InOrder(delta \o (<<m>> \o UsersOf(queue)), accepted, Len(accepted))
         /\ SteerIds(delta \o (<<m>> \o UsersOf(queue))) \subseteq SteerIds(delta) \cup Ids(UsersOf(queue))
<1> DEFINE us == UsersOf(queue)
           g == <<m>> \o us
           w == delta \o g
           L == Len(delta)
           A == Len(accepted)
           Q == Len(queue)
<1>1. /\ delta \in Seq(Messages) /\ queue \in Seq(Steers) /\ accepted \in Seq(Steers)
      /\ L \in Nat /\ A \in Nat /\ Q \in Nat /\ n \in Nat /\ n <= A
  BY DEF RunInv
<1>2. Q = A - n /\ \A k \in 1 .. Q : queue[k] = accepted[n + k]
  BY <1>1
<1>3. us \in Seq(Messages) /\ Len(us) = Q /\ DOMAIN us = 1 .. Q
      /\ \A k \in 1 .. Q : us[k].id = queue[k] /\ us[k].role = "user" /\ queue[k] \in Steers
  <2>1. us \in Seq(Messages) /\ Len(us) = Q
    BY <1>1, UsersType
  <2>2. DOMAIN queue = 1 .. Q /\ \A k \in 1 .. Q : queue[k] \in Steers
    BY <1>1
  <2>3. \A k \in 1 .. Q : us[k] = User(queue[k], 1)
    BY <2>2 DEF UsersOf
  <2> HIDE DEF us, Q
  <2>4. ASSUME NEW k \in 1 .. Q PROVE us[k].id = queue[k] /\ us[k].role = "user"
    <3> DEFINE v == us[k]
    <3>1. v = User(queue[k], 1)
      BY <2>3
    <3> HIDE DEF v
    <3>2. v.id = queue[k] /\ v.role = "user"
      BY <3>1 DEF User
    <3> QED
      BY <3>2 DEF v
  <2> QED
    BY <1>1, <2>1, <2>2, <2>4
<1> HIDE DEF us, Q, A, L
<1>4. /\ g \in Seq(Messages) /\ Len(g) = Q + 1 /\ DOMAIN g = 1 .. Q + 1 /\ g[1] = m
      /\ \A k \in 1 .. Q : g[k + 1] = us[k]
  BY <1>1, <1>3
<1> HIDE DEF g
<1>5. SteerAt(g) = 2 .. Q + 1
  <2>1. \A k \in 2 .. Q + 1 : k - 1 \in 1 .. Q /\ k = (k - 1) + 1
    BY <1>1
  <2>2. ASSUME NEW k \in 2 .. Q + 1 PROVE g[k].id \in Steers /\ g[k].role = "user"
    <3>1. k - 1 \in 1 .. Q /\ g[k] = us[k - 1]
      BY <1>4, <2>1
    <3> QED
      BY <1>3, <3>1
  <2>3. \A k \in SteerAt(g) : k \in 1 .. Q + 1 /\ k # 1
    BY <1>4 DEF SteerAt
  <2>4. \A k \in 2 .. Q + 1 : k \in SteerAt(g)
    BY <1>1, <1>4, <2>2 DEF SteerAt
  <2>5. \A k \in SteerAt(g) : k \in 2 .. Q + 1
    BY <1>1, <2>3
  <2> QED
    BY <2>4, <2>5
<1>6. SteerAt(w) = SteerAt(delta) \cup {L + k : k \in 2 .. Q + 1}
  BY <1>1, <1>4, <1>5, SteersAdd DEF L
<1>7. /\ \A k \in SteerAt(delta) : w[k] = delta[k] /\ k \in 1 .. L
      /\ \A k \in 2 .. Q + 1 : w[L + k] = us[k - 1]
  <2>1. \A k \in 1 .. L : w[k] = delta[k]
    BY <1>1, <1>4, PlaceIn DEF L
  <2>2. \A k \in 1 .. Q + 1 : w[L + k] = g[k]
    BY <1>1, <1>4, PlaceIn DEF L
  <2>3. \A k \in SteerAt(delta) : k \in 1 .. L
    BY <1>1, PlaceIn DEF SteerAt, L
  <2>4. \A k \in 2 .. Q + 1 : k - 1 \in 1 .. Q /\ k = (k - 1) + 1 /\ k \in 1 .. Q + 1
    BY <1>1
  <2> QED
    BY <1>4, <2>1, <2>2, <2>3, <2>4
<1>8. PICK at \in [1 .. n -> SteerAt(delta)] :
          /\ \A k \in 1 .. n : delta[at[k]].id = accepted[k]
          /\ \A j, k \in 1 .. n : j < k => at[j] < at[k]
          /\ \A i \in SteerAt(delta) : \E k \in 1 .. n : at[k] = i
  BY DEF InOrder
<1> DEFINE to == [k \in 1 .. A |-> IF k <= n THEN at[k] ELSE L + 1 + (k - n)]
<1> HIDE DEF w
<1>9. \A k \in 1 .. A : \/ k \in 1 .. n /\ to[k] = at[k] /\ at[k] \in SteerAt(delta)
                        \/ k \in n + 1 .. A /\ to[k] = L + (k - n + 1) /\ k - n + 1 \in 2 .. Q + 1
  BY <1>1, <1>2, <1>8
<1>10. to \in [1 .. A -> SteerAt(w)]
  <2>1. \A k \in 1 .. A : to[k] \in SteerAt(w)
    BY <1>6, <1>9
  <2> QED
    BY <2>1
<1> HIDE DEF to
<1>11. ASSUME NEW k \in 1 .. A PROVE w[to[k]].id = accepted[k]
  <2>1. CASE k \in 1 .. n /\ to[k] = at[k] /\ at[k] \in SteerAt(delta)
    BY <1>7, <1>8, <2>1
  <2>2. CASE k \in n + 1 .. A /\ to[k] = L + (k - n + 1) /\ k - n + 1 \in 2 .. Q + 1
    <3>1. k - n \in 1 .. Q /\ (k - n + 1) - 1 = k - n /\ n + (k - n) = k
      BY <1>1, <1>2, <2>2
    <3>2. w[to[k]] = us[k - n]
      BY <1>7, <2>2, <3>1
    <3> QED
      BY <1>2, <1>3, <3>1, <3>2
  <2> QED
    BY <1>9, <2>1, <2>2
<1>12. ASSUME NEW j \in 1 .. A, NEW k \in 1 .. A, j < k PROVE to[j] < to[k]
  <2>1. \A i \in 1 .. n : at[i] \in 1 .. L
    BY <1>7, <1>8
  <2> QED
    BY <1>1, <1>8, <1>9, <1>12, <2>1
<1>13. ASSUME NEW i \in SteerAt(w) PROVE \E k \in 1 .. A : to[k] = i
  <2>1. CASE i \in SteerAt(delta)
    <3>1. PICK k \in 1 .. n : at[k] = i
      BY <1>8, <2>1
    <3>2. k \in 1 .. A /\ k \notin n + 1 .. A
      BY <1>1
    <3> QED
      BY <1>9, <3>1, <3>2
  <2>2. ASSUME NEW l \in 2 .. Q + 1, i = L + l PROVE \E k \in 1 .. A : to[k] = i
    <3> DEFINE k == l + n - 1
    <3>1. k \in 1 .. A /\ k \notin 1 .. n /\ k - n + 1 = l
      BY <1>1, <1>2
    <3>2. to[k] = i
      BY <1>9, <2>2, <3>1
    <3> QED
      BY <3>1, <3>2
  <2> QED
    BY <1>6, <2>1, <2>2
<1>14. InOrder(w, accepted, A)
  <2>1. \A k \in 1 .. A : w[to[k]].id = accepted[k]
    BY <1>11
  <2>2. \A j, k \in 1 .. A : j < k => to[j] < to[k]
    BY <1>12
  <2>3. \A i \in SteerAt(w) : \E k \in 1 .. A : to[k] = i
    BY <1>13
  <2> QED
    BY <1>10, <2>1, <2>2, <2>3 DEF InOrder
<1>15. SteerIds(w) \subseteq SteerIds(delta) \cup Ids(us)
  <2>1. \A k \in 2 .. Q + 1 : k - 1 \in DOMAIN us
    BY <1>1, <1>3
  <2>2. \A k \in SteerAt(delta) : w[k].id \in SteerIds(delta)
    BY <1>7 DEF SteerIds
  <2>3. \A k \in 2 .. Q + 1 : w[L + k].id \in Ids(us)
    BY <1>7, <2>1 DEF Ids
  <2> QED
    BY <1>6, <2>2, <2>3 DEF SteerIds
<1> QED
  BY <1>14, <1>15 DEF w, g, us, A

LoopRunning == stage \in {"streaming", "starting", "tools", "recording"}

\* Those that were accepted are in the messages or wait, and those in the messages have
\* been seen by the model, cut out of its sight, or are in what is put to it next.
SteerInv ==
  /\ \E n \in 0 .. Len(accepted) :
       queue = SubSeq(accepted, n + 1, Len(accepted)) /\ InOrder(delta, accepted, n)
  /\ SteerIds(delta) \subseteq prompted \cup trimmed \cup Ids(messages)
  /\ LoopRunning \/ outcome = "final" => SteerIds(delta) \subseteq prompted \cup trimmed

\* No steering message was accepted at first.
LEMMA SteerInit == Init => SteerInv
<1> SUFFICES ASSUME Init PROVE SteerInv
  OBVIOUS
<1>1. delta = <<>> /\ accepted = <<>> /\ queue = <<>> /\ stage = "hooks" /\ outcome = "none"
  BY DEF Init
<1>2. SteerAt(delta) = {}
  BY <1>1 DEF SteerAt
<1>3. InOrder(delta, accepted, 0)
  <2> DEFINE at == [k \in 1 .. 0 |-> 0]
  <2>1. at \in [1 .. 0 -> SteerAt(delta)]
    OBVIOUS
  <2> HIDE DEF at
  <2> QED
    BY <1>2, <2>1 DEF InOrder
<1>4. queue = SubSeq(accepted, 0 + 1, Len(accepted)) /\ 0 \in 0 .. Len(accepted)
  BY <1>1
<1> QED
  BY <1>1, <1>2, <1>3, <1>4 DEF SteerInv, SteerIds, LoopRunning

\* Steps that leave the steering messages alone.
LEMMA SteerFrame ==
  ASSUME SteerInv, UNCHANGED <<delta, steerVars, messages, seenVars>>,
         LoopRunning' \/ outcome' = "final" => LoopRunning \/ outcome = "final"
  PROVE  SteerInv'
<1>1. \A n : InOrder(delta, accepted, n) => InOrder(delta, accepted, n)'
  BY DEF steerVars
<1>2. SteerIds(delta)' = SteerIds(delta) /\ Ids(messages)' = Ids(messages)
  OBVIOUS
<1> QED
  BY <1>1, <1>2 DEF SteerInv, steerVars, seenVars

\* Steps that add a message that is no steering message.
LEMMA SteerAdds ==
  ASSUME RunInv, SteerInv, NEW g \in Seq(Messages), SteerAt(g) = {}, delta' = delta \o g,
         UNCHANGED <<steerVars, seenVars>>, LoopRunning
  PROVE  SteerInv'
<1>1. delta \in Seq(Messages)
  BY DEF RunInv
<1>2. SteerIds(delta') = SteerIds(delta) /\ \A n : InOrder(delta, accepted, n) => InOrder(delta', accepted, n)
  BY <1>1, OrderKept
<1>3. \A n : InOrder(delta', accepted, n) => InOrder(delta, accepted, n)'
  BY DEF steerVars
<1>4. SteerIds(delta)' = SteerIds(delta')
  OBVIOUS
<1> QED
  BY <1>2, <1>3, <1>4 DEF SteerInv, steerVars, seenVars

\* Every step of a turn keeps the steering messages, in order.
LEMMA SteerStep == EndInv /\ RunInv /\ SteerInv /\ [Next]_turnVars => SteerInv'
<1> SUFFICES ASSUME EndInv, RunInv, SteerInv, [Next]_turnVars PROVE SteerInv'
  OBVIOUS
<1>1. CASE HooksDone \/ DeleteSnapshot \/ TurnEndHook \/ Deregister \/ Flush \/ StreamDelta
  BY <1>1, SteerFrame DEF HooksDone, DeleteSnapshot, TurnEndHook, Deregister, Flush, StreamDelta,
     loopVars, endVars, LoopRunning
<1>2. ASSUME NEW how \in {"error", "cancelled"}, Interrupt(how) PROVE SteerInv'
  BY <1>2, SteerFrame DEF Interrupt, loopVars, LoopRunning
<1>3. CASE Steered
  <2>1. Assistant({}, 1) \in Messages /\ Assistant({}, 1).role # "user"
    BY MessageTypes DEF Assistant
  <2> DEFINE m == Assistant({}, 1)
             us == UsersOf(queue)
             w == delta \o (<<m>> \o us)
  <2>2. PICK n \in 0 .. Len(accepted) :
          queue = SubSeq(accepted, n + 1, Len(accepted)) /\ InOrder(delta, accepted, n)
    BY DEF SteerInv
  <2>3. InOrder(w, accepted, Len(accepted)) /\ SteerIds(w) \subseteq SteerIds(delta) \cup Ids(us)
    BY <2>1, <2>2, OrderTaken
  <2>4. delta \in Seq(Messages) /\ messages \in Seq(Messages) /\ us \in Seq(Messages)
        /\ accepted \in Seq(Steers)
    BY UsersType DEF RunInv
  <2> HIDE DEF us, m
  <2>5. delta' = w /\ messages' = messages \o (<<m>> \o us)
    <3>1. delta' = delta \o <<m>> \o us /\ messages' = messages \o <<m>> \o us
      BY <1>3 DEF Steered, m, us
    <3>2. m \in Messages
      BY <2>1 DEF m
    <3> QED
      BY <2>4, <3>1, <3>2, ConcatThird
  <2>6. Ids(us) \cup Ids(messages) \subseteq Ids(messages')
    <3> DEFINE g == <<m>> \o us
    <3>1. g \in Seq(Messages) /\ DOMAIN us = 1 .. Len(us) /\ Len(us) \in Nat
          /\ \A k \in DOMAIN us : k + 1 \in 1 .. Len(g) /\ g[k + 1] = us[k]
      BY <2>1, <2>4 DEF m
    <3> HIDE DEF g
    <3>2. /\ \A k \in DOMAIN messages : k \in DOMAIN (messages \o g) /\ (messages \o g)[k] = messages[k]
          /\ \A k \in 1 .. Len(g) : Len(messages) + k \in DOMAIN (messages \o g)
                                    /\ (messages \o g)[Len(messages) + k] = g[k]
      BY <2>4, <3>1, PlaceIn
    <3>3. messages' = messages \o g
      BY <2>5 DEF g
    <3>4. ASSUME NEW k \in DOMAIN us PROVE us[k].id \in Ids(messages \o g)
      <4>1. (messages \o g)[Len(messages) + (k + 1)] = us[k] /\ Len(messages) + (k + 1) \in DOMAIN (messages \o g)
        BY <3>1, <3>2
      <4> QED
        BY <4>1 DEF Ids
    <3>5. ASSUME NEW k \in DOMAIN messages PROVE messages[k].id \in Ids(messages \o g)
      BY <3>2 DEF Ids
    <3>6. Ids(us) \subseteq Ids(messages \o g)
      BY <3>4 DEF Ids
    <3>7. Ids(messages) \subseteq Ids(messages \o g)
      <4>1. \A k \in DOMAIN messages : messages[k].id \in Ids(messages \o g)
        BY <3>5
      <4> QED
        BY <4>1 DEF Ids
    <3> QED
      BY <3>3, <3>6, <3>7
  <2>7. /\ stage' = "round" /\ queue' = <<>> /\ accepted' = accepted /\ UNCHANGED seenVars
        /\ stage = "streaming" /\ outcome' = outcome
    BY <1>3 DEF Steered, endVars
  <2>8. outcome = "none"
    BY <2>7 DEF EndInv, LoopStages
  <2>9. InOrder(delta, accepted, Len(accepted))'
    BY <2>3, <2>5, <2>7
  <2>10. queue' = SubSeq(accepted', Len(accepted') + 1, Len(accepted')) /\ Len(accepted') \in 0 .. Len(accepted')
    BY <2>4, <2>7
  <2>11. SteerIds(delta)' = SteerIds(w) /\ Ids(messages)' = Ids(messages')
    BY <2>5 
  <2>12. SteerIds(delta) \subseteq prompted \cup trimmed
    BY <2>7 DEF SteerInv, LoopRunning
  <2>13. /\ SteerIds(delta)' \subseteq (prompted \cup trimmed \cup Ids(messages))'
         /\ ~ (LoopRunning \/ outcome = "final")'
    BY <2>3, <2>6, <2>7, <2>8, <2>11, <2>12 DEF seenVars, LoopRunning
  <2> QED
    BY <2>9, <2>10, <2>13 DEF SteerInv
<1>4. CASE Feedback \/ Answer
  <2> DEFINE g == <<Assistant({}, 1)>>
  <2>1. g \in Seq(Messages) /\ SteerAt(g) = {}
    BY MessageTypes DEF SteerAt, Assistant
  <2>2. delta' = delta \o g /\ UNCHANGED <<steerVars, seenVars>> /\ LoopRunning
    <3>1. delta' = Append(delta, Assistant({}, 1)) /\ UNCHANGED <<steerVars, seenVars>> /\ LoopRunning
      BY <1>4 DEF Feedback, Answer, LoopRunning
    <3>2. delta \in Seq(Messages) /\ Assistant({}, 1) \in Messages
      BY MessageTypes DEF RunInv
    <3>3. Append(delta, Assistant({}, 1)) = delta \o g
      BY <3>2
    <3> QED
      BY <3>1, <3>3
  <2> HIDE DEF g
  <2> QED
    BY <2>1, <2>2, SteerAdds
<1>5. CASE Nudge
  <2>1. /\ UNCHANGED <<delta, steerVars, seenVars>> /\ stage = "streaming" /\ ~ LoopRunning'
        /\ outcome' \in {"none", "empty"}
    BY <1>5 DEF Nudge, Returns, LoopRunning, EndInv, LoopStages
  <2>2. SteerIds(delta) \subseteq prompted \cup trimmed
    BY <2>1 DEF SteerInv, LoopRunning
  <2>3. \A n : InOrder(delta, accepted, n) => InOrder(delta, accepted, n)'
    BY <2>1 DEF steerVars
  <2>4. SteerIds(delta)' = SteerIds(delta)
    BY <2>1 
  <2> QED
    BY <2>1, <2>2, <2>3, <2>4 DEF SteerInv, steerVars, seenVars
<1>6. ASSUME NEW calls \in Batches, CallTools(calls) PROVE SteerInv'
  BY <1>6, SteerFrame DEF CallTools, loopVars, endVars, LoopRunning
<1>7. ASSUME NEW now \in 0 .. 2, Exhaust(now) PROVE SteerInv'
  <2> DEFINE g == <<Assistant({}, 1)>>
  <2>1. g \in Seq(Messages) /\ SteerAt(g) = {}
    BY MessageTypes DEF SteerAt, Assistant
  <2>2. delta' = delta \o g /\ delta \in Seq(Messages)
    BY <1>7, <2>1 DEF Exhaust, RunInv
  <2>3. UNCHANGED <<messages, steerVars, seenVars>> /\ outcome' = "exhausted" /\ stage' = "flushing"
    BY <1>7 DEF Exhaust, Returns
  <2> HIDE DEF g
  <2>4. SteerIds(delta') = SteerIds(delta) /\ \A n : InOrder(delta, accepted, n) => InOrder(delta', accepted, n)
    BY <2>1, <2>2, OrderKept
  <2>5. \A n : InOrder(delta', accepted, n) => InOrder(delta, accepted, n)'
    BY <2>3 DEF steerVars
  <2>6. SteerIds(delta)' = SteerIds(delta') /\ Ids(messages)' = Ids(messages)
    BY <2>3 
  <2> QED
    BY <2>3, <2>4, <2>5, <2>6 DEF SteerInv, steerVars, seenVars, LoopRunning
<1>8. ASSUME NEW now \in 0 .. 2, CallModel(now) PROVE SteerInv'
  <2>1. UNCHANGED <<delta, steerVars>>
    BY <1>8 DEF CallModel
  <2>2. Ids(messages) \subseteq (prompted \cup trimmed)' /\ prompted \cup trimmed \subseteq (prompted \cup trimmed)'
    BY <1>8 DEF CallModel
  <2>3. \A n : InOrder(delta, accepted, n) => InOrder(delta, accepted, n)'
    BY <2>1 DEF steerVars
  <2>4. SteerIds(delta)' = SteerIds(delta)
    BY <2>1 
  <2> QED
    BY <2>1, <2>2, <2>3, <2>4 DEF SteerInv, steerVars
<1>9. CASE Execute \/ Gather \/ \E c \in CallIds, n \in ResultSizes : ToolEnds(c, n)
  BY <1>9, SteerFrame DEF Execute, Gather, ToolEnds, loopVars, endVars, LoopRunning
<1>10. CASE AddResults
  <2>1. PICK order \in ResultOrder : delta' = delta \o (<<Assistant(Executed, 1)>> \o ResultsIn(order))
    BY <1>10 DEF AddResults, ResultsIn
  <2> DEFINE rs == ResultsIn(order)
             g == <<Assistant(Executed, 1)>> \o rs
  <2>2. Assistant(Executed, 1) \in Messages /\ Assistant(Executed, 1).role # "user"
    BY BatchIdsType, MessageTypes DEF Executed, BatchIds, Assistant
  <2>3. rs \in Seq(Messages) /\ \A k \in DOMAIN rs : rs[k].role # "user"
    <3>1. rs \in Seq(Messages)
      BY ResultsType
    <3>2. \A k \in DOMAIN batch : rs[k].role # "user"
      BY DEF ResultsIn, Result, ToolResult
    <3> QED
      BY <3>1, <3>2 DEF ResultsIn
  <2> HIDE DEF rs
  <2>4. g \in Seq(Messages) /\ \A k \in DOMAIN g : g[k].role # "user"
    BY <2>2, <2>3
  <2>5. SteerAt(g) = {}
    BY <2>4 DEF SteerAt
  <2>6. UNCHANGED <<steerVars, seenVars>> /\ LoopRunning /\ delta' = delta \o g
    BY <1>10, <2>1 DEF AddResults, LoopRunning, rs
  <2> HIDE DEF g
  <2> QED
    BY <2>4, <2>5, <2>6, SteerAdds
<1>11. ASSUME NEW s \in Steers, Steer(s) PROVE SteerInv'
  <2>1. /\ queue' = Append(queue, s) /\ accepted' = Append(accepted, s)
        /\ UNCHANGED <<delta, messages, stage, outcome, seenVars>>
    BY <1>11 DEF Steer, loopVars, endVars
  <2>2. PICK n \in 0 .. Len(accepted) :
          queue = SubSeq(accepted, n + 1, Len(accepted)) /\ InOrder(delta, accepted, n)
    BY DEF SteerInv
  <2>3. accepted \in Seq(Steers) /\ Len(accepted) \in Nat
    BY DEF RunInv
  <2>4. n \in 0 .. Len(accepted') /\ queue' = SubSeq(accepted', n + 1, Len(accepted'))
    <3> DEFINE rest == SubSeq(accepted, n + 1, Len(accepted))
               more == SubSeq(accepted', n + 1, Len(accepted'))
    <3>1. accepted' \in Seq(Steers) /\ Len(accepted') = Len(accepted) + 1 /\ n \in 0 .. Len(accepted')
      BY <2>1, <2>3
    <3>2. rest \in Seq(Steers) /\ Len(rest) = Len(accepted) - n
          /\ \A k \in 1 .. Len(accepted) - n : rest[k] = accepted[n + k]
      BY <2>3
    <3>3. more \in Seq(Steers) /\ Len(more) = Len(accepted) - n + 1
          /\ \A k \in 1 .. Len(accepted) - n + 1 : more[k] = accepted'[n + k]
      BY <2>3, <3>1
    <3> HIDE DEF rest, more
    <3>4. Append(rest, s) \in Seq(Steers) /\ Len(Append(rest, s)) = Len(accepted) - n + 1
      BY <2>3, <3>2
    <3>5. ASSUME NEW k \in 1 .. Len(accepted) - n + 1 PROVE Append(rest, s)[k] = more[k]
      <4>1. more[k] = accepted'[n + k] /\ n + k \in 1 .. Len(accepted) + 1
        BY <2>3, <3>3
      <4>2. CASE k = Len(accepted) - n + 1
        <5>1. Append(rest, s)[k] = s
          BY <2>3, <3>2, <4>2
        <5>2. n + k = Len(accepted) + 1
          BY <2>3, <4>2
        <5>3. accepted'[n + k] = s
          BY <2>1, <2>3, <5>2
        <5> QED
          BY <4>1, <5>1, <5>3
      <4>3. CASE k \in 1 .. Len(accepted) - n
        <5>1. Append(rest, s)[k] = rest[k] /\ rest[k] = accepted[n + k]
          BY <2>3, <3>2, <4>3
        <5>2. n + k \in 1 .. Len(accepted)
          BY <2>3, <4>3
        <5>3. accepted'[n + k] = accepted[n + k]
          BY <2>1, <2>3, <5>2
        <5> QED
          BY <4>1, <5>1, <5>3
      <4>4. k = Len(accepted) - n + 1 \/ k \in 1 .. Len(accepted) - n
        BY <2>3
      <4> QED
        BY <4>2, <4>3, <4>4
    <3>6. Append(rest, s) = more
      BY <3>3, <3>4, <3>5
    <3> QED
      BY <2>1, <2>2, <3>1, <3>6 DEF rest, more
  <2>5. \A k \in 1 .. n : accepted'[k] = accepted[k]
    BY <2>1, <2>3
  <2>6. InOrder(delta, accepted, n)'
    <3>1. PICK at \in [1 .. n -> SteerAt(delta)] :
            /\ \A k \in 1 .. n : delta[at[k]].id = accepted[k]
            /\ \A j, k \in 1 .. n : j < k => at[j] < at[k]
            /\ \A i \in SteerAt(delta) : \E k \in 1 .. n : at[k] = i
      BY <2>2 DEF InOrder
    <3>2. \A k \in 1 .. n : delta[at[k]].id = accepted'[k]
      BY <2>5, <3>1
    <3>3. InOrder(delta, accepted', n)
      BY <3>1, <3>2 DEF InOrder
    <3> QED
      BY <2>1, <3>3
  <2>7. SteerIds(delta)' = SteerIds(delta) /\ Ids(messages)' = Ids(messages)
    BY <2>1 
  <2> QED
    BY <2>1, <2>4, <2>6, <2>7 DEF SteerInv, seenVars, LoopRunning
<1>12. CASE UNCHANGED turnVars
  BY <1>12, SteerFrame DEF turnVars, loopVars, endVars, LoopRunning
<1> QED
  BY <1>1, <1>2, <1>3, <1>4, <1>5, <1>6, <1>7, <1>8, <1>9, <1>10, <1>11, <1>12
     DEF Next, Progress, Respond, NextRound

\* However many steering messages arrive and whenever they do, none is lost, repeated or
\* reordered, and no final answer is given out of sight of one that was taken up.
THEOREM SteersAreKept == Spec => []SteersKept
<1>1. SteerInv => SteersKept
  BY DEF SteerInv, SteersKept, SteerIds
<1> QED
  BY <1>1, EndInit, EndStep, RunInit, RunStep, SteerInit, SteerStep, PTL DEF Spec

----------------------------------------------------------------------------
(* Accounts.                                                               *)

\* The ids of the calls of the first m rounds.
IdsUpTo(m) == {IdOf(r, c) : r \in 1 .. m, c \in Calls}

\* Where the calls of a response are: announced when it has come, completed when they have
\* all ended, and in the messages when their results are added.
LedgerInv ==
  /\ stage \in LoopStages => AnswersOnce(delta)
  /\ stage \in {"hooks", "round"} => ToolIds(delta) \subseteq IdsUpTo(round)
  /\ LoopRunning => ToolIds(delta) \subseteq IdsUpTo(round - 1)
  /\ stage \in {"hooks", "round", "streaming"} => started = ToolIds(delta) /\ completed = CallsOf(delta)
  /\ stage \in {"starting", "tools", "recording"} => started = ToolIds(delta) \cup BatchIds
  /\ stage \in {"starting", "tools"} => completed = CallsOf(delta)
  /\ stage = "recording" => completed = CallsOf(delta) \cup Executed

\* Outside fast turns nothing is refused.
PairInv ==
  ~fast /\ stage \in LoopStages =>
    skipped = {} /\ WellPaired(delta) /\ ToolIds(delta) = CallsOf(delta)

\* The calls of the turn that were executed or are being executed.
Ran == completed \cup IF stage \in {"tools", "recording"} THEN Executed ELSE {}
SearchesIn(ids) == {rk \in (1 .. MaxRounds) \X Searches : IdOf(rk[1], rk[2]) \in ids}

\* A fast turn remembers its search.
SearchInv ==
  fast /\ stage \in LoopStages =>
    /\ \A x, y \in SearchesIn(Ran) : x = y
    /\ SearchesIn(Ran) # {} => searched

AccountInv == LedgerInv /\ PairInv /\ SearchInv

\* The ids of a round are none of the rounds before it.
LEMMA IdsByRound ==
  ASSUME RunInv
  PROVE  /\ \A m \in 0 .. MaxRounds : IdsUpTo(m) \subseteq IdsUpTo(m + 1)
         /\ round >= 1 => BatchIds \cap IdsUpTo(round - 1) = {} /\ BatchIds \subseteq IdsUpTo(round)
                          /\ IdsUpTo(round - 1) \subseteq IdsUpTo(round)
<1>1. round \in 0 .. MaxRounds /\ MaxRounds \in Nat
  BY RunnerAssumption DEF RunInv
<1>2. ASSUME NEW m \in 0 .. MaxRounds PROVE IdsUpTo(m) \subseteq IdsUpTo(m + 1)
  <2>1. 1 .. m \subseteq 1 .. m + 1
    BY <1>1
  <2> QED
    BY <2>1 DEF IdsUpTo
<1>3. ASSUME round >= 1 PROVE IdsUpTo(round - 1) \subseteq IdsUpTo(round)
  <2>1. 1 .. round - 1 \subseteq 1 .. round
    BY <1>1
  <2> QED
    BY <2>1 DEF IdsUpTo
<1>4. ASSUME round >= 1, NEW k \in DOMAIN batch PROVE Id(k) \in IdsUpTo(round) /\ Id(k) \notin IdsUpTo(round - 1)
  <2>1. batch[k] \in Calls /\ round \in 1 .. round /\ round \in 1 .. MaxRounds
    BY <1>1, <1>4, BatchIdsType
  <2>2. \A r \in 1 .. round - 1 : r \in 1 .. MaxRounds /\ r # round
    BY <1>1
  <2>3. Id(k) = IdOf(round, batch[k])
    BY DEF Id
  <2>4. Id(k) \in IdsUpTo(round)
    BY <2>1, <2>3 DEF IdsUpTo
  <2>5. ASSUME NEW r \in 1 .. round - 1, NEW c \in Calls PROVE IdOf(r, c) # Id(k)
    BY <2>1, <2>2, <2>3, IdsAssumption
  <2> QED
    BY <2>4, <2>5 DEF IdsUpTo
<1> QED
  BY <1>2, <1>3, <1>4 DEF BatchIds

\* The messages of a batch hold one result of each of its calls, and the calls that were
\* executed.
LEMMA BatchMessages ==
  ASSUME RunInv, NEW order \in ResultOrder
  PROVE  LET g == <<Assistant(Executed, 1)>> \o ResultsIn(order) IN
         /\ g \in Seq(Messages)
         /\ ToolIds(g) = BatchIds /\ CallsOf(g) = Executed /\ AnswersOnce(g)
         /\ skipped = {} => Group(g)
<1> DEFINE a == Assistant(Executed, 1)
           rs == ResultsIn(order)
           g == <<a>> \o rs
           B == Len(batch)
<1>1. B \in Nat /\ DOMAIN batch = 1 .. B
  BY DEF RunInv
<1>2. a \in Messages /\ a.role = "assistant" /\ a.calls = Executed
  BY BatchIdsType, MessageTypes DEF Executed, BatchIds, Assistant
<1>3. rs \in Seq(Messages) /\ Len(rs) = B
  BY ResultsType
<1>4. /\ \A k \in 1 .. B : order[k] \in 1 .. B
      /\ \A j, k \in 1 .. B : order[j] = order[k] => j = k
      /\ \A i \in 1 .. B : \E k \in 1 .. B : order[k] = i
  <2>1. order \in [1 .. B -> 1 .. B] /\ IsInjective(order)
        /\ \A t \in 1 .. B : \E s \in 1 .. B : order[s] = t
    BY <1>1 DEF ResultOrder, Bijection, Injection, Surjection
  <2> QED
    BY <2>1 DEF IsInjective
<1>5. \A k \in 1 .. B : rs[k].role = "tool" /\ rs[k].id = Id(order[k]) /\ rs[k].calls = {}
  <2>1. ASSUME NEW k \in 1 .. B PROVE rs[k] = Result(order[k])
    BY <1>1 DEF ResultsIn
  <2>2. \A i : Result(i).role = "tool" /\ Result(i).id = Id(i) /\ Result(i).calls = {}
    BY DEF Result, ToolResult
  <2> HIDE DEF rs
  <2> QED
    BY <2>1, <2>2
<1> HIDE DEF a, rs, B
<1>6. /\ g \in Seq(Messages) /\ Len(g) = B + 1 /\ DOMAIN g = 1 .. B + 1 /\ g[1] = a
      /\ \A k \in 1 .. B : g[k + 1] = rs[k] /\ k + 1 \in 2 .. B + 1 /\ k + 1 \in 1 .. B + 1
      /\ \A k \in 2 .. B + 1 : k - 1 \in 1 .. B /\ k = (k - 1) + 1
      /\ \A k \in 1 .. B + 1 : k = 1 \/ k \in 2 .. B + 1
  BY <1>1, <1>2, <1>3
<1> HIDE DEF g
<1>7. \A k \in 2 .. B + 1 : g[k].role = "tool" /\ g[k].id = Id(order[k - 1]) /\ g[k].calls = {}
  <2>1. ASSUME NEW k \in 2 .. B + 1 PROVE k - 1 \in 1 .. B /\ g[k] = rs[k - 1]
    BY <1>6
  <2> QED
    BY <1>5, <2>1
<1>8. ResultsAt(g) = 2 .. B + 1
  BY <1>2, <1>6, <1>7, <1>1 DEF ResultsAt
<1>9. {g[k].id : k \in 2 .. B + 1} = BatchIds
  <2>1. ASSUME NEW k \in 2 .. B + 1 PROVE g[k].id \in BatchIds
    <3>1. k - 1 \in 1 .. B /\ g[k].id = Id(order[k - 1])
      BY <1>6, <1>7
    <3> QED
      BY <1>1, <1>4, <3>1 DEF BatchIds
  <2>2. ASSUME NEW i \in 1 .. B PROVE \E k \in 2 .. B + 1 : g[k].id = Id(i)
    <3>1. PICK j \in 1 .. B : order[j] = i
      BY <1>4
    <3>2. j + 1 \in 2 .. B + 1 /\ (j + 1) - 1 = j
      BY <1>1, <3>1
    <3>3. g[j + 1].id = Id(i)
      BY <1>7, <3>1, <3>2
    <3> QED
      BY <3>2, <3>3
  <2> QED
    BY <1>1, <2>1, <2>2 DEF BatchIds
<1>10. \A j, k \in 2 .. B + 1 : g[j].id = g[k].id => j = k
  <2>1. ASSUME NEW j \in 2 .. B + 1, NEW k \in 2 .. B + 1, g[j].id = g[k].id PROVE j = k
    <3>1. j - 1 \in 1 .. B /\ k - 1 \in 1 .. B
      BY <1>6
    <3>2. Id(order[j - 1]) = Id(order[k - 1])
      BY <1>7, <2>1
    <3>3. order[j - 1] = order[k - 1]
      BY <1>1, <1>4, <3>1, <3>2, BatchIdsType
    <3>4. j - 1 = k - 1
      BY <1>4, <3>1, <3>3
    <3> QED
      BY <1>1, <3>4
  <2> QED
    BY <2>1
<1>11. ToolIds(g) = BatchIds /\ AnswersOnce(g)
  BY <1>8, <1>9, <1>10 DEF ToolIds, AnswersOnce
<1>12. CallsOf(g) = Executed
  <2>1. \A k \in 1 .. B + 1 : g[k].calls = Executed \/ g[k].calls = {}
    BY <1>2, <1>6, <1>7
  <2>2. 1 \in DOMAIN g /\ g[1].calls = Executed
    BY <1>1, <1>2, <1>6
  <2> QED
    BY <1>6, <2>1, <2>2 DEF CallsOf
<1>13. ASSUME skipped = {} PROVE Group(g)
  <2>1. Executed = BatchIds
    BY <1>13 DEF Executed, BatchIds
  <2>2. Len(g) >= 1
    BY <1>1, <1>6
  <2> QED
    BY <1>2, <1>6, <1>7, <1>9, <1>10, <2>1, <2>2 DEF Group
<1> QED
  BY <1>6, <1>11, <1>12, <1>13 DEF g, a, rs

\* A turn begins with empty accounts.
LEMMA AccountInit == Init => AccountInv
<1> SUFFICES ASSUME Init PROVE AccountInv
  OBVIOUS
<1>1. delta = <<>> /\ started = {} /\ completed = {} /\ skipped = {} /\ stage = "hooks"
  BY DEF Init
<1>2. ToolIds(delta) = {} /\ CallsOf(delta) = {} /\ AnswersOnce(delta)
  BY <1>1 DEF ToolIds, CallsOf, AnswersOnce, ResultsAt
<1>3. LedgerInv
  BY <1>1, <1>2 DEF LedgerInv, LoopRunning
<1>4. PairInv
  BY <1>1, <1>2, PairedEmpty DEF PairInv
<1>5. SearchesIn(Ran) = {}
  BY <1>1 DEF Ran, SearchesIn
<1> QED
  BY <1>3, <1>4, <1>5 DEF AccountInv, SearchInv

\* Steps that do not touch the accounts, or leave the loop.
LEMMA AccountFrame ==
  ASSUME AccountInv, RunInv,
         \/ stage' \notin LoopStages
         \/ /\ UNCHANGED <<fast, delta, round, batch, skipped, searched, started, completed>>
            /\ \/ stage' = stage
               \/ stage = "hooks" /\ stage' = "round"
               \/ stage = "streaming" /\ stage' = "round"
  PROVE  AccountInv'
<1>1. CASE stage' \notin LoopStages
  BY <1>1 DEF AccountInv, LedgerInv, PairInv, SearchInv, LoopStages, LoopRunning
<1>2. CASE /\ UNCHANGED <<fast, delta, round, batch, skipped, searched, started, completed>>
           /\ \/ stage' = stage
              \/ stage = "hooks" /\ stage' = "round"
              \/ stage = "streaming" /\ stage' = "round"
  <2>1. /\ ToolIds(delta)' = ToolIds(delta) /\ CallsOf(delta)' = CallsOf(delta)
        /\ AnswersOnce(delta)' = AnswersOnce(delta) /\ WellPaired(delta)' = WellPaired(delta)
        /\ BatchIds' = BatchIds /\ Executed' = Executed
        /\ IdsUpTo(round)' = IdsUpTo(round) /\ IdsUpTo(round - 1)' = IdsUpTo(round - 1)
    BY <1>2 DEF BatchIds, Executed, Id
  <2>2. LedgerInv'
    <3>1. stage = "streaming" => IdsUpTo(round - 1) \subseteq IdsUpTo(round)
      BY IdsByRound DEF RunInv
    <3> QED
      BY <1>2, <2>1, <3>1 DEF AccountInv, LedgerInv, LoopStages, LoopRunning
  <2>3. PairInv'
    BY <1>2, <2>1 DEF AccountInv, PairInv, LoopStages
  <2>4. Ran' = Ran /\ SearchesIn(Ran)' = SearchesIn(Ran)
    BY <1>2, <2>1 DEF Ran, SearchesIn
  <2>5. SearchInv'
    BY <1>2, <2>4 DEF AccountInv, SearchInv, LoopStages
  <2> QED
    BY <2>2, <2>3, <2>5 DEF AccountInv
<1> QED
  BY <1>1, <1>2

\* Steps that add plain messages and begin a round.
LEMMA AccountPlain ==
  ASSUME AccountInv, RunInv, stage = "streaming", stage' = "round",
         NEW g, Plain(g), delta' = delta \o g,
         UNCHANGED <<fast, round, batch, skipped, searched, started, completed>>
  PROVE  AccountInv'
<1>1. delta \in Seq(Messages) /\ g \in Seq(Messages)
  BY DEF RunInv, Plain
<1>2. ToolIds(g) = {} /\ CallsOf(g) = {} /\ AnswersOnce(g)
  BY PlainAccounts
<1>3. AnswersOnce(delta)
  BY DEF AccountInv, LedgerInv, LoopStages
<1>4. /\ ToolIds(delta') = ToolIds(delta) /\ CallsOf(delta') = CallsOf(delta) /\ AnswersOnce(delta')
  <2> DEFINE w == delta \o g
  <2>1. /\ ToolIds(w) = ToolIds(delta) \cup ToolIds(g) /\ CallsOf(w) = CallsOf(delta) \cup CallsOf(g)
        /\ AnswersOnce(delta) /\ AnswersOnce(g) /\ ToolIds(delta) \cap ToolIds(g) = {} => AnswersOnce(w)
    BY <1>1, AccountsAdd
  <2> HIDE DEF w
  <2>2. delta' = w
    BY DEF w
  <2> QED
    BY <1>2, <1>3, <2>1, <2>2
<1>5. WellPaired(delta) => WellPaired(delta')
  BY <1>1, PlainPaired
<1>6. LedgerInv'
  <2>1. IdsUpTo(round - 1) \subseteq IdsUpTo(round)
    BY IdsByRound DEF RunInv
  <2>2. IdsUpTo(round)' = IdsUpTo(round)
    OBVIOUS
  <2>3. ToolIds(delta)' = ToolIds(delta') /\ CallsOf(delta)' = CallsOf(delta') /\ AnswersOnce(delta)' = AnswersOnce(delta')
    OBVIOUS
  <2> QED
    BY <1>4, <2>1, <2>2, <2>3 DEF AccountInv, LedgerInv, LoopStages, LoopRunning
<1>7. PairInv'
  BY <1>4, <1>5 DEF AccountInv, PairInv, LoopStages
<1>8. SearchesIn(Ran)' = SearchesIn(Ran)
  BY DEF Ran, SearchesIn
<1>9. SearchInv'
  BY <1>8 DEF AccountInv, SearchInv, LoopStages
<1> QED
  BY <1>6, <1>7, <1>9 DEF AccountInv

\* A fast turn executes no search after its first.
LEMMA SearchStarts == AccountInv /\ RunInv /\ Execute => SearchInv'
<1> SUFFICES ASSUME AccountInv, RunInv, Execute, fast PROVE SearchInv'
  BY DEF SearchInv, Execute
<1> DEFINE kept == {k \in DOMAIN batch : ~Refused(k)}
<1>1. /\ skipped' = {Id(k) : k \in DOMAIN batch \ kept}
      /\ searched' = (searched \/ \E k \in kept : batch[k] \in Searches)
      /\ UNCHANGED <<fast, round, batch, completed>> /\ stage = "starting" /\ stage' = "tools"
  BY DEF Execute, loopVars
<1>2. Executed' = {Id(k) : k \in kept}
  <2>1. Executed' = {Id(k) : k \in DOMAIN batch} \ skipped'
    BY <1>1 DEF Executed, Id
  <2> QED
    BY <1>1, <2>1, BatchIdsType
<1>3. Ran = completed /\ Ran' = completed \cup {Id(k) : k \in kept}
  BY <1>1, <1>2 DEF Ran
<1>4. SearchesIn(Ran)' = SearchesIn(Ran')
  BY DEF SearchesIn
<1>5. ASSUME NEW x \in (1 .. MaxRounds) \X Searches, NEW k \in kept, IdOf(x[1], x[2]) = Id(k)
      PROVE  x = <<round, batch[k]>> /\ batch[k] \in Searches /\ ~searched
             /\ \A j \in 1 .. k - 1 : batch[j] \notin Searches
  <2>1. x[1] \in 1 .. MaxRounds /\ x[2] \in Searches /\ x = <<x[1], x[2]>> /\ x[2] \in Calls
    BY DEF Calls
  <2>2. round \in 1 .. MaxRounds /\ batch[k] \in Calls /\ Id(k) = IdOf(round, batch[k])
    BY BatchIdsType DEF Id
  <2>3. x[1] = round /\ x[2] = batch[k]
    BY <1>5, <2>1, <2>2, IdsAssumption
  <2>4. ~Refused(k)
    OBVIOUS
  <2> QED
    BY <2>1, <2>3, <2>4 DEF Refused
<1>6. /\ \A x, y \in SearchesIn(completed) : x = y
      /\ SearchesIn(completed) # {} => searched
  BY <1>1, <1>3 DEF AccountInv, SearchInv, LoopStages
<1>7. \A x \in SearchesIn(Ran') : x \in SearchesIn(completed) \/ \E k \in kept : IdOf(x[1], x[2]) = Id(k)
  BY <1>3 DEF SearchesIn
<1>8. ASSUME NEW x \in SearchesIn(Ran'), NEW y \in SearchesIn(Ran') PROVE x = y
  <2>1. x \in (1 .. MaxRounds) \X Searches /\ y \in (1 .. MaxRounds) \X Searches
    BY DEF SearchesIn
  <2>2. CASE x \in SearchesIn(completed) /\ y \in SearchesIn(completed)
    BY <1>6, <2>2
  <2>3. ASSUME NEW j \in kept, NEW k \in kept, IdOf(x[1], x[2]) = Id(j), IdOf(y[1], y[2]) = Id(k)
        PROVE  x = y
    <3>1. /\ x = <<round, batch[j]>> /\ batch[j] \in Searches /\ \A i \in 1 .. j - 1 : batch[i] \notin Searches
          /\ y = <<round, batch[k]>> /\ batch[k] \in Searches /\ \A i \in 1 .. k - 1 : batch[i] \notin Searches
      BY <1>5, <2>1, <2>3
    <3>2. j \in Nat /\ k \in Nat /\ j >= 1 /\ k >= 1
      BY DEF RunInv
    <3>3. ~ (j < k) /\ ~ (k < j)
      BY <3>1, <3>2
    <3> QED
      BY <3>1, <3>2, <3>3
  <2> HIDE DEF kept
  <2> QED
    BY <1>5, <1>6, <1>7, <2>1, <2>2, <2>3
<1>9. SearchesIn(Ran') # {} => searched'
  <2>1. ASSUME NEW x \in SearchesIn(Ran') PROVE searched'
    <3>1. x \in (1 .. MaxRounds) \X Searches
      BY DEF SearchesIn
    <3>2. CASE x \in SearchesIn(completed)
      BY <1>1, <1>6, <3>2
    <3>3. ASSUME NEW k \in kept, IdOf(x[1], x[2]) = Id(k) PROVE searched'
      BY <1>1, <1>5, <3>1, <3>3
    <3> QED
      BY <1>7, <3>2, <3>3
  <2> QED
    BY <2>1
<1> HIDE DEF kept
<1> QED
  BY <1>4, <1>8, <1>9 DEF SearchInv

\* The results of a response settle its calls.
LEMMA AccountResults == AccountInv /\ RunInv /\ AddResults => AccountInv'
<1> SUFFICES ASSUME AccountInv, RunInv, AddResults PROVE AccountInv'
  OBVIOUS
<1>1. PICK order \in ResultOrder : delta' = delta \o (<<Assistant(Executed, 1)>> \o ResultsIn(order))
  BY DEF AddResults, ResultsIn
<1>2. /\ stage = "recording" /\ stage' = "round" /\ skipped' = {}
      /\ UNCHANGED <<fast, round, searched, started, completed>>
  BY DEF AddResults
<1> DEFINE g == <<Assistant(Executed, 1)>> \o ResultsIn(order)
           w == delta \o g
<1>3. /\ g \in Seq(Messages) /\ ToolIds(g) = BatchIds /\ CallsOf(g) = Executed /\ AnswersOnce(g)
      /\ skipped = {} => Group(g)
  BY BatchMessages
<1> HIDE DEF g
<1>4. delta \in Seq(Messages) /\ round >= 1 /\ round \in Nat
  BY <1>2, RunnerAssumption DEF RunInv
<1>5. /\ AnswersOnce(delta) /\ ToolIds(delta) \subseteq IdsUpTo(round - 1)
      /\ started = ToolIds(delta) \cup BatchIds /\ completed = CallsOf(delta) \cup Executed
  BY <1>2 DEF AccountInv, LedgerInv, LoopStages, LoopRunning
<1>6. /\ BatchIds \cap IdsUpTo(round - 1) = {} /\ BatchIds \subseteq IdsUpTo(round)
      /\ IdsUpTo(round - 1) \subseteq IdsUpTo(round)
  BY <1>4, IdsByRound
<1>7. ToolIds(w) = ToolIds(delta) \cup BatchIds /\ CallsOf(w) = CallsOf(delta) \cup Executed
  BY <1>3, <1>4, AccountsAdd
<1>8. AnswersOnce(w)
  <2>1. ToolIds(delta) \cap ToolIds(g) = {}
    BY <1>3, <1>5, <1>6
  <2> QED
    BY <1>3, <1>4, <1>5, <2>1, AccountsAdd
<1>9. skipped = {} /\ WellPaired(delta) => WellPaired(w)
  BY <1>3, <1>4, PairedExtended
<1>10. skipped = {} => Executed = BatchIds
  BY DEF Executed, BatchIds
<1> HIDE DEF w
<1>11. delta' = w
  BY <1>1 DEF w, g
<1>12. /\ ToolIds(delta)' = ToolIds(w) /\ CallsOf(delta)' = CallsOf(w)
       /\ AnswersOnce(delta)' = AnswersOnce(w) /\ WellPaired(delta)' = WellPaired(w)
       /\ IdsUpTo(round)' = IdsUpTo(round)
  BY <1>2, <1>11
<1>13. LedgerInv'
  BY <1>2, <1>5, <1>6, <1>7, <1>8, <1>12 DEF LedgerInv, LoopStages, LoopRunning
<1>14. PairInv'
  <2>1. ~fast => skipped = {} /\ WellPaired(delta) /\ ToolIds(delta) = CallsOf(delta)
    BY <1>2 DEF AccountInv, PairInv, LoopStages
  <2> QED
    BY <1>2, <1>7, <1>9, <1>10, <1>12, <2>1 DEF PairInv
<1>15. SearchInv'
  <2>1. Ran' = Ran
    BY <1>2, <1>5 DEF Ran
  <2>2. SearchesIn(Ran)' = SearchesIn(Ran)
    BY <2>1 DEF SearchesIn
  <2> QED
    BY <1>2, <2>2 DEF AccountInv, SearchInv, LoopStages
<1> QED
  BY <1>13, <1>14, <1>15 DEF AccountInv

\* Every step of a turn keeps ledger, messages and calls in agreement.
LEMMA AccountStep == RunInv /\ AccountInv /\ [Next]_turnVars => AccountInv'
<1> SUFFICES ASSUME RunInv, AccountInv, [Next]_turnVars PROVE AccountInv'
  OBVIOUS
<1>1. CASE HooksDone \/ StreamDelta
  BY <1>1, AccountFrame DEF HooksDone, StreamDelta, loopVars, toolVars
<1>2. CASE DeleteSnapshot \/ TurnEndHook \/ Deregister \/ Flush \/ Answer
           \/ \E now \in 0 .. 2 : Exhaust(now)
  BY <1>2, AccountFrame DEF DeleteSnapshot, TurnEndHook, Deregister, Flush, Answer, Exhaust, Returns, LoopStages
<1>3. ASSUME NEW how \in {"error", "cancelled"}, Interrupt(how) PROVE AccountInv'
  BY <1>3, AccountFrame DEF Interrupt, LoopStages
<1>4. CASE Steered
  <2> DEFINE us == UsersOf(queue)
             g == <<Assistant({}, 1)>> \o us
  <2>1. us \in Seq(Messages) /\ Len(us) = Len(queue) /\ DOMAIN us = 1 .. Len(queue)
        /\ Assistant({}, 1) \in Messages /\ delta \in Seq(Messages)
    BY UsersType, MessageTypes DEF RunInv
  <2>2. \A k \in DOMAIN us : us[k].role # "tool" /\ us[k].calls = {}
    BY DEF UsersOf, User
  <2> HIDE DEF us
  <2>3. Plain(g)
    <3>1. Assistant({}, 1).role # "tool" /\ Assistant({}, 1).calls = {}
      BY DEF Assistant
    <3> QED
      BY <2>1, <2>2, <3>1 DEF Plain
  <2>4. delta' = delta \o g
    <3>1. delta' = delta \o <<Assistant({}, 1)>> \o us
      BY <1>4 DEF Steered, us
    <3> QED
      BY <2>1, <3>1, ConcatThird
  <2>5. /\ stage = "streaming" /\ stage' = "round"
        /\ UNCHANGED <<fast, round, batch, skipped, searched, started, completed>>
    BY <1>4 DEF Steered, toolVars
  <2> HIDE DEF g
  <2> QED
    BY <2>3, <2>4, <2>5, AccountPlain
<1>5. CASE Nudge
  BY <1>5, AccountFrame DEF Nudge, Returns, LoopStages, toolVars
<1>6. CASE Feedback
  <2> DEFINE g == <<Assistant({}, 1)>>
  <2>1. Plain(g)
    BY MessageTypes DEF Plain, Assistant
  <2>2. delta' = delta \o g
    <3>1. delta' = Append(delta, Assistant({}, 1)) /\ delta \in Seq(Messages) /\ Assistant({}, 1) \in Messages
      BY <1>6, MessageTypes DEF Feedback, RunInv
    <3> QED
      BY <3>1
  <2>3. /\ stage = "streaming" /\ stage' = "round"
        /\ UNCHANGED <<fast, round, batch, skipped, searched, started, completed>>
    BY <1>6 DEF Feedback, toolVars
  <2> HIDE DEF g
  <2> QED
    BY <2>1, <2>2, <2>3, AccountPlain
<1>7. ASSUME NEW calls \in Batches, CallTools(calls) PROVE AccountInv'
  <2>1. /\ BatchIds' = {IdOf(round, calls[k]) : k \in DOMAIN calls}
        /\ started' = started \cup {IdOf(round, calls[k]) : k \in DOMAIN calls}
        /\ stage = "streaming" /\ stage' = "starting"
        /\ UNCHANGED <<fast, delta, round, skipped, searched, completed>>
    BY <1>7 DEF CallTools, BatchIds, Id, loopVars
  <2>2. LedgerInv'
    <3>1. /\ ToolIds(delta)' = ToolIds(delta) /\ CallsOf(delta)' = CallsOf(delta)
          /\ AnswersOnce(delta)' = AnswersOnce(delta) /\ IdsUpTo(round - 1)' = IdsUpTo(round - 1)
      BY <2>1
    <3> QED
      BY <2>1, <3>1 DEF AccountInv, LedgerInv, LoopStages, LoopRunning
  <2>3. PairInv'
    BY <2>1 DEF AccountInv, PairInv, LoopStages
  <2>4. SearchesIn(Ran)' = SearchesIn(Ran)
    BY <2>1 DEF Ran, SearchesIn
  <2>5. SearchInv'
    BY <2>1, <2>4 DEF AccountInv, SearchInv, LoopStages
  <2> QED
    BY <2>2, <2>3, <2>5 DEF AccountInv
<1>8. ASSUME NEW now \in 0 .. 2, CallModel(now) PROVE AccountInv'
  <2>1. /\ stage = "round" /\ stage' = "streaming" /\ round' - 1 = round
        /\ UNCHANGED <<fast, delta, batch, skipped, searched, started, completed>>
    BY <1>8 DEF CallModel, toolVars, RunInv
  <2>2. LedgerInv'
    <3>1. /\ ToolIds(delta)' = ToolIds(delta) /\ CallsOf(delta)' = CallsOf(delta)
          /\ AnswersOnce(delta)' = AnswersOnce(delta) /\ IdsUpTo(round - 1)' = IdsUpTo(round)
      BY <2>1
    <3> QED
      BY <2>1, <3>1 DEF AccountInv, LedgerInv, LoopStages, LoopRunning
  <2>3. PairInv'
    BY <2>1 DEF AccountInv, PairInv, LoopStages
  <2>4. SearchesIn(Ran)' = SearchesIn(Ran)
    BY <2>1 DEF Ran, SearchesIn
  <2>5. SearchInv'
    BY <2>1, <2>4 DEF AccountInv, SearchInv, LoopStages
  <2> QED
    BY <2>2, <2>3, <2>5 DEF AccountInv
<1>9. CASE Execute
  <2>1. /\ stage = "starting" /\ stage' = "tools"
        /\ UNCHANGED <<fast, delta, round, batch, started, completed>>
        /\ skipped' = {Id(k) : k \in {j \in DOMAIN batch : Refused(j)}}
    BY <1>9 DEF Execute, loopVars
  <2>2. BatchIds' = BatchIds
    BY <2>1 DEF BatchIds, Id
  <2>3. LedgerInv'
    <3>1. /\ ToolIds(delta)' = ToolIds(delta) /\ CallsOf(delta)' = CallsOf(delta)
          /\ AnswersOnce(delta)' = AnswersOnce(delta) /\ IdsUpTo(round - 1)' = IdsUpTo(round - 1)
      BY <2>1
    <3> QED
      BY <2>1, <2>2, <3>1 DEF AccountInv, LedgerInv, LoopStages, LoopRunning
  <2>4. PairInv'
    <3>1. ~fast => skipped' = {}
      BY <2>1 DEF Refused
    <3> QED
      BY <2>1, <3>1 DEF AccountInv, PairInv, LoopStages
  <2> QED
    BY <1>9, <2>3, <2>4, SearchStarts DEF AccountInv
<1>10. ASSUME NEW c \in CallIds, NEW n \in ResultSizes, ToolEnds(c, n) PROVE AccountInv'
  BY <1>10, AccountFrame DEF ToolEnds, loopVars
<1>11. CASE Gather
  <2>1. /\ stage = "tools" /\ stage' = "recording" /\ completed' = completed \cup Executed
        /\ UNCHANGED <<fast, delta, round, batch, skipped, searched, started>>
    BY <1>11 DEF Gather, loopVars
  <2>2. BatchIds' = BatchIds /\ Executed' = Executed
    BY <2>1 DEF BatchIds, Executed, Id
  <2>3. LedgerInv'
    <3>1. /\ ToolIds(delta)' = ToolIds(delta) /\ CallsOf(delta)' = CallsOf(delta)
          /\ AnswersOnce(delta)' = AnswersOnce(delta) /\ IdsUpTo(round - 1)' = IdsUpTo(round - 1)
      BY <2>1
    <3> QED
      BY <2>1, <2>2, <3>1 DEF AccountInv, LedgerInv, LoopStages, LoopRunning
  <2>4. PairInv'
    BY <2>1 DEF AccountInv, PairInv, LoopStages
  <2>5. Ran' = Ran
    BY <2>1, <2>2 DEF Ran
  <2>6. SearchesIn(Ran)' = SearchesIn(Ran)
    BY <2>5 DEF SearchesIn
  <2>7. SearchInv'
    BY <2>1, <2>6 DEF AccountInv, SearchInv, LoopStages
  <2> QED
    BY <2>3, <2>4, <2>7 DEF AccountInv
<1>12. CASE AddResults
  BY <1>12, AccountResults
<1>13. ASSUME NEW s \in Steers, Steer(s) PROVE AccountInv'
  BY <1>13, AccountFrame DEF Steer, loopVars, toolVars
<1>14. CASE UNCHANGED turnVars
  BY <1>14, AccountFrame DEF turnVars, loopVars, toolVars
<1> QED
  BY <1>1, <1>2, <1>3, <1>4, <1>5, <1>6, <1>7, <1>8, <1>9, <1>10, <1>11, <1>12, <1>13, <1>14
     DEF Next, Progress, Respond, NextRound

\* However many calls the responses make and in whatever order these end, every call that was
\* announced was completed or refused, and has one result; outside fast turns what will be
\* persisted is paired; and a fast turn executes at most one search.
THEOREM RoundsAreAccounted == Spec => []RoundsAccounted
<1>1. RunInv /\ AccountInv => RoundsAccounted
  <2> SUFFICES ASSUME RunInv, AccountInv, stage \in {"round", "streaming"} PROVE RoundsAccounted
    BY DEF RoundsAccounted
  <2>1. ToolIds(delta) = started /\ AnswersOnce(delta) /\ CallsOf(delta) = completed /\ running = {}
    BY DEF AccountInv, LedgerInv, LoopStages, RunInv
  <2>2. fast => \A first, second \in SearchesDone : first = second
    <3>1. SearchesDone = SearchesIn(Ran)
      BY <2>1 DEF SearchesDone, SearchesIn, Ran
    <3> QED
      BY <3>1 DEF AccountInv, SearchInv, LoopStages
  <2>3. ~fast => started = completed /\ WellPaired(delta)
    BY <2>1 DEF AccountInv, PairInv, LoopStages
  <2> QED
    BY <2>1, <2>2, <2>3 DEF RoundsAccounted, ToolIds, CallsOf, AnswersOnce
<1> QED
  BY <1>1, AccountInit, AccountStep, RunInit, RunStep, PTL DEF Spec
=============================================================================
