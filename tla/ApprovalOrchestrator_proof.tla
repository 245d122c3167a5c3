------------------- MODULE ApprovalOrchestrator_proof -------------------
(***************************************************************************)
(* Proofs about the approvals, for any number of calls, approval ids that  *)
(* calls may share, and aborts, and with appends to the ledger that fail.  *)
(***************************************************************************)
EXTENDS ApprovalOrchestrator, TLAPS, SequenceTheorems

Decisions == Answers \cup {"timeout", "abort"}

\* The stages in which an approval of a call may be registered.
Asked == {"waiting", "recording", "expiring"}

\* What a call, its future and what was announced of it have to do with each other.
CallsFit ==
  \A c \in Calls :
    /\ pc[c] \in {"idle", "asking"} => future[c] = "none"
    /\ pc[c] \in Asked => future[c] # "none"
    /\ future[c] = "open" => pc[c] = "waiting"
    /\ pc[c] = "recording" => noted[c] \in Answers /\ future[c] \in Answers \cup {"abort"}
    /\ verdict[c] # "none" => pc[c] = "done"
    /\ verdict[c] = "allow" => future[c] \in Allowing \/ Key[c] \in allowlist
    /\ \/ future[c] \in Answers \cup {"abort"}
       \/ pc[c] = "expiring"
       \/ future[c] # "none" /\ verdict[c] \in {"allow", "deny"}
       => resolved[ApprovalId[c]] # <<>>

\* Whatever is registered or listed belongs to a call that will clean it up.
EntriesOwned ==
  \A i \in ApprovalIds :
    /\ pending[i] # NoCall => ApprovalId[pending[i]] = i
    /\ pending[i] # NoCall \/ meta[i] # "absent" \/ i \in index
         => \E c \in Calls : ApprovalId[c] = i /\ pc[c] \in Asked
    /\ i \in todo => \E c \in Calls : ApprovalId[c] = i /\ future[c] # "none"

\* While the future of a call that has its approval id alone is open, the approval
\* is registered and nothing was announced of it.
OpenUnresolved ==
  \A c \in Calls :
    Unshared(ApprovalId[c]) =>
      /\ future[c] \in {"none", "open"} => resolved[ApprovalId[c]] = <<>>
      /\ future[c] = "open" => pending[ApprovalId[c]] = c

ApprovalInv == TypeOK /\ CallsFit /\ EntriesOwned /\ OpenUnresolved /\ AnswerComesFirst

\* What an event adds to the decisions announced.
LEMMA Announced ==
  ASSUME resolved \in [ApprovalIds -> Seq(Decisions)],
         NEW i \in ApprovalIds, NEW d \in Decisions, Announce(i, d)
  PROVE  /\ resolved' \in [ApprovalIds -> Seq(Decisions)]
         /\ resolved'[i] # <<>>
         /\ \A j \in ApprovalIds : resolved[j] # <<>> => resolved'[j] # <<>>
         /\ \A j \in ApprovalIds \ {i} : resolved'[j] = resolved[j]
         /\ d \notin Answers \/ resolved[i] = <<>> =>
              \A k \in 2 .. Len(resolved'[i]) :
                resolved'[i][k] \in Answers =>
                  k \in 2 .. Len(resolved[i]) /\ resolved[i][k] \in Answers
<1>. DEFINE r == resolved[i]
<1>1. r \in Seq(Decisions) /\ Append(r, d) \in Seq(Decisions)
  BY AppendProperties
<1>2. resolved' = [resolved EXCEPT ![i] = Append(r, d)]
  BY DEF Announce
<1>3. /\ Append(r, d) # <<>> /\ Len(Append(r, d)) = Len(r) + 1 /\ Len(r) \in Nat
      /\ \A k \in 1 .. Len(r) : Append(r, d)[k] = r[k]
      /\ Append(r, d)[Len(r) + 1] = d
      /\ r = <<>> => Len(r) = 0
  BY <1>1, AppendProperties, LenProperties, EmptySeq
<1>. HIDE DEF r
<1>4. resolved'[i] = Append(r, d)
  BY <1>2
<1>5. ASSUME d \notin Answers \/ r = <<>>, NEW k \in 2 .. Len(Append(r, d)), Append(r, d)[k] \in Answers
      PROVE  k \in 2 .. Len(r) /\ r[k] \in Answers
  BY <1>3, <1>5
<1>6. /\ resolved' \in [ApprovalIds -> Seq(Decisions)]
      /\ \A j \in ApprovalIds \ {i} : resolved'[j] = resolved[j]
  BY <1>1, <1>2
<1>. QED BY <1>3, <1>4, <1>5, <1>6 DEF r

\* What is recorded are decisions.
LEMMA Recording ==
  ASSUME items \in [ApprovalIds -> Seq(Decisions)],
         NEW i \in ApprovalIds, NEW d \in Decisions, Record(i, d)
  PROVE  items' \in [ApprovalIds -> Seq(Decisions)]
<1>1. Append(items[i], d) \in Seq(Decisions)
  BY AppendProperties
<1>. QED BY <1>1 DEF Record

\* A call that removes the entries leaves none of its own, and those of calls
\* with other ids as they were.
LEMMA EntriesCleaned ==
  ASSUME TypeOK, EntriesOwned, NEW c \in Calls, Cleanup(ApprovalId[c]), todo' \subseteq todo,
         \A e \in Calls : future[e] # "none" => future'[e] # "none",
         \A e \in Calls \ {c} : pc[e] \in Asked => pc'[e] \in Asked
  PROVE  /\ EntriesOwned'
         /\ pending' \in [ApprovalIds -> Calls \cup {NoCall}]
         /\ meta' \in [ApprovalIds -> Answers \cup {"absent", "undecided"}]
         /\ index' \subseteq ApprovalIds
<1>. DEFINE i == ApprovalId[c]
<1>1. /\ pending' = [pending EXCEPT ![i] = NoCall] /\ meta' = [meta EXCEPT ![i] = "absent"]
      /\ index' = index \ {i} /\ i \in ApprovalIds
  BY CallsAssumption DEF Cleanup
<1>2. ASSUME NEW j \in ApprovalIds
      PROVE  /\ pending'[j] # NoCall => ApprovalId[pending'[j]] = j
             /\ pending'[j] # NoCall \/ meta'[j] # "absent" \/ j \in index'
                  => \E e \in Calls : ApprovalId[e] = j /\ pc'[e] \in Asked
    <2>1. CASE j = i
      BY <1>1, <2>1 DEF TypeOK
    <2>2. CASE j # i
      BY <1>1, <2>2 DEF TypeOK, EntriesOwned
    <2>. QED BY <2>1, <2>2
<1>3. \A j \in todo' : \E e \in Calls : ApprovalId[e] = j /\ future'[e] # "none"
  BY DEF EntriesOwned, TypeOK
<1>4. EntriesOwned'
  BY <1>2, <1>3 DEF EntriesOwned
<1>. QED BY <1>1, <1>4 DEF TypeOK

\* Entries that stay belong to whom they belonged.
LEMMA EntriesKept ==
  ASSUME EntriesOwned, UNCHANGED <<pending, meta>>, index' \subseteq index, todo' \subseteq todo \cup index,
         CallsFit, todo \subseteq ApprovalIds, index \subseteq ApprovalIds,
         \A e \in Calls : future[e] # "none" => future'[e] # "none",
         \A e \in Calls : pc[e] \in Asked => pc'[e] \in Asked
  PROVE  EntriesOwned'
BY DEF EntriesOwned, CallsFit

\* The strengthened invariant holds at the start.
LEMMA ApprovalsInitially == Init => ApprovalInv
<1>. SUFFICES ASSUME Init PROVE ApprovalInv
  OBVIOUS
<1>1. <<>> \in Seq(Decisions) /\ Len(<<>>) = 0
  BY EmptySeq
<1>2. TypeOK
  BY <1>1, AbortsAssumption DEF Init, TypeOK, Decisions
<1>3. AnswerComesFirst
  BY <1>1 DEF Init, AnswerComesFirst
<1>. QED
  BY <1>2, <1>3, CallsAssumption
  DEF Init, ApprovalInv, CallsFit, EntriesOwned, OpenUnresolved, Asked, Answers

\* Every operation keeps it.
LEMMA ApprovalStep == ApprovalInv /\ [Next]_approvalVars => ApprovalInv'
<1>. SUFFICES ASSUME TypeOK, CallsFit, EntriesOwned, OpenUnresolved, AnswerComesFirst, [Next]_approvalVars
              PROVE  ApprovalInv'
  BY DEF ApprovalInv
<1>. USE DEF ApprovalInv
<1>0. /\ ApprovalId \in [Calls -> ApprovalIds] /\ Key \in [Calls -> Keys] /\ NoCall \notin Calls
      /\ Answers = {"deny", "once", "session"} /\ Allowing = {"once", "session"}
      /\ Asked = {"waiting", "recording", "expiring"}
  BY CallsAssumption DEF Answers, Allowing, Asked
<1>00. resolved \in [ApprovalIds -> Seq(Decisions)] /\ items \in [ApprovalIds -> Seq(Decisions)]
  BY DEF TypeOK, Decisions
<1>1. ASSUME NEW c \in Calls, Begin(c) PROVE ApprovalInv'
  <2>1. TypeOK'
    BY <1>0, <1>1 DEF Begin, Ends, mapVars, abortVars, recordVars, TypeOK
  <2>2. CallsFit'
    BY <1>0, <1>1 DEF Begin, Ends, mapVars, abortVars, recordVars, TypeOK, CallsFit
  <2>3. EntriesOwned'
    BY <1>0, <1>1, EntriesKept DEF Begin, Ends, mapVars, abortVars, recordVars, TypeOK
  <2>4. OpenUnresolved'
    BY <1>0, <1>1 DEF Begin, Ends, mapVars, abortVars, recordVars, TypeOK, OpenUnresolved, Unshared
  <2>5. AnswerComesFirst'
    BY <1>1 DEF Begin, Ends, mapVars, abortVars, recordVars, AnswerComesFirst, Unshared
  <2>. QED BY <2>1, <2>2, <2>3, <2>4, <2>5
<1>2. ASSUME NEW c \in Calls, Register(c) PROVE ApprovalInv'
  <2>1. TypeOK'
    BY <1>0, <1>2 DEF Register, abortVars, recordVars, TypeOK
  <2>2. CallsFit'
    BY <1>0, <1>2 DEF Register, abortVars, recordVars, TypeOK, CallsFit
  <2>3. EntriesOwned'
    BY <1>0, <1>2 DEF Register, abortVars, TypeOK, CallsFit, EntriesOwned
  <2>4. OpenUnresolved'
    BY <1>0, <1>2 DEF Register, abortVars, recordVars, TypeOK, CallsFit, OpenUnresolved, Unshared
  <2>5. AnswerComesFirst'
    BY <1>2 DEF Register, abortVars, recordVars, AnswerComesFirst, Unshared
  <2>. QED BY <2>1, <2>2, <2>3, <2>4, <2>5
<1>3. ASSUME NEW c \in Calls, Wake(c) PROVE ApprovalInv'
  <2>1. TypeOK'
    BY <1>0, <1>3 DEF Wake, mapVars, abortVars, recordVars, TypeOK
  <2>2. CallsFit'
    BY <1>0, <1>3 DEF Wake, mapVars, abortVars, recordVars, TypeOK, CallsFit
  <2>3. EntriesOwned'
    BY <1>0, <1>3, EntriesKept DEF Wake, mapVars, abortVars, recordVars, TypeOK
  <2>4. OpenUnresolved'
    BY <1>0, <1>3 DEF Wake, mapVars, abortVars, recordVars, TypeOK, OpenUnresolved, Unshared
  <2>5. AnswerComesFirst'
    BY <1>3 DEF Wake, mapVars, abortVars, recordVars, AnswerComesFirst, Unshared
  <2>. QED BY <2>1, <2>2, <2>3, <2>4, <2>5
<1>4. ASSUME NEW c \in Calls, Recorded(c) PROVE ApprovalInv'
  <2>3. EntriesOwned' /\ pending' \in [ApprovalIds -> Calls \cup {NoCall}]
        /\ meta' \in [ApprovalIds -> Answers \cup {"absent", "undecided"}] /\ index' \subseteq ApprovalIds
    BY <1>0, <1>4, EntriesCleaned DEF Recorded, Ends, abortVars, TypeOK
  <2>b. items' \in [ApprovalIds -> Seq(Decisions)]
    BY <1>0, <1>00, <1>4, Recording DEF Recorded, TypeOK, CallsFit, Decisions
  <2>1. TypeOK'
    BY <1>0, <1>4, <2>3, <2>b DEF Recorded, Ends, VerdictOf, abortVars, recordVars, TypeOK, Decisions
  <2>2. CallsFit'
    BY <1>0, <1>4 DEF Recorded, Ends, VerdictOf, recordVars, TypeOK, CallsFit
  <2>4. OpenUnresolved'
    BY <1>0, <1>4 DEF Recorded, Ends, Cleanup, recordVars, mapVars, TypeOK, CallsFit, OpenUnresolved, Unshared
  <2>5. AnswerComesFirst'
    BY <1>4 DEF Recorded, recordVars, AnswerComesFirst, Unshared
  <2>. QED BY <2>1, <2>2, <2>3, <2>4, <2>5
<1>5. ASSUME NEW c \in Calls, Expire(c) PROVE ApprovalInv'
  <2>0. \A d \in Decisions : d = "timeout" => Announce(ApprovalId[c], d) /\ ApprovalId[c] \in ApprovalIds
    BY <1>0, <1>5 DEF Expire
  <2>a. "timeout" \in Decisions /\ "timeout" \notin Answers
    BY DEF Decisions, Answers
  <2>b. resolved' \in [ApprovalIds -> Seq(Decisions)]
    BY <1>00, <2>0, <2>a, Announced
  <2>1. TypeOK'
    BY <1>0, <1>5, <2>b DEF Expire, mapVars, abortVars, TypeOK, Decisions
  <2>2. CallsFit'
    <3>1. /\ resolved'[ApprovalId[c]] # <<>>
          /\ \A j \in ApprovalIds : resolved[j] # <<>> => resolved'[j] # <<>>
      BY <1>00, <2>0, <2>a, Announced
    <3>. QED BY <1>0, <1>5, <3>1 DEF Expire, TypeOK, CallsFit
  <2>3. EntriesOwned'
    BY <1>0, <1>5, EntriesKept DEF Expire, mapVars, abortVars, TypeOK
  <2>4. OpenUnresolved'
    <3>1. \A j \in ApprovalIds \ {ApprovalId[c]} : resolved'[j] = resolved[j]
      BY <1>00, <2>0, <2>a, Announced
    <3>. QED BY <1>0, <1>5, <3>1 DEF Expire, mapVars, TypeOK, OpenUnresolved, Unshared
  <2>5. AnswerComesFirst'
    <3>1. /\ \A j \in ApprovalIds \ {ApprovalId[c]} : resolved'[j] = resolved[j]
          /\ \A k \in 2 .. Len(resolved'[ApprovalId[c]]) :
               resolved'[ApprovalId[c]][k] \in Answers =>
                 k \in 2 .. Len(resolved[ApprovalId[c]]) /\ resolved[ApprovalId[c]][k] \in Answers
      BY <1>00, <2>0, <2>a, Announced
    <3>. QED BY <1>0, <3>1 DEF AnswerComesFirst, Unshared
  <2>. QED BY <2>1, <2>2, <2>3, <2>4, <2>5
<1>6. ASSUME NEW c \in Calls, Expired(c) PROVE ApprovalInv'
  <2>3. EntriesOwned' /\ pending' \in [ApprovalIds -> Calls \cup {NoCall}]
        /\ meta' \in [ApprovalIds -> Answers \cup {"absent", "undecided"}] /\ index' \subseteq ApprovalIds
    BY <1>0, <1>6, EntriesCleaned DEF Expired, Ends, abortVars, TypeOK
  <2>b. items' \in [ApprovalIds -> Seq(Decisions)]
    BY <1>0, <1>00, <1>6, Recording DEF Expired, TypeOK, CallsFit, Decisions
  <2>1. TypeOK'
    BY <1>0, <1>6, <2>3, <2>b DEF Expired, Ends, abortVars, recordVars, TypeOK, Decisions
  <2>2. CallsFit'
    BY <1>0, <1>6 DEF Expired, Ends, VerdictOf, recordVars, TypeOK, CallsFit
  <2>4. OpenUnresolved'
    BY <1>0, <1>6 DEF Expired, Ends, Cleanup, recordVars, mapVars, TypeOK, CallsFit, OpenUnresolved, Unshared
  <2>5. AnswerComesFirst'
    BY <1>6 DEF Expired, recordVars, AnswerComesFirst, Unshared
  <2>. QED BY <2>1, <2>2, <2>3, <2>4, <2>5
<1>7. ASSUME NEW c \in Calls, AppendFails(c) PROVE ApprovalInv'
  <2>0. UNCHANGED <<future, noted, allowlist, abort, todo, aborts, resolved, items>>
        /\ pc' = [pc EXCEPT ![c] = "done"] /\ verdict' = [verdict EXCEPT ![c] = "error"]
        /\ cancelling' = cancelling \ {c}
    BY <1>7 DEF AppendFails, Ends, abortVars, recordVars
  <2>3. EntriesOwned' /\ pending' \in [ApprovalIds -> Calls \cup {NoCall}]
        /\ meta' \in [ApprovalIds -> Answers \cup {"absent", "undecided"}] /\ index' \subseteq ApprovalIds
    <3>1. CASE Cleanup(ApprovalId[c])
      BY <1>0, <2>0, <3>1, EntriesCleaned DEF TypeOK
    <3>2. CASE pc[c] = "asking" /\ UNCHANGED mapVars
      BY <1>0, <2>0, <3>2, EntriesKept DEF TypeOK, mapVars
    <3>. QED BY <1>7, <3>1, <3>2 DEF AppendFails
  <2>1. TypeOK'
    BY <1>0, <2>0, <2>3 DEF TypeOK
  <2>2. CallsFit'
    BY <1>0, <1>7, <2>0 DEF AppendFails, TypeOK, CallsFit
  <2>4. OpenUnresolved'
    BY <1>0, <1>7, <2>0 DEF AppendFails, Cleanup, mapVars, TypeOK, CallsFit, OpenUnresolved, Unshared
  <2>5. AnswerComesFirst'
    BY <2>0 DEF AnswerComesFirst, Unshared
  <2>. QED BY <2>1, <2>2, <2>3, <2>4, <2>5
<1>8. ASSUME NEW c \in Calls, Cancelled(c) PROVE ApprovalInv'
  <2>0. /\ UNCHANGED <<noted, allowlist, abort, todo, aborts, resolved, items>>
        /\ pc' = [pc EXCEPT ![c] = "done"] /\ verdict' = [verdict EXCEPT ![c] = "cancelled"]
        /\ cancelling' = cancelling \ {c}
        /\ \/ future' = future
           \/ (future' = [future EXCEPT ![c] = "cancelled"] /\ future[c] = "open")
    BY <1>8 DEF Cancelled, Ends, abortVars, recordVars, TypeOK
  <2>3. EntriesOwned' /\ pending' \in [ApprovalIds -> Calls \cup {NoCall}]
        /\ meta' \in [ApprovalIds -> Answers \cup {"absent", "undecided"}] /\ index' \subseteq ApprovalIds
    <3>1. CASE Cleanup(ApprovalId[c])
      BY <1>0, <2>0, <3>1, EntriesCleaned DEF TypeOK
    <3>2. CASE pc[c] = "asking" /\ UNCHANGED mapVars
      BY <1>0, <2>0, <3>2, EntriesKept DEF TypeOK, mapVars
    <3>. QED BY <1>8, <3>1, <3>2 DEF Cancelled
  <2>1. TypeOK'
    BY <1>0, <2>0, <2>3 DEF TypeOK
  <2>2. CallsFit'
    BY <1>0, <1>8, <2>0 DEF Cancelled, TypeOK, CallsFit
  <2>4. OpenUnresolved'
    BY <1>0, <1>8, <2>0 DEF Cancelled, Cleanup, mapVars, TypeOK, CallsFit, OpenUnresolved, Unshared
  <2>5. AnswerComesFirst'
    BY <2>0 DEF AnswerComesFirst, Unshared
  <2>. QED BY <2>1, <2>2, <2>3, <2>4, <2>5
<1>9. ASSUME NEW i \in ApprovalIds, NEW d \in Answers, Answer(i, d) PROVE ApprovalInv'
  <2>. DEFINE c == pending[i]
  <2>0. /\ UNCHANGED <<pc, verdict, noted, pending, index, cancelling, abort, todo, aborts, items>>
        /\ future' = [future EXCEPT ![c] = d] /\ meta' = [meta EXCEPT ![i] = d]
        /\ allowlist \subseteq allowlist' /\ allowlist' \subseteq Keys
        /\ Announce(i, d) /\ d \in Decisions
        /\ c \in Calls /\ future[c] = "open" /\ ApprovalId[c] = i
    BY <1>0, <1>9 DEF Answer, abortVars, TypeOK, EntriesOwned, Decisions
  <2>a. /\ resolved' \in [ApprovalIds -> Seq(Decisions)] /\ resolved'[i] # <<>>
        /\ \A j \in ApprovalIds : resolved[j] # <<>> => resolved'[j] # <<>>
        /\ \A j \in ApprovalIds \ {i} : resolved'[j] = resolved[j]
    BY <1>00, <2>0, Announced
  <2>. HIDE DEF c
  <2>1. TypeOK'
    BY <1>0, <2>0, <2>a DEF TypeOK, Decisions
  <2>2. CallsFit'
    BY <1>0, <2>0, <2>a DEF TypeOK, CallsFit
  <2>3. EntriesOwned'
    BY <1>0, <2>0 DEF TypeOK, EntriesOwned, c
  <2>4. OpenUnresolved'
    BY <1>0, <2>0, <2>a DEF TypeOK, OpenUnresolved, Unshared
  <2>5. AnswerComesFirst'
    <3>1. ASSUME Unshared(i)
          PROVE  \A k \in 2 .. Len(resolved'[i]) : resolved'[i][k] \notin Answers
      <4>1. resolved[i] = <<>>
        BY <2>0, <3>1 DEF OpenUnresolved
      <4>. QED BY <1>00, <2>0, <3>1, <4>1, Announced DEF AnswerComesFirst
    <3>. QED BY <2>a, <3>1 DEF AnswerComesFirst, Unshared
  <2>. QED BY <2>1, <2>2, <2>3, <2>4, <2>5
<1>10. ASSUME NEW own \in BOOLEAN, NEW atOnce \in BOOLEAN, Abort(own, atOnce) PROVE ApprovalInv'
  <2>0. /\ UNCHANGED <<pc, verdict, noted, pending, meta, index, allowlist, resolved, items>>
        /\ future' \in [Calls -> Answers \cup {"none", "open", "abort", "cancelled"}]
        /\ \A c \in Calls :
             future'[c] = future[c] \/ (future[c] = "open" /\ future'[c] = "cancelled")
        /\ cancelling' \subseteq Calls /\ aborts' \in 0 .. MaxAborts
        /\ abort' \in {"reaping", "reapingOther", "visiting", "awaiting"}
        /\ todo' \subseteq todo \cup index
    BY <1>10, AbortsAssumption DEF Abort, Snapshot, mapVars, recordVars, TypeOK
  <2>1. TypeOK'
    BY <2>0 DEF TypeOK
  <2>2. CallsFit'
    BY <1>0, <2>0 DEF TypeOK, CallsFit
  <2>3. EntriesOwned'
    BY <1>0, <2>0, EntriesKept DEF TypeOK
  <2>4. OpenUnresolved'
    BY <2>0 DEF OpenUnresolved, Unshared
  <2>5. AnswerComesFirst'
    BY <2>0 DEF AnswerComesFirst, Unshared
  <2>. QED BY <2>1, <2>2, <2>3, <2>4, <2>5
<1>11. ASSUME NEW i \in ApprovalIds, Visit(i) PROVE ApprovalInv'
  <2>0. /\ UNCHANGED <<pc, verdict, noted, index, allowlist, cancelling, abort, aborts>>
        /\ future' \in [Calls -> Answers \cup {"none", "open", "abort", "cancelled"}]
        /\ \A c \in Calls :
             \/ future'[c] = future[c]
             \/ c = pending[i] /\ future[c] = "open" /\ future'[c] = "abort"
        /\ pending[i] \in Calls => future'[pending[i]] # "open"
        /\ pending' = [pending EXCEPT ![i] = NoCall] /\ meta' = [meta EXCEPT ![i] = "absent"]
        /\ todo' = todo \ {i} /\ i \in todo
    BY <1>11 DEF Visit, TypeOK
  <2>a. Announce(i, "abort") /\ Record(i, "abort") /\ "abort" \in Decisions /\ "abort" \notin Answers
    BY <1>11 DEF Visit, Decisions, Answers
  <2>b. /\ resolved' \in [ApprovalIds -> Seq(Decisions)] /\ resolved'[i] # <<>>
        /\ \A j \in ApprovalIds : resolved[j] # <<>> => resolved'[j] # <<>>
        /\ \A j \in ApprovalIds \ {i} : resolved'[j] = resolved[j]
    BY <1>00, <2>a, Announced
  <2>c. items' \in [ApprovalIds -> Seq(Decisions)]
    BY <1>00, <2>a, Recording
  <2>1. TypeOK'
    BY <2>0, <2>b, <2>c DEF TypeOK, Decisions
  <2>2. CallsFit'
    BY <1>0, <2>0, <2>b DEF TypeOK, CallsFit, EntriesOwned
  <2>3. EntriesOwned'
    BY <1>0, <2>0 DEF TypeOK, EntriesOwned
  <2>4. OpenUnresolved'
    <3>. SUFFICES ASSUME NEW c \in Calls, Unshared(ApprovalId[c])
                  PROVE  /\ future'[c] \in {"none", "open"} => resolved'[ApprovalId[c]] = <<>>
                         /\ future'[c] = "open" => pending'[ApprovalId[c]] = c
      BY DEF OpenUnresolved, Unshared
    <3>1. CASE ApprovalId[c] = i
      <4>1. future[c] # "none"
        BY <2>0, <3>1 DEF EntriesOwned, Unshared
      <4>2. future'[c] # "open"
        BY <2>0, <3>1 DEF OpenUnresolved
      <4>. QED BY <2>0, <4>1, <4>2
    <3>2. CASE ApprovalId[c] # i
      BY <1>0, <2>0, <2>b, <3>2 DEF TypeOK, OpenUnresolved, EntriesOwned
    <3>. QED BY <3>1, <3>2
  <2>5. AnswerComesFirst'
    <3>1. \A k \in 2 .. Len(resolved'[i]) :
            resolved'[i][k] \in Answers => k \in 2 .. Len(resolved[i]) /\ resolved[i][k] \in Answers
      BY <1>00, <2>a, Announced
    <3>. QED BY <2>b, <3>1 DEF AnswerComesFirst, Unshared
  <2>. QED BY <2>1, <2>2, <2>3, <2>4, <2>5
<1>12. CASE Reaped \/ Visited \/ AbortDone \/ UNCHANGED approvalVars
  <2>0. /\ UNCHANGED <<pc, future, verdict, noted, pending, meta, allowlist, cancelling, aborts,
                      resolved, items>>
        /\ abort' \in {"no", "reaping", "reapingOther", "visiting", "awaiting"}
        /\ index' \subseteq index /\ todo' \subseteq todo \cup index
    BY <1>12 DEF Reaped, Visited, AbortDone, Snapshot, approvalVars, callVars, mapVars, abortVars,
                 recordVars, TypeOK
  <2>1. TypeOK'
    BY <2>0 DEF TypeOK
  <2>2. CallsFit'
    BY <2>0 DEF CallsFit
  <2>3. EntriesOwned'
    BY <2>0, EntriesKept DEF TypeOK
  <2>4. OpenUnresolved'
    BY <2>0 DEF OpenUnresolved, Unshared
  <2>5. AnswerComesFirst'
    BY <2>0 DEF AnswerComesFirst, Unshared
  <2>. QED BY <2>1, <2>2, <2>3, <2>4, <2>5
<1>. QED
  BY <1>1, <1>2, <1>3, <1>4, <1>5, <1>6, <1>7, <1>8, <1>9, <1>10, <1>11, <1>12
  DEF Next, CallStep, AbortStep

\* And so it always holds.
LEMMA ApprovalsKept == Spec => []ApprovalInv
BY ApprovalsInitially, ApprovalStep, PTL DEF Spec

\* Nothing stays registered or listed as pending once no call waits, whichever of the
\* call, its timeout, a call with the same id and the abort took the entries out.
THEOREM NoOrphans == Spec => []NoOrphanApprovals
<1>1. ApprovalInv => NoOrphanApprovals
  <2>. SUFFICES ASSUME ApprovalInv, \A c \in Calls : ~Live(c)
                PROVE  (\A i \in ApprovalIds : pending[i] = NoCall /\ meta[i] = "absent") /\ index = {}
    BY DEF NoOrphanApprovals
  <2>1. \A c \in Calls : pc[c] \notin Asked
    BY DEF Live, Asked
  <2>. QED BY <2>1 DEF ApprovalInv, EntriesOwned, TypeOK
<1>. QED BY <1>1, ApprovalsKept, PTL

\* No timeout, abort, cancellation or failure of the ledger makes a tool run that the
\* user did not allow.
THEOREM ToolsRunIfAllowed == Spec => []RunsOnlyIfAllowed
<1>1. ApprovalInv => RunsOnlyIfAllowed
  BY DEF ApprovalInv, CallsFit, RunsOnlyIfAllowed
<1>. QED BY <1>1, ApprovalsKept, PTL

\* A call that ended with a verdict was announced as resolved, and the ledger holds
\* decisions only.
THEOREM VerdictsAreAnnounced == Spec => []VerdictIsAnnounced
<1>1. ApprovalInv => VerdictIsAnnounced
  <2>. SUFFICES ASSUME ApprovalInv PROVE VerdictIsAnnounced
    OBVIOUS
  <2>1. ASSUME NEW i \in ApprovalIds, NEW k \in DOMAIN items[i]
        PROVE  items[i][k] \in Answers \cup {"timeout", "abort"}
    <3>1. items[i] \in Seq(Answers \cup {"timeout", "abort"})
      BY DEF ApprovalInv, TypeOK
    <3>. QED BY <3>1, ElementOfSeq, LenProperties
  <2>. QED BY <2>1 DEF ApprovalInv, CallsFit, VerdictIsAnnounced
<1>. QED BY <1>1, ApprovalsKept, PTL

\* After a timeout, an abort or another answer an answer is refused.
THEOREM AnswersComeFirst == Spec => []AnswerComesFirst
<1>1. ApprovalInv => AnswerComesFirst
  BY DEF ApprovalInv
<1>. QED BY <1>1, ApprovalsKept, PTL
============================================================================
