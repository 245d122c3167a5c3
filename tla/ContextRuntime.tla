--------------------------- MODULE ContextRuntime ---------------------------
(***************************************************************************)
(* The message list of a turn (miqi/runtime/context_runtime.py): what is   *)
(* appended to it, and what trim_for_model makes of it before every call   *)
(* of the provider.  A message keeps its role, the ids of the tool calls   *)
(* it makes, the id it answers (of a tool result) or carries (of a         *)
(* steering message), and its estimated tokens.                            *)
(***************************************************************************)
EXTENDS Naturals, Sequences, FiniteSets, SequencesExt

CONSTANTS CallIds,    \* ids of tool calls
          Steers,     \* ids of steering messages
          NoId,
          TokenLimit  \* hard_limit: 80% of what the model takes

ASSUME ContextAssumption ==
  /\ TokenLimit \in Nat
  /\ NoId \notin CallIds \cup Steers

Messages == [role : {"system", "user", "assistant", "tool"},
             calls : SUBSET CallIds, id : CallIds \cup Steers \cup {NoId}, size : Nat]

System(n) == [role |-> "system", calls |-> {}, id |-> NoId, size |-> n]
User(s, n) == [role |-> "user", calls |-> {}, id |-> s, size |-> n]
Assistant(cs, n) == [role |-> "assistant", calls |-> cs, id |-> NoId, size |-> n]
ToolResult(c, n) == [role |-> "tool", calls |-> {}, id |-> c, size |-> n]

\* estimate_tokens.
Tokens(ms) == FoldLeft(LAMBDA n, m : n + m.size, 0, ms)

----------------------------------------------------------------------------
(* _prune_unpaired_tool_messages: one pass that holds back the group of an *)
(* assistant with calls until the tool results after it have been read.    *)

Release(p) == IF p.seen = p.calls THEN p.fixed \o p.group ELSE p.fixed

PruneStep(p, m) ==
  IF m.role = "tool"
  THEN IF m.id \in p.calls \ p.seen
       THEN [p EXCEPT !.group = Append(@, m), !.seen = @ \cup {m.id}]
       ELSE p
  ELSE IF m.calls # {}
       THEN [fixed |-> Release(p), group |-> <<m>>, calls |-> m.calls, seen |-> {}]
       ELSE [fixed |-> Append(Release(p), m), group |-> <<>>, calls |-> {}, seen |-> {}]

\* The pass after each of the messages.
Passes(ms) ==
  LET pass[k \in 0 .. Len(ms)] ==
        IF k = 0 THEN [fixed |-> <<>>, group |-> <<>>, calls |-> {}, seen |-> {}]
        ELSE PruneStep(pass[k - 1], ms[k])
  IN  pass

Prune(ms) == Release(Passes(ms)[Len(ms)])

----------------------------------------------------------------------------
(* trim_for_model.                                                         *)

\* The system prompt and one message after it are never removed.
HeadProtect(w) == IF w # <<>> /\ w[1].role = "system" THEN 2 ELSE 1

\* Where a group may start: past the head, and not with the last message.
Starts(w, role) == {i \in HeadProtect(w) + 1 .. Len(w) - 1 : w[i].role = role}

\* The group that starts at i runs to the next message with one of the roles.
Cut(w, i, stops) ==
  LET ends == {k \in i + 1 .. Len(w) : w[k].role \in stops} IN
  SubSeq(w, 1, i - 1)
    \o IF ends = {} THEN <<>> ELSE SubSeq(w, Min(ends), Len(w))

\* The oldest turn goes first, then the oldest assistant with its results.
CutOldest(w) ==
  IF Starts(w, "user") # {}
  THEN Cut(w, Min(Starts(w, "user")), {"user"})
  ELSE Cut(w, Min(Starts(w, "assistant")), {"user", "assistant"})

CanCut(w) == Len(w) > HeadProtect(w) + 1 /\ Starts(w, "user") \cup Starts(w, "assistant") # {}

\* The messages after each cut, of which there are less than messages.
Fits(w) == Tokens(w) <= TokenLimit \/ ~CanCut(w)

Cuts(ms) ==
  LET cut[k \in 0 .. Len(ms)] ==
        IF k = 0 THEN ms
        ELSE LET w == cut[k - 1] IN IF Fits(w) THEN w ELSE CutOldest(w)
  IN  cut

Trim(ms) == Prune(Cuts(ms)[Len(ms)])

----------------------------------------------------------------------------
(* What a provider accepts, and what pruning should keep.                  *)

\* The results that directly follow message h.
ResultsAfter(ms, h) ==
  {k \in h + 1 .. Len(ms) : \A j \in h + 1 .. k : ms[j].role = "tool"}

\* Results k of h that answer a call of h for the first time.
Answering(ms, h) ==
  {k \in ResultsAfter(ms, h) :
     /\ ms[k].id \in ms[h].calls
     /\ \A j \in h + 1 .. k - 1 : ms[j].id # ms[k].id}

Answered(ms, h) == {ms[k].id : k \in Answering(ms, h)} = ms[h].calls

\* Every result answers, once, a call of the assistant it follows, and every
\* call is answered.
WellPaired(ms) ==
  /\ \A h \in DOMAIN ms : ms[h].role # "tool" => Answered(ms, h)
  /\ \A k \in DOMAIN ms : ms[k].role = "tool" =>
       \E h \in DOMAIN ms : ms[h].role # "tool" /\ k \in Answering(ms, h)

\* The messages that are kept, said without a scan.
KeptBy(ms) ==
  LET heads == {h \in DOMAIN ms : ms[h].role # "tool" /\ Answered(ms, h)} IN
  heads \cup UNION {Answering(ms, h) : h \in heads}

Picked(ms, places) ==
  LET picked[k \in 0 .. Len(ms)] ==
        IF k = 0 THEN <<>>
        ELSE IF k \in places THEN Append(picked[k - 1], ms[k]) ELSE picked[k - 1]
  IN  picked

PruneReference(ms) == LET kept == KeptBy(ms) IN Picked(ms, kept)[Len(ms)]
=============================================================================
