-------------------------- MODULE SessionRegistry --------------------------
(***************************************************************************)
(* Which sessions exist and which clients may use them                     *)
(* (miqi/runtime/app_server.py: ClientSessionRegistry), with the TTL loop  *)
(* of AppServer and sessions.delete.  create_session holds a lock over the *)
(* start of the runtime; stop_session takes none and awaits the stop of    *)
(* the runtime between the two halves of its clean-up.                     *)
(*                                                                         *)
(* A session id names the client that creates it.  A runtime is a number;  *)
(* time is whether a session has been idle beyond the timeout.             *)
(***************************************************************************)
EXTENDS Naturals, FiniteSets

CONSTANTS Sessions, Clients,
          Owner,       \* session |-> the client whose id it carries
          MaxRuntimes  \* bound: runtimes created in one behaviour

ASSUME RegistryAssumption ==
  /\ Owner \in [Sessions -> Clients]
  /\ MaxRuntimes \in Nat

VARIABLES
  sessions,    \* _sessions: the runtime of a session, 0 if none
  clientsOf,   \* _session_clients
  sessionsOf,  \* _client_sessions
  activity,    \* _last_activity: "absent", "recent" or "idle"
  creating,    \* the create_session calls that await runtime.start
  runtime,     \* state of a runtime
  stops,       \* the stop_session calls that await runtime.stop
  idleList,    \* what evict_idle_sessions has yet to visit of its copy
  ttl,         \* the TTL loop "sleeps", "runs" or "awaits" a stop_session
  awaited,     \* it has awaited one in this round
  overlapped   \* sessions created again while their predecessor was stopping

mapVars == <<sessions, clientsOf, sessionsOf, activity>>
ttlVars == <<idleList, ttl, awaited>>
registryVars == <<mapVars, creating, runtime, stops, ttlVars, overlapped>>

Runtimes == 1 .. MaxRuntimes

RegistryInit ==
  /\ sessions = [s \in Sessions |-> 0]
  /\ clientsOf = [s \in Sessions |-> {}]
  /\ sessionsOf = [c \in Clients |-> {}]
  /\ activity = [s \in Sessions |-> "absent"]
  /\ creating = {} /\ stops = {}
  /\ runtime = [r \in Runtimes |-> "none"]
  /\ idleList = {} /\ ttl = "sleeps" /\ awaited = FALSE
  /\ overlapped = {}

Touch(s) == activity' = [activity EXCEPT ![s] = "recent"]

Link(c, s, clients) ==
  /\ clientsOf' = [clientsOf EXCEPT ![s] = clients \cup {c}]
  /\ sessionsOf' = [sessionsOf EXCEPT ![c] = @ \cup {s}]

----------------------------------------------------------------------------
(* create_session.                                                         *)

\* Mutant: without the lock.
LockIgnored == TRUE

\* _lock.
LockFree == creating = {}

\* The session exists: its client is authorized (again).
CreateFinds(s) ==
  /\ LockFree /\ sessions[s] # 0
  /\ Link(Owner[s], s, clientsOf[s])
  /\ Touch(s)
  /\ UNCHANGED <<sessions, creating, runtime, stops, ttlVars, overlapped>>

CreateBegins(s, r) ==
  /\ LockFree /\ sessions[s] = 0
  /\ runtime[r] = "none"
  /\ creating' = creating \cup {[session |-> s, runtime |-> r]}
  /\ runtime' = [runtime EXCEPT ![r] = "starting"]
  /\ UNCHANGED <<mapVars, stops, ttlVars, overlapped>>

CreateEnds(x) ==
  /\ x \in creating
  /\ creating' = creating \ {x}
  /\ runtime' = [runtime EXCEPT ![x.runtime] = "up"]
  /\ sessions' = [sessions EXCEPT ![x.session] = x.runtime]
  /\ Link(Owner[x.session], x.session, {})
  /\ Touch(x.session)
  /\ overlapped' = IF \E y \in stops : y.session = x.session
                   THEN overlapped \cup {x.session} ELSE overlapped \ {x.session}
  /\ UNCHANGED <<stops, ttlVars>>

\* runtime.start raises.
CreateFails(x) ==
  /\ x \in creating
  /\ creating' = creating \ {x}
  /\ runtime' = [runtime EXCEPT ![x.runtime] = "failed"]
  /\ UNCHANGED <<mapVars, stops, ttlVars, overlapped>>

----------------------------------------------------------------------------
(* get_session and authorize_client.                                       *)

\* A request of an authorized client, whether the session is still there or not.
UseSession(c, s) ==
  /\ c \in clientsOf[s]
  /\ Touch(s)
  /\ UNCHANGED <<sessions, clientsOf, sessionsOf, creating, runtime, stops, ttlVars,
                 overlapped>>

AuthorizeClient(c, s, d) ==
  /\ c \in clientsOf[s]
  /\ Link(d, s, clientsOf[s])
  /\ UNCHANGED <<sessions, activity, creating, runtime, stops, ttlVars, overlapped>>

----------------------------------------------------------------------------
(* stop_session.                                                           *)

StopBegins(s, by) ==
  /\ sessions[s] # 0
  /\ stops' = stops \cup {[session |-> s, runtime |-> sessions[s], by |-> by]}
  /\ runtime' = [runtime EXCEPT ![sessions[s]] = "stopping"]
  /\ sessions' = [sessions EXCEPT ![s] = 0]

\* Mutant: the clients keep the session in their lists.
ForgetsHalf(s) ==
  /\ clientsOf' = [clientsOf EXCEPT ![s] = {}]
  /\ activity' = [activity EXCEPT ![s] = "absent"]
  /\ UNCHANGED sessionsOf

\* The second half of the clean-up, whatever was created in between.
Forgets(s) ==
  /\ sessionsOf' = [c \in Clients |-> sessionsOf[c] \ {s}]
  /\ clientsOf' = [clientsOf EXCEPT ![s] = {}]
  /\ activity' = [activity EXCEPT ![s] = "absent"]

\* sessions.delete of an authorized client.
DeleteSession(c, s) ==
  /\ c \in clientsOf[s]
  /\ StopBegins(s, "client")
  /\ Touch(s)
  /\ UNCHANGED <<clientsOf, sessionsOf, creating, ttlVars, overlapped>>

\* The TTL loop goes on at once when its stop has ended.
StopEnds(x) ==
  /\ x \in stops
  /\ stops' = stops \ {x}
  /\ runtime' = [runtime EXCEPT ![x.runtime] = "down"]
  /\ Forgets(x.session)
  /\ ttl' = IF x.by = "ttl" THEN "runs" ELSE ttl
  /\ UNCHANGED <<sessions, creating, idleList, awaited, overlapped>>

----------------------------------------------------------------------------
(* _run_ttl_loop and evict_idle_sessions.                                  *)

Elapse(s) ==
  /\ activity[s] = "recent"
  /\ activity' = [activity EXCEPT ![s] = "idle"]
  /\ UNCHANGED <<sessions, clientsOf, sessionsOf, creating, runtime, stops, ttlVars,
                 overlapped>>

\* Mutant: whatever has an entry is taken for idle.
ScanAll ==
  /\ ttl = "sleeps"
  /\ idleList' = {s \in Sessions : activity[s] # "absent"}
  /\ idleList' # {}
  /\ ttl' = "runs" /\ awaited' = FALSE
  /\ UNCHANGED <<mapVars, creating, runtime, stops, overlapped>>

\* The time and the entries are copied once.  A round that finds nothing is a
\* stutter.
Scan ==
  /\ ttl = "sleeps"
  /\ idleList' = {s \in Sessions : activity[s] = "idle"}
  /\ idleList' # {}
  /\ ttl' = "runs" /\ awaited' = FALSE
  /\ UNCHANGED <<mapVars, creating, runtime, stops, overlapped>>

Evict(s) ==
  /\ ttl = "runs" /\ s \in idleList
  /\ idleList' = idleList \ {s}
  /\ IF sessions[s] # 0
     THEN StopBegins(s, "ttl") /\ ttl' = "awaits" /\ awaited' = TRUE
     ELSE UNCHANGED <<sessions, runtime, stops, ttl, awaited>>
  /\ UNCHANGED <<clientsOf, sessionsOf, activity, creating, overlapped>>

RoundEnds ==
  /\ ttl = "runs" /\ idleList = {}
  /\ ttl' = "sleeps"
  /\ UNCHANGED <<mapVars, creating, runtime, stops, idleList, awaited, overlapped>>

CreateStep == \E x \in creating : CreateEnds(x) \/ CreateFails(x)
StopStep == \E x \in stops : StopEnds(x)
TtlStep == Scan \/ (\E s \in Sessions : Evict(s)) \/ RoundEnds

\* While the TTL loop runs it does not suspend, and nothing else runs.
RegistryNext ==
  \/ TtlStep
  \/ /\ ttl # "runs"
     /\ \/ \E s \in Sessions : CreateFinds(s) \/ Elapse(s)
        \/ \E s \in Sessions, r \in Runtimes : CreateBegins(s, r)
        \/ \E c \in Clients, s \in Sessions : UseSession(c, s) \/ DeleteSession(c, s)
        \/ \E c, d \in Clients, s \in Sessions : AuthorizeClient(c, s, d)
        \/ CreateStep \/ StopStep

RegistrySpec == RegistryInit /\ [][RegistryNext]_registryVars

----------------------------------------------------------------------------
(* Properties.                                                             *)

\* Type invariant.
RegistryTypeOK ==
  /\ sessions \in [Sessions -> Runtimes \cup {0}]
  /\ clientsOf \in [Sessions -> SUBSET Clients]
  /\ sessionsOf \in [Clients -> SUBSET Sessions]
  /\ activity \in [Sessions -> {"absent", "recent", "idle"}]
  /\ runtime \in [Runtimes -> {"none", "starting", "up", "failed", "stopping", "down"}]
  /\ creating \subseteq [session : Sessions, runtime : Runtimes]
  /\ stops \subseteq [session : Sessions, runtime : Runtimes, by : {"client", "ttl"}]
  /\ idleList \subseteq Sessions
  /\ ttl \in {"sleeps", "runs", "awaits"} /\ awaited \in BOOLEAN
  /\ overlapped \subseteq Sessions

\* No runtime is lost: one that is up is the runtime of exactly one session, so
\* that it can be used and stopped, however creations and stops overlap.
EveryRuntimeReachable ==
  \A r \in Runtimes :
    runtime[r] = "up" <=> \E s \in Sessions : sessions[s] = r /\ \A t \in Sessions \ {s} : sessions[t] # r

\* Unless it was created while its predecessor was being stopped, a registered
\* session can be used by its owner and is seen by the TTL loop, and the clients
\* that may use a session are those that are told so (list_sessions).
MappingsAgree ==
  \A s \in Sessions \ overlapped :
    /\ sessions[s] # 0 => Owner[s] \in clientsOf[s] /\ activity[s] # "absent"
    /\ \A c \in Clients : s \in sessionsOf[c] <=> c \in clientsOf[s]

\* The TTL loop stops a session in use only if it has awaited the stop of
\* another one since it looked.
EvictsIdle ==
  [][\A s \in Sessions : ttl = "runs" /\ sessions'[s] # sessions[s]
       => activity[s] # "recent" \/ awaited]_registryVars
=============================================================================
