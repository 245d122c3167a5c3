----------------------------- MODULE AgentJobs -----------------------------
(***************************************************************************)
(* Sub-agents of a session: AgentControl (miqi/runtime/agent_control.py)   *)
(* registers an agent for every job of AgentJobRuntime (agent_jobs.py),    *)
(* whose task runs it on the session's own TurnRunner and then tells the   *)
(* frontend how it ended.  A job outlives the process as a row of the      *)
(* agent graph store.  The provider a config save replaces is parked while *)
(* the runner is busy (services.py: apply_config_update).                  *)
(***************************************************************************)
EXTENDS Naturals, FiniteSets

CONSTANTS Jobs,
          Cap,         \* max_concurrent
          MaxSaves,    \* bound: config saves
          MaxCrashes   \* bound: restarts of the process

ASSUME JobsAssumption ==
  IsFiniteSet(Jobs) /\ Cap \in Nat /\ MaxSaves \in Nat /\ MaxCrashes \in Nat

VARIABLES
  status,     \* AgentJob.status
  row,        \* status in the agent graph store
  task,       \* the task that runs AgentJobRuntime._run
  cancelling, \* jobs whose task has a cancellation requested
  spawning,   \* jobs whose spawn() is suspended in emit or in the hook
  registered, \* AgentControl._agents
  agent,      \* AgentStateMachine.current of the LiveAgent
  emitted,    \* LiveAgent.completion_emitted
  told,       \* how often the frontend was told of the end of a job
  unheard,    \* jobs with an end nobody is told of
  busy,       \* TurnRunner._running
  provider,   \* TurnRunner._provider
  parked,     \* TurnRunner._pending_provider; 0 is None
  saved,      \* providers made by config saves so far
  mainTurn,   \* a turn of the user runs
  shared,     \* a job ran beside it
  crashes     \* bound

jobVars == <<status, row, task, cancelling>>
agentVars == <<spawning, registered, agent, emitted>>
tellVars == <<told, unheard>>
runnerVars == <<busy, provider, parked, saved, mainTurn, shared>>
jobsVars == <<jobVars, agentVars, tellVars, runnerVars, crashes>>

JobsInit ==
  /\ status = [j \in Jobs |-> "none"] /\ row = [j \in Jobs |-> "none"]
  /\ task = [j \in Jobs |-> "none"]
  /\ cancelling = {} /\ spawning = {} /\ registered = {}
  /\ agent = [j \in Jobs |-> "none"]
  /\ emitted = {}
  /\ told = [j \in Jobs |-> 0] /\ unheard = {}
  /\ busy = FALSE /\ provider = 0 /\ parked = 0 /\ saved = 0
  /\ mainTurn = FALSE /\ shared = FALSE
  /\ crashes = 0

JobTerminal == {"completed", "error", "aborted"}

\* AgentStateMachine.transition, for the states the job path uses.
AgentCanMove(from, to) ==
  \/ from = "idle" /\ to \in {"thinking", "aborted"}
  \/ from = "thinking" /\ to \in JobTerminal

SetStatus(j, s) ==
  status' = [status EXCEPT ![j] = s] /\ row' = [row EXCEPT ![j] = s]

----------------------------------------------------------------------------
(* AgentControl.spawn.                                                     *)

\* Mutant: an agent that has not been seen thinking is not counted.
CountedThinking == {j \in registered : agent[j] = "thinking"}

\* The agents that count against max_concurrent.
Counted == {j \in registered : agent[j] \notin JobTerminal}

\* The check, AgentJobRuntime.start and the registration, without suspending.
SpawnAgent(j) ==
  /\ status[j] = "none"
  /\ Cardinality(Counted) < Cap
  /\ SetStatus(j, "queued")
  /\ task' = [task EXCEPT ![j] = "ready"]
  /\ registered' = registered \cup {j}
  /\ agent' = [agent EXCEPT ![j] = "idle"]
  /\ spawning' = spawning \cup {j}
  /\ UNCHANGED <<cancelling, emitted, tellVars, runnerVars, crashes>>

\* The event is emitted and the hook has run: the agent is thinking, unless it
\* was killed meanwhile, when the transition raises.
AgentSpawned(j) ==
  /\ j \in spawning
  /\ spawning' = spawning \ {j}
  /\ agent' = IF AgentCanMove(agent[j], "thinking")
              THEN [agent EXCEPT ![j] = "thinking"] ELSE agent
  /\ UNCHANGED <<jobVars, registered, emitted, tellVars, runnerVars, crashes>>

\* The turn that spawns is aborted, or the hook fails.
SpawnInterrupted(j) ==
  /\ j \in spawning
  /\ spawning' = spawning \ {j}
  /\ UNCHANGED <<jobVars, registered, agent, emitted, tellVars, runnerVars, crashes>>

----------------------------------------------------------------------------
(* TurnRunner: what turns of the user and jobs share.                      *)

\* Mutant: the runner of a turn that has begun does not look busy.
RunnerBeginsIdle ==
  /\ busy' = FALSE
  /\ provider' = IF parked # 0 THEN parked ELSE provider
  /\ parked' = 0

\* _adopt_pending_provider and _running.
RunnerBegins ==
  /\ busy' = TRUE
  /\ provider' = IF parked # 0 THEN parked ELSE provider
  /\ parked' = 0

MainBegins ==
  /\ ~mainTurn
  /\ RunnerBegins
  /\ mainTurn' = TRUE
  /\ shared' = (\E j \in Jobs : task[j] = "running")
  /\ UNCHANGED <<jobVars, agentVars, tellVars, saved, crashes>>

MainEnds ==
  /\ mainTurn
  /\ mainTurn' = FALSE /\ busy' = FALSE
  /\ UNCHANGED <<jobVars, agentVars, tellVars, provider, parked, saved, shared, crashes>>

\* apply_config_update.
ConfigSave ==
  /\ saved < MaxSaves
  /\ saved' = saved + 1
  /\ IF busy THEN parked' = saved + 1 /\ UNCHANGED provider
             ELSE provider' = saved + 1 /\ UNCHANGED parked
  /\ UNCHANGED <<jobVars, agentVars, tellVars, busy, mainTurn, shared, crashes>>

----------------------------------------------------------------------------
(* AgentJobRuntime._run.                                                   *)

JobBegins(j) ==
  /\ task[j] = "ready" /\ j \notin cancelling
  /\ task' = [task EXCEPT ![j] = "running"]
  /\ SetStatus(j, "running")
  /\ RunnerBegins
  /\ shared' = (shared \/ mainTurn)
  /\ UNCHANGED <<cancelling, agentVars, tellVars, saved, mainTurn, crashes>>

\* A task that is cancelled before its first step never enters _run.
NeverBegins(j) ==
  /\ task[j] = "ready" /\ j \in cancelling
  /\ task' = [task EXCEPT ![j] = "done"]
  /\ UNCHANGED <<status, row, cancelling, agentVars, tellVars, runnerVars, crashes>>

\* _emit_completed: the flag is set before the callback is awaited.
MustTell(j) == j \notin emitted

\* notify_completed.  An agent that is still idle cannot become completed: the
\* transition raises, the exception is logged, and nobody is told.
Notify(j, how) ==
  LET moves == agent[j] \notin JobTerminal IN
  IF j \in registered /\ (moves => AgentCanMove(agent[j], how)) /\ MustTell(j)
  THEN /\ agent' = IF moves THEN [agent EXCEPT ![j] = how] ELSE agent
       /\ emitted' = emitted \cup {j}
       /\ task' = [task EXCEPT ![j] = "notifying"]
       /\ UNCHANGED unheard
  ELSE /\ task' = [task EXCEPT ![j] = "done"]
       /\ unheard' = IF j \in registered /\ j \notin emitted THEN unheard \cup {j} ELSE unheard
       /\ UNCHANGED <<agent, emitted>>

\* Mutant: the agent of a job that failed is not notified of.
JobEndsSilently(j, how) ==
  /\ task[j] = "running"
  /\ how = "aborted" <=> j \in cancelling
  /\ SetStatus(j, how)
  /\ cancelling' = cancelling \ {j}
  /\ busy' = FALSE
  /\ IF how = "error"
     THEN task' = [task EXCEPT ![j] = "done"] /\ UNCHANGED <<agent, emitted, unheard>>
     ELSE Notify(j, how)
  /\ UNCHANGED <<spawning, registered, told, provider, parked, saved, mainTurn, shared, crashes>>

\* The run returns, raises or is cancelled; TurnRunner.run clears its flag.
JobEnds(j, how) ==
  /\ task[j] = "running"
  /\ how = "aborted" <=> j \in cancelling
  /\ SetStatus(j, how)
  /\ cancelling' = cancelling \ {j}
  /\ busy' = FALSE
  /\ Notify(j, how)
  /\ UNCHANGED <<spawning, registered, told, provider, parked, saved, mainTurn, shared, crashes>>

\* The callback returns; a cancellation that reaches it is not caught.
Notified(j) ==
  /\ task[j] = "notifying"
  /\ task' = [task EXCEPT ![j] = "done"]
  /\ IF j \in cancelling
     THEN unheard' = unheard \cup {j} /\ UNCHANGED told
     ELSE told' = [told EXCEPT ![j] = @ + 1] /\ UNCHANGED unheard
  /\ cancelling' = cancelling \ {j}
  /\ UNCHANGED <<status, row, agentVars, runnerVars, crashes>>

----------------------------------------------------------------------------
(* AgentControl.kill, and restarts.                                        *)

\* The job is aborted whatever it was; the agent is removed before a transition
\* that raises when it has ended.  The callback is awaited by the client's
\* request and is one step with the rest.
KillAgent(j) ==
  /\ status[j] # "none" /\ (j \in registered \/ status[j] \notin JobTerminal)
  /\ SetStatus(j, "aborted")
  /\ cancelling' = IF task[j] \in {"ready", "running", "notifying"}
                   THEN cancelling \cup {j} ELSE cancelling
  /\ registered' = registered \ {j}
  /\ IF j \in registered /\ AgentCanMove(agent[j], "aborted")
     THEN /\ agent' = [agent EXCEPT ![j] = "aborted"]
          /\ emitted' = emitted \cup {j}
          /\ told' = IF MustTell(j) THEN [told EXCEPT ![j] = @ + 1] ELSE told
     ELSE UNCHANGED <<agent, emitted, told>>
  /\ UNCHANGED <<task, spawning, unheard, runnerVars, crashes>>

\* _load_jobs.
LoadJob(s) == IF s = "running" THEN "interrupted" ELSE s

\* The process dies and the session is created again.
JobsRestart ==
  /\ crashes < MaxCrashes
  /\ crashes' = crashes + 1
  /\ status' = [j \in Jobs |-> LoadJob(row[j])]
  /\ task' = [j \in Jobs |-> "none"]
  /\ cancelling' = {} /\ spawning' = {} /\ registered' = {}
  /\ agent' = [j \in Jobs |-> "none"]
  /\ emitted' = {}
  /\ unheard' = unheard \cup {j \in Jobs : task[j] \in {"ready", "running", "notifying"}}
  /\ busy' = FALSE /\ parked' = 0 /\ provider' = saved
  /\ mainTurn' = FALSE /\ shared' = FALSE
  /\ UNCHANGED <<row, told, saved>>

JobStep(j) ==
  \/ AgentSpawned(j) \/ JobBegins(j) \/ NeverBegins(j) \/ Notified(j)
  \/ \E how \in JobTerminal : JobEnds(j, how)

JobsNext ==
  \/ \E j \in Jobs : SpawnAgent(j) \/ SpawnInterrupted(j) \/ JobStep(j) \/ KillAgent(j)
  \/ MainBegins \/ MainEnds \/ ConfigSave
  \/ JobsRestart

JobsSpec == JobsInit /\ [][JobsNext]_jobsVars

----------------------------------------------------------------------------
(* Properties.                                                             *)

\* Type invariant: among others, an agent is registered for a job that exists,
\* and only a live task has a cancellation to be delivered.
JobsTypeOK ==
  /\ status \in [Jobs -> JobTerminal \cup {"none", "queued", "running", "interrupted"}]
  /\ row \in [Jobs -> JobTerminal \cup {"none", "queued", "running"}]
  /\ task \in [Jobs -> {"none", "ready", "running", "notifying", "done"}]
  /\ cancelling \subseteq {j \in Jobs : task[j] \in {"ready", "running", "notifying", "done"}}
  /\ spawning \subseteq {j \in Jobs : status[j] # "none"}
  /\ registered \subseteq {j \in Jobs : agent[j] # "none"}
  /\ agent \in [Jobs -> JobTerminal \cup {"none", "idle", "thinking"}]
  /\ emitted \subseteq Jobs /\ unheard \subseteq Jobs
  /\ told \in [Jobs -> Nat]
  /\ busy \in BOOLEAN /\ mainTurn \in BOOLEAN /\ shared \in BOOLEAN
  /\ provider \in 0 .. saved /\ parked \in 0 .. saved /\ saved \in 0 .. MaxSaves
  /\ crashes \in 0 .. MaxCrashes

\* Tasks that run and are meant to.
ActiveJobs == {j \in Jobs : task[j] \in {"ready", "running"} /\ j \notin cancelling}

\* No more than max_concurrent sub-agents run, whatever ended, was killed or
\* overtook its own spawn() before.
CapHolds == Cardinality(ActiveJobs) <= Cap

\* The provider of a turn of the user changes only if a job ran beside it; a
\* config save alone leaves it alone.
ProviderStays ==
  [][mainTurn /\ mainTurn' /\ provider' # provider => shared \/ shared']_jobsVars

\* The frontend is told of the end of a job at most once, by the kill or by the
\* task that the kill cancels; and in the end it is told, unless the end was
\* lost: it came while spawn() was suspended or after spawn() had been
\* interrupted, a kill reached the callback, or the process died.
EveryEndIsToldOnce ==
  \A j \in Jobs :
    /\ [](told[j] <= 1)
    /\ (task[j] = "ready") ~> (told[j] > 0 \/ j \in unheard)
=============================================================================
