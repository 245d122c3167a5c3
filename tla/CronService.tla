---------------------------- MODULE CronService ----------------------------
(***************************************************************************)
(* Timed jobs (miqi/cron/service.py).  The gateway runs one CronService    *)
(* with a timer; it keeps its jobs in memory and writes all of them to     *)
(* jobs.json after every tick.  Requests of the desktop application and of *)
(* the command line (runtime/cron_handlers.py, cli/management.py) make a   *)
(* service of their own, in another process, which reads the file, changes *)
(* a job and writes the file again.                                        *)
(*                                                                         *)
(* A one-shot job (kind "at") has one time, which passes; a recurring one  *)
(* becomes due again and again.                                            *)
(***************************************************************************)
EXTENDS Naturals, FiniteSets

CONSTANTS CronJobs,
          OneShots,    \* jobs of kind "at"
          Vanishing,   \* the one-shots with delete_after_run
          MaxEdits,    \* bound: requests that change a job
          MaxReboots,  \* bound: the gateway dies
          MaxTicks,    \* bound: ticks of the timer
          CronFaults   \* what may go wrong: "save"

ASSUME CronAssumption ==
  /\ Vanishing \subseteq OneShots /\ OneShots \subseteq CronJobs
  /\ MaxEdits \in Nat /\ MaxReboots \in Nat /\ MaxTicks \in Nat
  /\ CronFaults \subseteq {"save"}

VARIABLES
  file,      \* jobs.json: "absent", "off" or "on" (enabled)
  store,     \* _store of the gateway's service
  nextRun,   \* next_run_at_ms there: "none", "later" or "due"
  timer,     \* the gateway's service: "down", "idle" (no timer), "armed", "ticks", or
             \* "dead": its tick has raised, and there is no timer
  dueJobs,   \* what the tick has yet to execute
  executing, \* the job that runs, as a set
  passed,    \* one-shots whose time has passed
  runs,      \* how often the timer has started a job
  edits, reboots, ticks  \* bounds

cronVars == <<file, store, nextRun, timer, dueJobs, executing, passed, runs, edits,
              reboots, ticks>>

NoJobs == [j \in CronJobs |-> "absent"]

CronInit ==
  /\ file = NoJobs
  /\ store = NoJobs
  /\ nextRun = [j \in CronJobs |-> "none"]
  /\ timer = "down"
  /\ dueJobs = {} /\ executing = {} /\ passed = {}
  /\ runs = [j \in CronJobs |-> 0]
  /\ edits = 0 /\ reboots = 0 /\ ticks = 0

\* Mutant: a time in the past counts as due at once.
ComputeNextRunLate(j) == IF j \in passed THEN "due" ELSE "later"

\* _compute_next_run, now.
ComputeNextRun(j) == IF j \in passed THEN "none" ELSE "later"

\* _arm_timer, for the jobs and times after the step.
Armed(jobs, times) ==
  IF \E j \in CronJobs : jobs[j] = "on" /\ times[j] # "none" THEN "armed" ELSE "idle"

\* _save_store raises: write_text has truncated the file, and loads as no jobs,
\* or has not touched it.
SaveFails == "save" \in CronFaults /\ file' \in {file, NoJobs}

----------------------------------------------------------------------------
(* The gateway.                                                            *)

\* start: load, _recompute_next_runs, save, arm.
CronStart ==
  /\ timer = "down"
  /\ store' = file
  /\ nextRun' = [j \in CronJobs |-> IF file[j] = "on" THEN ComputeNextRun(j) ELSE "none"]
  /\ timer' = Armed(store', nextRun')
  /\ UNCHANGED <<file, dueJobs, executing, passed, runs, edits, reboots, ticks>>

\* A save that raises ends the gateway before it is up.
CronStartFails ==
  /\ timer = "down"
  /\ SaveFails
  /\ UNCHANGED <<store, nextRun, timer, dueJobs, executing, passed, runs, edits, reboots, ticks>>

\* Time goes by.
BecomesDue(j) ==
  /\ passed' = IF j \in OneShots THEN passed \cup {j} ELSE passed
  /\ nextRun' = [nextRun EXCEPT ![j] = IF @ = "later" THEN "due" ELSE @]
  /\ <<passed, nextRun>>' # <<passed, nextRun>>
  /\ UNCHANGED <<file, store, timer, dueJobs, executing, runs, edits, reboots, ticks>>

\* tick and _on_timer.
Tick ==
  /\ timer = "armed" /\ ticks < MaxTicks
  /\ dueJobs' = {j \in CronJobs : store[j] = "on" /\ nextRun[j] = "due"}
  /\ dueJobs' # {}
  /\ timer' = "ticks"
  /\ ticks' = ticks + 1
  /\ UNCHANGED <<file, store, nextRun, executing, passed, runs, edits, reboots>>

Execute(j) ==
  /\ j \in dueJobs /\ executing = {}
  /\ dueJobs' = dueJobs \ {j}
  /\ executing' = {j}
  /\ runs' = [runs EXCEPT ![j] = @ + 1]
  /\ UNCHANGED <<file, store, nextRun, timer, passed, edits, reboots, ticks>>

\* The job ends, fails or times out.
Executed(j) ==
  /\ j \in executing
  /\ executing' = {}
  /\ store' = [store EXCEPT ![j] = IF j \in Vanishing THEN "absent"
                                   ELSE IF j \in OneShots THEN "off" ELSE @]
  /\ nextRun' = [nextRun EXCEPT ![j] = IF j \in OneShots THEN "none" ELSE ComputeNextRun(j)]
  /\ UNCHANGED <<file, timer, dueJobs, passed, runs, edits, reboots, ticks>>

\* Mutant: the timer is armed by edits alone.
TickEndsIdle ==
  /\ timer = "ticks" /\ dueJobs = {} /\ executing = {}
  /\ file' = store
  /\ timer' = "idle"
  /\ UNCHANGED <<store, nextRun, dueJobs, executing, passed, runs, edits, reboots, ticks>>

\* All jobs are saved as the gateway knows them, and the timer is armed.
TickEnds ==
  /\ timer = "ticks" /\ dueJobs = {} /\ executing = {}
  /\ file' = store
  /\ timer' = Armed(store, nextRun)
  /\ UNCHANGED <<store, nextRun, dueJobs, executing, passed, runs, edits, reboots, ticks>>

\* The save raises, and with it the tick's task, before it arms the timer.
TickDies ==
  /\ timer = "ticks" /\ dueJobs = {} /\ executing = {}
  /\ SaveFails
  /\ timer' = "dead"
  /\ UNCHANGED <<store, nextRun, dueJobs, executing, passed, runs, edits, reboots, ticks>>

\* The process dies, with whatever it had not saved.
Dies ==
  /\ timer # "down" /\ reboots < MaxReboots
  /\ reboots' = reboots + 1
  /\ timer' = "down"
  /\ dueJobs' = {} /\ executing' = {}
  /\ store' = NoJobs
  /\ nextRun' = [j \in CronJobs |-> "none"]
  /\ UNCHANGED <<file, passed, runs, edits, ticks>>

----------------------------------------------------------------------------
(* add_job, enable_job and remove_job of another process.                  *)

Edit(j, entry) ==
  /\ edits < MaxEdits
  /\ entry # file[j]
  /\ entry = "off" => file[j] = "on"
  /\ file' = [file EXCEPT ![j] = entry] \/ SaveFails
  /\ edits' = edits + 1
  /\ UNCHANGED <<store, nextRun, timer, dueJobs, executing, passed, runs, reboots, ticks>>

CronStep == Tick \/ (\E j \in CronJobs : Execute(j) \/ Executed(j)) \/ TickEnds

CronNext ==
  \/ CronStart \/ CronStartFails \/ CronStep \/ TickDies \/ Dies
  \/ \E j \in CronJobs : BecomesDue(j) \/ \E entry \in {"absent", "off", "on"} : Edit(j, entry)

CronSpec == CronInit /\ [][CronNext]_cronVars

----------------------------------------------------------------------------
(* Properties.                                                             *)

\* Type invariant.
CronTypeOK ==
  /\ file \in [CronJobs -> {"absent", "off", "on"}]
  /\ store \in [CronJobs -> {"absent", "off", "on"}]
  /\ nextRun \in [CronJobs -> {"none", "later", "due"}]
  /\ timer \in {"down", "idle", "armed", "ticks", "dead"}
  /\ dueJobs \subseteq CronJobs /\ executing \subseteq CronJobs
  /\ passed \subseteq OneShots
  /\ runs \in [CronJobs -> Nat]
  /\ edits \in 0 .. MaxEdits /\ reboots \in 0 .. MaxReboots /\ ticks \in 0 .. MaxTicks

\* The timer starts a one-shot job at most once, also when the gateway dies
\* between the execution and the save, and when a stale copy of the job is
\* written back or the job is enabled again after its time.
OneShotRunsOnce == \A j \in OneShots : runs[j] <= 1

\* A job that is due in a gateway that stays up is executed, whatever was executed
\* or failed before: the timer is armed for it again after every tick, but for one
\* that cannot save the jobs, which leaves no timer until the gateway is restarted.
DueIsRun ==
  \A j \in CronJobs :
    (store[j] = "on" /\ nextRun[j] = "due")
      ~> (nextRun[j] # "due" \/ ticks = MaxTicks \/ timer = "dead")
=============================================================================
