------------------------- MODULE WorkbenchProcesses -------------------------
(***************************************************************************)
(* Processes of the workbench (miqi/runtime/workbench_process_runtime.py): *)
(* spawn_background, whose runner waits for the process and then removes   *)
(* its handle by key, kill of a handle and kill_client when a client has   *)
(* gone.  spawn is spawn_background without on_exit.  Handles are those of *)
(* one client; what a process prints is left out.                          *)
(***************************************************************************)
EXTENDS Naturals, Sequences, FiniteSets

CONSTANTS Handles,
          MaxProcs  \* bound: processes spawned

ASSUME ProcAssumption == MaxProcs \in Nat

VARIABLES
  handles,     \* _handles of the client: the process of a handle, 0 if none
  handleOf,    \* the handles processes were spawned under, in order
  alive,       \* processes that run
  runner,      \* stage of the _background_runner of a process
  starting,    \* handle whose spawn holds _lock and awaits the process, or none
  killers,     \* processes a kill() waits for
  disconnect,  \* stage of kill_client
  victims,     \* what kill_client has yet to kill of its copy
  recorded,    \* how often a process was recorded in the history
  dropped      \* processes whose entry was removed by another's clean-up

procVars == <<handles, handleOf, alive, runner, starting, killers, disconnect,
              victims, recorded, dropped>>

ProcIds == 1 .. MaxProcs
Spawned == DOMAIN handleOf
NewProc == Len(handleOf) + 1

ProcInit ==
  /\ handles = [h \in Handles |-> 0]
  /\ handleOf = <<>> /\ alive = {} /\ starting = {} /\ killers = {}
  /\ runner = [p \in ProcIds |-> "none"]
  /\ disconnect = "no" /\ victims = {}
  /\ recorded = [p \in ProcIds |-> 0]
  /\ dropped = {}

----------------------------------------------------------------------------
(* spawn_background.                                                       *)

\* Mutant: a handle that is in use is taken again.
HandleFreeAlways(h) == TRUE

\* _check_duplicate.
HandleFree(h) == handles[h] = 0

SpawnProc(h) ==
  /\ starting = {} /\ NewProc \in ProcIds
  /\ HandleFree(h)
  /\ starting' = {h}
  /\ UNCHANGED <<handles, handleOf, alive, runner, killers, disconnect, victims,
                 recorded, dropped>>

ProcSpawned(h) ==
  /\ h \in starting
  /\ starting' = {}
  /\ handles' = [handles EXCEPT ![h] = NewProc]
  /\ handleOf' = Append(handleOf, h)
  /\ alive' = alive \cup {NewProc}
  /\ runner' = [runner EXCEPT ![NewProc] = "waits"]
  /\ UNCHANGED <<killers, disconnect, victims, recorded, dropped>>

\* The command does not exist.
SpawnFails(h) ==
  /\ h \in starting
  /\ starting' = {}
  /\ UNCHANGED <<handles, handleOf, alive, runner, killers, disconnect, victims,
                 recorded, dropped>>

\* It exits by itself or the timeout kills it.
ProcExits(p) ==
  /\ p \in alive
  /\ alive' = alive \ {p}
  /\ UNCHANGED <<handles, handleOf, runner, starting, killers, disconnect, victims,
                 recorded, dropped>>

\* _history_recorded and _record_history.
Record(p) == recorded' = [recorded EXCEPT ![p] = IF @ = 0 THEN 1 ELSE @]

\* _run_process returns; on_exit is awaited.
RunnerRecords(p) ==
  /\ runner[p] = "waits" /\ p \notin alive
  /\ Record(p)
  /\ runner' = [runner EXCEPT ![p] = "telling"]
  /\ UNCHANGED <<handles, handleOf, alive, starting, killers, disconnect, victims,
                 dropped>>

\* The finally clause pops whatever is under the key.
RunnerEnds(p) ==
  /\ runner[p] = "telling" /\ starting = {}
  /\ runner' = [runner EXCEPT ![p] = "done"]
  /\ handles' = [handles EXCEPT ![handleOf[p]] = 0]
  /\ dropped' = dropped \cup ({handles[handleOf[p]]} \ {0, p})
  /\ UNCHANGED <<handleOf, alive, starting, killers, disconnect, victims, recorded>>

----------------------------------------------------------------------------
(* kill.                                                                   *)

KillHandle(h) ==
  /\ handles[h] # 0
  /\ killers' = killers \cup {handles[h]}
  /\ UNCHANGED <<handles, handleOf, alive, runner, starting, disconnect, victims,
                 recorded, dropped>>

\* terminate, or kill after three seconds, has ended the process.
HandleKilled(p) ==
  /\ p \in killers
  /\ alive' = alive \ {p}
  /\ killers' = killers \ {p}
  /\ Record(p)
  /\ UNCHANGED <<handles, handleOf, runner, starting, disconnect, victims, dropped>>

----------------------------------------------------------------------------
(* kill_client.                                                            *)

ClientGone ==
  /\ disconnect = "no" /\ starting = {}
  /\ victims' = {handles[h] : h \in Handles} \ {0}
  /\ disconnect' = "kills"
  /\ UNCHANGED <<handles, handleOf, alive, runner, starting, killers, recorded, dropped>>

KillVictim(p) ==
  /\ p \in victims
  /\ victims' = victims \ {p}
  /\ alive' = alive \ {p}
  /\ UNCHANGED <<handles, handleOf, runner, starting, killers, disconnect, recorded,
                 dropped>>

\* Every entry of the client is removed, also those made meanwhile.
ClientForgotten ==
  /\ disconnect = "kills" /\ victims = {} /\ starting = {}
  /\ disconnect' = "no"
  /\ handles' = [h \in Handles |-> 0]
  /\ dropped' = dropped \cup ({handles[h] : h \in Handles} \ {0})
  /\ UNCHANGED <<handleOf, alive, runner, starting, killers, victims, recorded>>

RunnerStep(p) == RunnerRecords(p) \/ RunnerEnds(p)

ProcNext ==
  \/ \E h \in Handles : SpawnProc(h) \/ ProcSpawned(h) \/ SpawnFails(h) \/ KillHandle(h)
  \/ \E p \in ProcIds : ProcExits(p) \/ RunnerStep(p) \/ HandleKilled(p) \/ KillVictim(p)
  \/ ClientGone \/ ClientForgotten

ProcSpec == ProcInit /\ [][ProcNext]_procVars

----------------------------------------------------------------------------
(* Properties.                                                             *)

\* Type invariant.
ProcTypeOK ==
  /\ handles \in [Handles -> {0} \cup Spawned]
  /\ handleOf \in Seq(Handles) /\ Len(handleOf) <= MaxProcs
  /\ alive \subseteq Spawned /\ killers \subseteq Spawned /\ victims \subseteq Spawned
  /\ runner \in [ProcIds -> {"none", "waits", "telling", "done"}]
  /\ starting \subseteq Handles /\ Cardinality(starting) <= 1
  /\ disconnect \in {"no", "kills"}
  /\ recorded \in [ProcIds -> Nat]
  /\ dropped \subseteq Spawned

\* A process that runs can be killed through its handle, unless another's
\* clean-up has removed the entry: then it can be reached by nothing.
LiveIsListed ==
  \A p \in alive : p \notin dropped => handles[handleOf[p]] = p

\* The runner and kill() both record the end of a process, and one of them does.
RecordedOnce ==
  \A p \in Spawned :
    /\ recorded[p] <= 1
    /\ runner[p] \in {"telling", "done"} => recorded[p] = 1

\* Every process is accounted for, whatever its runner, kill() and the client's
\* leaving do in between: listed while it runs, and in the history once it has
\* ended.
ProcsAccounted == LiveIsListed /\ RecordedOnce
=============================================================================
