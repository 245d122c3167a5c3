----------------------------- MODULE MCServices -----------------------------
(* The small services beside the sessions for model checking.  They share   *)
(* no state: a behaviour is one of the service in focus, while the others   *)
(* rest, so that the states are the sum of theirs.                          *)
EXTENDS AgentJobs, SessionRegistry, TurnSlots, UserInputGate, WorkbenchProcesses,
        GatewayClient, CronService, SandboxManager

CONSTANTS c1, c2

VARIABLE focus

MCOwner == [s \in Sessions |-> c1]

vars == <<focus, jobsVars, registryVars, slotsVars, gateVars, procVars, gatewayVars, cronVars, sandboxVars>>

Services == {"jobs", "registry", "slots", "gate", "processes", "gateway", "cron",
             "sandboxes"}

Init ==
  /\ focus \in Services
  /\ JobsInit /\ RegistryInit /\ SlotsInit /\ GateInit /\ ProcInit /\ GatewayInit
  /\ CronInit /\ SandboxInit

Next ==
  \/ /\ focus = "jobs" /\ JobsNext
     /\ UNCHANGED <<focus, registryVars, slotsVars, gateVars, procVars, gatewayVars, cronVars, sandboxVars>>
  \/ /\ focus = "registry" /\ RegistryNext
     /\ UNCHANGED <<focus, jobsVars, slotsVars, gateVars, procVars, gatewayVars, cronVars, sandboxVars>>
  \/ /\ focus = "slots" /\ SlotsNext
     /\ UNCHANGED <<focus, jobsVars, registryVars, gateVars, procVars, gatewayVars, cronVars, sandboxVars>>
  \/ /\ focus = "gate" /\ GateNext
     /\ UNCHANGED <<focus, jobsVars, registryVars, slotsVars, procVars, gatewayVars, cronVars, sandboxVars>>
  \/ /\ focus = "processes" /\ ProcNext
     /\ UNCHANGED <<focus, jobsVars, registryVars, slotsVars, gateVars, gatewayVars, cronVars, sandboxVars>>
  \/ /\ focus = "gateway" /\ GatewayNext
     /\ UNCHANGED <<focus, jobsVars, registryVars, slotsVars, gateVars, procVars, cronVars, sandboxVars>>
  \/ /\ focus = "cron" /\ CronNext
     /\ UNCHANGED <<focus, jobsVars, registryVars, slotsVars, gateVars, procVars, gatewayVars, sandboxVars>>
  \/ /\ focus = "sandboxes" /\ SandboxNext
     /\ UNCHANGED <<focus, jobsVars, registryVars, slotsVars, gateVars, procVars, gatewayVars, cronVars>>

\* Fair, for the three services with a liveness property: ready coroutines run,
\* runs of jobs end, the turns of the gateway's session end,
\* and the timer of the cron service fires and its jobs end.
Spec ==
  /\ Init /\ [][Next]_vars
  /\ \A j \in Jobs : WF_jobsVars(focus = "jobs" /\ JobStep(j))
  /\ \A m \in Messages : WF_gatewayVars(focus = "gateway" /\ AskStep(m))
  /\ WF_gatewayVars(focus = "gateway" /\ SessionStep)
  /\ WF_cronVars(focus = "cron" /\ CronStep)
=============================================================================
