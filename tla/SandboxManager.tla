--------------------------- MODULE SandboxManager ---------------------------
(***************************************************************************)
(* The sandboxes of the sessions (miqi/sandbox/manager.py and the life     *)
(* cycle in bwrap.py): a tool call gets the sandbox of its session or      *)
(* creates it, the oldest gives way when there are too many, handlers and  *)
(* the end of the bridge destroy them.  Every sandbox has a directory      *)
(* named after its session, outside the bridge, and a state file lists     *)
(* the directories for the next bridge to remove.                          *)
(*                                                                         *)
(* Everything runs on one event loop, so the lock is never contended, and  *)
(* commands in the sandbox's Linux (mkdir, rm, test) suspend.  The entries *)
(* of _sandboxes are sandboxes that run: stop() comes after the removal    *)
(* from the map.  A state file without entries and none are the same.      *)
(***************************************************************************)
EXTENDS Naturals, Sequences, FiniteSets, SequencesExt

CONSTANTS Boxes,       \* sandbox keys
          MaxBoxes,    \* max_sandboxes
          BoxCalls,    \* tasks that serve tool calls and requests
          MaxBoxCalls, \* bound: tool calls and requests in one behaviour
          RemoveTries, \* attempts of _rm_rf_retry
          BoxFaults,   \* what may go wrong: "remove", "start", "cancel", "term",
                       \* "save"
          MaxKills     \* bound: bridges that are killed

ASSUME BoxAssumption ==
  /\ BoxCalls \subseteq Nat \ {0}
  /\ MaxBoxes \in Nat \ {0} /\ RemoveTries \in Nat \ {0}
  /\ MaxKills \in Nat /\ MaxBoxCalls \in Nat
  /\ BoxFaults \subseteq {"remove", "start", "cancel", "term", "save"}

VARIABLES
  boxes,     \* _sandboxes, oldest first
  underway,  \* _creating
  dirs,      \* directories of sandboxes that exist
  stateFile, \* sandbox_state.json: the sandboxes it lists
  bridge,    \* booting, cleaning, ready, leaving or down
  manager,   \* enabled; BridgeState._sandbox_manager: on, closing or off
  configured, \* tools.sandbox.enabled in the configuration
  termed,    \* a SIGTERM has been handled
  call,      \* what a task does, and for which sandbox
  calls,     \* how many calls there were
  stage,     \* where it is; 0 is the bridge's own start and end
  rest,      \* directories it still has to remove
  tries,     \* attempts at the first of them
  failed,    \* those cleanup_stale could not remove
  kills,
  raced,     \* history: creations during a removal of the same directory
  strayed    \* history: directories that were left behind, or are no longer
             \* listed though their sandbox lives

boxMaps == <<boxes, underway>>
bridgeVars == <<bridge, manager, configured, termed, kills>>
callVars == <<call, calls>>
sandboxVars == <<boxMaps, dirs, stateFile, bridgeVars, callVars, stage, rest,
                 tries, failed, raced, strayed>>

Main == 0
Tasks == BoxCalls \cup {Main}
Nothing == [op |-> "none", box |-> "none"]

SandboxInit ==
  /\ boxes = <<>> /\ underway = {} /\ dirs = {} /\ stateFile = {}
  /\ bridge = "booting" /\ manager = "on" /\ configured = TRUE
  /\ termed = FALSE /\ kills = 0
  /\ call = [c \in BoxCalls |-> Nothing] /\ calls = 0
  /\ stage = [t \in Tasks |-> "idle"]
  /\ rest = [t \in Tasks |-> <<>>]
  /\ tries = [t \in Tasks |-> 0]
  /\ failed = {} /\ raced = {} /\ strayed = {}

Registered == ToSet(boxes)
SetStage(t, s) == stage' = [stage EXCEPT ![t] = s]
Up == bridge \in {"booting", "cleaning", "ready"}
Busy(t) == stage[t] # "idle"

\* Which task serves a call makes no difference.
Takes(c, op, k) ==
  /\ Up /\ calls < MaxBoxCalls
  /\ ~Busy(c) /\ \A d \in BoxCalls : d < c => Busy(d)
  /\ calls' = calls + 1
  /\ call' = [call EXCEPT ![c] = [op |-> op, box |-> k]]

Creators(k) == {c \in BoxCalls : call[c] = [op |-> "create", box |-> k]}
Removers(k) == {t \in Tasks : k \in ToSet(rest[t])}

\* The directories among D are left behind, or lose their place in the file.
Stray(D) == strayed' = strayed \cup (D \cap dirs)

\* _save_state.  What the file listed and the manager does not know is no
\* longer listed.  A failure is logged: the old file is still there, or on
\* Windows has been removed already.
SaveState(B) ==
  /\ stateFile' \in {ToSet(B)} \cup IF "save" \in BoxFaults THEN {stateFile, {}} ELSE {}
  /\ strayed' = (strayed \cup ((stateFile \cup ToSet(B)) \cap dirs)) \ stateFile'

\* _clear_state_file, when the directories D need the file.  A failure is
\* logged.
ClearState(D) ==
  \/ stateFile' = {} /\ Stray(D)
  \/ "save" \in BoxFaults /\ UNCHANGED <<stateFile, strayed>>

----------------------------------------------------------------------------
(* Removal of directories: BwrapSandbox.stop, _rm_rf_retry.                *)

BeginRemoval(t, todo) ==
  /\ rest' = [rest EXCEPT ![t] = todo]
  /\ SetStage(t, "removing")

\* The next of them, or another attempt.
Retry(t) ==
  IF tries[t] + 1 < RemoveTries
  THEN /\ tries' = [tries EXCEPT ![t] = @ + 1]
       /\ UNCHANGED <<rest, failed, strayed>>
  ELSE LET k == Head(rest[t]) IN
       /\ tries' = [tries EXCEPT ![t] = 0]
       /\ rest' = [rest EXCEPT ![t] = Tail(@)]
       /\ failed' = IF t = Main /\ bridge = "cleaning" THEN failed \cup {k} ELSE failed
       /\ Stray(IF bridge # "leaving" THEN {k} \ stateFile ELSE {k})

\* rm -rf
Attempt(t) ==
  /\ stage[t] = "removing" /\ rest[t] # <<>>
  /\ \/ /\ dirs' = dirs \ {Head(rest[t])}
        /\ strayed' = strayed \ {Head(rest[t])}
        /\ SetStage(t, "verifying")
        /\ UNCHANGED <<rest, tries, failed>>
     \/ /\ "remove" \in BoxFaults
        /\ Retry(t)
        /\ UNCHANGED <<dirs, stage>>
  /\ UNCHANGED <<boxMaps, stateFile, bridgeVars, callVars, raced>>

\* test -e: a directory that is there again is removed again, and so is one that
\* has gone when the test times out.
Verify(t) ==
  /\ stage[t] = "verifying"
  /\ SetStage(t, "removing")
  /\ IF Head(rest[t]) \in dirs
     THEN Retry(t)
     ELSE \/ /\ rest' = [rest EXCEPT ![t] = Tail(@)]
             /\ tries' = [tries EXCEPT ![t] = 0]
             /\ UNCHANGED <<failed, strayed>>
          \/ "remove" \in BoxFaults /\ Retry(t)
  /\ UNCHANGED <<boxMaps, dirs, stateFile, bridgeVars, callVars, raced>>

----------------------------------------------------------------------------
(* The calls.                                                              *)

Return(c) ==
  /\ SetStage(c, "idle")
  /\ call' = [call EXCEPT ![c] = Nothing]
  /\ UNCHANGED calls

\* get_or_create as long as initialize has not found that sandboxes can be had:
\* it asks itself, and does not look at the manager again.
Ask(c, k) ==
  /\ Takes(c, "ask", k) /\ manager = "on" /\ bridge = "booting"
  /\ SetStage(c, "asking")
  /\ UNCHANGED <<boxMaps, dirs, stateFile, bridgeVars, rest, tries, failed, raced,
                 strayed>>

Asked(c, k) ==
  /\ stage[c] = "asking" /\ call[c].box = k
  /\ call' = [call EXCEPT ![c].op = "create"]
  /\ UNCHANGED calls

MayCreate(c, k) ==
  \/ Takes(c, "create", k) /\ manager = "on" /\ bridge # "booting"
  \/ Asked(c, k)

\* Sandboxes cannot be had, or the session has one, or one under way.
Refuse(c) ==
  /\ stage[c] = "asking"
  /\ \/ BoxFaults \cap {"start", "cancel"} # {}
     \/ call[c].box \in Registered \cup underway
  /\ Return(c)
  /\ UNCHANGED <<boxMaps, dirs, stateFile, bridgeVars, rest, tries, failed, raced,
                 strayed>>

\* Mutant: what is being created is not looked at.
GetOrCreateTwice(c, k) ==
  /\ MayCreate(c, k)
  /\ k \notin Registered
  /\ underway' = underway \cup {k}
  /\ IF Len(boxes) >= MaxBoxes
     THEN /\ boxes' = Tail(boxes) /\ BeginRemoval(c, <<Head(boxes)>>)
          /\ raced' = raced \ {Head(boxes)}
     ELSE SetStage(c, "start") /\ UNCHANGED <<boxes, rest, raced>>
  /\ UNCHANGED <<dirs, stateFile, bridgeVars, tries, failed, strayed>>

\* get_or_create: the lock, and the eviction of the oldest before the first
\* await.  Who finds the sandbox, or its creation under way, changes nothing.
GetOrCreate(c, k) ==
  /\ MayCreate(c, k)
  /\ k \notin Registered \cup underway
  /\ underway' = underway \cup {k}
  /\ IF Len(boxes) >= MaxBoxes
     THEN /\ boxes' = Tail(boxes) /\ BeginRemoval(c, <<Head(boxes)>>)
          /\ raced' = raced \ {Head(boxes)}
     ELSE SetStage(c, "start") /\ UNCHANGED <<boxes, rest, raced>>
  /\ UNCHANGED <<dirs, stateFile, bridgeVars, tries, failed, strayed>>

Destroy(c, k) ==
  /\ Takes(c, "destroy", k) /\ manager # "off"
  /\ \E i \in DOMAIN boxes : boxes[i] = k /\ boxes' = RemoveAt(boxes, i)
  /\ BeginRemoval(c, <<k>>)
  /\ raced' = raced \ {k}
  /\ UNCHANGED <<underway, dirs, stateFile, bridgeVars, tries, failed, strayed>>

\* sandbox.setEnabled(False): destroy_all of a manager that creates no more.
Disable(c) ==
  /\ Takes(c, "disable", "none") /\ manager = "on"
  /\ configured' = FALSE
  /\ manager' = "closing"
  /\ boxes' = <<>>
  /\ BeginRemoval(c, boxes)
  /\ raced' = raced \cap underway
  /\ UNCHANGED <<underway, dirs, stateFile, bridge, termed, kills, tries,
                 failed, strayed>>

\* _graceful_shutdown in the signal handler: destroy_all becomes a task of the
\* running loop, which cannot be awaited there, and the state file is removed.
Sigterm(c) ==
  /\ "term" \in BoxFaults
  /\ Takes(c, "destroyAll", "none") /\ manager # "off" /\ ~termed
  /\ SetStage(c, "scheduled")
  /\ termed' = TRUE
  /\ ClearState(stateFile \ Registered)
  /\ UNCHANGED <<boxMaps, dirs, bridge, manager, configured, kills, rest, tries, failed,
                 raced>>

DestroyAll(c) ==
  /\ stage[c] = "scheduled"
  /\ boxes' = <<>>
  /\ BeginRemoval(c, boxes)
  /\ raced' = raced \cap underway
  /\ UNCHANGED <<underway, dirs, stateFile, bridgeVars, callVars, tries, failed,
                 strayed>>

\* Everything is stopped: the file is written.  A creation goes on, unless
\* its sandbox has come into being.
Stopped(c) ==
  /\ c \in BoxCalls /\ stage[c] = "removing" /\ rest[c] = <<>>
  /\ SaveState(boxes)
  /\ IF call[c].op = "create" /\ call[c].box \notin Registered
     THEN SetStage(c, "start") /\ UNCHANGED <<underway, callVars>>
     ELSE Return(c) /\ underway' = IF call[c].op = "create"
                                    THEN underway \ {call[c].box} ELSE underway
  /\ manager' = IF call[c].op = "disable" THEN "off" ELSE manager
  /\ UNCHANGED <<boxes, dirs, bridge, configured, termed, kills, rest, tries,
                 failed, raced>>

\* BwrapSandbox.start: mkdir -p.
MakeDir(c) ==
  LET k == call[c].box IN
  /\ stage[c] = "start"
  /\ SetStage(c, "made")
  /\ dirs' = dirs \cup {k}
  /\ raced' = IF Removers(k) # {} THEN raced \cup {k} ELSE raced \ {k}
  /\ UNCHANGED <<boxMaps, stateFile, bridgeVars, callVars, rest, tries, failed,
                 strayed>>

\* test -d of the directories.
CheckDir(c) ==
  /\ stage[c] = "made" /\ call[c].box \in dirs
  /\ SetStage(c, "checked")
  /\ UNCHANGED <<boxMaps, dirs, stateFile, bridgeVars, callVars, rest, tries,
                 failed, raced, strayed>>

\* Mutant: the file is not written.
RegisterUnsaved(c) ==
  /\ stage[c] = "checked"
  /\ boxes' = Append(boxes, call[c].box)
  /\ underway' = underway \ {call[c].box}
  /\ Return(c)
  /\ UNCHANGED <<dirs, stateFile, bridgeVars, rest, tries, failed, raced, strayed>>

Register(c) ==
  /\ stage[c] = "checked"
  /\ boxes' = Append(boxes, call[c].box)
  /\ SaveState(boxes')
  /\ underway' = underway \ {call[c].box}
  /\ Return(c)
  /\ UNCHANGED <<dirs, bridgeVars, rest, tries, failed, raced>>

\* The creation ends without a sandbox: a command fails, the workspace of the
\* session cannot be reached, the directory has gone, or the turn is aborted.
\* What it made or had yet to remove stays.
Abandon(c) ==
  /\ call[c].op = "create"
  /\ \/ stage[c] \in {"start", "checked"} /\ "start" \in BoxFaults
     \/ stage[c] = "made" /\ call[c].box \notin dirs
     \/ "cancel" \in BoxFaults
  /\ underway' = underway \ {call[c].box}
  /\ Return(c)
  /\ Stray({call[c].box} \cup ToSet(rest[c]))
  /\ rest' = [rest EXCEPT ![c] = <<>>]
  /\ tries' = [tries EXCEPT ![c] = 0]
  /\ raced' = raced \ {call[c].box}
  /\ UNCHANGED <<boxes, dirs, stateFile, bridgeVars, failed>>

----------------------------------------------------------------------------
(* The bridge.                                                             *)

\* initialize has returned TRUE: _init_sandbox_manager, which enabled the manager
\* itself, writes that to the configuration.
Initialized == bridge' = "ready" /\ configured' = TRUE

\* cleanup_stale, when it has been found that sandboxes can be had.  Tools may
\* have created some by then: get_or_create does not wait for it.  And a manager
\* that was disabled meanwhile cleans up all the same.
LoadState ==
  /\ bridge = "booting"
  /\ IF stateFile = {}
     THEN Initialized /\ UNCHANGED <<stage, rest>>
     ELSE bridge' = "cleaning" /\ BeginRemoval(Main, SetToSeq(stateFile)) /\ UNCHANGED configured
  /\ raced' = raced \cup (stateFile \cap (Registered \cup underway))
  /\ UNCHANGED <<boxMaps, dirs, stateFile, manager, termed, kills, callVars,
                 tries, failed, strayed>>

\* The file is kept for the next start when a directory could not be removed.
\* Else it is removed, whatever has been written to it since it was read.
CleanedUp ==
  /\ bridge = "cleaning" /\ stage[Main] = "removing" /\ rest[Main] = <<>>
  /\ Initialized
  /\ SetStage(Main, "idle")
  /\ IF failed = {} THEN ClearState(stateFile) ELSE UNCHANGED <<stateFile, strayed>>
  /\ UNCHANGED <<boxMaps, dirs, manager, termed, kills, callVars, rest, tries,
                 failed, raced>>

\* What is under way when the loop ends.
Loose == underway \cup UNION {ToSet(rest[t]) : t \in Tasks}

TasksEnd ==
  /\ call' = [c \in BoxCalls |-> Nothing]
  /\ UNCHANGED calls
  /\ underway' = {}
  /\ tries' = [t \in Tasks |-> 0]
  /\ failed' = {}

\* stdin is closed: the tasks are cancelled and _graceful_shutdown destroys all
\* sandboxes, unless a SIGTERM has been handled or there is no manager.
Exit ==
  /\ Up
  /\ TasksEnd
  /\ boxes' = <<>>
  /\ IF manager = "off" \/ termed
     THEN /\ bridge' = "down"
          /\ stage' = [t \in Tasks |-> "idle"]
          /\ rest' = [t \in Tasks |-> <<>>]
          /\ Stray((Loose \cup Registered) \ stateFile)
     ELSE /\ bridge' = "leaving"
          /\ stage' = [t \in Tasks |-> IF t = Main THEN "removing" ELSE "idle"]
          /\ rest' = [t \in Tasks |-> IF t = Main THEN boxes ELSE <<>>]
          /\ Stray(Loose \cup (stateFile \ Registered))
  /\ raced' = {}
  /\ UNCHANGED <<dirs, stateFile, manager, configured, termed, kills>>

\* The state file is removed when all are destroyed.
Left ==
  /\ bridge = "leaving" /\ stage[Main] = "removing" /\ rest[Main] = <<>>
  /\ bridge' = "down"
  /\ SetStage(Main, "idle")
  /\ ClearState({})
  /\ UNCHANGED <<boxMaps, dirs, manager, configured, termed, kills, callVars, rest,
                 tries, failed, raced>>

Saving ==
  \E c \in BoxCalls : stage[c] = "checked" \/ (stage[c] = "removing" /\ rest[c] = <<>>)

\* The bridge is killed.  The old file is removed before the new one takes its
\* place.
Kill ==
  /\ bridge # "down" /\ kills < MaxKills
  /\ kills' = kills + 1
  /\ bridge' = "down"
  /\ boxes' = <<>>
  /\ TasksEnd
  /\ stage' = [t \in Tasks |-> "idle"]
  /\ rest' = [t \in Tasks |-> <<>>]
  /\ \/ /\ UNCHANGED stateFile
        /\ Stray((Loose \cup IF termed THEN Registered ELSE {}) \ stateFile)
     \/ /\ Saving
        /\ stateFile' = {}
        /\ Stray(dirs)
  /\ raced' = {}
  /\ UNCHANGED <<dirs, manager, configured, termed>>

\* The next bridge.  Without sandboxes in its configuration it has no manager.
Start ==
  /\ bridge = "down"
  /\ bridge' = IF configured THEN "booting" ELSE "ready"
  /\ termed' = FALSE
  /\ manager' = IF configured THEN "on" ELSE "off"
  /\ UNCHANGED <<boxMaps, dirs, stateFile, configured, kills, callVars, stage, rest, tries,
                 failed, raced, strayed>>

BoxStep(t) ==
  \/ Attempt(t) \/ Verify(t)
  \/ /\ t \in BoxCalls
     /\ \/ DestroyAll(t) \/ Stopped(t) \/ MakeDir(t) \/ CheckDir(t) \/ Register(t)
        \/ Abandon(t) \/ Refuse(t)

SandboxNext ==
  \/ \E c \in BoxCalls, k \in Boxes :
       Ask(c, k) \/ GetOrCreate(c, k) \/ Destroy(c, k)
  \/ \E c \in BoxCalls : Disable(c) \/ Sigterm(c)
  \/ \E t \in Tasks : BoxStep(t)
  \/ LoadState \/ CleanedUp \/ Exit \/ Left \/ Kill \/ Start

SandboxSpec == SandboxInit /\ [][SandboxNext]_sandboxVars

----------------------------------------------------------------------------
(* Properties.                                                             *)

\* One creation of a sandbox at a time, and none while it is registered;
\* _creating is what is being created, so a session is not left on the local
\* fallback for good, however a creation ends.
CreationsAccounted ==
  /\ \A k \in Boxes :
       /\ Cardinality(Creators(k)) <= 1
       /\ (k \in underway) = (Creators(k) # {})
       /\ k \in underway => k \notin Registered
  /\ IsInjective(boxes)

\* Sandboxes and directories match.  A sandbox that tools work in has its
\* directory, unless it was created while that directory was being removed, for
\* the sandbox destroyed or evicted before it or for one that the file listed at
\* the start.  A directory without a sandbox is on its way to be removed or
\* listed in the file for the next start.  And until a SIGTERM a directory with
\* one is listed too.  The last two have exceptions, where a directory
\*  - could not be removed,
\*  - is of a creation that was given up,
\*  - was being made or removed, or a list written, when the bridge was killed
\*    or its tasks were cancelled,
\*  - was listed by an earlier bridge, or is being removed, when a save, a
\*    SIGTERM or the end of the bridge dropped its entry,
\*  - is of a sandbox that lived when the bridge ended after a SIGTERM, before
\*    destroy_all had run,
\*  - is of a live sandbox that was listed when the clean-up at the start
\*    removed the file, which it does not read again,
\*  - was in the file or had to be when a write of it failed.
\* The fourth and the one before the last need no fault in this bridge.
DirsMatchSandboxes ==
  /\ \A k \in Registered : k \in dirs \cup raced
  /\ \A k \in dirs :
       k \in Registered \cup underway \cup stateFile \cup strayed \/ Removers(k) # {}
  /\ ~termed => \A k \in dirs \cap Registered : k \in stateFile \cup strayed
=============================================================================
