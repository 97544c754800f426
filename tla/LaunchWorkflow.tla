--------------------------- MODULE LaunchWorkflow ---------------------------
(***************************************************************************)
(* A launch from the request to the report of the game's exit.             *)
(*                                                                         *)
(* Composes the admission of mutating requests (api.rs), the operation     *)
(* registry (installer/mod.rs), the orchestrated workflow                  *)
(* (orchestration.rs), the registry of game processes with the task that   *)
(* waits for the child and the call that stops it (launcher/mod.rs), and   *)
(* the sink that turns game events into verdicts (commands/launch.rs).     *)
(*                                                                         *)
(* Every step is one critical section or one await: whatever the code does *)
(* between two accesses of shared state belongs to the step before it.     *)
(***************************************************************************)
EXTENDS OperationRegistry

CONSTANTS
  Requests,   (* connections that send mutating requests      *)
  NoRequest,  (* the mutation guard is free                   *)
  StopCalls   (* calls of stop_game, each made once (bound)   *)

ASSUME RequestAssumption == NoRequest \notin Requests
ASSUME IdentityAssumption == Requests \cap OperationIds = {}

VARIABLES
  mutation,       (* AppContext::mutation: the request that holds the guard *)
  request,        (* request -> [kind, at]                                  *)
  task,           (* operation -> [at, verdict] of the task that owns it    *)
  activeProfiles, (* profile -> the operation whose process slot it is      *)
  withPid,        (* operations whose pid the process registry knows        *)
  stopping,       (* operations for which a stop was requested              *)
  process,        (* operation -> its game process, as the OS sees it       *)
  waiter,         (* operation -> [at, verdict] of the task awaiting it     *)
  stopper,        (* stop call -> [of, at, rival], rival when another call  *)
                  (* for the same game had not been refused as it began     *)
  events          (* operation -> launch and game events sent to the UI     *)

gameVars == <<activeProfiles, withPid, stopping, process, waiter, stopper>>
requestVars == <<mutation, request>>
workflowVars == <<registryVars, requestVars, task, gameVars, events>>

RequestKinds == {"mutate", "install", "launch"}
Idle == [kind |-> "none", at |-> "idle"]

(* The awaited stages of LaunchOrchestrator::execute and what follows.     *)
Follows ==
  [ authenticating    |-> {"resolvingMetadata"},
    resolvingMetadata |-> {"resolvingJava"},
    resolvingJava     |-> {"verifying"},
    verifying         |-> {"installing", "building"},
    installing        |-> {"building"},
    building          |-> {"boundary"} ]
Stages == DOMAIN Follows

TaskAt == Stages \cup
  {"none", "boundary", "reserving", "starting", "spawned", "announcing",
   "handedOver", "terminating", "reporting", "installingVersion", "closing",
   "ended"}
Verdicts == Terminal \cup {"none"}
NoTask == [at |-> "none", verdict |-> "none"]

ProcessStates == {"none", "running", "exited", "crashed", "killed"}
WaiterAt == {"none", "waiting", "judging", "clearing", "finishing", "emitting",
             "ended"}
NoWaiter == [at |-> "none", verdict |-> "none"]
NoStop == [of |-> NoOp, at |-> "none", rival |-> FALSE]
TerminalEvents == {"exited", "error"}

GameActive == \E p \in Profiles : activeProfiles[p] # NoOp
ProfileOf(id) == operations[id].subject
GameIsActive(id) == \E p \in Profiles : activeProfiles[p] = id
Ended(id) == process[id] \in {"exited", "crashed", "killed"}

WorkflowInit ==
  /\ RegistryInit
  /\ mutation = NoRequest
  /\ request = [r \in Requests |-> Idle]
  /\ task = [id \in OperationIds |-> NoTask]
  /\ activeProfiles = [p \in Profiles |-> NoOp]
  /\ withPid = {}
  /\ stopping = {}
  /\ process = [id \in OperationIds |-> "none"]
  /\ waiter = [id \in OperationIds |-> NoWaiter]
  /\ stopper = [c \in StopCalls |-> NoStop]
  /\ events = [id \in OperationIds |-> <<>>]

-----------------------------------------------------------------------------
(* Admission of a mutating request: api.rs, dispatch.                      *)

At(r, phase) == request[r].at = phase
MoveRequest(r, phase) == request' = [request EXCEPT ![r].at = phase]
Answer(r) ==
  /\ mutation' = NoRequest
  /\ request' = [request EXCEPT ![r] = Idle]

(* Bound: an operation id that no task has used is left for the request.   *)
IdsLeft == \E id \in OperationIds : task[id] = NoTask

(* try_lock; a request that finds the guard taken is answered "busy".      *)
TryLock(r, kind) ==
  /\ At(r, "idle")
  /\ kind # "mutate" => IdsLeft
  /\ mutation = NoRequest
  /\ mutation' = r
  /\ request' = [request EXCEPT ![r] = [kind |-> kind, at |-> "locked"]]
  /\ UNCHANGED <<registryVars, task, gameVars, events>>

RefuseBusy(r) ==
  /\ At(r, "locked")
  /\ HasActive
  /\ Answer(r)
  /\ UNCHANGED <<registryVars, task, gameVars, events>>

Admit(r) ==
  /\ At(r, "locked")
  /\ ~HasActive
  /\ MoveRequest(r, "admitted")
  /\ UNCHANGED <<mutation, registryVars, task, gameVars, events>>

(* A request that rewrites the build does so while it holds the guard.     *)
(* One that installs or launches may fail before its operation begins: the *)
(* profile cannot be read, or a name is not valid.                         *)
EndMutation(r) ==
  /\ At(r, "admitted")
  /\ Answer(r)
  /\ UNCHANGED <<registryVars, task, gameVars, events>>

(* install_version: the operation outlives the request.                    *)
BeginInstall(r, id, v) ==
  /\ At(r, "admitted")
  /\ request[r].kind = "install"
  /\ task[id] = NoTask
  /\ Begin(id, v)
  /\ task' = [task EXCEPT ![id].at = "installingVersion"]
  /\ MoveRequest(r, "answering")
  /\ UNCHANGED <<mutation, gameVars, events>>

(* LaunchOrchestrator::reserve asks the process registry, then the         *)
(* operation registry; the two locks are not held together.                *)
CheckGame(r) ==
  /\ At(r, "admitted")
  /\ request[r].kind = "launch"
  /\ IF GameActive THEN Answer(r)
                   ELSE MoveRequest(r, "checked") /\ UNCHANGED mutation
  /\ UNCHANGED <<registryVars, task, gameVars, events>>

ReserveLaunch(r, id, p) ==
  /\ At(r, "checked")
  /\ task[id] = NoTask
  /\ BeginLaunch(id, p)
  /\ task' = [task EXCEPT ![id].at = "authenticating"]
  /\ MoveRequest(r, "answering")
  /\ UNCHANGED <<mutation, gameVars, events>>

SendAnswer(r) ==
  /\ At(r, "answering")
  /\ Answer(r)
  /\ UNCHANGED <<registryVars, task, gameVars, events>>

(* cancel_operation needs no guard.                                        *)
CancelOperation(id) ==
  /\ Cancel(id)
  /\ UNCHANGED <<requestVars, task, gameVars, events>>

-----------------------------------------------------------------------------
(* The workflow task: LaunchOrchestrator::execute.                         *)

TaskIs(id, phase) == task[id].at = phase
MoveTask(id, phase) == task' = [task EXCEPT ![id].at = phase]
Fail(id, verdict) ==
  task' = [task EXCEPT ![id] = [at |-> "terminating", verdict |-> verdict]]

(* OperationRegistry::finish: the first verdict stays.                     *)
FinishOnce(id, state) ==
  IF Live(id) THEN Finish(id, state) ELSE UNCHANGED registryVars

(* A stage succeeds.  The token is read after every stage but the          *)
(* verification of the files, whose successor reads it anyway.             *)
StageSucceeds(id) ==
  /\ task[id].at \in Stages
  /\ ~cancelled[id] \/ TaskIs(id, "verifying")
  /\ \E phase \in Follows[task[id].at] : MoveTask(id, phase)
  /\ UNCHANGED <<registryVars, requestVars, gameVars, events>>

(* The stage itself noticed the token, or the check after it did.          *)
StageCancelled(id) ==
  /\ task[id].at \in Stages
  /\ cancelled[id]
  /\ Fail(id, "cancelled")
  /\ UNCHANGED <<registryVars, requestVars, gameVars, events>>

StageFails(id) ==
  /\ task[id].at \in Stages
  /\ Fail(id, "failed")
  /\ UNCHANGED <<registryVars, requestVars, gameVars, events>>

(* Fault: the record is marked without a look at its state.                *)
MarkUnconditionally(id) ==
  /\ TaskIs(id, "boundary")
  /\ operations' =
       [operations EXCEPT ![id].spawned = TRUE, ![id].state = "running"]
  /\ MoveTask(id, "reserving")
  /\ UNCHANGED <<cancelled, activeVersions, activeWorkflow, terminalOrder,
                 requestVars, gameVars, events>>

(* The last moment at which a cancellation can win: mark_spawned.          *)
EnterSpawnBoundary(id) ==
  /\ TaskIs(id, "boundary")
  /\ IF SpawnAllowed(id)
     THEN MarkSpawned(id) /\ MoveTask(id, "reserving")
     ELSE Fail(id, "cancelled") /\ UNCHANGED registryVars
  /\ UNCHANGED <<requestVars, gameVars, events>>

(* Launcher::reserve: one game at a time, whatever its profile.            *)
ReserveProcess(id) ==
  /\ TaskIs(id, "reserving")
  /\ IF GameActive
     THEN Fail(id, "failed") /\ UNCHANGED activeProfiles
     ELSE /\ MoveTask(id, "starting")
          /\ activeProfiles' = [activeProfiles EXCEPT ![ProfileOf(id)] = id]
  /\ UNCHANGED <<registryVars, requestVars, withPid, stopping, process, waiter,
                 stopper, events>>

(* finish_registry: the slot of the profile and the stop flag are cleared. *)
FinishRegistry(id) ==
  /\ activeProfiles' = [activeProfiles EXCEPT ![ProfileOf(id)] = NoOp]
  /\ stopping' = stopping \ {id}

(* The log, a validated path or the spawn itself fails.                    *)
StartFails(id) ==
  /\ TaskIs(id, "starting")
  /\ FinishRegistry(id)
  /\ Fail(id, "failed")
  /\ UNCHANGED <<registryVars, requestVars, withPid, process, waiter, stopper,
                 events>>

SpawnChild(id) ==
  /\ TaskIs(id, "starting")
  /\ process' = [process EXCEPT ![id] = "running"]
  /\ MoveTask(id, "spawned")
  /\ UNCHANGED <<registryVars, requestVars, activeProfiles, withPid, stopping,
                 waiter, stopper, events>>

(* Fault: the task that waits for the child exists before the start has    *)
(* been announced.                                                         *)
RecordPidAndWait(id) ==
  /\ TaskIs(id, "spawned")
  /\ withPid' = withPid \cup {id}
  /\ waiter' = [waiter EXCEPT ![id].at = "waiting"]
  /\ MoveTask(id, "announcing")
  /\ UNCHANGED <<registryVars, requestVars, activeProfiles, stopping, process,
                 stopper, events>>

RecordPid(id) ==
  /\ TaskIs(id, "spawned")
  /\ withPid' = withPid \cup {id}
  /\ MoveTask(id, "announcing")
  /\ UNCHANGED <<registryVars, requestVars, activeProfiles, stopping, process,
                 waiter, stopper, events>>

Emit(id, event) == events' = [events EXCEPT ![id] = Append(@, event)]

(* Started is sent before the task that waits for the child exists.        *)
AnnounceStart(id) ==
  /\ TaskIs(id, "announcing")
  /\ Emit(id, "started")
  /\ waiter' = [waiter EXCEPT ![id].at = "waiting"]
  /\ MoveTask(id, "handedOver")
  /\ UNCHANGED <<registryVars, requestVars, activeProfiles, withPid, stopping,
                 process, stopper>>

(* terminate: the verdict is stored first, then the error is sent.         *)
Terminate(id) ==
  /\ TaskIs(id, "terminating")
  /\ FinishOnce(id, task[id].verdict)
  /\ MoveTask(id, "reporting")
  /\ UNCHANGED <<requestVars, gameVars, events>>

ReportError(id) ==
  /\ TaskIs(id, "reporting")
  /\ Emit(id, "error")
  /\ MoveTask(id, "ended")
  /\ UNCHANGED <<registryVars, requestVars, gameVars>>

(* The task of install_version: the installer returns, then the verdict is *)
(* stored.  An installation that completes in spite of a cancellation is   *)
(* completed.                                                              *)
InstallerReturns(id, verdict) ==
  /\ TaskIs(id, "installingVersion")
  /\ verdict = "cancelled" => cancelled[id]
  /\ task' = [task EXCEPT ![id] = [at |-> "closing", verdict |-> verdict]]
  /\ UNCHANGED <<registryVars, requestVars, gameVars, events>>

CloseInstall(id) ==
  /\ TaskIs(id, "closing")
  /\ FinishOnce(id, task[id].verdict)
  /\ MoveTask(id, "ended")
  /\ UNCHANGED <<requestVars, gameVars, events>>

-----------------------------------------------------------------------------
(* The game process, the task that waits for it and the call that stops it.*)

GameEnds(id, how) ==
  /\ process[id] = "running"
  /\ process' = [process EXCEPT ![id] = how]
  /\ UNCHANGED <<registryVars, requestVars, task, activeProfiles, withPid,
                 stopping, waiter, stopper, events>>

WaiterIs(id, phase) == waiter[id].at = phase
MoveWaiter(id, phase) == waiter' = [waiter EXCEPT ![id].at = phase]

(* Fault: the wait returns while the child runs.                           *)
ChildAbandoned(id) ==
  /\ WaiterIs(id, "waiting")
  /\ MoveWaiter(id, "judging")
  /\ UNCHANGED <<registryVars, requestVars, task, activeProfiles, withPid,
                 stopping, process, stopper, events>>

ChildReaped(id) ==
  /\ WaiterIs(id, "waiting")
  /\ Ended(id)
  /\ MoveWaiter(id, "judging")
  /\ UNCHANGED <<registryVars, requestVars, task, activeProfiles, withPid,
                 stopping, process, stopper, events>>

(* The wait itself fails: dropping the child kills it.                     *)
WaitFails(id) ==
  /\ WaiterIs(id, "waiting")
  /\ process' = [process EXCEPT ![id] = IF @ = "running" THEN "killed" ELSE @]
  /\ waiter' = [waiter EXCEPT ![id] = [at |-> "clearing", verdict |-> "lost"]]
  /\ UNCHANGED <<registryVars, requestVars, task, activeProfiles, withPid,
                 stopping, stopper, events>>

(* Fault: the exit code alone decides.                                     *)
JudgeByExitCode(id) ==
  /\ WaiterIs(id, "judging")
  /\ waiter' = [waiter EXCEPT ![id] =
       [at |-> "clearing",
        verdict |-> IF process[id] = "exited" THEN "exited" ELSE "error"]]
  /\ UNCHANGED <<registryVars, requestVars, task, activeProfiles, withPid,
                 stopping, process, stopper, events>>

(* stop_was_requested: an exit the user asked for is not an error.         *)
JudgeExit(id) ==
  /\ WaiterIs(id, "judging")
  /\ waiter' = [waiter EXCEPT ![id] =
       [at |-> "clearing",
        verdict |-> IF id \in stopping \/ process[id] = "exited"
                    THEN "exited" ELSE "error"]]
  /\ UNCHANGED <<registryVars, requestVars, task, activeProfiles, withPid,
                 stopping, process, stopper, events>>

ClearProcess(id) ==
  /\ WaiterIs(id, "clearing")
  /\ FinishRegistry(id)
  /\ MoveWaiter(id, "finishing")
  /\ UNCHANGED <<registryVars, requestVars, task, withPid, process, stopper,
                 events>>

(* GameEventSink::emit stores the verdict before it forwards the event.    *)
FinishGameOperation(id) ==
  /\ WaiterIs(id, "finishing")
  /\ FinishOnce(id, IF waiter[id].verdict = "exited" THEN "completed" ELSE "failed")
  /\ MoveWaiter(id, "emitting")
  /\ UNCHANGED <<requestVars, task, activeProfiles, withPid, stopping, process,
                 stopper, events>>

(* Fault: a failed wait is not reported.                                   *)
ForwardKnownExit(id) ==
  /\ WaiterIs(id, "emitting")
  /\ IF waiter[id].verdict = "lost" THEN UNCHANGED events
                                     ELSE Emit(id, waiter[id].verdict)
  /\ MoveWaiter(id, "ended")
  /\ UNCHANGED <<registryVars, requestVars, task, activeProfiles, withPid,
                 stopping, process, stopper>>

ForwardGameEvent(id) ==
  /\ WaiterIs(id, "emitting")
  /\ Emit(id, IF waiter[id].verdict = "exited" THEN "exited" ELSE "error")
  /\ MoveWaiter(id, "ended")
  /\ UNCHANGED <<registryVars, requestVars, task, activeProfiles, withPid,
                 stopping, process, stopper>>

(* Launcher::stop.  One interface (GameActivity.tsx) makes one call at a    *)
(* time and none after a success; the other (window.cpp, cancel) does not  *)
(* hold back, so two calls may stop the same game.                         *)
Stops(c, id) == stopper[c].of = id /\ stopper[c].at # "refused"
StopAt(c, id, phase) == stopper[c].of = id /\ stopper[c].at = phase
MoveStop(c, phase) == stopper' = [stopper EXCEPT ![c].at = phase]

(* Calls differ in nothing but their name: the one made next has a fixed   *)
(* name, which saves TLC the others.                                       *)
NextCall == CHOOSE c \in StopCalls : stopper[c] = NoStop

RequestStop(c, id) ==
  /\ stopper[c] = NoStop /\ c = NextCall
  /\ GameIsActive(id)
  /\ id \in withPid
  /\ stopping' = stopping \cup {id}
  /\ stopper' = [stopper EXCEPT ![c] =
       [of |-> id, at |-> "killing", rival |-> \E d \in StopCalls : Stops(d, id)]]
  /\ UNCHANGED <<registryVars, requestVars, task, activeProfiles, withPid,
                 process, waiter, events>>

(* taskkill, outside the lock.                                             *)
KillGame(c, id) ==
  /\ StopAt(c, id, "killing")
  /\ process[id] = "running"
  /\ process' = [process EXCEPT ![id] = "killed"]
  /\ MoveStop(c, "stopped")
  /\ UNCHANGED <<registryVars, requestVars, task, activeProfiles, withPid,
                 stopping, waiter, events>>

(* It fails when the process is gone already, or is refused.               *)
KillFails(c, id) ==
  /\ StopAt(c, id, "killing")
  /\ MoveStop(c, "withdrawing")
  /\ UNCHANGED <<registryVars, requestVars, task, activeProfiles, withPid,
                 stopping, process, waiter, events>>

WithdrawStop(c, id) ==
  /\ StopAt(c, id, "withdrawing")
  /\ stopping' = stopping \ {id}
  /\ MoveStop(c, "refused")
  /\ UNCHANGED <<registryVars, requestVars, task, activeProfiles, withPid,
                 process, waiter, events>>

-----------------------------------------------------------------------------
RequestStep(r) ==
  \/ RefuseBusy(r)
  \/ Admit(r)
  \/ EndMutation(r)
  \/ \E id \in OperationIds, v \in Versions : BeginInstall(r, id, v)
  \/ CheckGame(r)
  \/ \E id \in OperationIds, p \in Profiles : ReserveLaunch(r, id, p)
  \/ SendAnswer(r)

TaskStep(id) ==
  \/ StageSucceeds(id) \/ StageCancelled(id) \/ StageFails(id)
  \/ EnterSpawnBoundary(id)
  \/ ReserveProcess(id)
  \/ StartFails(id) \/ SpawnChild(id)
  \/ RecordPid(id)
  \/ AnnounceStart(id)
  \/ Terminate(id)
  \/ ReportError(id)
  \/ \E verdict \in Terminal : InstallerReturns(id, verdict)
  \/ CloseInstall(id)

WaiterStep(id) ==
  \/ ChildReaped(id)
  \/ JudgeExit(id)
  \/ ClearProcess(id)
  \/ FinishGameOperation(id)
  \/ ForwardGameEvent(id)

StopperStep(c, id) == KillGame(c, id) \/ KillFails(c, id) \/ WithdrawStop(c, id)

WorkflowNext ==
  \/ \E r \in Requests :
       \/ \E kind \in RequestKinds : TryLock(r, kind)
       \/ RequestStep(r)
  \/ \E id \in OperationIds :
       \/ CancelOperation(id)
       \/ TaskStep(id)
       \/ WaiterStep(id)
       \/ WaitFails(id)
       \/ \E c \in StopCalls : RequestStop(c, id) \/ StopperStep(c, id)
       \/ \E how \in {"exited", "crashed"} : GameEnds(id, how)

WorkflowSafety == WorkflowInit /\ [][WorkflowNext]_workflowVars

(* Spawned tasks run to their end.  Nothing obliges the user to send a     *)
(* request, cancel or stop, nor the game to end; and what is promised      *)
(* waits for no request and no call of stop_game, so these may stall.      *)
WorkflowFairness ==
  \A id \in OperationIds : WF_workflowVars(TaskStep(id)) /\ WF_workflowVars(WaiterStep(id))

WorkflowSpec == WorkflowSafety /\ WorkflowFairness

-----------------------------------------------------------------------------
Running(id) == process[id] = "running"
Rewrites(r) == request[r].kind = "mutate" /\ At(r, "admitted")

(* A request that rewrites the build is never admitted while a game runs,  *)
(* or while a launch or an installation is in progress: the check of       *)
(* has_active under the guard, and a registry that keeps the operation     *)
(* live until the child has been reaped, must fit together.                *)
MutationExcludesGame ==
  (\E r \in Requests : Rewrites(r)) =>
    \A id \in OperationIds : ~Live(id) /\ ~Running(id)

(* A cancellation that was accepted is final: no game starts after it.     *)
CancelledNeverPlays ==
  \A id \in OperationIds : cancelled[id] => process[id] = "none"

(* The user interface is told once how a launch ended, and never that it   *)
(* started after that, although two tasks report about it; and when it is  *)
(* told, both registries have let go of the launch: the user's next        *)
(* request is not refused because of it.                                   *)
EndIsLastAndFree ==
  \A id \in OperationIds : \A i \in 1..Len(events[id]) :
    events[id][i] \in TerminalEvents =>
      i = Len(events[id]) /\ ~Live(id) /\ ~GameIsActive(id)

(* A stop that succeeded is never reported as a crash of the game: the     *)
(* flag is set before the kill and survives until the exit is judged.      *)
(* (A rival call that fails, because the first has killed the game, takes  *)
(* the flag of both away: the promise holds for calls without a rival.)    *)
StopEndsCleanly ==
  \A id \in OperationIds :
    /\ \E c \in StopCalls : StopAt(c, id, "stopped")
    /\ \A c \in StopCalls : stopper[c].of = id => ~stopper[c].rival
    => waiter[id].verdict # "error"

(* An operation is finished once: whoever is about to store the verdict    *)
(* finds it live, so the exit code of a game is never swallowed by an      *)
(* earlier verdict.                                                        *)
VerdictIsStored ==
  \A id \in OperationIds :
    TaskIs(id, "terminating") \/ TaskIs(id, "closing")
      \/ waiter[id].at \in {"waiting", "judging", "clearing", "finishing"}
    => Live(id)

(* A cancellation that was accepted ends the operation, whatever stage it  *)
(* has reached.                                                            *)
CancelIsHonoured ==
  \A id \in OperationIds : (Live(id) /\ cancelled[id]) ~> ~Live(id)

(* However a game ends, the interface is told.                             *)
GameEndIsReported ==
  \A id \in OperationIds :
    Ended(id) ~> (\E i \in 1..Len(events[id]) : events[id][i] \in TerminalEvents)

(* The composition implements exclusive use of the build.                  *)
Users == {r \in Requests : Rewrites(r)} \cup {id \in OperationIds : Live(id)}
Games == {id \in OperationIds : Running(id)}
Served == {id \in OperationIds : task[id] # NoTask /\ ~Live(id)}
HavePlayed == {id \in OperationIds : process[id] # "none"}

Exclusive == INSTANCE ExclusiveUse WITH
  Writers <- Requests,
  Jobs <- OperationIds,
  users <- Users,
  served <- Served,
  games <- Games,
  played <- HavePlayed

ExclusiveUseSpec == Exclusive!UseSpec
=============================================================================
