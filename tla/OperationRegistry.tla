------------------------- MODULE OperationRegistry -------------------------
(***************************************************************************)
(* The registry of installations and launch workflows                      *)
(* (crates/launcher-core/src/installer/mod.rs, OperationRegistry).         *)
(*                                                                         *)
(* One mutex guards the whole structure, so each method is one action.     *)
(* A rejected call returns an error and changes nothing: it is a           *)
(* stuttering step and has no action of its own.  The cancellation token   *)
(* is shared with the task that runs the operation and outlives the        *)
(* record, so it is a variable of its own.                                 *)
(***************************************************************************)
EXTENDS Naturals, Sequences

CONSTANTS
  OperationIds,           (* the random 64-bit ids, assumed not to collide *)
  Versions,               (* Minecraft version ids                         *)
  Profiles,               (* launcher profile ids                          *)
  NoOp,                   (* Option::None where an operation id may stand  *)
  MaxTerminalOperations   (* terminal records kept for status queries      *)

ASSUME NoOpAssumption == NoOp \notin OperationIds
ASSUME SubjectAssumption == Versions \cap Profiles = {}
ASSUME MaxTerminalAssumption == MaxTerminalOperations \in Nat

VARIABLES
  operations,       (* id -> its record, or NoRecord when it is not in the map *)
  cancelled,        (* id -> whether its cancellation token has fired          *)
  activeVersions,   (* version -> the installation that holds it, or NoOp      *)
  activeWorkflow,   (* the launch workflow in progress, or NoOp                *)
  terminalOrder     (* finished operations, oldest first                       *)

registryVars ==
  <<operations, cancelled, activeVersions, activeWorkflow, terminalOrder>>

Terminal == {"completed", "cancelled", "failed"}
OperationState == {"running", "cancelling"} \cup Terminal

(* OperationRecord: the subject of an installation is its version, that of *)
(* a workflow its profile.                                                 *)
Record ==
  [subject : Versions \cup Profiles, state : OperationState, spawned : BOOLEAN]

NoRecord == [subject |-> NoOp, state |-> "absent", spawned |-> FALSE]

Present(id) == operations[id] # NoRecord
IsWorkflow(id) == operations[id].subject \in Profiles
Live(id) == Present(id) /\ operations[id].state \notin Terminal

Fresh(subject) == [subject |-> subject, state |-> "running", spawned |-> FALSE]

(* Fault: installations alone count as activity.                           *)
HasActiveInstallation == \E v \in Versions : activeVersions[v] # NoOp

(* OperationRegistry::has_active, which every mutating request asks first. *)
HasActive ==
  \/ activeWorkflow # NoOp
  \/ \E v \in Versions : activeVersions[v] # NoOp

RegistryInit ==
  /\ operations = [id \in OperationIds |-> NoRecord]
  /\ cancelled = [id \in OperationIds |-> FALSE]
  /\ activeVersions = [v \in Versions |-> NoOp]
  /\ activeWorkflow = NoOp
  /\ terminalOrder = <<>>

(* An installation of one version: refused while a workflow is active or   *)
(* the same version is already being installed.                            *)
Begin(id, v) ==
  /\ ~Present(id)
  /\ activeWorkflow = NoOp
  /\ activeVersions[v] = NoOp
  /\ activeVersions' = [activeVersions EXCEPT ![v] = id]
  /\ operations' = [operations EXCEPT ![id] = Fresh(v)]
  /\ cancelled' = [cancelled EXCEPT ![id] = FALSE]
  /\ UNCHANGED <<activeWorkflow, terminalOrder>>

(* A launch workflow: refused while anything at all is active.             *)
BeginLaunch(id, p) ==
  /\ ~Present(id)
  /\ ~HasActive
  /\ activeWorkflow' = id
  /\ operations' = [operations EXCEPT ![id] = Fresh(p)]
  /\ cancelled' = [cancelled EXCEPT ![id] = FALSE]
  /\ UNCHANGED <<activeVersions, terminalOrder>>

(* A cancellation is accepted until the operation ends or its game starts; *)
(* afterwards the call succeeds without effect.                            *)
Cancel(id) ==
  /\ Live(id)
  /\ ~operations[id].spawned
  /\ cancelled' = [cancelled EXCEPT ![id] = TRUE]
  /\ operations' = [operations EXCEPT ![id].state = "cancelling"]
  /\ UNCHANGED <<activeVersions, activeWorkflow, terminalOrder>>

(* Fault: a cancellation that came first is overlooked.                    *)
SpawnAllowedUnasked(id) == Present(id) /\ IsWorkflow(id)

(* mark_spawned succeeds only if no cancellation came first.               *)
SpawnAllowed(id) ==
  /\ Present(id)
  /\ IsWorkflow(id)
  /\ ~cancelled[id]
  /\ operations[id].state # "cancelling"

MarkSpawned(id) ==
  /\ SpawnAllowed(id)
  /\ operations' =
       [operations EXCEPT ![id].spawned = TRUE, ![id].state = "running"]
  /\ UNCHANGED <<cancelled, activeVersions, activeWorkflow, terminalOrder>>

(* Pushing one id makes the order at most one too long, so the eviction    *)
(* loop of finish runs at most once.                                       *)
Evicts(order) == Len(order) > MaxTerminalOperations
Trimmed(order) == IF Evicts(order) THEN Tail(order) ELSE order

(* The first terminal state wins: finishing a terminal operation again is  *)
(* Ok(()) and changes nothing.                                             *)
Finish(id, state) ==
  LET order == Append(terminalOrder, id)
      ended == [operations EXCEPT ![id].state = state]
  IN  /\ Live(id)
      /\ operations' = IF Evicts(order)
                       THEN [ended EXCEPT ![Head(order)] = NoRecord]
                       ELSE ended
      /\ terminalOrder' = Trimmed(order)
      /\ activeVersions' = [v \in Versions |->
           IF operations[id].subject = v THEN NoOp ELSE activeVersions[v]]
      /\ activeWorkflow' =
           IF IsWorkflow(id) /\ activeWorkflow = id THEN NoOp ELSE activeWorkflow
      /\ UNCHANGED cancelled

(***************************************************************************)
(* The registry on its own, used by clients that follow no discipline but  *)
(* this: a record is marked spawned only while it is live, which is what   *)
(* the workflow task does with the operation it owns.                      *)
(***************************************************************************)
RegistryNext ==
  \E id \in OperationIds :
    \/ \E v \in Versions : Begin(id, v)
    \/ \E p \in Profiles : BeginLaunch(id, p)
    \/ Cancel(id)
    \/ Live(id) /\ MarkSpawned(id)
    \/ \E state \in Terminal : Finish(id, state)

RegistrySpec == RegistryInit /\ [][RegistryNext]_registryVars

-----------------------------------------------------------------------------
(* The state is well formed.                                               *)
RegistryTypeOK ==
  /\ operations \in [OperationIds -> Record \cup {NoRecord}]
  /\ cancelled \in [OperationIds -> BOOLEAN]
  /\ activeVersions \in [Versions -> OperationIds \cup {NoOp}]
  /\ activeWorkflow \in OperationIds \cup {NoOp}
  /\ terminalOrder \in Seq(OperationIds)

(* A game or its preparation never overlaps an installation.              *)
WorkflowExcludesInstallations ==
  activeWorkflow # NoOp => \A v \in Versions : activeVersions[v] = NoOp

(* Whoever holds a slot is live, with that very subject.                   *)
ActiveIsLive ==
  /\ activeWorkflow # NoOp => Live(activeWorkflow) /\ IsWorkflow(activeWorkflow)
  /\ \A v \in Versions : activeVersions[v] # NoOp =>
       /\ Live(activeVersions[v])
       /\ operations[activeVersions[v]].subject = v

(* A live operation holds its slot.                                        *)
LiveIsActive ==
  \A id \in OperationIds : Live(id) =>
    IF IsWorkflow(id) THEN activeWorkflow = id
    ELSE activeVersions[operations[id].subject] = id

(* The activity maps and the records, updated in different methods, agree  *)
(* all the time: has_active is true exactly until the last operation has   *)
(* finished, no expired record can pin a slot for ever, and a launch never *)
(* overlaps an installation.                                               *)
SlotsMatchRecords ==
  WorkflowExcludesInstallations /\ ActiveIsLive /\ LiveIsActive

(* The history of finished operations is bounded, names each at most once  *)
(* and only terminal ones: eviction never drops a live operation.          *)
TerminalHistory ==
  /\ Len(terminalOrder) <= MaxTerminalOperations
  /\ \A i \in 1..Len(terminalOrder) :
       Present(terminalOrder[i]) /\ ~Live(terminalOrder[i])
  /\ \A i, j \in 1..Len(terminalOrder) :
       terminalOrder[i] = terminalOrder[j] => i = j

(* A token fires only together with the state the user sees: a live        *)
(* operation whose token fired is cancelling, and one whose game has       *)
(* started cannot be cancelled any more.                                   *)
TokenMatchesState ==
  \A id \in OperationIds : Live(id) =>
    /\ cancelled[id] <=> operations[id].state = "cancelling"
    /\ operations[id].spawned => ~cancelled[id]

(* The inductive invariant.                                                *)
RegistryInv ==
  /\ RegistryTypeOK
  /\ SlotsMatchRecords
  /\ TerminalHistory
  /\ TokenMatchesState

(* The first verdict is final: a terminal record never changes again; it   *)
(* can only be evicted.                                                    *)
FirstVerdictIsFinal ==
  [][\A id \in OperationIds :
       Present(id) /\ ~Live(id) =>
         operations'[id] \in {operations[id], NoRecord}]_registryVars
=============================================================================
