------------------------- MODULE UpdateTransaction -------------------------
(***************************************************************************)
(* An update, from the launcher that downloads a package                   *)
(* (launcher-core/src/updates.rs) to the updater that comes with it        *)
(* (crates/launcher-updater): it waits for the launcher that               *)
(* started it to exit, copies the new files beside the old ones, and then  *)
(* replaces one file after the other with a journal kept in memory, from   *)
(* which it rolls back when a step fails.                                  *)
(*                                                                         *)
(* Several updaters may aim at one installation; a named mutex lets one    *)
(* work at a time, and Windows releases it if its owner dies.              *)
(*                                                                         *)
(* The content of an installed file is the package it came from.           *)
(***************************************************************************)
EXTENDS Naturals, Sequences, SequencesExt

CONSTANTS
  Updaters,   (* updater processes, each with a package of its own *)
  Package,    (* the files of a package, in the order of replacing *)
  OldFiles,   (* those the installation already has                *)
  Old,        (* content of the version installed at first         *)
  Missing,    (* no such file                                      *)
  NoUpdater   (* the mutex is free                                 *)

ASSUME UpdateAssumption ==
  /\ Len(Package) > 0
  /\ Package \in Seq(ToSet(Package)) /\ IsInjective(Package)
  /\ OldFiles \subseteq ToSet(Package)
  /\ Old \notin Updaters /\ Missing \notin Updaters /\ Old # Missing
  /\ NoUpdater \notin Updaters

VARIABLES
  launcher,   (* updater -> whether the launcher that started it still runs *)
  updater,    (* updater -> [at, next, failed, sound]: phase, position,     *)
              (* whether some step of the rollback has failed, and whether  *)
              (* the package is the one that was signed                     *)
  lock,       (* who holds the mutex of the installation                    *)
  target,     (* file -> content installed                                  *)
  backups,    (* updater -> file -> content in its backup directory         *)
  changes,    (* updater -> its journal: [previous, installed] per file     *)
  before      (* updater -> the installation it found (history)             *)

updateVars == <<launcher, updater, lock, target, backups, changes, before>>

Files == ToSet(Package)
Nothing == [f \in Files |-> Missing]
At(u, phase) == updater[u].at = phase
MoveTo(u, phase) == updater' = [updater EXCEPT ![u].at = phase]

UpdateInit ==
  /\ launcher = [u \in Updaters |-> TRUE]
  /\ updater = [u \in Updaters |-> [at |-> "asked", next |-> 1, failed |-> FALSE,
                                  sound |-> FALSE]]
  /\ lock = NoUpdater
  /\ target = [f \in Files |-> IF f \in OldFiles THEN Old ELSE Missing]
  /\ backups = [u \in Updaters |-> Nothing]
  /\ changes = [u \in Updaters |-> <<>>]
  /\ before = [u \in Updaters |-> Nothing]

-----------------------------------------------------------------------------
(* install_update, in the core of the running launcher: both downloads,    *)
(* whatever they bring;                                                    *)
Prepares(u, from, to) ==
  /\ At(u, from) /\ launcher[u]
  /\ MoveTo(u, to)
  /\ UNCHANGED <<launcher, lock, target, backups, changes, before>>

Download(u) ==
  /\ At(u, "asked") /\ launcher[u]
  /\ \E sound \in BOOLEAN :
       updater' = [updater EXCEPT ![u].at = "downloaded", ![u].sound = sound]
  /\ UNCHANGED <<launcher, lock, target, backups, changes, before>>

(* the signature of the release key over the whole package;                *)
Verify(u) == updater[u].sound /\ Prepares(u, "downloaded", "verified")

(* its files, within bounds, into a directory that has never been used;    *)
Extract(u) == Prepares(u, "verified", "extracted")

(* and the updater that was among them is started.                         *)
StartUpdater(u) == Prepares(u, "extracted", "starting")

(* Any of it fails or is cancelled, or the launcher ends on the way: no    *)
(* updater is ever started.                                                *)
HandOverFails(u) ==
  /\ updater[u].at \in {"asked", "downloaded", "verified", "extracted"}
  /\ MoveTo(u, "refused")
  /\ UNCHANGED <<launcher, lock, target, backups, changes, before>>

-----------------------------------------------------------------------------
(* windows::lock: an installation another updater works on is refused.     *)
TakeLock(u) ==
  /\ At(u, "starting")
  /\ IF lock = NoUpdater
     THEN lock' = u /\ MoveTo(u, "waiting")
     ELSE MoveTo(u, "refused") /\ UNCHANGED lock
  /\ UNCHANGED <<launcher, target, backups, changes, before>>

LauncherExits(u) ==
  /\ launcher[u]
  /\ launcher' = [launcher EXCEPT ![u] = FALSE]
  /\ UNCHANGED <<updater, lock, target, backups, changes, before>>

Unlock(u, phase) == lock' = NoUpdater /\ MoveTo(u, phase)

(* after_process_exit: no file is touched unless the launcher has exited.  *)
WaitSucceeds(u) ==
  /\ At(u, "waiting")
  /\ ~launcher[u]
  /\ MoveTo(u, "preparing")
  /\ UNCHANGED <<launcher, lock, target, backups, changes, before>>

(* After thirty seconds, or because the process cannot be waited for.      *)
WaitFails(u) ==
  /\ At(u, "waiting")
  /\ Unlock(u, "refused")
  /\ UNCHANGED <<launcher, target, backups, changes, before>>

(* The checks of the package and of its destinations, and the copy of the  *)
(* new files into the workspace.                                           *)
Prepare(u) ==
  /\ At(u, "preparing")
  /\ MoveTo(u, "replacing")
  /\ before' = [before EXCEPT ![u] = target]
  /\ UNCHANGED <<launcher, lock, target, backups, changes>>

PrepareFails(u) ==
  /\ At(u, "preparing")
  /\ Unlock(u, "refused")
  /\ UNCHANGED <<launcher, target, backups, changes, before>>

Current(u) == Package[updater[u].next]

(* The old file goes to the backups, and the change into the journal.      *)
BackUp(u) ==
  LET f == Current(u)
  IN  /\ At(u, "replacing")
      /\ backups' = [backups EXCEPT ![u][f] = target[f]]
      /\ target' = [target EXCEPT ![f] = Missing]
      /\ changes' = [changes EXCEPT ![u] = Append(@,
           [previous |-> target[f] # Missing, installed |-> FALSE])]
      /\ MoveTo(u, "installing")
      /\ UNCHANGED <<launcher, lock, before>>

Install(u) ==
  /\ At(u, "installing")
  /\ target' = [target EXCEPT ![Current(u)] = u]
  /\ changes' = [changes EXCEPT ![u][updater[u].next].installed = TRUE]
  /\ updater' = IF updater[u].next = Len(Package)
                THEN [updater EXCEPT ![u].at = "installed"]
                ELSE [updater EXCEPT ![u].at = "replacing", ![u].next = @ + 1]
  /\ UNCHANGED <<launcher, lock, backups, before>>

(* A rename fails for good: roll back, the latest change first.  A failed  *)
(* backup has not entered the journal.                                     *)
ReplaceFails(u) ==
  /\ updater[u].at \in {"replacing", "installing"}
  /\ updater' = [updater EXCEPT ![u].at = "undoing", ![u].next = Len(changes[u])]
  /\ UNCHANGED <<launcher, lock, target, backups, changes, before>>

NextUndo(u, failed) ==
  updater' = [updater EXCEPT ![u].at = "undoing", ![u].next = @ - 1,
                             ![u].failed = @ \/ failed]

(* remove_file of what was installed.                                      *)
RemoveInstalled(u) ==
  /\ At(u, "undoing")
  /\ updater[u].next > 0
  /\ IF changes[u][updater[u].next].installed
     THEN target' = [target EXCEPT ![Current(u)] = Missing]
     ELSE UNCHANGED target
  /\ MoveTo(u, "restoring")
  /\ UNCHANGED <<launcher, lock, backups, changes, before>>

(* The rename of the backup onto its old place.                            *)
RestoreBackup(u) ==
  /\ At(u, "restoring")
  /\ IF changes[u][updater[u].next].previous
     THEN /\ target' = [target EXCEPT ![Current(u)] = backups[u][Current(u)]]
          /\ backups' = [backups EXCEPT ![u][Current(u)] = Missing]
     ELSE UNCHANGED <<target, backups>>
  /\ NextUndo(u, FALSE)
  /\ UNCHANGED <<launcher, lock, changes, before>>

(* Either part of it fails; the rollback goes on with the next change.     *)
UndoFails(u) ==
  /\ \/ At(u, "undoing") /\ updater[u].next > 0
     \/ At(u, "restoring") /\ changes[u][updater[u].next].previous
  /\ NextUndo(u, TRUE)
  /\ UNCHANGED <<launcher, lock, target, backups, changes, before>>

(* Fault: every rollback claims success.                                   *)
EndRollbackRestored(u) ==
  /\ At(u, "undoing")
  /\ updater[u].next = 0
  /\ MoveTo(u, "restored")
  /\ UNCHANGED <<launcher, lock, target, backups, changes, before>>

(* The backups are kept only if some of them could not be put back.        *)
EndRollback(u) ==
  /\ At(u, "undoing")
  /\ updater[u].next = 0
  /\ MoveTo(u, IF updater[u].failed THEN "inconsistent" ELSE "restored")
  /\ UNCHANGED <<launcher, lock, target, backups, changes, before>>

(* Fault: the workspace goes even if it holds the last copy of a file.     *)
LeaveClean(u) ==
  /\ updater[u].at \in {"installed", "restored", "inconsistent"}
  /\ lock = u
  /\ lock' = NoUpdater
  /\ backups' = [backups EXCEPT ![u] = Nothing]
  /\ UNCHANGED <<launcher, updater, target, changes, before>>

(* remove_dir_all of the workspace, and the mutex is released.             *)
Leave(u) ==
  /\ updater[u].at \in {"installed", "restored", "inconsistent"}
  /\ lock = u
  /\ lock' = NoUpdater
  /\ backups' = IF At(u, "inconsistent") THEN backups
                ELSE [backups EXCEPT ![u] = Nothing]
  /\ UNCHANGED <<launcher, updater, target, changes, before>>

(* The updater is killed or the power fails: the journal is gone.          *)
Crash(u) ==
  /\ lock = u
  /\ Unlock(u, "crashed")
  /\ UNCHANGED <<launcher, target, backups, changes, before>>

UpdaterStep(u) ==
  \/ Download(u) \/ Verify(u) \/ Extract(u) \/ StartUpdater(u) \/ HandOverFails(u)
  \/ TakeLock(u)
  \/ WaitSucceeds(u) \/ WaitFails(u)
  \/ Prepare(u) \/ PrepareFails(u)
  \/ BackUp(u) \/ Install(u) \/ ReplaceFails(u)
  \/ RemoveInstalled(u) \/ RestoreBackup(u) \/ UndoFails(u) \/ EndRollback(u)
  \/ Leave(u)

UpdateNext == \E u \in Updaters : LauncherExits(u) \/ UpdaterStep(u) \/ Crash(u)

UpdateSpec == UpdateInit /\ [][UpdateNext]_updateVars

-----------------------------------------------------------------------------
Phases == {"asked", "downloaded", "verified", "extracted", "starting",
           "refused", "waiting", "preparing", "replacing", "installing",
           "undoing", "restoring", "installed", "restored", "inconsistent",
           "crashed"}

(* The state is well formed.                                               *)
UpdateTypeOK ==
  LET content == Updaters \cup {Old, Missing}
  IN  /\ launcher \in [Updaters -> BOOLEAN]
      /\ updater \in [Updaters ->
           [at : Phases, next : 0..Len(Package), failed : BOOLEAN, sound : BOOLEAN]]
      /\ lock \in Updaters \cup {NoUpdater}
      /\ target \in [Files -> content]
      /\ backups \in [Updaters -> [Files -> content]]
      /\ changes \in [Updaters -> Seq([previous : BOOLEAN, installed : BOOLEAN])]
      /\ before \in [Updaters -> [Files -> content]]

(* All or nothing: an updater that has not crashed ends with every file of *)
(* its package installed, and that the signed one, or with exactly the     *)
(* installation it found, unless it says that the rollback failed          *)
(* (install_update, apply_with).                                           *)
AllOrNothing ==
  \A u \in Updaters : lock = u =>
    /\ At(u, "installed") => updater[u].sound /\ \A f \in Files : target[f] = u
    /\ At(u, "restored") => target = before[u]

(* The files of the first installation are never lost before an update has *)
(* succeeded completely: whatever fails, crashes or comes next, each is    *)
(* in its place or in a backup directory.                                  *)
OldFilesArePreserved ==
  (\A u \in Updaters : ~At(u, "installed")) =>
    \A f \in OldFiles :
      target[f] = Old \/ \E u \in Updaters : backups[u][f] = Old

=============================================================================
