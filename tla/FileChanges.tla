----------------------------- MODULE FileChanges -----------------------------
(***************************************************************************)
(* FileTransaction (commands/content/security.rs): files of a build are    *)
(* replaced and removed one after the other, each old file being moved     *)
(* into a directory of its own first.  Unless the transaction is committed *)
(* its end undoes the changes, last change first; a directory with a file  *)
(* that could not be moved back is left there, and so is every such        *)
(* directory when the process ends.                                        *)
(***************************************************************************)
EXTENDS Naturals, Sequences, SequencesExt

CONSTANTS
  Builds, NoBuild,
  Paths,        (* files of a build, as relative paths                     *)
  MaxErrors     (* bound: errors of the disk and the database              *)

VARIABLES
  disk,    (* build -> path -> content, or Absent                          *)
  stray,   (* build -> files in rollback directories nobody looks into     *)
  tx,      (* [at, build, todo, done, failed]: the one transaction         *)
  torn,    (* build -> whether files and rows may disagree, because an     *)
           (* undo failed or the process ended on the way (history)        *)
  errors

fileVars == <<disk, stray, tx, torn, errors>>

Absent == "absent"
Sound == "sound"      (* what the launcher has put there                   *)
Edited == "edited"    (* the user has changed it since                     *)

(* A change puts a new file at a path, or takes the file away.             *)
Put(path) == [path |-> path, to |-> Sound]
Take(path) == [path |-> path, to |-> Absent]

NoTx == [at |-> "none", build |-> NoBuild, todo |-> <<>>, done |-> <<>>, failed |-> FALSE]

Error == errors < MaxErrors /\ errors' = errors + 1
NoError == UNCHANGED errors

FilesInit ==
  /\ disk = [b \in Builds |-> [p \in Paths |-> Absent]]
  /\ stray = [b \in Builds |-> {}]
  /\ tx = NoTx
  /\ torn = [b \in Builds |-> FALSE]
  /\ errors = 0

TxAt(phase) == tx.at = phase
Undo == tx' = [tx EXCEPT !.at = "undoing"]
Target == disk[tx.build][Head(tx.todo).path]

BeginChanges(b, changes) ==
  tx' = [NoTx EXCEPT !.at = "changing", !.build = b, !.todo = changes]

(* replace and remove: the file that is there is moved away.               *)
SetAside ==
  /\ TxAt("changing") /\ tx.todo # <<>>
  /\ LET change == Head(tx.todo)
         saved == Append(tx.done, [path |-> change.path, old |-> Target])
     IN  \/ /\ NoError
            /\ disk' = [disk EXCEPT ![tx.build][change.path] = Absent]
            /\ tx' = IF change.to # Absent
                     THEN [tx EXCEPT !.at = "placing", !.done = saved]
                     ELSE [tx EXCEPT !.todo = Tail(@),
                                     !.done = IF Target = Absent THEN @ ELSE saved]
         \/ Error /\ Undo /\ UNCHANGED disk
  /\ UNCHANGED <<stray, torn>>

PlaceFile ==
  /\ TxAt("placing")
  /\ \/ /\ NoError
        /\ disk' = [disk EXCEPT ![tx.build][Head(tx.todo).path] = Head(tx.todo).to]
        /\ tx' = [tx EXCEPT !.at = "changing", !.todo = Tail(@)]
     \/ Error /\ Undo /\ UNCHANGED disk
  /\ UNCHANGED <<stray, torn>>

AllChanged == TxAt("changing") /\ tx.todo = <<>>

(* Fault: the old files are deleted with their directory all the same.     *)
UndoAndForget ==
  /\ TxAt("undoing") /\ tx.done # <<>>
  /\ LET last == Last(tx.done)
         restored == [disk EXCEPT ![tx.build][last.path] = last.old]
         removed == [disk EXCEPT ![tx.build][last.path] = Absent]
     IN  \/ NoError /\ disk' = restored /\ tx' = [tx EXCEPT !.done = Front(@)]
            /\ UNCHANGED <<stray, torn>>
         \/ /\ Error
            /\ \/ disk[tx.build][last.path] # Absent /\ UNCHANGED disk
               \/ last.old # Absent /\ disk' = removed
            /\ tx' = [tx EXCEPT !.done = Front(@), !.failed = TRUE]
            /\ torn' = [torn EXCEPT ![tx.build] = TRUE]
            /\ UNCHANGED stray

(* Drop: the new file is removed, and the old one moved back.  What can    *)
(* not be moved back stays where it is.                                    *)
UndoChange ==
  /\ TxAt("undoing") /\ tx.done # <<>>
  /\ LET last == Last(tx.done)
         restored == [disk EXCEPT ![tx.build][last.path] = last.old]
         removed == [disk EXCEPT ![tx.build][last.path] = Absent]
     IN  \/ NoError /\ disk' = restored /\ tx' = [tx EXCEPT !.done = Front(@)]
            /\ UNCHANGED <<stray, torn>>
         \/ /\ Error
            /\ \/ disk[tx.build][last.path] # Absent /\ UNCHANGED disk
               \/ last.old # Absent /\ disk' = removed
            /\ tx' = [tx EXCEPT !.done = Front(@), !.failed = TRUE]
            /\ stray' = [stray EXCEPT ![tx.build] =
                 IF last.old = Absent THEN @ ELSE @ \cup {last}]
            /\ torn' = [torn EXCEPT ![tx.build] = TRUE]

Undone == TxAt("undoing") /\ tx.done = <<>>

(* commit: the directory goes, and the old files with it.                  *)
EndChanges == tx' = NoTx

(* The process ends: the directory stays. Builds in half were between a    *)
(* rename and its row.                                                     *)
AbandonChanges(half) ==
  /\ stray' = IF TxAt("none") THEN stray
              ELSE [stray EXCEPT ![tx.build] =
                      @ \cup {d \in ToSet(tx.done) : d.old # Absent}]
  /\ torn' = [b \in Builds |-> torn[b] \/ b \in half
                \/ (b = tx.build /\ tx.done # <<>> /\ tx.at # "cleaning")]
  /\ tx' = NoTx

FileStep == SetAside \/ PlaceFile \/ UndoChange
=============================================================================
