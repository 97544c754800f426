--------------------------- MODULE DownloadWorker ---------------------------
(***************************************************************************)
(* Resumable downloads (crates/launcher-core/src/downloads).               *)
(*                                                                         *)
(* An execution downloads a set of files, a few at a time, inside one      *)
(* task; several executions may run at once and share the disk.  Each      *)
(* file has its destination, a .part file that survives failures and       *)
(* crashes, and a lock beside it that does not (the Windows build locks a  *)
(* range of a marker file, which the system releases with the process).    *)
(*                                                                         *)
(* The content of a file is its length and whether every byte of it is     *)
(* what the specification's hash expects.                                  *)
(***************************************************************************)
EXTENDS Naturals, FiniteSets, FiniteSetsExt

CONSTANTS
  Executions,              (* calls of DownloadService::execute            *)
  Files,
  Plans,                   (* which files each of them downloads: any of   *)
                           (* these functions, fixed from the start        *)
  Hashed,                  (* files whose specification has a hash         *)
  Size,                    (* expected_size of every file                  *)
  MaxConcurrentDownloads,
  MaxAttempts,
  Nobody,
  Watched,                 (* executions whose end is looked at: they are  *)
                           (* alike, so one is enough                      *)
  MaxRuns,                 (* bound: times an execution is started         *)
  MaxCrashes,              (* bound: crashes or power losses               *)
  MaxDisturbances          (* bound: interference by other programs        *)

ASSUME DownloadAssumption ==
  /\ Hashed \subseteq Files
  /\ Plans \subseteq [Executions -> SUBSET Files]
  /\ IsFiniteSet(Files)
  /\ Size \in Nat \ {0}
  /\ MaxConcurrentDownloads \in Nat \ {0}
  /\ MaxAttempts \in Nat \ {0}
  /\ Nobody \notin Executions

VARIABLES
  run,        (* execution -> [state, runs, files]                         *)
  cancelled,  (* execution -> its cancellation token                       *)
  job,        (* execution -> file -> the future of execute_one            *)
  completed,  (* execution -> ProgressInner::completed_bytes               *)
  lock,       (* file -> the execution that holds its PartLock             *)
  part, dest, (* file -> content of the .part file and of the destination  *)
  backup,     (* file -> content of the .replace-*.bak file                *)
  original,   (* file -> what the destination was at first (history)       *)
  disturbed,  (* files other programs or a failed restore have touched     *)
  crashes     (* bound counter                                             *)

diskVars == <<part, dest, backup, original, disturbed>>
downloadVars == <<run, cancelled, job, completed, lock, diskVars, crashes>>

Absent == [len |-> 0, good |-> FALSE]
Empty == [len |-> 0, good |-> TRUE]
Content == [len : 0..(Size + 1), good : BOOLEAN]

(* verify_file: without a hash the length alone decides.                   *)
Verifies(f, content) ==
  /\ content # Absent
  /\ content.len = Size
  /\ f \in Hashed => content.good

Idle == [at |-> "idle", attempt |-> 0, received |-> 0, reported |-> 0, saved |-> FALSE]

(* Phases of a job.  At an await the future may be dropped; in the others  *)
(* the code runs through without giving way to its siblings.               *)
AwaitPhases == {"pending", "requesting", "receiving", "backoff"}
SyncPhases == {"checking", "attempting", "finalizing", "swapping", "swapped",
               "restoring"}
Busy == SyncPhases \cup (AwaitPhases \ {"pending"})

Turn(e, f) ==
  /\ run[e].state = "running"
  /\ \A g \in Files \ {f} : job[e][g].at \notin SyncPhases
JobAt(e, f, phase) == job[e][f].at = phase /\ Turn(e, f)

MoveJob(e, f, phase) == job' = [job EXCEPT ![e][f].at = phase]

(* ProgressState::set_file_bytes, with the saturation and the cap at the   *)
(* total that the code applies.                                            *)
TotalBytes(e) == Size * Cardinality(run[e].files)
Least(a, b) == IF a <= b THEN a ELSE b
SetFileBytes(e, previous, current) ==
  completed' = [completed EXCEPT ![e] =
    Least(TotalBytes(e), IF current >= previous THEN @ + (current - previous)
                      ELSE IF @ >= previous - current THEN @ - (previous - current)
                      ELSE 0)]

(* A job that returns an error ends the execution: try_collect drops the   *)
(* other futures, and with each its part lock.                             *)
FailJob(e) ==
  /\ run' = [run EXCEPT ![e].state = "failed"]
  /\ job' = [job EXCEPT ![e] = [f \in Files |-> Idle]]
  /\ lock' = [f \in Files |-> IF lock[f] = e THEN Nobody ELSE lock[f]]

FinishJob(e, f) ==
  /\ MoveJob(e, f, "done")
  /\ lock' = [lock EXCEPT ![f] = Nobody]
  /\ UNCHANGED run

DownloadInit ==
  /\ \E plan \in Plans :
       run = [e \in Executions |-> [state |-> "idle", runs |-> 0, files |-> plan[e]]]
  /\ cancelled = [e \in Executions |-> FALSE]
  /\ job = [e \in Executions |-> [f \in Files |-> Idle]]
  /\ completed = [e \in Executions |-> 0]
  /\ lock = [f \in Files |-> Nobody]
  /\ dest \in [Files -> {Absent, [len |-> Size, good |-> FALSE],
                         [len |-> Size, good |-> TRUE],
                         [len |-> Size + 1, good |-> FALSE]}]
  /\ part \in [Files -> {Absent, [len |-> Size + 1, good |-> FALSE]}]
  /\ \A f \in Files \ UNION {run[e].files : e \in Executions} : dest[f] = Absent
  /\ \A f \in Files \ Hashed : part[f] = Absent   (* it would not be used   *)
  /\ backup = [f \in Files |-> Absent]
  /\ original = dest
  /\ disturbed = {}
  /\ crashes = 0

-----------------------------------------------------------------------------
(* execute: the plan counts the files that verify already.                 *)
StartExecution(e) ==
  LET valid == {f \in run[e].files : Verifies(f, dest[f])}
  IN  /\ run[e].state # "running"
      /\ run[e].runs < MaxRuns /\ run[e].files # {}
      /\ run' = [run EXCEPT ![e].state = "running", ![e].runs = @ + 1]
      /\ cancelled' = [cancelled EXCEPT ![e] = FALSE]
      /\ completed' = [completed EXCEPT ![e] = Size * Cardinality(valid)]
      /\ job' = [job EXCEPT ![e] = [f \in Files |->
           IF f \notin run[e].files THEN Idle ELSE
           [Idle EXCEPT !.at = IF f \in valid THEN "done" ELSE "pending",
                        !.reported = IF f \in valid THEN Size ELSE 0]]]
      /\ UNCHANGED <<lock, diskVars, crashes>>

EndExecution(e) ==
  /\ run[e].state = "running"
  /\ \A f \in run[e].files : job[e][f].at = "done"
  /\ run' = [run EXCEPT ![e].state = IF cancelled[e] THEN "failed" ELSE "ok"]
  /\ job' = [job EXCEPT ![e] = [f \in Files |-> Idle]]
  /\ UNCHANGED <<cancelled, completed, lock, diskVars, crashes>>

CancelExecution(e) ==
  /\ run[e].state = "running"
  /\ ~cancelled[e]
  /\ cancelled' = [cancelled EXCEPT ![e] = TRUE]
  /\ UNCHANGED <<run, job, completed, lock, diskVars, crashes>>

-----------------------------------------------------------------------------
(* execute_one                                                             *)

(* buffer_unordered: a pending future is first polled when fewer than the  *)
(* maximum are under way.                                                  *)
Polled(e, f) ==
  /\ Turn(e, f)
  /\ job[e][f].at = "pending" =>
       Cardinality({g \in Files : job[e][g].at \in Busy}) < MaxConcurrentDownloads

(* Every check of the token that leads out of the job.                     *)
NoticeCancel(e, f) ==
  /\ job[e][f].at \in {"pending", "attempting", "requesting", "receiving"}
  /\ Polled(e, f)
  /\ cancelled[e]
  /\ FailJob(e)
  /\ UNCHANGED <<cancelled, completed, diskVars, crashes>>

AcquireLock(e, f) ==
  /\ JobAt(e, f, "pending")
  /\ Polled(e, f)
  /\ ~cancelled[e]
  /\ IF lock[f] = Nobody
     THEN /\ lock' = [lock EXCEPT ![f] = e]
          /\ MoveJob(e, f, "checking")
          /\ UNCHANGED run
     ELSE FailJob(e)
  /\ UNCHANGED <<cancelled, completed, diskVars, crashes>>

(* Fault: any file in the place will do.                                   *)
CheckDestinationExists(e, f) ==
  /\ JobAt(e, f, "checking")
  /\ IF dest[f] # Absent
     THEN /\ SetFileBytes(e, 0, Size)
          /\ job' = [job EXCEPT ![e][f].at = "done", ![e][f].reported = Size]
          /\ lock' = [lock EXCEPT ![f] = Nobody]
     ELSE MoveJob(e, f, "attempting") /\ UNCHANGED <<completed, lock>>
  /\ UNCHANGED <<run, cancelled, diskVars, crashes>>

(* Somebody else may have completed the file since the plan was made.      *)
CheckDestination(e, f) ==
  /\ JobAt(e, f, "checking")
  /\ IF Verifies(f, dest[f])
     THEN /\ SetFileBytes(e, 0, Size)
          /\ job' = [job EXCEPT ![e][f].at = "done", ![e][f].reported = Size]
          /\ lock' = [lock EXCEPT ![f] = Nobody]
     ELSE MoveJob(e, f, "attempting") /\ UNCHANGED <<completed, lock>>
  /\ UNCHANGED <<run, cancelled, diskVars, crashes>>

(* What is left of an earlier attempt: not used without a hash to check it *)
(* against, nor when it is too long, nor when it is complete and wrong.    *)
Usable(f) ==
  /\ part[f].len > 0
  /\ f \in Hashed
  /\ part[f].len <= Size
  /\ part[f].len = Size => Verifies(f, part[f])
Offset(f) == IF Usable(f) THEN part[f].len ELSE 0

(* Fault: what an earlier attempt reported is counted again.               *)
BeginAttemptAfresh(e, f) ==
  /\ JobAt(e, f, "attempting")
  /\ ~cancelled[e]
  /\ SetFileBytes(e, 0, Offset(f))
  /\ job' = [job EXCEPT
       ![e][f].at = IF Offset(f) = Size THEN "finalizing" ELSE "requesting",
       ![e][f].received = Offset(f),
       ![e][f].reported = Offset(f)]
  /\ part' = [part EXCEPT ![f] = IF Usable(f) THEN @ ELSE Empty]
  /\ UNCHANGED <<run, cancelled, lock, dest, backup, original, disturbed, crashes>>

BeginAttempt(e, f) ==
  /\ JobAt(e, f, "attempting")
  /\ ~cancelled[e]
  /\ SetFileBytes(e, job[e][f].reported, Offset(f))
  /\ job' = [job EXCEPT
       ![e][f].at = IF Offset(f) = Size THEN "finalizing" ELSE "requesting",
       ![e][f].received = Offset(f),
       ![e][f].reported = Offset(f)]
  /\ part' = [part EXCEPT ![f] = IF Usable(f) THEN @ ELSE Empty]
  /\ UNCHANGED <<run, cancelled, lock, dest, backup, original, disturbed, crashes>>

(* Fault: the attempts are not counted.                                    *)
RetryForever(e, f, reported) ==
  /\ job' = [job EXCEPT ![e][f].at = "backoff", ![e][f].reported = reported]
  /\ UNCHANGED <<run, lock>>

(* Err with retryable: another attempt while there is one left.            *)
Retry(e, f, reported) ==
  IF job[e][f].attempt + 1 < MaxAttempts
  THEN /\ job' = [job EXCEPT ![e][f].at = "backoff", ![e][f].attempt = @ + 1,
                             ![e][f].reported = reported]
       /\ UNCHANGED <<run, lock>>
  ELSE FailJob(e)

(* A network error, a timeout, a status worth a retry: the part file stays.*)
TransientFailure(e, f) ==
  /\ job[e][f].at \in {"requesting", "receiving"}
  /\ Turn(e, f)
  /\ Retry(e, f, job[e][f].reported)
  /\ UNCHANGED <<cancelled, completed, diskVars, crashes>>

(* A storage error, or a status not worth a retry.                         *)
PermanentFailure(e, f) ==
  /\ job[e][f].at \in {"pending", "checking", "attempting", "requesting",
                       "receiving", "finalizing", "swapped"}
  /\ Polled(e, f)
  /\ FailJob(e)
  /\ UNCHANGED <<cancelled, completed, diskVars, crashes>>

(* The attempt's bytes are discarded: 416, an incompatible range, a        *)
(* response that is too long, a file that does not verify.                 *)
DropPart(e, f) ==
  /\ part' = [part EXCEPT ![f] = Absent]
  /\ SetFileBytes(e, job[e][f].reported, 0)
  /\ Retry(e, f, 0)
  /\ UNCHANGED <<cancelled, dest, backup, original, disturbed, crashes>>

RejectResponse(e, f) ==
  /\ JobAt(e, f, "requesting")
  /\ DropPart(e, f)

(* 206 with the range that was asked for, or 200 to a plain request.       *)
ResponseContinues(e, f) ==
  /\ JobAt(e, f, "requesting")
  /\ MoveJob(e, f, "receiving")
  /\ UNCHANGED <<run, cancelled, completed, lock, diskVars, crashes>>

(* 200 to a range request: the server starts over, and so does the file.   *)
ResponseRestarts(e, f) ==
  /\ JobAt(e, f, "requesting")
  /\ job[e][f].received > 0
  /\ part' = [part EXCEPT ![f] = Empty]
  /\ SetFileBytes(e, job[e][f].reported, 0)
  /\ job' = [job EXCEPT ![e][f].at = "receiving", ![e][f].received = 0,
                        ![e][f].reported = 0]
  /\ UNCHANGED <<run, cancelled, lock, dest, backup, original, disturbed, crashes>>

(* One chunk of n bytes, which the server may have got wrong.              *)
ReceiveChunk(e, f, n, good) ==
  LET next == job[e][f].received + n
  IN  /\ JobAt(e, f, "receiving")
      /\ IF next > Size
         THEN DropPart(e, f)
         ELSE /\ part' = [part EXCEPT ![f] =
                   [len |-> @.len + n, good |-> @.good /\ good]]
              /\ SetFileBytes(e, job[e][f].reported, next)
              /\ job' = [job EXCEPT ![e][f].received = next,
                                    ![e][f].reported = next]
              /\ UNCHANGED <<run, cancelled, lock, dest, backup, original,
                             disturbed, crashes>>

(* The stream ends, and the part file is synced and verified.              *)
ReceiveEnd(e, f) ==
  /\ JobAt(e, f, "receiving")
  /\ IF Verifies(f, part[f])
     THEN /\ IF cancelled[e] THEN FailJob(e)
             ELSE MoveJob(e, f, "finalizing") /\ UNCHANGED <<run, lock>>
          /\ UNCHANGED <<cancelled, completed, diskVars, crashes>>
     ELSE DropPart(e, f)

WakeUp(e, f) ==
  /\ JobAt(e, f, "backoff")
  /\ MoveJob(e, f, "attempting")
  /\ UNCHANGED <<run, cancelled, completed, lock, diskVars, crashes>>

-----------------------------------------------------------------------------
(* finalize_verified_part                                                  *)

DropDuplicate(e, f) ==
  /\ JobAt(e, f, "finalizing")
  /\ Verifies(f, dest[f])
  /\ part' = [part EXCEPT ![f] = Absent]
  /\ FinishJob(e, f)
  /\ UNCHANGED <<cancelled, completed, dest, backup, original, disturbed, crashes>>

(* Fault: the previous file is deleted instead of being set aside.         *)
DeleteDestination(e, f) ==
  /\ JobAt(e, f, "finalizing")
  /\ ~Verifies(f, dest[f])
  /\ Verifies(f, part[f])
  /\ dest' = [dest EXCEPT ![f] = Absent]
  /\ MoveJob(e, f, "swapping")
  /\ UNCHANGED <<run, cancelled, completed, lock, part, backup, original,
                 disturbed, crashes>>

(* The previous file is renamed away under a fresh name.                   *)
SaveDestination(e, f) ==
  /\ JobAt(e, f, "finalizing")
  /\ ~Verifies(f, dest[f])
  /\ Verifies(f, part[f])
  /\ job' = [job EXCEPT ![e][f].at = "swapping",
                        ![e][f].saved = (dest[f] # Absent)]
  /\ backup' = [backup EXCEPT ![f] = IF dest[f] # Absent THEN dest[f] ELSE @]
  /\ dest' = [dest EXCEPT ![f] = Absent]
  /\ UNCHANGED <<run, cancelled, completed, lock, part, original, disturbed, crashes>>

MovePart(e, f) ==
  /\ JobAt(e, f, "swapping")
  /\ dest' = [dest EXCEPT ![f] = part[f]]
  /\ part' = [part EXCEPT ![f] = Absent]
  /\ MoveJob(e, f, "swapped")
  /\ UNCHANGED <<run, cancelled, completed, lock, backup, original, disturbed, crashes>>

(* The previous file is put back, or (download_state_inconsistent) cannot  *)
(* be.                                                                     *)
PutBack(f, restored) ==
  IF restored
  THEN /\ dest' = [dest EXCEPT ![f] = backup[f]]
       /\ backup' = [backup EXCEPT ![f] = Absent]
       /\ UNCHANGED disturbed
  ELSE disturbed' = disturbed \cup {f} /\ UNCHANGED <<dest, backup>>

MovePartFails(e, f, restored) ==
  /\ JobAt(e, f, "swapping")
  /\ IF job[e][f].saved THEN PutBack(f, restored)
                         ELSE UNCHANGED <<dest, backup, disturbed>>
  /\ FailJob(e)
  /\ UNCHANGED <<cancelled, completed, part, original, crashes>>

KeepDestination(e, f) ==
  /\ JobAt(e, f, "swapped")
  /\ Verifies(f, dest[f])
  /\ backup' = [backup EXCEPT ![f] = IF job[e][f].saved THEN Absent ELSE @]
  /\ FinishJob(e, f)
  /\ UNCHANGED <<cancelled, completed, part, dest, original, disturbed, crashes>>

(* The file changed after its rename: it is removed if there is a previous *)
(* one to put back, and left where it is if there is not.                  *)
RejectDestination(e, f) ==
  /\ JobAt(e, f, "swapped")
  /\ ~Verifies(f, dest[f])
  /\ IF job[e][f].saved
     THEN /\ dest' = [dest EXCEPT ![f] = Absent]
          /\ MoveJob(e, f, "restoring")
          /\ UNCHANGED <<run, lock>>
     ELSE FailJob(e) /\ UNCHANGED dest
  /\ UNCHANGED <<cancelled, completed, part, backup, original, disturbed, crashes>>

RestoreBackup(e, f, restored) ==
  /\ JobAt(e, f, "restoring")
  /\ PutBack(f, restored)
  /\ FailJob(e)
  /\ UNCHANGED <<cancelled, completed, part, original, crashes>>

-----------------------------------------------------------------------------
(* The environment: another program damages the new file, or puts the right *)
(* one in place while it is being downloaded (external); and crashes.  A    *)
(* crash closes every file and lock; a power loss may also lose or garble   *)
(* what was written to a part file and not yet synced.                      *)

Disturb(f) ==
  /\ Cardinality(disturbed) < MaxDisturbances
  /\ \/ /\ \E e \in Executions : job[e][f].at = "swapped"
        /\ dest[f].good
        /\ dest' = [dest EXCEPT ![f].good = FALSE]
     \/ /\ \E e \in Executions : job[e][f].at = "receiving"
        /\ ~Verifies(f, dest[f])
        /\ dest' = [dest EXCEPT ![f] = [len |-> Size, good |-> TRUE]]
  /\ disturbed' = disturbed \cup {f}
  /\ UNCHANGED <<run, cancelled, job, completed, lock, part, backup, original, crashes>>

Unsynced(f) == \E e \in Executions : job[e][f].at \in {"requesting", "receiving"}
Remains(content) ==
  {c \in Content : c.len <= content.len /\ (c.good => content.good)}

Crash ==
  /\ crashes < MaxCrashes
  /\ crashes' = crashes + 1
  /\ \E remains \in [Files -> Content] :
       /\ \A f \in Files : remains[f] \in
            IF Unsynced(f) THEN Remains(part[f]) ELSE {part[f]}
       /\ part' = remains
  /\ run' = [e \in Executions |-> [run[e] EXCEPT !.state = "idle"]]
  /\ job' = [e \in Executions |-> [f \in Files |-> Idle]]
  /\ lock' = [f \in Files |-> Nobody]
  /\ UNCHANGED <<cancelled, completed, dest, backup, original, disturbed>>

JobStep(e, f) ==
  \/ NoticeCancel(e, f)
  \/ AcquireLock(e, f)
  \/ CheckDestination(e, f)
  \/ BeginAttempt(e, f)
  \/ TransientFailure(e, f) \/ PermanentFailure(e, f)
  \/ RejectResponse(e, f)
  \/ ResponseContinues(e, f) \/ ResponseRestarts(e, f)
  \/ \E n \in 1..(Size + 1), good \in BOOLEAN : ReceiveChunk(e, f, n, good)
  \/ ReceiveEnd(e, f)
  \/ WakeUp(e, f)
  \/ DropDuplicate(e, f)
  \/ SaveDestination(e, f)
  \/ MovePart(e, f)
  \/ KeepDestination(e, f) \/ RejectDestination(e, f)
  \/ \E restored \in BOOLEAN :
       MovePartFails(e, f, restored) \/ RestoreBackup(e, f, restored)

ExecutionStep(e) == EndExecution(e) \/ \E f \in Files : JobStep(e, f)

DownloadNext ==
  \/ \E e \in Executions :
       StartExecution(e) \/ CancelExecution(e) \/ ExecutionStep(e)
  \/ \E f \in Files : Disturb(f)
  \/ Crash

DownloadSafety == DownloadInit /\ [][DownloadNext]_downloadVars

(* A started execution is polled until it returns; every await has a       *)
(* timeout, so each of them ends one way or the other.                     *)
DownloadSpec ==
  DownloadSafety /\ \A e \in Watched : WF_downloadVars(ExecutionStep(e))

-----------------------------------------------------------------------------
(* An execution that returns Ok leaves every destination verified, however *)
(* many attempts, resumptions, crashes and competitors it took; a file     *)
(* another program damages afterwards is excepted.                         *)
OkMeansVerified ==
  \A e \in Executions : run[e].state = "ok" =>
    \A f \in run[e].files \ disturbed : Verifies(f, dest[f])

(* The file that was there is lost only to a verified one: at every moment *)
(* the destination is the original or verified, or it is missing for the   *)
(* moment of the swap with the verified part beside it.                    *)
ReplacedOnlyByVerified ==
  \A f \in Hashed \ disturbed :
    \/ dest[f] = original[f]
    \/ Verifies(f, dest[f])
    \/ dest[f] = Absent /\ backup[f] = original[f] /\ Verifies(f, part[f])

(* The progress shown is the sum of what each file contributed: it neither *)
(* drifts over retries nor needs the saturation and the cap in the code.   *)
ProgressIsSum ==
  \A e \in Executions : run[e].state = "running" =>
    completed[e] = MapThenSumSet(LAMBDA f : job[e][f].reported, Files)

(* A started download returns: the attempts are bounded and no job waits   *)
(* for another one.                                                        *)
ExecutionReturns ==
  \A e \in Watched : (run[e].state = "running") ~> (run[e].state # "running")
=============================================================================
