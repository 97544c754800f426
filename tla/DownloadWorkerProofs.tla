------------------------ MODULE DownloadWorkerProofs ------------------------
(***************************************************************************)
(* Proofs about DownloadWorker, for any numbers of executions, files,      *)
(* attempts and crashes, and files of any size.                            *)
(*                                                                         *)
(* The argument: a file that is being worked on belongs to the execution   *)
(* that holds its lock, so that between two steps of its job nobody else   *)
(* touches the part, the destination or the backup.  What a crash leaves   *)
(* behind in the middle of the swap is a verified part, and the attempt    *)
(* that finds one goes straight to the swap.  The progress is a sum over    *)
(* the files, of which a step of a job changes one summand.                 *)
(***************************************************************************)
EXTENDS DownloadWorker, TLAPS, FiniteSetTheorems, WellFoundedInduction

Bytes == [len : Nat, good : BOOLEAN]
Jobs == [at : AwaitPhases \cup SyncPhases \cup {"idle", "done"}, attempt : Nat,
         received : Nat, reported : Nat, saved : BOOLEAN]
Runs == [state : {"idle", "running", "ok", "failed"}, runs : Nat, files : SUBSET Files]

DownloadShape ==
  /\ run \in [Executions -> Runs]
  /\ job \in [Executions -> [Files -> Jobs]]
  /\ lock \in [Files -> Executions \cup {Nobody}]
  /\ part \in [Files -> Bytes]
  /\ dest \in [Files -> Bytes]
  /\ backup \in [Files -> Bytes]
  /\ original \in [Files -> Bytes]
  /\ disturbed \subseteq Files

(* The destination needs no care, or it is missing with all that is needed *)
(* beside it, as a crash in the middle of the swap leaves it.              *)
Kept(f) == dest[f] = original[f] \/ Verifies(f, dest[f])
Missing(f) == dest[f] = Absent /\ backup[f] = original[f] /\ Verifies(f, part[f])
FileInv(f) == f \in Hashed \ disturbed => Kept(f) \/ Missing(f)

(* From its first poll to its end a job holds the lock of its file.  The   *)
(* part is verified until it is moved, and then the destination is; what   *)
(* was there is kept while the swap may fail; and while bytes arrive the   *)
(* destination is not missing.                                             *)
Working(e, f) == job[e][f].at \in Busy
JobInv(e, f) ==
  /\ Working(e, f) => lock[f] = e
  /\ run[e].state # "running" => job[e][f].at = "idle"
  /\ job[e][f].at = "swapping" => Verifies(f, part[f])
  /\ f \notin disturbed =>
       /\ job[e][f].at = "swapping" => dest[f] = Absent
       /\ job[e][f].at \in {"swapped", "done"} => Verifies(f, dest[f])
       /\ job[e][f].at # "restoring"
       /\ run[e].state = "ok" /\ f \in run[e].files => Verifies(f, dest[f])
  /\ f \in Hashed \ disturbed =>
       /\ job[e][f].at \in {"requesting", "receiving"} => Kept(f)
       /\ job[e][f].at = "swapping" /\ job[e][f].saved => backup[f] = original[f]

DownloadInv ==
  /\ DownloadShape
  /\ \A f \in Files : FileInv(f)
  /\ \A e \in Executions, f \in Files : JobInv(e, f)

-----------------------------------------------------------------------------
LEMMA AbsentFails == \A f \in Files : ~Verifies(f, Absent)
BY DEF Verifies

LEMMA IdleIsJob == Idle \in Jobs /\ Idle.at = "idle" /\ Idle.saved = FALSE
BY DEF Idle, Jobs, AwaitPhases, SyncPhases

(* A step of the job of f in e touches the disk at f alone, and there only *)
(* with the lock in hand; it never makes a verified destination unverified.*)
DiskAt(e, f) ==
  /\ original' = original
  /\ disturbed \subseteq disturbed'
  /\ \A g \in Files \ {f} :
       /\ part'[g] = part[g] /\ dest'[g] = dest[g] /\ backup'[g] = backup[g]
       /\ g \in disturbed' => g \in disturbed
  /\ \/ Working(e, f)
     \/ /\ part'[f] = part[f] /\ dest'[f] = dest[f] /\ backup'[f] = backup[f]
        /\ disturbed' = disturbed
  /\ f \notin disturbed' /\ Verifies(f, dest[f]) => Verifies(f, dest'[f])

LEMMA OtherJob ==
  ASSUME DownloadInv, NEW e \in Executions, NEW f \in Files, DiskAt(e, f),
         NEW x \in Executions, NEW g \in Files, x # e \/ g # f,
         job'[x][g] = job[x][g] \/ job'[x][g].at = "idle",
         run'[x].files = run[x].files,
         run'[x].state = "ok" => run[x].state = "ok",
         run'[x].state # "running" =>
           run[x].state # "running" \/ job'[x][g].at = "idle",
         lock'[g] = lock[g] \/ lock[g] # x \/ job'[x][g].at = "idle"
  PROVE  JobInv(x, g)'
<1> USE DEF DownloadInv
<1>1. CASE g # f
  BY <1>1 DEF JobInv, DiskAt, Kept, Working, Busy, AwaitPhases, SyncPhases
<1>2. CASE g = f /\ ~Working(e, f)
  BY <1>2 DEF JobInv, DiskAt, Kept, Working, Busy, AwaitPhases, SyncPhases
<1>3. CASE g = f /\ Working(e, f)
  <2>1. lock[f] = e /\ x # e
    BY <1>3 DEF JobInv
  <2>2. job'[x][f].at \notin Busy
    BY <1>3, <2>1 DEF JobInv, Working, Busy, AwaitPhases, SyncPhases
  <2>3. f \notin disturbed' => f \notin disturbed
    BY DEF DiskAt
  <2>4. f \notin disturbed' /\ Verifies(f, dest[f]) => Verifies(f, dest'[f])
    BY DEF DiskAt
  <2> QED
    BY <1>3, <2>1, <2>2, <2>3, <2>4 DEF JobInv, Working, Busy, AwaitPhases, SyncPhases
<1> QED
  BY <1>1, <1>2, <1>3

LEMMA OtherFile ==
  ASSUME DownloadInv, NEW e \in Executions, NEW f \in Files, DiskAt(e, f),
         NEW g \in Files \ {f}
  PROVE  FileInv(g)'
BY DEF DownloadInv, FileInv, Kept, Missing, DiskAt

(* The job of f in e moves, and nothing else in memory.                    *)
Moves(e, f) ==
  /\ run' = run
  /\ \A x \in Executions \ {e} : job'[x] = job[x]
  /\ \A g \in Files \ {f} : job'[e][g] = job[e][g] /\ lock'[g] = lock[g]
  /\ lock[f] \in {e, Nobody} \/ lock'[f] = lock[f]

LEMMA MoveStep ==
  ASSUME DownloadInv, DownloadShape', NEW e \in Executions, NEW f \in Files,
         Moves(e, f), DiskAt(e, f), JobInv(e, f)', FileInv(f)'
  PROVE  DownloadInv'
<1>1. ASSUME NEW x \in Executions, NEW g \in Files, x # e \/ g # f
      PROVE  JobInv(x, g)'
  <2>1. job'[x][g] = job[x][g]
    BY <1>1 DEF Moves
  <2>2. Nobody # x
    BY DownloadAssumption
  <2> QED
    BY <1>1, <2>1, <2>2, OtherJob DEF Moves
<1> QED
  BY <1>1, OtherFile DEF DownloadInv

(* An execution that fails drops all its jobs and locks.                   *)
LEMMA FailEffects ==
  ASSUME DownloadShape, NEW e \in Executions, FailJob(e)
  PROVE  /\ run' \in [Executions -> Runs]
         /\ job' \in [Executions -> [Files -> Jobs]]
         /\ lock' \in [Files -> Executions \cup {Nobody}]
         /\ run'[e].state = "failed" /\ run'[e].files = run[e].files
         /\ \A x \in Executions \ {e} : run'[x] = run[x] /\ job'[x] = job[x]
         /\ \A g \in Files : job'[e][g].at = "idle"
         /\ \A g \in Files : lock'[g] = lock[g] \/ lock[g] = e
<1>1. /\ run' \in [Executions -> Runs]
      /\ run'[e].state = "failed" /\ run'[e].files = run[e].files
      /\ \A x \in Executions \ {e} : run'[x] = run[x]
  BY DEF FailJob, DownloadShape, Runs
<1>2. /\ job' \in [Executions -> [Files -> Jobs]]
      /\ \A x \in Executions \ {e} : job'[x] = job[x]
      /\ \A g \in Files : job'[e][g].at = "idle"
  BY IdleIsJob DEF FailJob, DownloadShape
<1>3. /\ lock' \in [Files -> Executions \cup {Nobody}]
      /\ \A g \in Files : lock'[g] = lock[g] \/ lock[g] = e
  BY DEF FailJob, DownloadShape
<1> QED
  BY <1>1, <1>2, <1>3

LEMMA FailStep ==
  ASSUME DownloadInv, DownloadShape', NEW e \in Executions, NEW f \in Files,
         FailJob(e), DiskAt(e, f), FileInv(f)'
  PROVE  DownloadInv'
<1>1. /\ run'[e].state = "failed" /\ run'[e].files = run[e].files
      /\ \A x \in Executions \ {e} : run'[x] = run[x] /\ job'[x] = job[x]
      /\ \A g \in Files : job'[e][g].at = "idle"
      /\ \A g \in Files : lock'[g] = lock[g] \/ lock[g] = e
  BY FailEffects DEF DownloadInv
<1>2. JobInv(e, f)'
  BY <1>1 DEF JobInv, Working, Busy, AwaitPhases, SyncPhases
<1>3. ASSUME NEW x \in Executions, NEW g \in Files, x # e \/ g # f
      PROVE  JobInv(x, g)'
  <2>1. CASE x = e
    BY <1>1, <1>3, <2>1, OtherJob
  <2>2. CASE x # e
    BY <1>1, <1>3, <2>2, OtherJob
  <2> QED
    BY <2>1, <2>2
<1> QED
  BY <1>2, <1>3, OtherFile DEF DownloadInv

-----------------------------------------------------------------------------
(* What the steps do to the job.                                           *)
LEMMA JobMoves ==
  ASSUME DownloadShape, NEW e \in Executions, NEW f \in Files, NEW j \in Jobs,
         job' = [job EXCEPT ![e][f] = j]
  PROVE  /\ job' \in [Executions -> [Files -> Jobs]]
         /\ job'[e][f] = j
         /\ \A x \in Executions \ {e} : job'[x] = job[x]
         /\ \A g \in Files \ {f} : job'[e][g] = job[e][g]
BY DEF DownloadShape

LEMMA PhaseMoves ==
  ASSUME DownloadShape, NEW e \in Executions, NEW f \in Files,
         NEW phase \in AwaitPhases \cup SyncPhases \cup {"done"}, MoveJob(e, f, phase)
  PROVE  /\ job' \in [Executions -> [Files -> Jobs]]
         /\ job'[e][f].at = phase /\ job'[e][f].saved = job[e][f].saved
         /\ \A x \in Executions \ {e} : job'[x] = job[x]
         /\ \A g \in Files \ {f} : job'[e][g] = job[e][g]
<1>1. job[e][f] \in Jobs
  BY DEF DownloadShape
<1>2. [job[e][f] EXCEPT !.at = phase] \in Jobs
  BY <1>1 DEF Jobs
<1>3. job' = [job EXCEPT ![e][f] = [job[e][f] EXCEPT !.at = phase]]
  BY DEF MoveJob
<1>4. /\ [job[e][f] EXCEPT !.at = phase].at = phase
      /\ [job[e][f] EXCEPT !.at = phase].saved = job[e][f].saved
  BY <1>1 DEF Jobs
<1> HIDE DEF Jobs
<1> QED
  BY <1>2, <1>3, <1>4, JobMoves

LEMMA BeginMoves ==
  ASSUME DownloadShape, NEW e \in Executions, NEW f \in Files, BeginAttempt(e, f)
  PROVE  /\ job' \in [Executions -> [Files -> Jobs]]
         /\ job'[e][f].at = IF Offset(f) = Size THEN "finalizing" ELSE "requesting"
         /\ \A x \in Executions \ {e} : job'[x] = job[x]
         /\ \A g \in Files \ {f} : job'[e][g] = job[e][g]
<1> DEFINE j == [job[e][f] EXCEPT
       !.at = IF Offset(f) = Size THEN "finalizing" ELSE "requesting",
       !.received = Offset(f), !.reported = Offset(f)]
<1>1. job[e][f] \in Jobs /\ Offset(f) \in Nat
  BY DEF DownloadShape, Offset, Bytes
<1>2. j \in Jobs /\ j.at = IF Offset(f) = Size THEN "finalizing" ELSE "requesting"
  BY <1>1 DEF Jobs, AwaitPhases, SyncPhases
<1>3. job' = [job EXCEPT ![e][f] = j]
  BY <1>1 DEF BeginAttempt, DownloadShape
<1> HIDE DEF j
<1> QED
  BY <1>2, <1>3, JobMoves

-----------------------------------------------------------------------------
(* Steps that leave the disk alone.                                        *)
LEMMA QuietDisk ==
  ASSUME DownloadInv, NEW e \in Executions, NEW f \in Files, UNCHANGED diskVars
  PROVE  /\ DiskAt(e, f) /\ FileInv(f)'
         /\ DownloadShape /\ JobInv(e, f)
BY DEF DownloadInv, DiskAt, FileInv, Kept, Missing, diskVars

LEMMA QuietFail ==
  ASSUME DownloadInv, NEW e \in Executions, NEW f \in Files,
         UNCHANGED diskVars, FailJob(e)
  PROVE  DownloadInv'
<1>1. DiskAt(e, f) /\ FileInv(f)' /\ DownloadShape
  BY QuietDisk
<1>2. DownloadShape'
  BY <1>1, FailEffects DEF DownloadShape, diskVars
<1> QED
  BY <1>1, <1>2, FailStep

LEMMA QuietMove ==
  ASSUME DownloadInv, NEW e \in Executions, NEW f \in Files, Turn(e, f),
         UNCHANGED <<diskVars, run>>,
         job' \in [Executions -> [Files -> Jobs]],
         \A x \in Executions \ {e} : job'[x] = job[x],
         \A g \in Files \ {f} : job'[e][g] = job[e][g],
         job'[e][f].at \in {"checking", "attempting", "backoff", "receiving",
                            "finalizing", "done"},
         job'[e][f].at = "receiving" => job[e][f].at \in {"requesting", "receiving"},
         job'[e][f].at = "done" => Verifies(f, dest[f]),
         \/ Working(e, f) /\ lock' = lock
         \/ lock[f] = Nobody /\ lock' = [lock EXCEPT ![f] = e]
         \/ job'[e][f].at = "done" /\ Working(e, f)
              /\ lock' = [lock EXCEPT ![f] = Nobody]
  PROVE  DownloadInv'
<1>1. DiskAt(e, f) /\ FileInv(f)' /\ DownloadShape /\ JobInv(e, f)
  BY QuietDisk
<1>2. DownloadShape'
  BY <1>1 DEF DownloadShape, diskVars
<1>3. run[e].state = "running" /\ run'[e].state = "running"
  BY DEF Turn
<1>4. (Working(e, f) => lock[f] = e) /\ (Working(e, f)' => lock'[f] = e)
  BY <1>1 DEF JobInv, DownloadShape, Working, Busy, AwaitPhases, SyncPhases
<1>5. JobInv(e, f)'
  BY <1>1, <1>3, <1>4 DEF JobInv, Kept, diskVars
<1>6. Moves(e, f)
  BY <1>1, <1>4 DEF Moves, DownloadShape
<1> QED
  BY <1>1, <1>2, <1>5, <1>6, MoveStep

(* A quiet step that only sets the phase of a job at work.                 *)
LEMMA QuietPhase ==
  ASSUME DownloadInv, NEW e \in Executions, NEW f \in Files, Turn(e, f),
         NEW phase \in {"attempting", "receiving", "finalizing"},
         job[e][f].at \in Busy, MoveJob(e, f, phase),
         phase = "receiving" => job[e][f].at = "requesting",
         UNCHANGED <<diskVars, run, lock>>
  PROVE  DownloadInv'
<1>1. phase \in AwaitPhases \cup SyncPhases \cup {"done"}
  BY DEF AwaitPhases, SyncPhases
<1> QED
  BY <1>1, PhaseMoves, QuietMove DEF DownloadInv, Working

LEMMA AcquireLockPreserves ==
  ASSUME DownloadInv, NEW e \in Executions, NEW f \in Files, AcquireLock(e, f)
  PROVE  DownloadInv'
<1>1. CASE FailJob(e)
  BY <1>1, QuietFail DEF AcquireLock
<1>2. CASE lock[f] = Nobody
  <2>1. /\ MoveJob(e, f, "checking") /\ lock' = [lock EXCEPT ![f] = e]
        /\ Turn(e, f) /\ UNCHANGED <<diskVars, run>>
    BY <1>2 DEF AcquireLock, JobAt
  <2>2. "checking" \in AwaitPhases \cup SyncPhases \cup {"done"}
    BY DEF SyncPhases
  <2> QED
    BY <1>2, <2>1, <2>2, PhaseMoves, QuietMove DEF DownloadInv
<1> QED
  BY <1>1, <1>2 DEF AcquireLock

LEMMA CheckDestinationPreserves ==
  ASSUME DownloadInv, NEW e \in Executions, NEW f \in Files, CheckDestination(e, f)
  PROVE  DownloadInv'
<1>1. /\ job[e][f].at = "checking" /\ Turn(e, f) /\ job[e][f].at \in Busy
      /\ UNCHANGED <<diskVars, run>>
  BY DEF CheckDestination, JobAt, Busy, SyncPhases
<1>2. CASE Verifies(f, dest[f])
  <2>1. /\ job' = [job EXCEPT ![e][f].at = "done", ![e][f].reported = Size]
        /\ lock' = [lock EXCEPT ![f] = Nobody]
    BY <1>2 DEF CheckDestination
  <2> DEFINE j == [job[e][f] EXCEPT !.at = "done", !.reported = Size]
  <2>2. job[e][f] \in Jobs /\ Size \in Nat
    BY DownloadAssumption DEF DownloadInv, DownloadShape
  <2>3. j \in Jobs /\ j.at = "done"
    BY <2>2 DEF Jobs
  <2>4. job' = [job EXCEPT ![e][f] = j]
    BY <2>1, <2>2 DEF DownloadInv, DownloadShape
  <2> HIDE DEF j
  <2>5. /\ job' \in [Executions -> [Files -> Jobs]]
        /\ job'[e][f].at = "done"
        /\ \A x \in Executions \ {e} : job'[x] = job[x]
        /\ \A g \in Files \ {f} : job'[e][g] = job[e][g]
    BY <2>3, <2>4, JobMoves DEF DownloadInv
  <2> QED
    BY <1>1, <1>2, <2>1, <2>5, QuietMove DEF Working
<1>3. CASE ~Verifies(f, dest[f])
  BY <1>1, <1>3, QuietPhase DEF CheckDestination
<1> QED
  BY <1>2, <1>3

(* A job backs off before the next attempt, or the execution fails.        *)
LEMMA RetryMoves ==
  ASSUME DownloadShape, NEW e \in Executions, NEW f \in Files, NEW reported \in Nat,
         Retry(e, f, reported), ~FailJob(e)
  PROVE  /\ job' \in [Executions -> [Files -> Jobs]]
         /\ job'[e][f].at = "backoff"
         /\ \A x \in Executions \ {e} : job'[x] = job[x]
         /\ \A g \in Files \ {f} : job'[e][g] = job[e][g]
         /\ UNCHANGED <<run, lock>>
<1> DEFINE next == job[e][f].attempt + 1
           j == [job[e][f] EXCEPT !.at = "backoff", !.attempt = next,
                                  !.reported = reported]
<1>1. job[e][f] \in Jobs /\ next \in Nat
  BY DEF DownloadShape, Jobs
<1>2. job' = [job EXCEPT ![e][f].at = "backoff", ![e][f].attempt = @ + 1,
                        ![e][f].reported = reported]
  BY DEF Retry
<1>3. job' = [job EXCEPT ![e][f] = j]
  BY <1>1, <1>2 DEF DownloadShape, Jobs
<1> HIDE DEF next
<1>4. j \in Jobs /\ j.at = "backoff"
  BY <1>1 DEF Jobs, AwaitPhases, SyncPhases
<1>5. UNCHANGED <<run, lock>>
  BY DEF Retry
<1> HIDE DEF j
<1> QED
  BY <1>3, <1>4, <1>5, JobMoves

LEMMA TransientFailurePreserves ==
  ASSUME DownloadInv, NEW e \in Executions, NEW f \in Files, TransientFailure(e, f)
  PROVE  DownloadInv'
<1>1. /\ job[e][f].at \in {"requesting", "receiving"} /\ Turn(e, f)
      /\ UNCHANGED diskVars /\ Retry(e, f, job[e][f].reported)
  BY DEF TransientFailure
<1>2. job[e][f].reported \in Nat /\ Working(e, f)
  BY <1>1 DEF DownloadInv, DownloadShape, Jobs, Working, Busy, AwaitPhases
<1>3. CASE FailJob(e)
  BY <1>1, <1>3, QuietFail
<1>4. CASE ~FailJob(e)
  BY <1>1, <1>2, <1>4, RetryMoves, QuietMove DEF DownloadInv
<1> QED
  BY <1>3, <1>4

LEMMA QuietStepsPreserve ==
  ASSUME DownloadInv, NEW e \in Executions, NEW f \in Files,
         \/ NoticeCancel(e, f)
         \/ PermanentFailure(e, f)
         \/ ResponseContinues(e, f)
         \/ WakeUp(e, f)
         \/ ReceiveEnd(e, f) /\ Verifies(f, part[f])
  PROVE  DownloadInv'
<1>1. CASE NoticeCancel(e, f) \/ PermanentFailure(e, f)
  BY <1>1, QuietFail DEF NoticeCancel, PermanentFailure
<1>2. CASE ResponseContinues(e, f)
  BY <1>2, QuietPhase DEF ResponseContinues, JobAt, Busy, AwaitPhases
<1>3. CASE WakeUp(e, f)
  BY <1>3, QuietPhase DEF WakeUp, JobAt, Busy, AwaitPhases
<1>4. CASE ReceiveEnd(e, f) /\ Verifies(f, part[f])
  <2>1. CASE cancelled[e]
    BY <1>4, <2>1, QuietFail DEF ReceiveEnd
  <2>2. CASE ~cancelled[e]
    BY <1>4, <2>2, QuietPhase DEF ReceiveEnd, JobAt, Busy, AwaitPhases
  <2> QED
    BY <2>1, <2>2
<1> QED
  BY <1>1, <1>2, <1>3, <1>4

-----------------------------------------------------------------------------
(* Steps of a transfer: bytes arrive at, or are dropped from, the part.    *)
LEMMA TransferDisk ==
  ASSUME DownloadInv, NEW e \in Executions, NEW f \in Files,
         job[e][f].at \in {"requesting", "receiving"},
         NEW bytes \in Bytes, part' = [part EXCEPT ![f] = bytes],
         UNCHANGED <<dest, backup, original, disturbed>>
  PROVE  /\ DiskAt(e, f) /\ FileInv(f)' /\ Working(e, f)
         /\ f \in Hashed \ disturbed => Kept(f) /\ Kept(f)'
         /\ part' \in [Files -> Bytes]
<1>1. Working(e, f)
  BY DEF Working, Busy, AwaitPhases
<1>2. f \in Hashed \ disturbed => Kept(f)
  BY DEF DownloadInv, JobInv
<1>3. \A g \in Files \ {f} : part'[g] = part[g]
  BY DEF DownloadInv, DownloadShape
<1> QED
  BY <1>1, <1>2, <1>3 DEF DiskAt, FileInv, Kept, DownloadInv, DownloadShape

LEMMA TransferStep ==
  ASSUME DownloadInv, NEW e \in Executions, NEW f \in Files, Turn(e, f),
         job[e][f].at \in {"requesting", "receiving"},
         NEW bytes \in Bytes, part' = [part EXCEPT ![f] = bytes],
         UNCHANGED <<dest, backup, original, disturbed, run, lock>>,
         job' \in [Executions -> [Files -> Jobs]],
         \A x \in Executions \ {e} : job'[x] = job[x],
         \A g \in Files \ {f} : job'[e][g] = job[e][g],
         job'[e][f].at \in {"receiving", "backoff"}
  PROVE  DownloadInv'
<1>1. /\ DiskAt(e, f) /\ FileInv(f)' /\ Working(e, f)
      /\ f \in Hashed \ disturbed => Kept(f)'
      /\ part' \in [Files -> Bytes]
  BY TransferDisk
<1>2. DownloadShape'
  BY <1>1 DEF DownloadInv, DownloadShape
<1>3. run'[e].state = "running" /\ lock'[f] = e /\ lock[f] = e
  BY <1>1 DEF Turn, DownloadInv, JobInv
<1>4. JobInv(e, f)'
  BY <1>1, <1>3 DEF JobInv
<1>5. Moves(e, f)
  BY <1>3 DEF Moves
<1> QED
  BY <1>1, <1>2, <1>4, <1>5, MoveStep

LEMMA DropPartPreserves ==
  ASSUME DownloadInv, NEW e \in Executions, NEW f \in Files, Turn(e, f),
         job[e][f].at \in {"requesting", "receiving"}, DropPart(e, f)
  PROVE  DownloadInv'
<1>1. /\ part' = [part EXCEPT ![f] = Absent] /\ Retry(e, f, 0)
      /\ UNCHANGED <<dest, backup, original, disturbed>>
  BY DEF DropPart
<1>2. Absent \in Bytes
  BY DEF Absent, Bytes
<1>3. CASE FailJob(e)
  <2>1. DiskAt(e, f) /\ FileInv(f)' /\ part' \in [Files -> Bytes]
    BY <1>1, <1>2, TransferDisk
  <2>2. DownloadShape'
    BY <1>1, <1>3, <2>1, FailEffects DEF DownloadInv, DownloadShape
  <2> QED
    BY <1>3, <2>1, <2>2, FailStep
<1>4. CASE ~FailJob(e)
  <2>1. /\ job' \in [Executions -> [Files -> Jobs]]
        /\ job'[e][f].at = "backoff"
        /\ \A x \in Executions \ {e} : job'[x] = job[x]
        /\ \A g \in Files \ {f} : job'[e][g] = job[e][g]
        /\ UNCHANGED <<run, lock>>
    BY <1>1, <1>4, RetryMoves DEF DownloadInv
  <2> QED
    BY <1>1, <1>2, <2>1, TransferStep
<1> QED
  BY <1>3, <1>4

(* Two more ways the numbers of a job change at once.                      *)
LEMMA RestartMoves ==
  ASSUME DownloadShape, NEW e \in Executions, NEW f \in Files, ResponseRestarts(e, f)
  PROVE  /\ job' \in [Executions -> [Files -> Jobs]]
         /\ job'[e][f].at = "receiving"
         /\ \A x \in Executions \ {e} : job'[x] = job[x]
         /\ \A g \in Files \ {f} : job'[e][g] = job[e][g]
<1> DEFINE j == [job[e][f] EXCEPT !.at = "receiving", !.received = 0, !.reported = 0]
<1>1. job[e][f] \in Jobs
  BY DEF DownloadShape
<1>2. j \in Jobs /\ j.at = "receiving"
  BY <1>1 DEF Jobs, AwaitPhases, SyncPhases
<1>3. job' = [job EXCEPT ![e][f] = j]
  BY <1>1 DEF ResponseRestarts, DownloadShape
<1> HIDE DEF j
<1> QED
  BY <1>2, <1>3, JobMoves

LEMMA ChunkMoves ==
  ASSUME DownloadShape, NEW e \in Executions, NEW f \in Files,
         NEW n \in Nat, NEW good, ReceiveChunk(e, f, n, good), ~DropPart(e, f)
  PROVE  /\ job' \in [Executions -> [Files -> Jobs]]
         /\ job'[e][f].at = "receiving"
         /\ \A x \in Executions \ {e} : job'[x] = job[x]
         /\ \A g \in Files \ {f} : job'[e][g] = job[e][g]
<1> DEFINE count == job[e][f].received + n
           j == [job[e][f] EXCEPT !.received = count, !.reported = count]
<1>1. job[e][f] \in Jobs /\ count \in Nat /\ job[e][f].at = "receiving"
  BY DEF DownloadShape, Jobs, ReceiveChunk, JobAt
<1>2. job' = [job EXCEPT ![e][f] = j]
  BY <1>1 DEF ReceiveChunk, DownloadShape
<1> HIDE DEF count
<1>3. j \in Jobs /\ j.at = "receiving"
  BY <1>1 DEF Jobs
<1> HIDE DEF j
<1> QED
  BY <1>2, <1>3, JobMoves

LEMMA ReceivePreserves ==
  ASSUME DownloadInv, NEW e \in Executions, NEW f \in Files,
         \/ RejectResponse(e, f)
         \/ ResponseRestarts(e, f)
         \/ \E n \in 1..(Size + 1), good \in BOOLEAN : ReceiveChunk(e, f, n, good)
         \/ ReceiveEnd(e, f) /\ ~Verifies(f, part[f])
  PROVE  DownloadInv'
<1>1. job[e][f].at \in {"requesting", "receiving"} /\ Turn(e, f)
  BY DEF RejectResponse, ResponseRestarts, ReceiveChunk, ReceiveEnd, JobAt
<1>2. part[f] \in Bytes /\ job[e][f].received \in Nat
  BY DEF DownloadInv, DownloadShape, Jobs
<1>3. CASE DropPart(e, f)
  BY <1>1, <1>3, DropPartPreserves
<1>4. CASE ResponseRestarts(e, f)
  <2>1. /\ part' = [part EXCEPT ![f] = Empty]
        /\ job' = [job EXCEPT ![e][f].at = "receiving", ![e][f].received = 0,
                              ![e][f].reported = 0]
        /\ UNCHANGED <<dest, backup, original, disturbed, run, lock>>
    BY <1>4 DEF ResponseRestarts
  <2>2. Empty \in Bytes
    BY DEF Empty, Bytes
  <2>3. /\ job' \in [Executions -> [Files -> Jobs]]
        /\ job'[e][f].at = "receiving"
        /\ \A x \in Executions \ {e} : job'[x] = job[x]
        /\ \A g \in Files \ {f} : job'[e][g] = job[e][g]
    BY <1>4, RestartMoves DEF DownloadInv
  <2> QED
    BY <1>1, <2>1, <2>2, <2>3, TransferStep
<1>5. ASSUME NEW n \in 1..(Size + 1), NEW good \in BOOLEAN, ReceiveChunk(e, f, n, good),
             ~DropPart(e, f)
      PROVE  DownloadInv'
  <2> DEFINE next == job[e][f].received + n
             bytes == [len |-> part[f].len + n, good |-> part[f].good /\ good]
  <2>1. /\ part' = [part EXCEPT ![f] = bytes]
        /\ job[e][f].at = "receiving"
        /\ job' = [job EXCEPT ![e][f].received = next, ![e][f].reported = next]
        /\ UNCHANGED <<dest, backup, original, disturbed, run, lock>>
    BY <1>5 DEF ReceiveChunk, JobAt
  <2>2. next \in Nat /\ bytes \in Bytes
    BY <1>2, DownloadAssumption DEF Bytes
  <2> HIDE DEF next, bytes
  <2>3. /\ job' \in [Executions -> [Files -> Jobs]]
        /\ job'[e][f].at = "receiving"
        /\ \A x \in Executions \ {e} : job'[x] = job[x]
        /\ \A g \in Files \ {f} : job'[e][g] = job[e][g]
    BY <1>5, ChunkMoves DEF DownloadInv
  <2> QED
    BY <1>1, <2>1, <2>2, <2>3, TransferStep
<1> QED
  BY <1>3, <1>4, <1>5 DEF RejectResponse, ReceiveEnd

(* A destination that is missing has a complete part, which is not fetched *)
(* again: the attempt goes straight to the swap.                           *)
LEMMA BeginAttemptPreserves ==
  ASSUME DownloadInv, NEW e \in Executions, NEW f \in Files, BeginAttempt(e, f)
  PROVE  DownloadInv'
<1>1. /\ job[e][f].at = "attempting" /\ Turn(e, f)
      /\ UNCHANGED <<run, lock, dest, backup, original, disturbed>>
      /\ part' = [part EXCEPT ![f] = IF Usable(f) THEN @ ELSE Empty]
  BY DEF BeginAttempt, JobAt
<1>2. Working(e, f) /\ lock[f] = e
  BY <1>1 DEF Working, Busy, SyncPhases, DownloadInv, JobInv
<1>3. /\ part' \in [Files -> Bytes]
      /\ \A g \in Files \ {f} : part'[g] = part[g]
      /\ Usable(f) => part'[f] = part[f]
  BY <1>1 DEF DownloadInv, DownloadShape, Empty, Bytes
<1>4. f \in Hashed /\ Verifies(f, part[f]) => Usable(f) /\ Offset(f) = Size
  BY DownloadAssumption DEF Verifies, Usable, Offset
<1>5. /\ job' \in [Executions -> [Files -> Jobs]]
      /\ job'[e][f].at = IF Offset(f) = Size THEN "finalizing" ELSE "requesting"
      /\ \A x \in Executions \ {e} : job'[x] = job[x]
      /\ \A g \in Files \ {f} : job'[e][g] = job[e][g]
  BY BeginMoves DEF DownloadInv
<1>6. DiskAt(e, f)
  BY <1>1, <1>2, <1>3 DEF DiskAt
<1>7. FileInv(f)'
  BY <1>1, <1>3, <1>4 DEF DownloadInv, FileInv, Kept, Missing
<1>8. JobInv(e, f)'
  <2>1. f \in Hashed \ disturbed /\ Offset(f) # Size => Kept(f)'
    BY <1>1, <1>4 DEF DownloadInv, FileInv, Kept, Missing
  <2>2. run'[e].state = "running" /\ lock'[f] = e
    BY <1>1, <1>2 DEF Turn
  <2> QED
    BY <1>1, <1>5, <2>1, <2>2 DEF JobInv
<1>9. Moves(e, f) /\ DownloadShape'
  BY <1>1, <1>2, <1>3, <1>5 DEF Moves, DownloadInv, DownloadShape
<1> QED
  BY <1>6, <1>7, <1>8, <1>9, MoveStep

-----------------------------------------------------------------------------
(* Steps of finalize_verified_part.                                        *)
LEMMA FinishMoves ==
  ASSUME DownloadShape, NEW e \in Executions, NEW f \in Files, FinishJob(e, f),
         lock[f] = e
  PROVE  /\ job' \in [Executions -> [Files -> Jobs]]
         /\ lock' \in [Files -> Executions \cup {Nobody}]
         /\ job'[e][f].at = "done"
         /\ Moves(e, f)
<1>1. MoveJob(e, f, "done") /\ lock' = [lock EXCEPT ![f] = Nobody] /\ run' = run
  BY DEF FinishJob
<1> QED
  BY <1>1, PhaseMoves DEF Moves, DownloadShape

LEMMA FinishPreserves ==
  ASSUME DownloadInv, NEW e \in Executions, NEW f \in Files,
         DropDuplicate(e, f) \/ KeepDestination(e, f)
  PROVE  DownloadInv'
<1>1. /\ job[e][f].at \in {"finalizing", "swapped"} /\ Turn(e, f) /\ FinishJob(e, f)
      /\ Verifies(f, dest[f])
      /\ UNCHANGED <<dest, original, disturbed>>
  BY DEF DropDuplicate, KeepDestination, JobAt
<1>2. Working(e, f) /\ lock[f] = e /\ DownloadShape
  BY <1>1 DEF Working, Busy, SyncPhases, DownloadInv, JobInv
<1>3. /\ part' \in [Files -> Bytes] /\ backup' \in [Files -> Bytes]
      /\ \A g \in Files \ {f} : part'[g] = part[g] /\ backup'[g] = backup[g]
  <2>1. CASE DropDuplicate(e, f)
    BY <1>2, <2>1 DEF DropDuplicate, DownloadShape, Absent, Bytes
  <2>2. CASE KeepDestination(e, f)
    BY <1>2, <2>2 DEF KeepDestination, DownloadShape, Absent, Bytes
  <2> QED
    BY <2>1, <2>2
<1>4. /\ job' \in [Executions -> [Files -> Jobs]]
      /\ lock' \in [Files -> Executions \cup {Nobody}]
      /\ job'[e][f].at = "done"
      /\ Moves(e, f)
  BY <1>1, <1>2, FinishMoves
<1>5. DiskAt(e, f) /\ FileInv(f)'
  BY <1>1, <1>2, <1>3 DEF DiskAt, FileInv, Kept
<1>6. JobInv(e, f)'
  BY <1>1, <1>4 DEF JobInv, Working, Busy, AwaitPhases, SyncPhases, Turn, FinishJob
<1>7. DownloadShape'
  BY <1>1, <1>2, <1>3, <1>4 DEF DownloadShape, Moves
<1> QED
  BY <1>4, <1>5, <1>6, <1>7, MoveStep

(* What is set aside is what was there at first.                           *)
LEMMA SaveDestinationPreserves ==
  ASSUME DownloadInv, NEW e \in Executions, NEW f \in Files, SaveDestination(e, f)
  PROVE  DownloadInv'
<1>1. /\ job[e][f].at = "finalizing" /\ Turn(e, f)
      /\ ~Verifies(f, dest[f]) /\ Verifies(f, part[f])
      /\ backup' = [backup EXCEPT ![f] = IF dest[f] # Absent THEN dest[f] ELSE @]
      /\ dest' = [dest EXCEPT ![f] = Absent]
      /\ UNCHANGED <<run, lock, part, original, disturbed>>
  BY DEF SaveDestination, JobAt
<1>2. Working(e, f) /\ lock[f] = e /\ DownloadShape
  BY <1>1 DEF Working, Busy, SyncPhases, DownloadInv, JobInv
<1>3. /\ dest' \in [Files -> Bytes] /\ backup' \in [Files -> Bytes]
      /\ dest'[f] = Absent
      /\ backup'[f] = IF dest[f] # Absent THEN dest[f] ELSE backup[f]
      /\ \A g \in Files \ {f} : dest'[g] = dest[g] /\ backup'[g] = backup[g]
  BY <1>1, <1>2 DEF DownloadShape, Absent, Bytes
<1>4. /\ job' \in [Executions -> [Files -> Jobs]]
      /\ job'[e][f].at = "swapping" /\ (job'[e][f].saved <=> dest[f] # Absent)
      /\ \A x \in Executions \ {e} : job'[x] = job[x]
      /\ \A g \in Files \ {f} : job'[e][g] = job[e][g]
  <2>1. PICK saved \in BOOLEAN :
          /\ saved <=> dest[f] # Absent
          /\ job' = [job EXCEPT ![e][f].at = "swapping", ![e][f].saved = saved]
    BY DEF SaveDestination
  <2> DEFINE j == [job[e][f] EXCEPT !.at = "swapping", !.saved = saved]
  <2>2. job[e][f] \in Jobs
    BY <1>2 DEF DownloadShape
  <2>3. job' = [job EXCEPT ![e][f] = j]
    BY <1>2, <2>1, <2>2 DEF DownloadShape
  <2>4. j \in Jobs /\ j.at = "swapping" /\ (j.saved <=> saved)
    BY <2>2 DEF Jobs, AwaitPhases, SyncPhases
  <2> HIDE DEF j
  <2>5. /\ job' \in [Executions -> [Files -> Jobs]] /\ job'[e][f] = j
        /\ \A x \in Executions \ {e} : job'[x] = job[x]
        /\ \A g \in Files \ {f} : job'[e][g] = job[e][g]
    <3>1. DownloadShape /\ j \in Jobs
      BY <1>2, <2>4
    <3> QED
      BY <2>3, <3>1, JobMoves
  <2>6. job'[e][f].saved <=> dest[f] # Absent
    BY <2>1, <2>4, <2>5
  <2> QED
    BY <2>4, <2>5, <2>6
<1>5. f \in Hashed \ disturbed => dest[f] = original[f] \/ Missing(f)
  BY <1>1 DEF DownloadInv, FileInv, Kept
<1>6. DiskAt(e, f)
  BY <1>1, <1>2, <1>3 DEF DiskAt
<1>7. FileInv(f)'
  BY <1>1, <1>3, <1>5 DEF FileInv, Kept, Missing
<1>8. JobInv(e, f)'
  BY <1>1, <1>2, <1>3, <1>4, <1>5 DEF JobInv, Turn, Missing
<1>9. Moves(e, f) /\ DownloadShape'
  BY <1>1, <1>2, <1>3, <1>4 DEF Moves, DownloadShape
<1> QED
  BY <1>6, <1>7, <1>8, <1>9, MoveStep

LEMMA MovePartPreserves ==
  ASSUME DownloadInv, NEW e \in Executions, NEW f \in Files, MovePart(e, f)
  PROVE  DownloadInv'
<1>1. /\ job[e][f].at = "swapping" /\ Turn(e, f) /\ MoveJob(e, f, "swapped")
      /\ dest' = [dest EXCEPT ![f] = part[f]]
      /\ part' = [part EXCEPT ![f] = Absent]
      /\ UNCHANGED <<run, lock, backup, original, disturbed>>
  BY DEF MovePart, JobAt
<1>2. Working(e, f) /\ lock[f] = e /\ DownloadShape /\ Verifies(f, part[f])
  BY <1>1 DEF Working, Busy, SyncPhases, DownloadInv, JobInv
<1>3. /\ dest' \in [Files -> Bytes] /\ part' \in [Files -> Bytes]
      /\ dest'[f] = part[f]
      /\ \A g \in Files \ {f} : dest'[g] = dest[g] /\ part'[g] = part[g]
  BY <1>1, <1>2 DEF DownloadShape, Absent, Bytes
<1>4. /\ job' \in [Executions -> [Files -> Jobs]] /\ job'[e][f].at = "swapped"
      /\ \A x \in Executions \ {e} : job'[x] = job[x]
      /\ \A g \in Files \ {f} : job'[e][g] = job[e][g]
  BY <1>1, <1>2, PhaseMoves DEF SyncPhases
<1>5. DiskAt(e, f) /\ FileInv(f)'
  BY <1>1, <1>2, <1>3 DEF DiskAt, FileInv, Kept
<1>6. JobInv(e, f)'
  BY <1>1, <1>2, <1>3, <1>4 DEF JobInv, Turn, Kept
<1>7. Moves(e, f) /\ DownloadShape'
  BY <1>1, <1>2, <1>3, <1>4 DEF Moves, DownloadShape
<1> QED
  BY <1>5, <1>6, <1>7, MoveStep

(* The swap fails: what is put back is what was there.                     *)
LEMMA SwapFailsPreserves ==
  ASSUME DownloadInv, NEW e \in Executions, NEW f \in Files, NEW restored \in BOOLEAN,
         MovePartFails(e, f, restored) \/ RestoreBackup(e, f, restored)
  PROVE  DownloadInv'
<1>1. /\ job[e][f].at \in {"swapping", "restoring"} /\ FailJob(e)
      /\ UNCHANGED <<part, original>>
  BY DEF MovePartFails, RestoreBackup, JobAt
<1>2. Working(e, f) /\ DownloadShape /\ JobInv(e, f) /\ FileInv(f)
  BY <1>1 DEF Working, Busy, SyncPhases, DownloadInv
<1>3. /\ dest' \in [Files -> Bytes] /\ backup' \in [Files -> Bytes]
      /\ disturbed' \subseteq Files /\ disturbed' \in {disturbed, disturbed \cup {f}}
      /\ \A g \in Files \ {f} : dest'[g] = dest[g] /\ backup'[g] = backup[g]
      /\ f \notin disturbed' /\ job[e][f].at = "swapping" =>
           \/ dest'[f] = dest[f] /\ backup'[f] = backup[f]
           \/ dest'[f] = backup[f] /\ job[e][f].saved
  <2>1. CASE UNCHANGED <<dest, backup, disturbed>>
    BY <1>2, <2>1 DEF DownloadShape
  <2>2. CASE PutBack(f, restored) /\ ~UNCHANGED <<dest, backup, disturbed>>
    <3>1. job[e][f].at = "swapping" => job[e][f].saved
      BY <1>1, <2>2 DEF MovePartFails, RestoreBackup, JobAt
    <3>2. CASE restored
      <4>1. /\ dest' = [dest EXCEPT ![f] = backup[f]]
            /\ backup' = [backup EXCEPT ![f] = Absent]
            /\ disturbed' = disturbed
        BY <2>2, <3>2 DEF PutBack
      <4>2. Absent \in Bytes
        BY DEF Absent, Bytes
      <4>3. /\ dest' \in [Files -> Bytes] /\ dest'[f] = backup[f]
            /\ \A g \in Files \ {f} : dest'[g] = dest[g]
        BY <1>2, <4>1 DEF DownloadShape
      <4>4. /\ backup' \in [Files -> Bytes]
            /\ \A g \in Files \ {f} : backup'[g] = backup[g]
        BY <1>2, <4>1, <4>2 DEF DownloadShape
      <4> QED
        BY <1>2, <3>1, <4>1, <4>3, <4>4 DEF DownloadShape
    <3>3. CASE ~restored
      BY <1>2, <2>2, <3>1, <3>3 DEF PutBack, DownloadShape
    <3> QED
      BY <3>2, <3>3
  <2> QED
    BY <2>1, <2>2 DEF MovePartFails, RestoreBackup
<1>4. f \notin disturbed' => job[e][f].at = "swapping" /\ dest[f] = Absent /\ f \notin disturbed
  BY <1>1, <1>2, <1>3 DEF JobInv
<1>5. DiskAt(e, f)
  BY <1>1, <1>2, <1>3, <1>4, AbsentFails DEF DiskAt
<1>6. FileInv(f)'
  BY <1>1, <1>2, <1>3, <1>4 DEF FileInv, JobInv, Kept, Missing
<1>7. DownloadShape'
  BY <1>1, <1>2, <1>3, FailEffects DEF DownloadShape
<1> QED
  BY <1>1, <1>5, <1>6, <1>7, FailStep

(* A file that fails its last verification has been touched by another     *)
(* program.                                                                *)
LEMMA RejectDestinationPreserves ==
  ASSUME DownloadInv, NEW e \in Executions, NEW f \in Files, RejectDestination(e, f)
  PROVE  DownloadInv'
<1>1. /\ job[e][f].at = "swapped" /\ Turn(e, f) /\ ~Verifies(f, dest[f])
      /\ UNCHANGED <<part, backup, original, disturbed>>
  BY DEF RejectDestination, JobAt
<1>2. Working(e, f) /\ DownloadShape /\ f \in disturbed /\ lock[f] = e
  BY <1>1 DEF Working, Busy, SyncPhases, DownloadInv, JobInv
<1>3. CASE job[e][f].saved
  <2>1. /\ dest' = [dest EXCEPT ![f] = Absent] /\ MoveJob(e, f, "restoring")
        /\ UNCHANGED <<run, lock>>
    BY <1>3 DEF RejectDestination
  <2>2. /\ dest' \in [Files -> Bytes]
        /\ \A g \in Files \ {f} : dest'[g] = dest[g]
    BY <1>2, <2>1 DEF DownloadShape, Absent, Bytes
  <2>3. /\ job' \in [Executions -> [Files -> Jobs]] /\ job'[e][f].at = "restoring"
        /\ \A x \in Executions \ {e} : job'[x] = job[x]
        /\ \A g \in Files \ {f} : job'[e][g] = job[e][g]
    BY <1>2, <2>1, PhaseMoves DEF SyncPhases
  <2>4. DiskAt(e, f) /\ FileInv(f)'
    BY <1>1, <1>2, <2>2 DEF DiskAt, FileInv
  <2>5. JobInv(e, f)'
    BY <1>1, <1>2, <2>1, <2>3 DEF JobInv, Turn
  <2>6. Moves(e, f) /\ DownloadShape'
    BY <1>1, <1>2, <2>1, <2>2, <2>3 DEF Moves, DownloadShape
  <2> QED
    BY <2>4, <2>5, <2>6, MoveStep
<1>4. CASE ~job[e][f].saved
  BY <1>1, <1>4, QuietFail DEF RejectDestination, diskVars
<1> QED
  BY <1>3, <1>4

LEMMA JobStepPreserves ==
  ASSUME DownloadInv, NEW e \in Executions, NEW f \in Files, JobStep(e, f)
  PROVE  DownloadInv'
<1>1. CASE ReceiveEnd(e, f)
  BY <1>1, QuietStepsPreserve, ReceivePreserves
<1>2. CASE NoticeCancel(e, f) \/ AcquireLock(e, f) \/ CheckDestination(e, f)
             \/ TransientFailure(e, f) \/ PermanentFailure(e, f)
             \/ ResponseContinues(e, f) \/ WakeUp(e, f)
  BY <1>2, QuietStepsPreserve, AcquireLockPreserves, CheckDestinationPreserves,
     TransientFailurePreserves
<1>3. CASE \/ BeginAttempt(e, f) \/ RejectResponse(e, f) \/ ResponseRestarts(e, f)
           \/ \E n \in 1..(Size + 1), good \in BOOLEAN : ReceiveChunk(e, f, n, good)
  BY <1>3, BeginAttemptPreserves, ReceivePreserves
<1>4. CASE \/ DropDuplicate(e, f) \/ SaveDestination(e, f) \/ MovePart(e, f)
           \/ KeepDestination(e, f) \/ RejectDestination(e, f)
           \/ \E restored \in BOOLEAN :
                MovePartFails(e, f, restored) \/ RestoreBackup(e, f, restored)
  BY <1>4, FinishPreserves, SaveDestinationPreserves, MovePartPreserves,
     SwapFailsPreserves, RejectDestinationPreserves
<1> QED
  BY <1>1, <1>2, <1>3, <1>4 DEF JobStep

-----------------------------------------------------------------------------
(* Steps of an execution as a whole, of other programs, and a crash.       *)
LEMMA ExecutionStepPreserves ==
  ASSUME DownloadInv, NEW e \in Executions,
         UNCHANGED <<lock, diskVars>>,
         run' \in [Executions -> Runs], job' \in [Executions -> [Files -> Jobs]],
         \A x \in Executions \ {e} : run'[x] = run[x] /\ job'[x] = job[x],
         \A f \in Files :
           /\ job'[e][f].at \in {"idle", "pending", "done"}
           /\ run'[e].state # "running" => job'[e][f].at = "idle"
           /\ f \notin disturbed =>
                /\ job'[e][f].at = "done" => Verifies(f, dest[f])
                /\ run'[e].state = "ok" /\ f \in run'[e].files => Verifies(f, dest[f])
  PROVE  DownloadInv'
<1>1. DownloadShape' /\ \A f \in Files : FileInv(f)'
  BY DEF DownloadInv, DownloadShape, FileInv, Kept, Missing, diskVars
<1>2. ASSUME NEW f \in Files PROVE JobInv(e, f)'
  BY DEF JobInv, Working, Busy, AwaitPhases, SyncPhases, diskVars
<1>3. ASSUME NEW x \in Executions \ {e}, NEW f \in Files PROVE JobInv(x, f)'
  BY DEF DownloadInv, JobInv, Working, Kept, diskVars
<1> QED
  BY <1>1, <1>2, <1>3 DEF DownloadInv

LEMMA StartExecutionPreserves ==
  ASSUME DownloadInv, NEW e \in Executions, StartExecution(e)
  PROVE  DownloadInv'
<1> DEFINE valid == {f \in run[e].files : Verifies(f, dest[f])}
           jobs == [f \in Files |->
             IF f \notin run[e].files THEN Idle ELSE
             [Idle EXCEPT !.at = IF f \in valid THEN "done" ELSE "pending",
                          !.reported = IF f \in valid THEN Size ELSE 0]]
<1>1. /\ run' = [run EXCEPT ![e].state = "running", ![e].runs = @ + 1]
      /\ job' = [job EXCEPT ![e] = jobs]
      /\ UNCHANGED <<lock, diskVars>>
  BY DEF StartExecution
<1>2. /\ run' \in [Executions -> Runs] /\ run'[e].state = "running"
      /\ \A x \in Executions \ {e} : run'[x] = run[x]
  <2> HIDE DEF jobs, valid
  <2> DEFINE entered == [run EXCEPT ![e].state = "running"]
  <2>1. run \in [Executions -> Runs]
    BY DEF DownloadInv, DownloadShape
  <2>2. /\ entered \in [Executions -> Runs] /\ entered[e].state = "running"
        /\ \A x \in Executions \ {e} : entered[x] = run[x]
    BY <2>1 DEF Runs
  <2>3. run' = [entered EXCEPT ![e].runs = run[e].runs + 1]
    BY <1>1, <2>1 DEF Runs
  <2>4. run[e].runs + 1 \in Nat
    BY <2>1 DEF Runs
  <2> HIDE DEF entered
  <2> QED
    BY <2>2, <2>3, <2>4 DEF Runs
<1>3. ASSUME NEW f \in Files
      PROVE  /\ jobs[f] \in Jobs /\ jobs[f].at \in {"idle", "pending", "done"}
             /\ jobs[f].at = "done" => Verifies(f, dest[f])
  <2>1. CASE f \notin run[e].files
    BY <2>1, IdleIsJob
  <2>2. CASE f \in run[e].files
    <3>1. Size \in Nat
      BY DownloadAssumption
    <3>2. CASE f \in valid
      <4>1. jobs[f] = [Idle EXCEPT !.at = "done", !.reported = Size]
        BY <2>2, <3>2
      <4> QED
        BY <3>1, <3>2, <4>1 DEF Idle, Jobs, AwaitPhases, SyncPhases
    <3>3. CASE f \notin valid
      <4>1. jobs[f] = [Idle EXCEPT !.at = "pending", !.reported = 0]
        BY <2>2, <3>3
      <4> QED
        BY <3>1, <4>1 DEF Idle, Jobs, AwaitPhases, SyncPhases
    <3> QED
      BY <3>2, <3>3
  <2> QED
    BY <2>1, <2>2
<1>4. jobs \in [Files -> Jobs]
  BY <1>3
<1> HIDE DEF jobs, valid
<1>5. /\ job' \in [Executions -> [Files -> Jobs]] /\ job'[e] = jobs
      /\ \A x \in Executions \ {e} : job'[x] = job[x]
  BY <1>1, <1>4 DEF DownloadInv, DownloadShape
<1> QED
  BY <1>1, <1>2, <1>3, <1>5, ExecutionStepPreserves

LEMMA EndExecutionPreserves ==
  ASSUME DownloadInv, NEW e \in Executions, EndExecution(e)
  PROVE  DownloadInv'
<1>1. PICK state \in {"ok", "failed"} : run' = [run EXCEPT ![e].state = state]
  BY DEF EndExecution
<1>2. /\ job' = [job EXCEPT ![e] = [f \in Files |-> Idle]]
      /\ UNCHANGED <<lock, diskVars>>
      /\ \A f \in run[e].files : job[e][f].at = "done"
  BY DEF EndExecution
<1>3. /\ run' \in [Executions -> Runs] /\ run'[e].files = run[e].files
      /\ run'[e].state = state
      /\ \A x \in Executions \ {e} : run'[x] = run[x]
  BY <1>1 DEF DownloadInv, DownloadShape, Runs
<1>4. /\ job' \in [Executions -> [Files -> Jobs]]
      /\ \A f \in Files : job'[e][f].at = "idle"
      /\ \A x \in Executions \ {e} : job'[x] = job[x]
  BY <1>2, IdleIsJob DEF DownloadInv, DownloadShape
<1>5. \A f \in Files : f \notin disturbed /\ f \in run[e].files => Verifies(f, dest[f])
  BY <1>2 DEF DownloadInv, JobInv
<1> QED
  BY <1>2, <1>3, <1>4, <1>5, ExecutionStepPreserves

LEMMA NothingHappens ==
  ASSUME DownloadInv, UNCHANGED <<run, job, lock, diskVars>>
  PROVE  DownloadInv'
BY DEF DownloadInv, DownloadShape, FileInv, JobInv, Working, Kept, Missing, diskVars

LEMMA DisturbPreserves ==
  ASSUME DownloadInv, NEW f \in Files, Disturb(f)
  PROVE  DownloadInv'
<1>1. /\ disturbed' = disturbed \cup {f}
      /\ UNCHANGED <<run, job, lock, part, backup, original>>
  BY DEF Disturb
<1>2. PICK bytes \in Bytes : dest' = [dest EXCEPT ![f] = bytes]
  <2>1. CASE dest' = [dest EXCEPT ![f].good = FALSE]
    <3>1. dest[f] \in Bytes
      BY DEF DownloadInv, DownloadShape
    <3>2. [dest[f] EXCEPT !.good = FALSE] \in Bytes
      BY <3>1 DEF Bytes
    <3>3. dest' = [dest EXCEPT ![f] = [dest[f] EXCEPT !.good = FALSE]]
      BY <2>1, <3>1 DEF DownloadInv, DownloadShape
    <3> QED
      BY <3>2, <3>3
  <2>2. CASE dest' = [dest EXCEPT ![f] = [len |-> Size, good |-> TRUE]]
    BY <2>2, DownloadAssumption DEF Bytes
  <2> QED
    BY <2>1, <2>2 DEF Disturb
<1>3. dest' \in [Files -> Bytes] /\ \A g \in Files \ {f} : dest'[g] = dest[g]
  BY <1>2 DEF DownloadInv, DownloadShape
<1>4. DownloadShape'
  BY <1>1, <1>3 DEF DownloadInv, DownloadShape
<1>5. ASSUME NEW g \in Files PROVE FileInv(g)'
  BY <1>1, <1>3 DEF DownloadInv, FileInv, Kept, Missing
<1>6. ASSUME NEW x \in Executions, NEW g \in Files PROVE JobInv(x, g)'
  BY <1>1, <1>3 DEF DownloadInv, JobInv, Working, Kept
<1> QED
  BY <1>4, <1>5, <1>6 DEF DownloadInv

(* What a crash may garble is the part of a transfer, and the destination  *)
(* of that is not missing.                                                 *)
LEMMA CrashPreserves ==
  ASSUME DownloadInv, Crash
  PROVE  DownloadInv'
<1>1. /\ run' = [e \in Executions |-> [run[e] EXCEPT !.state = "idle"]]
      /\ job' = [e \in Executions |-> [f \in Files |-> Idle]]
      /\ lock' = [f \in Files |-> Nobody]
      /\ UNCHANGED <<dest, backup, original, disturbed>>
  BY DEF Crash
<1>2. /\ part' \in [Files -> Content]
      /\ \A f \in Files : ~Unsynced(f) => part'[f] = part[f]
  BY DEF Crash
<1>3. DownloadShape'
  <2>1. part' \in [Files -> Bytes]
    BY <1>2, DownloadAssumption DEF Content, Bytes
  <2>2. run' \in [Executions -> Runs]
    BY <1>1 DEF DownloadInv, DownloadShape, Runs
  <2>3. job' \in [Executions -> [Files -> Jobs]]
    BY <1>1, IdleIsJob
  <2> QED
    BY <1>1, <2>1, <2>2, <2>3 DEF DownloadInv, DownloadShape
<1>4. ASSUME NEW f \in Files PROVE FileInv(f)'
  <2>1. CASE Unsynced(f)
    BY <1>1, <2>1 DEF Unsynced, DownloadInv, JobInv, FileInv, Kept
  <2>2. CASE ~Unsynced(f)
    BY <1>1, <1>2, <2>2 DEF DownloadInv, FileInv, Kept, Missing
  <2> QED
    BY <2>1, <2>2
<1>5. ASSUME NEW e \in Executions, NEW f \in Files PROVE JobInv(e, f)'
  <2>1. job'[e][f].at = "idle" /\ run'[e].state = "idle"
    BY <1>1, IdleIsJob DEF DownloadInv, DownloadShape, Runs
  <2> QED
    BY <2>1 DEF JobInv, Working, Busy, AwaitPhases, SyncPhases
<1> QED
  BY <1>3, <1>4, <1>5 DEF DownloadInv

LEMMA DownloadInitEstablishes == DownloadInit => DownloadInv
<1> SUFFICES ASSUME DownloadInit PROVE DownloadInv
  OBVIOUS
<1>1. DownloadShape
  <2>1. PICK plan \in Plans :
          run = [e \in Executions |-> [state |-> "idle", runs |-> 0, files |-> plan[e]]]
    BY DEF DownloadInit
  <2>2. run \in [Executions -> Runs]
    BY <2>1, DownloadAssumption DEF Runs
  <2>3. job \in [Executions -> [Files -> Jobs]]
    BY IdleIsJob DEF DownloadInit
  <2>4. /\ dest \in [Files -> Bytes] /\ part \in [Files -> Bytes]
        /\ backup \in [Files -> Bytes] /\ original \in [Files -> Bytes]
    <3>1. /\ Absent \in Bytes
          /\ [len |-> Size, good |-> FALSE] \in Bytes
          /\ [len |-> Size, good |-> TRUE] \in Bytes
          /\ [len |-> Size + 1, good |-> FALSE] \in Bytes
      BY DownloadAssumption DEF Absent, Bytes
    <3>2. /\ dest \in [Files -> Bytes] /\ part \in [Files -> Bytes]
          /\ original = dest
      BY <3>1 DEF DownloadInit
    <3> QED
      BY <3>1, <3>2 DEF DownloadInit
  <2> QED
    BY <2>2, <2>3, <2>4 DEF DownloadInit, DownloadShape
<1>2. \A f \in Files : FileInv(f)
  BY DEF DownloadInit, FileInv, Kept
<1>3. ASSUME NEW e \in Executions, NEW f \in Files PROVE JobInv(e, f)
  <2>1. job[e][f].at = "idle" /\ run[e].state = "idle"
    BY IdleIsJob DEF DownloadInit
  <2> QED
    BY <2>1 DEF JobInv, Working, Busy, AwaitPhases, SyncPhases
<1> QED
  BY <1>1, <1>2, <1>3 DEF DownloadInv

-----------------------------------------------------------------------------
(* Who holds a lock, what the swap has verified and what it has set aside  *)
(* agree in every state, whatever crashes and other programs interfere.    *)
THEOREM DownloadsAreConsistent == DownloadSafety => []DownloadInv
<1>1. DownloadInit => DownloadInv
  BY DownloadInitEstablishes
<1>2. DownloadInv /\ [DownloadNext]_downloadVars => DownloadInv'
  <2> SUFFICES ASSUME DownloadInv, [DownloadNext]_downloadVars PROVE DownloadInv'
    OBVIOUS
  <2>1. ASSUME NEW e \in Executions,
               StartExecution(e) \/ CancelExecution(e) \/ ExecutionStep(e)
        PROVE  DownloadInv'
    <3>1. CASE CancelExecution(e)
      BY <3>1, NothingHappens DEF CancelExecution
    <3> QED
      BY <2>1, <3>1, StartExecutionPreserves, EndExecutionPreserves, JobStepPreserves
         DEF ExecutionStep
  <2>2. CASE UNCHANGED downloadVars
    BY <2>2, NothingHappens DEF downloadVars
  <2> QED
    BY <2>1, <2>2, DisturbPreserves, CrashPreserves DEF DownloadNext
<1> QED
  BY <1>1, <1>2, PTL DEF DownloadSafety

(* An execution that returns Ok leaves every destination verified (execute,*)
(* finalize_verified_part), whatever rivals, retries and crashes it took.  *)
THEOREM OkAlwaysMeansVerified == DownloadSafety => []OkMeansVerified
<1>1. DownloadInv => OkMeansVerified
  BY DEF DownloadInv, DownloadShape, Runs, JobInv, OkMeansVerified
<1> QED
  BY <1>1, DownloadsAreConsistent, PTL

(* The file that was there gives way to a verified one only, and a crash   *)
(* in the middle of the swap loses neither (finalize_verified_part).       *)
THEOREM OnlyVerifiedReplaces == DownloadSafety => []ReplacedOnlyByVerified
<1>1. DownloadInv => ReplacedOnlyByVerified
  BY DownloadAssumption DEF DownloadInv, FileInv, Kept, Missing, ReplacedOnlyByVerified
<1> QED
  BY <1>1, DownloadsAreConsistent, PTL
-----------------------------------------------------------------------------
(* Sums over finite sets.  g[s] is the sum of F over s, for every subset s  *)
(* of S, added up in the order the community modules do.  What would be an  *)
(* induction over the set looks at a smallest subset for which the claim    *)
(* fails, and finds that it fails for a smaller one.                        *)
Any(s) == CHOOSE x \in s : TRUE
IsSum(F, g, S) ==
  g = [s \in SUBSET S |-> IF s = {} THEN 0 ELSE F[Any(s)] + g[s \ {Any(s)}]]

LEMMA AnyIsMember == \A s : s # {} => Any(s) \in s
BY DEF Any

(* A set of natural numbers that is not empty has a least element.          *)
LEMMA LeastNatural ==
  ASSUME NEW B \in SUBSET Nat, B # {}
  PROVE  \E n \in B : \A m \in B : n <= m
<1>1. PICK n \in B : \A m \in B : ~(<<m, n>> \in OpToRel(<, Nat))
  BY NatLessThanWellFounded, WFMin
<1>2. \A m \in B : ~(m < n)
  BY <1>1 DEF OpToRel
<1> QED
  BY <1>2

(* Of some subsets of a finite set, one has none of the others in it.       *)
LEMMA MinimalSubset ==
  ASSUME NEW S, IsFiniteSet(S), NEW B \in SUBSET (SUBSET S), B # {}
  PROVE  \E s \in B : \A t \in B : t \subseteq s => t = s
<1>1. \A s \in SUBSET S : IsFiniteSet(s) /\ Cardinality(s) \in Nat
  BY FS_Subset, FS_CardinalityType
<1> DEFINE N == {n \in Nat : \E s \in B : Cardinality(s) = n}
<1>2. N \in SUBSET Nat /\ N # {}
  BY <1>1
<1>3. PICK n \in N : \A m \in N : n <= m
  BY <1>2, LeastNatural
<1>4. PICK s \in B : Cardinality(s) = n
  BY <1>3
<1>5. ASSUME NEW t \in B, t \subseteq s
      PROVE  t = s
  <2>1. Cardinality(t) \in N
    BY <1>1
  <2>2. Cardinality(t) <= Cardinality(s) /\ (Cardinality(s) = Cardinality(t) => s = t)
    BY <1>1, <1>5, FS_Subset
  <2>3. n \in Nat /\ n <= Cardinality(t)
    BY <1>3, <2>1
  <2> QED
    BY <1>1, <1>4, <2>2, <2>3
<1> QED
  BY <1>5

(* The equation has a solution: one for the subsets of up to n elements     *)
(* gives one for those of n + 1.                                           *)
LEMMA SumExists ==
  ASSUME NEW S, IsFiniteSet(S), NEW F
  PROVE  \E g : IsSum(F, g, S)
<1> DEFINE Small(n) == {s \in SUBSET S : Cardinality(s) <= n}
           IsPart(g, n) == g = [s \in Small(n) |->
             IF s = {} THEN 0 ELSE F[Any(s)] + g[s \ {Any(s)}]]
           B == {n \in Nat : ~\E g : IsPart(g, n)}
<1>1. \A s \in SUBSET S :
        IsFiniteSet(s) /\ Cardinality(s) \in Nat /\ Cardinality(s) <= Cardinality(S)
  BY FS_Subset, FS_CardinalityType
<1>2. \A s \in SUBSET S : s # {} =>
        s \ {Any(s)} \in SUBSET S /\ Cardinality(s \ {Any(s)}) = Cardinality(s) - 1
  BY <1>1, FS_RemoveElement, AnyIsMember
<1>3. 0 \notin B
  <2> DEFINE g == [s \in Small(0) |-> 0]
  <2>1. \A s \in Small(0) : s = {}
    BY <1>1, FS_EmptySet
  <2>2. IsPart(g, 0)
    BY <2>1
  <2> QED
    BY <2>2
<1>4. ASSUME NEW n \in Nat, NEW g, IsPart(g, n)
      PROVE  \E h : IsPart(h, n + 1)
  <2> DEFINE h == [s \in Small(n + 1) |-> IF s = {} THEN 0 ELSE F[Any(s)] + g[s \ {Any(s)}]]
  <2>1. \A s \in Small(n) : s \in Small(n + 1) /\ h[s] = g[s]
    <3>1. \A s \in Small(n) : s \in Small(n + 1)
      BY <1>1
    <3>2. \A s \in Small(n) : g[s] = IF s = {} THEN 0 ELSE F[Any(s)] + g[s \ {Any(s)}]
      BY <1>4
    <3> HIDE DEF Small
    <3> QED
      BY <3>1, <3>2
  <2>2. \A s \in Small(n + 1) : s # {} => s \ {Any(s)} \in Small(n)
    BY <1>1, <1>2
  <2>3. \A s \in Small(n + 1) : s # {} => h[s \ {Any(s)}] = g[s \ {Any(s)}]
    BY <2>1, <2>2
  <2> HIDE DEF Small
  <2>4. h = [s \in Small(n + 1) |-> IF s = {} THEN 0 ELSE F[Any(s)] + h[s \ {Any(s)}]]
    <3> DEFINE k == [s \in Small(n + 1) |-> IF s = {} THEN 0 ELSE F[Any(s)] + h[s \ {Any(s)}]]
    <3>1. \A s \in Small(n + 1) : h[s] = k[s]
      BY <2>3
    <3>2. h = [s \in Small(n + 1) |-> h[s]] /\ k = [s \in Small(n + 1) |-> k[s]]
      OBVIOUS
    <3> HIDE DEF h, k
    <3>3. h = k
      BY <3>1, <3>2
    <3> QED
      BY <3>3 DEF k
  <2> QED
    BY <2>4
<1>5. B = {}
  <2> SUFFICES ASSUME B # {} PROVE FALSE
    OBVIOUS
  <2>1. PICK n \in B : \A m \in B : n <= m
    BY LeastNatural
  <2>2. n \in Nat /\ n # 0
    BY <1>3
  <2>3. n - 1 \in Nat /\ n - 1 \notin B /\ (n - 1) + 1 = n
    <3> HIDE DEF B
    <3> QED
      BY <2>1, <2>2
  <2>4. PICK g : IsPart(g, n - 1)
    BY <2>3
  <2> HIDE DEF IsPart
  <2>5. \E h : IsPart(h, n)
    BY <1>4, <2>3, <2>4
  <2> QED
    BY <2>5
<1>6. Cardinality(S) \in Nat /\ Small(Cardinality(S)) = SUBSET S
  BY <1>1
<1>7. PICK g : IsPart(g, Cardinality(S))
  BY <1>5, <1>6
<1>8. IsSum(F, g, S)
  BY <1>6, <1>7 DEF IsSum
<1> QED
  BY <1>8

LEMMA SumUnfolds ==
  ASSUME NEW S, NEW F \in [S -> Nat], NEW g, IsSum(F, g, S)
  PROVE  /\ g[{}] = 0
         /\ \A s \in SUBSET S : s # {} =>
              /\ Any(s) \in s /\ F[Any(s)] \in Nat
              /\ s \ {Any(s)} \in SUBSET S /\ s \ {Any(s)} # s
              /\ g[s] = F[Any(s)] + g[s \ {Any(s)}]
<1>1. \A s \in SUBSET S : g[s] = IF s = {} THEN 0 ELSE F[Any(s)] + g[s \ {Any(s)}]
  BY DEF IsSum
<1> QED
  BY <1>1, AnyIsMember

LEMMA SumIsNatural ==
  ASSUME NEW S, IsFiniteSet(S), NEW F \in [S -> Nat], NEW g, IsSum(F, g, S)
  PROVE  \A s \in SUBSET S : g[s] \in Nat
<1> DEFINE B == {s \in SUBSET S : g[s] \notin Nat}
<1> SUFFICES ASSUME B # {} PROVE FALSE
  OBVIOUS
<1>1. PICK s \in B : \A t \in B : t \subseteq s => t = s
  <2>1. B \in SUBSET (SUBSET S)
    OBVIOUS
  <2> HIDE DEF B
  <2> QED
    BY <2>1, MinimalSubset
<1>2. CASE s = {}
  BY <1>2, SumUnfolds
<1>3. CASE s # {}
  <2> DEFINE t == s \ {Any(s)}
  <2>1. F[Any(s)] \in Nat /\ t \in SUBSET S /\ t # s /\ g[s] = F[Any(s)] + g[t]
    <3> s \in SUBSET S
      OBVIOUS
    <3> HIDE DEF B
    <3> QED
      BY <1>3, SumUnfolds
  <2>2. g[t] \in Nat
    BY <1>1, <2>1
  <2>3. g[s] \in Nat
    <3> HIDE DEF t, B
    <3> QED
      BY <2>1, <2>2
  <2> QED
    BY <2>3
<1> QED
  BY <1>2, <1>3

(* When one summand changes, so does the sum, and by as much.               *)
LEMMA SumChange ==
  ASSUME NEW S, IsFiniteSet(S), NEW F \in [S -> Nat], NEW G \in [S -> Nat],
         NEW f \in S, NEW g, NEW h, IsSum(F, g, S), IsSum(G, h, S),
         \A x \in S \ {f} : G[x] = F[x]
  PROVE  h[S] + F[f] = g[S] + G[f]
<1> DEFINE In(s, n) == IF f \in s THEN n ELSE 0
           B == {s \in SUBSET S : h[s] + In(s, F[f]) # g[s] + In(s, G[f])}
<1>1. B = {}
  <2> SUFFICES ASSUME B # {} PROVE FALSE
    OBVIOUS
  <2>1. PICK s \in B : \A t \in B : t \subseteq s => t = s
    <3>1. B \in SUBSET (SUBSET S)
      OBVIOUS
    <3> HIDE DEF B
    <3> QED
      BY <3>1, MinimalSubset
  <2>2. CASE s = {}
    BY <2>2, SumUnfolds
  <2>3. CASE s # {}
    <3> DEFINE t == s \ {Any(s)}
    <3>1. /\ t \in SUBSET S /\ t # s /\ t \subseteq s
          /\ Any(s) \in s /\ Any(s) \in S
          /\ g[s] = F[Any(s)] + g[t]
          /\ h[s] = G[Any(s)] + h[t]
      <4> s \in SUBSET S
        OBVIOUS
      <4> HIDE DEF B
      <4>1. Any(s) \in s /\ t \in SUBSET S /\ t # s /\ g[s] = F[Any(s)] + g[t]
        BY <2>3, SumUnfolds
      <4>2. h[s] = G[Any(s)] + h[t]
        BY <2>3, SumUnfolds
      <4> QED
        BY <4>1, <4>2
    <3>2. g[t] \in Nat /\ h[t] \in Nat
      BY <3>1, SumIsNatural
    <3>3. h[t] + In(t, F[f]) = g[t] + In(t, G[f])
      BY <2>1, <3>1
    <3>4. F[Any(s)] \in Nat /\ G[Any(s)] \in Nat /\ F[f] \in Nat /\ G[f] \in Nat
      BY <3>1
    <3>5. CASE Any(s) = f
      <4>1. In(t, F[f]) = 0 /\ In(t, G[f]) = 0 /\ In(s, F[f]) = F[f] /\ In(s, G[f]) = G[f]
        BY <3>1, <3>5
      <4> HIDE DEF t, In
      <4>2. h[s] + In(s, F[f]) = g[s] + In(s, G[f])
        BY <3>1, <3>2, <3>3, <3>4, <3>5, <4>1
      <4> QED
        BY <4>2
    <3>6. CASE Any(s) # f
      <4>1. /\ In(t, F[f]) = In(s, F[f]) /\ In(t, G[f]) = In(s, G[f])
            /\ In(t, F[f]) \in Nat /\ In(t, G[f]) \in Nat
        BY <3>1, <3>4, <3>6
      <4>2. G[Any(s)] = F[Any(s)]
        BY <3>1, <3>6
      <4> HIDE DEF t, In
      <4>3. h[s] + In(s, F[f]) = g[s] + In(s, G[f])
        BY <3>1, <3>2, <3>3, <3>4, <4>1, <4>2
      <4> QED
        BY <4>3
    <3> QED
      BY <3>5, <3>6
  <2> QED
    BY <2>2, <2>3
<1> QED
  BY <1>1

(* Summands of at most k in V and of none elsewhere.                        *)
LEMMA SumBound ==
  ASSUME NEW S, IsFiniteSet(S), NEW F \in [S -> Nat], NEW V \in SUBSET S, NEW k \in Nat,
         NEW g, IsSum(F, g, S),
         \A f \in S : F[f] <= IF f \in V THEN k ELSE 0
  PROVE  /\ g[S] <= k * Cardinality(V)
         /\ (\A f \in S : F[f] = IF f \in V THEN k ELSE 0) => g[S] = k * Cardinality(V)
<1> DEFINE Full(s) == \A f \in S : F[f] = IF f \in V THEN k ELSE 0
           B == {s \in SUBSET S : ~(/\ g[s] <= k * Cardinality(V \cap s)
                                    /\ Full(s) => g[s] = k * Cardinality(V \cap s))}
<1>3. \A s \in SUBSET S : s # {} =>
         /\ Any(s) \in s
         /\ s \ {Any(s)} \in SUBSET S /\ s \ {Any(s)} # s
         /\ g[s] = F[Any(s)] + g[s \ {Any(s)}]
  <2> HIDE DEF B
  <2> QED
    BY SumUnfolds
<1>0. \A s \in SUBSET S : IsFiniteSet(V \cap s) /\ Cardinality(V \cap s) \in Nat
  <2>1. \A s \in SUBSET S : V \cap s \in SUBSET S
    OBVIOUS
  <2> QED
    BY <2>1, FS_Subset, FS_CardinalityType
<1>1. B = {}
  <2> SUFFICES ASSUME B # {} PROVE FALSE
    OBVIOUS
  <2>1. PICK s \in B : \A t \in B : t \subseteq s => t = s
    <3>1. B \in SUBSET (SUBSET S)
      OBVIOUS
    <3> HIDE DEF B
    <3> QED
      BY <3>1, MinimalSubset
  <2>2. CASE s = {}
    <3>1. V \cap s = {} /\ g[s] = 0
      BY <2>2, SumUnfolds
    <3>2. k * Cardinality(V \cap s) = 0
      BY <3>1, FS_EmptySet
    <3> QED
      BY <3>1, <3>2
  <2>3. CASE s # {}
    <3> DEFINE t == s \ {Any(s)}
    <3>1. /\ t \in SUBSET S /\ t # s /\ t \subseteq s
          /\ Any(s) \in s /\ Any(s) \in S
          /\ g[s] = F[Any(s)] + g[t]
      <4> s \in SUBSET S
        OBVIOUS
      <4> HIDE DEF B
      <4>1. Any(s) \in s /\ t \in SUBSET S /\ t # s /\ g[s] = F[Any(s)] + g[t]
        BY <2>3, <1>3
      <4> QED
        BY <4>1
    <3>2. g[t] \in Nat /\ F[Any(s)] \in Nat
      BY <3>1, SumIsNatural
    <3>3. /\ g[t] <= k * Cardinality(V \cap t)
          /\ Full(s) => g[t] = k * Cardinality(V \cap t)
      BY <2>1, <3>1
    <3>4. CASE Any(s) \in V
      <4>1. V \cap t = (V \cap s) \ {Any(s)} /\ Any(s) \in V \cap s
        BY <3>1, <3>4
      <4>2. Cardinality(V \cap t) = Cardinality(V \cap s) - 1
        <5>1. IsFiniteSet(V \cap s)
          BY <1>0
        <5>2. Cardinality((V \cap s) \ {Any(s)}) = Cardinality(V \cap s) - 1
          BY <4>1, <5>1, FS_RemoveElement
        <5> QED
          BY <4>1, <5>2
      <4>3. Cardinality(V \cap s) \in Nat
        BY <1>0
      <4>4. k * Cardinality(V \cap t) = k * Cardinality(V \cap s) - k
        <5>1. \A n \in Nat : k * (n - 1) = k * n - k
          OBVIOUS
        <5> QED
          BY <4>2, <4>3, <5>1
      <4>5. F[Any(s)] <= k /\ (Full(s) => F[Any(s)] = k)
        BY <3>1, <3>4
      <4>6. k * Cardinality(V \cap s) \in Nat
        BY <4>3
      <4> HIDE DEF t, Full
      <4>7. g[s] <= k * Cardinality(V \cap s) /\ (Full(s) => g[s] = k * Cardinality(V \cap s))
        BY <3>1, <3>2, <3>3, <4>4, <4>5, <4>6
      <4> QED
        BY <4>7
    <3>5. CASE Any(s) \notin V
      <4>1. V \cap t = V \cap s
        BY <3>1, <3>5
      <4>2. F[Any(s)] = 0
        BY <3>1, <3>2, <3>5
      <4> HIDE DEF t, Full
      <4>3. g[s] = g[t]
        BY <3>1, <3>2, <4>2
      <4>4. g[s] <= k * Cardinality(V \cap s) /\ (Full(s) => g[s] = k * Cardinality(V \cap s))
        BY <3>3, <4>1, <4>3
      <4> QED
        BY <4>4
    <3> QED
      BY <3>4, <3>5
  <2> QED
    BY <2>2, <2>3
<1>2. V \cap S = V
  OBVIOUS
<1> QED
  BY <1>1, <1>2

-----------------------------------------------------------------------------
(* What the jobs of an execution have reported, and its sum.                *)
Shares(jobs) == [f \in Files |-> jobs[f].reported]
SumOver(jobs) == MapThenSumSet(LAMBDA f : jobs[f].reported, Files)

LEMMA SumOverIsSum ==
  ASSUME NEW jobs \in [Files -> Jobs]
  PROVE  /\ Shares(jobs) \in [Files -> Nat]
         /\ \E g : IsSum(Shares(jobs), g, Files) /\ SumOver(jobs) = g[Files]
<1> DEFINE It(g) == g = [s \in SUBSET Files |->
             IF s = {} THEN 0 ELSE jobs[Any(s)].reported + g[s \ {Any(s)}]]
           sum == CHOOSE g : It(g)
<1>1. Shares(jobs) \in [Files -> Nat]
  BY DEF Shares, Jobs
<1>2. \A s \in SUBSET Files : s # {} => Any(s) \in Files
  BY AnyIsMember
<1>3. \A g : IsSum(Shares(jobs), g, Files) <=> It(g)
  BY <1>2 DEF IsSum, Shares
<1>4. It(sum)
  <2>1. PICK g : IsSum(Shares(jobs), g, Files)
    BY SumExists, DownloadAssumption
  <2>2. It(g)
    BY <1>3, <2>1
  <2> QED
    BY <2>2
<1>5. SumOver(jobs) = sum[Files]
  BY DEF SumOver, MapThenSumSet, MapThenFoldSet, Any
<1> QED
  BY <1>1, <1>3, <1>4, <1>5

LEMMA SumOverChange ==
  ASSUME NEW old \in [Files -> Jobs], NEW new \in [Files -> Jobs], NEW f \in Files,
         \A g \in Files \ {f} : new[g].reported = old[g].reported
  PROVE  /\ SumOver(old) \in Nat /\ SumOver(new) \in Nat
         /\ SumOver(new) + old[f].reported = SumOver(old) + new[f].reported
<1>1. /\ Shares(old) \in [Files -> Nat] /\ Shares(new) \in [Files -> Nat]
      /\ Shares(old)[f] = old[f].reported /\ Shares(new)[f] = new[f].reported
      /\ \A g \in Files \ {f} : Shares(new)[g] = Shares(old)[g]
  BY SumOverIsSum DEF Shares
<1>2. PICK g : IsSum(Shares(old), g, Files) /\ SumOver(old) = g[Files]
  BY SumOverIsSum
<1>3. PICK h : IsSum(Shares(new), h, Files) /\ SumOver(new) = h[Files]
  BY SumOverIsSum
<1>4. g[Files] \in Nat /\ h[Files] \in Nat
  BY <1>1, <1>2, <1>3, SumIsNatural, DownloadAssumption
<1>5. h[Files] + Shares(old)[f] = g[Files] + Shares(new)[f]
  BY <1>1, <1>2, <1>3, SumChange, DownloadAssumption
<1> QED
  BY <1>1, <1>2, <1>3, <1>4, <1>5

LEMMA SumOverBound ==
  ASSUME NEW jobs \in [Files -> Jobs], NEW V \in SUBSET Files,
         \A f \in Files : jobs[f].reported <= IF f \in V THEN Size ELSE 0
  PROVE  /\ SumOver(jobs) <= Size * Cardinality(V)
         /\ (\A f \in Files : jobs[f].reported = IF f \in V THEN Size ELSE 0)
               => SumOver(jobs) = Size * Cardinality(V)
<1>1. /\ Shares(jobs) \in [Files -> Nat]
      /\ \A f \in Files : Shares(jobs)[f] = jobs[f].reported
  BY SumOverIsSum DEF Shares
<1>2. PICK g : IsSum(Shares(jobs), g, Files) /\ SumOver(jobs) = g[Files]
  BY SumOverIsSum
<1>3. Size \in Nat /\ IsFiniteSet(Files)
  BY DownloadAssumption
<1>4. \A f \in Files : Shares(jobs)[f] <= IF f \in V THEN Size ELSE 0
  BY <1>1
<1>5. /\ g[Files] <= Size * Cardinality(V)
      /\ (\A f \in Files : Shares(jobs)[f] = IF f \in V THEN Size ELSE 0)
            => g[Files] = Size * Cardinality(V)
  BY <1>1, <1>2, <1>3, <1>4, SumBound
<1> QED
  BY <1>1, <1>2, <1>5

-----------------------------------------------------------------------------
(* While an execution runs, completed is the sum of what its jobs have      *)
(* reported, each no more than its file is long, and a job that has not     *)
(* come to its first attempt has reported nothing.                          *)
Counted(e) ==
  run[e].state = "running" =>
    /\ completed[e] = SumOver(job[e])
    /\ \A f \in Files :
         /\ job[e][f].reported <= Size
         /\ f \notin run[e].files => job[e][f].at = "idle" /\ job[e][f].reported = 0
         /\ job[e][f].at \in {"pending", "checking"} => job[e][f].reported = 0

ProgressInv ==
  /\ completed \in [Executions -> Nat]
  /\ \A e \in Executions : Counted(e)

LEMMA SetFileBytesType ==
  ASSUME DownloadShape, ProgressInv, NEW e \in Executions, NEW p \in Nat, NEW v \in Nat,
         SetFileBytes(e, p, v)
  PROVE  /\ completed' \in [Executions -> Nat]
         /\ TotalBytes(e) \in Nat
         /\ \A x \in Executions \ {e} : completed'[x] = completed[x]
         /\ completed'[e] = Least(TotalBytes(e), IF v >= p THEN completed[e] + (v - p)
               ELSE IF completed[e] >= p - v THEN completed[e] - (p - v) ELSE 0)
<1>1. run[e].files \in SUBSET Files /\ IsFiniteSet(Files) /\ Size \in Nat
  BY DownloadAssumption DEF DownloadShape, Runs
<1>2. Cardinality(run[e].files) \in Nat
  <2>1. IsFiniteSet(run[e].files)
    BY <1>1, FS_Subset
  <2> QED
    BY <2>1, FS_CardinalityType
<1>3. TotalBytes(e) \in Nat
  BY <1>1, <1>2 DEF TotalBytes
<1>4. completed \in [Executions -> Nat] /\ completed[e] \in Nat
  BY DEF ProgressInv
<1> DEFINE sum == IF v >= p THEN completed[e] + (v - p)
               ELSE IF completed[e] >= p - v THEN completed[e] - (p - v) ELSE 0
<1>5. sum \in Nat
  BY <1>4
<1>6. completed' = [completed EXCEPT ![e] = Least(TotalBytes(e), sum)]
  BY DEF SetFileBytes
<1> HIDE DEF sum
<1>7. Least(TotalBytes(e), sum) \in Nat
  BY <1>3, <1>5 DEF Least
<1>8. /\ completed' \in [Executions -> Nat] /\ completed'[e] = Least(TotalBytes(e), sum)
      /\ \A x \in Executions \ {e} : completed'[x] = completed[x]
  BY <1>4, <1>6, <1>7
<1> QED
  BY <1>3, <1>8 DEF sum

(* Nothing changes but e.                                                   *)
Alone(e) ==
  /\ completed' \in [Executions -> Nat]
  /\ \A x \in Executions \ {e} :
       run'[x] = run[x] /\ job'[x] = job[x] /\ completed'[x] = completed[x]

LEMMA AloneStep ==
  ASSUME ProgressInv, NEW e \in Executions, Alone(e), Counted(e)'
  PROVE  ProgressInv'
BY DEF ProgressInv, Alone, Counted

(* set_file_bytes: the difference to what the job had reported keeps the    *)
(* sum, with no need for the saturation and the cap.                        *)
LEMMA ReportStep ==
  ASSUME DownloadShape, DownloadShape', ProgressInv,
         NEW e \in Executions, NEW f \in Files, NEW v \in 0..Size,
         SetFileBytes(e, job[e][f].reported, v),
         run[e].state = "running", job[e][f].at # "idle",
         run' = run, \A x \in Executions \ {e} : job'[x] = job[x],
         \A g \in Files \ {f} : job'[e][g] = job[e][g],
         job'[e][f].reported = v, job'[e][f].at \notin {"pending", "checking"}
  PROVE  ProgressInv'
<1> DEFINE p == job[e][f].reported
<1>1. /\ p \in Nat /\ v \in Nat /\ Size \in Nat
      /\ job[e] \in [Files -> Jobs] /\ job'[e] \in [Files -> Jobs]
  BY DownloadAssumption DEF DownloadShape, Jobs
<1>2. /\ completed[e] = SumOver(job[e])
      /\ \A g \in Files :
         /\ job[e][g].reported <= Size
         /\ g \notin run[e].files => job[e][g].at = "idle" /\ job[e][g].reported = 0
         /\ job[e][g].at \in {"pending", "checking"} => job[e][g].reported = 0
  BY DEF ProgressInv, Counted
<1>3. /\ completed' \in [Executions -> Nat]
      /\ TotalBytes(e) \in Nat
      /\ \A x \in Executions \ {e} : completed'[x] = completed[x]
      /\ completed'[e] = Least(TotalBytes(e), IF v >= p THEN completed[e] + (v - p)
               ELSE IF completed[e] >= p - v THEN completed[e] - (p - v) ELSE 0)
  BY <1>1, SetFileBytesType
<1>4. \A g \in Files :
         /\ job'[e][g].reported <= Size
         /\ g \notin run[e].files => job'[e][g].at = "idle" /\ job'[e][g].reported = 0
         /\ job'[e][g].at \in {"pending", "checking"} => job'[e][g].reported = 0
  BY <1>1, <1>2
<1>5. /\ SumOver(job[e]) \in Nat /\ SumOver(job'[e]) \in Nat
      /\ SumOver(job'[e]) + p = SumOver(job[e]) + v
  BY <1>1, SumOverChange
<1>6. SumOver(job'[e]) <= TotalBytes(e)
  <2>1. run[e].files \in SUBSET Files
    BY DEF DownloadShape, Runs
  <2>2. \A g \in Files : job'[e][g].reported <= IF g \in run[e].files THEN Size ELSE 0
    BY <1>4
  <2> QED
    BY <1>1, <2>1, <2>2, SumOverBound DEF TotalBytes
<1>7. completed'[e] = SumOver(job'[e])
  <2> HIDE DEF p
  <2> QED
    BY <1>1, <1>2, <1>3, <1>5, <1>6 DEF Least
<1>8. Counted(e)'
  BY <1>4, <1>7 DEF Counted
<1> QED
  BY <1>3, <1>8, AloneStep DEF Alone

(* The job moves on and reports nothing.                                    *)
LEMMA SilentStep ==
  ASSUME DownloadShape, DownloadShape', ProgressInv,
         NEW e \in Executions, NEW f \in Files,
         run[e].state = "running", job[e][f].at # "idle",
         run' = run, completed' = completed, \A x \in Executions \ {e} : job'[x] = job[x],
         \A g \in Files \ {f} : job'[e][g] = job[e][g],
         job'[e][f].reported = job[e][f].reported,
         job'[e][f].at \notin {"pending", "checking"} \/ job[e][f].at = "pending"
  PROVE  ProgressInv'
<1>1. job[e] \in [Files -> Jobs] /\ job'[e] \in [Files -> Jobs]
      /\ job[e][f].reported \in Nat
  BY DEF DownloadShape, Jobs
<1>2. SumOver(job'[e]) = SumOver(job[e])
  <2>1. /\ SumOver(job[e]) \in Nat /\ SumOver(job'[e]) \in Nat
        /\ SumOver(job'[e]) + job[e][f].reported = SumOver(job[e]) + job'[e][f].reported
    BY <1>1, SumOverChange
  <2> QED
    BY <1>1, <2>1
<1>3. Counted(e)'
  BY <1>2 DEF ProgressInv, Counted
<1> QED
  BY <1>3, AloneStep DEF Alone, ProgressInv

LEMMA FailedStep ==
  ASSUME DownloadShape, ProgressInv, NEW e \in Executions, FailJob(e),
         completed' \in [Executions -> Nat],
         \A x \in Executions \ {e} : completed'[x] = completed[x]
  PROVE  ProgressInv'
<1>1. /\ run'[e].state = "failed"
      /\ \A x \in Executions \ {e} : run'[x] = run[x] /\ job'[x] = job[x]
  BY FailEffects
<1>2. Counted(e)'
  BY <1>1 DEF Counted
<1> QED
  BY <1>1, <1>2, AloneStep DEF Alone

-----------------------------------------------------------------------------
(* Of all jobs the one of f in e may change.                                *)
Becomes(e, f) ==
  /\ \A x \in Executions \ {e} : job'[x] = job[x]
  /\ \A g \in Files \ {f} : job'[e][g] = job[e][g]

LEMMA MoveKeepsShare ==
  ASSUME DownloadShape, NEW e \in Executions, NEW f \in Files, NEW phase, MoveJob(e, f, phase)
  PROVE  Becomes(e, f) /\ job'[e][f].at = phase /\ job'[e][f].reported = job[e][f].reported
<1>1. job[e][f] \in Jobs
  BY DEF DownloadShape
<1>2. job'[e][f] = [job[e][f] EXCEPT !.at = phase] /\ Becomes(e, f)
  BY DEF MoveJob, DownloadShape, Becomes
<1> QED
  BY <1>1, <1>2 DEF Jobs

LEMMA RetryReports ==
  ASSUME DownloadShape, NEW e \in Executions, NEW f \in Files, NEW n \in Nat, Retry(e, f, n)
  PROVE  \/ FailJob(e)
         \/ /\ Becomes(e, f) /\ run' = run
            /\ job'[e][f].at = "backoff" /\ job'[e][f].reported = n
<1> SUFFICES ASSUME ~FailJob(e)
             PROVE  /\ Becomes(e, f) /\ run' = run
                    /\ job'[e][f].at = "backoff" /\ job'[e][f].reported = n
  OBVIOUS
<1>1. job[e][f] \in Jobs
  BY DEF DownloadShape
<1>2. /\ job' = [job EXCEPT ![e][f].at = "backoff", ![e][f].attempt = @ + 1,
                        ![e][f].reported = n]
      /\ run' = run
  BY DEF Retry
<1>3. job'[e][f] = [job[e][f] EXCEPT !.at = "backoff", !.attempt = @ + 1, !.reported = n]
  BY <1>1, <1>2 DEF DownloadShape, Jobs
<1>4. Becomes(e, f)
  BY <1>2 DEF DownloadShape, Becomes
<1> QED
  BY <1>1, <1>2, <1>3, <1>4 DEF Jobs

LEMMA DropPartCounts ==
  ASSUME DownloadShape, DownloadShape', ProgressInv, NEW e \in Executions, NEW f \in Files,
         run[e].state = "running", job[e][f].at # "idle", DropPart(e, f)
  PROVE  ProgressInv'
<1>1. SetFileBytes(e, job[e][f].reported, 0) /\ Retry(e, f, 0)
  BY DEF DropPart
<1>2. 0 \in 0..Size /\ job[e][f].reported \in Nat
  BY DownloadAssumption DEF DownloadShape, Jobs
<1>3. CASE FailJob(e)
  <2>1. /\ completed' \in [Executions -> Nat]
        /\ \A x \in Executions \ {e} : completed'[x] = completed[x]
    BY <1>1, <1>2, SetFileBytesType
  <2> QED
    BY <1>3, <2>1, FailedStep
<1>4. CASE ~FailJob(e)
  <2>1. Becomes(e, f) /\ run' = run /\ job'[e][f].at = "backoff" /\ job'[e][f].reported = 0
    BY <1>1, <1>4, RetryReports
  <2> QED
    BY <1>1, <1>2, <2>1, ReportStep DEF Becomes
<1> QED
  BY <1>3, <1>4

LEMMA FailCounts ==
  ASSUME DownloadShape, ProgressInv, NEW e \in Executions, FailJob(e), completed' = completed
  PROVE  ProgressInv'
BY FailedStep DEF ProgressInv

LEMMA MoveCounts ==
  ASSUME DownloadShape, DownloadShape', ProgressInv, NEW e \in Executions, NEW f \in Files,
         NEW phase, run[e].state = "running", job[e][f].at # "idle", MoveJob(e, f, phase),
         phase \notin {"pending", "checking"} \/ job[e][f].at = "pending",
         run' = run, completed' = completed
  PROVE  ProgressInv'
BY MoveKeepsShare, SilentStep DEF Becomes

LEMMA CheckDestinationCounts ==
  ASSUME DownloadShape, DownloadShape', ProgressInv, NEW e \in Executions, NEW f \in Files,
         CheckDestination(e, f)
  PROVE  ProgressInv'
<1>1. run[e].state = "running" /\ job[e][f].at = "checking" /\ job[e][f] \in Jobs
  BY DEF CheckDestination, JobAt, Turn, DownloadShape
<1>2. CASE Verifies(f, dest[f])
  <2>1. job[e][f].reported = 0 /\ Size \in 0..Size
    BY <1>1, DownloadAssumption DEF ProgressInv, Counted
  <2>2. /\ SetFileBytes(e, job[e][f].reported, Size) /\ run' = run
        /\ job' = [job EXCEPT ![e][f].at = "done", ![e][f].reported = Size]
    BY <1>2, <2>1 DEF CheckDestination
  <2>3. job'[e][f] = [job[e][f] EXCEPT !.at = "done", !.reported = Size] /\ Becomes(e, f)
    BY <1>1, <2>2 DEF DownloadShape, Becomes
  <2>4. job'[e][f].at = "done" /\ job'[e][f].reported = Size
    BY <1>1, <2>3 DEF Jobs
  <2>5. /\ SetFileBytes(e, job[e][f].reported, Size) /\ run' = run /\ Becomes(e, f)
       /\ job'[e][f].at \notin {"pending", "checking"} /\ job'[e][f].reported = Size
    BY <1>1, <2>1, <2>2, <2>3, <2>4
  <2> QED
    BY <1>1, <2>1, <2>5, ReportStep DEF Becomes
<1>3. CASE ~Verifies(f, dest[f])
  <2>1. MoveJob(e, f, "attempting") /\ run' = run /\ completed' = completed
    BY <1>3 DEF CheckDestination
  <2> QED
    BY <1>1, <2>1, MoveCounts
<1> QED
  BY <1>2, <1>3

LEMMA BeginAttemptCounts ==
  ASSUME DownloadShape, DownloadShape', ProgressInv, NEW e \in Executions, NEW f \in Files,
         BeginAttempt(e, f)
  PROVE  ProgressInv'
<1>1. run[e].state = "running" /\ job[e][f].at = "attempting" /\ job[e][f] \in Jobs
  BY DEF BeginAttempt, JobAt, Turn, DownloadShape
<1>2. Offset(f) \in 0..Size
  BY DownloadAssumption DEF Offset, Usable, DownloadShape, Bytes
<1>3. /\ SetFileBytes(e, job[e][f].reported, Offset(f)) /\ run' = run
      /\ job' = [job EXCEPT
           ![e][f].at = IF Offset(f) = Size THEN "finalizing" ELSE "requesting",
           ![e][f].received = Offset(f), ![e][f].reported = Offset(f)]
  BY DEF BeginAttempt
<1>4. /\ Becomes(e, f)
      /\ job'[e][f] = [job[e][f] EXCEPT
           !.at = IF Offset(f) = Size THEN "finalizing" ELSE "requesting",
           !.received = Offset(f), !.reported = Offset(f)]
  BY <1>1, <1>3 DEF DownloadShape, Becomes
<1>5. job'[e][f].at \in {"finalizing", "requesting"} /\ job'[e][f].reported = Offset(f)
  BY <1>1, <1>4 DEF Jobs
<1>6. /\ SetFileBytes(e, job[e][f].reported, Offset(f)) /\ run' = run /\ Becomes(e, f)
     /\ job'[e][f].at \notin {"pending", "checking"} /\ job'[e][f].reported = Offset(f)
  BY <1>1, <1>2, <1>3, <1>4, <1>5
<1> QED
  BY <1>1, <1>2, <1>6, ReportStep DEF Becomes

LEMMA ResponseRestartsCounts ==
  ASSUME DownloadShape, DownloadShape', ProgressInv, NEW e \in Executions, NEW f \in Files,
         ResponseRestarts(e, f)
  PROVE  ProgressInv'
<1>1. /\ run[e].state = "running" /\ job[e][f].at = "requesting" /\ job[e][f] \in Jobs
      /\ 0 \in 0..Size
  BY DownloadAssumption DEF ResponseRestarts, JobAt, Turn, DownloadShape
<1>2. /\ SetFileBytes(e, job[e][f].reported, 0) /\ run' = run
      /\ job' = [job EXCEPT ![e][f].at = "receiving", ![e][f].received = 0,
                            ![e][f].reported = 0]
  BY DEF ResponseRestarts
<1>3. /\ Becomes(e, f)
      /\ job'[e][f] = [job[e][f] EXCEPT !.at = "receiving", !.received = 0, !.reported = 0]
  BY <1>1, <1>2 DEF DownloadShape, Becomes
<1>4. job'[e][f].at = "receiving" /\ job'[e][f].reported = 0
  BY <1>1, <1>3 DEF Jobs
<1>5. /\ SetFileBytes(e, job[e][f].reported, 0) /\ run' = run /\ Becomes(e, f)
     /\ job'[e][f].at \notin {"pending", "checking"} /\ job'[e][f].reported = 0
  BY <1>1, <1>2, <1>3, <1>4
<1> QED
  BY <1>1, <1>5, ReportStep DEF Becomes

LEMMA ReceiveChunkCounts ==
  ASSUME DownloadShape, DownloadShape', ProgressInv, NEW e \in Executions, NEW f \in Files,
         NEW n \in Nat, NEW good, ReceiveChunk(e, f, n, good)
  PROVE  ProgressInv'
<1> DEFINE next == job[e][f].received + n
<1>1. run[e].state = "running" /\ job[e][f].at = "receiving" /\ job[e][f] \in Jobs
  BY DEF ReceiveChunk, JobAt, Turn, DownloadShape
<1>2. CASE next > Size
  BY <1>1, <1>2, DropPartCounts DEF ReceiveChunk
<1>3. CASE ~(next > Size)
  <2>1. next \in 0..Size
    BY <1>1, <1>3, DownloadAssumption DEF Jobs
  <2>2. /\ SetFileBytes(e, job[e][f].reported, next) /\ run' = run
        /\ job' = [job EXCEPT ![e][f].received = next, ![e][f].reported = next]
    BY <1>3 DEF ReceiveChunk
  <2> HIDE DEF next
  <2>3. /\ Becomes(e, f)
        /\ job'[e][f] = [job[e][f] EXCEPT !.received = next, !.reported = next]
    BY <1>1, <2>2 DEF DownloadShape, Becomes
  <2>4. job'[e][f].at = "receiving" /\ job'[e][f].reported = next
    BY <1>1, <2>3 DEF Jobs
  <2>5. /\ SetFileBytes(e, job[e][f].reported, next) /\ run' = run /\ Becomes(e, f)
       /\ job'[e][f].at \notin {"pending", "checking"} /\ job'[e][f].reported = next
    BY <1>1, <2>1, <2>2, <2>3, <2>4
  <2> QED
    BY <1>1, <2>1, <2>5, ReportStep DEF Becomes
<1> QED
  BY <1>2, <1>3

LEMMA SaveDestinationCounts ==
  ASSUME DownloadShape, DownloadShape', ProgressInv, NEW e \in Executions, NEW f \in Files,
         SaveDestination(e, f)
  PROVE  ProgressInv'
<1>1. /\ run[e].state = "running" /\ job[e][f].at = "finalizing" /\ job[e][f] \in Jobs
      /\ run' = run /\ completed' = completed
  BY DEF SaveDestination, JobAt, Turn, DownloadShape
<1>2. job' = [job EXCEPT ![e][f].at = "swapping", ![e][f].saved = (dest[f] # Absent)]
  BY DEF SaveDestination
<1>3. /\ Becomes(e, f)
      /\ job'[e][f] = [job[e][f] EXCEPT !.at = "swapping", !.saved = (dest[f] # Absent)]
  BY <1>1, <1>2 DEF DownloadShape, Becomes
<1>4. job'[e][f].at = "swapping" /\ job'[e][f].reported = job[e][f].reported
  BY <1>1, <1>3 DEF Jobs
<1> QED
  BY <1>1, <1>3, <1>4, SilentStep DEF Becomes

LEMMA TransientFailureCounts ==
  ASSUME DownloadShape, DownloadShape', ProgressInv, NEW e \in Executions, NEW f \in Files,
         TransientFailure(e, f)
  PROVE  ProgressInv'
<1>1. /\ run[e].state = "running" /\ job[e][f].at # "idle"
      /\ job[e][f].reported \in Nat /\ completed' = completed
      /\ Retry(e, f, job[e][f].reported)
  BY DEF TransientFailure, Turn, DownloadShape, Jobs
<1>2. CASE FailJob(e)
  BY <1>1, <1>2, FailCounts
<1>3. CASE ~FailJob(e)
  <2>1. /\ Becomes(e, f) /\ run' = run
        /\ job'[e][f].at = "backoff" /\ job'[e][f].reported = job[e][f].reported
    BY <1>1, <1>3, RetryReports
  <2> QED
    BY <1>1, <2>1, SilentStep DEF Becomes
<1> QED
  BY <1>2, <1>3

LEMMA JobStepCounts ==
  ASSUME DownloadShape, DownloadShape', ProgressInv, NEW e \in Executions, NEW f \in Files,
         JobStep(e, f)
  PROVE  ProgressInv'
<1>1. CASE FailJob(e) /\ completed' = completed
  BY <1>1, FailCounts
<1>2. ASSUME ~(FailJob(e) /\ completed' = completed), NoticeCancel(e, f) \/ PermanentFailure(e, f)
             \/ \E restored \in BOOLEAN :
                  MovePartFails(e, f, restored) \/ RestoreBackup(e, f, restored)
      PROVE  FALSE
  BY <1>2 DEF NoticeCancel, PermanentFailure, MovePartFails, RestoreBackup
<1>3. ASSUME ~(FailJob(e) /\ completed' = completed),
             \/ AcquireLock(e, f) \/ ResponseContinues(e, f) \/ WakeUp(e, f)
             \/ DropDuplicate(e, f) \/ MovePart(e, f)
             \/ KeepDestination(e, f) \/ RejectDestination(e, f)
             \/ ReceiveEnd(e, f) /\ Verifies(f, part[f])
      PROVE  ProgressInv'
  <2>1. /\ run[e].state = "running" /\ job[e][f].at # "idle"
        /\ run' = run /\ completed' = completed
    BY <1>3 DEF AcquireLock, ResponseContinues, WakeUp, DropDuplicate, MovePart,
         KeepDestination, RejectDestination, ReceiveEnd, JobAt, Turn, FinishJob
  <2>2. \/ MoveJob(e, f, "checking") /\ job[e][f].at = "pending"
        \/ \E phase \in {"receiving", "attempting", "done", "swapped", "restoring", "finalizing"} :
             MoveJob(e, f, phase)
    BY <1>3 DEF AcquireLock, ResponseContinues, WakeUp, DropDuplicate, MovePart,
         KeepDestination, RejectDestination, ReceiveEnd, JobAt, FinishJob
  <2> QED
    BY <2>1, <2>2, MoveCounts
<1>4. CASE CheckDestination(e, f) \/ BeginAttempt(e, f) \/ ResponseRestarts(e, f)
           \/ SaveDestination(e, f) \/ TransientFailure(e, f)
  BY <1>4, CheckDestinationCounts, BeginAttemptCounts, ResponseRestartsCounts,
     SaveDestinationCounts, TransientFailureCounts
<1>5. CASE RejectResponse(e, f) \/ (ReceiveEnd(e, f) /\ ~Verifies(f, part[f]))
  <2>1. run[e].state = "running" /\ job[e][f].at # "idle" /\ DropPart(e, f)
    BY <1>5 DEF RejectResponse, ReceiveEnd, JobAt, Turn
  <2> QED
    BY <2>1, DropPartCounts
<1>6. ASSUME NEW n \in 1..(Size + 1), NEW good \in BOOLEAN, ReceiveChunk(e, f, n, good)
      PROVE  ProgressInv'
  <2>1. n \in Nat
    BY DownloadAssumption
  <2> QED
    BY <1>6, <2>1, ReceiveChunkCounts
<1> QED
  BY <1>1, <1>2, <1>3, <1>4, <1>5, <1>6 DEF JobStep

LEMMA StartExecutionCounts ==
  ASSUME DownloadShape, DownloadShape', ProgressInv, NEW e \in Executions, StartExecution(e)
  PROVE  ProgressInv'
<1> DEFINE valid == {f \in run[e].files : Verifies(f, dest[f])}
           start(f) == IF f \notin run[e].files THEN Idle ELSE
             [Idle EXCEPT !.at = IF f \in valid THEN "done" ELSE "pending",
                          !.reported = IF f \in valid THEN Size ELSE 0]
<1>1. valid \in SUBSET Files /\ run[e].files \in SUBSET Files
  BY DEF DownloadShape, Runs
<1>2. /\ completed' = [completed EXCEPT ![e] = Size * Cardinality(valid)]
      /\ job' = [job EXCEPT ![e] = [f \in Files |-> start(f)]]
      /\ run' = [run EXCEPT ![e].state = "running", ![e].runs = @ + 1]
  BY DEF StartExecution
<1>3. \A f \in Files :
        /\ start(f).reported = IF f \in valid THEN Size ELSE 0
        /\ start(f).at \in {"idle", "pending", "done"}
        /\ start(f).at = "pending" => start(f).reported = 0
        /\ f \notin run[e].files => start(f).at = "idle" /\ start(f).reported = 0
  BY <1>1 DEF Idle
<1>4. /\ Size * Cardinality(valid) \in Nat /\ Size \in Nat
  <2>1. IsFiniteSet(Files) /\ Size \in Nat
    BY DownloadAssumption
  <2>2. Cardinality(valid) \in Nat
    <3> HIDE DEF valid
    <3>1. IsFiniteSet(valid)
      BY <1>1, <2>1, FS_Subset
    <3> QED
      BY <3>1, FS_CardinalityType
  <2> HIDE DEF valid
  <2> QED
    BY <2>1, <2>2
<1> HIDE DEF valid, start
<1>5. /\ job'[e] = [f \in Files |-> start(f)]
      /\ \A x \in Executions \ {e} : run'[x] = run[x] /\ job'[x] = job[x]
      /\ run'[e].files = run[e].files
  BY <1>2 DEF DownloadShape, Runs
<1>6. /\ completed' \in [Executions -> Nat] /\ completed'[e] = Size * Cardinality(valid)
      /\ \A x \in Executions \ {e} : completed'[x] = completed[x]
  BY <1>2, <1>4 DEF ProgressInv
<1>7. job'[e] \in [Files -> Jobs] /\ \A f \in Files : job'[e][f] = start(f)
  BY <1>5 DEF DownloadShape
<1>8. SumOver(job'[e]) = Size * Cardinality(valid)
  <2>1. \A f \in Files : job'[e][f].reported = IF f \in valid THEN Size ELSE 0
    BY <1>3, <1>7
  <2>2. \A f \in Files : job'[e][f].reported <= IF f \in valid THEN Size ELSE 0
    BY <2>1, <1>4
  <2> QED
    BY <1>1, <1>7, <2>1, <2>2, SumOverBound
<1>9. Counted(e)'
  <2>1. \A f \in Files :
         /\ job'[e][f].reported <= Size
         /\ f \notin run'[e].files => job'[e][f].at = "idle" /\ job'[e][f].reported = 0
         /\ job'[e][f].at \in {"pending", "checking"} => job'[e][f].reported = 0
    BY <1>3, <1>4, <1>5, <1>7
  <2> QED
    BY <1>6, <1>8, <2>1 DEF Counted
<1> QED
  BY <1>5, <1>6, <1>9, AloneStep DEF Alone

LEMMA EndExecutionCounts ==
  ASSUME DownloadShape, ProgressInv, NEW e \in Executions, EndExecution(e)
  PROVE  ProgressInv'
<1>1. /\ \A x \in Executions \ {e} : run'[x] = run[x] /\ job'[x] = job[x]
      /\ run'[e].state # "running" /\ completed' = completed
  BY DEF EndExecution, DownloadShape, Runs
<1>2. Counted(e)'
  BY <1>1 DEF Counted
<1> QED
  BY <1>1, <1>2, AloneStep DEF Alone, ProgressInv

(* What set_file_bytes adds and takes back agrees with what each job has    *)
(* reported, in every state: over attempts, resumptions and restarts.       *)
THEOREM ProgressIsCounted == DownloadSafety => []ProgressInv
<1>1. DownloadInit => ProgressInv
  BY DEF DownloadInit, ProgressInv, Counted
<1>2. DownloadShape /\ DownloadShape' /\ ProgressInv /\ [DownloadNext]_downloadVars => ProgressInv'
  <2> SUFFICES ASSUME DownloadShape, DownloadShape', ProgressInv, [DownloadNext]_downloadVars
               PROVE  ProgressInv'
    OBVIOUS
  <2>1. ASSUME UNCHANGED <<run, job, completed>> PROVE ProgressInv'
    BY <2>1 DEF ProgressInv, Counted
  <2>2. CASE Crash
    <3>1. completed' = completed /\ \A e \in Executions : run'[e].state = "idle"
      BY <2>2 DEF Crash, DownloadShape, Runs
    <3> QED
      BY <3>1 DEF ProgressInv, Counted
  <2>3. ASSUME NEW e \in Executions, CancelExecution(e) PROVE ProgressInv'
    BY <2>1, <2>3 DEF CancelExecution
  <2>4. ASSUME NEW f \in Files, Disturb(f) PROVE ProgressInv'
    BY <2>1, <2>4 DEF Disturb
  <2>5. ASSUME NEW e \in Executions, StartExecution(e) \/ ExecutionStep(e) PROVE ProgressInv'
    BY <2>5, StartExecutionCounts, EndExecutionCounts, JobStepCounts DEF ExecutionStep
  <2>6. CASE UNCHANGED downloadVars
    BY <2>1, <2>6 DEF downloadVars
  <2> QED
    BY <2>2, <2>3, <2>4, <2>5, <2>6 DEF DownloadNext
<1>3. DownloadInv => DownloadShape
  BY DEF DownloadInv
<1> QED
  BY <1>1, <1>2, <1>3, DownloadsAreConsistent, PTL DEF DownloadSafety

(* The progress shown is the sum of what each file contributed              *)
(* (ProgressState::set_file_bytes): it does not drift over retries.         *)
THEOREM ProgressAddsUp == DownloadSafety => []ProgressIsSum
<1>1. ProgressInv => ProgressIsSum
  BY DEF ProgressInv, Counted, ProgressIsSum, SumOver
<1> QED
  BY <1>1, ProgressIsCounted, PTL

-----------------------------------------------------------------------------
(* The most steps a job can still take: its attempts, each a byte at a time. *)
MostSteps ==
  [pending |-> Size + 9, checking |-> Size + 8, backoff |-> Size + 7,
   attempting |-> Size + 6, requesting |-> Size + 5, receiving |-> Size + 4,
   finalizing |-> 3, swapping |-> 2, swapped |-> 1, restoring |-> 0, done |-> 0, idle |-> 0]
StepsLeft(j) ==
  (MaxAttempts - j.attempt) * (Size + 10) + MostSteps[j.at]
    - IF j.at = "receiving" THEN j.received ELSE 0

(* However often the server fails or starts over, and whatever other         *)
(* programs do to the files, every step a job takes leaves fewer             *)
(* (execute_one and its loop over MAX_ATTEMPTS).                             *)
EveryStepCounts ==
  [][\A e \in Executions, f \in Files :
       run[e].state = "running" /\ run'[e].state = "running" /\ job'[e][f] # job[e][f]
       => StepsLeft(job'[e][f]) \in 0..(StepsLeft(job[e][f]) - 1)]_downloadVars

(* What makes StepsLeft a number: no more attempts than there are, and no    *)
(* more bytes in an attempt than the file has.                               *)
Fine(j) == j.attempt < MaxAttempts /\ j.received <= Size
AttemptsInv == \A e \in Executions, f \in Files : Fine(job[e][f])

(* From i to j a job comes closer to its end.                               *)
Closer(i, j) == Fine(j) /\ StepsLeft(j) \in 0..(StepsLeft(i) - 1)

Within(j) == MostSteps[j.at] - IF j.at = "receiving" THEN j.received ELSE 0

LEMMA WithinBounds ==
  ASSUME NEW j \in Jobs, Fine(j)
  PROVE  Within(j) \in 0..(Size + 9)
BY DownloadAssumption
   DEF Jobs, Fine, Within, MostSteps, AwaitPhases, SyncPhases

LEMMA Product ==
  ASSUME NEW m \in Nat, NEW n \in Nat, NEW k \in Nat, n < m
  PROVE  /\ (m - n) * k \in Nat
         /\ n + 1 < m => (m - (n + 1)) * k = (m - n) * k - k
<1>1. m - n \in Nat
  OBVIOUS
<1>2. \A d \in Nat : d * k \in Nat
  OBVIOUS
<1>3. (m - n) * k \in Nat
  BY <1>1, <1>2
<1>4. m - (n + 1) = (m - n) - 1
  OBVIOUS
<1>5. \A d \in Nat : (d - 1) * k = d * k - k
  OBVIOUS
<1>6. (m - (n + 1)) * k = (m - n) * k - k
  BY <1>1, <1>4, <1>5
<1> QED
  BY <1>3, <1>6

LEMMA SameAttempt ==
  ASSUME NEW i \in Jobs, NEW j \in Jobs, Fine(i), Fine(j),
         j.attempt = i.attempt, Within(j) < Within(i)
  PROVE  Closer(i, j)
<1> DEFINE whole == (MaxAttempts - i.attempt) * (Size + 10)
<1>1. whole \in Nat
  BY Product, DownloadAssumption DEF Jobs, Fine
<1>2. Within(i) \in Nat /\ Within(j) \in Nat
  BY WithinBounds, DownloadAssumption
<1>3. StepsLeft(i) = whole + Within(i) /\ StepsLeft(j) = whole + Within(j)
  <2>1. /\ MostSteps[i.at] \in Nat /\ MostSteps[j.at] \in Nat
        /\ i.received \in Nat /\ j.received \in Nat
    BY DownloadAssumption DEF Jobs, MostSteps, AwaitPhases, SyncPhases
  <2> HIDE DEF MostSteps
  <2> QED
    BY <1>1, <2>1 DEF StepsLeft, Within
<1> HIDE DEF whole
<1> QED
  BY <1>1, <1>2, <1>3 DEF Closer

LEMMA NextAttempt ==
  ASSUME NEW i \in Jobs, NEW j \in Jobs, Fine(i), Fine(j),
         j.attempt = i.attempt + 1, j.at = "backoff"
  PROVE  Closer(i, j)
<1> DEFINE whole == (MaxAttempts - i.attempt) * (Size + 10)
           rest == (MaxAttempts - j.attempt) * (Size + 10)
<1>1. whole \in Nat /\ rest \in Nat /\ rest = whole - (Size + 10) /\ Size \in Nat
  <2>1. /\ MaxAttempts \in Nat /\ i.attempt \in Nat /\ Size + 10 \in Nat /\ Size \in Nat
        /\ i.attempt + 1 < MaxAttempts /\ i.attempt + 1 \in Nat
    BY DownloadAssumption DEF Jobs, Fine
  <2>2. whole \in Nat /\ rest = whole - (Size + 10)
    BY <2>1, Product
  <2>3. rest \in Nat
    BY <2>1, Product
  <2> QED
    BY <2>1, <2>2, <2>3
<1>2. Within(i) \in Nat /\ Within(j) = Size + 7
  BY WithinBounds, DownloadAssumption DEF Within, MostSteps
<1>3. StepsLeft(i) = whole + Within(i) /\ StepsLeft(j) = rest + Within(j)
  <2>1. /\ MostSteps[i.at] \in Nat /\ MostSteps[j.at] \in Nat
        /\ i.received \in Nat /\ j.received \in Nat
    BY DownloadAssumption DEF Jobs, MostSteps, AwaitPhases, SyncPhases
  <2> HIDE DEF MostSteps
  <2> QED
    BY <1>1, <2>1 DEF StepsLeft, Within
<1> HIDE DEF whole, rest
<1> QED
  BY <1>1, <1>2, <1>3 DEF Closer

(* What a step of the job of f in e does: it fails, or comes closer.        *)
JobComesCloser(e, f) == Becomes(e, f) /\ Closer(job[e][f], job'[e][f])

LEMMA MoveComesCloser ==
  ASSUME DownloadShape, DownloadShape', AttemptsInv, NEW e \in Executions, NEW f \in Files,
         NEW phase, MoveJob(e, f, phase),
         \/ job[e][f].at = "pending" /\ phase \in {"checking", "done"}
         \/ job[e][f].at = "checking" /\ phase = "attempting"
         \/ job[e][f].at = "requesting" /\ phase = "receiving"
         \/ job[e][f].at = "receiving" /\ phase = "finalizing"
         \/ job[e][f].at = "backoff" /\ phase = "attempting"
         \/ job[e][f].at = "finalizing" /\ phase = "done"
         \/ job[e][f].at = "swapping" /\ phase = "swapped"
         \/ job[e][f].at = "swapped" /\ phase \in {"done", "restoring"}
  PROVE  JobComesCloser(e, f)
<1>1. job[e][f] \in Jobs /\ job'[e][f] \in Jobs /\ Fine(job[e][f])
  BY DEF DownloadShape, AttemptsInv
<1>2. job'[e][f] = [job[e][f] EXCEPT !.at = phase] /\ Becomes(e, f)
  BY DEF MoveJob, DownloadShape, Becomes
<1>3. /\ job'[e][f].at = phase /\ job'[e][f].attempt = job[e][f].attempt
      /\ job'[e][f].received = job[e][f].received
  BY <1>1, <1>2 DEF Jobs
<1>4. Fine(job'[e][f])
  BY <1>1, <1>3 DEF Fine
<1>5. Within(job'[e][f]) < Within(job[e][f])
  <2>1. job[e][f].received \in 0..Size /\ Size \in Nat
    BY <1>1, DownloadAssumption DEF Jobs, Fine
  <2> QED
    BY <1>3, <2>1 DEF Within, MostSteps
<1>6. Closer(job[e][f], job'[e][f])
  BY <1>1, <1>3, <1>4, <1>5, SameAttempt
<1> QED
  BY <1>2, <1>6 DEF JobComesCloser

LEMMA RetryComesCloser ==
  ASSUME DownloadShape, DownloadShape', AttemptsInv, NEW e \in Executions, NEW f \in Files,
         NEW n \in Nat, Retry(e, f, n), ~FailJob(e)
  PROVE  JobComesCloser(e, f)
<1>1. job[e][f] \in Jobs /\ job'[e][f] \in Jobs /\ Fine(job[e][f])
  BY DEF DownloadShape, AttemptsInv
<1>2. /\ job' = [job EXCEPT ![e][f].at = "backoff", ![e][f].attempt = @ + 1,
                        ![e][f].reported = n]
      /\ job[e][f].attempt + 1 < MaxAttempts
  BY DEF Retry
<1>3. job'[e][f] = [job[e][f] EXCEPT !.at = "backoff", !.attempt = @ + 1, !.reported = n]
  BY <1>1, <1>2 DEF DownloadShape, Jobs
<1>4. Becomes(e, f)
  BY <1>2 DEF DownloadShape, Becomes
<1>5. /\ job'[e][f].at = "backoff" /\ job'[e][f].attempt = job[e][f].attempt + 1
      /\ job'[e][f].received = job[e][f].received
  BY <1>1, <1>3 DEF Jobs
<1>6. Fine(job'[e][f])
  BY <1>1, <1>2, <1>5 DEF Fine
<1>7. Closer(job[e][f], job'[e][f])
  BY <1>1, <1>5, <1>6, NextAttempt
<1> QED
  BY <1>4, <1>7 DEF JobComesCloser

(* The steps that set several fields at once.                               *)
LEMMA SetsComeCloser ==
  ASSUME DownloadShape, DownloadShape', AttemptsInv, NEW e \in Executions, NEW f \in Files,
         NEW j, Becomes(e, f), job'[e][f] = j,
         j.attempt = job[e][f].attempt, j.received \in 0..Size,
         \/ job[e][f].at = "checking" /\ j.at = "done"
         \/ job[e][f].at = "attempting" /\ j.at \in {"finalizing", "requesting"}
         \/ job[e][f].at = "requesting" /\ j.at = "receiving"
         \/ job[e][f].at = "receiving" /\ j.at = "receiving" /\ j.received > job[e][f].received
         \/ job[e][f].at = "finalizing" /\ j.at = "swapping"
  PROVE  JobComesCloser(e, f)
<1>1. job[e][f] \in Jobs /\ job'[e][f] \in Jobs /\ Fine(job[e][f])
  BY DEF DownloadShape, AttemptsInv
<1>3. Fine(j)
  BY <1>1, DownloadAssumption DEF Fine
<1>4. Within(j) < Within(job[e][f])
  <2>1. job[e][f].received \in 0..Size /\ Size \in Nat
    BY <1>1, DownloadAssumption DEF Jobs, Fine
  <2> QED
    BY <2>1 DEF Within, MostSteps
<1>5. Closer(job[e][f], j)
  BY <1>1, <1>3, <1>4, SameAttempt
<1> QED
  BY <1>5 DEF JobComesCloser

LEMMA CheckDestinationComesCloser ==
  ASSUME DownloadShape, DownloadShape', AttemptsInv, NEW e \in Executions, NEW f \in Files,
         CheckDestination(e, f)
  PROVE  JobComesCloser(e, f)
<1>1. job[e][f] \in Jobs /\ job[e][f].at = "checking" /\ job[e][f].received \in 0..Size
  BY DownloadAssumption DEF CheckDestination, JobAt, DownloadShape, AttemptsInv, Fine, Jobs
<1>2. CASE Verifies(f, dest[f])
  <2> DEFINE j == [job[e][f] EXCEPT !.at = "done", !.reported = Size]
  <2>1. job' = [job EXCEPT ![e][f].at = "done", ![e][f].reported = Size]
    BY <1>2 DEF CheckDestination
  <2>2. Becomes(e, f) /\ job'[e][f] = j
    BY <1>1, <2>1 DEF DownloadShape, Becomes
  <2>3. j.at = "done" /\ j.attempt = job[e][f].attempt /\ j.received = job[e][f].received
    BY <1>1 DEF Jobs
  <2> HIDE DEF j
  <2> QED
    BY <1>1, <2>2, <2>3, SetsComeCloser
<1>3. CASE ~Verifies(f, dest[f])
  BY <1>1, <1>3, MoveComesCloser DEF CheckDestination
<1> QED
  BY <1>2, <1>3

LEMMA BeginAttemptComesCloser ==
  ASSUME DownloadShape, DownloadShape', AttemptsInv, NEW e \in Executions, NEW f \in Files,
         BeginAttempt(e, f)
  PROVE  JobComesCloser(e, f)
<1> DEFINE phase == IF Offset(f) = Size THEN "finalizing" ELSE "requesting"
           j == [job[e][f] EXCEPT !.at = phase, !.received = Offset(f), !.reported = Offset(f)]
<1>1. job[e][f] \in Jobs /\ job[e][f].at = "attempting"
  BY DEF BeginAttempt, JobAt, DownloadShape
<1>2. Offset(f) \in 0..Size
  BY DownloadAssumption DEF Offset, Usable, DownloadShape, Bytes
<1>3. job' = [job EXCEPT ![e][f].at = phase, ![e][f].received = Offset(f),
                         ![e][f].reported = Offset(f)]
  BY DEF BeginAttempt
<1>4. Becomes(e, f) /\ job'[e][f] = j
  BY <1>1, <1>3 DEF DownloadShape, Becomes
<1>5. phase \in {"finalizing", "requesting"}
  OBVIOUS
<1> HIDE DEF phase
<1>6. j.at = phase /\ j.attempt = job[e][f].attempt /\ j.received = Offset(f)
  BY <1>1 DEF Jobs
<1> HIDE DEF j
<1> QED
  BY <1>1, <1>2, <1>4, <1>5, <1>6, SetsComeCloser

LEMMA ResponseRestartsComesCloser ==
  ASSUME DownloadShape, DownloadShape', AttemptsInv, NEW e \in Executions, NEW f \in Files,
         ResponseRestarts(e, f)
  PROVE  JobComesCloser(e, f)
<1> DEFINE j == [job[e][f] EXCEPT !.at = "receiving", !.received = 0, !.reported = 0]
<1>1. job[e][f] \in Jobs /\ job[e][f].at = "requesting" /\ 0 \in 0..Size
  BY DownloadAssumption DEF ResponseRestarts, JobAt, DownloadShape
<1>2. job' = [job EXCEPT ![e][f].at = "receiving", ![e][f].received = 0,
                         ![e][f].reported = 0]
  BY DEF ResponseRestarts
<1>3. Becomes(e, f) /\ job'[e][f] = j
  BY <1>1, <1>2 DEF DownloadShape, Becomes
<1>4. j.at = "receiving" /\ j.attempt = job[e][f].attempt /\ j.received = 0
  BY <1>1 DEF Jobs
<1> HIDE DEF j
<1> QED
  BY <1>1, <1>3, <1>4, SetsComeCloser

LEMMA ReceiveChunkComesCloser ==
  ASSUME DownloadShape, DownloadShape', AttemptsInv, NEW e \in Executions, NEW f \in Files,
         NEW n \in Nat \ {0}, NEW good, ReceiveChunk(e, f, n, good), ~FailJob(e)
  PROVE  JobComesCloser(e, f)
<1> DEFINE next == job[e][f].received + n
<1>1. job[e][f] \in Jobs /\ job[e][f].at = "receiving" /\ next \in Nat
      /\ next > job[e][f].received
  BY DEF ReceiveChunk, JobAt, DownloadShape, Jobs
<1>2. CASE next > Size
  <2>1. Retry(e, f, 0)
    BY <1>2 DEF ReceiveChunk, DropPart
  <2> QED
    BY <2>1, RetryComesCloser
<1>3. CASE ~(next > Size)
  <2> DEFINE j == [job[e][f] EXCEPT !.received = next, !.reported = next]
  <2>1. job' = [job EXCEPT ![e][f].received = next, ![e][f].reported = next]
    BY <1>3 DEF ReceiveChunk
  <2>2. next \in 0..Size
    BY <1>1, <1>3, DownloadAssumption
  <2> HIDE DEF next
  <2>3. Becomes(e, f) /\ job'[e][f] = j
    BY <1>1, <2>1 DEF DownloadShape, Becomes
  <2>4. j.at = "receiving" /\ j.attempt = job[e][f].attempt /\ j.received = next
    BY <1>1 DEF Jobs
  <2> HIDE DEF j
  <2> QED
    BY <1>1, <2>2, <2>3, <2>4, SetsComeCloser
<1> QED
  BY <1>2, <1>3

LEMMA SaveDestinationComesCloser ==
  ASSUME DownloadShape, DownloadShape', AttemptsInv, NEW e \in Executions, NEW f \in Files,
         SaveDestination(e, f)
  PROVE  JobComesCloser(e, f)
<1> DEFINE saved == (dest[f] # Absent)
           j == [job[e][f] EXCEPT !.at = "swapping", !.saved = saved]
<1>1. job[e][f] \in Jobs /\ job[e][f].at = "finalizing" /\ job[e][f].received \in 0..Size
  BY DownloadAssumption DEF SaveDestination, JobAt, DownloadShape, AttemptsInv, Fine, Jobs
<1>2. job' = [job EXCEPT ![e][f].at = "swapping", ![e][f].saved = saved]
  BY DEF SaveDestination
<1> HIDE DEF saved
<1>3. Becomes(e, f) /\ job'[e][f] = j
  BY <1>1, <1>2 DEF DownloadShape, Becomes
<1>4. j.at = "swapping" /\ j.attempt = job[e][f].attempt /\ j.received = job[e][f].received
  BY <1>1 DEF Jobs
<1> HIDE DEF j
<1> QED
  BY <1>1, <1>3, <1>4, SetsComeCloser

LEMMA JobStepComesCloser ==
  ASSUME DownloadShape, DownloadShape', AttemptsInv, NEW e \in Executions, NEW f \in Files,
         JobStep(e, f)
  PROVE  FailJob(e) \/ JobComesCloser(e, f)
<1> SUFFICES ASSUME ~FailJob(e) PROVE JobComesCloser(e, f)
  OBVIOUS
<1>1. ASSUME NoticeCancel(e, f) \/ PermanentFailure(e, f)
             \/ \E restored \in BOOLEAN :
                  MovePartFails(e, f, restored) \/ RestoreBackup(e, f, restored)
      PROVE  FALSE
  BY <1>1 DEF NoticeCancel, PermanentFailure, MovePartFails, RestoreBackup
<1>2. CASE \/ AcquireLock(e, f) \/ ResponseContinues(e, f) \/ WakeUp(e, f)
           \/ DropDuplicate(e, f) \/ MovePart(e, f)
           \/ KeepDestination(e, f) \/ RejectDestination(e, f)
           \/ ReceiveEnd(e, f) /\ Verifies(f, part[f])
  <2>1. \E phase \in {"checking", "attempting", "receiving", "finalizing", "done",
                      "swapped", "restoring"} :
          /\ MoveJob(e, f, phase)
          /\ \/ job[e][f].at = "pending" /\ phase \in {"checking", "done"}
             \/ job[e][f].at = "requesting" /\ phase = "receiving"
             \/ job[e][f].at = "receiving" /\ phase = "finalizing"
             \/ job[e][f].at = "backoff" /\ phase = "attempting"
             \/ job[e][f].at = "finalizing" /\ phase = "done"
             \/ job[e][f].at = "swapping" /\ phase = "swapped"
             \/ job[e][f].at = "swapped" /\ phase \in {"done", "restoring"}
    BY <1>2 DEF AcquireLock, ResponseContinues, WakeUp, DropDuplicate, MovePart,
         KeepDestination, RejectDestination, ReceiveEnd, JobAt, FinishJob
  <2> QED
    BY <2>1, MoveComesCloser
<1>3. CASE CheckDestination(e, f) \/ BeginAttempt(e, f) \/ ResponseRestarts(e, f)
           \/ SaveDestination(e, f)
  BY <1>3, CheckDestinationComesCloser, BeginAttemptComesCloser,
     ResponseRestartsComesCloser, SaveDestinationComesCloser
<1>4. CASE TransientFailure(e, f) \/ RejectResponse(e, f)
           \/ (ReceiveEnd(e, f) /\ ~Verifies(f, part[f]))
  <2>1. job[e][f].reported \in Nat /\ 0 \in Nat
    BY DEF DownloadShape, Jobs
  <2>2. \E n \in Nat : Retry(e, f, n)
    BY <1>4, <2>1 DEF TransientFailure, RejectResponse, ReceiveEnd, DropPart
  <2> QED
    BY <2>2, RetryComesCloser
<1>5. ASSUME NEW n \in 1..(Size + 1), NEW good \in BOOLEAN, ReceiveChunk(e, f, n, good)
      PROVE  JobComesCloser(e, f)
  <2>1. n \in Nat \ {0}
    BY DownloadAssumption
  <2> QED
    BY <1>5, <2>1, ReceiveChunkComesCloser
<1> QED
  BY <1>1, <1>2, <1>3, <1>4, <1>5 DEF JobStep

(* One step of the downloads.                                               *)
StepCounts ==
  \A e \in Executions, f \in Files :
    run[e].state = "running" /\ run'[e].state = "running" /\ job'[e][f] # job[e][f]
    => StepsLeft(job'[e][f]) \in 0..(StepsLeft(job[e][f]) - 1)

LEMMA IdleIsFine == Fine(Idle)
BY DownloadAssumption DEF Fine, Idle

LEMMA StepsCount ==
  ASSUME DownloadShape, DownloadShape', AttemptsInv, [DownloadNext]_downloadVars
  PROVE  AttemptsInv' /\ StepCounts
<1>1. CASE job' = job
  BY <1>1 DEF AttemptsInv, StepCounts
<1>2. CASE Crash
  <2>1. \A e \in Executions, f \in Files : job'[e][f] = Idle /\ run'[e].state = "idle"
    BY <1>2 DEF Crash, DownloadShape, Runs
  <2> QED
    BY <2>1, IdleIsFine DEF AttemptsInv, StepCounts
<1>3. ASSUME NEW e \in Executions, StartExecution(e)
      PROVE  AttemptsInv' /\ StepCounts
  <2> DEFINE valid == {f \in run[e].files : Verifies(f, dest[f])}
             start(f) == IF f \notin run[e].files THEN Idle ELSE
               [Idle EXCEPT !.at = IF f \in valid THEN "done" ELSE "pending",
                            !.reported = IF f \in valid THEN Size ELSE 0]
  <2>1. /\ job' = [job EXCEPT ![e] = [f \in Files |-> start(f)]]
        /\ run[e].state # "running"
    BY <1>3 DEF StartExecution
  <2>2. \A f \in Files : Fine(start(f))
    BY DownloadAssumption DEF Fine, Idle
  <2> HIDE DEF start, valid
  <2>3. /\ \A f \in Files : job'[e][f] = start(f)
        /\ \A x \in Executions \ {e} : job'[x] = job[x]
    BY <2>1 DEF DownloadShape
  <2> QED
    BY <2>1, <2>2, <2>3 DEF AttemptsInv, StepCounts
<1>4. ASSUME NEW e \in Executions, FailJob(e) \/ EndExecution(e)
      PROVE  AttemptsInv' /\ StepCounts
  <2>1. /\ job' = [job EXCEPT ![e] = [f \in Files |-> Idle]]
        /\ run'[e].state # "running"
    BY <1>4 DEF FailJob, EndExecution, DownloadShape, Runs
  <2>2. /\ \A f \in Files : job'[e][f] = Idle
        /\ \A x \in Executions \ {e} : job'[x] = job[x]
    BY <2>1 DEF DownloadShape
  <2> QED
    BY <2>1, <2>2, IdleIsFine DEF AttemptsInv, StepCounts
<1>5. ASSUME NEW e \in Executions, NEW f \in Files, JobComesCloser(e, f)
      PROVE  AttemptsInv' /\ StepCounts
  BY <1>5 DEF JobComesCloser, Becomes, Closer, AttemptsInv, StepCounts
<1>6. ASSUME NEW e \in Executions, ExecutionStep(e)
      PROVE  AttemptsInv' /\ StepCounts
  BY <1>4, <1>5, <1>6, JobStepComesCloser DEF ExecutionStep
<1>7. ASSUME NEW e \in Executions, CancelExecution(e) PROVE job' = job
  BY <1>7 DEF CancelExecution
<1>8. ASSUME NEW f \in Files, Disturb(f) PROVE job' = job
  BY <1>8 DEF Disturb
<1>9. CASE UNCHANGED downloadVars
  BY <1>1, <1>9 DEF downloadVars
<1> QED
  BY <1>1, <1>2, <1>3, <1>6, <1>7, <1>8, <1>9 DEF DownloadNext

(* However the network, the disk and other programs behave, every step of a *)
(* job leaves fewer to be taken: the loop over MAX_ATTEMPTS in execute_one   *)
(* cannot go on for ever while it is polled.                                *)
THEOREM StepsRunOut == DownloadSafety => EveryStepCounts
<1>1. DownloadInit => AttemptsInv
  BY IdleIsFine DEF DownloadInit, AttemptsInv
<1>2. DownloadShape /\ DownloadShape' /\ AttemptsInv /\ [DownloadNext]_downloadVars
        => AttemptsInv'
  BY StepsCount
<1>3. DownloadShape /\ DownloadShape' /\ AttemptsInv /\ [DownloadNext]_downloadVars
        => [StepCounts]_downloadVars
  BY StepsCount
<1>4. DownloadInv => DownloadShape
  BY DEF DownloadInv
<1>5. DownloadSafety => []AttemptsInv
  BY <1>1, <1>2, <1>4, DownloadsAreConsistent, PTL DEF DownloadSafety
<1>6. DownloadSafety => [][StepCounts]_downloadVars
  BY <1>3, <1>4, <1>5, DownloadsAreConsistent, PTL DEF DownloadSafety
<1> QED
  BY <1>6 DEF EveryStepCounts, StepCounts
=============================================================================
