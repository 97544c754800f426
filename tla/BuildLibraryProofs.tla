-------------------------- MODULE BuildLibraryProofs --------------------------
(***************************************************************************)
(* Proofs about BuildLibrary, for any builds, projects, packs and paths.   *)
(*                                                                         *)
(* The argument: one operation runs at a time, and its phase tells what it *)
(* knows of its build: whether the build is listed, whether what will make *)
(* it launchable is there already, and whose files its transaction may     *)
(* touch.  A row appears when everything it promises is in place, and what *)
(* a step could not put back is remembered as torn.                        *)
(*                                                                         *)
(* The file of every row is found by following the transaction: each path  *)
(* it still has to change, and each it has changed, is one the job knows   *)
(* about, so whether it is finished, undone or cut short, the file a row   *)
(* names is on disk, saved by the transaction or left among the strays.    *)
(*                                                                         *)
(* And nothing else is there: what a visible build had is what its rows    *)
(* name, and the rows are written when the changes have made it so.        *)
(*                                                                         *)
(* An installation keeps what it has passed: each requirement that is no   *)
(* longer before a project on the stack is there, on, and has its file.    *)
(***************************************************************************)
EXTENDS BuildLibraryInvariants, SequenceTheorems, FiniteSetTheorems, TLAPS


-----------------------------------------------------------------------------
(* Sequences made of sets.                                                 *)
LEMMA ListsOfSets ==
  ASSUME NEW S, IsFiniteSet(S)
  PROVE  SetToSeq(S) \in Seq(S)
<1>1. Cardinality(S) \in Nat /\ ExistsBijection(1..Cardinality(S), S)
  BY FS_CardinalityType
<1>2. \E f \in [1..Cardinality(S) -> S] : IsInjective(f)
  BY <1>1 DEF ExistsBijection, Bijection, Injection
<1>3. SetToSeq(S) \in [1..Cardinality(S) -> S]
  BY <1>2 DEF SetToSeq
<1> QED
  BY <1>1, <1>3

LEMMA PartsOfLists ==
  ASSUME NEW S, NEW s \in Seq(S), s # <<>>
  PROVE  /\ Head(s) \in S /\ Head(s) = s[1] /\ 1 \in 1..Len(s)
         /\ Tail(s) \in Seq(S) /\ Len(Tail(s)) = Len(s) - 1
         /\ \A i \in 1..Len(Tail(s)) : i + 1 \in 1..Len(s) /\ Tail(s)[i] = s[i + 1]
         /\ Last(s) \in S /\ Last(s) = s[Len(s)] /\ Len(s) \in 1..Len(s)
         /\ Front(s) \in Seq(S)
         /\ \A i \in 1..Len(Front(s)) : i \in 1..Len(s) /\ Front(s)[i] = s[i]
<1>1. Len(s) \in Nat /\ Len(s) > 0
  BY EmptySeq, LenProperties
<1>2. /\ Head(s) \in S /\ Head(s) = s[1] /\ 1 \in 1..Len(s)
      /\ Tail(s) \in Seq(S) /\ Len(Tail(s)) = Len(s) - 1
      /\ \A i \in 1..Len(Tail(s)) : i + 1 \in 1..Len(s) /\ Tail(s)[i] = s[i + 1]
  BY <1>1, HeadTailProperties
<1>3. Last(s) \in S /\ Last(s) = s[Len(s)] /\ Len(s) \in 1..Len(s)
  BY <1>1 DEF Last
<1>4. /\ Front(s) \in Seq(S)
      /\ \A i \in 1..Len(Front(s)) : i \in 1..Len(s) /\ Front(s)[i] = s[i]
  BY <1>1, SubSeqProperties DEF Front
<1> QED
  BY <1>2, <1>3, <1>4

LEMMA LongerLists ==
  ASSUME NEW S, NEW s \in Seq(S), NEW x \in S
  PROVE  /\ Append(s, x) \in Seq(S)
         /\ \A i \in 1..Len(Append(s, x)) :
              (i \in 1..Len(s) /\ Append(s, x)[i] = s[i]) \/ Append(s, x)[i] = x
BY AppendProperties

(* Paths of content are paths of a build, and not those of Forge.          *)
LEMMA PathsOfContent ==
  /\ \A p \in Projects, v \in Versions, on \in BOOLEAN :
       ProjectPath(p, v, on) \in ContentPaths
  /\ ContentPaths \subseteq UserPaths /\ ConfigPath \in UserPaths
  /\ UserPaths \subseteq Paths
  /\ \A i \in 1..2 : ForgeFiles[i] \in Paths /\ ForgeFiles[i] \notin UserPaths
  /\ ForgeFiles[1] # ForgeFiles[2]
<1>1. ASSUME NEW p \in Projects, NEW v \in Versions, NEW on \in BOOLEAN
      PROVE  ProjectPath(p, v, on) \in ContentPaths
  <2>1. <<p, v>> \in DOMAIN FileName
    BY ContentAssumption
  <2> QED
    BY <2>1 DEF ProjectPath, ContentPaths
<1>2. ForgeFiles[1] # ForgeFiles[2]
  BY DEF ForgeFiles, Path
<1> QED
  BY <1>1, <1>2, ContentAssumption, LibraryAssumption DEF UserPaths

LEMMA RowPaths ==
  ASSUME RowShape, NEW b \in Builds, NEW p \in Projects, Installed(b, p)
  PROVE  /\ version[b][p] \in Versions
         /\ RowPath(b, p) \in ContentPaths
         /\ <<p, version[b][p], enabled[b][p]>> \in Rows
<1>1. version[b][p] \in Versions /\ enabled[b][p] \in BOOLEAN
  BY ContentAssumption DEF RowShape, Installed, Versions
<1> QED
  BY <1>1, PathsOfContent, ContentAssumption DEF RowPath, Rows, Versions

-----------------------------------------------------------------------------
(* How operations move.                                                    *)
LEMMA MovesOn ==
  ASSUME JobShape, NEW phase, To(phase)
  PROVE  /\ JobShape' /\ job'.at = phase
         /\ job'.op = job.op /\ job'.build = job.build /\ job'.stack = job.stack
         /\ job'.commit = job.commit /\ job'.pack = job.pack /\ job'.loader = job.loader
         /\ job'.from = job.from /\ job'.repairing = job.repairing
BY DEF JobShape, JobFields, To

LEMMA Answers ==
  ASSUME NEW verdict
  PROVE  /\ DOMAIN Answer(verdict) = JobFields
         /\ Answer(verdict).at = "idle" /\ Answer(verdict).stack = <<>>
         /\ Answer(verdict).commit = job.commit /\ Answer(verdict).pack = NoPack
         /\ Answer(verdict).repairing = FALSE
         /\ Answer(verdict).op = job.op /\ Answer(verdict).build = job.build
         /\ Answer(verdict).answer = verdict
<1> DEFINE r1 == [NoJob EXCEPT !.answer = verdict]
           r2 == [r1 EXCEPT !.op = job.op]
           r3 == [r2 EXCEPT !.build = job.build]
           r4 == [r3 EXCEPT !.commit = job.commit]
<1>1. DOMAIN r1 = JobFields /\ r1.at = "idle" /\ r1.stack = <<>> /\ r1.pack = NoPack
      /\ r1.repairing = FALSE /\ r1.answer = verdict
  BY DEF NoJob, JobFields
<1> HIDE DEF r1
<1>2. DOMAIN r2 = JobFields /\ r2.at = "idle" /\ r2.stack = <<>> /\ r2.pack = NoPack
      /\ r2.repairing = FALSE /\ r2.answer = verdict /\ r2.op = job.op
  BY <1>1 DEF JobFields
<1> HIDE DEF r2
<1>3. DOMAIN r3 = JobFields /\ r3.at = "idle" /\ r3.stack = <<>> /\ r3.pack = NoPack
      /\ r3.repairing = FALSE /\ r3.answer = verdict /\ r3.op = job.op
      /\ r3.build = job.build
  BY <1>2 DEF JobFields
<1> HIDE DEF r3
<1>4. DOMAIN r4 = JobFields /\ r4.at = "idle" /\ r4.stack = <<>> /\ r4.pack = NoPack
      /\ r4.repairing = FALSE /\ r4.commit = job.commit /\ r4.answer = verdict
      /\ r4.op = job.op /\ r4.build = job.build
  BY <1>3 DEF JobFields
<1>5. Answer(verdict) = r4
  BY DEF Answer, r1, r2, r3, r4
<1> QED
  BY <1>4, <1>5

LEMMA ComesToAnEnd ==
  ASSUME JobShape, NEW verdict,
         \/ job' = Answer(verdict)
         \/ job' = [Answer(verdict) EXCEPT !.stack = job.stack]
         \/ job' = [NoJob EXCEPT !.answer = verdict]
         \/ job' = NoJob
  PROVE  /\ JobShape' /\ job'.at = "idle" /\ job'.repairing = FALSE
         /\ job'.op \in {job.op, "none"}
<1>0. <<>> \in Seq(Frames) /\ {} \subseteq Rows
  BY EmptySeq
<1>1. CASE job' = Answer(verdict)
  <2>1. /\ DOMAIN job' = JobFields /\ job'.at = "idle" /\ job'.stack = <<>>
        /\ job'.commit = job.commit /\ job'.pack = NoPack
        /\ job'.repairing = FALSE /\ job'.op = job.op
    BY <1>1, Answers
  <2> QED
    BY <1>0, <2>1 DEF JobShape
<1>2. CASE job' = [Answer(verdict) EXCEPT !.stack = job.stack]
  <2> DEFINE r == Answer(verdict)
  <2>1. DOMAIN r = JobFields /\ r.at = "idle" /\ r.commit = job.commit /\ r.pack = NoPack
        /\ r.repairing = FALSE /\ r.op = job.op
    BY Answers
  <2>2. job' = [r EXCEPT !.stack = job.stack]
    BY <1>2
  <2> HIDE DEF r
  <2>3. /\ DOMAIN job' = JobFields /\ job'.at = "idle" /\ job'.stack = job.stack
        /\ job'.commit = job.commit /\ job'.pack = NoPack
        /\ job'.repairing = FALSE /\ job'.op = job.op
    BY <2>1, <2>2 DEF JobFields
  <2> QED
    BY <2>3 DEF JobShape
<1>3. CASE job' = [NoJob EXCEPT !.answer = verdict] \/ job' = NoJob
  <2>1. /\ DOMAIN job' = JobFields /\ job'.at = "idle" /\ job'.stack = <<>>
        /\ job'.commit = {} /\ job'.pack = NoPack
        /\ job'.repairing = FALSE /\ job'.op = "none"
    BY <1>3 DEF NoJob, JobFields
  <2> QED
    BY <1>0, <2>1 DEF JobShape
<1> QED
  BY <1>1, <1>2, <1>3

(* An operation that is over knows nothing.                                *)
LEMMA IdleKnowsNothing ==
  ASSUME job'.at = "idle"
  PROVE  /\ PhaseInv' /\ SwitchInv' /\ NextInv'
         /\ tx'.at = "none" => TxInv'
BY DEF PhaseInv, SwitchInv, NextInv, TxInv, Carried, JobAt, TxAt

LEMMA Starts ==
  ASSUME NEW op, NEW b
  PROVE  /\ DOMAIN Start(op, b) = JobFields
         /\ Start(op, b).op = op /\ Start(op, b).build = b
         /\ Start(op, b).stack = <<>> /\ Start(op, b).commit = {}
         /\ Start(op, b).pack = NoPack
<1> DEFINE r == [NoJob EXCEPT !.op = op]
<1>1. DOMAIN r = JobFields /\ r.op = op /\ r.stack = <<>> /\ r.commit = {} /\ r.pack = NoPack
  BY DEF NoJob, JobFields
<1>2. Start(op, b) = [r EXCEPT !.build = b]
  BY DEF Start
<1> HIDE DEF r
<1> QED
  BY <1>1, <1>2 DEF JobFields

LEMMA StartsAsNew ==
  ASSUME NEW op, NEW b
  PROVE  ~Start(op, b).repairing
<1> DEFINE r == [NoJob EXCEPT !.op = op]
<1>1. DOMAIN r = JobFields /\ ~r.repairing
  BY DEF NoJob, JobFields
<1>2. Start(op, b) = [r EXCEPT !.build = b]
  BY DEF Start
<1> HIDE DEF r
<1> QED
  BY <1>1, <1>2 DEF JobFields

LEMMA NothingSpecial == <<>> \in Seq(Frames) /\ {} \subseteq Rows
BY EmptySeq

-----------------------------------------------------------------------------
(* How transactions move.                                                  *)
LEMMA TxMoves ==
  ASSUME TxShape, NEW phase \in {"changing", "placing", "undoing", "cleaning"},
         phase = "placing" => tx.todo # <<>> /\ Head(tx.todo).to = Sound,
         tx' = [tx EXCEPT !.at = phase]
  PROVE  TxShape' /\ tx'.at = phase /\ tx'.build = tx.build /\ tx'.todo = tx.todo
           /\ tx'.done = tx.done
BY DEF TxShape

LEMMA TxEnds ==
  ASSUME tx' = NoTx
  PROVE  TxShape' /\ tx'.at = "none"
<1>1. <<>> \in Seq(Changes) /\ <<>> \in Seq(Saved)
  BY EmptySeq
<1>2. /\ DOMAIN tx' = {"at", "build", "todo", "done", "failed"}
      /\ tx'.at = "none" /\ tx'.todo = <<>> /\ tx'.done = <<>>
  BY DEF NoTx
<1> QED
  BY <1>1, <1>2 DEF TxShape

LEMMA TxBegins ==
  ASSUME NEW b, NEW changes \in Seq(Changes), BeginChanges(b, changes)
  PROVE  /\ TxShape' /\ tx'.at = "changing" /\ tx'.build = b
         /\ tx'.todo = changes /\ tx'.done = <<>>
<1>1. <<>> \in Seq(Saved)
  BY EmptySeq
<1>2. /\ DOMAIN tx' = {"at", "build", "todo", "done", "failed"}
      /\ tx'.at = "changing" /\ tx'.build = b /\ tx'.todo = changes /\ tx'.done = <<>>
  BY DEF NoTx, BeginChanges
<1> QED
  BY <1>1, <1>2 DEF TxShape

LEMMA WriteTouches ==
  ASSUME DiskShape, NEW b \in Builds, NEW p \in Paths, NEW c \in Contents,
         NEW U, p \in U, disk' = [disk EXCEPT ![b][p] = c]
  PROVE  Touches(b, U) /\ disk'[b][p] = c
BY DEF DiskShape, Touches

LEMMA NothingTouched ==
  ASSUME DiskShape, NEW b, NEW U, disk' = disk
  PROVE  Touches(b, U)
BY DEF DiskShape, Touches

LEMMA SetAsideKeeps ==
  ASSUME Shape, tx.build \in Builds, NEW U, Within(U), SetAside
  PROVE  /\ TxShape' /\ Within(U)' /\ tx'.build = tx.build
         /\ tx'.at \in {"changing", "placing", "undoing"}
         /\ Touches(tx.build, U) /\ TearsAtMost
<1> DEFINE change == Head(tx.todo)
           saved == Append(tx.done, [path |-> change.path, old |-> Target])
<1>1. TxShape /\ DiskShape /\ tx.todo # <<>> /\ TxAt("changing")
  BY DEF Shape, SetAside
<1>2. /\ change \in Changes /\ change = tx.todo[1] /\ 1 \in 1..Len(tx.todo)
      /\ Tail(tx.todo) \in Seq(Changes)
      /\ \A i \in 1..Len(Tail(tx.todo)) : Tail(tx.todo)[i].path \in U
  BY <1>1, PartsOfLists DEF TxShape, Within
<1>3. change.path \in Paths /\ change.path \in U /\ change.to \in {Sound, Absent}
  BY <1>2 DEF Changes, Within
<1>4. [path |-> change.path, old |-> Target] \in Saved
  BY <1>1, <1>3 DEF Saved, Target, DiskShape
<1>5. saved \in Seq(Saved) /\ \A i \in 1..Len(saved) : saved[i].path \in U
  BY <1>1, <1>3, <1>4, LongerLists DEF TxShape, Within
<1> HIDE DEF saved, change
<1>6. TearsAtMost
  BY <1>1 DEF SetAside, TearsAtMost, DiskShape
<1>7. ASSUME disk' = [disk EXCEPT ![tx.build][change.path] = Absent]
      PROVE  Touches(tx.build, U)
  BY <1>1, <1>3, <1>7, WriteTouches DEF Contents
<1>8. CASE Undo /\ UNCHANGED disk
  <2>1. TxShape' /\ tx'.at = "undoing" /\ tx'.build = tx.build /\ tx'.todo = tx.todo
           /\ tx'.done = tx.done
    BY <1>1, <1>8, TxMoves DEF Undo
  <2> QED
    BY <1>1, <1>6, <1>8, <2>1, NothingTouched DEF Within
<1>9. CASE /\ disk' = [disk EXCEPT ![tx.build][change.path] = Absent]
           /\ change.to # Absent
           /\ tx' = [tx EXCEPT !.at = "placing", !.done = saved]
  <2>1. /\ DOMAIN tx' = DOMAIN tx /\ tx'.at = "placing" /\ tx'.done = saved
        /\ tx'.todo = tx.todo /\ tx'.build = tx.build
    BY <1>1, <1>9 DEF TxShape
  <2>2. TxShape' /\ Within(U)'
    BY <1>1, <1>3, <1>5, <1>9, <2>1 DEF TxShape, Within, change
  <2> QED
    BY <1>6, <1>7, <1>9, <2>1, <2>2
<1>10. CASE /\ disk' = [disk EXCEPT ![tx.build][change.path] = Absent]
            /\ tx' = [tx EXCEPT !.todo = Tail(@),
                                !.done = IF Target = Absent THEN @ ELSE saved]
  <2>1. /\ DOMAIN tx' = DOMAIN tx /\ tx'.at = tx.at /\ tx'.done \in {tx.done, saved}
        /\ tx'.todo = Tail(tx.todo) /\ tx'.build = tx.build
    BY <1>1, <1>10 DEF TxShape
  <2>2. TxShape' /\ Within(U)'
    BY <1>1, <1>2, <1>5, <2>1 DEF TxShape, Within, TxAt
  <2> QED
    BY <1>1, <1>6, <1>7, <1>10, <2>1, <2>2 DEF TxAt
<1> QED
  BY <1>8, <1>9, <1>10 DEF SetAside, change, saved

LEMMA PlaceFileKeeps ==
  ASSUME Shape, tx.build \in Builds, NEW U, Within(U), PlaceFile
  PROVE  /\ TxShape' /\ Within(U)' /\ tx'.build = tx.build
         /\ tx'.at \in {"changing", "placing", "undoing"}
         /\ Touches(tx.build, U) /\ TearsAtMost
<1>1. TxShape /\ DiskShape /\ tx.todo # <<>> /\ Head(tx.todo).to = Sound
  BY DEF Shape, PlaceFile, TxShape, TxAt
<1>2. /\ Head(tx.todo) \in Changes /\ Head(tx.todo) = tx.todo[1] /\ 1 \in 1..Len(tx.todo)
      /\ Tail(tx.todo) \in Seq(Changes)
      /\ \A i \in 1..Len(Tail(tx.todo)) : Tail(tx.todo)[i].path \in U
  BY <1>1, PartsOfLists DEF TxShape, Within
<1>3. Head(tx.todo).path \in Paths /\ Head(tx.todo).path \in U
  BY <1>2 DEF Changes, Within
<1>4. TearsAtMost
  BY <1>1 DEF PlaceFile, TearsAtMost, DiskShape
<1>5. CASE Undo /\ UNCHANGED disk
  <2>1. TxShape' /\ tx'.at = "undoing" /\ tx'.build = tx.build /\ tx'.todo = tx.todo
           /\ tx'.done = tx.done
    BY <1>1, <1>5, TxMoves DEF Undo
  <2> QED
    BY <1>1, <1>4, <1>5, <2>1, NothingTouched DEF Within
<1>6. CASE /\ disk' = [disk EXCEPT ![tx.build][Head(tx.todo).path] = Head(tx.todo).to]
           /\ tx' = [tx EXCEPT !.at = "changing", !.todo = Tail(@)]
  <2>1. /\ DOMAIN tx' = DOMAIN tx /\ tx'.at = "changing" /\ tx'.done = tx.done
        /\ tx'.todo = Tail(tx.todo) /\ tx'.build = tx.build
    BY <1>1, <1>6 DEF TxShape
  <2>2. TxShape' /\ Within(U)'
    BY <1>1, <1>2, <2>1 DEF TxShape, Within
  <2>3. Touches(tx.build, U)
    BY <1>1, <1>3, <1>6, WriteTouches DEF Contents
  <2> QED
    BY <1>4, <2>1, <2>2, <2>3
<1> QED
  BY <1>5, <1>6 DEF PlaceFile

LEMMA UndoChangeKeeps ==
  ASSUME Shape, tx.build \in Builds, NEW U, Within(U), UndoChange
  PROVE  /\ TxShape' /\ Within(U)' /\ tx'.build = tx.build
         /\ tx'.at \in {"changing", "placing", "undoing"}
         /\ Touches(tx.build, U) /\ TearsAtMost
<1> DEFINE last == Last(tx.done)
<1>1. TxShape /\ DiskShape /\ tx.done # <<>> /\ TxAt("undoing")
  BY DEF Shape, UndoChange
<1>2. /\ last \in Saved /\ last = tx.done[Len(tx.done)] /\ Len(tx.done) \in 1..Len(tx.done)
      /\ Front(tx.done) \in Seq(Saved)
      /\ \A i \in 1..Len(Front(tx.done)) : Front(tx.done)[i].path \in U
  BY <1>1, PartsOfLists DEF TxShape, Within
<1>3. last.path \in Paths /\ last.path \in U /\ last.old \in Contents
  BY <1>2 DEF Saved, Within
<1>4. TearsAtMost
  BY <1>1 DEF UndoChange, TearsAtMost, DiskShape
<1>5. /\ DOMAIN tx' = DOMAIN tx /\ tx'.at = "undoing" /\ tx'.todo = tx.todo
      /\ tx'.done = Front(tx.done) /\ tx'.build = tx.build
  BY <1>1 DEF TxShape, UndoChange, TxAt
<1>6. TxShape' /\ Within(U)'
  BY <1>1, <1>2, <1>5 DEF TxShape, Within
<1>7. \/ disk' = disk
      \/ disk' = [disk EXCEPT ![tx.build][last.path] = last.old]
      \/ disk' = [disk EXCEPT ![tx.build][last.path] = Absent]
  BY DEF UndoChange
<1> HIDE DEF last
<1>8. Touches(tx.build, U)
  BY <1>1, <1>3, <1>7, WriteTouches, NothingTouched DEF Contents
<1> QED
  BY <1>4, <1>5, <1>6, <1>8

LEMMA FileStepKeeps ==
  ASSUME Shape, tx.build \in Builds, NEW U, Within(U), FileStep
  PROVE  /\ TxShape' /\ Within(U)' /\ tx'.build = tx.build
         /\ tx'.at \in {"changing", "placing", "undoing"}
         /\ Touches(tx.build, U) /\ TearsAtMost
BY SetAsideKeeps, PlaceFileKeeps, UndoChangeKeeps DEF FileStep

-----------------------------------------------------------------------------
(* Steps that take nothing from the shelf.                                 *)
KeepsForge == \A b \in Builds, i \in 1..2 : disk'[b][ForgeFiles[i]] = disk[b][ForgeFiles[i]]
Disturbs == \A b \in listed : Disturbed(b) => Disturbed(b)'

Calm ==
  /\ UNCHANGED <<listed, active, profile, halfway>>
  /\ registered \subseteq registered'
  /\ Disturbs
  /\ \A b \in listed :
       /\ place'[b] = place[b] /\ loader'[b] = loader[b]
       /\ loader[b] = "forge" /\ ~Disturbed(b)' /\ ForgeThere(b) => ForgeThere(b)'

LEMMA StaysLaunchable ==
  ASSUME LibraryInv, NEW b \in listed, registered \subseteq registered',
         loader'[b] = loader[b], place'[b] = place[b], Disturbed(b) => Disturbed(b)',
         Trashing(b) => Trashing(b)' \/ Disturbed(b)',
         loader[b] = "forge" /\ ~Disturbed(b)' /\ ForgeThere(b) => ForgeThere(b)'
  PROVE  Launchable(b)'
<1>1. Launchable(b)
  BY DEF LibraryInv, ShelfInv
<1>2. loader'[b] \in registered'
  BY <1>1 DEF Launchable
<1>3. ASSUME ~Disturbed(b)'
      PROVE  /\ (Trashing(b)' /\ place'[b] = "trash") \/ place'[b] = "instances"
             /\ loader'[b] = "forge" => ForgeThere(b)'
  <2>1. ~Disturbed(b)
    BY <1>3
  <2>2. (Trashing(b) /\ place[b] = "trash") \/ place[b] = "instances"
    BY <1>1, <2>1 DEF Launchable
  <2>3. loader[b] = "forge" => ForgeThere(b)
    BY <1>1, <2>1 DEF Launchable
  <2>4. loader[b] = "forge" => ForgeThere(b)'
    BY <1>3, <2>3
  <2> QED
    BY <1>3, <2>2, <2>4
<1> QED
  BY <1>2, <1>3 DEF Launchable

LEMMA CalmShelf ==
  ASSUME LibraryInv, Calm,
         \A b \in listed : Trashing(b) => Trashing(b)' \/ Disturbed(b)'
  PROVE  SelectionInv' /\ \A b \in listed' : Launchable(b)'
<1>1. SelectionInv'
  BY DEF LibraryInv, SelectionInv, Calm
<1>2. ASSUME NEW b \in listed PROVE Launchable(b)'
  BY StaysLaunchable DEF Calm, Disturbs
<1>3. listed' = listed
  BY DEF Calm
<1> QED
  BY <1>1, <1>2, <1>3

(* Steps that leave the files of Forge alone.                              *)
LEMMA KeptForge ==
  ASSUME RowShape, KeepsForge, NEW b \in Builds
  PROVE  ForgeThere(b)' <=> ForgeThere(b)
BY DEF KeepsForge, ForgeThere, Has

LEMMA CalmIfKept ==
  ASSUME RowShape, KeepsForge, Disturbs, registered \subseteq registered',
         UNCHANGED <<listed, loader, place, active, profile, halfway>>
  PROVE  Calm
BY KeptForge DEF Calm, RowShape

LEMMA FilesKept ==
  ASSUME Shape, UNCHANGED <<disk, torn, excused, place, loader>>
  PROVE  DiskShape' /\ KeepsForge /\ Disturbs
BY DEF Shape, DiskShape, KeepsForge, Disturbs, Disturbed

LEMMA UserTouches ==
  ASSUME DiskShape, RowShape, NEW b, Touches(b, UserPaths), TearsAtMost,
         UNCHANGED <<excused, place, loader>>
  PROVE  DiskShape' /\ KeepsForge /\ Disturbs
<1>1. KeepsForge
  BY PathsOfContent DEF Touches, KeepsForge
<1> QED
  BY <1>1 DEF DiskShape, RowShape, Touches, TearsAtMost, Disturbs, Disturbed

LEMMA TearingKeeps ==
  ASSUME Shape, NEW b \in Builds, torn' = [torn EXCEPT ![b] = TRUE]
  PROVE  TearsAtMost /\ torn'[b]
BY DEF Shape, DiskShape, TearsAtMost

(* An operation that comes to an end, and one that goes on.                *)
LEMMA EndsCalmly ==
  ASSUME LibraryInv, JobShape', job'.at = "idle", TxShape', tx'.at = "none",
         RowShape', DiskShape', Calm,
         \A b \in listed : Trashing(b) => Disturbed(b)'
  PROVE  LibraryInv'
<1>1. PhaseInv' /\ SwitchInv' /\ NextInv' /\ TxInv'
  BY IdleKnowsNothing
<1>2. SelectionInv' /\ \A b \in listed' : Launchable(b)'
  BY CalmShelf
<1> QED
  BY <1>1, <1>2 DEF LibraryInv, Shape, ShelfInv

LEMMA GoesOnCalmly ==
  ASSUME LibraryInv, JobShape', TxShape', RowShape', DiskShape',
         PhaseInv', SwitchInv', TxInv', NextInv', Calm,
         \A b \in listed : Trashing(b) => Trashing(b)' \/ Disturbed(b)'
  PROVE  LibraryInv'
<1>1. SelectionInv' /\ \A b \in listed' : Launchable(b)'
  BY CalmShelf
<1> QED
  BY <1>1 DEF LibraryInv, Shape, ShelfInv

(* An operation that goes on with its build, whose content it may change.  *)
ContentPhases == {"resolving", "renaming", "recording", "renamingBack", "changing",
                  "selecting"}
LEMMA WorksOn ==
  ASSUME LibraryInv, job'.at \in ContentPhases, ~JobAt("idle"),
         job'.build = job.build, job'.pack = job.pack, job'.loader = job.loader,
         b0 \in Builds, KeepsForge, UNCHANGED <<listed, loader, place, registered>>,
         b0 \in listed \/ JobAt("changing") \/ JobAt("downloading"),
         job'.at = "changing" => \/ job.pack = NoPack
                                 \/ JobAt("changing") \/ JobAt("downloading")
  PROVE  NextInv'
<1>0. PICK b \in Builds : b = b0 /\ b = b0'
  BY DEF b0
<1>1. ForgeThere(b)' <=> ForgeThere(b)
  BY KeptForge DEF LibraryInv, Shape
<1>3. Carried' => Carried
  BY DEF Carried, ContentPhases, JobAt
<1>4. Carried' => job'.loader \in registered' /\ (job'.loader = "forge" => ForgeThere(b)')
  BY <1>0, <1>1, <1>3 DEF LibraryInv, ShelfInv, NextInv
<1>5. b \notin listed => place[b] = "instances"
  BY <1>0 DEF LibraryInv, ShelfInv, NextInv, JobAt
<1>6. (ForgeThere(b0))' <=> ForgeThere(b)'
  BY <1>0 DEF ForgeThere, Has
<1> QED
  BY <1>0, <1>4, <1>5, <1>6 DEF NextInv, ContentPhases

-----------------------------------------------------------------------------
(* Installing a project and what it requires.                              *)
Requirements == [project : Projects, pin : 0..MaxVersion]

LEMMA Resolving ==
  ASSUME LibraryInv, JobAt("resolving")
  PROVE  /\ Shape /\ b0 \in Builds /\ b0 \in listed /\ tx.at = "none"
         /\ job.pack = NoPack /\ job.op \in {"install", "repair"} /\ job.stack # <<>>
         /\ Top \in Frames /\ Tail(job.stack) \in Seq(Frames)
         /\ Top.requires # <<>> =>
              Needed \in Requirements /\ Tail(Top.requires) \in Seq(Requirements)
<1>1. /\ Shape /\ b0 \in Builds /\ b0 \in listed /\ tx.at = "none"
      /\ job.pack = NoPack /\ job.op \in {"install", "repair"} /\ job.stack # <<>>
  BY DEF LibraryInv, PhaseInv, TxInv, JobAt, TxAt, OnListed
<1>2. Top \in Frames /\ Tail(job.stack) \in Seq(Frames)
  BY <1>1, PartsOfLists DEF Shape, JobShape, Top
<1>3. ASSUME Top.requires # <<>>
      PROVE  Needed \in Requirements /\ Tail(Top.requires) \in Seq(Requirements)
  <2>1. Top.requires \in Seq(Requirements)
    BY <1>2 DEF Frames, Requirements
  <2> QED
    BY <1>3, <2>1, PartsOfLists DEF Needed
<1> QED
  BY <1>1, <1>2, <1>3

LEMMA ConsList ==
  ASSUME NEW S, NEW x \in S, NEW s \in Seq(S)
  PROVE  <<x>> \o s \in Seq(S) /\ <<x>> \o s # <<>>
<1>1. <<x>> \in Seq(S) /\ Len(<<x>>) = 1
  OBVIOUS
<1>2. <<x>> \o s \in Seq(S) /\ Len(<<x>> \o s) = 1 + Len(s) /\ Len(s) \in Nat
  BY <1>1, ConcatProperties, LenProperties
<1>3. Len(<<x>> \o s) # 0
  BY <1>2
<1> QED
  BY <1>2, <1>3, EmptySeq

(* Rows, files and everything on the shelf stay as they are.               *)
Untouched ==
  UNCHANGED <<listed, version, enabled, source, disk, torn, excused, tx, place, loader,
              registered, active, profile, halfway, previews>>

LEMMA UntouchedIsCalm ==
  ASSUME LibraryInv, Untouched
  PROVE  TxShape' /\ RowShape' /\ DiskShape' /\ KeepsForge /\ Calm
<1>1. Shape
  BY DEF LibraryInv
<1>2. TxShape' /\ RowShape'
  BY <1>1 DEF Shape, TxShape, RowShape, Untouched
<1>3. DiskShape' /\ KeepsForge /\ Disturbs
  BY <1>1, FilesKept DEF Untouched
<1> QED
  BY <1>1, <1>2, <1>3, CalmIfKept DEF Untouched, Shape

LEMMA EndsUntouched ==
  ASSUME LibraryInv, Untouched, ~JobAt("changing"), ~JobAt("forging"),
         ~JobAt("deletingRow"), ~JobAt("movingBack"),
         NEW verdict, job' = Answer(verdict)
  PROVE  LibraryInv'
<1>1. JobShape' /\ job'.at = "idle"
  BY ComesToAnEnd DEF LibraryInv, Shape
<1>2. tx'.at = "none"
  BY DEF LibraryInv, TxInv, Untouched, JobAt, TxAt
<1> QED
  BY <1>1, <1>2, UntouchedIsCalm, EndsCalmly DEF Trashing, JobAt

(* Between two phases of resolving, nothing but the stack changes.         *)
LEMMA ResolvesOn ==
  ASSUME LibraryInv, Untouched, b0 \in listed, tx.at = "none",
         job.op \in {"install", "repair"}, job.pack = NoPack,
         ~JobAt("idle"), ~JobAt("deletingRow"), ~JobAt("movingBack"),
         JobShape', job'.at = "resolving", job'.stack # <<>>,
         job'.op = job.op, job'.build = job.build, job'.pack = job.pack,
         job'.loader = job.loader
  PROVE  LibraryInv'
<1>1. b0 \in Builds /\ b0' = b0
  BY DEF LibraryInv, PhaseInv, b0
<1>2. PhaseInv' /\ SwitchInv' /\ TxInv'
  BY <1>1 DEF PhaseInv, SwitchInv, TxInv, JobAt, TxAt, Untouched, NewPack, OnListed, OfPacks
<1>3. NextInv'
  BY <1>1, UntouchedIsCalm, WorksOn DEF Untouched, ContentPhases
<1> QED
  BY <1>2, <1>3, UntouchedIsCalm, GoesOnCalmly DEF Trashing, JobAt

LEMMA NextRequirementIsOne ==
  ASSUME LibraryInv, JobAt("resolving"), Top.requires # <<>>, job' = NextRequirement
  PROVE  /\ JobShape' /\ job'.at = "resolving" /\ job'.stack # <<>>
         /\ job'.op = job.op /\ job'.build = job.build /\ job'.pack = job.pack
         /\ job'.loader = job.loader /\ job'.repairing = job.repairing
<1> DEFINE top == [Top EXCEPT !.requires = Tail(@)]
<1>1. top \in Frames /\ Tail(job.stack) \in Seq(Frames) /\ JobShape
  BY Resolving DEF Frames, Requirements, Shape
<1> HIDE DEF top
<1> DEFINE stack == <<top>> \o Tail(job.stack)
<1>2. stack \in Seq(Frames) /\ stack # <<>>
  BY <1>1, ConsList
<1>3. job' = [job EXCEPT !.stack = stack]
  BY DEF NextRequirement, top
<1> HIDE DEF stack
<1> QED
  BY <1>1, <1>2, <1>3 DEF JobShape, JobFields, JobAt

LEMMA GiveUpKeeps == ASSUME LibraryInv, GiveUp, UNCHANGED shelfVars PROVE LibraryInv'
<1>1. Untouched
  BY DEF GiveUp, Untouched, shelfVars, rowVars, fileVars
<1>2. JobAt("resolving") /\ job' = Answer("failed")
  BY DEF GiveUp, Fail
<1> QED
  BY <1>1, <1>2, EndsUntouched DEF JobAt

LEMMA TakeRequirementKeeps ==
  ASSUME LibraryInv, TakeRequirement, UNCHANGED shelfVars PROVE LibraryInv'
<1>1. Untouched /\ JobAt("resolving") /\ Top.requires # <<>>
  BY DEF TakeRequirement, Untouched, shelfVars, rowVars, fileVars
<1>2. /\ Shape /\ b0 \in Builds /\ b0 \in listed /\ tx.at = "none"
      /\ job.pack = NoPack /\ job.op \in {"install", "repair"} /\ job.stack # <<>>
      /\ Needed \in Requirements
  BY <1>1, Resolving
<1>3. CASE job' = NextRequirement
  BY <1>1, <1>2, <1>3, NextRequirementIsOne, ResolvesOn DEF JobAt
<1>4. CASE job' = [job EXCEPT !.at = "renaming",
                     !.commit = {<<Needed.project, version[b0][Needed.project], TRUE>>}]
  <2>1. PICK p \in Projects, b \in Builds :
          p = Needed.project /\ b = b0 /\ Installed(b, p)
    BY <1>2 DEF Requirements, TakeRequirement, IsMet
  <2> DEFINE row == <<p, version[b][p], TRUE>>
  <2>2. row \in Rows
    BY <1>2, <2>1 DEF Rows, Shape, RowShape
  <2>3. job' = [job EXCEPT !.at = "renaming", !.commit = {row}]
    BY <1>4, <2>1
  <2>4. SwitchInv'
    <3>1. job'.commit = {row} /\ job'.build = b
      BY <1>2, <2>1, <2>3 DEF Shape, JobShape, JobFields, b0
    <3> QED
      BY <2>1, <3>1, <1>1 DEF SwitchInv, Untouched, Installed, b0
  <2> HIDE DEF row
  <2>5. /\ DOMAIN job' = JobFields /\ job'.at = "renaming" /\ job'.commit = {row}
        /\ job'.op = job.op /\ job'.build = job.build /\ job'.stack = job.stack
        /\ job'.pack = job.pack /\ job'.loader = job.loader
    BY <1>2, <2>3 DEF Shape, JobShape, JobFields
  <2>6. JobShape'
    BY <1>2, <2>2, <2>5 DEF Shape, JobShape
  <2>7. PhaseInv' /\ TxInv'
    BY <1>1, <1>2, <2>5 DEF PhaseInv, TxInv, JobAt, TxAt, Untouched, NewPack, OnListed,
                            OfPacks, b0
  <2>8. NextInv'
    BY <1>1, <1>2, <2>5, UntouchedIsCalm, WorksOn DEF Untouched, ContentPhases, JobAt
  <2> QED
    BY <1>1, <2>4, <2>6, <2>7, <2>8, UntouchedIsCalm, GoesOnCalmly DEF Trashing, JobAt
<1> QED
  BY <1>3, <1>4 DEF TakeRequirement

LEMMA DescendToRequirementKeeps ==
  ASSUME LibraryInv, DescendToRequirement, UNCHANGED shelfVars PROVE LibraryInv'
<1>1. Untouched /\ JobAt("resolving") /\ Top.requires # <<>>
  BY DEF DescendToRequirement, Untouched, shelfVars, rowVars, fileVars
<1>2. /\ Shape /\ b0 \in Builds /\ b0 \in listed /\ tx.at = "none"
      /\ job.pack = NoPack /\ job.op \in {"install", "repair"} /\ job.stack # <<>>
      /\ Needed \in Requirements
  BY <1>1, Resolving
<1> DEFINE frame == Frame(Needed.project, IF Needed.pin = 0 THEN MaxVersion ELSE Needed.pin)
<1>3. CASE job' = Answer("failed")
  BY <1>1, <1>3, EndsUntouched DEF JobAt
<1>4. CASE job' = [job EXCEPT !.stack = <<frame>> \o @]
  <2>1. frame \in Frames
    <3>1. PICK p \in Projects, v \in Versions : frame = Frame(p, v)
      BY <1>2, ContentAssumption DEF Requirements, Versions
    <3>2. Requires[p] \in Seq([project : Projects, pin : 0..MaxVersion])
      BY ContentAssumption
    <3> QED
      BY <3>1, <3>2 DEF Frame, Frames
  <2> HIDE DEF frame
  <2> DEFINE stack == <<frame>> \o job.stack
  <2>2. stack \in Seq(Frames) /\ stack # <<>>
    BY <1>2, <2>1, ConsList DEF Shape, JobShape
  <2>3. job' = [job EXCEPT !.stack = stack]
    BY <1>2, <1>4 DEF Shape, JobShape, JobFields
  <2> HIDE DEF stack
  <2>4. /\ DOMAIN job' = JobFields /\ job'.at = job.at /\ job'.stack = stack
        /\ job'.op = job.op /\ job'.build = job.build /\ job'.pack = job.pack
        /\ job'.loader = job.loader /\ job'.commit = job.commit
    BY <1>2, <2>3 DEF Shape, JobShape, JobFields
  <2>5. JobShape'
    BY <1>2, <2>2, <2>4 DEF Shape, JobShape
  <2> QED
    BY <1>1, <1>2, <2>2, <2>4, <2>5, ResolvesOn DEF JobAt
<1> QED
  BY <1>3, <1>4 DEF DescendToRequirement, Fail

-----------------------------------------------------------------------------
(* Transactions over the content of a build.                               *)
ChangesOf(U) == [path : U, to : {Sound, Absent}]
UserChanges == ChangesOf(UserPaths)

LEMMA ChangesOfPaths ==
  ASSUME NEW U
  PROVE  /\ \A path \in U : Put(path) \in ChangesOf(U) /\ Take(path) \in ChangesOf(U)
         /\ \A x \in ChangesOf(U) : <<x>> \in Seq(ChangesOf(U))
         /\ \A x, y \in ChangesOf(U) : <<x, y>> \in Seq(ChangesOf(U))
         /\ <<>> \in Seq(ChangesOf(U))
         /\ \A s, t \in Seq(ChangesOf(U)) : s \o t \in Seq(ChangesOf(U))
<1>1. \A path \in U : Put(path) \in ChangesOf(U) /\ Take(path) \in ChangesOf(U)
  BY DEF Put, Take, ChangesOf, Absent, Sound
<1>2. \A s, t \in Seq(ChangesOf(U)) : s \o t \in Seq(ChangesOf(U))
  BY ConcatProperties
<1> QED
  BY <1>1, <1>2, EmptySeq

LEMMA ChangesOfContent ==
  /\ \A path \in UserPaths : Put(path) \in UserChanges /\ Take(path) \in UserChanges
  /\ \A x \in UserChanges : <<x>> \in Seq(UserChanges)
  /\ \A x, y \in UserChanges : <<x, y>> \in Seq(UserChanges)
  /\ <<>> \in Seq(UserChanges)
  /\ \A s, t \in Seq(UserChanges) : s \o t \in Seq(UserChanges)
  /\ Seq(UserChanges) \subseteq Seq(Changes)
<1>1. UserChanges \subseteq Changes
  BY PathsOfContent DEF UserChanges, ChangesOf, Changes
<1>2. Seq(UserChanges) \subseteq Seq(Changes)
  BY <1>1, SeqMonotonic
<1> QED
  BY <1>2, ChangesOfPaths DEF UserChanges

(* Everything but the operation and its transaction stays as it is.        *)
RestUntouched ==
  UNCHANGED <<listed, version, enabled, source, disk, torn, excused, place, loader,
              registered, active, profile, halfway, previews>>

LEMMA RestIsCalm ==
  ASSUME LibraryInv, RestUntouched
  PROVE  RowShape' /\ DiskShape' /\ KeepsForge /\ Calm
<1>1. Shape
  BY DEF LibraryInv
<1>2. RowShape'
  BY <1>1 DEF Shape, RowShape, RestUntouched
<1>3. DiskShape' /\ KeepsForge /\ Disturbs
  BY <1>1, FilesKept DEF RestUntouched
<1> QED
  BY <1>1, <1>2, <1>3, CalmIfKept DEF RestUntouched, Shape

LEMMA BeginsChanging ==
  ASSUME LibraryInv, RestUntouched,
         NEW b \in Builds, NEW changes \in Seq(UserChanges), BeginChanges(b, changes),
         ~JobAt("deletingRow"), ~JobAt("movingBack"),
         JobShape', job'.at = "changing", job'.build = b, PhaseInv',
         \/ b \in listed /\ job'.pack = NoPack
         \/ /\ JobAt("downloading") /\ job.build = b
            /\ job'.pack = job.pack /\ job'.loader = job.loader
  PROVE  LibraryInv'
<1>1. /\ TxShape' /\ tx'.at = "changing" /\ tx'.build = b
      /\ tx'.todo = changes /\ tx'.done = <<>>
  BY ChangesOfContent, TxBegins
<1>2. SwitchInv'
  BY DEF SwitchInv
<1>3. TxInv'
  <2>1. ASSUME NEW i \in 1..Len(changes) PROVE changes[i].path \in UserPaths
    <3>1. changes[i] \in UserChanges
      BY ElementOfSeq
    <3> QED
      BY <3>1 DEF UserChanges, ChangesOf
  <2>2. 1..Len(tx'.done) = {}
    BY <1>1, EmptySeq
  <2>3. b0' = b
    BY DEF b0
  <2> QED
    BY <1>1, <2>1, <2>2, <2>3 DEF TxInv, TxAt
<1>4. RowShape' /\ DiskShape' /\ KeepsForge /\ Calm
  BY RestIsCalm
<1>5. NextInv'
  <2>1. CASE b \in listed /\ job'.pack = NoPack
    BY <2>1 DEF NextInv, Carried, b0, RestUntouched
  <2>2. CASE /\ JobAt("downloading") /\ job.build = b
             /\ job'.pack = job.pack /\ job'.loader = job.loader
    <3>1. UNCHANGED <<listed, loader, place, registered>>
      BY DEF RestUntouched
    <3>2. b0 \in Builds
      BY <2>2 DEF b0
    <3> QED
      BY <1>4, <2>2, <3>1, <3>2, WorksOn DEF ContentPhases, JobAt
  <2> QED
    BY <2>1, <2>2
<1> QED
  BY <1>1, <1>2, <1>3, <1>4, <1>5, GoesOnCalmly DEF Trashing, JobAt

LEMMA UpdateOfContent ==
  ASSUME RowShape, b0 \in Builds, NEW p \in Projects, NEW v \in Versions
  PROVE  StaysOn(p) \in BOOLEAN /\ Update(p, v) \in Seq(ChangesOf(ContentPaths))
<1>1. StaysOn(p) \in BOOLEAN
  BY DEF StaysOn, RowShape, Installed
<1>2. ProjectPath(p, v, StaysOn(p)) \in ContentPaths
  BY <1>1, PathsOfContent
<1>3. Installed(b0, p) => RowPath(b0, p) \in ContentPaths
  BY RowPaths
<1>4. CASE Installed(b0, p) /\ RowName(b0, p) # FileName[<<p, v>>]
  BY <1>1, <1>2, <1>3, <1>4, ChangesOfPaths DEF Update
<1>5. CASE ~(Installed(b0, p) /\ RowName(b0, p) # FileName[<<p, v>>])
  BY <1>1, <1>2, <1>5, ChangesOfPaths DEF Update
<1> QED
  BY <1>1, <1>4, <1>5

LEMMA InstallTopKeeps ==
  ASSUME LibraryInv, InstallTop, UNCHANGED shelfVars PROVE LibraryInv'
<1>1. RestUntouched /\ JobAt("resolving")
  BY DEF InstallTop, RestUntouched, shelfVars, rowVars
<1>2. /\ Shape /\ b0 \in Builds /\ b0 \in listed /\ tx.at = "none"
      /\ job.pack = NoPack /\ job.op \in {"install", "repair"} /\ job.stack # <<>>
      /\ Top \in Frames
  BY <1>1, Resolving
<1>3. PICK p \in Projects, v \in Versions : p = Top.project /\ v = Top.version
  BY <1>2 DEF Frames
<1>4. StaysOn(p) \in BOOLEAN
  BY <1>2, <1>3 DEF StaysOn, Shape, RowShape, Installed
<1>5. CASE Fail /\ UNCHANGED tx
  <2>1. Untouched
    BY <1>1, <1>5 DEF RestUntouched, Untouched
  <2> QED
    BY <1>1, <1>5, <2>1, EndsUntouched DEF JobAt, Fail
<1>6. CASE /\ BeginChanges(b0, Update(p, v))
           /\ job' = [job EXCEPT !.at = "changing", !.commit = {<<p, v, StaysOn(p)>>}]
  <2>1. Update(p, v) \in Seq(UserChanges)
    <3>1. Update(p, v) \in Seq(ChangesOf(ContentPaths))
      BY <1>2, <1>3, UpdateOfContent DEF Shape
    <3>2. ChangesOf(ContentPaths) \subseteq UserChanges
      BY PathsOfContent DEF ChangesOf, UserChanges
    <3> QED
      BY <3>1, <3>2, SeqMonotonic
  <2> DEFINE row == <<p, v, StaysOn(p)>>
  <2>2. row \in Rows
    BY <1>3, <1>4, ContentAssumption DEF Rows, Versions
  <2>3. job' = [job EXCEPT !.at = "changing", !.commit = {row}]
    BY <1>6
  <2> HIDE DEF row
  <2>4. /\ DOMAIN job' = JobFields /\ job'.at = "changing" /\ job'.commit = {row}
        /\ job'.op = job.op /\ job'.build = job.build /\ job'.stack = job.stack
        /\ job'.pack = job.pack
    BY <1>2, <2>3 DEF Shape, JobShape, JobFields
  <2>5. JobShape'
    BY <1>2, <2>2, <2>4 DEF Shape, JobShape
  <2>6. PhaseInv'
    BY <1>1, <1>2, <2>4 DEF PhaseInv, JobAt, RestUntouched, NewPack, OnListed, OfPacks, b0
  <2>7. BeginChanges(b0, Update(p, v)) /\ job'.build = b0
    BY <1>6, <2>4 DEF b0
  <2> QED
    BY <1>1, <1>2, <2>1, <2>4, <2>5, <2>6, <2>7, BeginsChanging DEF JobAt
<1> QED
  BY <1>3, <1>5, <1>6 DEF InstallTop

-----------------------------------------------------------------------------
(* Operations that begin on a build with a row, or copy one.               *)
LEMMA Idle ==
  ASSUME LibraryInv, JobAt("idle")
  PROVE  /\ Shape /\ tx.at = "none" /\ listed \subseteq Builds
         /\ \A b \in listed : ~Trashing(b)
BY DEF LibraryInv, TxInv, JobAt, TxAt, Shape, RowShape, Trashing

LEMMA StartsCalmly ==
  ASSUME LibraryInv, JobAt("idle"), Untouched, JobShape', PhaseInv', SwitchInv',
         job'.at \notin {"idle", "changing", "forging", "downloading", "inserting",
                         "insertingCopy", "copyingRows"},
         \/ job'.build \in listed /\ job'.at # "copying"
         \/ job'.at = "copying" /\ job'.from \in listed /\ job'.build \notin listed
  PROVE  LibraryInv'
<1>1. Shape /\ tx.at = "none" /\ \A b \in listed : ~Trashing(b)
  BY Idle
<1>2. TxInv'
  BY <1>1 DEF TxInv, TxAt, Untouched
<1>3. NextInv'
  BY DEF NextInv, Carried, Untouched, b0
<1> QED
  BY <1>1, <1>2, <1>3, UntouchedIsCalm, GoesOnCalmly

LEMMA FrameIsOne ==
  ASSUME NEW p \in Projects, NEW v \in Versions
  PROVE  Frame(p, v) \in Frames
<1>1. Requires[p] \in Seq([project : Projects, pin : 0..MaxVersion])
  BY ContentAssumption
<1> QED
  BY <1>1 DEF Frame, Frames

LEMMA InstallProjectKeeps ==
  ASSUME LibraryInv, NEW b \in Builds, InstallProject(b), UNCHANGED shelfVars
  PROVE  LibraryInv'
<1>1. Untouched /\ JobAt("idle") /\ b \in listed
  BY DEF InstallProject, Call, Untouched, shelfVars, rowVars, fileVars
<1>2. PICK p \in Projects, v \in Versions :
        job' = [Start("install", b) EXCEPT !.at = "resolving", !.stack = <<Frame(p, v)>>]
  BY DEF InstallProject
<1> DEFINE r == Start("install", b)
           stack == <<Frame(p, v)>>
<1>3. DOMAIN r = JobFields /\ r.op = "install" /\ r.build = b /\ r.commit = {}
      /\ r.pack = NoPack
  BY Starts
<1>4. stack \in Seq(Frames) /\ stack # <<>>
  BY FrameIsOne
<1> HIDE DEF r, stack
<1>5. /\ DOMAIN job' = JobFields /\ job'.at = "resolving" /\ job'.stack = stack
      /\ job'.op = "install" /\ job'.build = b /\ job'.commit = {} /\ job'.pack = NoPack
  BY <1>2, <1>3 DEF JobFields, r, stack
<1>6. JobShape'
  BY <1>4, <1>5 DEF JobShape
<1>7. PhaseInv' /\ SwitchInv'
  BY <1>1, <1>4, <1>5 DEF PhaseInv, SwitchInv, JobAt, NewPack, OnListed, OfPacks, b0, Untouched
<1> QED
  BY <1>1, <1>5, <1>6, <1>7, StartsCalmly

LEMMA ToggleKeeps ==
  ASSUME LibraryInv, NEW b \in Builds, Toggle(b), UNCHANGED shelfVars
  PROVE  LibraryInv'
<1>1. Untouched /\ JobAt("idle") /\ b \in listed
  BY DEF Toggle, Call, Untouched, shelfVars, rowVars, fileVars
<1>2. PICK p \in Projects :
        /\ Installed(b, p)
        /\ job' = [Start("toggle", b) EXCEPT !.at = "renaming",
                     !.commit = {<<p, version[b][p], ~enabled[b][p]>>}]
  BY DEF Toggle
<1>3. PICK on \in BOOLEAN : on = ~enabled[b][p]
  OBVIOUS
<1> DEFINE r == Start("toggle", b)
           row == <<p, version[b][p], on>>
<1>4. DOMAIN r = JobFields /\ r.op = "toggle" /\ r.build = b /\ r.stack = <<>>
      /\ r.pack = NoPack
  BY Starts
<1>5. row \in Rows
  BY Idle, <1>1 DEF Rows, Shape, RowShape
<1>6. job' = [r EXCEPT !.at = "renaming", !.commit = {row}]
  BY <1>2, <1>3
<1>7. SwitchInv'
  <2>1. job'.commit = {row} /\ job'.build = b
    BY <1>4, <1>6 DEF JobFields
  <2> QED
    BY <1>1, <1>2, <2>1 DEF SwitchInv, Untouched, Installed, b0
<1> HIDE DEF r, row
<1>8. /\ DOMAIN job' = JobFields /\ job'.at = "renaming" /\ job'.stack = <<>>
      /\ job'.op = "toggle" /\ job'.build = b /\ job'.commit = {row} /\ job'.pack = NoPack
  BY <1>4, <1>6 DEF JobFields
<1>9. JobShape'
  BY <1>5, <1>8, NothingSpecial DEF JobShape
<1>10. PhaseInv'
  BY <1>1, <1>8 DEF PhaseInv, JobAt, NewPack, OnListed, OfPacks, b0, Untouched
<1> QED
  BY <1>1, <1>7, <1>8, <1>9, <1>10, StartsCalmly

LEMMA InstallPackKeeps ==
  ASSUME LibraryInv, NEW b \in Builds, InstallPack(b), UNCHANGED shelfVars
  PROVE  LibraryInv'
<1>1. Untouched /\ JobAt("idle") /\ b \in listed
  BY DEF InstallPack, Call, Untouched, shelfVars, rowVars, fileVars
<1>2. PICK k \in Packs : job' = [Start("pack", b) EXCEPT !.at = "preparing", !.pack = k]
  BY DEF InstallPack
<1> DEFINE r == Start("pack", b)
<1>3. DOMAIN r = JobFields /\ r.op = "pack" /\ r.build = b /\ r.stack = <<>> /\ r.commit = {}
  BY Starts
<1> HIDE DEF r
<1>4. /\ DOMAIN job' = JobFields /\ job'.at = "preparing" /\ job'.stack = <<>>
      /\ job'.op = "pack" /\ job'.build = b /\ job'.commit = {} /\ job'.pack = k
  BY <1>2, <1>3 DEF JobFields, r
<1>5. JobShape'
  BY <1>4, NothingSpecial DEF JobShape
<1>6. PhaseInv' /\ SwitchInv'
  BY <1>1, <1>4 DEF PhaseInv, SwitchInv, JobAt, NewPack, OnListed, OfPacks, b0, Untouched
<1> QED
  BY <1>1, <1>4, <1>5, <1>6, StartsCalmly

LEMMA SelectBuildKeeps == ASSUME LibraryInv, NEW b \in Builds, SelectBuild(b) PROVE LibraryInv'
<1>1. Untouched /\ JobAt("idle") /\ b \in listed
  BY DEF SelectBuild, Call, Untouched, shelfVars, rowVars, fileVars
<1> DEFINE r == Start("select", b)
<1>2. DOMAIN r = JobFields /\ r.op = "select" /\ r.build = b /\ r.stack = <<>>
      /\ r.commit = {} /\ r.pack = NoPack
  BY Starts
<1>3. job' = [r EXCEPT !.at = "selecting"]
  BY DEF SelectBuild
<1> HIDE DEF r
<1>4. /\ DOMAIN job' = JobFields /\ job'.at = "selecting" /\ job'.stack = <<>>
      /\ job'.op = "select" /\ job'.build = b /\ job'.commit = {} /\ job'.pack = NoPack
  BY <1>2, <1>3 DEF JobFields
<1>5. JobShape'
  BY <1>4, NothingSpecial DEF JobShape
<1>6. PhaseInv' /\ SwitchInv'
  BY <1>1, <1>4 DEF PhaseInv, SwitchInv, JobAt, NewPack, OnListed, OfPacks, b0, Untouched
<1> QED
  BY <1>1, <1>4, <1>5, <1>6, StartsCalmly

LEMMA DeleteBuildKeeps == ASSUME LibraryInv, NEW b \in Builds, DeleteBuild(b) PROVE LibraryInv'
<1>1. Untouched /\ JobAt("idle") /\ b \in listed
  BY DEF DeleteBuild, Call, Untouched, shelfVars, rowVars, fileVars
<1> DEFINE r == Start("delete", b)
<1>2. DOMAIN r = JobFields /\ r.op = "delete" /\ r.build = b /\ r.stack = <<>>
      /\ r.commit = {} /\ r.pack = NoPack
  BY Starts
<1>3. job' = [r EXCEPT !.at = "deleting"]
  BY DEF DeleteBuild
<1> HIDE DEF r
<1>4. /\ DOMAIN job' = JobFields /\ job'.at = "deleting" /\ job'.stack = <<>>
      /\ job'.op = "delete" /\ job'.build = b /\ job'.commit = {} /\ job'.pack = NoPack
  BY <1>2, <1>3 DEF JobFields
<1>5. JobShape'
  BY <1>4, NothingSpecial DEF JobShape
<1>6. PhaseInv' /\ SwitchInv'
  BY <1>1, <1>4 DEF PhaseInv, SwitchInv, JobAt, NewPack, OnListed, OfPacks, b0, Untouched
<1> QED
  BY <1>1, <1>4, <1>5, <1>6, StartsCalmly

LEMMA CopyBuildKeeps == ASSUME LibraryInv, NEW b \in Builds, CopyBuild(b) PROVE LibraryInv'
<1>1. Untouched /\ JobAt("idle") /\ b \notin listed
  BY DEF CopyBuild, Call, IsNew, Untouched, shelfVars, rowVars, fileVars
<1>2. PICK from \in listed : job' = [Start("copy", b) EXCEPT !.at = "copying", !.from = from]
  BY DEF CopyBuild
<1> DEFINE r == Start("copy", b)
<1>3. DOMAIN r = JobFields /\ r.op = "copy" /\ r.build = b /\ r.stack = <<>>
      /\ r.commit = {} /\ r.pack = NoPack
  BY Starts
<1> HIDE DEF r
<1>4. /\ DOMAIN job' = JobFields /\ job'.at = "copying" /\ job'.stack = <<>>
      /\ job'.op = "copy" /\ job'.build = b /\ job'.commit = {} /\ job'.pack = NoPack
      /\ job'.from = from
  BY <1>2, <1>3 DEF JobFields, r
<1>5. JobShape'
  BY <1>4, NothingSpecial DEF JobShape
<1>6. PhaseInv' /\ SwitchInv'
  BY <1>1, <1>4 DEF PhaseInv, SwitchInv, JobAt, NewPack, OnListed, OfPacks, b0, Untouched
<1> QED
  BY <1>1, <1>4, <1>5, <1>6, StartsCalmly

-----------------------------------------------------------------------------
(* Operations that begin with the change of one file, a repair, and what   *)
(* the user does between two operations.                                   *)
LEMMA RemoveContentKeeps ==
  ASSUME LibraryInv, NEW b \in Builds, RemoveContent(b), UNCHANGED shelfVars
  PROVE  LibraryInv'
<1>1. RestUntouched /\ JobAt("idle") /\ b \in listed
  BY DEF RemoveContent, Call, RestUntouched, shelfVars, rowVars
<1>2. PICK p \in Projects :
        /\ Installed(b, p)
        /\ BeginChanges(b, <<Take(RowPath(b, p))>>)
        /\ job' = [Start("remove", b) EXCEPT !.at = "changing", !.commit = {<<p, 0, TRUE>>}]
  BY DEF RemoveContent
<1>3. <<Take(RowPath(b, p))>> \in Seq(UserChanges)
  BY <1>1, <1>2, Idle, RowPaths, PathsOfContent, ChangesOfContent DEF Shape
<1> DEFINE r == Start("remove", b)
           row == <<p, 0, TRUE>>
<1>4. DOMAIN r = JobFields /\ r.op = "remove" /\ r.build = b /\ r.stack = <<>>
      /\ r.pack = NoPack
  BY Starts
<1>5. row \in Rows
  <2>1. p \in Projects /\ 0 \in 0..MaxVersion /\ TRUE \in BOOLEAN
    BY <1>2, ContentAssumption
  <2> QED
    BY <2>1 DEF Rows
<1> HIDE DEF r, row
<1>6. /\ DOMAIN job' = JobFields /\ job'.at = "changing" /\ job'.stack = <<>>
      /\ job'.op = "remove" /\ job'.build = b /\ job'.commit = {row} /\ job'.pack = NoPack
  BY <1>2, <1>4 DEF JobFields, r, row
<1>7. JobShape'
  BY <1>5, <1>6, NothingSpecial DEF JobShape
<1>8. PhaseInv'
  BY <1>1, <1>6 DEF PhaseInv, JobAt, NewPack, OnListed, OfPacks, b0, RestUntouched
<1> QED
  BY <1>1, <1>2, <1>3, <1>6, <1>7, <1>8, BeginsChanging DEF JobAt

LEMMA ImportLocalKeeps ==
  ASSUME LibraryInv, NEW b \in Builds, ImportLocal(b), UNCHANGED shelfVars
  PROVE  LibraryInv'
<1>1. RestUntouched /\ JobAt("idle") /\ b \in listed
  BY DEF ImportLocal, Call, RestUntouched, shelfVars, rowVars
<1>2. PICK p \in Locals, on \in BOOLEAN :
        /\ on = (~Installed(b, p) \/ enabled[b][p])
        /\ BeginChanges(b, <<Put(ProjectPath(p, 1, on))>>)
        /\ job' = [Start("import", b) EXCEPT !.at = "changing", !.commit = {<<p, 1, on>>}]
  BY DEF ImportLocal
<1>3. p \in Projects /\ on \in BOOLEAN /\ 1 \in Versions
  BY <1>2, ContentAssumption DEF Versions
<1>4. <<Put(ProjectPath(p, 1, on))>> \in Seq(UserChanges)
  BY <1>3, PathsOfContent, ChangesOfContent
<1> DEFINE r == Start("import", b)
           row == <<p, 1, on>>
<1>5. DOMAIN r = JobFields /\ r.op = "import" /\ r.build = b /\ r.stack = <<>>
      /\ r.pack = NoPack
  BY Starts
<1>6. row \in Rows
  BY <1>3, ContentAssumption DEF Rows, Versions
<1> HIDE DEF r, row
<1>7. /\ DOMAIN job' = JobFields /\ job'.at = "changing" /\ job'.stack = <<>>
      /\ job'.op = "import" /\ job'.build = b /\ job'.commit = {row} /\ job'.pack = NoPack
  BY <1>2, <1>5 DEF JobFields, r, row
<1>8. JobShape'
  BY <1>6, <1>7, NothingSpecial DEF JobShape
<1>9. PhaseInv'
  BY <1>1, <1>7 DEF PhaseInv, JobAt, NewPack, OnListed, OfPacks, b0, RestUntouched
<1> QED
  BY <1>1, <1>2, <1>4, <1>7, <1>8, <1>9, BeginsChanging DEF JobAt

LEMMA RepairBuildKeeps ==
  ASSUME LibraryInv, NEW b \in Builds, RepairBuild(b), UNCHANGED shelfVars
  PROVE  LibraryInv'
<1>1. Untouched /\ JobAt("idle") /\ b \in listed
  BY DEF RepairBuild, Call, Untouched, shelfVars, rowVars, fileVars
<1> DEFINE items == {p \in Projects \ Locals : Installed(b, p)}
           frame(p) == [project |-> p, version |-> version[b][p],
                        requires |-> IF p \in CurseForge THEN Requires[p] ELSE <<>>]
           frames == {frame(p) : p \in items}
           stack == IF source[b] = NoPack THEN SetToSeq(frames) ELSE <<>>
           r == Start("repair", b)
<1>2. job' = [r EXCEPT !.repairing = TRUE, !.at = "preparing",
                       !.pack = source[b], !.stack = stack]
  BY DEF RepairBuild
<1>3. Shape
  BY <1>1, Idle
<1>4. frames \subseteq Frames
  <2> SUFFICES ASSUME NEW p \in items PROVE frame(p) \in Frames
    OBVIOUS
  <2>1. version[b][p] \in Versions
    BY <1>3, RowPaths DEF Shape
  <2>2. /\ Requires[p] \in Seq([project : Projects, pin : 0..MaxVersion])
        /\ <<>> \in Seq([project : Projects, pin : 0..MaxVersion])
    BY ContentAssumption, EmptySeq
  <2> QED
    BY <2>1, <2>2 DEF Frames
<1>5. IsFiniteSet(frames)
  <2> DEFINE f == [p \in items |-> frame(p)]
  <2>1. f \in Surjection(items, frames)
    BY DEF Surjection
  <2>2. IsFiniteSet(items)
    BY ContentAssumption, FS_Subset
  <2> QED
    BY <2>1, <2>2, FS_Surjection
<1> HIDE DEF frames
<1>6. stack \in Seq(Frames)
  <2>1. SetToSeq(frames) \in Seq(frames)
    BY <1>5, ListsOfSets
  <2> QED
    BY <1>4, <2>1, SeqMonotonic, NothingSpecial
<1>7. source[b] \in Packs \cup {NoPack}
  BY <1>3 DEF Shape, RowShape
<1>8. DOMAIN r = JobFields /\ r.op = "repair" /\ r.build = b /\ r.commit = {}
  BY Starts
<1>9. source[b] # NoPack => stack = <<>>
  OBVIOUS
<1> HIDE DEF r, stack
<1>10. /\ DOMAIN job' = JobFields /\ job'.at = "preparing" /\ job'.stack = stack
      /\ job'.op = "repair" /\ job'.build = b /\ job'.commit = {} /\ job'.pack = source[b]
  <2> DEFINE r1 == [r EXCEPT !.repairing = TRUE]
             r2 == [r1 EXCEPT !.at = "preparing"]
             r3 == [r2 EXCEPT !.pack = source[b]]
  <2>1. DOMAIN r1 = JobFields /\ r1.op = "repair" /\ r1.build = b /\ r1.commit = {}
    BY <1>8 DEF JobFields
  <2>2. job' = [[[r1 EXCEPT !.at = "preparing"] EXCEPT !.pack = source[b]]
                 EXCEPT !.stack = stack]
    BY <1>2
  <2> HIDE DEF r1
  <2> QED
    BY <2>1, <2>2 DEF JobFields
<1>11. JobShape'
  BY <1>6, <1>7, <1>10 DEF JobShape
<1>12. PhaseInv' /\ SwitchInv'
  BY <1>1, <1>10, <1>9 DEF PhaseInv, SwitchInv, JobAt, NewPack, OnListed, OfPacks, b0, Untouched
<1> QED
  BY <1>1, <1>10, <1>11, <1>12, StartsCalmly

LEMMA PreviewPackKeeps == ASSUME LibraryInv, PreviewPack PROVE LibraryInv'
<1>1. /\ JobAt("idle") /\ UNCHANGED job
      /\ UNCHANGED <<active, profile, place, loader, registered, halfway, listed, version,
                     enabled, source, excused, disk, tx, torn>>
  BY DEF PreviewPack, contentVars, fileVars
<1>2. Shape /\ tx.at = "none" /\ \A b \in listed : ~Trashing(b)
  BY <1>1, Idle
<1>3. JobShape' /\ TxShape'
  BY <1>1, <1>2 DEF Shape, JobShape, TxShape
<1>4. RowShape'
  BY <1>1, <1>2 DEF PreviewPack, Shape, RowShape
<1>5. DiskShape' /\ KeepsForge /\ Disturbs
  BY <1>1, <1>2, FilesKept
<1>6. Calm
  BY <1>1, <1>2, <1>5, CalmIfKept DEF Shape
<1> QED
  BY <1>1, <1>2, <1>3, <1>4, <1>5, <1>6, EndsCalmly DEF JobAt

LEMMA EditConfigKeeps ==
  ASSUME LibraryInv, NEW b \in Builds, EditConfig(b), UNCHANGED shelfVars
  PROVE  LibraryInv'
<1>1. /\ JobAt("idle") /\ disk' = [disk EXCEPT ![b][ConfigPath] = Edited]
      /\ UNCHANGED <<job, active, profile, place, loader, registered, previews, halfway,
                     listed, version, enabled, source, excused, tx, torn>>
  BY DEF EditConfig, contentVars, shelfVars
<1>2. Shape /\ tx.at = "none" /\ \A x \in listed : ~Trashing(x)
  BY <1>1, Idle
<1>3. JobShape' /\ TxShape' /\ RowShape'
  BY <1>1, <1>2 DEF Shape, JobShape, TxShape, RowShape
<1>4. Touches(b, UserPaths)
  BY <1>1, <1>2, PathsOfContent, WriteTouches DEF Shape, Contents
<1>5. TearsAtMost
  BY <1>1, <1>2 DEF TearsAtMost, Shape, DiskShape
<1>6. DiskShape' /\ KeepsForge /\ Disturbs
  BY <1>1, <1>2, <1>4, <1>5, UserTouches DEF Shape
<1>7. Calm
  BY <1>1, <1>2, <1>6, CalmIfKept DEF Shape
<1> QED
  BY <1>1, <1>2, <1>3, <1>6, <1>7, EndsCalmly DEF JobAt

LEMMA TakeFileKeeps ==
  ASSUME LibraryInv, NEW b \in Builds, TakeFile(b), UNCHANGED shelfVars
  PROVE  LibraryInv'
<1>1. /\ JobAt("idle") /\ excused' = [excused EXCEPT ![b] = TRUE] /\ job' = NoJob
      /\ UNCHANGED <<active, profile, place, loader, registered, previews, halfway,
                     listed, version, enabled, source, tx, torn>>
  BY DEF TakeFile, rowVars, shelfVars
<1>2. Shape /\ tx.at = "none" /\ \A x \in listed : ~Trashing(x)
  BY <1>1, Idle
<1>3. TxShape' /\ RowShape'
  BY <1>1, <1>2 DEF Shape, TxShape, RowShape
<1>4. JobShape' /\ job'.at = "idle"
  BY <1>1, <1>2, ComesToAnEnd DEF Shape
<1>5. PICK path \in ContentPaths : disk' = [disk EXCEPT ![b][path] = Absent]
  BY DEF TakeFile
<1>6. Touches(b, UserPaths)
  BY <1>2, <1>5, PathsOfContent, WriteTouches DEF Shape, Contents
<1>7. KeepsForge
  BY <1>6, PathsOfContent DEF Touches, KeepsForge
<1>8. DiskShape' /\ Disturbs
  BY <1>1, <1>2, <1>6 DEF Shape, RowShape, DiskShape, Touches, Disturbs, Disturbed
<1>9. Calm
  BY <1>1, <1>2, <1>7, <1>8, CalmIfKept DEF Shape
<1> QED
  BY <1>1, <1>2, <1>3, <1>4, <1>8, <1>9, EndsCalmly

-----------------------------------------------------------------------------
(* Directories of builds without a row.                                    *)
LEMMA MadeDirectory ==
  ASSUME LibraryInv, NEW b \in Builds, b \notin listed, MakeDirectory(b),
         UNCHANGED <<listed, loader, registered, active, profile, halfway, disk, torn, excused>>
  PROVE  DiskShape' /\ Calm /\ place'[b] = "instances"
BY DEF LibraryInv, Shape, RowShape, DiskShape, MakeDirectory, Calm, Disturbs, Disturbed,
       ForgeThere, Has

LEMMA RemovedDirectory ==
  ASSUME LibraryInv, NEW b \in Builds, b \notin listed, RemoveDirectory(b),
         UNCHANGED <<listed, loader, registered, active, profile, halfway>>
  PROVE  DiskShape' /\ Calm
<1>1. DiskShape /\ RowShape
  BY DEF LibraryInv, Shape
<1>2. disk' \in [Builds -> [Paths -> Contents]]
  BY <1>1 DEF DiskShape, RemoveDirectory, Contents
<1>3. DiskShape'
  BY <1>1, <1>2 DEF DiskShape, RemoveDirectory
<1>4. \A x \in listed : /\ x \in Builds /\ place'[x] = place[x] /\ disk'[x] = disk[x]
                        /\ torn'[x] = torn[x] /\ excused'[x] = excused[x]
  BY <1>1 DEF DiskShape, RowShape, RemoveDirectory
<1> QED
  BY <1>3, <1>4 DEF Calm, Disturbs, Disturbed, ForgeThere, Has

(* A build is made by an operation that has just begun.                    *)
LEMMA StartsWithDirectory ==
  ASSUME LibraryInv, JobAt("idle"), NEW b \in Builds, b \notin listed, MakeDirectory(b),
         UNCHANGED <<listed, version, enabled, source, disk, torn, excused, tx, loader,
                     registered, active, profile, halfway>>,
         previews' \subseteq previews,
         JobShape', job'.at = "preparing", job'.build = b, job'.stack = <<>>,
         \/ job'.op = "create" /\ job'.pack = NoPack
         \/ job'.op \in {"newPack", "confirmed"} /\ job'.pack # NoPack
  PROVE  LibraryInv'
<1>1. Shape /\ tx.at = "none" /\ \A x \in listed : ~Trashing(x)
  BY Idle
<1>2. DiskShape' /\ Calm /\ place'[b] = "instances"
  BY MadeDirectory
<1>3. TxShape' /\ RowShape'
  BY <1>1 DEF Shape, TxShape, RowShape
<1>4. b0' = b
  BY DEF b0
<1>5. PhaseInv' /\ SwitchInv' /\ TxInv'
  BY <1>1, <1>4 DEF PhaseInv, SwitchInv, TxInv, JobAt, TxAt, NewPack, OnListed, OfPacks
<1>6. NextInv'
  BY <1>2, <1>4 DEF NextInv, Carried
<1> QED
  BY <1>1, <1>2, <1>3, <1>5, <1>6, GoesOnCalmly

LEMMA CreateBuildKeeps == ASSUME LibraryInv, NEW b \in Builds, CreateBuild(b) PROVE LibraryInv'
<1>1. /\ JobAt("idle") /\ b \notin listed /\ MakeDirectory(b) /\ previews' = previews
      /\ UNCHANGED <<listed, version, enabled, source, disk, torn, excused, tx, loader,
                     registered, active, profile, halfway>>
  BY DEF CreateBuild, Call, IsNew, rowVars, fileVars
<1>2. PICK l \in Loaders : job' = [Start("create", b) EXCEPT !.at = "preparing", !.loader = l]
  BY DEF CreateBuild
<1> DEFINE r == Start("create", b)
<1>3. DOMAIN r = JobFields /\ r.op = "create" /\ r.build = b /\ r.stack = <<>>
      /\ r.commit = {} /\ r.pack = NoPack
  BY Starts
<1> HIDE DEF r
<1>4. /\ DOMAIN job' = JobFields /\ job'.at = "preparing" /\ job'.stack = <<>>
      /\ job'.op = "create" /\ job'.build = b /\ job'.commit = {} /\ job'.pack = NoPack
  BY <1>2, <1>3 DEF JobFields, r
<1>5. JobShape'
  BY <1>4, NothingSpecial DEF JobShape
<1> QED
  BY <1>1, <1>4, <1>5, StartsWithDirectory

LEMMA InstallNewPackKeeps ==
  ASSUME LibraryInv, NEW b \in Builds, InstallNewPack(b) PROVE LibraryInv'
<1>1. /\ JobAt("idle") /\ b \notin listed /\ MakeDirectory(b) /\ previews' = previews
      /\ UNCHANGED <<listed, version, enabled, source, disk, torn, excused, tx, loader,
                     registered, active, profile, halfway>>
  BY DEF InstallNewPack, Call, IsNew, rowVars, fileVars
<1>2. PICK k \in Packs : job' = [Start("newPack", b) EXCEPT !.at = "preparing", !.pack = k]
  BY DEF InstallNewPack
<1> DEFINE r == Start("newPack", b)
<1>3. DOMAIN r = JobFields /\ r.op = "newPack" /\ r.build = b /\ r.stack = <<>>
      /\ r.commit = {}
  BY Starts
<1> HIDE DEF r
<1>4. /\ DOMAIN job' = JobFields /\ job'.at = "preparing" /\ job'.stack = <<>>
      /\ job'.op = "newPack" /\ job'.build = b /\ job'.commit = {} /\ job'.pack = k
  BY <1>2, <1>3 DEF JobFields, r
<1>5. JobShape' /\ job'.pack # NoPack
  BY <1>2, <1>4, NothingSpecial, ContentAssumption DEF JobShape
<1> QED
  BY <1>1, <1>4, <1>5, StartsWithDirectory

LEMMA ConfirmPackKeeps == ASSUME LibraryInv, NEW b \in Builds, ConfirmPack(b) PROVE LibraryInv'
<1>1. /\ JobAt("idle") /\ b \notin listed /\ previews' \subseteq previews
      /\ UNCHANGED <<listed, version, enabled, source, disk, torn, excused, tx, loader,
                     registered, active, profile, halfway>>
  BY DEF ConfirmPack, Call, IsNew, rowVars, fileVars
<1>2. PICK k \in previews :
        \/ /\ MakeDirectory(b)
           /\ job' = [Start("confirmed", b) EXCEPT !.at = "preparing", !.pack = k]
        \/ job' = Answer("expired") /\ UNCHANGED place
  BY DEF ConfirmPack
<1>3. Shape /\ tx.at = "none" /\ \A x \in listed : ~Trashing(x)
  BY <1>1, Idle
<1>4. CASE job' = Answer("expired") /\ UNCHANGED place
  <2>1. JobShape' /\ job'.at = "idle"
    BY <1>3, <1>4, ComesToAnEnd DEF Shape
  <2>2. TxShape' /\ RowShape'
    BY <1>1, <1>3 DEF Shape, TxShape, RowShape
  <2>3. DiskShape' /\ KeepsForge /\ Disturbs
    BY <1>1, <1>3, <1>4, FilesKept
  <2>4. Calm
    BY <1>1, <1>3, <1>4, <2>3, CalmIfKept DEF Shape
  <2> QED
    BY <1>1, <1>3, <2>1, <2>2, <2>3, <2>4, EndsCalmly
<1>5. CASE /\ MakeDirectory(b)
           /\ job' = [Start("confirmed", b) EXCEPT !.at = "preparing", !.pack = k]
  <2> DEFINE r == Start("confirmed", b)
  <2>1. DOMAIN r = JobFields /\ r.op = "confirmed" /\ r.build = b /\ r.stack = <<>>
        /\ r.commit = {}
    BY Starts
  <2> HIDE DEF r
  <2>2. /\ DOMAIN job' = JobFields /\ job'.at = "preparing" /\ job'.stack = <<>>
        /\ job'.op = "confirmed" /\ job'.build = b /\ job'.commit = {} /\ job'.pack = k
    BY <1>5, <2>1 DEF JobFields, r
  <2>3. k \in Packs
    BY <1>2, <1>3 DEF Shape, RowShape
  <2>4. JobShape' /\ job'.pack # NoPack
    BY <2>2, <2>3, NothingSpecial, ContentAssumption DEF JobShape
  <2> QED
    BY <1>1, <1>5, <2>2, <2>4, StartsWithDirectory
<1> QED
  BY <1>2, <1>4, <1>5

-----------------------------------------------------------------------------
(* Steps of an operation on the content of its build.                      *)
ShelfUntouched ==
  UNCHANGED <<listed, excused, place, loader, registered, active, profile, halfway>>

LEMMA ContentIsCalm ==
  ASSUME LibraryInv, ShelfUntouched, Touches(b0, UserPaths), TearsAtMost
  PROVE  DiskShape' /\ KeepsForge /\ Calm
<1>1. DiskShape /\ RowShape
  BY DEF LibraryInv, Shape
<1>2. DiskShape' /\ KeepsForge /\ Disturbs
  BY <1>1, UserTouches DEF ShelfUntouched
<1> QED
  BY <1>1, <1>2, CalmIfKept DEF ShelfUntouched

LEMMA EndsInContent ==
  ASSUME LibraryInv, ShelfUntouched, Touches(b0, UserPaths), TearsAtMost,
         ~JobAt("deletingRow"), ~JobAt("movingBack"),
         JobShape', job'.at = "idle", TxShape', tx'.at = "none", RowShape'
  PROVE  LibraryInv'
BY ContentIsCalm, EndsCalmly DEF Trashing, JobAt

LEMMA GoesOnInContent ==
  ASSUME LibraryInv, ShelfUntouched, Touches(b0, UserPaths), TearsAtMost,
         job.at \in ContentPhases, b0 \in Builds, b0 \in listed \/ JobAt("changing"),
         job'.at \in ContentPhases, job'.build = job.build, job'.pack = job.pack,
         job'.loader = job.loader,
         job'.at = "changing" => job.pack = NoPack \/ JobAt("changing"),
         JobShape', TxShape', RowShape', PhaseInv', SwitchInv', TxInv'
  PROVE  LibraryInv'
<1>1. DiskShape' /\ KeepsForge /\ Calm
  BY ContentIsCalm
<1>2. NextInv'
  BY <1>1, WorksOn DEF ShelfUntouched, ContentPhases, JobAt
<1> QED
  BY <1>1, <1>2, GoesOnCalmly DEF Trashing, JobAt, ContentPhases

(* Rows are written as the changes say.                                    *)
LEMMA RecordKeeps ==
  ASSUME Shape, NEW b \in Builds, NEW changes \in SUBSET Rows, Record(b, changes)
  PROVE  /\ version' \in [Builds -> [Projects -> 0..MaxVersion]]
         /\ enabled' \in [Builds -> [Projects -> BOOLEAN]]
         /\ UNCHANGED <<listed, source, previews>> => RowShape'
<1>1. RowShape
  BY DEF Shape
<1>2. ASSUME NEW p \in Projects, \E c \in changes : c[1] = p
      PROVE  /\ (CHOOSE c \in changes : c[1] = p)[2] \in 0..MaxVersion
             /\ (CHOOSE c \in changes : c[1] = p)[3] \in BOOLEAN
  <2>1. (CHOOSE c \in changes : c[1] = p) \in Rows
    BY <1>2
  <2> QED
    BY <2>1 DEF Rows
<1>3. version' \in [Builds -> [Projects -> 0..MaxVersion]]
  BY <1>1, <1>2 DEF Record, RowShape
<1>4. enabled' \in [Builds -> [Projects -> BOOLEAN]]
  BY <1>1, <1>2 DEF Record, RowShape
<1> QED
  BY <1>1, <1>3, <1>4 DEF RowShape

-----------------------------------------------------------------------------
(* Switching an item off and on.                                           *)
LEMMA Switched ==
  ASSUME LibraryInv, Switching
  PROVE  /\ Shape /\ b0 \in Builds /\ b0 \in listed /\ tx.at = "none"
         /\ job.op \in {"install", "repair", "toggle"} /\ job.pack = NoPack
         /\ OldPath \in ContentPaths /\ NewPath \in ContentPaths
         /\ ~JobAt("idle") /\ ~JobAt("deletingRow") /\ ~JobAt("movingBack")
<1>1. /\ Shape /\ b0 \in Builds /\ b0 \in listed /\ tx.at = "none"
      /\ job.op \in {"install", "repair", "toggle"} /\ job.pack = NoPack
      /\ ~JobAt("idle") /\ ~JobAt("deletingRow") /\ ~JobAt("movingBack")
  BY DEF LibraryInv, PhaseInv, TxInv, JobAt, TxAt, OnListed, Switching
<1>2. PICK p \in Projects, on \in BOOLEAN :
        Installed(b0, p) /\ job.commit = {<<p, version[b0][p], on>>}
  BY DEF LibraryInv, SwitchInv, Switching
<1>3. Toggled = <<p, version[b0][p], on>>
  BY <1>2 DEF Toggled
<1>4. version[b0][p] \in Versions /\ RowPath(b0, p) \in ContentPaths
  BY <1>1, <1>2, RowPaths DEF Shape
<1>5. OldPath \in ContentPaths /\ NewPath \in ContentPaths
  BY <1>2, <1>3, <1>4, PathsOfContent DEF OldPath, NewPath
<1> QED
  BY <1>1, <1>5

LEMMA MovedFile ==
  ASSUME Shape, b0 \in Builds, NEW from \in ContentPaths, NEW to \in ContentPaths,
         Move(from, to), NEW U, ContentPaths \subseteq U
  PROVE  Touches(b0, U)
<1>1. PICK b \in Builds : b = b0
  OBVIOUS
<1>2. from \in Paths /\ to \in Paths /\ from \in U /\ to \in U
  BY ContentAssumption
<1>3. disk[b][from] \in Contents
  BY <1>2 DEF Shape, DiskShape
<1> DEFINE there == [disk EXCEPT ![b][to] = disk[b][from]]
<1>4. disk' = [there EXCEPT ![b][from] = Absent]
  BY <1>1 DEF Move
<1>5. /\ there \in [Builds -> [Paths -> Contents]]
      /\ \A x \in Builds, p \in Paths : x # b \/ p \notin U => there[x][p] = disk[x][p]
  BY <1>2, <1>3 DEF Shape, DiskShape
<1> HIDE DEF there
<1> QED
  BY <1>1, <1>2, <1>4, <1>5 DEF Touches, Contents

LEMMA RenameContentKeeps ==
  ASSUME LibraryInv, RenameContent, UNCHANGED shelfVars PROVE LibraryInv'
<1>1. /\ JobAt("renaming")
      /\ UNCHANGED <<listed, version, enabled, source, excused, tx, torn, active, profile,
                     place, loader, registered, previews, halfway>>
  BY DEF RenameContent, shelfVars, rowVars
<1>2. /\ Shape /\ b0 \in Builds /\ b0 \in listed /\ tx.at = "none"
      /\ job.op \in {"install", "repair", "toggle"} /\ job.pack = NoPack
      /\ OldPath \in ContentPaths /\ NewPath \in ContentPaths
  BY <1>1, Switched DEF Switching, JobAt
<1>3. CASE Fail /\ UNCHANGED disk
  <2>1. Untouched
    BY <1>1, <1>3 DEF Untouched
  <2> QED
    BY <1>1, <1>3, <2>1, EndsUntouched DEF JobAt, Fail
<1>4. CASE Move(OldPath, NewPath) /\ To("recording")
  <2>1. JobShape' /\ job'.at = "recording"
         /\ job'.op = job.op /\ job'.build = job.build /\ job'.stack = job.stack
         /\ job'.commit = job.commit /\ job'.pack = job.pack /\ job'.loader = job.loader
    BY <1>2, <1>4, MovesOn DEF Shape
  <2>2. TxShape' /\ RowShape'
    BY <1>1, <1>2 DEF Shape, TxShape, RowShape
  <2>3. Touches(b0, UserPaths) /\ TearsAtMost
    BY <1>1, <1>2, <1>4, MovedFile, PathsOfContent DEF TearsAtMost, Shape, DiskShape
  <2>4. SwitchInv'
    BY <1>1, <2>1 DEF LibraryInv, SwitchInv, JobAt, Installed, b0
  <2>5. PhaseInv' /\ TxInv'
    BY <1>1, <1>2, <2>1 DEF LibraryInv, PhaseInv, TxInv, JobAt, TxAt, NewPack, OnListed,
                            OfPacks, b0
  <2> QED
    BY <1>1, <1>2, <2>1, <2>2, <2>3, <2>4, <2>5, GoesOnInContent
       DEF ShelfUntouched, ContentPhases, JobAt
<1> QED
  BY <1>3, <1>4 DEF RenameContent

LEMMA RecordToggleKeeps ==
  ASSUME LibraryInv, RecordToggle, UNCHANGED shelfVars PROVE LibraryInv'
<1>1. /\ JobAt("recording") /\ ShelfUntouched
      /\ UNCHANGED <<listed, source, disk, tx, torn, previews>>
  BY DEF RecordToggle, shelfVars, ShelfUntouched
<1>2. /\ Shape /\ b0 \in Builds /\ b0 \in listed /\ tx.at = "none"
      /\ job.op \in {"install", "repair", "toggle"} /\ job.pack = NoPack
  BY <1>1, Switched DEF Switching, JobAt
<1>3. TxShape' /\ Touches(b0, UserPaths) /\ TearsAtMost
  BY <1>1, <1>2, NothingTouched DEF Shape, TxShape, TearsAtMost, DiskShape
<1>4. CASE /\ Record(b0, job.commit)
           /\ IF job.stack = <<>> THEN job' = Answer("ok") ELSE To("resolving")
  <2>1. RowShape'
    BY <1>1, <1>2, <1>4, RecordKeeps DEF Shape, JobShape
  <2>2. CASE job.stack = <<>>
    <3>1. JobShape' /\ job'.at = "idle"
      BY <1>2, <1>4, <2>2, ComesToAnEnd DEF Shape
    <3> QED
      BY <1>1, <1>2, <1>3, <2>1, <3>1, EndsInContent DEF JobAt
  <2>3. CASE job.stack # <<>>
    <3>1. JobShape' /\ job'.at = "resolving"
          /\ job'.op = job.op /\ job'.build = job.build /\ job'.stack = job.stack
          /\ job'.pack = job.pack /\ job'.loader = job.loader
      BY <1>2, <1>4, <2>3, MovesOn DEF Shape
    <3>2. PhaseInv' /\ SwitchInv' /\ TxInv'
      BY <1>1, <1>2, <2>3, <3>1 DEF LibraryInv, PhaseInv, SwitchInv, TxInv, JobAt, TxAt,
                                    NewPack, OnListed, OfPacks, b0
    <3> QED
      BY <1>1, <1>2, <1>3, <2>1, <3>1, <3>2, GoesOnInContent DEF ContentPhases, JobAt
  <2> QED
    BY <2>2, <2>3
<1>5. CASE To("renamingBack") /\ UNCHANGED <<version, enabled>>
  <2>1. JobShape' /\ job'.at = "renamingBack"
         /\ job'.op = job.op /\ job'.build = job.build /\ job'.stack = job.stack
         /\ job'.commit = job.commit /\ job'.pack = job.pack /\ job'.loader = job.loader
    BY <1>2, <1>5, MovesOn DEF Shape
  <2>2. RowShape'
    BY <1>1, <1>2, <1>5 DEF Shape, RowShape
  <2>3. SwitchInv'
    BY <1>1, <1>5, <2>1 DEF LibraryInv, SwitchInv, JobAt, Installed, b0
  <2>4. PhaseInv' /\ TxInv'
    BY <1>1, <1>2, <2>1 DEF LibraryInv, PhaseInv, TxInv, JobAt, TxAt, NewPack, OnListed,
                            OfPacks, b0
  <2> QED
    BY <1>1, <1>2, <1>3, <2>1, <2>2, <2>3, <2>4, GoesOnInContent DEF ContentPhases, JobAt
<1> QED
  BY <1>4, <1>5 DEF RecordToggle

LEMMA RenameBackKeeps ==
  ASSUME LibraryInv, RenameBack, UNCHANGED shelfVars PROVE LibraryInv'
<1>1. /\ JobAt("renamingBack") /\ ShelfUntouched /\ job' = Answer("failed")
      /\ UNCHANGED <<listed, version, enabled, source, tx, previews>>
  BY DEF RenameBack, shelfVars, ShelfUntouched, rowVars, Fail
<1>2. /\ Shape /\ b0 \in Builds /\ b0 \in listed /\ tx.at = "none"
      /\ OldPath \in ContentPaths /\ NewPath \in ContentPaths
  BY <1>1, Switched DEF Switching, JobAt
<1>3. TxShape' /\ RowShape'
  BY <1>1, <1>2 DEF Shape, TxShape, RowShape
<1>4. Touches(b0, UserPaths) /\ TearsAtMost
  <2>1. CASE Move(NewPath, OldPath) /\ UNCHANGED torn
    BY <1>2, <2>1, MovedFile, PathsOfContent DEF TearsAtMost, Shape, DiskShape
  <2>2. CASE torn' = [torn EXCEPT ![b0] = TRUE] /\ UNCHANGED disk
    BY <1>2, <2>2, NothingTouched, TearingKeeps DEF Shape
  <2> QED
    BY <2>1, <2>2 DEF RenameBack
<1>5. JobShape' /\ job'.at = "idle"
  BY <1>1, <1>2, ComesToAnEnd DEF Shape
<1> QED
  BY <1>1, <1>2, <1>3, <1>4, <1>5, EndsInContent DEF JobAt

-----------------------------------------------------------------------------
(* Changing the content of a build.                                        *)
LEMMA Changing ==
  ASSUME LibraryInv, JobAt("changing")
  PROVE  /\ Shape /\ b0 \in Builds /\ tx.build = b0 /\ Within(UserPaths)
         /\ job.op \in OfPacks \cup {"install", "remove", "import"}
         /\ job.op \in OnListed => b0 \in listed
         /\ job.pack # NoPack => job.stack = <<>>
         /\ job.op \notin {"install", "repair"} => job.stack = <<>>
         /\ NewPack => job.pack # NoPack
         /\ NewPack /\ ~TxAt("cleaning") => b0 \notin listed
BY DEF LibraryInv, PhaseInv, TxInv, JobAt, TxAt, Within

LEMMA StaysChanging ==
  ASSUME LibraryInv, ShelfUntouched, Touches(b0, UserPaths), TearsAtMost,
         JobAt("changing"), UNCHANGED job, ~TxAt("cleaning"),
         TxShape', Within(UserPaths)', tx'.build = tx.build, tx'.at # "none",
         RowShape'
  PROVE  LibraryInv'
<1>1. /\ Shape /\ b0 \in Builds /\ tx.build = b0 /\ job'.build = b0
      /\ NewPack => job.pack # NoPack /\ b0 \notin listed
  BY Changing DEF b0
<1>2. JobShape'
  BY <1>1 DEF Shape, JobShape
<1>3. PhaseInv' /\ SwitchInv'
  BY <1>1 DEF LibraryInv, PhaseInv, SwitchInv, JobAt, TxAt, NewPack, ShelfUntouched, b0
<1>4. TxInv'
  BY <1>1 DEF TxInv, Within, JobAt, TxAt, b0
<1> QED
  BY <1>1, <1>2, <1>3, <1>4, GoesOnInContent DEF ContentPhases, JobAt

LEMMA Undoing ==
  ASSUME Shape, Within(UserPaths), Undo
  PROVE  /\ TxShape' /\ Within(UserPaths)' /\ tx'.build = tx.build /\ tx'.at = "undoing"
         /\ tx'.todo = tx.todo /\ tx'.done = tx.done
<1>1. TxShape' /\ tx'.at = "undoing" /\ tx'.build = tx.build /\ tx'.todo = tx.todo
        /\ tx'.done = tx.done
  BY TxMoves DEF Undo, Shape
<1> QED
  BY <1>1 DEF Within

LEMMA RunChangesKeeps ==
  ASSUME LibraryInv, RunChanges, UNCHANGED shelfVars PROVE LibraryInv'
<1>1. /\ JobAt("changing") /\ ShelfUntouched /\ FileStep
      /\ UNCHANGED <<job, version, enabled, source, previews>>
  BY DEF RunChanges, contentVars, shelfVars, ShelfUntouched
<1>2. Shape /\ b0 \in Builds /\ tx.build = b0 /\ Within(UserPaths)
  BY <1>1, Changing
<1>3. ~TxAt("cleaning")
  BY <1>1 DEF FileStep, SetAside, PlaceFile, UndoChange, TxAt
<1>4. /\ TxShape' /\ Within(UserPaths)' /\ tx'.build = tx.build /\ tx'.at # "none"
      /\ Touches(b0, UserPaths) /\ TearsAtMost
  BY <1>1, <1>2, FileStepKeeps
<1>5. RowShape'
  BY <1>1, <1>2 DEF Shape, RowShape, ShelfUntouched
<1> QED
  BY <1>1, <1>3, <1>4, <1>5, StaysChanging

LEMMA CancelPackKeeps ==
  ASSUME LibraryInv, CancelPack, UNCHANGED shelfVars PROVE LibraryInv'
<1>1. /\ JobAt("changing") /\ ShelfUntouched /\ Undo /\ ~TxAt("cleaning")
      /\ UNCHANGED <<job, version, enabled, source, previews, disk, torn>>
  BY DEF CancelPack, contentVars, shelfVars, ShelfUntouched, TxAt
<1>2. Shape /\ b0 \in Builds /\ tx.build = b0 /\ Within(UserPaths)
  BY <1>1, Changing
<1>3. TxShape' /\ Within(UserPaths)' /\ tx'.build = tx.build /\ tx'.at # "none"
  BY <1>1, <1>2, Undoing
<1>4. Touches(b0, UserPaths) /\ TearsAtMost
  BY <1>1, <1>2, NothingTouched DEF Shape, TearsAtMost, DiskShape
<1>5. RowShape'
  BY <1>1, <1>2 DEF Shape, RowShape, ShelfUntouched
<1> QED
  BY <1>1, <1>3, <1>4, <1>5, StaysChanging

LEMMA WriteRowsKeeps ==
  ASSUME LibraryInv, WriteRows, UNCHANGED shelfVars PROVE LibraryInv'
<1>1. /\ JobAt("changing") /\ ShelfUntouched /\ ~TxAt("cleaning")
      /\ UNCHANGED <<listed, job, source, previews, disk, torn>>
  BY DEF WriteRows, shelfVars, ShelfUntouched, AllChanged, TxAt
<1>2. Shape /\ b0 \in Builds /\ tx.build = b0 /\ Within(UserPaths)
  BY <1>1, Changing
<1>3. Touches(b0, UserPaths) /\ TearsAtMost
  BY <1>1, <1>2, NothingTouched DEF Shape, TearsAtMost, DiskShape
<1>4. CASE Record(b0, job.commit) /\ tx' = [tx EXCEPT !.at = "cleaning"]
  <2>1. RowShape'
    BY <1>1, <1>2, <1>4, RecordKeeps DEF Shape, JobShape
  <2>2. /\ TxShape' /\ tx'.at = "cleaning" /\ tx'.build = tx.build /\ tx'.todo = tx.todo
        /\ tx'.done = tx.done
    BY <1>2, <1>4, TxMoves DEF Shape
  <2>3. Within(UserPaths)'
    BY <1>2, <2>2 DEF Within
  <2> QED
    BY <1>1, <1>3, <2>1, <2>2, <2>3, StaysChanging
<1>5. CASE Undo /\ UNCHANGED <<version, enabled>>
  <2>1. TxShape' /\ Within(UserPaths)' /\ tx'.build = tx.build /\ tx'.at # "none"
    BY <1>2, <1>5, Undoing
  <2>2. RowShape'
    BY <1>1, <1>2, <1>5 DEF Shape, RowShape
  <2> QED
    BY <1>1, <1>3, <2>1, <2>2, StaysChanging
<1> QED
  BY <1>4, <1>5 DEF WriteRows

LEMMA FinishKeeps == ASSUME LibraryInv, Finish, UNCHANGED shelfVars PROVE LibraryInv'
<1>1. /\ JobAt("changing") /\ ShelfUntouched
      /\ UNCHANGED <<listed, version, enabled, source, previews, disk, torn>>
  BY DEF Finish, shelfVars, rowVars, ShelfUntouched
<1>2. /\ Shape /\ b0 \in Builds
      /\ job.op \in OnListed => b0 \in listed
      /\ job.pack # NoPack => job.stack = <<>>
      /\ job.op \notin {"install", "repair"} => job.stack = <<>>
  BY <1>1, Changing
<1>3. Touches(b0, UserPaths) /\ TearsAtMost
  BY <1>1, <1>2, NothingTouched DEF Shape, TearsAtMost, DiskShape
<1>4. TxShape' /\ tx'.at = "none"
  BY TxEnds DEF Finish, EndChanges
<1>5. RowShape'
  BY <1>1, <1>2 DEF Shape, RowShape
<1>6. CASE Len(job.stack) > 1 /\ job' = [job EXCEPT !.at = "resolving", !.stack = Tail(@)]
  <2> DEFINE rest == Tail(job.stack)
  <2>1. job.stack # <<>>
    BY <1>2, <1>6, EmptySeq
  <2>2. job.stack \in Seq(Frames)
    BY <1>2 DEF Shape, JobShape
  <2>3. rest \in Seq(Frames) /\ Len(rest) = Len(job.stack) - 1
    BY <2>1, <2>2, PartsOfLists
  <2> HIDE DEF rest
  <2>4. Len(rest) # 0
    <3>1. Len(job.stack) \in Nat
      BY <2>2
    <3>2. \A n \in Nat : n > 1 => n - 1 # 0
      OBVIOUS
    <3> QED
      BY <1>6, <2>3, <3>1, <3>2
  <2>5. rest # <<>>
    BY <2>3, <2>4, EmptySeq
  <2>6. job' = [job EXCEPT !.at = "resolving", !.stack = rest]
    BY <1>2, <1>6 DEF Shape, JobShape, JobFields, rest
  <2>7. /\ DOMAIN job' = JobFields /\ job'.at = "resolving" /\ job'.stack = rest
        /\ job'.op = job.op /\ job'.build = job.build /\ job'.commit = job.commit
        /\ job'.pack = job.pack /\ job'.loader = job.loader
    BY <1>2, <2>6 DEF Shape, JobShape, JobFields
  <2>8. JobShape'
    BY <1>2, <2>3, <2>7 DEF Shape, JobShape
  <2>9. b0 \in listed /\ job.op \in {"install", "repair"} /\ job.pack = NoPack
    BY <1>2, <2>1 DEF OnListed
  <2>10. PhaseInv' /\ SwitchInv' /\ TxInv'
    BY <1>1, <1>2, <1>4, <2>5, <2>7, <2>9 DEF PhaseInv, SwitchInv, TxInv, JobAt, TxAt,
                                              NewPack, OnListed, OfPacks, b0
  <2> QED
    BY <1>1, <1>2, <1>3, <1>4, <1>5, <2>7, <2>8, <2>9, <2>10, GoesOnInContent
       DEF ContentPhases, JobAt
<1>7. CASE job.op = "repair" /\ job' = [job EXCEPT !.at = "selecting", !.stack = <<>>]
  <2>1. /\ DOMAIN job' = JobFields /\ job'.at = "selecting" /\ job'.stack = <<>>
        /\ job'.op = job.op /\ job'.build = job.build /\ job'.commit = job.commit
        /\ job'.pack = job.pack /\ job'.loader = job.loader
    BY <1>2, <1>7 DEF Shape, JobShape, JobFields
  <2>2. JobShape'
    BY <1>2, <2>1, NothingSpecial DEF Shape, JobShape
  <2>3. b0 \in listed
    BY <1>2, <1>7 DEF OnListed
  <2>4. PhaseInv' /\ SwitchInv' /\ TxInv'
    BY <1>1, <1>2, <1>4, <1>7, <2>1, <2>3 DEF PhaseInv, SwitchInv, TxInv, JobAt, TxAt,
                                              NewPack, OnListed, OfPacks, b0
  <2> QED
    BY <1>1, <1>2, <1>3, <1>4, <1>5, <2>1, <2>2, <2>3, <2>4, GoesOnInContent
       DEF ContentPhases, JobAt
<1>8. CASE job' = [Answer("ok") EXCEPT !.stack = job.stack]
  <2>1. JobShape' /\ job'.at = "idle"
    BY <1>2, <1>8, ComesToAnEnd DEF Shape
  <2> QED
    BY <1>1, <1>3, <1>4, <1>5, <2>1, EndsInContent DEF JobAt
<1> QED
  BY <1>6, <1>7, <1>8 DEF Finish

LEMMA FailChangesKeeps == ASSUME LibraryInv, FailChanges, UNCHANGED shelfVars PROVE LibraryInv'
<1>1. /\ JobAt("changing") /\ ShelfUntouched /\ job' = Answer("failed")
      /\ UNCHANGED <<listed, version, enabled, source, previews, disk, torn>>
  BY DEF FailChanges, shelfVars, rowVars, ShelfUntouched, Fail
<1>2. Shape /\ b0 \in Builds
  BY <1>1, Changing
<1>3. Touches(b0, UserPaths) /\ TearsAtMost
  BY <1>1, <1>2, NothingTouched DEF Shape, TearsAtMost, DiskShape
<1>4. TxShape' /\ tx'.at = "none"
  BY TxEnds DEF FailChanges, EndChanges
<1>5. RowShape'
  BY <1>1, <1>2 DEF Shape, RowShape
<1>6. JobShape' /\ job'.at = "idle"
  BY <1>1, <1>2, ComesToAnEnd DEF Shape
<1> QED
  BY <1>1, <1>3, <1>4, <1>5, <1>6, EndsInContent DEF JobAt

-----------------------------------------------------------------------------
(* The changes a pack makes.                                               *)
LEMMA FiniteImage ==
  ASSUME NEW S, IsFiniteSet(S), NEW f, DOMAIN f = S
  PROVE  IsFiniteSet({f[x] : x \in S})
<1> DEFINE T == {f[x] : x \in S}
           g == [x \in S |-> f[x]]
<1>1. g \in Surjection(S, T)
  BY DEF Surjection
<1> QED
  BY <1>1, FS_Surjection

LEMMA ListedChanges ==
  ASSUME NEW U, NEW S, IsFiniteSet(S), S \subseteq U
  PROVE  LET paths == SetToSeq(S)
         IN  /\ [i \in DOMAIN paths |-> Put(paths[i])] \in Seq(ChangesOf(U))
             /\ [i \in DOMAIN paths |-> Take(paths[i])] \in Seq(ChangesOf(U))
<1> DEFINE paths == SetToSeq(S)
<1>1. paths \in Seq(S)
  BY ListsOfSets
<1> HIDE DEF paths
<1>2. DOMAIN paths = 1..Len(paths) /\ Len(paths) \in Nat
  BY <1>1
<1>3. \A i \in DOMAIN paths : paths[i] \in U
  BY <1>1, <1>2, ElementOfSeq
<1>4. \A i \in DOMAIN paths : Put(paths[i]) \in ChangesOf(U) /\ Take(paths[i]) \in ChangesOf(U)
  BY <1>3, ChangesOfPaths
<1>5. /\ [i \in DOMAIN paths |-> Put(paths[i])] \in Seq(ChangesOf(U))
      /\ [i \in DOMAIN paths |-> Take(paths[i])] \in Seq(ChangesOf(U))
  BY <1>2, <1>4
<1> QED
  BY <1>5 DEF paths

LEMMA RowsOfPack ==
  ASSUME NEW b, NEW k \in Packs
  PROVE  /\ PackRows(b, k) \subseteq Rows
         /\ NewPaths(PackRows(b, k)) \subseteq ContentPaths
         /\ IsFiniteSet(NewPaths(PackRows(b, k)))
<1>1. PackFiles[k] \subseteq Projects \X Versions /\ Versions \subseteq 0..MaxVersion
  BY ContentAssumption DEF Versions
<1>2. \A f \in PackFiles[k] : KeepsFlag(b, f[1], f[2], k) \in BOOLEAN
  BY DEF KeepsFlag
<1>3. PackRows(b, k) \subseteq Projects \X Versions \X BOOLEAN
  BY <1>1, <1>2 DEF PackRows
<1>4. PackRows(b, k) \subseteq Rows
  BY <1>1, <1>3 DEF Rows
<1>5. NewPaths(PackRows(b, k)) \subseteq ContentPaths
  BY <1>3, PathsOfContent DEF NewPaths
<1>6. IsFiniteSet(PackFiles[k])
  <2>1. IsFiniteSet(Versions)
    <3>1. 1 \in Int /\ MaxVersion \in Int
      BY ContentAssumption
    <3> QED
      BY <3>1, FS_Interval DEF Versions
  <2>2. IsFiniteSet(Projects \X Versions)
    BY <2>1, ContentAssumption, FS_Product
  <2> QED
    BY <1>1, <2>2, FS_Subset
<1>7. IsFiniteSet(PackRows(b, k))
  <2> DEFINE row == [f \in PackFiles[k] |-> <<f[1], f[2], KeepsFlag(b, f[1], f[2], k)>>]
  <2>1. IsFiniteSet({row[f] : f \in PackFiles[k]})
    BY <1>6, FiniteImage
  <2>2. {row[f] : f \in PackFiles[k]} = PackRows(b, k)
    BY DEF PackRows
  <2> QED
    BY <2>1, <2>2
<1>8. IsFiniteSet(NewPaths(PackRows(b, k)))
  <2> DEFINE path == [r \in PackRows(b, k) |-> ProjectPath(r[1], r[2], r[3])]
  <2>1. IsFiniteSet({path[r] : r \in PackRows(b, k)})
    BY <1>7, FiniteImage
  <2>2. {path[r] : r \in PackRows(b, k)} = NewPaths(PackRows(b, k))
    BY DEF NewPaths
  <2> QED
    BY <2>1, <2>2
<1> QED
  BY <1>4, <1>5, <1>8

LEMMA ReplacedPaths ==
  ASSUME RowShape, NEW b \in Builds, NEW k \in Packs
  PROVE  Replaced(b, k) \subseteq ContentPaths /\ IsFiniteSet(Replaced(b, k))
<1> DEFINE P == {f[1] : f \in PackFiles[k]} \cap {q \in Projects : Installed(b, q)}
           path == [p \in P |-> RowPath(b, p)]
           old == {path[p] : p \in P}
<1>1. IsFiniteSet(P)
  BY ContentAssumption, FS_Subset
<1>2. IsFiniteSet(old)
  BY <1>1, FiniteImage
<1>3. old \subseteq ContentPaths
  BY RowPaths
<1>4. Replaced(b, k) \subseteq old
  BY DEF Replaced
<1> QED
  BY <1>2, <1>3, <1>4, FS_Subset

(* What a pack changes is content and, unless it is there already when a   *)
(* build is repaired, its configuration.                                   *)
LEMMA ChangesOfPack ==
  ASSUME RowShape, NEW b \in Builds, NEW k \in Packs, NEW repairing, NEW U,
         ContentPaths \subseteq U, ConfigPath \in U \/ (repairing /\ Has(b, ConfigPath))
  PROVE  PackChanges(b, k, repairing) \in Seq(ChangesOf(U))
<1> DEFINE new == SetToSeq(NewPaths(PackRows(b, k)))
           puts == [i \in DOMAIN new |-> Put(new[i])]
<1>1. puts \in Seq(ChangesOf(U))
  <2>1. NewPaths(PackRows(b, k)) \subseteq U /\ IsFiniteSet(NewPaths(PackRows(b, k)))
    BY RowsOfPack
  <2> QED
    BY <2>1, ListedChanges
<1>2. ConfigChange(b, repairing) \in Seq(ChangesOf(U))
  BY ChangesOfPaths DEF ConfigChange
<1>3. Removals(b, k) \in Seq(ChangesOf(U))
  <2>1. Replaced(b, k) \subseteq U /\ IsFiniteSet(Replaced(b, k))
    BY ReplacedPaths
  <2> QED
    BY <2>1, ListedChanges, ChangesOfPaths DEF Removals
<1> HIDE DEF puts
<1>4. puts \o ConfigChange(b, repairing) \o Removals(b, k) \in Seq(ChangesOf(U))
  BY <1>1, <1>2, <1>3, ChangesOfPaths
<1> QED
  BY <1>4 DEF PackChanges, puts

LEMMA StagePackKeeps == ASSUME LibraryInv, StagePackHere PROVE LibraryInv'
<1>1. /\ RestUntouched /\ JobAt("downloading") /\ job.pack # NoPack
      /\ BeginChanges(b0, PackChanges(b0, job.pack, job.repairing))
      /\ job' = [job EXCEPT !.at = "changing", !.commit = PackRows(b0, job.pack)]
  BY DEF StagePackHere, StagePack, RestUntouched, shelfVars, rowVars
<1>2. /\ Shape /\ b0 \in Builds /\ job.op \in OfPacks /\ job.pack \in Packs /\ tx.at = "none"
      /\ job.op \in OnListed => b0 \in listed
      /\ job.stack = <<>>
      /\ NewPack => b0 \notin listed
  BY <1>1 DEF LibraryInv, Shape, JobShape, PhaseInv, TxInv, JobAt, TxAt
<1>3. PackChanges(b0, job.pack, job.repairing) \in Seq(UserChanges)
  BY <1>2, ChangesOfPack, PathsOfContent DEF Shape, UserChanges
<1> DEFINE rows == PackRows(b0, job.pack)
<1>4. rows \subseteq Rows
  BY <1>2, RowsOfPack
<1> HIDE DEF rows
<1>5. /\ DOMAIN job' = JobFields /\ job'.at = "changing" /\ job'.commit = rows
      /\ job'.op = job.op /\ job'.build = job.build /\ job'.stack = job.stack
      /\ job'.pack = job.pack /\ job'.loader = job.loader
  BY <1>1, <1>2 DEF Shape, JobShape, JobFields, rows
<1>6. JobShape'
  BY <1>2, <1>4, <1>5 DEF Shape, JobShape
<1>7. PhaseInv'
  BY <1>1, <1>2, <1>5 DEF PhaseInv, JobAt, RestUntouched, NewPack, OnListed, OfPacks, b0
<1>8. job'.build = b0 /\ job.build = b0
  BY <1>5 DEF b0
<1> QED
  BY <1>1, <1>2, <1>3, <1>5, <1>6, <1>7, <1>8, BeginsChanging DEF JobAt

-----------------------------------------------------------------------------
(* The loader an operation needs.                                          *)
LEMMA Preparing ==
  ASSUME LibraryInv, JobAt("preparing") \/ JobAt("forging")
  PROVE  /\ Shape /\ b0 \in Builds
         /\ job.op \in OfPacks \cup {"create"}
         /\ job.op \in OnListed => b0 \in listed
         /\ job.pack # NoPack => job.stack = <<>>
         /\ job.op \notin {"install", "repair"} => job.stack = <<>>
         /\ job.op = "create" => job.pack = NoPack
         /\ NewPack => job.pack # NoPack /\ b0 \notin listed
         /\ b0 \notin listed => place[b0] = "instances"
BY DEF LibraryInv, PhaseInv, TxInv, ShelfInv, NextInv, JobAt, TxAt

LEMMA PreparedGoesOn ==
  ASSUME LibraryInv, JobAt("preparing") \/ JobAt("forging"), job' = Prepared
  PROVE  /\ JobShape'
         /\ job'.op = job.op /\ job'.build = job.build /\ job'.stack = job.stack
         /\ job'.pack = job.pack /\ job'.loader = Wanted
         /\ job'.repairing = job.repairing
         /\ job'.at = IF job.pack # NoPack THEN "downloading"
                      ELSE IF job.op = "create" THEN "inserting"
                      ELSE IF job.stack # <<>> THEN "resolving" ELSE "selecting"
<1> DEFINE phase == IF job.pack # NoPack THEN "downloading"
                    ELSE IF job.op = "create" THEN "inserting"
                    ELSE IF job.stack # <<>> THEN "resolving" ELSE "selecting"
           l == Wanted
<1>1. JobShape
  BY DEF LibraryInv, Shape
<1>2. job' = [job EXCEPT !.loader = l, !.at = phase]
  BY DEF Prepared
<1> HIDE DEF phase, l
<1>3. /\ DOMAIN job' = JobFields /\ job'.at = phase /\ job'.loader = l
      /\ job'.op = job.op /\ job'.build = job.build /\ job'.stack = job.stack
      /\ job'.pack = job.pack /\ job'.commit = job.commit
      /\ job'.repairing = job.repairing
  BY <1>1, <1>2 DEF JobShape, JobFields
<1>4. JobShape'
  BY <1>1, <1>3 DEF JobShape
<1> QED
  BY <1>3, <1>4 DEF phase, l

(* With its loader registered, and the files of Forge in place if it is    *)
(* Forge, the operation goes on.                                           *)
LEMMA RegisteredLoader ==
  ASSUME LibraryInv, JobAt("preparing") \/ JobAt("forging"),
         job' = Prepared, Wanted \in registered', Wanted = "forge" => ForgeThere(b0),
         registered \subseteq registered', TxShape', tx'.at = "none",
         UNCHANGED <<listed, version, enabled, source, disk, torn, excused, place, loader,
                     active, profile, halfway, previews>>
  PROVE  LibraryInv'
<1>1. /\ Shape /\ b0 \in Builds
      /\ job.op \in OfPacks \cup {"create"}
      /\ job.op \in OnListed => b0 \in listed
      /\ job.pack # NoPack => job.stack = <<>>
      /\ job.op \notin {"install", "repair"} => job.stack = <<>>
      /\ job.op = "create" => job.pack = NoPack
      /\ NewPack => job.pack # NoPack /\ b0 \notin listed
      /\ b0 \notin listed => place[b0] = "instances"
  BY Preparing
<1>2. /\ JobShape'
      /\ job'.op = job.op /\ job'.build = job.build /\ job'.stack = job.stack
      /\ job'.pack = job.pack /\ job'.loader = Wanted
      /\ job'.at = IF job.pack # NoPack THEN "downloading"
                   ELSE IF job.op = "create" THEN "inserting"
                   ELSE IF job.stack # <<>> THEN "resolving" ELSE "selecting"
  BY PreparedGoesOn
<1>3. RowShape'
  BY <1>1 DEF Shape, RowShape
<1>4. DiskShape' /\ KeepsForge /\ Disturbs
  BY <1>1, FilesKept
<1>5. Calm
  BY <1>1, <1>4, CalmIfKept DEF Shape
<1>6. job.pack = NoPack /\ job.op # "create" => job.op \in OnListed /\ b0 \in listed
  BY <1>1 DEF OfPacks, OnListed, NewPack
<1>7. job.stack # <<>> => job.op \in {"install", "repair"}
  BY <1>1
<1>8. PhaseInv' /\ SwitchInv' /\ TxInv'
  BY <1>1, <1>2, <1>6, <1>7 DEF PhaseInv, SwitchInv, TxInv, JobAt, TxAt, NewPack, OnListed,
                                OfPacks, b0
<1>9. NextInv'
  <2>1. PICK b \in Builds : b = b0 /\ b = b0'
    BY <1>1, <1>2 DEF b0
  <2>2. ForgeThere(b)' <=> ForgeThere(b0)
    BY <2>1 DEF ForgeThere, Has
  <2>3. (ForgeThere(b0))' <=> ForgeThere(b)'
    BY <2>1 DEF ForgeThere, Has
  <2> QED
    BY <1>1, <1>2, <1>6, <2>1, <2>2, <2>3 DEF NextInv, Carried
<1>10. \A b \in listed : ~Trashing(b)
  BY DEF Trashing, JobAt
<1> QED
  BY <1>2, <1>3, <1>4, <1>5, <1>8, <1>9, <1>10, GoesOnCalmly

LEMMA NoTxThen ==
  ASSUME LibraryInv, ~JobAt("changing"), ~JobAt("forging") PROVE tx.at = "none"
BY DEF LibraryInv, TxInv, JobAt, TxAt

LEMMA RegisterProfileKeeps == ASSUME LibraryInv, RegisterProfile PROVE LibraryInv'
<1>1. /\ JobAt("preparing") /\ job' = Prepared /\ Wanted # "forge"
      /\ registered' = registered \cup {Wanted}
      /\ UNCHANGED <<listed, version, enabled, source, disk, torn, excused, place, loader,
                     active, profile, halfway, previews, tx>>
  BY DEF RegisterProfile, rowVars, fileVars
<1>2. TxShape' /\ tx'.at = "none"
  BY <1>1, NoTxThen DEF JobAt, LibraryInv, Shape, TxShape
<1> QED
  BY <1>1, <1>2, RegisteredLoader

LEMMA RegisterForgeKeeps == ASSUME LibraryInv, RegisterForge PROVE LibraryInv'
<1>1. /\ JobAt("preparing") /\ job' = Prepared /\ Wanted = "forge" /\ ForgeThere(b0)
      /\ registered' = registered \cup {"forge"}
      /\ UNCHANGED <<listed, version, enabled, source, disk, torn, excused, place, loader,
                     active, profile, halfway, previews, tx>>
  BY DEF RegisterForge, rowVars, fileVars, ForgeVerifies, ForgeThere
<1>2. TxShape' /\ tx'.at = "none"
  BY <1>1, NoTxThen DEF JobAt, LibraryInv, Shape, TxShape
<1> QED
  BY <1>1, <1>2, RegisteredLoader

-----------------------------------------------------------------------------
(* The installer of Forge.                                                 *)
ForgePut(i) == \E j \in 1..Len(tx.todo) : tx.todo[j] = Put(ForgeFiles[i])

LEMMA Forging ==
  ASSUME LibraryInv, JobAt("forging")
  PROVE  /\ tx.build = b0 /\ ~TxAt("cleaning") /\ tx.at # "none"
         /\ \A i \in 1..Len(tx.todo) : tx.todo[i].to = Sound
         /\ ~TxAt("undoing") => \A i \in 1..2 : Has(b0, ForgeFiles[i]) \/ ForgePut(i)
         /\ Wanted = "forge"
         /\ b0 \in listed => Disturbed(b0) \/ loader[b0] # "forge"
         /\ b0 \notin listed => place[b0] = "instances"
BY DEF LibraryInv, TxInv, ShelfInv, NextInv, JobAt, TxAt, ForgePut

LEMMA RunForgeInstallerKeeps == ASSUME LibraryInv, RunForgeInstaller PROVE LibraryInv'
<1>1. /\ JobAt("preparing") /\ Wanted = "forge" /\ ~ForgeThere(b0) /\ To("forging")
      /\ UNCHANGED <<listed, version, enabled, source, disk, torn, excused, place, loader,
                     registered, active, profile, halfway, previews>>
  BY DEF RunForgeInstaller, rowVars, shelfVars, ForgeVerifies, ForgeThere
<1>2. /\ Shape /\ b0 \in Builds
      /\ job.op \in OfPacks \cup {"create"}
      /\ job.op \in OnListed => b0 \in listed
      /\ job.pack # NoPack => job.stack = <<>>
      /\ job.op \notin {"install", "repair"} => job.stack = <<>>
      /\ job.op = "create" => job.pack = NoPack
      /\ NewPack => job.pack # NoPack /\ b0 \notin listed
      /\ b0 \notin listed => place[b0] = "instances"
  BY <1>1, Preparing
<1> DEFINE changes == [i \in 1..2 |-> Put(ForgeFiles[i])]
<1>3. changes \in Seq(Changes) /\ Len(changes) = 2
  <2>1. \A i \in 1..2 : Put(ForgeFiles[i]) \in Changes
    BY PathsOfContent DEF Put, Changes
  <2> QED
    BY <2>1
<1>4. \A i \in 1..2 : changes[i] = Put(ForgeFiles[i]) /\ changes[i].to = Sound
  BY DEF Put
<1>5. BeginChanges(b0, changes)
  BY DEF RunForgeInstaller
<1> HIDE DEF changes
<1>6. /\ TxShape' /\ tx'.at = "changing" /\ tx'.build = b0
      /\ tx'.todo = changes /\ tx'.done = <<>>
  BY <1>3, <1>5, TxBegins
<1>7. JobShape' /\ job'.at = "forging"
      /\ job'.op = job.op /\ job'.build = job.build /\ job'.stack = job.stack
      /\ job'.commit = job.commit /\ job'.pack = job.pack /\ job'.loader = job.loader
  BY <1>1, <1>2, MovesOn DEF Shape
<1>8. RowShape' /\ DiskShape' /\ KeepsForge /\ Disturbs
  BY <1>1, <1>2, FilesKept DEF Shape, RowShape
<1>9. Calm
  BY <1>1, <1>2, <1>8, CalmIfKept DEF Shape
<1>10. PhaseInv' /\ SwitchInv'
  BY <1>1, <1>2, <1>7 DEF PhaseInv, SwitchInv, JobAt, NewPack, OnListed, OfPacks, b0
<1>11. TxInv'
  <2>1. \A i \in 1..2 : \E j \in 1..Len(tx'.todo) : tx'.todo[j] = Put(ForgeFiles[i])
    BY <1>3, <1>4, <1>6
  <2>2. \A i \in 1..Len(tx'.todo) : tx'.todo[i].to = Sound
    BY <1>3, <1>4, <1>6
  <2>3. b0' = tx'.build
    BY <1>6, <1>7 DEF b0
  <2> QED
    BY <1>6, <1>7, <2>1, <2>2, <2>3 DEF TxInv, TxAt
<1>12. NextInv'
  <2>1. PICK b \in Builds : b = b0 /\ b = b0'
    BY <1>2, <1>7 DEF b0
  <2>2. b \in listed => Disturbed(b) \/ loader[b] # "forge"
    BY <1>1, <2>1 DEF LibraryInv, ShelfInv, Launchable
  <2>3. Disturbed(b)' <=> Disturbed(b)
    BY <1>1 DEF Disturbed
  <2>4. Disturbed(b0)' <=> Disturbed(b)'
    BY <2>1 DEF Disturbed
  <2>5. Wanted' = Wanted
    BY <1>1, <1>7 DEF Wanted, b0
  <2> QED
    BY <1>1, <1>2, <1>7, <2>1, <2>2, <2>3, <2>4, <2>5 DEF NextInv, Carried
<1>13. \A b \in listed : ~Trashing(b)
  BY <1>1 DEF Trashing, JobAt
<1> QED
  BY <1>6, <1>7, <1>8, <1>9, <1>10, <1>11, <1>12, <1>13, GoesOnCalmly

(* An installation that goes on, or is being undone.                       *)
LEMMA StaysForging ==
  ASSUME LibraryInv, JobAt("forging"), UNCHANGED job, ShelfUntouched,
         UNCHANGED <<version, enabled, source, previews>>,
         Touches(b0, Paths), TearsAtMost,
         TxShape', tx'.build = tx.build, tx'.at \notin {"none", "cleaning"},
         \A i \in 1..Len(tx'.todo) : tx'.todo[i].to = Sound,
         tx'.at # "undoing" => \A i \in 1..2 : (Has(b0, ForgeFiles[i]) \/ ForgePut(i))'
  PROVE  LibraryInv'
<1>1. /\ tx.build = b0 /\ ~TxAt("cleaning") /\ tx.at # "none"
      /\ Wanted = "forge"
      /\ b0 \in listed => Disturbed(b0) \/ loader[b0] # "forge"
      /\ b0 \notin listed => place[b0] = "instances"
  BY Forging
<1>2. PICK b \in Builds : b = b0 /\ b = b0'
  BY Preparing DEF b0
<1>3. Shape /\ (NewPack => b0 \notin listed)
  BY Preparing
<1>4. JobShape' /\ RowShape'
  BY <1>3 DEF Shape, JobShape, RowShape, ShelfUntouched
<1>5. DiskShape' /\ Disturbs
  BY <1>3 DEF Shape, DiskShape, RowShape, Touches, TearsAtMost, ShelfUntouched, Disturbs,
              Disturbed
<1>6. \A x \in Builds \ {b} : ForgeThere(x)' <=> ForgeThere(x)
  BY <1>2, <1>3, PathsOfContent DEF Touches, ForgeThere, Has
<1>7. Disturbed(b) /\ b \in listed => Disturbed(b)'
  BY <1>5 DEF Disturbs
<1>8. Calm
  <2>1. \A x \in listed : loader[x] = "forge" /\ ~Disturbed(x)' /\ ForgeThere(x)
                            => ForgeThere(x)'
    BY <1>1, <1>2, <1>3, <1>6, <1>7 DEF Shape, RowShape
  <2> QED
    BY <1>5, <2>1 DEF Calm, ShelfUntouched
<1>9. PhaseInv' /\ SwitchInv'
  BY <1>1, <1>2, <1>3 DEF LibraryInv, PhaseInv, SwitchInv, JobAt, TxAt, NewPack, ShelfUntouched
<1>10. TxInv'
  <2>1. tx'.build = b0'
    BY <1>1, <1>2
  <2> QED
    BY <2>1 DEF TxInv, JobAt, TxAt, ForgePut
<1>11. NextInv'
  <2>1. Wanted' = Wanted
    BY DEF Wanted, ShelfUntouched, b0
  <2>2. Disturbed(b0)' <=> Disturbed(b)'
    BY <1>2 DEF Disturbed
  <2> QED
    BY <1>1, <1>2, <1>7, <2>1, <2>2 DEF NextInv, Carried, JobAt, ShelfUntouched
<1>12. \A x \in listed : ~Trashing(x)
  BY DEF Trashing, JobAt
<1> QED
  BY <1>4, <1>5, <1>8, <1>9, <1>10, <1>11, <1>12, GoesOnCalmly

LEMMA ForgeUndoes ==
  ASSUME LibraryInv, JobAt("forging"), UNCHANGED <<job, disk, torn>>, ShelfUntouched,
         UNCHANGED <<version, enabled, source, previews>>, Undo
  PROVE  LibraryInv'
<1>1. Shape /\ \A i \in 1..Len(tx.todo) : tx.todo[i].to = Sound
  BY Forging DEF LibraryInv
<1>2. Touches(b0, Paths) /\ TearsAtMost
  BY <1>1, NothingTouched DEF Shape, TearsAtMost, DiskShape
<1>3. TxShape' /\ tx'.at = "undoing" /\ tx'.build = tx.build /\ tx'.todo = tx.todo
  BY <1>1, TxMoves DEF Undo, Shape
<1> QED
  BY <1>1, <1>2, <1>3, StaysForging

LEMMA FinishForgeKeeps == ASSUME LibraryInv, FinishForge PROVE LibraryInv'
<1>1. /\ JobAt("forging") /\ AllChanged
      /\ UNCHANGED <<listed, version, enabled, source, disk, torn, excused, place, loader,
                     active, profile, halfway, previews>>
  BY DEF FinishForge, rowVars
<1>2. CASE EndChanges /\ registered' = registered \cup {"forge"} /\ job' = Prepared
  <2>1. TxShape' /\ tx'.at = "none"
    BY <1>2, TxEnds DEF EndChanges
  <2>2. ForgeThere(b0)
    <3>1. 1..Len(tx.todo) = {} /\ ~TxAt("undoing")
      BY <1>1, EmptySeq DEF AllChanged, TxAt
    <3> QED
      BY <1>1, <3>1, Forging DEF ForgePut, ForgeThere
  <2>3. Wanted = "forge"
    BY <1>1, Forging
  <2> QED
    BY <1>1, <1>2, <2>1, <2>2, <2>3, RegisteredLoader
<1>3. CASE Undo /\ UNCHANGED <<registered, job>>
  BY <1>1, <1>3, ForgeUndoes DEF ShelfUntouched
<1> QED
  BY <1>2, <1>3 DEF FinishForge

LEMMA SettingAsideForge ==
  ASSUME LibraryInv, JobAt("forging"), UNCHANGED job, SetAside, tx'.at # "undoing"
  PROVE  /\ \A i \in 1..Len(tx'.todo) : tx'.todo[i].to = Sound
         /\ \A i \in 1..2 : (Has(b0, ForgeFiles[i]) \/ ForgePut(i))'
<1>1. /\ tx.build = b0 /\ b0 \in Builds /\ Shape /\ tx.todo # <<>> /\ ~TxAt("undoing")
      /\ \A i \in 1..Len(tx.todo) : tx.todo[i].to = Sound
      /\ \A i \in 1..2 : Has(b0, ForgeFiles[i]) \/ ForgePut(i)
  BY Forging, Preparing DEF SetAside, TxAt
<1> DEFINE change == Head(tx.todo)
           saved == Append(tx.done, [path |-> change.path, old |-> Target])
<1>2. change \in Changes /\ change = tx.todo[1] /\ 1 \in 1..Len(tx.todo)
  BY <1>1, PartsOfLists DEF Shape, TxShape
<1>3. change.to = Sound /\ change = Put(change.path) /\ change.path \in Paths
  BY <1>1, <1>2 DEF Changes, Put
<1> HIDE DEF change, saved
<1>4. /\ disk' = [disk EXCEPT ![tx.build][change.path] = Absent]
      /\ tx' = [tx EXCEPT !.at = "placing", !.done = saved]
  <2>1. ~Undo
    BY <1>1 DEF Undo, Shape, TxShape
  <2> QED
    BY <1>3, <2>1 DEF SetAside, change, saved, Sound, Absent
<1>5. tx'.todo = tx.todo
  BY <1>1, <1>4 DEF Shape, TxShape
<1>6. ASSUME NEW i \in 1..2 PROVE (Has(b0, ForgeFiles[i]) \/ ForgePut(i))'
  <2>1. CASE ForgePut(i)
    BY <1>5, <2>1 DEF ForgePut
  <2>2. CASE Has(b0, ForgeFiles[i]) /\ ForgeFiles[i] = change.path
    BY <1>2, <1>3, <1>5, <2>2 DEF ForgePut
  <2>3. CASE Has(b0, ForgeFiles[i]) /\ ForgeFiles[i] # change.path
    <3>1. disk'[b0][ForgeFiles[i]] = disk[b0][ForgeFiles[i]]
      BY <1>1, <1>3, <1>4, <2>3, PathsOfContent DEF Shape, DiskShape
    <3>2. b0' = b0
      BY DEF b0
    <3> QED
      BY <2>3, <3>1, <3>2 DEF Has
  <2> QED
    BY <1>1, <2>1, <2>2, <2>3
<1> QED
  BY <1>1, <1>5, <1>6

LEMMA PlacingForge ==
  ASSUME LibraryInv, JobAt("forging"), UNCHANGED job, PlaceFile, tx'.at # "undoing"
  PROVE  /\ \A i \in 1..Len(tx'.todo) : tx'.todo[i].to = Sound
         /\ \A i \in 1..2 : (Has(b0, ForgeFiles[i]) \/ ForgePut(i))'
<1>1. /\ tx.build = b0 /\ b0 \in Builds /\ Shape /\ ~TxAt("undoing") /\ TxAt("placing")
      /\ \A i \in 1..Len(tx.todo) : tx.todo[i].to = Sound
      /\ \A i \in 1..2 : Has(b0, ForgeFiles[i]) \/ ForgePut(i)
  BY Forging, Preparing DEF PlaceFile, TxAt
<1>2. tx.todo # <<>> /\ tx.todo \in Seq(Changes)
  BY <1>1 DEF Shape, TxShape, TxAt
<1> DEFINE change == Head(tx.todo)
           rest == Tail(tx.todo)
<1>3. /\ change \in Changes /\ change = tx.todo[1] /\ 1 \in 1..Len(tx.todo)
      /\ rest \in Seq(Changes) /\ Len(rest) = Len(tx.todo) - 1
      /\ \A i \in 1..Len(rest) : i + 1 \in 1..Len(tx.todo) /\ rest[i] = tx.todo[i + 1]
  BY <1>2, PartsOfLists
<1>4. change.to = Sound /\ change.path \in Paths
  BY <1>1, <1>3 DEF Changes
<1> HIDE DEF change, rest
<1>5. /\ disk' = [disk EXCEPT ![tx.build][change.path] = change.to]
      /\ tx' = [tx EXCEPT !.at = "changing", !.todo = rest]
  <2>1. ~Undo
    BY <1>1 DEF Undo, Shape, TxShape
  <2>2. tx' = [tx EXCEPT !.at = "changing", !.todo = Tail(@)] =>
          tx' = [tx EXCEPT !.at = "changing", !.todo = rest]
    BY <1>1 DEF Shape, TxShape, rest
  <2> QED
    BY <2>1, <2>2 DEF PlaceFile, change
<1>6. tx'.todo = rest
  BY <1>1, <1>5 DEF Shape, TxShape
<1>7. b0' = b0
  BY DEF b0
<1>8. ASSUME NEW i \in 1..2 PROVE (Has(b0, ForgeFiles[i]) \/ ForgePut(i))'
  <2>1. CASE ForgeFiles[i] = change.path
    <3>1. disk'[b0][ForgeFiles[i]] = Sound
      BY <1>1, <1>4, <1>5, <2>1 DEF Shape, DiskShape
    <3> QED
      BY <1>7, <3>1 DEF Has, Sound, Absent
  <2>2. CASE Has(b0, ForgeFiles[i]) /\ ForgeFiles[i] # change.path
    <3>1. disk'[b0][ForgeFiles[i]] = disk[b0][ForgeFiles[i]]
      BY <1>1, <1>4, <1>5, <2>2, PathsOfContent DEF Shape, DiskShape
    <3> QED
      BY <1>7, <2>2, <3>1 DEF Has
  <2>3. CASE ForgePut(i) /\ ForgeFiles[i] # change.path
    <3>1. PICK j \in 1..Len(tx.todo) : tx.todo[j] = Put(ForgeFiles[i])
      BY <2>3 DEF ForgePut
    <3>2. j # 1
      BY <1>3, <2>3, <3>1 DEF Put
    <3>3. Len(tx.todo) \in Nat
      BY <1>2
    <3>4. j - 1 \in 1..Len(rest) /\ (j - 1) + 1 = j
      BY <1>3, <3>2, <3>3
    <3>5. rest[j - 1] = tx.todo[j]
      BY <1>3, <3>4
    <3> QED
      BY <1>6, <3>1, <3>4, <3>5 DEF ForgePut
  <2> QED
    BY <1>1, <2>1, <2>2, <2>3
<1>9. \A i \in 1..Len(rest) : rest[i].to = Sound
  BY <1>1, <1>3
<1> QED
  BY <1>6, <1>8, <1>9

LEMMA ForgeChangesKeeps == ASSUME LibraryInv, ForgeChanges PROVE LibraryInv'
<1>1. /\ JobAt("forging") /\ ShelfUntouched
      /\ UNCHANGED <<job, version, enabled, source, previews>>
  BY DEF ForgeChanges, contentVars, shelfVars, ShelfUntouched
<1>2. CASE Undo /\ UNCHANGED <<disk, torn>>
  BY <1>1, <1>2, ForgeUndoes
<1>3. CASE FileStep
  <2>1. /\ tx.build = b0 /\ b0 \in Builds /\ Shape
        /\ \A i \in 1..Len(tx.todo) : tx.todo[i].to = Sound
    BY <1>1, Forging, Preparing
  <2>2. Within(Paths)
    <3>1. \A i \in 1..Len(tx.todo) : tx.todo[i] \in Changes
      BY <2>1, ElementOfSeq DEF Shape, TxShape
    <3>2. \A i \in 1..Len(tx.done) : tx.done[i] \in Saved
      BY <2>1, ElementOfSeq DEF Shape, TxShape
    <3> QED
      BY <3>1, <3>2 DEF Within, Changes, Saved
  <2>3. /\ TxShape' /\ tx'.build = tx.build /\ tx'.at \in {"changing", "placing", "undoing"}
        /\ Touches(b0, Paths) /\ TearsAtMost
    BY <1>3, <2>1, <2>2, FileStepKeeps
  <2>4. CASE UndoChange
    <3>1. tx'.at = "undoing" /\ tx'.todo = tx.todo
      BY <2>1, <2>4 DEF UndoChange, Shape, TxShape, TxAt
    <3> QED
      BY <1>1, <2>1, <2>3, <3>1, StaysForging
  <2>5. CASE (SetAside \/ PlaceFile) /\ tx'.at # "undoing"
    BY <1>1, <2>3, <2>5, SettingAsideForge, PlacingForge, StaysForging
  <2>6. CASE (SetAside \/ PlaceFile) /\ tx'.at = "undoing"
    <3>1. Undo
      BY <2>1, <2>6 DEF SetAside, PlaceFile, Shape, TxShape, TxAt
    <3>2. tx'.todo = tx.todo
      BY <2>1, <3>1 DEF Undo, Shape, TxShape
    <3> QED
      BY <1>1, <2>1, <2>3, <2>6, <3>2, StaysForging
  <2> QED
    BY <1>3, <2>4, <2>5, <2>6 DEF FileStep
<1> QED
  BY <1>2, <1>3 DEF ForgeChanges

-----------------------------------------------------------------------------
(* Failing before the rows have changed.                                   *)
LEMMA GoesToFailing ==
  ASSUME LibraryInv, job.at \in {"preparing", "forging", "downloading", "changing"},
         job.op \in OfPacks \cup {"create"}, ~TxAt("cleaning"), To("failing"),
         TxShape', tx'.at = "none",
         UNCHANGED <<listed, version, enabled, source, disk, torn, excused, place, loader,
                     registered, active, profile, halfway, previews>>
  PROVE  LibraryInv'
<1>1. /\ Shape /\ b0 \in Builds /\ ~JobAt("idle") /\ \A b \in listed : ~Trashing(b)
  BY DEF LibraryInv, PhaseInv, JobAt, Trashing
<1>2. JobShape' /\ job'.at = "failing"
      /\ job'.op = job.op /\ job'.build = job.build /\ job'.stack = job.stack
      /\ job'.pack = job.pack
  BY <1>1, MovesOn DEF Shape
<1>3. RowShape' /\ DiskShape' /\ KeepsForge /\ Disturbs
  BY <1>1, FilesKept DEF Shape, RowShape
<1>4. Calm
  BY <1>1, <1>3, CalmIfKept DEF Shape
<1>5. PhaseInv' /\ SwitchInv'
  BY <1>1, <1>2 DEF LibraryInv, PhaseInv, SwitchInv, JobAt, NewPack, OnListed, OfPacks, b0
<1>6. TxInv' /\ NextInv'
  BY <1>2 DEF TxInv, TxAt, NextInv, Carried
<1> QED
  BY <1>1, <1>2, <1>3, <1>4, <1>5, <1>6, GoesOnCalmly

LEMMA ForgeFailsKeeps == ASSUME LibraryInv, ForgeFails PROVE LibraryInv'
<1>1. /\ JobAt("forging") /\ To("failing") /\ ~TxAt("cleaning")
      /\ UNCHANGED <<listed, version, enabled, source, disk, torn, excused, place, loader,
                     registered, active, profile, halfway, previews>>
  BY DEF ForgeFails, rowVars, shelfVars, Undone, TxAt
<1>2. TxShape' /\ tx'.at = "none"
  BY TxEnds DEF ForgeFails, EndChanges
<1>3. job.op \in OfPacks \cup {"create"}
  BY <1>1, Preparing
<1> QED
  BY <1>1, <1>2, <1>3, GoesToFailing DEF JobAt

LEMMA NewPackFailsKeeps == ASSUME LibraryInv, NewPackFails PROVE LibraryInv'
<1>1. /\ JobAt("changing") /\ NewPack /\ To("failing") /\ ~TxAt("cleaning")
      /\ UNCHANGED <<listed, version, enabled, source, disk, torn, excused, place, loader,
                     registered, active, profile, halfway, previews>>
  BY DEF NewPackFails, rowVars, shelfVars, Undone, TxAt
<1>2. TxShape' /\ tx'.at = "none"
  BY TxEnds DEF NewPackFails, EndChanges
<1>3. job.op \in OfPacks \cup {"create"}
  BY <1>1 DEF NewPack, OfPacks
<1> QED
  BY <1>1, <1>2, <1>3, GoesToFailing DEF JobAt

LEMMA PreparationFailsKeeps == ASSUME LibraryInv, PreparationFails PROVE LibraryInv'
<1>1. /\ job.at \in {"preparing", "downloading"} /\ To("failing")
      /\ UNCHANGED <<listed, version, enabled, source, disk, torn, excused, place, loader,
                     registered, active, profile, halfway, previews, tx>>
  BY DEF PreparationFails, rowVars, shelfVars, fileVars
<1>2. TxShape' /\ tx'.at = "none" /\ ~TxAt("cleaning")
  BY <1>1, NoTxThen DEF JobAt, TxAt, LibraryInv, Shape, TxShape
<1>3. job.op \in OfPacks \cup {"create"}
  BY <1>1 DEF LibraryInv, PhaseInv
<1> QED
  BY <1>1, <1>2, <1>3, GoesToFailing

LEMMA FailPreparationKeeps == ASSUME LibraryInv, FailPreparation PROVE LibraryInv'
<1>1. /\ JobAt("failing") /\ job' = Answer("failed")
      /\ UNCHANGED <<listed, version, enabled, source, tx, loader, registered, active,
                     profile, halfway, previews>>
  BY DEF FailPreparation, rowVars, Fail
<1>2. /\ Shape /\ b0 \in Builds /\ tx.at = "none" /\ (NewPack => b0 \notin listed)
      /\ \A b \in listed : ~Trashing(b)
  BY <1>1, NoTxThen DEF LibraryInv, PhaseInv, JobAt, TxAt, Trashing
<1>3. JobShape' /\ job'.at = "idle"
  BY <1>1, <1>2, ComesToAnEnd DEF Shape
<1>4. TxShape' /\ tx'.at = "none" /\ RowShape'
  BY <1>1, <1>2 DEF Shape, TxShape, RowShape
<1>5. CASE RemovesDirectory /\ RemoveDirectory(b0)
  <2>1. b0 \notin listed
    BY <1>2, <1>5 DEF RemovesDirectory
  <2>2. DiskShape' /\ Calm
    BY <1>1, <1>2, <1>5, <2>1, RemovedDirectory
  <2> QED
    BY <1>2, <1>3, <1>4, <2>2, EndsCalmly
<1>6. CASE UNCHANGED <<place, disk, torn, excused>>
  <2>1. DiskShape' /\ KeepsForge /\ Disturbs
    BY <1>1, <1>2, <1>6, FilesKept
  <2>2. Calm
    BY <1>1, <1>2, <1>6, <2>1, CalmIfKept DEF Shape
  <2> QED
    BY <1>2, <1>3, <1>4, <2>1, <2>2, EndsCalmly
<1> QED
  BY <1>5, <1>6 DEF FailPreparation

-----------------------------------------------------------------------------
(* Rows appear.                                                            *)
LEMMA InsertBuildKeeps == ASSUME LibraryInv, InsertBuild PROVE LibraryInv'
<1>1. /\ JobAt("inserting")
      /\ UNCHANGED <<version, enabled, source, excused, disk, tx, torn, place, registered,
                     previews>>
  BY DEF InsertBuild
<1>2. CASE Fail /\ UNCHANGED <<listed, active, loader, halfway, profile>>
  <2>1. Untouched
    BY <1>1, <1>2 DEF Untouched
  <2> QED
    BY <1>1, <1>2, <2>1, EndsUntouched DEF JobAt, Fail
<1>3. CASE /\ To("selecting")
           /\ listed' = listed \cup {b0} /\ active' = {b0}
           /\ loader' = [loader EXCEPT ![b0] = job.loader]
           /\ halfway' = TRUE
  <2>1. /\ Shape /\ tx.at = "none" /\ job.op = "create" /\ job.pack = NoPack
        /\ job.stack = <<>>
    BY <1>1, NoTxThen DEF LibraryInv, PhaseInv, JobAt
  <2>2. PICK b \in Builds : b = b0
    BY <1>1 DEF LibraryInv, PhaseInv, JobAt
  <2>3. JobShape' /\ job'.at = "selecting"
        /\ job'.op = job.op /\ job'.build = b /\ job'.stack = job.stack
        /\ job'.pack = job.pack
    BY <1>3, <2>1, <2>2, MovesOn DEF Shape, b0
  <2>4. TxShape' /\ RowShape' /\ DiskShape' /\ tx'.at = "none"
    BY <1>1, <1>3, <2>1, <2>2 DEF Shape, TxShape, RowShape, DiskShape
  <2>5. PhaseInv' /\ SwitchInv' /\ TxInv' /\ NextInv'
    BY <1>3, <2>1, <2>2, <2>3, <2>4 DEF PhaseInv, SwitchInv, TxInv, NextInv, Carried, JobAt,
                                        TxAt, NewPack, OnListed, OfPacks, b0
  <2>6. SelectionInv'
    BY <1>3, <2>2 DEF SelectionInv
  <2>7. \A x \in Builds : /\ Disturbed(x)' <=> Disturbed(x)
                          /\ ForgeThere(x)' <=> ForgeThere(x)
    BY <1>1 DEF Disturbed, ForgeThere, Has
  <2>8. ASSUME NEW x \in listed, x # b PROVE Launchable(x)'
    <3>1. loader'[x] = loader[x] /\ place'[x] = place[x] /\ x \in Builds
      BY <1>1, <1>3, <2>1, <2>2, <2>8 DEF Shape, DiskShape, RowShape
    <3>2. ~Trashing(x)
      BY <1>1 DEF Trashing, JobAt
    <3> QED
      BY <1>1, <2>7, <3>1, <3>2, StaysLaunchable
  <2>9. Launchable(b)'
    <3>1. job.loader \in registered /\ (job.loader = "forge" => ForgeThere(b))
      BY <1>1, <2>2 DEF LibraryInv, ShelfInv, NextInv, Carried, JobAt
    <3>2. loader'[b] = job.loader
      BY <1>3, <2>1, <2>2 DEF Shape, DiskShape
    <3>3. ~Disturbed(b) => place[b] = "instances"
      <4>1. CASE b \notin listed
        BY <1>1, <2>2, <4>1 DEF LibraryInv, ShelfInv, NextInv, JobAt
      <4>2. CASE b \in listed
        BY <1>1, <4>2 DEF LibraryInv, ShelfInv, Launchable, Trashing, JobAt
      <4> QED
        BY <4>1, <4>2
    <3> QED
      BY <1>1, <2>7, <3>1, <3>2, <3>3 DEF Launchable
  <2>10. \A x \in listed' : Launchable(x)'
    BY <1>3, <2>2, <2>8, <2>9
  <2> QED
    BY <2>3, <2>4, <2>5, <2>6, <2>10 DEF LibraryInv, Shape, ShelfInv
<1> QED
  BY <1>2, <1>3 DEF InsertBuild

LEMMA FinishSelectingKeeps == ASSUME LibraryInv, FinishSelecting PROVE LibraryInv'
<1>1. /\ JobAt("selecting")
      /\ UNCHANGED <<listed, version, enabled, source, excused, disk, tx, torn, place,
                     loader, registered, previews>>
  BY DEF FinishSelecting, rowVars
<1>2. CASE Fail /\ UNCHANGED <<active, profile, halfway>>
  <2>1. Untouched
    BY <1>1, <1>2 DEF Untouched
  <2> QED
    BY <1>1, <1>2, <2>1, EndsUntouched DEF JobAt, Fail
<1>3. CASE Select(b0) /\ job' = Answer("ok")
  <2>1. Shape /\ tx.at = "none" /\ b0 \in listed
    BY <1>1, NoTxThen DEF LibraryInv, PhaseInv, JobAt
  <2>2. JobShape' /\ job'.at = "idle"
    BY <1>3, <2>1, ComesToAnEnd DEF Shape
  <2>3. TxShape' /\ RowShape' /\ DiskShape' /\ tx'.at = "none"
    BY <1>1, <2>1 DEF Shape, TxShape, RowShape, DiskShape
  <2>4. PhaseInv' /\ SwitchInv' /\ TxInv' /\ NextInv'
    BY <2>2, <2>3, IdleKnowsNothing
  <2>5. SelectionInv'
    BY <1>1, <1>3, <2>1 DEF SelectionInv, Select
  <2>6. ASSUME NEW x \in listed PROVE Launchable(x)'
    <3>1. /\ Disturbed(x)' <=> Disturbed(x)
          /\ ForgeThere(x)' <=> ForgeThere(x)
          /\ ~Trashing(x)
      BY <1>1 DEF Disturbed, ForgeThere, Has, Trashing, JobAt
    <3> QED
      BY <1>1, <3>1, StaysLaunchable
  <2> QED
    BY <1>1, <2>2, <2>3, <2>4, <2>5, <2>6 DEF LibraryInv, Shape, ShelfInv
<1> QED
  BY <1>2, <1>3 DEF FinishSelecting

LEMMA CommitPackKeeps == ASSUME LibraryInv, CommitPack PROVE LibraryInv'
<1>1. /\ JobAt("changing") /\ AllChanged /\ job.pack # NoPack
      /\ UNCHANGED <<job, disk, place, registered, previews>>
  BY DEF CommitPack
<1>2. /\ Shape /\ b0 \in Builds /\ tx.build = b0 /\ Within(UserPaths) /\ ~TxAt("cleaning")
      /\ job.op \in OfPacks \cup {"install", "remove", "import"}
      /\ job.op \in OnListed => b0 \in listed
      /\ NewPack => b0 \notin listed
  BY <1>1, Changing DEF AllChanged, TxAt
<1>3. CASE /\ Undo
           /\ UNCHANGED <<version, enabled, listed, source, loader, active, profile, halfway,
                          excused, torn>>
  <2>1. TxShape' /\ Within(UserPaths)' /\ tx'.build = tx.build /\ tx'.at # "none"
    BY <1>2, <1>3, Undoing
  <2>2. Touches(b0, UserPaths) /\ TearsAtMost
    BY <1>1, <1>2, <1>3, NothingTouched DEF Shape, TearsAtMost, DiskShape
  <2>3. RowShape'
    BY <1>1, <1>2, <1>3 DEF Shape, RowShape
  <2> QED
    BY <1>1, <1>2, <1>3, <2>1, <2>2, <2>3, StaysChanging DEF ShelfUntouched
<1>4. CASE /\ Record(b0, job.commit)
           /\ listed' = listed \cup {b0}
           /\ source' = [source EXCEPT ![b0] = job.pack]
           /\ loader' = [loader EXCEPT ![b0] = job.loader]
           /\ IF NewPack \/ b0 \in active THEN Select(b0)
              ELSE UNCHANGED <<active, profile, halfway>>
           /\ excused' = [excused EXCEPT ![b0] = @ \/ TakesName(b0, job.pack) \/ NamesTwice(job.pack)]
           /\ torn' = [torn EXCEPT ![b0] = @ \/ LeavesBehind(b0, job.pack)]
           /\ tx' = [tx EXCEPT !.at = "cleaning"]
  <2>1. PICK b \in Builds : b = b0
    BY <1>2
  <2>2. JobShape' /\ b0' = b
    BY <1>1, <1>2, <2>1 DEF Shape, JobShape, b0
  <2>3. /\ TxShape' /\ tx'.at = "cleaning" /\ tx'.build = b /\ tx'.todo = tx.todo
        /\ tx'.done = tx.done
    BY <1>2, <1>4, <2>1, TxMoves DEF Shape
  <2>4. RowShape'
    <3>1. /\ version' \in [Builds -> [Projects -> 0..MaxVersion]]
          /\ enabled' \in [Builds -> [Projects -> BOOLEAN]]
      BY <1>2, <1>4, RecordKeeps DEF Shape, JobShape
    <3>2. source' \in [Builds -> Packs \cup {NoPack}]
      BY <1>2, <1>4 DEF Shape, JobShape, RowShape
    <3> QED
      BY <1>1, <1>2, <1>4, <3>1, <3>2 DEF Shape, RowShape
  <2>5. DiskShape'
    <3>1. /\ TakesName(b0, job.pack) \in BOOLEAN /\ NamesTwice(job.pack) \in BOOLEAN
          /\ LeavesBehind(b0, job.pack) \in BOOLEAN
      BY DEF TakesName, NamesTwice, LeavesBehind
    <3>2. torn' \in [Builds -> BOOLEAN] /\ excused' \in [Builds -> BOOLEAN]
      BY <1>2, <1>4, <3>1 DEF Shape, DiskShape
    <3> QED
      BY <1>1, <1>2, <1>4, <3>2 DEF Shape, DiskShape
  <2>6. PhaseInv' /\ SwitchInv'
    BY <1>1, <1>2, <1>4, <2>1, <2>2, <2>3 DEF LibraryInv, PhaseInv, SwitchInv, JobAt, TxAt,
                                             NewPack, OnListed, OfPacks
  <2>7. TxInv'
    BY <1>1, <1>2, <2>2, <2>3 DEF TxInv, JobAt, TxAt, Within
  <2>8. /\ \A x \in Builds : ForgeThere(x)' <=> ForgeThere(x)
        /\ ForgeThere(b0)' <=> ForgeThere(b)
    BY <1>1, <2>1, <2>2 DEF ForgeThere, Has
  <2>9. job.loader \in registered /\ (job.loader = "forge" => ForgeThere(b))
    BY <1>1, <2>1 DEF LibraryInv, ShelfInv, NextInv, Carried, JobAt
  <2>10. NextInv'
    BY <1>1, <1>4, <2>1, <2>2, <2>8, <2>9 DEF NextInv, Carried, JobAt
  <2>11. SelectionInv'
    <3>1. CASE NewPack \/ b \in active
      BY <1>4, <2>1, <3>1 DEF SelectionInv, Select
    <3>2. CASE ~NewPack /\ b \notin active
      <4>1. b \in listed
        BY <1>2, <2>1, <3>2 DEF NewPack, OfPacks, OnListed
      <4>2. listed' = listed /\ UNCHANGED <<active, profile, halfway>>
        BY <1>4, <2>1, <3>2, <4>1
      <4> QED
        BY <4>2 DEF LibraryInv, SelectionInv
    <3> QED
      BY <3>1, <3>2
  <2>12. ASSUME NEW x \in listed, x # b PROVE Launchable(x)'
    <3>1. /\ loader'[x] = loader[x] /\ place'[x] = place[x] /\ x \in Builds
          /\ torn'[x] = torn[x] /\ excused'[x] = excused[x]
      BY <1>1, <1>2, <1>4, <2>1, <2>12 DEF Shape, DiskShape, RowShape
    <3>2. ~Trashing(x)
      BY <1>1 DEF Trashing, JobAt
    <3>3. Disturbed(x) => Disturbed(x)'
      BY <3>1 DEF Disturbed
    <3> QED
      BY <1>1, <2>8, <3>1, <3>2, <3>3, StaysLaunchable
  <2>13. Launchable(b)'
    <3>1. loader'[b] = job.loader
      BY <1>2, <1>4, <2>1 DEF Shape, DiskShape
    <3>2. ~Disturbed(b)' => ~Disturbed(b)
      <4>1. /\ torn'[b] = (torn[b] \/ LeavesBehind(b0, job.pack))
            /\ excused'[b] = (excused[b] \/ TakesName(b0, job.pack) \/ NamesTwice(job.pack))
        BY <1>2, <1>4, <2>1 DEF Shape, DiskShape
      <4> QED
        BY <4>1 DEF Disturbed
    <3>3. ~Disturbed(b) => place[b] = "instances"
      <4>1. CASE b \notin listed
        BY <1>1, <2>1, <4>1 DEF LibraryInv, ShelfInv, NextInv, JobAt
      <4>2. CASE b \in listed
        BY <1>1, <4>2 DEF LibraryInv, ShelfInv, Launchable, Trashing, JobAt
      <4> QED
        BY <4>1, <4>2
    <3> QED
      BY <1>1, <2>8, <2>9, <3>1, <3>2, <3>3 DEF Launchable
  <2>14. \A x \in listed' : Launchable(x)'
    BY <1>4, <2>1, <2>12, <2>13
  <2> QED
    BY <2>2, <2>3, <2>4, <2>5, <2>6, <2>7, <2>10, <2>11, <2>14 DEF LibraryInv, Shape, ShelfInv
<1> QED
  BY <1>3, <1>4 DEF CommitPack

-----------------------------------------------------------------------------
(* Copies.                                                                 *)
LEMMA Copying ==
  ASSUME LibraryInv, job.at \in {"copying", "insertingCopy", "copyingRows"}
  PROVE  /\ Shape /\ b0 \in Builds /\ job.from \in listed /\ job.from \in Builds
         /\ ~JobAt("copyingRows") => b0 \notin listed
         /\ job.op = "copy" /\ job.stack = <<>> /\ tx.at = "none" /\ ~NewPack
         /\ \A x \in listed : ~Trashing(x)
<1>1. /\ Shape /\ b0 \in Builds /\ job.from \in listed
      /\ ~JobAt("copyingRows") => b0 \notin listed
      /\ job.op = "copy" /\ job.stack = <<>> /\ tx.at = "none"
  BY DEF LibraryInv, PhaseInv, TxInv, ShelfInv, NextInv, JobAt, TxAt
<1> QED
  BY <1>1 DEF Trashing, JobAt, Shape, RowShape, NewPack

LEMMA CopyFilesKeeps == ASSUME LibraryInv, CopyFiles PROVE LibraryInv'
<1>1. /\ JobAt("copying")
      /\ UNCHANGED <<listed, version, enabled, source, tx, active, profile, loader,
                     registered, previews, halfway>>
  BY DEF CopyFiles, rowVars
<1>2. CASE Fail /\ UNCHANGED <<place, disk, torn, excused>>
  <2>1. Untouched
    BY <1>1, <1>2 DEF Untouched
  <2> QED
    BY <1>1, <1>2, <2>1, EndsUntouched DEF JobAt, Fail
<1>3. CASE /\ To("insertingCopy") /\ MakeDirectory(b0)
           /\ disk' = [disk EXCEPT ![b0] = disk[job.from]]
           /\ torn' = [torn EXCEPT ![b0] = torn[job.from]]
           /\ excused' = [excused EXCEPT ![b0] = excused[job.from]]
  <2>1. /\ Shape /\ b0 \in Builds /\ job.from \in listed /\ job.from \in Builds
        /\ b0 \notin listed /\ job.op = "copy" /\ job.stack = <<>> /\ tx.at = "none"
        /\ \A x \in listed : ~Trashing(x)
    BY <1>1, Copying DEF JobAt
  <2>2. PICK b \in Builds, from \in listed : b = b0 /\ from = job.from
    BY <2>1
  <2>3. JobShape' /\ job'.at = "insertingCopy"
        /\ job'.op = job.op /\ job'.build = b /\ job'.stack = job.stack
        /\ job'.pack = job.pack /\ job'.from = from
    BY <1>3, <2>1, <2>2, MovesOn DEF Shape, b0
  <2>4. from \in Builds /\ from # b /\ b \notin listed
    BY <2>1, <2>2
  <2>5. /\ place'[b] = "instances" /\ disk'[b] = disk'[from]
        /\ torn'[b] = torn'[from] /\ excused'[b] = excused'[from]
    BY <1>3, <2>1, <2>2, <2>4 DEF Shape, DiskShape, MakeDirectory
  <2>6. DiskShape'
    <3>1. disk[from] \in [Paths -> Contents] /\ torn[from] \in BOOLEAN
          /\ excused[from] \in BOOLEAN
      BY <2>1, <2>4 DEF Shape, DiskShape
    <3>2. disk' \in [Builds -> [Paths -> Contents]]
      BY <1>3, <2>1, <2>2, <3>1 DEF Shape, DiskShape
    <3>3. torn' \in [Builds -> BOOLEAN] /\ excused' \in [Builds -> BOOLEAN]
      BY <1>3, <2>1, <2>2, <3>1 DEF Shape, DiskShape
    <3> QED
      BY <1>1, <1>3, <2>1, <3>2, <3>3 DEF Shape, DiskShape, MakeDirectory
  <2>7. \A x \in listed : /\ x \in Builds /\ place'[x] = place[x] /\ disk'[x] = disk[x]
                          /\ torn'[x] = torn[x] /\ excused'[x] = excused[x]
    BY <1>3, <2>1, <2>2, <2>4 DEF Shape, DiskShape, RowShape, MakeDirectory
  <2>8. Calm
    BY <1>1, <2>7 DEF Calm, Disturbs, Disturbed, ForgeThere, Has
  <2>9. TxShape' /\ RowShape' /\ tx'.at = "none"
    BY <1>1, <2>1 DEF Shape, TxShape, RowShape
  <2>10. PhaseInv' /\ SwitchInv' /\ TxInv'
    BY <1>1, <2>1, <2>3, <2>9 DEF PhaseInv, SwitchInv, TxInv, JobAt, TxAt, NewPack, OnListed,
                                  OfPacks, b0
  <2>11. NextInv'
    <3>1. b0' = b
      BY <2>3 DEF b0
    <3> QED
      BY <1>1, <2>3, <2>4, <2>5, <3>1 DEF NextInv, Carried
  <2> QED
    BY <2>1, <2>3, <2>6, <2>8, <2>9, <2>10, <2>11, GoesOnCalmly
<1> QED
  BY <1>2, <1>3 DEF CopyFiles

LEMMA InsertCopyKeeps == ASSUME LibraryInv, InsertCopy PROVE LibraryInv'
<1>1. /\ JobAt("insertingCopy")
      /\ UNCHANGED <<version, enabled, source, tx, active, profile, registered, previews,
                     halfway>>
  BY DEF InsertCopy
<1>2. /\ Shape /\ b0 \in Builds /\ job.from \in listed /\ job.from \in Builds
      /\ b0 \notin listed /\ job.op = "copy" /\ job.stack = <<>> /\ tx.at = "none"
      /\ \A x \in listed : ~Trashing(x)
  BY <1>1, Copying DEF JobAt
<1>3. CASE Fail /\ RemoveDirectory(b0) /\ UNCHANGED <<listed, loader>>
  <2>1. JobShape' /\ job'.at = "idle"
    BY <1>2, <1>3, ComesToAnEnd DEF Shape, Fail
  <2>2. TxShape' /\ tx'.at = "none" /\ RowShape'
    BY <1>1, <1>2, <1>3 DEF Shape, TxShape, RowShape
  <2>3. DiskShape' /\ Calm
    BY <1>1, <1>2, <1>3, RemovedDirectory
  <2> QED
    BY <1>2, <2>1, <2>2, <2>3, EndsCalmly
<1>5. CASE Fail /\ UNCHANGED <<place, disk, torn, excused, listed, loader>>
  <2>1. Untouched
    BY <1>1, <1>5 DEF Untouched
  <2> QED
    BY <1>1, <1>5, <2>1, EndsUntouched DEF JobAt, Fail
<1>6. CASE /\ Fail /\ torn' = [torn EXCEPT ![b0] = TRUE]
           /\ listed' = listed \cup {b0}
           /\ loader' = [loader EXCEPT ![b0] = loader[job.from]]
           /\ UNCHANGED <<place, disk, excused>>
  <2>1. JobShape' /\ job'.at = "idle"
    BY <1>2, <1>6, ComesToAnEnd DEF Shape, Fail
  <2>2. TxShape' /\ RowShape' /\ DiskShape' /\ tx'.at = "none"
    BY <1>1, <1>2, <1>6 DEF Shape, TxShape, RowShape, DiskShape
  <2>3. PhaseInv' /\ SwitchInv' /\ TxInv' /\ NextInv'
    BY <2>1, <2>2, IdleKnowsNothing
  <2>4. SelectionInv'
    BY <1>1, <1>2, <1>6 DEF LibraryInv, SelectionInv
  <2>5. \A x \in Builds : ForgeThere(x)' <=> ForgeThere(x)
    BY <1>6 DEF ForgeThere, Has
  <2>6. ASSUME NEW x \in listed PROVE Launchable(x)'
    <3>1. /\ loader'[x] = loader[x] /\ place'[x] = place[x] /\ x \in Builds
          /\ torn'[x] = torn[x] /\ excused'[x] = excused[x]
      BY <1>2, <1>6, <2>6 DEF Shape, DiskShape, RowShape
    <3>2. Disturbed(x) <=> Disturbed(x)'
      BY <3>1 DEF Disturbed
    <3> QED
      BY <1>1, <1>2, <2>5, <3>1, <3>2, StaysLaunchable
  <2>7. ASSUME NEW x \in listed', x \notin listed PROVE Launchable(x)'
    <3>1. PICK from \in listed : from = job.from
      BY <1>2
    <3>2. x = b0
      BY <1>6, <2>7
    <3>3. torn'[x] /\ loader'[x] = loader[from]
      BY <1>2, <1>6, <3>1, <3>2 DEF Shape, DiskShape
    <3>4. loader[from] \in registered
      BY <3>1 DEF LibraryInv, ShelfInv, Launchable
    <3> QED
      BY <1>1, <3>3, <3>4 DEF Launchable, Disturbed
  <2> QED
    BY <1>6, <2>1, <2>2, <2>3, <2>4, <2>6, <2>7 DEF LibraryInv, Shape, ShelfInv
<1>4. CASE /\ To("copyingRows")
           /\ listed' = listed \cup {b0}
           /\ loader' = [loader EXCEPT ![b0] = loader[job.from]]
           /\ UNCHANGED <<place, disk, torn, excused>>
  <2>1. PICK b \in Builds, from \in listed : b = b0 /\ from = job.from
    BY <1>2
  <2>2. JobShape' /\ job'.at = "copyingRows"
        /\ job'.op = job.op /\ job'.build = b /\ job'.stack = job.stack
        /\ job'.pack = job.pack /\ job'.from = from
    BY <1>2, <1>4, <2>1, MovesOn DEF Shape, b0
  <2>3. TxShape' /\ RowShape' /\ DiskShape' /\ tx'.at = "none"
    BY <1>1, <1>2, <1>4, <2>1 DEF Shape, TxShape, RowShape, DiskShape
  <2>4. PhaseInv' /\ SwitchInv' /\ TxInv'
    BY <1>1, <1>2, <2>2, <2>3 DEF PhaseInv, SwitchInv, TxInv, JobAt, TxAt, NewPack, OnListed,
                                  OfPacks, b0
  <2>5. NextInv'
    BY <1>4, <2>1, <2>2 DEF NextInv, Carried
  <2>6. SelectionInv'
    BY <1>1, <1>2, <1>4 DEF LibraryInv, SelectionInv
  <2>7. \A x \in Builds : /\ Disturbed(x)' <=> Disturbed(x)
                          /\ ForgeThere(x)' <=> ForgeThere(x)
    BY <1>4 DEF Disturbed, ForgeThere, Has
  <2>8. ASSUME NEW x \in listed PROVE Launchable(x)'
    <3>1. loader'[x] = loader[x] /\ place'[x] = place[x] /\ x \in Builds
      BY <1>2, <1>4, <2>1, <2>8 DEF Shape, DiskShape, RowShape
    <3> QED
      BY <1>1, <1>2, <2>7, <3>1, StaysLaunchable
  <2>9. Launchable(b)'
    <3>1. Launchable(from) /\ ~Trashing(from)
      BY <1>2, <2>1 DEF LibraryInv, ShelfInv
    <3>2. /\ place[b] = "instances" /\ disk[b] = disk[from]
          /\ torn[b] = torn[from] /\ excused[b] = excused[from]
      BY <1>1, <2>1 DEF LibraryInv, ShelfInv, NextInv, JobAt
    <3>3. loader'[b] = loader[from]
      BY <1>2, <1>4, <2>1 DEF Shape, DiskShape
    <3>4. ForgeThere(from) => ForgeThere(b)
      BY <3>2 DEF ForgeThere, Has
    <3>5. Disturbed(b) <=> Disturbed(from)
      BY <3>2 DEF Disturbed
    <3> QED
      BY <1>1, <1>4, <2>7, <3>1, <3>2, <3>3, <3>4, <3>5 DEF Launchable
  <2>10. \A x \in listed' : Launchable(x)'
    BY <1>4, <2>1, <2>8, <2>9
  <2> QED
    BY <2>2, <2>3, <2>4, <2>5, <2>6, <2>10 DEF LibraryInv, Shape, ShelfInv
<1> QED
  BY <1>3, <1>4, <1>5, <1>6 DEF InsertCopy

(* The rows of a copy; an error leaves it torn.                            *)
LEMMA CopiesOn ==
  ASSUME LibraryInv, JobAt("copyingRows"), UNCHANGED <<job, disk, torn, tx>>, ShelfUntouched,
         RowShape'
  PROVE  LibraryInv'
<1>1. /\ Shape /\ b0 \in Builds /\ job.from \in listed
      /\ job.op = "copy" /\ job.stack = <<>> /\ tx.at = "none" /\ ~NewPack
      /\ \A x \in listed : ~Trashing(x)
  BY Copying DEF JobAt
<1>2. JobShape' /\ TxShape' /\ b0' = b0
  BY <1>1 DEF Shape, JobShape, TxShape, b0
<1>3. DiskShape' /\ KeepsForge /\ Disturbs
  BY <1>1, FilesKept DEF ShelfUntouched
<1>4. Calm
  BY <1>1, <1>3, CalmIfKept DEF Shape, ShelfUntouched
<1>5. PhaseInv' /\ SwitchInv' /\ TxInv'
  BY <1>1 DEF PhaseInv, SwitchInv, TxInv, JobAt, TxAt, NewPack, OnListed, OfPacks, b0
<1>6. NextInv'
  BY <1>1 DEF NextInv, Carried, JobAt, ShelfUntouched
<1> QED
  BY <1>1, <1>2, <1>3, <1>4, <1>5, <1>6, GoesOnCalmly

LEMMA CopyTears ==
  ASSUME LibraryInv, JobAt("copyingRows"), UNCHANGED <<disk, tx>>, ShelfUntouched,
         UNCHANGED <<version, enabled, source, previews>>,
         job' = Answer("failed"), torn' = [torn EXCEPT ![b0] = TRUE]
  PROVE  LibraryInv'
<1>1. Shape /\ b0 \in Builds /\ tx.at = "none"
  BY Copying DEF JobAt
<1>2. JobShape' /\ job'.at = "idle"
  BY <1>1, ComesToAnEnd DEF Shape
<1>3. TxShape' /\ RowShape' /\ tx'.at = "none"
  BY <1>1 DEF Shape, TxShape, RowShape, ShelfUntouched
<1>4. Touches(b0, UserPaths) /\ TearsAtMost
  BY <1>1, NothingTouched, TearingKeeps DEF Shape
<1> QED
  BY <1>2, <1>3, <1>4, EndsInContent DEF JobAt

LEMMA CopySourceKeeps == ASSUME LibraryInv, CopySource PROVE LibraryInv'
<1>1. /\ JobAt("copyingRows") /\ ShelfUntouched
      /\ UNCHANGED <<version, enabled, disk, tx, previews>>
  BY DEF CopySource, shelfVars, ShelfUntouched
<1>2. Shape /\ b0 \in Builds /\ job.from \in Builds
  BY <1>1, Copying DEF JobAt
<1>3. CASE source' = [source EXCEPT ![b0] = source[job.from]] /\ UNCHANGED <<job, torn>>
  <2>1. RowShape'
    BY <1>1, <1>2, <1>3 DEF Shape, RowShape, ShelfUntouched
  <2> QED
    BY <1>1, <1>3, <2>1, CopiesOn
<1>4. CASE /\ job' = Answer("failed") /\ torn' = [torn EXCEPT ![b0] = TRUE]
           /\ UNCHANGED source
  BY <1>1, <1>4, CopyTears
<1> QED
  BY <1>3, <1>4 DEF CopySource, Fail

LEMMA CopyRowKeeps == ASSUME LibraryInv, CopyRow PROVE LibraryInv'
<1>1. /\ JobAt("copyingRows") /\ ShelfUntouched /\ Missing # {}
      /\ UNCHANGED <<listed, source, disk, tx, previews>>
  BY DEF CopyRow, shelfVars, ShelfUntouched
<1>2. Shape /\ b0 \in Builds /\ job.from \in Builds
  BY <1>1, Copying DEF JobAt
<1>3. PICK p \in Projects : p = CHOOSE q \in Missing : TRUE
  BY <1>1 DEF Missing
<1> DEFINE row == <<p, version[job.from][p], enabled[job.from][p]>>
<1>4. CASE Record(b0, {row}) /\ UNCHANGED <<job, torn>>
  <2>1. row \in Rows
    BY <1>2, <1>3 DEF Shape, RowShape, Rows
  <2> HIDE DEF row
  <2>2. RowShape'
    BY <1>1, <1>2, <1>4, <2>1, RecordKeeps
  <2> QED
    BY <1>1, <1>4, <2>2, CopiesOn
<1>5. CASE /\ job' = Answer("failed") /\ torn' = [torn EXCEPT ![b0] = TRUE]
           /\ UNCHANGED <<version, enabled>>
  BY <1>1, <1>5, CopyTears
<1> QED
  BY <1>3, <1>4, <1>5 DEF CopyRow, Fail

LEMMA EndCopyKeeps == ASSUME LibraryInv, EndCopy PROVE LibraryInv'
<1>1. JobAt("copyingRows") /\ job' = Answer("ok") /\ Untouched
  BY DEF EndCopy, shelfVars, rowVars, fileVars, Untouched
<1> QED
  BY <1>1, EndsUntouched DEF JobAt

-----------------------------------------------------------------------------
(* Throwing a build away.                                                  *)
LEMMA Deleting ==
  ASSUME LibraryInv, job.at \in {"deleting", "deletingRow", "movingBack"}
  PROVE  /\ Shape /\ b0 \in Builds /\ b0 \in listed /\ job.op = "delete"
         /\ job.stack = <<>> /\ tx.at = "none"
         /\ \A x \in listed : x # b0 => ~Trashing(x)
BY DEF LibraryInv, PhaseInv, TxInv, JobAt, TxAt, OnListed, Trashing

LEMMA DeletesOn ==
  ASSUME LibraryInv, job.at \in {"deleting", "deletingRow"},
         NEW phase \in {"deletingRow", "movingBack"}, To(phase),
         UNCHANGED <<listed, version, enabled, source, excused, disk, tx, torn, active,
                     profile, loader, registered, previews, halfway>>,
         DOMAIN place' = Builds, \A x \in listed : x # b0 => place'[x] = place[x],
         Disturbed(b0) \/ place'[b0] = "trash" \/ place'[b0] = "instances"
  PROVE  LibraryInv'
<1>1. /\ Shape /\ b0 \in Builds /\ b0 \in listed /\ job.op = "delete"
      /\ job.stack = <<>> /\ tx.at = "none"
      /\ \A x \in listed : x # b0 => ~Trashing(x)
  BY Deleting
<1>2. JobShape' /\ job'.at = phase
      /\ job'.op = job.op /\ job'.build = job.build /\ job'.stack = job.stack
      /\ job'.pack = job.pack
  BY <1>1, MovesOn DEF Shape
<1>3. b0' = b0
  BY <1>2 DEF b0
<1>4. TxShape' /\ RowShape' /\ DiskShape' /\ tx'.at = "none"
  BY <1>1 DEF Shape, TxShape, RowShape, DiskShape
<1>5. PhaseInv' /\ SwitchInv' /\ TxInv' /\ NextInv'
  BY <1>1, <1>2, <1>3, <1>4 DEF PhaseInv, SwitchInv, TxInv, NextInv, Carried, JobAt, TxAt,
                                NewPack, OnListed, OfPacks
<1>6. SelectionInv'
  BY DEF LibraryInv, SelectionInv
<1>7. ASSUME NEW x \in listed PROVE Launchable(x)'
  <2>1. /\ Disturbed(x)' <=> Disturbed(x)
        /\ ForgeThere(x)' <=> ForgeThere(x)
    BY DEF Disturbed, ForgeThere, Has
  <2>2. CASE x # b0
    BY <1>1, <2>1, <2>2, StaysLaunchable
  <2>3. CASE x = b0
    <3>1. Trashing(x)'
      BY <1>2, <1>3, <2>3 DEF Trashing
    <3>2. Launchable(x)
      BY DEF LibraryInv, ShelfInv
    <3> QED
      BY <2>1, <2>3, <3>1, <3>2 DEF Launchable
  <2> QED
    BY <2>2, <2>3
<1> QED
  BY <1>2, <1>4, <1>5, <1>6, <1>7 DEF LibraryInv, Shape, ShelfInv

LEMMA MoveToTrashKeeps == ASSUME LibraryInv, MoveToTrash PROVE LibraryInv'
<1>1. /\ JobAt("deleting")
      /\ UNCHANGED <<listed, version, enabled, source, excused, disk, tx, torn, active,
                     profile, loader, registered, previews, halfway>>
  BY DEF MoveToTrash, rowVars
<1>2. Shape /\ b0 \in Builds /\ b0 \in listed
  BY <1>1, Deleting DEF JobAt
<1>3. CASE Fail /\ UNCHANGED place
  <2>1. Untouched
    BY <1>1, <1>3 DEF Untouched
  <2> QED
    BY <1>1, <1>3, <2>1, EndsUntouched DEF JobAt, Fail
<1>4. CASE /\ To("deletingRow")
           /\ place' = [place EXCEPT ![b0] = IF @ = "instances" THEN "trash" ELSE "lost"]
  <2>1. DOMAIN place' = Builds /\ \A x \in listed : x # b0 => place'[x] = place[x]
    BY <1>2, <1>4 DEF Shape, DiskShape, RowShape
  <2>2. Disturbed(b0) \/ place[b0] = "instances"
    <3>1. Launchable(b0) /\ ~Trashing(b0)
      BY <1>1, <1>2 DEF LibraryInv, ShelfInv, Trashing, JobAt
    <3> QED
      BY <3>1 DEF Launchable
  <2>3. Disturbed(b0) \/ place'[b0] = "trash"
    BY <1>2, <1>4, <2>2 DEF Shape, DiskShape
  <2> QED
    BY <1>1, <1>4, <2>1, <2>3, DeletesOn DEF JobAt
<1> QED
  BY <1>3, <1>4 DEF MoveToTrash

LEMMA DeleteRowsKeeps == ASSUME LibraryInv, DeleteRows PROVE LibraryInv'
<1>1. /\ JobAt("deletingRow")
      /\ UNCHANGED <<excused, disk, tx, torn, place, loader, registered, previews>>
  BY DEF DeleteRows
<1>2. /\ Shape /\ b0 \in Builds /\ b0 \in listed /\ tx.at = "none"
      /\ \A x \in listed : x # b0 => ~Trashing(x)
  BY <1>1, Deleting DEF JobAt
<1>3. CASE To("movingBack") /\ UNCHANGED <<rowVars, active, profile, halfway>>
  <2>1. DOMAIN place' = Builds /\ \A x \in listed : x # b0 => place'[x] = place[x]
    BY <1>1, <1>2 DEF Shape, DiskShape
  <2>2. UNCHANGED <<listed, version, enabled, source>>
    BY <1>3 DEF rowVars
  <2>3. Disturbed(b0) \/ place'[b0] = "trash" \/ place'[b0] = "instances"
    BY <1>1, <1>2 DEF LibraryInv, ShelfInv, Launchable
  <2> QED
    BY <1>1, <1>3, <2>1, <2>2, <2>3, DeletesOn DEF JobAt
<1>4. CASE /\ job' = Answer("ok")
           /\ listed' = listed \ {b0}
           /\ source' = [source EXCEPT ![b0] = NoPack]
           /\ version' = [version EXCEPT ![b0] = [p \in Projects |-> 0]]
           /\ enabled' = [enabled EXCEPT ![b0] = [p \in Projects |-> TRUE]]
           /\ IF b0 \notin active THEN UNCHANGED <<active, profile, halfway>>
              ELSE IF listed' = {} THEN active' = {} /\ UNCHANGED profile /\ halfway' = FALSE
              ELSE \E b \in listed' : Select(b)
  <2>1. JobShape' /\ job'.at = "idle"
    BY <1>2, <1>4, ComesToAnEnd DEF Shape
  <2>2. TxShape' /\ DiskShape' /\ tx'.at = "none"
    BY <1>1, <1>2 DEF Shape, TxShape, DiskShape
  <2>3. RowShape'
    <3>1. 0 \in 0..MaxVersion
      BY ContentAssumption
    <3>2. version' \in [Builds -> [Projects -> 0..MaxVersion]]
      BY <1>2, <1>4, <3>1 DEF Shape, RowShape
    <3>3. enabled' \in [Builds -> [Projects -> BOOLEAN]]
      BY <1>2, <1>4 DEF Shape, RowShape
    <3> QED
      BY <1>1, <1>2, <1>4, <3>2, <3>3 DEF Shape, RowShape
  <2>4. PhaseInv' /\ SwitchInv' /\ TxInv' /\ NextInv'
    BY <2>1, <2>2, IdleKnowsNothing
  <2>5. SelectionInv'
    <3>1. CASE b0 \notin active
      <4>1. PICK b \in listed : active = {b}
        BY <1>2 DEF LibraryInv, SelectionInv
      <4>2. b \in listed' /\ UNCHANGED <<active, profile, halfway>>
        BY <1>4, <3>1, <4>1
      <4> QED
        BY <4>1, <4>2 DEF LibraryInv, SelectionInv
    <3>2. CASE b0 \in active /\ listed' = {} /\ active' = {}
      BY <3>2 DEF SelectionInv
    <3>3. CASE \E b \in listed' : Select(b)
      BY <3>3 DEF SelectionInv, Select
    <3> QED
      BY <1>4, <3>1, <3>2, <3>3
  <2>6. ASSUME NEW x \in listed' PROVE Launchable(x)'
    <3>1. x \in listed /\ x # b0
      BY <1>4, <2>6
    <3>2. /\ Disturbed(x)' <=> Disturbed(x)
          /\ ForgeThere(x)' <=> ForgeThere(x)
      BY <1>1 DEF Disturbed, ForgeThere, Has
    <3> QED
      BY <1>1, <1>2, <3>1, <3>2, StaysLaunchable
  <2> QED
    BY <2>1, <2>2, <2>3, <2>4, <2>5, <2>6 DEF LibraryInv, Shape, ShelfInv
<1> QED
  BY <1>3, <1>4 DEF DeleteRows

LEMMA MoveBackKeeps == ASSUME LibraryInv, MoveBack PROVE LibraryInv'
<1>1. /\ JobAt("movingBack") /\ job' = Answer("failed")
      /\ UNCHANGED <<listed, version, enabled, source, excused, disk, tx, active, profile,
                     loader, registered, previews, halfway>>
  BY DEF MoveBack, rowVars, Fail
<1>2. /\ Shape /\ b0 \in Builds /\ b0 \in listed /\ tx.at = "none"
      /\ \A x \in listed : x # b0 => ~Trashing(x)
  BY <1>1, Deleting DEF JobAt
<1>3. JobShape' /\ job'.at = "idle"
  BY <1>1, <1>2, ComesToAnEnd DEF Shape
<1>4. \/ /\ UNCHANGED torn
         /\ place' = [place EXCEPT ![b0] = IF @ = "trash" THEN "instances" ELSE @]
      \/ torn' = [torn EXCEPT ![b0] = TRUE] /\ UNCHANGED place
  BY DEF MoveBack
<1>5. TxShape' /\ RowShape' /\ DiskShape' /\ tx'.at = "none"
  BY <1>1, <1>2, <1>4 DEF Shape, TxShape, RowShape, DiskShape
<1>6. PhaseInv' /\ SwitchInv' /\ TxInv' /\ NextInv'
  BY <1>3, <1>5, IdleKnowsNothing
<1>7. SelectionInv'
  BY <1>1 DEF LibraryInv, SelectionInv
<1>8. ASSUME NEW x \in listed PROVE Launchable(x)'
  <2>1. ForgeThere(x)' <=> ForgeThere(x)
    BY <1>1 DEF ForgeThere, Has
  <2>2. x \in Builds
    BY <1>2 DEF Shape, RowShape
  <2>3. CASE x # b0
    <3>1. place'[x] = place[x] /\ torn'[x] = torn[x]
      BY <1>2, <1>4, <2>2, <2>3 DEF Shape, DiskShape
    <3>2. Disturbed(x)' <=> Disturbed(x)
      BY <1>1, <3>1 DEF Disturbed
    <3> QED
      BY <1>1, <1>2, <2>1, <2>3, <3>1, <3>2, StaysLaunchable
  <2>4. CASE x = b0
    <3>1. Launchable(x)
      BY DEF LibraryInv, ShelfInv
    <3>2. Disturbed(x) \/ place[x] = "trash" \/ place[x] = "instances"
      BY <3>1 DEF Launchable
    <3>3. \/ place'[x] = "instances" /\ (Disturbed(x)' <=> Disturbed(x))
          \/ Disturbed(x)'
      BY <1>1, <1>2, <1>4, <2>4, <3>2 DEF Shape, DiskShape, Disturbed
    <3> QED
      BY <1>1, <2>1, <3>1, <3>3 DEF Launchable
  <2> QED
    BY <2>3, <2>4
<1> QED
  BY <1>1, <1>3, <1>5, <1>6, <1>7, <1>8 DEF LibraryInv, Shape, ShelfInv

-----------------------------------------------------------------------------
(* The core ends; what it was about to put right stays torn.               *)
LEMMA EndProcessKeeps == ASSUME LibraryInv, EndProcess PROVE LibraryInv'
<1> DEFINE half == IF job.at \in {"recording", "renamingBack", "copyingRows",
                                  "deletingRow", "movingBack"} THEN {b0} ELSE {}
<1>1. /\ AbandonChanges(half) /\ previews' = {}
      /\ job' = [NoJob EXCEPT !.answer = "crashed"]
      /\ UNCHANGED <<listed, version, enabled, source, excused, disk, active, profile, place,
                     loader, registered, halfway>>
  BY DEF EndProcess, rowVars
<1>2. Shape
  BY DEF LibraryInv
<1>3. JobShape' /\ job'.at = "idle"
  BY <1>1, <1>2, ComesToAnEnd DEF Shape
<1>4. TxShape' /\ tx'.at = "none"
  BY <1>1, TxEnds DEF AbandonChanges
<1>5. RowShape'
  BY <1>1, <1>2 DEF Shape, RowShape
<1>6. \A b \in Builds : \E also \in BOOLEAN : torn'[b] = (torn[b] \/ b \in half \/ also)
  <2> SUFFICES ASSUME NEW b \in Builds
               PROVE  \E also \in BOOLEAN : torn'[b] = (torn[b] \/ b \in half \/ also)
    OBVIOUS
  <2> DEFINE own == b = tx.build /\ tx.done # <<>> /\ tx.at # "cleaning"
  <2>1. torn'[b] = (torn[b] \/ b \in half \/ own)
    BY <1>1 DEF AbandonChanges
  <2>2. own \in BOOLEAN
    OBVIOUS
  <2> QED
    BY <2>1, <2>2
<1>7. /\ \A b \in Builds : torn[b] \/ b \in half => torn'[b]
      /\ torn' \in [Builds -> BOOLEAN]
  <2>1. \A b \in Builds : torn[b] \in BOOLEAN
    BY <1>2 DEF Shape, DiskShape
  <2>2. \A b \in Builds : (torn[b] \/ b \in half => torn'[b]) /\ torn'[b] \in BOOLEAN
    BY <1>6, <2>1
  <2>3. torn' = [b \in Builds |-> torn'[b]]
    BY <1>1 DEF AbandonChanges
  <2> QED
    BY <2>2, <2>3
<1>8. TearsAtMost /\ DiskShape' /\ KeepsForge /\ Disturbs
  BY <1>1, <1>2, <1>7 DEF TearsAtMost, Shape, DiskShape, RowShape, KeepsForge, Disturbs,
                          Disturbed
<1>9. Calm
  BY <1>1, <1>2, <1>8, CalmIfKept DEF Shape
<1>10. ASSUME NEW b \in listed, Trashing(b) PROVE Disturbed(b)'
  BY <1>2, <1>7, <1>10 DEF Trashing, Disturbed, Shape, RowShape
<1> QED
  BY <1>3, <1>4, <1>5, <1>8, <1>9, <1>10, EndsCalmly

-----------------------------------------------------------------------------
LEMMA InitIsWhole == LibraryInit => LibraryInv
<1> SUFFICES ASSUME LibraryInit PROVE LibraryInv
  OBVIOUS
<1> USE DEF LibraryInit, ContentInit, FilesInit
<1>1. /\ DOMAIN job = JobFields /\ job.at = "idle" /\ job.stack = <<>> /\ job.commit = {}
      /\ job.pack = NoPack
  BY DEF NoJob, JobFields
<1>2. JobShape
  BY <1>1, NothingSpecial DEF JobShape
<1>3. tx.at = "none" /\ TxShape
  <2>1. /\ DOMAIN tx = {"at", "build", "todo", "done", "failed"}
        /\ tx.at = "none" /\ tx.todo = <<>> /\ tx.done = <<>>
    BY DEF NoTx
  <2>2. <<>> \in Seq(Changes) /\ <<>> \in Seq(Saved)
    BY EmptySeq
  <2> QED
    BY <2>1, <2>2 DEF TxShape
<1>4. RowShape /\ DiskShape
  <2>1. 0 \in 0..MaxVersion
    BY ContentAssumption
  <2> QED
    BY <2>1 DEF RowShape, DiskShape, Contents
<1>5. PhaseInv /\ SwitchInv /\ TxInv /\ ShelfInv /\ SelectionInv
  BY <1>1, <1>3 DEF PhaseInv, SwitchInv, TxInv, ShelfInv, NextInv, Carried, SelectionInv,
                    JobAt, TxAt
<1> QED
  BY <1>2, <1>3, <1>4, <1>5 DEF LibraryInv, Shape

LEMMA LibraryNextKeeps == LibraryInv /\ LibraryNext => LibraryInv'
<1> SUFFICES ASSUME LibraryInv, LibraryNext PROVE LibraryInv'
  OBVIOUS
<1>1. CASE ContentStep /\ UNCHANGED shelfVars
  BY <1>1, GiveUpKeeps, TakeRequirementKeeps, DescendToRequirementKeeps, InstallTopKeeps,
     RenameContentKeeps, RecordToggleKeeps, RenameBackKeeps, CancelPackKeeps, WriteRowsKeeps,
     FinishKeeps, FailChangesKeeps, RunChangesKeeps DEF ContentStep
<1>2. CASE LibraryStep /\ ~(ContentStep /\ UNCHANGED shelfVars)
  BY <1>2, RegisterProfileKeeps, RegisterForgeKeeps, RunForgeInstallerKeeps, FinishForgeKeeps,
     ForgeChangesKeeps, ForgeFailsKeeps, FailPreparationKeeps, InsertBuildKeeps,
     FinishSelectingKeeps, CommitPackKeeps, StagePackKeeps, NewPackFailsKeeps, CopyFilesKeeps,
     InsertCopyKeeps, CopySourceKeeps, CopyRowKeeps, EndCopyKeeps, MoveToTrashKeeps,
     DeleteRowsKeeps, MoveBackKeeps DEF LibraryStep
<1>3. CASE PreparationFails \/ PreviewPack \/ EndProcess
  BY <1>3, PreparationFailsKeeps, PreviewPackKeeps, EndProcessKeeps
<1>4. ASSUME NEW b \in Builds,
             \/ CreateBuild(b) \/ InstallNewPack(b) \/ ConfirmPack(b) \/ CopyBuild(b)
             \/ SelectBuild(b) \/ DeleteBuild(b)
      PROVE  LibraryInv'
  BY <1>4, CreateBuildKeeps, InstallNewPackKeeps, ConfirmPackKeeps, CopyBuildKeeps,
     SelectBuildKeeps, DeleteBuildKeeps
<1>5. ASSUME NEW b \in Builds, ContentCall(b) \/ EditConfig(b) \/ TakeFile(b),
             UNCHANGED shelfVars
      PROVE  LibraryInv'
  BY <1>5, InstallProjectKeeps, RemoveContentKeeps, ImportLocalKeeps, ToggleKeeps,
     InstallPackKeeps, RepairBuildKeeps, EditConfigKeeps, TakeFileKeeps DEF ContentCall
<1> QED
  BY <1>1, <1>2, <1>3, <1>4, <1>5 DEF LibraryNext

LEMMA StutteringIsCalm == LibraryInv /\ UNCHANGED libraryVars => LibraryInv'
<1> SUFFICES ASSUME LibraryInv, UNCHANGED libraryVars PROVE LibraryInv'
  OBVIOUS
<1>1. UNCHANGED <<job, tx, listed, version, enabled, source, excused, disk, torn, active,
                  profile, place, loader, registered, previews, halfway>>
  BY DEF libraryVars, shelfVars, contentVars, fileVars
<1>2. Shape'
  BY <1>1 DEF LibraryInv, Shape, JobShape, TxShape, RowShape, DiskShape
<1>3. PhaseInv' /\ SwitchInv'
  BY <1>1 DEF LibraryInv, PhaseInv, SwitchInv, JobAt, TxAt, NewPack, b0, Installed
<1>4. TxInv'
  BY <1>1 DEF LibraryInv, TxInv, JobAt, TxAt, Has, b0
<1>5. NextInv'
  BY <1>1 DEF LibraryInv, ShelfInv, NextInv, Carried, JobAt, Disturbed, ForgeThere, Has, b0,
              Wanted
<1>6. SelectionInv' /\ \A b \in listed' : Launchable(b)'
  BY <1>1 DEF LibraryInv, ShelfInv, SelectionInv, Launchable, Disturbed, Trashing, ForgeThere,
              Has, b0
<1> QED
  BY <1>2, <1>3, <1>4, <1>5, <1>6 DEF LibraryInv, ShelfInv

(* Whatever the builds, packs and paths are: an operation knows what it is *)
(* at, its transaction touches its own build only, the files of Forge are  *)
(* touched by their installer only, and what has a row can be launched,    *)
(* or is remembered as torn, or is on its way to the trash (content.rs,    *)
(* storage/mod.rs).                                                        *)
THEOREM LibraryIsConsistent == LibrarySpec => []LibraryInv
<1>1. LibraryInv /\ [LibraryNext]_libraryVars => LibraryInv'
  BY LibraryNextKeeps, StutteringIsCalm
<1> QED
  BY InitIsWhole, <1>1, PTL DEF LibrarySpec

(* One build is active if there are any, it has a row, and the profile is  *)
(* that of the active build unless a creation was interrupted.             *)
THEOREM SelectionsAreWhole == LibrarySpec => []SelectionIsWhole
<1>1. LibraryInv => SelectionIsWhole
  BY FS_EmptySet, FS_Singleton DEF LibraryInv, SelectionInv, SelectionIsWhole
<1> QED
  BY <1>1, LibraryIsConsistent, PTL

(* Between two operations a listed build that is not torn has its loader   *)
(* registered, its directory in place and, with Forge, both of its files.  *)
THEOREM ListedBuildsCanBeLaunched == LibrarySpec => []ListedCanBeLaunched
<1>1. LibraryInv => ListedCanBeLaunched
  BY DEF LibraryInv, ShelfInv, Launchable, Trashing, Disturbed, ForgeThere, JobAt,
         ListedCanBeLaunched
<1> QED
  BY <1>1, LibraryIsConsistent, PTL

-----------------------------------------------------------------------------
(* Repairs.                                                                *)
LEMMA Untampered ==
  ASSUME LibraryInv, UNCHANGED disk
  PROVE  Touches(b0, Others)
BY NothingTouched DEF LibraryInv, Shape

LEMMA RepairEnds ==
  ASSUME LibraryInv, ~job'.repairing, UNCHANGED disk \/ ~job.repairing
  PROVE  RepairStep
BY Untampered DEF RepairStep

LEMMA RepairEndsNow ==
  ASSUME LibraryInv, UNCHANGED disk \/ ~job.repairing, NEW verdict,
         \/ job' = Answer(verdict)
         \/ job' = [Answer(verdict) EXCEPT !.stack = job.stack]
         \/ job' = [NoJob EXCEPT !.answer = verdict]
         \/ job' = NoJob
  PROVE  RepairStep
<1>1. job'.repairing = FALSE
  BY ComesToAnEnd DEF LibraryInv, Shape
<1> QED
  BY <1>1, RepairEnds

LEMMA RepairGoesOn ==
  ASSUME LibraryInv, RepairInv, UNCHANGED disk \/ ~job.repairing,
         job'.repairing = job.repairing, job'.op = job.op,
         job'.at \notin {"idle", "changing", "forging"}
  PROVE  RepairStep
BY Untampered DEF RepairStep, RepairInv

LEMMA RepairMoves ==
  ASSUME LibraryInv, RepairInv, UNCHANGED disk \/ ~job.repairing, NEW phase, To(phase),
         phase \notin {"idle", "changing", "forging"}
  PROVE  RepairStep
BY RepairGoesOn, MovesOn DEF LibraryInv, Shape

LEMMA RepairWorks ==
  ASSUME LibraryInv, RepairInv, UNCHANGED job, FileStep
  PROVE  RepairStep
BY DEF RepairStep, RepairInv, JobAt

LEMMA RepairTurns ==
  ASSUME LibraryInv, RepairInv, UNCHANGED <<job, disk>>, TurnsTx
  PROVE  RepairStep
BY Untampered DEF RepairStep, RepairInv, JobAt

LEMMA UndoTurns ==
  ASSUME LibraryInv, Undo, ~TxAt("none")
  PROVE  TurnsTx
<1>1. TxShape
  BY DEF LibraryInv, Shape
<1> QED
  BY <1>1, TxMoves DEF Undo, TurnsTx

(* Changes that keep away from the path.                                   *)
LEMMA RepairBegins ==
  ASSUME LibraryInv, RepairInv, UNCHANGED disk, b0 \in Builds,
         NEW U, U \subseteq Paths, NEW changes \in Seq(ChangesOf(U)), BeginChanges(b0, changes),
         ConfigPath \notin U \/ ~job.repairing \/ disk[b0][ConfigPath] = Absent,
         job'.repairing = job.repairing, job'.op = job.op, job'.at \in {"changing", "forging"}
  PROVE  RepairStep
<1>1. ChangesOf(U) \subseteq Changes
  BY DEF ChangesOf, Changes
<1>2. changes \in Seq(Changes)
  BY <1>1, SeqMonotonic
<1>3. tx'.build = b0 /\ tx'.todo = changes /\ tx'.done = <<>>
  BY <1>2, TxBegins
<1>4. ConfigPath \notin U => Within(Others)'
  <2> SUFFICES ASSUME ConfigPath \notin U PROVE Within(Others)'
    OBVIOUS
  <2>1. ASSUME NEW i \in 1..Len(changes) PROVE changes[i].path \in Others
    <3>1. changes[i] \in ChangesOf(U)
      BY ElementOfSeq
    <3> QED
      BY <3>1 DEF ChangesOf, Others
  <2>2. 1..Len(tx'.done) = {}
    BY <1>3, EmptySeq
  <2> QED
    BY <1>3, <2>1, <2>2 DEF Within
<1>5. job.repairing => BeginsApart
  BY <1>3, <1>4 DEF BeginsApart
<1> QED
  BY <1>5, Untampered DEF RepairStep, RepairInv, JobAt

-----------------------------------------------------------------------------
(* Every step is such a step.                                              *)
StartsAs(op, b, at) ==
  \E stack, commit, l, k, from :
    \/ job' = [Start(op, b) EXCEPT !.at = at, !.stack = stack]
    \/ job' = [Start(op, b) EXCEPT !.at = at, !.commit = commit]
    \/ job' = [Start(op, b) EXCEPT !.at = at, !.pack = k]
    \/ job' = [Start(op, b) EXCEPT !.at = at, !.loader = l]
    \/ job' = [Start(op, b) EXCEPT !.at = at, !.from = from]
    \/ job' = [Start(op, b) EXCEPT !.at = at]

LEMMA StartsAsSuch ==
  ASSUME NEW op, NEW b, NEW at, StartsAs(op, b, at)
  PROVE  job'.at = at /\ job'.op = op /\ job'.build = b /\ ~job'.repairing
<1> DEFINE r == Start(op, b)
<1>1. DOMAIN r = JobFields /\ r.op = op /\ r.build = b
  BY Starts
<1>2. ~r.repairing
  BY StartsAsNew
<1>3. \E stack, commit, l, k, from :
        \/ job' = [r EXCEPT !.at = at, !.stack = stack]
        \/ job' = [r EXCEPT !.at = at, !.commit = commit]
        \/ job' = [r EXCEPT !.at = at, !.pack = k]
        \/ job' = [r EXCEPT !.at = at, !.loader = l]
        \/ job' = [r EXCEPT !.at = at, !.from = from]
        \/ job' = [r EXCEPT !.at = at]
  BY DEF StartsAs
<1> HIDE DEF r
<1> QED
  BY <1>1, <1>2, <1>3 DEF JobFields

(* What a call begins, on a build that is listed or new.                   *)
Beginnings == {"resolving", "changing", "renaming", "preparing", "copying", "selecting",
               "deleting"}
Calls(b) ==
  \/ \E op, at : StartsAs(op, b, at) /\ at \in Beginnings
                 /\ (op \in Creations => place[b] = "nowhere")
  \/ job' = Answer("expired")

(* Only one of them is an installation.                                    *)
OnlyInstalls(b) ==
  job'.op = "install" => InstallProject(b) \/ (job'.at = "idle" /\ job'.answer # "ok")

LEMMA ExpiresSo ==
  ASSUME job' = Answer("expired")
  PROVE  job'.at = "idle" /\ job'.answer # "ok"
BY Answers

LEMMA CallsStart ==
  ASSUME NEW b \in Builds,
         \/ InstallProject(b) \/ RemoveContent(b) \/ ImportLocal(b) \/ Toggle(b)
         \/ InstallPack(b) \/ CreateBuild(b) \/ InstallNewPack(b) \/ ConfirmPack(b)
         \/ CopyBuild(b) \/ SelectBuild(b) \/ DeleteBuild(b)
  PROVE  JobAt("idle") /\ Calls(b) /\ OnlyInstalls(b)
<1>1. JobAt("idle")
  BY DEF InstallProject, RemoveContent, ImportLocal, Toggle, InstallPack, CreateBuild,
         InstallNewPack, ConfirmPack, CopyBuild, SelectBuild, DeleteBuild, Call
<1>2. Calls(b) /\ OnlyInstalls(b)
  <2>1. CASE InstallProject(b)
    <3>1. StartsAs("install", b, "resolving")
      BY <2>1 DEF InstallProject, StartsAs
    <3> QED
      BY <2>1, <3>1, StartsAsSuch DEF Calls, OnlyInstalls, Creations, Beginnings
  <2>2. CASE RemoveContent(b)
    <3>1. StartsAs("remove", b, "changing")
      BY <2>2 DEF RemoveContent, StartsAs
    <3> QED
      BY <3>1, StartsAsSuch DEF Calls, OnlyInstalls, Creations, Beginnings
  <2>3. CASE ImportLocal(b)
    <3>1. PICK p \in Locals :
            job' = [Start("import", b) EXCEPT !.at = "changing",
                      !.commit = {<<p, 1, ~Installed(b, p) \/ enabled[b][p]>>}]
      BY <2>3 DEF ImportLocal
    <3> DEFINE commit == {<<p, 1, ~Installed(b, p) \/ enabled[b][p]>>}
    <3>2. job' = [Start("import", b) EXCEPT !.at = "changing", !.commit = commit]
      BY <3>1
    <3> HIDE DEF commit
    <3>3. StartsAs("import", b, "changing")
      BY <3>2 DEF StartsAs
    <3> QED
      BY <3>3, StartsAsSuch DEF Calls, OnlyInstalls, Creations, Beginnings
  <2>4. CASE Toggle(b)
    <3>1. PICK p \in Projects :
            job' = [Start("toggle", b) EXCEPT !.at = "renaming",
                      !.commit = {<<p, version[b][p], ~enabled[b][p]>>}]
      BY <2>4 DEF Toggle
    <3> DEFINE commit == {<<p, version[b][p], ~enabled[b][p]>>}
    <3>2. job' = [Start("toggle", b) EXCEPT !.at = "renaming", !.commit = commit]
      BY <3>1
    <3> HIDE DEF commit
    <3>3. StartsAs("toggle", b, "renaming")
      BY <3>2 DEF StartsAs
    <3> QED
      BY <3>3, StartsAsSuch DEF Calls, OnlyInstalls, Creations, Beginnings
  <2>5. CASE InstallPack(b)
    <3>1. StartsAs("pack", b, "preparing")
      BY <2>5 DEF InstallPack, StartsAs
    <3> QED
      BY <3>1, StartsAsSuch DEF Calls, OnlyInstalls, Creations, Beginnings
  <2>6. CASE CreateBuild(b)
    <3>1. StartsAs("create", b, "preparing") /\ place[b] = "nowhere"
      BY <2>6 DEF CreateBuild, StartsAs, IsNew
    <3> QED
      BY <3>1, StartsAsSuch DEF Calls, OnlyInstalls, Creations, Beginnings
  <2>7. CASE InstallNewPack(b)
    <3>1. StartsAs("newPack", b, "preparing") /\ place[b] = "nowhere"
      BY <2>7 DEF InstallNewPack, StartsAs, IsNew
    <3> QED
      BY <3>1, StartsAsSuch DEF Calls, OnlyInstalls, Creations, Beginnings
  <2>8. CASE ConfirmPack(b)
    <3>1. StartsAs("confirmed", b, "preparing") \/ job' = Answer("expired")
      BY <2>8 DEF ConfirmPack, StartsAs
    <3>2. place[b] = "nowhere"
      BY <2>8 DEF ConfirmPack, IsNew
    <3> QED
      BY <3>1, <3>2, StartsAsSuch, ExpiresSo DEF Calls, OnlyInstalls, Beginnings
  <2>9. CASE CopyBuild(b)
    <3>1. StartsAs("copy", b, "copying")
      BY <2>9 DEF CopyBuild, StartsAs
    <3> QED
      BY <3>1, StartsAsSuch DEF Calls, OnlyInstalls, Creations, Beginnings
  <2>10. CASE SelectBuild(b)
    <3>1. StartsAs("select", b, "selecting")
      BY <2>10 DEF SelectBuild, StartsAs
    <3> QED
      BY <3>1, StartsAsSuch DEF Calls, OnlyInstalls, Creations, Beginnings
  <2>11. CASE DeleteBuild(b)
    <3>1. StartsAs("delete", b, "deleting")
      BY <2>11 DEF DeleteBuild, StartsAs
    <3> QED
      BY <3>1, StartsAsSuch DEF Calls, OnlyInstalls, Creations, Beginnings
  <2> QED
    BY <2>1, <2>2, <2>3, <2>4, <2>5, <2>6, <2>7, <2>8, <2>9, <2>10, <2>11
<1> QED
  BY <1>1, <1>2

LEMMA CallsBeginAnew ==
  ASSUME LibraryInv, RepairInv, NEW b \in Builds, JobAt("idle"), Calls(b)
  PROVE  RepairStep
<1>1. ~job.repairing
  BY DEF RepairInv
<1>2. CASE \E op, at : StartsAs(op, b, at)
  BY <1>1, <1>2, StartsAsSuch, RepairEnds
<1> QED
  BY <1>1, <1>2, RepairEndsNow DEF Calls

LEMMA RepairCalls ==
  ASSUME NEW b \in Builds, RepairBuild(b)
  PROVE  /\ JobAt("idle") /\ UNCHANGED disk
         /\ job'.op = "repair" /\ job'.at = "preparing" /\ job'.build = b
<1> DEFINE r == Start("repair", b)
           frames == {[project |-> p, version |-> version[b][p],
                       requires |-> IF p \in CurseForge THEN Requires[p] ELSE <<>>] :
                      p \in {p \in Projects \ Locals : Installed(b, p)}}
           stack == IF source[b] = NoPack THEN SetToSeq(frames) ELSE <<>>
           r1 == [r EXCEPT !.repairing = TRUE]
<1>1. JobAt("idle") /\ UNCHANGED disk
  BY DEF RepairBuild, Call, fileVars
<1>2. DOMAIN r1 = JobFields /\ r1.op = "repair" /\ r1.build = b
  <2>1. DOMAIN r = JobFields /\ r.op = "repair" /\ r.build = b
    BY Starts
  <2> HIDE DEF r
  <2> QED
    BY <2>1 DEF JobFields
<1>3. job' = [[[r1 EXCEPT !.at = "preparing"] EXCEPT !.pack = source[b]]
               EXCEPT !.stack = stack]
  BY DEF RepairBuild
<1> HIDE DEF r1, stack
<1>4. job'.op = "repair" /\ job'.at = "preparing" /\ job'.build = b
  BY <1>2, <1>3 DEF JobFields
<1> QED
  BY <1>1, <1>4

LEMMA ContentOfOthers == ContentPaths \subseteq Others
BY ContentAssumption DEF Others

LEMMA ContentRepairs ==
  ASSUME LibraryInv, RepairInv, ContentStep
  PROVE  RepairStep
<1>0. Shape /\ JobShape /\ DOMAIN job = JobFields
  BY DEF LibraryInv, Shape, JobShape
<1>1. CASE GiveUp
  BY <1>1, RepairEndsNow DEF GiveUp, Fail, fileVars
<1>2. CASE TakeRequirement
  <2>1. JobAt("resolving") /\ Top.requires # <<>> /\ UNCHANGED disk
    BY <1>2 DEF TakeRequirement, fileVars
  <2>2. CASE job' = NextRequirement
    BY <2>1, <2>2, NextRequirementIsOne, RepairGoesOn
  <2>3. CASE job' = [job EXCEPT !.at = "renaming",
                       !.commit = {<<Needed.project, version[b0][Needed.project], TRUE>>}]
    <3> DEFINE commit == {<<Needed.project, version[b0][Needed.project], TRUE>>}
    <3>1. job' = [job EXCEPT !.at = "renaming", !.commit = commit]
      BY <2>3
    <3> HIDE DEF commit
    <3>2. job'.at = "renaming" /\ job'.op = job.op /\ job'.repairing = job.repairing
      BY <1>0, <3>1 DEF JobFields
    <3> QED
      BY <2>1, <3>2, RepairGoesOn
  <2> QED
    BY <1>2, <2>2, <2>3 DEF TakeRequirement
<1>3. CASE DescendToRequirement
  <2>1. JobAt("resolving") /\ UNCHANGED disk
    BY <1>3 DEF DescendToRequirement, fileVars
  <2>2. CASE Fail
    BY <2>1, <2>2, RepairEndsNow DEF Fail
  <2>3. CASE \E stack : job' = [job EXCEPT !.stack = stack]
    <3>1. job'.at = job.at /\ job'.op = job.op /\ job'.repairing = job.repairing
      BY <1>0, <2>3 DEF JobFields
    <3> QED
      BY <2>1, <3>1, RepairGoesOn DEF JobAt
  <2> QED
    BY <1>3, <2>2, <2>3 DEF DescendToRequirement
<1>4. CASE InstallTop
  <2>1. JobAt("resolving") /\ UNCHANGED disk /\ b0 \in Builds /\ Top \in Frames
    BY <1>4, Resolving DEF InstallTop
  <2>2. PICK p \in Projects, v \in Versions : p = Top.project /\ v = Top.version
    BY <2>1 DEF Frames
  <2>3. CASE Fail
    BY <2>1, <2>3, RepairEndsNow DEF Fail
  <2>4. CASE /\ BeginChanges(b0, Update(p, v))
             /\ job' = [job EXCEPT !.at = "changing", !.commit = {<<p, v, StaysOn(p)>>}]
    <3>1. Update(p, v) \in Seq(ChangesOf(ContentPaths))
      BY <1>0, <2>1, UpdateOfContent DEF Shape
    <3> DEFINE commit == {<<p, v, StaysOn(p)>>}
    <3>2. job' = [job EXCEPT !.at = "changing", !.commit = commit]
      BY <2>4
    <3> HIDE DEF commit
    <3>3. job'.at = "changing" /\ job'.op = job.op /\ job'.repairing = job.repairing
      BY <1>0, <3>2 DEF JobFields
    <3>4. ContentPaths \subseteq Paths /\ ConfigPath \notin ContentPaths
      BY ContentAssumption
    <3> QED
      BY <2>1, <2>4, <3>1, <3>3, <3>4, RepairBegins
  <2> QED
    BY <1>4, <2>2, <2>3, <2>4 DEF InstallTop
<1>5. CASE RenameContent
  <2>1. /\ JobAt("renaming") /\ b0 \in Builds
        /\ OldPath \in ContentPaths /\ NewPath \in ContentPaths
    BY <1>5, Switched DEF RenameContent, Switching, JobAt
  <2>2. CASE Fail /\ UNCHANGED disk
    BY <2>2, RepairEndsNow DEF Fail
  <2>3. CASE Move(OldPath, NewPath) /\ To("recording")
    <3>1. Touches(b0, Others)
      BY <1>0, <2>1, <2>3, MovedFile, ContentOfOthers
    <3>2. job'.at = "recording" /\ job'.op = job.op /\ job'.repairing = job.repairing
      BY <1>0, <2>3, MovesOn
    <3> QED
      BY <3>1, <3>2 DEF RepairStep, RepairInv
  <2> QED
    BY <1>5, <2>2, <2>3 DEF RenameContent
<1>6. CASE RecordToggle
  BY <1>6, RepairEndsNow, RepairMoves DEF RecordToggle
<1>7. CASE RenameBack
  <2>1. /\ JobAt("renamingBack") /\ b0 \in Builds
        /\ OldPath \in ContentPaths /\ NewPath \in ContentPaths
    BY <1>7, Switched DEF RenameBack, Switching, JobAt
  <2>2. Touches(b0, Others)
    BY <1>0, <1>7, <2>1, MovedFile, ContentOfOthers, Untampered DEF RenameBack
  <2>3. job'.repairing = FALSE
    BY <1>0, <1>7, ComesToAnEnd DEF RenameBack, Fail
  <2> QED
    BY <2>2, <2>3 DEF RepairStep
<1>8. CASE CancelPack
  BY <1>8, UndoTurns, RepairTurns DEF CancelPack, contentVars, TxAt
<1>9. CASE WriteRows
  <2>1. UNCHANGED <<job, disk>> /\ ~TxAt("none")
    BY <1>9 DEF WriteRows, AllChanged, TxAt
  <2>2. TurnsTx
    <3>1. CASE tx' = [tx EXCEPT !.at = "cleaning"]
      BY <1>0, <2>1, <3>1, TxMoves DEF TurnsTx, Shape
    <3> QED
      BY <1>9, <2>1, <3>1, UndoTurns DEF WriteRows
  <2> QED
    BY <2>1, <2>2, RepairTurns
<1>10. CASE Finish
  <2>1. UNCHANGED disk
    BY <1>10 DEF Finish
  <2>2. CASE job' = [Answer("ok") EXCEPT !.stack = job.stack]
    BY <2>1, <2>2, RepairEndsNow
  <2>3. CASE \/ job' = [job EXCEPT !.at = "resolving", !.stack = Tail(@)]
             \/ job' = [job EXCEPT !.at = "selecting", !.stack = <<>>]
    <3>1. /\ job'.at \in {"resolving", "selecting"} /\ job'.op = job.op
          /\ job'.repairing = job.repairing
      BY <1>0, <2>3 DEF JobFields
    <3> QED
      BY <2>1, <3>1, RepairGoesOn
  <2> QED
    BY <1>10, <2>2, <2>3 DEF Finish
<1>11. CASE FailChanges
  BY <1>11, RepairEndsNow DEF FailChanges, Fail
<1>12. CASE RunChanges
  BY <1>12, RepairWorks DEF RunChanges, contentVars
<1> QED
  BY <1>1, <1>2, <1>3, <1>4, <1>5, <1>6, <1>7, <1>8, <1>9, <1>10, <1>11, <1>12
     DEF ContentStep

LEMMA LibraryRepairs ==
  ASSUME LibraryInv, RepairInv, LibraryStep
  PROVE  RepairStep
<1>0. Shape /\ JobShape /\ DOMAIN job = JobFields
  BY DEF LibraryInv, Shape, JobShape
<1>1. CASE ContentStep
  BY <1>1, ContentRepairs
<1>2. ASSUME JobAt("preparing") \/ JobAt("forging"), UNCHANGED disk, job' = Prepared
      PROVE  RepairStep
  <2>1. /\ job'.repairing = job.repairing /\ job'.op = job.op
        /\ job'.at \in {"downloading", "inserting", "resolving", "selecting"}
    BY <1>2, PreparedGoesOn
  <2> QED
    BY <1>2, <2>1, RepairGoesOn
<1>3. CASE RegisterProfile \/ RegisterForge
  BY <1>2, <1>3 DEF RegisterProfile, RegisterForge, fileVars
<1>4. CASE RunForgeInstaller
  <2>1. JobAt("preparing") /\ UNCHANGED disk /\ To("forging")
    BY <1>4 DEF RunForgeInstaller
  <2>2. b0 \in Builds
    BY <2>1, Preparing
  <2> DEFINE U == {ForgeFiles[i] : i \in 1..2}
             changes == [i \in 1..2 |-> Put(ForgeFiles[i])]
  <2>3. U \subseteq Paths /\ ConfigPath \notin U
    BY PathsOfContent
  <2>4. changes \in Seq(ChangesOf(U))
    <3>1. \A i \in 1..2 : Put(ForgeFiles[i]) \in ChangesOf(U)
      BY ChangesOfPaths
    <3> QED
      BY <3>1
  <2>5. BeginChanges(b0, changes)
    BY <1>4 DEF RunForgeInstaller
  <2> HIDE DEF U, changes
  <2>6. job'.at = "forging" /\ job'.op = job.op /\ job'.repairing = job.repairing
    BY <1>0, <2>1, MovesOn
  <2> QED
    BY <2>1, <2>2, <2>3, <2>4, <2>5, <2>6, RepairBegins
<1>5. CASE FinishForge
  <2>1. JobAt("forging") /\ UNCHANGED disk /\ ~TxAt("none")
    BY <1>5 DEF FinishForge, AllChanged, TxAt
  <2>2. CASE Undo /\ UNCHANGED job
    BY <2>1, <2>2, UndoTurns, RepairTurns
  <2> QED
    BY <1>2, <1>5, <2>1, <2>2 DEF FinishForge
<1>6. CASE ForgeChanges
  <2>1. UNCHANGED job
    BY <1>6 DEF ForgeChanges, contentVars
  <2>2. CASE FileStep
    BY <2>1, <2>2, RepairWorks
  <2>3. CASE tx.at \in {"changing", "placing"} /\ Undo /\ UNCHANGED disk
    BY <2>1, <2>3, UndoTurns, RepairTurns DEF TxAt
  <2> QED
    BY <1>6, <2>2, <2>3 DEF ForgeChanges
<1>7. CASE ForgeFails \/ NewPackFails
  BY <1>7, RepairMoves DEF ForgeFails, NewPackFails
<1>8. CASE FailPreparation
  <2>1. job' = Answer("failed")
    BY <1>8 DEF FailPreparation, Fail
  <2>2. UNCHANGED disk \/ ~job.repairing
    BY <1>8 DEF FailPreparation, RemovesDirectory, NewPack, RepairInv
  <2> QED
    BY <2>1, <2>2, RepairEndsNow
<1>9. CASE InsertBuild \/ FinishSelecting \/ EndCopy \/ MoveToTrash \/ DeleteRows \/ MoveBack
  BY <1>9, RepairEndsNow, RepairMoves
     DEF InsertBuild, FinishSelecting, EndCopy, MoveToTrash, DeleteRows, MoveBack, Fail,
         fileVars
<1>10. CASE CommitPack
  <2>1. UNCHANGED <<job, disk>> /\ ~TxAt("none")
    BY <1>10 DEF CommitPack, AllChanged, TxAt
  <2>2. TurnsTx
    <3>1. CASE tx' = [tx EXCEPT !.at = "cleaning"]
      BY <1>0, <2>1, <3>1, TxMoves DEF TurnsTx, Shape
    <3> QED
      BY <1>10, <2>1, <3>1, UndoTurns DEF CommitPack
  <2> QED
    BY <2>1, <2>2, RepairTurns
<1>11. CASE StagePackHere
  <2>1. /\ JobAt("downloading") /\ job.pack # NoPack /\ UNCHANGED disk
        /\ BeginChanges(b0, PackChanges(b0, job.pack, job.repairing))
        /\ job' = [job EXCEPT !.at = "changing", !.commit = PackRows(b0, job.pack)]
    BY <1>11 DEF StagePackHere, StagePack
  <2>2. b0 \in Builds /\ job.pack \in Packs
    BY <1>0, <2>1 DEF LibraryInv, PhaseInv, JobAt, JobShape
  <2> DEFINE commit == PackRows(b0, job.pack)
  <2>3. job' = [job EXCEPT !.at = "changing", !.commit = commit]
    BY <2>1
  <2> HIDE DEF commit
  <2>4. job'.at = "changing" /\ job'.op = job.op /\ job'.repairing = job.repairing
    BY <1>0, <2>3 DEF JobFields
  <2>5. CASE job.repairing /\ Has(b0, ConfigPath)
    <3>1. ContentPaths \subseteq Paths /\ ConfigPath \notin ContentPaths
      BY ContentAssumption
    <3>2. PackChanges(b0, job.pack, job.repairing) \in Seq(ChangesOf(ContentPaths))
      BY <1>0, <2>2, <2>5, ChangesOfPack DEF Shape
    <3> QED
      BY <2>1, <2>2, <2>4, <3>1, <3>2, RepairBegins
  <2>6. CASE ~(job.repairing /\ Has(b0, ConfigPath))
    <3>1. ContentPaths \subseteq UserPaths /\ ConfigPath \in UserPaths /\ UserPaths \subseteq Paths
      BY PathsOfContent
    <3>2. PackChanges(b0, job.pack, job.repairing) \in Seq(ChangesOf(UserPaths))
      BY <1>0, <2>2, <3>1, ChangesOfPack DEF Shape
    <3> QED
      BY <2>1, <2>2, <2>4, <2>6, <3>1, <3>2, RepairBegins DEF Has
  <2> QED
    BY <2>5, <2>6
<1>12. CASE CopyFiles \/ InsertCopy \/ CopySource \/ CopyRow
  <2>1. ~job.repairing
    BY <1>12 DEF CopyFiles, InsertCopy, CopySource, CopyRow, LibraryInv, PhaseInv, RepairInv,
                 JobAt
  <2>2. CASE UNCHANGED job
    BY <2>1, <2>2, RepairEnds
  <2> QED
    BY <1>12, <2>1, <2>2, RepairEndsNow, RepairMoves
       DEF CopyFiles, InsertCopy, CopySource, CopyRow, Fail
<1> QED
  BY <1>1, <1>3, <1>4, <1>5, <1>6, <1>7, <1>8, <1>9, <1>10, <1>11, <1>12 DEF LibraryStep

LEMMA RepairSteps ==
  ASSUME LibraryInv, RepairInv, LibraryNext
  PROVE  RepairStep
<1>1. CASE LibraryStep
  BY <1>1, LibraryRepairs
<1>2. CASE PreparationFails
  BY <1>2, RepairMoves DEF PreparationFails, fileVars
<1>3. CASE PreviewPack
  <2>1. UNCHANGED job /\ ~job.repairing
    BY <1>3 DEF PreviewPack, contentVars, RepairInv
  <2> QED
    BY <2>1, RepairEnds
<1>4. CASE EndProcess
  BY <1>4, RepairEndsNow DEF EndProcess
<1>5. ASSUME NEW b \in Builds, RepairBuild(b) PROVE RepairStep
  BY <1>5, RepairCalls, Untampered DEF RepairStep, RepairInv
<1>6. ASSUME NEW b \in Builds, EditConfig(b) \/ TakeFile(b) PROVE RepairStep
  <2>1. ~job.repairing /\ (UNCHANGED job \/ job' = NoJob)
    BY <1>6 DEF EditConfig, TakeFile, contentVars, RepairInv
  <2> QED
    BY <2>1, RepairEnds, RepairEndsNow
<1> QED
  BY <1>1, <1>2, <1>3, <1>4, <1>5, <1>6, CallsStart, CallsBeginAnew
     DEF LibraryNext, ContentCall

-----------------------------------------------------------------------------
(* What was not edited when a file is changed is not edited then.          *)
LEMMA FileStepNotEdited ==
  ASSUME Shape, tx.build \in Builds, Unedited, FileStep
  PROVE  Unedited'
<1>0. TxShape /\ DiskShape /\ ConfigPath \in Paths
  BY PathsOfContent DEF Shape
<1>1. CASE SetAside
  <2> DEFINE change == Head(tx.todo)
             new == [path |-> change.path, old |-> Target]
             saved == Append(tx.done, new)
  <2>1. tx.todo # <<>> /\ tx.at = "changing"
    BY <1>1 DEF SetAside, TxAt
  <2>2. change \in Changes
    BY <1>0, <2>1, PartsOfLists DEF TxShape
  <2>3. change.path \in Paths
    BY <2>2 DEF Changes
  <2>4. new \in Saved /\ (new.path = ConfigPath => new.old # Edited)
    BY <1>0, <2>3 DEF Saved, Target, DiskShape, Unedited
  <2>5. \A i \in 1..Len(saved) : saved[i].path = ConfigPath => saved[i].old # Edited
    <3> HIDE DEF new, change
    <3> QED
      BY <1>0, <2>4, LongerLists DEF TxShape, Unedited
  <2> HIDE DEF change, saved, new
  <2>6. tx'.build = tx.build /\ tx'.done \in {tx.done, saved}
    BY <1>0, <1>1 DEF SetAside, Undo, TxShape, change, saved, new
  <2>7. disk'[tx.build][ConfigPath] # Edited
    <3>1. CASE UNCHANGED disk
      BY <3>1 DEF Unedited
    <3>2. CASE disk' = [disk EXCEPT ![tx.build][change.path] = Absent]
      BY <1>0, <2>3, <3>2 DEF DiskShape, Unedited, Absent, Edited
    <3> QED
      BY <1>1, <3>1, <3>2 DEF SetAside, change
  <2> QED
    BY <2>5, <2>6, <2>7 DEF Unedited
<1>2. CASE PlaceFile
  <2>1. tx.todo # <<>> /\ Head(tx.todo).to = Sound
    BY <1>0, <1>2 DEF PlaceFile, TxShape, TxAt
  <2>2. Head(tx.todo) \in Changes
    BY <1>0, <2>1, PartsOfLists DEF TxShape
  <2>3. Head(tx.todo).path \in Paths
    BY <2>2 DEF Changes
  <2>4. tx'.build = tx.build /\ tx'.done = tx.done
    BY <1>0, <1>2 DEF PlaceFile, Undo, TxShape
  <2>5. disk'[tx.build][ConfigPath] # Edited
    BY <1>0, <1>2, <2>1, <2>3 DEF PlaceFile, DiskShape, Unedited, Sound, Edited
  <2> QED
    BY <2>4, <2>5 DEF Unedited
<1>3. CASE UndoChange
  <2> DEFINE last == Last(tx.done)
  <2>1. tx.done # <<>>
    BY <1>3 DEF UndoChange
  <2>2. /\ last \in Saved /\ last = tx.done[Len(tx.done)] /\ Len(tx.done) \in 1..Len(tx.done)
        /\ \A i \in 1..Len(Front(tx.done)) : i \in 1..Len(tx.done) /\ Front(tx.done)[i] = tx.done[i]
    BY <1>0, <2>1, PartsOfLists DEF TxShape
  <2>3. last.path \in Paths /\ (last.path = ConfigPath => last.old # Edited)
    BY <2>2 DEF Saved, Unedited
  <2>4. tx'.build = tx.build /\ tx'.done = Front(tx.done)
    BY <1>0, <1>3 DEF UndoChange, TxShape
  <2>5. \/ disk' = disk
        \/ disk' = [disk EXCEPT ![tx.build][last.path] = last.old]
        \/ disk' = [disk EXCEPT ![tx.build][last.path] = Absent]
    BY <1>3 DEF UndoChange
  <2> HIDE DEF last
  <2>6. disk'[tx.build][ConfigPath] # Edited
    BY <1>0, <2>3, <2>5 DEF DiskShape, Unedited, Absent, Edited
  <2> QED
    BY <2>2, <2>4, <2>6 DEF Unedited
<1> QED
  BY <1>1, <1>2, <1>3 DEF FileStep

LEMMA InTransaction ==
  ASSUME LibraryInv, ~TxAt("none")
  PROVE  Shape /\ tx.build = b0 /\ tx.build \in Builds
BY DEF LibraryInv, TxInv, PhaseInv, JobAt, TxAt

LEMMA FilesInTransaction ==
  ASSUME FileStep PROVE ~TxAt("none")
BY DEF FileStep, SetAside, PlaceFile, UndoChange, TxAt

LEMMA RepairInvKept ==
  ASSUME LibraryInv, LibraryInv', RepairInv, RepairStep
  PROVE  RepairInv'
<1>1. (job.repairing => job.op = "repair" /\ ~JobAt("idle"))'
  BY DEF RepairStep, JobAt
<1>2. ASSUME (job.repairing /\ ~TxAt("none"))'
      PROVE  (Within(Others) \/ Unedited)'
  <2>1. job'.at \in {"changing", "forging"}
    BY <1>2 DEF LibraryInv, TxInv, JobAt, TxAt
  <2>2. job.repairing
    BY <1>2, <2>1 DEF RepairStep
  <2>3. CASE FileStep
    <3>1. ~TxAt("none") /\ Shape /\ tx.build \in Builds
      BY <2>3, FilesInTransaction, InTransaction
    <3>2. Within(Others) \/ Unedited
      BY <2>2, <3>1 DEF RepairInv
    <3> QED
      BY <2>3, <3>1, <3>2, FileStepKeeps, FileStepNotEdited
  <2>4. CASE UNCHANGED disk /\ TurnsTx
    <3>1. Within(Others) \/ Unedited
      BY <2>2, <2>4 DEF RepairInv, TurnsTx
    <3> QED
      BY <2>4, <3>1 DEF TurnsTx, Within, Unedited
  <2>5. CASE UNCHANGED disk /\ BeginsApart
    <3>1. 1..Len(tx'.done) = {}
      BY <2>5, EmptySeq DEF BeginsApart
    <3> QED
      BY <2>5, <3>1 DEF BeginsApart, Unedited, Absent, Edited
  <2> QED
    BY <1>2, <2>1, <2>3, <2>4, <2>5 DEF RepairStep
<1> QED
  BY <1>1, <1>2 DEF RepairInv

LEMMA RepairStepSpares ==
  ASSUME LibraryInv, RepairInv, RepairStep, job.repairing, NEW b \in Builds,
         disk[b][ConfigPath] = Edited
  PROVE  disk'[b][ConfigPath] = Edited
<1>0. Shape /\ DiskShape /\ ConfigPath \in Paths
  BY PathsOfContent DEF LibraryInv, Shape
<1>1. CASE Touches(b0, Others)
  BY <1>0, <1>1 DEF Touches, Others
<1>2. CASE FileStep
  <2>1. ~TxAt("none") /\ tx.build \in Builds
    BY <1>2, FilesInTransaction, InTransaction
  <2>2. CASE Within(Others)
    <3>1. Touches(tx.build, Others)
      BY <1>0, <1>2, <2>1, <2>2, FileStepKeeps
    <3> QED
      BY <1>0, <3>1 DEF Touches, Others
  <2>3. CASE Unedited
    <3>1. b # tx.build
      BY <2>3 DEF Unedited
    <3>2. Within(Paths)
      <4>1. tx.todo \in Seq(Changes) /\ tx.done \in Seq(Saved)
        BY <1>0 DEF Shape, TxShape
      <4>2. \A i \in 1..Len(tx.todo) : tx.todo[i] \in Changes
        BY <4>1, ElementOfSeq
      <4>3. \A i \in 1..Len(tx.done) : tx.done[i] \in Saved
        BY <4>1, ElementOfSeq
      <4> QED
        BY <4>2, <4>3 DEF Within, Changes, Saved
    <3>3. Touches(tx.build, Paths)
      BY <1>0, <1>2, <2>1, <3>2, FileStepKeeps
    <3> QED
      BY <1>0, <3>1, <3>3 DEF Touches
  <2> QED
    BY <2>1, <2>2, <2>3 DEF RepairInv
<1> QED
  BY <1>1, <1>2 DEF RepairStep

LEMMA RepairInvAlways == LibrarySpec => []RepairInv
<1>1. LibraryInit => RepairInv
  BY DEF LibraryInit, ContentInit, FilesInit, RepairInv, NoJob, NoTx, TxAt
<1>2. LibraryInv /\ LibraryInv' /\ RepairInv /\ [LibraryNext]_libraryVars => RepairInv'
  <2> SUFFICES ASSUME LibraryInv, LibraryInv', RepairInv, [LibraryNext]_libraryVars
               PROVE  RepairInv'
    OBVIOUS
  <2>1. CASE UNCHANGED libraryVars
    <3>1. UNCHANGED <<job, tx, disk>>
      BY <2>1 DEF libraryVars, contentVars, fileVars
    <3> QED
      BY <3>1 DEF RepairInv, Within, Unedited, JobAt, TxAt
  <2> QED
    BY <2>1, RepairSteps, RepairInvKept
<1> QED
  BY <1>1, <1>2, LibraryIsConsistent, PTL DEF LibrarySpec

(* A repair leaves the file of a pack that the user has edited as it is,   *)
(* whatever fails: its transaction has nothing to do with that path, or    *)
(* the file was not edited when it began, and the user edits between two   *)
(* operations only (install_mrpack_archive,                                *)
(* install_curseforge_pack_archive).                                       *)
THEOREM EditsSurviveRepairs == LibrarySpec => EditsSurviveRepair
<1>1. LibraryInv /\ RepairInv /\ [LibraryNext]_libraryVars =>
        [\A b \in Builds : job.repairing /\ disk[b][ConfigPath] = Edited
           => disk'[b][ConfigPath] = Edited]_<<job, disk>>
  BY RepairSteps, RepairStepSpares DEF libraryVars, contentVars, fileVars
<1> QED
  BY <1>1, LibraryIsConsistent, RepairInvAlways, PTL DEF LibrarySpec, EditsSurviveRepair

-----------------------------------------------------------------------------
(* Every step is one of these.                                             *)
Still == SameRows /\ SameFiles /\ UNCHANGED <<tx, listed, torn>>
InHalf == job.at \in {"recording", "renamingBack", "copyingRows"}

LEMMA Loosely ==
  ASSUME LibraryInv, UNCHANGED torn
  PROVE  TearsAtMost
BY DEF LibraryInv, Shape, DiskShape, TearsAtMost

LEMMA RestsOn ==
  ASSUME LibraryInv, Still, ~JobAt("changing"), ~JobAt("forging"), ~InHalf,
         job'.at \notin Close
  PROVE  Rests
<1>1. tx.at = "none"
  BY DEF LibraryInv, TxInv, JobAt, TxAt
<1> QED
  BY <1>1, Loosely DEF Rests, Still, InHalf

LEMMA RestsAtEnd ==
  ASSUME LibraryInv, Still, ~JobAt("changing"), ~JobAt("forging"), ~InHalf,
         NEW verdict, job' = Answer(verdict) \/ job' = NoJob
  PROVE  Rests
<1>1. job'.at = "idle"
  BY ComesToAnEnd DEF LibraryInv, Shape
<1> QED
  BY <1>1, RestsOn DEF Close

LEMMA RestsMoving ==
  ASSUME LibraryInv, Still, ~JobAt("changing"), ~JobAt("forging"), ~InHalf,
         NEW phase, phase \notin Close, To(phase)
  PROVE  Rests
<1>1. job'.at = phase
  BY MovesOn DEF LibraryInv, Shape
<1> QED
  BY <1>1, RestsOn

(* A step that could not take something back.                              *)
LEMMA RestsTorn ==
  ASSUME LibraryInv, SameRows, SameFiles, UNCHANGED <<tx, listed>>, InHalf, b0 \in Builds,
         torn' = [torn EXCEPT ![b0] = TRUE], NEW verdict, job' = Answer(verdict)
  PROVE  Rests
<1>1. job'.at = "idle"
  BY ComesToAnEnd DEF LibraryInv, Shape
<1>2. tx.at = "none"
  BY DEF LibraryInv, TxInv, JobAt, TxAt, InHalf
<1>3. TearsAtMost /\ torn'[b0]
  BY TearingKeeps DEF LibraryInv
<1> QED
  BY <1>1, <1>2, <1>3 DEF Rests, Close

LEMMA StepOfContent ==
  ASSUME LibraryInv, ContentStep
  PROVE  StepKind
<1>0. Shape /\ JobShape /\ DOMAIN job = JobFields
  BY DEF LibraryInv, Shape, JobShape
<1>1. CASE GiveUp
  <2>1. Still /\ JobAt("resolving") /\ job' = Answer("failed")
    BY <1>1 DEF GiveUp, Fail, Still, SameRows, SameFiles, rowVars, fileVars
  <2>2. Rests
    BY <2>1, RestsAtEnd DEF JobAt, InHalf
  <2> QED
    BY <2>2 DEF StepKind
<1>2. CASE TakeRequirement
  <2>1. Still /\ JobAt("resolving") /\ Top.requires # <<>>
    BY <1>2 DEF TakeRequirement, Still, SameRows, SameFiles, rowVars, fileVars
  <2>2. job'.at \in {"resolving", "renaming"}
    <3>1. CASE job' = NextRequirement
      BY <2>1, <3>1, NextRequirementIsOne
    <3>2. CASE job' = [job EXCEPT !.at = "renaming",
                         !.commit = {<<Needed.project, version[b0][Needed.project], TRUE>>}]
      <4> DEFINE commit == {<<Needed.project, version[b0][Needed.project], TRUE>>}
      <4>1. job' = [job EXCEPT !.at = "renaming", !.commit = commit]
        BY <3>2
      <4> HIDE DEF commit
      <4> QED
        BY <1>0, <4>1 DEF JobFields
    <3> QED
      BY <1>2, <3>1, <3>2 DEF TakeRequirement
  <2>3. Rests
    BY <2>1, <2>2, RestsOn DEF JobAt, InHalf, Close
  <2> QED
    BY <2>3 DEF StepKind
<1>3. CASE DescendToRequirement
  <2>1. Still /\ JobAt("resolving")
    BY <1>3 DEF DescendToRequirement, Still, SameRows, SameFiles, rowVars, fileVars
  <2>2. CASE Fail
    BY <2>1, <2>2, RestsAtEnd DEF Fail, JobAt, InHalf, StepKind
  <2>3. CASE \E stack : job' = [job EXCEPT !.stack = stack]
    <3>1. job'.at = "resolving"
      BY <1>0, <2>1, <2>3 DEF JobFields, JobAt
    <3> QED
      BY <2>1, <3>1, RestsOn DEF JobAt, InHalf, Close, StepKind
  <2> QED
    BY <1>3, <2>2, <2>3 DEF DescendToRequirement
<1>4. CASE InstallTop
  <2>1. /\ JobAt("resolving") /\ SameRows /\ SameFiles /\ UNCHANGED <<listed, torn>>
        /\ tx.at = "none"
    BY <1>4, Resolving DEF InstallTop, SameRows, SameFiles, rowVars
  <2>2. CASE Fail /\ UNCHANGED tx
    BY <2>1, <2>2, RestsAtEnd DEF Fail, JobAt, InHalf, Still, StepKind
  <2>3. CASE BeginChanges(b0, Update(Top.project, Top.version))
    <3>1. tx'.at = "changing"
      BY <2>3 DEF BeginChanges, NoTx
    <3>2. Begins
      BY <1>4, <2>1, <3>1 DEF Begins
    <3> QED
      BY <3>2 DEF StepKind
  <2> QED
    BY <1>4, <2>2, <2>3 DEF InstallTop
<1>5. CASE RenameContent
  <2>1. JobAt("renaming") /\ SameRows /\ UNCHANGED <<tx, listed, stray, torn>>
    BY <1>5 DEF RenameContent, SameRows, rowVars
  <2>2. CASE Fail /\ UNCHANGED disk
    BY <2>1, <2>2, RestsAtEnd DEF Fail, JobAt, InHalf, Still, SameFiles, StepKind
  <2>3. CASE ~Has(b0, NewPath) /\ Has(b0, OldPath) /\ Move(OldPath, NewPath) /\ To("recording")
    BY <2>1, <2>3 DEF Renames, StepKind
  <2> QED
    BY <1>5, <2>2, <2>3 DEF RenameContent
<1>6. CASE RecordToggle
  <2>1. JobAt("recording") /\ SameFiles /\ UNCHANGED <<listed, excused, tx, torn>>
    BY <1>6 DEF RecordToggle, SameFiles
  <2>2. CASE Record(b0, job.commit) /\ (job' = Answer("ok") \/ To("resolving"))
    <3>1. job'.at \in {"idle", "resolving"}
      BY <1>0, <2>2, ComesToAnEnd, MovesOn
    <3>2. Switches
      BY <2>1, <2>2, <3>1 DEF Switches
    <3> QED
      BY <3>2 DEF StepKind, RowStep
  <2>3. CASE To("renamingBack") /\ UNCHANGED <<version, enabled>>
    BY <2>1, <2>3 DEF FailsToRecord, SameRows, StepKind
  <2> QED
    BY <1>6, <2>2, <2>3 DEF RecordToggle
<1>7. CASE RenameBack
  <2>1. JobAt("renamingBack") /\ SameRows /\ Fail /\ UNCHANGED <<tx, listed, stray>>
    BY <1>7 DEF RenameBack, SameRows, rowVars
  <2>2. b0 \in Builds
    BY <2>1, Switched DEF Switching, JobAt
  <2>3. CASE Move(NewPath, OldPath) /\ UNCHANGED torn
    BY <2>1, <2>3 DEF RenamesBack, StepKind
  <2>4. CASE torn' = [torn EXCEPT ![b0] = TRUE] /\ UNCHANGED disk
    <3>1. Rests
      BY <2>1, <2>2, <2>4, RestsTorn DEF Fail, InHalf, JobAt, SameFiles
    <3> QED
      BY <3>1 DEF StepKind
  <2> QED
    BY <1>7, <2>3, <2>4 DEF RenameBack
<1>8. CASE CancelPack
  BY <1>8 DEF CancelPack, contentVars, TxAt, TurnsBack, SameRows, SameFiles, StepKind
<1>9. CASE WriteRows
  <2>1. /\ SameFiles /\ JobAt("changing") /\ AllChanged /\ job.pack = NoPack
        /\ UNCHANGED <<job, listed, excused, torn>>
    BY <1>9 DEF WriteRows, SameFiles
  <2>2. CASE Record(b0, job.commit) /\ tx' = [tx EXCEPT !.at = "cleaning"]
    BY <2>1, <2>2 DEF WritesRows, Commits, RowStep, StepKind
  <2>3. CASE Undo /\ UNCHANGED <<version, enabled>>
    BY <2>1, <2>3 DEF TurnsBack, SameRows, AllChanged, TxAt, StepKind
  <2> QED
    BY <1>9, <2>2, <2>3 DEF WriteRows
<1>10. CASE Finish
  <2>1. /\ SameRows /\ SameFiles /\ UNCHANGED <<listed, torn>> /\ EndChanges
        /\ JobAt("changing") /\ TxAt("cleaning")
    BY <1>10 DEF Finish, SameRows, SameFiles, rowVars
  <2>2. job'.at \notin Close
    <3>1. CASE job' = [Answer("ok") EXCEPT !.stack = job.stack]
      BY <1>0, <3>1, ComesToAnEnd DEF Close
    <3>2. CASE \/ job' = [job EXCEPT !.at = "resolving", !.stack = Tail(@)]
               \/ job' = [job EXCEPT !.at = "selecting", !.stack = <<>>]
      BY <1>0, <3>2 DEF JobFields, Close
    <3> QED
      BY <1>10, <3>1, <3>2 DEF Finish
  <2> QED
    BY <2>1, <2>2 DEF Closes, StepKind
<1>11. CASE FailChanges
  <2>1. /\ SameRows /\ SameFiles /\ UNCHANGED <<listed, torn>> /\ EndChanges
        /\ JobAt("changing") /\ Undone /\ job' = Answer("failed")
    BY <1>11 DEF FailChanges, Fail, SameRows, SameFiles, rowVars
  <2>2. job'.at \notin Close
    BY <1>0, <2>1, ComesToAnEnd DEF Close
  <2> QED
    BY <2>1, <2>2 DEF Closes, StepKind
<1>12. CASE RunChanges
  BY <1>12 DEF RunChanges, contentVars, Works, SameRows, StepKind
<1> QED
  BY <1>1, <1>2, <1>3, <1>4, <1>5, <1>6, <1>7, <1>8, <1>9, <1>10, <1>11, <1>12
     DEF ContentStep

LEMMA StepOfLibrary ==
  ASSUME LibraryInv, LibraryStep
  PROVE  StepKind
<1>0. Shape /\ JobShape /\ DOMAIN job = JobFields
  BY DEF LibraryInv, Shape, JobShape
<1>1. CASE ContentStep
  BY <1>1, StepOfContent
<1>2. CASE RegisterProfile \/ RegisterForge
  <2>1. Still /\ JobAt("preparing") /\ job' = Prepared
    BY <1>2 DEF RegisterProfile, RegisterForge, Still, SameRows, SameFiles, rowVars, fileVars
  <2>2. job'.at \notin Close
    BY <2>1, PreparedGoesOn DEF Close
  <2> QED
    BY <2>1, <2>2, RestsOn DEF JobAt, InHalf, StepKind
<1>3. CASE RunForgeInstaller
  <2>1. SameRows /\ SameFiles /\ UNCHANGED <<listed, torn>> /\ JobAt("preparing")
    BY <1>3 DEF RunForgeInstaller, SameRows, SameFiles, rowVars
  <2>2. tx.at = "none"
    BY <2>1 DEF LibraryInv, TxInv, JobAt, TxAt
  <2> QED
    BY <1>3, <2>1, <2>2 DEF Begins, StepKind
<1>4. CASE FinishForge
  <2>1. /\ SameRows /\ SameFiles /\ UNCHANGED <<listed, torn>> /\ JobAt("forging")
        /\ tx.at = "changing"
    BY <1>4 DEF FinishForge, SameRows, SameFiles, rowVars, AllChanged, TxAt
  <2>2. CASE EndChanges /\ job' = Prepared
    <3>1. job'.at \notin Close
      BY <2>1, <2>2, PreparedGoesOn DEF Close
    <3> QED
      BY <2>1, <2>2, <3>1 DEF Closes, StepKind
  <2>3. CASE Undo /\ UNCHANGED job
    BY <2>1, <2>3 DEF TurnsBack, StepKind
  <2> QED
    BY <1>4, <2>2, <2>3 DEF FinishForge
<1>5. CASE ForgeChanges
  <2>1. SameRows /\ UNCHANGED <<job, listed>>
    BY <1>5 DEF ForgeChanges, contentVars, SameRows
  <2>2. CASE FileStep
    BY <2>1, <2>2 DEF Works, StepKind
  <2>3. CASE tx.at \in {"changing", "placing"} /\ Undo /\ UNCHANGED <<disk, stray, torn, errors>>
    BY <2>1, <2>3 DEF TurnsBack, SameFiles, StepKind
  <2> QED
    BY <1>5, <2>2, <2>3 DEF ForgeChanges
<1>6. CASE ForgeFails \/ NewPackFails
  <2>1. /\ SameRows /\ SameFiles /\ UNCHANGED <<listed, torn>> /\ EndChanges
        /\ JobAt("forging") \/ (JobAt("changing") /\ Undone)
        /\ To("failing")
    BY <1>6 DEF ForgeFails, NewPackFails, SameRows, SameFiles, rowVars
  <2>2. job'.at \notin Close
    BY <1>0, <2>1, MovesOn DEF Close
  <2> QED
    BY <2>1, <2>2 DEF Closes, StepKind
<1>7. CASE FailPreparation
  <2>1. JobAt("failing") /\ Fail /\ UNCHANGED <<listed, version, enabled, tx>>
    BY <1>7 DEF FailPreparation, rowVars
  <2>2. CASE NewPack /\ RemoveDirectory(b0)
    BY <2>1, <2>2 DEF Clears, StepKind
  <2>3. CASE UNCHANGED <<place, disk, stray, torn, excused>>
    BY <2>1, <2>3, RestsAtEnd DEF Fail, JobAt, InHalf, Still, SameRows, SameFiles, StepKind
  <2> QED
    BY <1>7, <2>2, <2>3 DEF FailPreparation, RemovesDirectory
<1>8. CASE InsertBuild
  <2>1. JobAt("inserting") /\ SameRows /\ SameFiles /\ UNCHANGED <<tx, torn>>
    BY <1>8 DEF InsertBuild, SameRows, SameFiles
  <2>2. CASE To("selecting") /\ listed' = listed \cup {b0}
    BY <2>1, <2>2 DEF Inserts, StepKind
  <2>3. CASE Fail /\ UNCHANGED listed
    BY <2>1, <2>3, RestsAtEnd DEF Fail, JobAt, InHalf, Still, StepKind
  <2> QED
    BY <1>8, <2>2, <2>3 DEF InsertBuild
<1>9. CASE FinishSelecting
  <2>1. Still /\ JobAt("selecting")
    BY <1>9 DEF FinishSelecting, Still, SameRows, SameFiles, rowVars
  <2>2. job' = Answer("ok") \/ job' = Answer("failed")
    BY <1>9 DEF FinishSelecting, Fail
  <2> QED
    BY <2>1, <2>2, RestsAtEnd DEF JobAt, InHalf, StepKind
<1>10. CASE CommitPack
  <2>1. SameFiles /\ JobAt("changing") /\ AllChanged /\ job.pack # NoPack /\ UNCHANGED job
    BY <1>10 DEF CommitPack, SameFiles
  <2>2. CASE /\ Record(b0, job.commit) /\ listed' = listed \cup {b0}
             /\ excused' = [excused EXCEPT ![b0] =
                  @ \/ TakesName(b0, job.pack) \/ NamesTwice(job.pack)]
             /\ torn' = [torn EXCEPT ![b0] = @ \/ LeavesBehind(b0, job.pack)]
             /\ tx' = [tx EXCEPT !.at = "cleaning"]
    <3>1. CommitsPack
      BY <2>1, <2>2 DEF CommitsPack, Commits
    <3> QED
      BY <3>1 DEF RowStep, StepKind
  <2>3. CASE Undo /\ UNCHANGED <<version, enabled, listed, excused, torn>>
    BY <2>1, <2>3 DEF TurnsBack, SameRows, AllChanged, TxAt, StepKind
  <2> QED
    BY <1>10, <2>2, <2>3 DEF CommitPack
<1>11. CASE StagePackHere
  <2>1. SameRows /\ SameFiles /\ UNCHANGED <<listed, torn>> /\ JobAt("downloading")
    BY <1>11 DEF StagePackHere, StagePack, SameRows, SameFiles, rowVars
  <2>2. tx.at = "none"
    BY <2>1 DEF LibraryInv, TxInv, JobAt, TxAt
  <2> QED
    BY <1>11, <2>1, <2>2 DEF Begins, StepKind
<1>12. CASE CopyFiles
  <2>1. JobAt("copying") /\ UNCHANGED <<listed, version, enabled, tx>>
    BY <1>12 DEF CopyFiles, rowVars
  <2>2. CASE UNCHANGED <<place, disk, stray, torn, excused>> /\ Fail
    BY <2>1, <2>2, RestsAtEnd DEF Fail, JobAt, InHalf, Still, SameRows, SameFiles, StepKind
  <2>3. CASE /\ To("insertingCopy") /\ disk' = [disk EXCEPT ![b0] = disk[job.from]]
             /\ stray' = [stray EXCEPT ![b0] = stray[job.from]]
             /\ torn' = [torn EXCEPT ![b0] = torn[job.from]]
             /\ excused' = [excused EXCEPT ![b0] = excused[job.from]]
    <3>1. CopiesFiles
      BY <2>1, <2>3 DEF CopiesFiles
    <3> QED
      BY <3>1 DEF StepKind
  <2> QED
    BY <1>12, <2>2, <2>3 DEF CopyFiles
<1>13. CASE InsertCopy
  <2>1. JobAt("insertingCopy") /\ UNCHANGED <<version, enabled, tx>>
    BY <1>13 DEF InsertCopy
  <2>2. CASE To("copyingRows") /\ listed' = listed \cup {b0} /\ UNCHANGED <<disk, stray, torn, excused>>
    BY <2>1, <2>2 DEF Inserts, SameRows, SameFiles, StepKind
  <2>3. CASE Fail /\ RemoveDirectory(b0) /\ UNCHANGED listed
    BY <2>1, <2>3 DEF Clears, StepKind
  <2>4. CASE /\ Fail /\ torn' = [torn EXCEPT ![b0] = TRUE] /\ listed' = listed \cup {b0}
             /\ UNCHANGED <<disk, stray, excused>>
    BY <2>1, <2>4 DEF Inserts, SameRows, SameFiles, StepKind
  <2>5. CASE Fail /\ UNCHANGED <<listed, disk, stray, torn, excused>>
    BY <2>1, <2>5, RestsAtEnd DEF Fail, JobAt, InHalf, Still, SameRows, SameFiles, StepKind
  <2> QED
    BY <1>13, <2>2, <2>3, <2>4, <2>5 DEF InsertCopy
<1>14. CASE CopySource
  <2>1. JobAt("copyingRows") /\ SameRows /\ SameFiles /\ UNCHANGED <<tx, listed>>
    BY <1>14 DEF CopySource, SameRows, SameFiles
  <2>2. tx.at = "none" /\ b0 \in Builds
    BY <2>1 DEF LibraryInv, TxInv, PhaseInv, JobAt, TxAt
  <2>3. CASE UNCHANGED <<job, torn>>
    <3>1. Rests
      BY <2>1, <2>2, <2>3, Loosely DEF Rests
    <3> QED
      BY <3>1 DEF StepKind
  <2>4. CASE Fail /\ torn' = [torn EXCEPT ![b0] = TRUE]
    BY <2>1, <2>2, <2>4, RestsTorn DEF Fail, InHalf, JobAt, StepKind
  <2> QED
    BY <1>14, <2>3, <2>4 DEF CopySource
<1>15. CASE CopyRow
  <2>1. JobAt("copyingRows") /\ SameFiles /\ UNCHANGED <<excused, tx, listed>> /\ Missing # {}
    BY <1>15 DEF CopyRow, SameFiles
  <2>2. b0 \in Builds
    BY <2>1 DEF LibraryInv, PhaseInv, JobAt
  <2>3. PICK p \in Missing :
          \/ /\ Record(b0, {<<p, version[job.from][p], enabled[job.from][p]>>})
             /\ UNCHANGED <<job, torn>>
          \/ Fail /\ torn' = [torn EXCEPT ![b0] = TRUE] /\ UNCHANGED <<version, enabled>>
    <3>1. (CHOOSE q \in Missing : TRUE) \in Missing
      BY <2>1
    <3> QED
      BY <1>15, <3>1 DEF CopyRow
  <2>4. CASE Fail /\ torn' = [torn EXCEPT ![b0] = TRUE] /\ UNCHANGED <<version, enabled>>
    BY <2>1, <2>2, <2>4, RestsTorn DEF Fail, InHalf, JobAt, SameRows, StepKind
  <2>5. CASE /\ Record(b0, {<<p, version[job.from][p], enabled[job.from][p]>>})
             /\ UNCHANGED <<job, torn>>
    <3>1. CopiesRow
      BY <2>1, <2>3, <2>5 DEF CopiesRow
    <3> QED
      BY <3>1 DEF RowStep, StepKind
  <2> QED
    BY <2>3, <2>4, <2>5
<1>16. CASE EndCopy
  BY <1>16 DEF EndCopy, EndsCopy, SameRows, SameFiles, rowVars, fileVars, StepKind
<1>17. CASE MoveToTrash
  <2>1. Still /\ JobAt("deleting") /\ (To("deletingRow") \/ job' = Answer("failed"))
    BY <1>17 DEF MoveToTrash, Fail, Still, SameRows, SameFiles, rowVars
  <2> QED
    BY <2>1, RestsAtEnd, RestsMoving DEF JobAt, InHalf, Close, StepKind
<1>18. CASE DeleteRows
  <2>1. JobAt("deletingRow") /\ SameFiles /\ UNCHANGED <<excused, tx, torn>>
    BY <1>18 DEF DeleteRows, SameFiles
  <2>2. CASE /\ job' = Answer("ok") /\ listed' = listed \ {b0}
             /\ version' = [version EXCEPT ![b0] = [p \in Projects |-> 0]]
             /\ enabled' = [enabled EXCEPT ![b0] = [p \in Projects |-> TRUE]]
    BY <2>1, <2>2 DEF Deletes, RowStep, StepKind
  <2>3. CASE To("movingBack") /\ UNCHANGED rowVars
    <3>1. Still
      BY <2>1, <2>3 DEF Still, SameRows, rowVars
    <3> QED
      BY <2>1, <2>3, <3>1, RestsMoving DEF JobAt, InHalf, Close, StepKind
  <2> QED
    BY <1>18, <2>2, <2>3 DEF DeleteRows
<1>19. CASE MoveBack
  <2>1. /\ JobAt("movingBack") /\ SameRows /\ SameFiles /\ UNCHANGED <<listed, tx>>
        /\ job' = Answer("failed")
    BY <1>19 DEF MoveBack, Fail, SameRows, SameFiles, rowVars
  <2>2. b0 \in Builds /\ tx.at = "none"
    BY <2>1 DEF LibraryInv, PhaseInv, TxInv, JobAt, TxAt
  <2>3. TearsAtMost
    BY <1>0, <1>19, <2>2, TearingKeeps, Loosely DEF MoveBack
  <2>4. job'.at = "idle"
    BY <1>0, <2>1, ComesToAnEnd
  <2> QED
    BY <2>1, <2>2, <2>3, <2>4 DEF Rests, JobAt, Close, StepKind
<1> QED
  BY <1>1, <1>2, <1>3, <1>4, <1>5, <1>6, <1>7, <1>8, <1>9, <1>10, <1>11, <1>12, <1>13, <1>14,
     <1>15, <1>16, <1>17, <1>18, <1>19 DEF LibraryStep

LEMMA Steps ==
  ASSUME LibraryInv, LibraryNext
  PROVE  StepKind
<1>0. Shape /\ JobShape
  BY DEF LibraryInv, Shape
<1>1. CASE LibraryStep
  BY <1>1, StepOfLibrary
<1>2. CASE PreparationFails
  <2>1. Still /\ job.at \in {"preparing", "downloading"} /\ To("failing")
    BY <1>2 DEF PreparationFails, Still, SameRows, SameFiles, rowVars, fileVars
  <2> QED
    BY <2>1, RestsMoving DEF JobAt, InHalf, Close, StepKind
<1>3. CASE PreviewPack
  <2>1. Still /\ JobAt("idle") /\ UNCHANGED job
    BY <1>3 DEF PreviewPack, contentVars, fileVars, Still, SameRows, SameFiles
  <2> QED
    BY <2>1, RestsOn DEF JobAt, InHalf, Close, StepKind
<1>4. CASE EndProcess
  <2>1. job' = [NoJob EXCEPT !.answer = "crashed"]
    BY <1>4 DEF EndProcess
  <2>2. job'.at = "idle"
    BY <1>0, <2>1, ComesToAnEnd
  <2> QED
    BY <1>4, <2>2 DEF EndProcess, rowVars, EndsProcess, SameRows, StepKind
<1>5. ASSUME NEW b \in Builds,
             \/ InstallProject(b) \/ Toggle(b) \/ InstallPack(b) \/ CreateBuild(b)
             \/ InstallNewPack(b) \/ ConfirmPack(b) \/ CopyBuild(b) \/ SelectBuild(b)
             \/ DeleteBuild(b) \/ RepairBuild(b)
      PROVE  StepKind
  <2>1. Still
    BY <1>5 DEF InstallProject, Toggle, InstallPack, CreateBuild, InstallNewPack, ConfirmPack,
                CopyBuild, SelectBuild, DeleteBuild, RepairBuild, Still, SameRows, SameFiles,
                rowVars, fileVars
  <2>2. JobAt("idle") /\ job'.at \notin Close
    <3>1. CASE RepairBuild(b)
      BY <3>1, RepairCalls DEF Close
    <3>2. CASE Calls(b) /\ JobAt("idle")
      <4>1. CASE \E op, at : StartsAs(op, b, at) /\ at \in Beginnings
        BY <3>2, <4>1, StartsAsSuch DEF Beginnings, Close
      <4>2. CASE job' = Answer("expired")
        BY <1>0, <3>2, <4>2, ComesToAnEnd DEF Close
      <4> QED
        BY <3>2, <4>1, <4>2 DEF Calls
    <3> QED
      BY <1>5, <3>1, <3>2, CallsStart
  <2> QED
    BY <2>1, <2>2, RestsOn DEF JobAt, InHalf, StepKind
<1>6. ASSUME NEW b \in Builds, RemoveContent(b) \/ ImportLocal(b)
      PROVE  StepKind
  <2>1. SameRows /\ SameFiles /\ UNCHANGED <<listed, torn>> /\ JobAt("idle")
    BY <1>6 DEF RemoveContent, ImportLocal, Call, SameRows, SameFiles, rowVars
  <2>2. tx.at = "none"
    BY <2>1 DEF LibraryInv, TxInv, JobAt, TxAt
  <2>3. Begins
    BY <1>6, <2>1, <2>2 DEF Begins
  <2> QED
    BY <2>3 DEF StepKind
<1>7. ASSUME NEW b \in Builds, EditConfig(b) PROVE StepKind
  <2>1. Edits
    BY <1>7 DEF EditConfig, contentVars, Edits, SameRows
  <2> QED
    BY <2>1 DEF StepKind
<1>8. ASSUME NEW b \in Builds, TakeFile(b) PROVE StepKind
  <2>1. TakesAway
    BY <1>8 DEF TakeFile, rowVars, TakesAway
  <2> QED
    BY <2>1 DEF StepKind
<1> QED
  BY <1>1, <1>2, <1>3, <1>4, <1>5, <1>6, <1>7, <1>8 DEF LibraryNext, ContentCall

-----------------------------------------------------------------------------
(* The elements of lists that have been cut or made longer.                *)
LEMMA CutLists ==
  ASSUME NEW S, NEW s \in Seq(S), s # <<>>
  PROVE  /\ Len(s) \in Nat \ {0} /\ s[1] = Head(s) /\ s[Len(s)] = Last(s)
         /\ Len(Tail(s)) = Len(s) - 1 /\ Len(Front(s)) = Len(s) - 1
         /\ \A i \in 1..Len(Tail(s)) : Tail(s)[i] = s[i + 1]
         /\ \A i \in 1..Len(Front(s)) : Front(s)[i] = s[i]
<1>1. Len(s) \in Nat /\ Len(s) > 0
  BY EmptySeq, LenProperties
<1>2. /\ s[1] = Head(s) /\ Len(Tail(s)) = Len(s) - 1
      /\ \A i \in 1..Len(Tail(s)) : Tail(s)[i] = s[i + 1]
  BY <1>1, HeadTailProperties
<1>3. Len(Front(s)) = Len(s) - 1 /\ \A i \in 1..Len(Front(s)) : Front(s)[i] = s[i]
  <2> DEFINE n == Len(s) - 1
  <2>1. 1 \in Int /\ n \in Int /\ \A i \in 1..n : s[i] \in S
    BY <1>1
  <2>2. /\ Len(SubSeq(s, 1, n)) = IF 1 <= n THEN n - 1 + 1 ELSE 0
        /\ \A i \in 1..(n - 1 + 1) : SubSeq(s, 1, n)[i] = s[1 + i - 1]
    BY <2>1, SubSeqProperties
  <2>3. Len(SubSeq(s, 1, n)) = n
    <3>1. n \in Nat
      BY <1>1
    <3> HIDE DEF n
    <3> QED
      BY <2>2, <3>1
  <2>4. ASSUME NEW i \in 1..n PROVE SubSeq(s, 1, n)[i] = s[i]
    <3>1. i \in 1..(n - 1 + 1) /\ 1 + i - 1 = i
      BY <1>1
    <3> QED
      BY <2>2, <3>1
  <2> QED
    BY <2>3, <2>4 DEF Front
<1> QED
  BY <1>1, <1>2, <1>3 DEF Last

LEMMA OneMore ==
  ASSUME NEW S, NEW s \in Seq(S), NEW x \in S
  PROVE  /\ Len(s) \in Nat /\ Len(Append(s, x)) = Len(s) + 1
         /\ \A i \in 1..Len(s) : Append(s, x)[i] = s[i]
         /\ Append(s, x)[Len(s) + 1] = x /\ Last(Append(s, x)) = x /\ Append(s, x) # <<>>
<1>1. /\ Len(s) \in Nat /\ Len(Append(s, x)) = Len(s) + 1
      /\ \A i \in 1..Len(s) : Append(s, x)[i] = s[i]
      /\ Append(s, x)[Len(s) + 1] = x /\ Append(s, x) # <<>>
  BY AppendProperties, LenProperties
<1> QED
  BY <1>1 DEF Last

-----------------------------------------------------------------------------
(* What a transaction does with a build: until it is done or undone, what  *)
(* was there and what will be there stay the same.                         *)
Spares(b) ==
  /\ Tidy'
  /\ \A path \in Paths :
       /\ Had(b, path)' <=> Had(b, path)
       /\ tx'.at # "undoing" => (WillHave(path)' <=> WillHave(path))

LEMMA UndoSpares ==
  ASSUME Shape, Tidy, NEW b \in Builds, tx.build = b, Underway, Undo, UNCHANGED disk
  PROVE  Spares(b)
<1>1. /\ tx'.at = "undoing" /\ tx'.build = b /\ tx'.todo = tx.todo /\ tx'.done = tx.done
  BY TxMoves DEF Undo, Shape
<1>2. Tidy'
  BY <1>1 DEF Tidy, TxAt
<1> QED
  BY <1>1, <1>2 DEF Spares, Had, Underway, SavedAt, Has

LEMMA SetAsideSpares ==
  ASSUME Shape, Tidy, NEW b \in Builds, tx.build = b, SetAside
  PROVE  Spares(b)
<1> DEFINE change == Head(tx.todo)
           new == [path |-> change.path, old |-> Target]
           saved == Append(tx.done, new)
<1>0. TxShape /\ DiskShape /\ tx.todo # <<>> /\ tx.at = "changing"
  BY DEF Shape, SetAside, TxAt
<1>1. tx.todo \in Seq(Changes) /\ tx.done \in Seq(Saved)
  BY <1>0 DEF TxShape
<1>2. /\ Len(tx.todo) \in Nat \ {0} /\ tx.todo[1] = change
      /\ Len(Tail(tx.todo)) = Len(tx.todo) - 1
      /\ \A i \in 1..Len(Tail(tx.todo)) : Tail(tx.todo)[i] = tx.todo[i + 1]
  BY <1>0, <1>1, CutLists
<1>3. change \in Changes
  BY <1>0, <1>1, PartsOfLists
<1>4. change.path \in Paths
  BY <1>3 DEF Changes
<1>5. Target = disk[b][change.path] /\ new \in Saved
  BY <1>0, <1>4 DEF Saved, Target, DiskShape
<1>6. new.path = change.path /\ new.old = Target
  OBVIOUS
<1> HIDE DEF new
<1>7. /\ Len(tx.done) \in Nat /\ Len(saved) = Len(tx.done) + 1
      /\ \A i \in 1..Len(tx.done) : saved[i] = tx.done[i]
      /\ saved[Len(tx.done) + 1] = new /\ Last(saved) = new /\ saved # <<>>
  BY <1>1, <1>5, OneMore
<1> HIDE DEF saved, change
<1>8. \A j \in 1..Len(tx.done) : tx.done[j].path # change.path
  BY <1>0, <1>2 DEF Tidy, TxAt
<1>9. \A i \in 2..Len(tx.todo) : tx.todo[i].path # change.path
  BY <1>0, <1>2 DEF Tidy
<1>10. CASE Undo /\ UNCHANGED disk
  BY <1>0, <1>10, UndoSpares DEF Underway
<1>11. CASE /\ disk' = [disk EXCEPT ![tx.build][change.path] = Absent]
            /\ change.to # Absent
            /\ tx' = [tx EXCEPT !.at = "placing", !.done = saved]
  <2>1. /\ tx'.at = "placing" /\ tx'.done = saved /\ tx'.todo = tx.todo /\ tx'.build = b
    BY <1>0, <1>11 DEF TxShape
  <2>2. Tidy'
    <3>1. \A i, j \in 1..Len(saved) : saved[i].path = saved[j].path => i = j
      BY <1>6, <1>7, <1>8 DEF Tidy
    <3>2. \A i \in 1..Len(tx.todo), j \in 1..Len(saved) :
            tx.todo[i].path = saved[j].path => i = 1 /\ j = Len(saved)
      <4>1. \A i \in 1..Len(tx.todo), j \in 1..Len(tx.done) : tx.todo[i].path # tx.done[j].path
        BY <1>0 DEF Tidy, TxAt
      <4> QED
        BY <1>2, <1>6, <1>7, <1>9, <4>1
    <3>3. Last(saved).path = Head(tx.todo).path
      BY <1>6, <1>7 DEF change
    <3> QED
      BY <1>0, <1>7, <2>1, <3>1, <3>2, <3>3 DEF Tidy, TxAt
  <2>3. \A path \in Paths : path # change.path => disk'[b][path] = disk[b][path]
    BY <1>0, <1>4, <1>11 DEF DiskShape
  <2>4. ASSUME NEW path \in Paths PROVE Had(b, path)' <=> Had(b, path)
    <3>1. CASE path = change.path
      <4>1. Had(b, path) <=> Target # Absent
        BY <1>0, <1>5, <1>8, <3>1 DEF Had, SavedAt, Has
      <4>2. \A i \in 1..Len(saved) : saved[i].path = path <=> i = Len(tx.done) + 1
        BY <1>6, <1>7, <1>8, <3>1
      <4>3. Had(b, path)' <=> Target # Absent
        BY <1>6, <1>7, <2>1, <4>2 DEF Had, SavedAt, Underway
      <4> QED
        BY <4>1, <4>3
    <3>2. CASE path # change.path
      <4>1. \A i \in 1..Len(saved) :
              saved[i].path = path => i \in 1..Len(tx.done) /\ saved[i] = tx.done[i]
        BY <1>6, <1>7, <3>2
      <4>2. \A i \in 1..Len(tx.done) : i \in 1..Len(saved) /\ saved[i] = tx.done[i]
        BY <1>7
      <4>3. (SavedAt(path))' <=> SavedAt(path)
        BY <2>1, <4>1, <4>2 DEF SavedAt
      <4>4. (\E i \in 1..Len(tx.done) : tx.done[i].path = path /\ tx.done[i].old # Absent)'
              <=> \E i \in 1..Len(tx.done) : tx.done[i].path = path /\ tx.done[i].old # Absent
        BY <2>1, <4>1, <4>2
      <4>5. Has(b, path)' <=> Has(b, path)
        BY <2>3, <3>2 DEF Has
      <4> QED
        BY <1>0, <2>1, <4>3, <4>4, <4>5 DEF Had, Underway
    <3> QED
      BY <3>1, <3>2
  <2>5. ASSUME NEW path \in Paths PROVE WillHave(path)' <=> WillHave(path)
    <3>1. (PlannedAt(path))' <=> PlannedAt(path)
      BY <2>1 DEF PlannedAt
    <3>2. PlannedAt(change.path)
      BY <1>2 DEF PlannedAt
    <3>3. path # change.path => (Has(tx.build, path)' <=> Has(tx.build, path))
      BY <2>1, <2>3 DEF Has
    <3> QED
      BY <2>1, <3>1, <3>2, <3>3 DEF WillHave
  <2> QED
    BY <2>2, <2>4, <2>5 DEF Spares
<1>12. CASE /\ disk' = [disk EXCEPT ![tx.build][change.path] = Absent]
            /\ change.to = Absent
            /\ tx' = [tx EXCEPT !.todo = Tail(@),
                                !.done = IF Target = Absent THEN @ ELSE saved]
  <2>1. /\ tx'.at = "changing" /\ tx'.todo = Tail(tx.todo) /\ tx'.build = b
        /\ tx'.done = IF Target = Absent THEN tx.done ELSE saved
    BY <1>0, <1>12 DEF TxShape
  <2>2. Tidy'
    <3>1. \A i, j \in 1..Len(saved) : saved[i].path = saved[j].path => i = j
      BY <1>6, <1>7, <1>8 DEF Tidy
    <3>2. \A i, j \in 1..Len(Tail(tx.todo)) :
            Tail(tx.todo)[i].path = Tail(tx.todo)[j].path => i = j
      BY <1>0, <1>2 DEF Tidy
    <3>3. \A i \in 1..Len(Tail(tx.todo)), j \in 1..Len(saved) :
            Tail(tx.todo)[i].path # saved[j].path
      <4>1. \A i \in 1..Len(tx.todo), j \in 1..Len(tx.done) : tx.todo[i].path # tx.done[j].path
        BY <1>0 DEF Tidy, TxAt
      <4> QED
        BY <1>2, <1>6, <1>7, <1>9, <4>1
    <3>4. \A i \in 1..Len(Tail(tx.todo)), j \in 1..Len(tx.done) :
            Tail(tx.todo)[i].path # tx.done[j].path
      BY <1>0, <1>2 DEF Tidy, TxAt
    <3>5. \A i, j \in 1..Len(tx.done) : tx.done[i].path = tx.done[j].path => i = j
      BY DEF Tidy
    <3>6. \A i, j \in 1..Len(tx'.done) : tx'.done[i].path = tx'.done[j].path => i = j
      BY <2>1, <3>1, <3>5
    <3>7. \A i \in 1..Len(tx'.todo), j \in 1..Len(tx'.done) :
            tx'.todo[i].path # tx'.done[j].path
      BY <2>1, <3>3, <3>4
    <3>8. \A i, j \in 1..Len(tx'.todo) : tx'.todo[i].path = tx'.todo[j].path => i = j
      BY <2>1, <3>2
    <3> QED
      BY <2>1, <3>6, <3>7, <3>8 DEF Tidy, TxAt
  <2>3. /\ disk'[b][change.path] = Absent
        /\ \A path \in Paths : path # change.path => disk'[b][path] = disk[b][path]
    BY <1>0, <1>4, <1>12 DEF DiskShape
  <2>4. ASSUME NEW path \in Paths PROVE Had(b, path)' <=> Had(b, path)
    <3>1. CASE path = change.path
      <4>1. Had(b, path) <=> Target # Absent
        BY <1>0, <1>5, <1>8, <3>1 DEF Had, SavedAt, Has
      <4>2. \A i \in 1..Len(saved) : saved[i].path = path <=> i = Len(tx.done) + 1
        BY <1>6, <1>7, <1>8, <3>1
      <4>3. CASE Target = Absent
        BY <1>8, <2>1, <2>3, <3>1, <4>1, <4>3 DEF Had, SavedAt, Has
      <4>4. CASE Target # Absent
        <5>1. tx'.done = saved
          BY <2>1, <4>4
        <5>2. Had(b, path)' <=> Target # Absent
          BY <1>6, <1>7, <2>1, <4>2, <5>1 DEF Had, SavedAt, Underway
        <5> QED
          BY <4>1, <5>2
      <4> QED
        BY <4>3, <4>4
    <3>2. CASE path # change.path
      <4>1. \A i \in 1..Len(tx'.done) :
              tx'.done[i].path = path => i \in 1..Len(tx.done) /\ tx'.done[i] = tx.done[i]
        BY <1>6, <1>7, <2>1, <3>2
      <4>2. \A i \in 1..Len(tx.done) : i \in 1..Len(tx'.done) /\ tx'.done[i] = tx.done[i]
        BY <1>7, <2>1
      <4>3. (SavedAt(path))' <=> SavedAt(path)
        BY <4>1, <4>2 DEF SavedAt
      <4>4. (\E i \in 1..Len(tx.done) : tx.done[i].path = path /\ tx.done[i].old # Absent)'
              <=> \E i \in 1..Len(tx.done) : tx.done[i].path = path /\ tx.done[i].old # Absent
        BY <4>1, <4>2
      <4>5. Has(b, path)' <=> Has(b, path)
        BY <2>3, <3>2 DEF Has
      <4> QED
        BY <1>0, <2>1, <4>3, <4>4, <4>5 DEF Had, Underway
    <3> QED
      BY <3>1, <3>2
  <2>5. ASSUME NEW path \in Paths PROVE WillHave(path)' <=> WillHave(path)
    <3>1. CASE path = change.path
      <4>1. ~WillHave(path)
        <5>1. PlannedAt(path)
          BY <1>2, <3>1 DEF PlannedAt
        <5>2. \A i \in 1..Len(tx.todo) : tx.todo[i].path = path => tx.todo[i].to = Absent
          BY <1>2, <1>9, <1>12, <3>1
        <5> QED
          BY <5>1, <5>2 DEF WillHave
      <4>2. ~(PlannedAt(path))'
        BY <1>2, <1>9, <2>1, <3>1 DEF PlannedAt
      <4>3. ~WillHave(path)'
        BY <2>1, <2>3, <3>1, <4>2 DEF WillHave, Has
      <4> QED
        BY <4>1, <4>3
    <3>2. CASE path # change.path
      <4>1. \A i \in 1..Len(tx.todo) : tx.todo[i].path = path =>
              i - 1 \in 1..Len(tx'.todo) /\ tx'.todo[i - 1] = tx.todo[i]
        BY <1>2, <2>1, <3>2
      <4>2. \A i \in 1..Len(tx'.todo) : i + 1 \in 1..Len(tx.todo) /\ tx'.todo[i] = tx.todo[i + 1]
        BY <1>2, <2>1
      <4>3. (PlannedAt(path))' <=> PlannedAt(path)
        BY <4>1, <4>2 DEF PlannedAt
      <4>4. (\E i \in 1..Len(tx.todo) : tx.todo[i].path = path /\ tx.todo[i].to # Absent)'
              <=> \E i \in 1..Len(tx.todo) : tx.todo[i].path = path /\ tx.todo[i].to # Absent
        BY <4>1, <4>2
      <4>5. Has(tx.build, path)' <=> Has(tx.build, path)
        BY <2>1, <2>3, <3>2 DEF Has
      <4> QED
        BY <4>3, <4>4, <4>5 DEF WillHave
    <3> QED
      BY <3>1, <3>2
  <2> QED
    BY <2>2, <2>4, <2>5 DEF Spares
<1> QED
  BY <1>10, <1>11, <1>12 DEF SetAside, change, saved, new

LEMMA PlaceFileSpares ==
  ASSUME Shape, Tidy, NEW b \in Builds, tx.build = b, PlaceFile
  PROVE  Spares(b)
<1> DEFINE change == Head(tx.todo)
<1>0. /\ TxShape /\ DiskShape /\ tx.todo # <<>> /\ tx.at = "placing"
      /\ change.to = Sound
  BY DEF Shape, PlaceFile, TxAt, TxShape
<1>1. tx.todo \in Seq(Changes) /\ tx.done \in Seq(Saved)
  BY <1>0 DEF TxShape
<1>2. /\ Len(tx.todo) \in Nat \ {0} /\ tx.todo[1] = change
      /\ Len(Tail(tx.todo)) = Len(tx.todo) - 1
      /\ \A i \in 1..Len(Tail(tx.todo)) : Tail(tx.todo)[i] = tx.todo[i + 1]
  BY <1>0, <1>1, CutLists
<1>3. change \in Changes
  BY <1>0, <1>1, PartsOfLists
<1>4. change.path \in Paths
  BY <1>3 DEF Changes
<1>5. tx.done # <<>> /\ Last(tx.done).path = change.path
  BY <1>0 DEF Tidy, TxAt
<1>6. Len(tx.done) \in Nat \ {0} /\ tx.done[Len(tx.done)].path = change.path
  BY <1>1, <1>5, CutLists
<1> HIDE DEF change
<1>7. \A i \in 2..Len(tx.todo) : tx.todo[i].path # change.path
  BY <1>0, <1>2 DEF Tidy
<1>8. CASE Undo /\ UNCHANGED disk
  BY <1>0, <1>8, UndoSpares DEF Underway
<1>9. CASE /\ disk' = [disk EXCEPT ![tx.build][change.path] = change.to]
           /\ tx' = [tx EXCEPT !.at = "changing", !.todo = Tail(@)]
  <2>1. /\ tx'.at = "changing" /\ tx'.todo = Tail(tx.todo) /\ tx'.build = b
        /\ tx'.done = tx.done
    BY <1>0, <1>9 DEF TxShape
  <2>2. Tidy'
    BY <1>0, <1>2, <1>7, <2>1 DEF Tidy, TxAt
  <2>3. /\ disk'[b][change.path] = Sound
        /\ \A path \in Paths : path # change.path => disk'[b][path] = disk[b][path]
    BY <1>0, <1>4, <1>9 DEF DiskShape
  <2>4. ASSUME NEW path \in Paths PROVE Had(b, path)' <=> Had(b, path)
    <3>1. SavedAt(change.path)
      BY <1>6 DEF SavedAt
    <3>2. path # change.path => (Has(b, path)' <=> Has(b, path))
      BY <2>3 DEF Has
    <3>3. (SavedAt(path))' <=> SavedAt(path)
      BY <2>1 DEF SavedAt
    <3> QED
      BY <1>0, <2>1, <3>1, <3>2, <3>3 DEF Had, Underway
  <2>5. ASSUME NEW path \in Paths PROVE WillHave(path)' <=> WillHave(path)
    <3>1. CASE path = change.path
      <4>1. WillHave(path)
        <5>1. 1 \in 1..Len(tx.todo) /\ tx.todo[1].path = path /\ tx.todo[1].to # Absent
          BY <1>0, <1>2, <3>1 DEF Sound, Absent
        <5> QED
          BY <5>1 DEF WillHave, PlannedAt
      <4>2. ~(PlannedAt(path))'
        BY <1>2, <1>7, <2>1, <3>1 DEF PlannedAt
      <4>3. WillHave(path)'
        BY <2>1, <2>3, <3>1, <4>2 DEF WillHave, Has, Sound, Absent
      <4> QED
        BY <4>1, <4>3
    <3>2. CASE path # change.path
      <4>1. \A i \in 1..Len(tx.todo) : tx.todo[i].path = path =>
              i - 1 \in 1..Len(tx'.todo) /\ tx'.todo[i - 1] = tx.todo[i]
        BY <1>2, <2>1, <3>2
      <4>2. \A i \in 1..Len(tx'.todo) : i + 1 \in 1..Len(tx.todo) /\ tx'.todo[i] = tx.todo[i + 1]
        BY <1>2, <2>1
      <4>3. (PlannedAt(path))' <=> PlannedAt(path)
        BY <4>1, <4>2 DEF PlannedAt
      <4>4. (\E i \in 1..Len(tx.todo) : tx.todo[i].path = path /\ tx.todo[i].to # Absent)'
              <=> \E i \in 1..Len(tx.todo) : tx.todo[i].path = path /\ tx.todo[i].to # Absent
        BY <4>1, <4>2
      <4>5. Has(tx.build, path)' <=> Has(tx.build, path)
        BY <2>1, <2>3, <3>2 DEF Has
      <4> QED
        BY <4>3, <4>4, <4>5 DEF WillHave
    <3> QED
      BY <3>1, <3>2
  <2> QED
    BY <2>2, <2>4, <2>5 DEF Spares
<1> QED
  BY <1>8, <1>9 DEF PlaceFile, change

(* What is undone is back, or it is among what nobody looks into.          *)
Returns(b) ==
  /\ Tidy' /\ tx'.at = "undoing"
  /\ \A path \in Paths :
       \/ Had(b, path)' <=> Had(b, path)
       \/ torn'[b] /\ (Had(b, path) => \E s \in stray'[b] : s.path = path /\ s.old # Absent)

LEMMA UndoChangeReturns ==
  ASSUME Shape, Tidy, NEW b \in Builds, tx.build = b, UndoChange, DOMAIN stray = Builds
  PROVE  Returns(b)
<1> DEFINE last == Last(tx.done)
<1>0. TxShape /\ DiskShape /\ tx.done # <<>> /\ tx.at = "undoing"
  BY DEF Shape, UndoChange, TxAt
<1>1. tx.done \in Seq(Saved)
  BY <1>0 DEF TxShape
<1>2. /\ Len(tx.done) \in Nat \ {0} /\ tx.done[Len(tx.done)] = last
      /\ Len(Front(tx.done)) = Len(tx.done) - 1
      /\ \A i \in 1..Len(Front(tx.done)) : Front(tx.done)[i] = tx.done[i]
  BY <1>0, <1>1, CutLists
<1>3. last \in Saved
  BY <1>0, <1>1, PartsOfLists
<1>4. last.path \in Paths /\ last.old \in Contents
  BY <1>3 DEF Saved
<1>5. /\ tx'.at = "undoing" /\ tx'.done = Front(tx.done) /\ tx'.build = b
  BY <1>0 DEF TxShape, UndoChange
<1>6. \/ disk' = [disk EXCEPT ![tx.build][last.path] = last.old]
      \/ /\ disk' = disk \/ disk' = [disk EXCEPT ![tx.build][last.path] = Absent]
         /\ stray' = [stray EXCEPT ![tx.build] =
              IF last.old = Absent THEN @ ELSE @ \cup {last}]
         /\ torn' = [torn EXCEPT ![tx.build] = TRUE]
  BY DEF UndoChange
<1> HIDE DEF last
<1>7. PICK lost \in Paths : lost = last.path
  BY <1>4
<1>8. Tidy'
  BY <1>0, <1>2, <1>5 DEF Tidy, TxAt
<1>9. \A j \in 1..Len(tx'.done) : tx'.done[j].path # lost
  BY <1>2, <1>5, <1>7 DEF Tidy
<1>10. \A path \in Paths : path # lost => disk'[b][path] = disk[b][path]
  BY <1>0, <1>4, <1>6, <1>7 DEF DiskShape
<1>11. ASSUME NEW path \in Paths, path # lost PROVE Had(b, path)' <=> Had(b, path)
  <2>1. \A i \in 1..Len(tx.done) : tx.done[i].path = path =>
          i \in 1..Len(tx'.done) /\ tx'.done[i] = tx.done[i]
    BY <1>2, <1>5, <1>11, <1>7
  <2>2. \A i \in 1..Len(tx'.done) : i \in 1..Len(tx.done) /\ tx'.done[i] = tx.done[i]
    BY <1>2, <1>5
  <2>3. (SavedAt(path))' <=> SavedAt(path)
    BY <2>1, <2>2 DEF SavedAt
  <2>4. (\E i \in 1..Len(tx.done) : tx.done[i].path = path /\ tx.done[i].old # Absent)'
          <=> \E i \in 1..Len(tx.done) : tx.done[i].path = path /\ tx.done[i].old # Absent
    BY <2>1, <2>2
  <2>5. Has(b, path)' <=> Has(b, path)
    BY <1>10, <1>11 DEF Has
  <2> QED
    BY <1>0, <1>5, <2>3, <2>4, <2>5 DEF Had, Underway
<1>12. Had(b, lost) <=> last.old # Absent
  <2>1. \A i \in 1..Len(tx.done) : tx.done[i].path = lost <=> i = Len(tx.done)
    BY <1>2, <1>7 DEF Tidy
  <2> QED
    BY <1>0, <1>2, <1>7, <2>1 DEF Had, Underway, SavedAt
<1>13. Had(b, lost)' <=> disk'[b][lost] # Absent
  BY <1>9 DEF Had, SavedAt, Has
<1>14. CASE disk' = [disk EXCEPT ![tx.build][last.path] = last.old]
  <2>1. disk'[b][lost] = last.old
    BY <1>0, <1>4, <1>14, <1>7 DEF DiskShape
  <2> QED
    BY <1>5, <1>8, <1>11, <1>12, <1>13, <2>1 DEF Returns
<1>15. CASE /\ stray' = [stray EXCEPT ![tx.build] =
                 IF last.old = Absent THEN @ ELSE @ \cup {last}]
            /\ torn' = [torn EXCEPT ![tx.build] = TRUE]
  <2>1. torn'[b]
    BY <1>0, <1>15 DEF DiskShape
  <2>2. Had(b, lost) => last \in stray'[b] /\ last.old # Absent
    BY <1>12, <1>15, <1>7
  <2> QED
    BY <1>5, <1>8, <1>11, <1>7, <2>1, <2>2 DEF Returns
<1> QED
  BY <1>6, <1>14, <1>15

-----------------------------------------------------------------------------
(* What a transaction sets out to do: paths where it puts a file, and      *)
(* paths from which it takes one, each of them once.                       *)
Plan(changes, puts, takes) ==
  /\ \A i, j \in 1..Len(changes) : changes[i].path = changes[j].path => i = j
  /\ \A i \in 1..Len(changes) :
       \/ changes[i].to = Sound /\ changes[i].path \in puts
       \/ changes[i].to = Absent /\ changes[i].path \in takes
  /\ \A path \in puts \cup takes : \E i \in 1..Len(changes) : changes[i].path = path
  /\ puts \cap takes = {}

LEMMA AllOnce ==
  ASSUME NEW S, IsFiniteSet(S)
  PROVE  LET s == SetToSeq(S)
         IN  /\ s \in Seq(S) /\ DOMAIN s = 1..Len(s) /\ Len(s) \in Nat
             /\ \A i, j \in 1..Len(s) : s[i] = s[j] => i = j
             /\ \A x \in S : \E i \in 1..Len(s) : s[i] = x
<1> DEFINE s == SetToSeq(S)
           n == Cardinality(S)
<1>1. n \in Nat /\ ExistsBijection(1..n, S)
  BY FS_CardinalityType
<1>2. \E f \in [1..n -> S] : IsInjective(f)
  BY <1>1 DEF ExistsBijection, Bijection, Injection
<1>3. s \in [1..n -> S] /\ IsInjective(s)
  BY <1>2 DEF SetToSeq
<1> HIDE DEF s
<1>4. s \in Injection(1..n, S)
  BY <1>3 DEF Injection
<1>5. Cardinality(1..n) = n
  BY <1>1, FS_Interval
<1>6. s \in Surjection(1..n, S)
  BY <1>4, <1>5, FS_Injection
<1>7. \A x \in S : \E i \in 1..n : s[i] = x
  BY <1>6 DEF Surjection
<1>8. \A i, j \in 1..n : s[i] = s[j] => i = j
  BY <1>3 DEF IsInjective
<1> HIDE DEF n
<1>9. s \in Seq(S) /\ DOMAIN s = 1..n /\ Len(s) = n
  BY <1>1, <1>3
<1> QED
  BY <1>1, <1>7, <1>8, <1>9 DEF s

LEMMA PlanOfSet ==
  ASSUME NEW S, IsFiniteSet(S)
  PROVE  LET paths == SetToSeq(S)
         IN  /\ Plan([i \in DOMAIN paths |-> Put(paths[i])], S, {})
             /\ Plan([i \in DOMAIN paths |-> Take(paths[i])], {}, S)
<1> DEFINE paths == SetToSeq(S)
           puts == [i \in DOMAIN paths |-> Put(paths[i])]
           takes == [i \in DOMAIN paths |-> Take(paths[i])]
<1>1. /\ paths \in Seq(S) /\ DOMAIN paths = 1..Len(paths) /\ Len(paths) \in Nat
      /\ \A i, j \in 1..Len(paths) : paths[i] = paths[j] => i = j
      /\ \A x \in S : \E i \in 1..Len(paths) : paths[i] = x
  BY AllOnce
<1> HIDE DEF paths
<1>2. \A i \in 1..Len(paths) : paths[i] \in S
  BY <1>1, ElementOfSeq
<1>3. Len(puts) = Len(paths) /\ Len(takes) = Len(paths)
  BY <1>1
<1>4. \A i \in 1..Len(paths) :
        /\ puts[i].path = paths[i] /\ puts[i].to = Sound
        /\ takes[i].path = paths[i] /\ takes[i].to = Absent
  BY <1>1 DEF Put, Take
<1> HIDE DEF puts, takes
<1>5. Plan(puts, S, {})
  BY <1>1, <1>2, <1>3, <1>4 DEF Plan
<1>6. Plan(takes, {}, S)
  BY <1>1, <1>2, <1>3, <1>4 DEF Plan
<1> QED
  BY <1>5, <1>6 DEF paths, puts, takes

LEMMA PlanOfOne ==
  ASSUME NEW path
  PROVE  Plan(<<Put(path)>>, {path}, {}) /\ Plan(<<Take(path)>>, {}, {path})
BY DEF Plan, Put, Take

LEMMA PlanOfNothing == Plan(<<>>, {}, {})
BY DEF Plan

LEMMA PlansTogether ==
  ASSUME NEW U, NEW s \in Seq(U), NEW t \in Seq(U), NEW P, NEW T, NEW Q, NEW R,
         Plan(s, P, T), Plan(t, Q, R), (P \cup T) \cap (Q \cup R) = {}
  PROVE  Plan(s \o t, P \cup Q, T \cup R)
<1> DEFINE u == s \o t
<1>1. Len(s) \in Nat /\ Len(t) \in Nat
  BY LenProperties
<1>2. Len(u) = Len(s) + Len(t)
  BY <1>1, ConcatProperties
<1>3. /\ \A i \in 1..Len(s) : u[i] = s[i]
      /\ \A i \in 1..Len(t) : u[Len(s) + i] = t[i]
  BY <1>1
<1> HIDE DEF u
<1>4. \A i \in 1..Len(u) :
        \/ i \in 1..Len(s) /\ u[i] = s[i]
        \/ i - Len(s) \in 1..Len(t) /\ u[i] = t[i - Len(s)]
  <2> SUFFICES ASSUME NEW i \in 1..Len(u), i \notin 1..Len(s)
               PROVE  i - Len(s) \in 1..Len(t) /\ u[i] = t[i - Len(s)]
    BY <1>3
  <2>1. i - Len(s) \in 1..Len(t) /\ i = Len(s) + (i - Len(s))
    BY <1>1, <1>2
  <2> QED
    BY <1>3, <2>1
<1>5. /\ \A i \in 1..Len(s) : s[i].path \in P \cup T
      /\ \A i \in 1..Len(t) : t[i].path \in Q \cup R
  BY DEF Plan
<1>6. ASSUME NEW i \in 1..Len(u), NEW j \in 1..Len(u), u[i].path = u[j].path
      PROVE  i = j
  <2>1. CASE i \in 1..Len(s) /\ u[i] = s[i]
    <3>1. j \in 1..Len(s) /\ u[j] = s[j]
      BY <1>4, <1>5, <1>6, <2>1
    <3> QED
      BY <1>6, <2>1, <3>1 DEF Plan
  <2>2. CASE i - Len(s) \in 1..Len(t) /\ u[i] = t[i - Len(s)]
    <3>1. j - Len(s) \in 1..Len(t) /\ u[j] = t[j - Len(s)]
      BY <1>4, <1>5, <1>6, <2>2
    <3>2. i - Len(s) = j - Len(s)
      BY <1>6, <2>2, <3>1 DEF Plan
    <3> QED
      BY <1>1, <1>2, <3>2
  <2> QED
    BY <1>4, <2>1, <2>2
<1>7. \A i \in 1..Len(u) :
        \/ u[i].to = Sound /\ u[i].path \in P \cup Q
        \/ u[i].to = Absent /\ u[i].path \in T \cup R
  BY <1>4 DEF Plan
<1>8. ASSUME NEW path \in P \cup Q \cup T \cup R
      PROVE  \E i \in 1..Len(u) : u[i].path = path
  <2>1. CASE path \in P \cup T
    <3>1. PICK i \in 1..Len(s) : s[i].path = path
      BY <2>1 DEF Plan
    <3> QED
      BY <1>1, <1>2, <1>3, <3>1
  <2>2. CASE path \in Q \cup R
    <3>1. PICK i \in 1..Len(t) : t[i].path = path
      BY <2>2 DEF Plan
    <3>2. Len(s) + i \in 1..Len(u)
      BY <1>1, <1>2
    <3> QED
      BY <1>3, <3>1, <3>2
  <2> QED
    BY <1>8, <2>1, <2>2
<1>9. (P \cup Q) \cap (T \cup R) = {}
  BY DEF Plan
<1> QED
  BY <1>6, <1>7, <1>8, <1>9 DEF Plan, u

(* When it begins, everything is still to be done.                         *)
LEMMA Planned ==
  ASSUME NEW b, NEW changes \in Seq(Changes), NEW puts, NEW takes,
         Plan(changes, puts, takes), BeginChanges(b, changes), UNCHANGED disk
  PROVE  /\ Tidy' /\ tx'.at = "changing"
         /\ \A x \in Builds, path \in Paths : Had(x, path)' <=> Has(x, path)
         /\ \A path \in Paths :
              WillHave(path)' <=> path \in puts \/ (path \notin takes /\ Has(b, path))
<1>1. /\ tx'.at = "changing" /\ tx'.build = b /\ tx'.todo = changes /\ tx'.done = <<>>
  BY TxBegins
<1>2. 1..Len(tx'.done) = {}
  BY <1>1, EmptySeq
<1>3. Tidy'
  BY <1>1, <1>2 DEF Tidy, TxAt, Plan
<1>4. \A x \in Builds, path \in Paths : Had(x, path)' <=> Has(x, path)
  BY <1>2 DEF Had, SavedAt, Has
<1>5. ASSUME NEW path \in Paths
      PROVE  WillHave(path)' <=> path \in puts \/ (path \notin takes /\ Has(b, path))
  <2>1. (PlannedAt(path))' <=> path \in puts \cup takes
    BY <1>1 DEF PlannedAt, Plan
  <2>2. ASSUME NEW i \in 1..Len(changes), changes[i].path = path
        PROVE  changes[i].to # Absent <=> path \in puts
    BY <2>2 DEF Plan, Sound, Absent
  <2>3. path \in puts \cup takes =>
          ((\E i \in 1..Len(changes) : changes[i].path = path /\ changes[i].to # Absent)
             <=> path \in puts)
    BY <2>2 DEF Plan
  <2>4. Has(tx.build, path)' <=> Has(b, path)
    BY <1>1 DEF Has
  <2> QED
    BY <1>1, <2>1, <2>3, <2>4 DEF WillHave
<1> QED
  BY <1>1, <1>3, <1>4, <1>5

-----------------------------------------------------------------------------
(* When a transaction begins.                                              *)
LEMMA SameLeft ==
  ASSUME UNCHANGED <<version, enabled>>, NEW b, NEW k
  PROVE  Leaves(k, b)' <=> Leaves(k, b)
BY DEF Leaves, LeavesBehind, Replaced, NewPaths, PackRows, KeepsFlag, RowsOf, RowPath, RowName,
       Installed

LEMMA SameReplaces ==
  ASSUME UNCHANGED <<version, enabled>>, NEW rows, NEW b, NEW path
  PROVE  Replaces(rows, b, path)' <=> Replaces(rows, b, path)
BY DEF Replaces, RowPath, Installed

BeginsAs(b, changes, puts, takes, rows, k) ==
  /\ b \in Builds /\ changes \in Seq(Changes) /\ Plan(changes, puts, takes)
  /\ BeginChanges(b, changes)
  /\ job'.at = "changing" /\ job'.build = b /\ job'.commit = rows /\ job'.pack = k
  /\ puts \cap ContentPaths = PutPaths(rows)
  /\ \A path \in takes : Replaces(rows, b, path)
  /\ \A path \in ContentPaths :
       Replaces(rows, b, path) => path \in puts \cup takes \/ Leaves(k, b)

LEMMA BeginsFiles ==
  ASSUME SameRows, SameFiles, DOMAIN stray = Builds, NEW b, NEW changes, NEW puts, NEW takes,
         NEW rows, NEW k, BeginsAs(b, changes, puts, takes, rows, k)
  PROVE  TidyInv' /\ FilesInv'
<1>0. /\ b \in Builds /\ changes \in Seq(Changes) /\ Plan(changes, puts, takes)
      /\ BeginChanges(b, changes)
      /\ job'.at = "changing" /\ job'.build = b /\ job'.commit = rows /\ job'.pack = k
      /\ puts \cap ContentPaths = PutPaths(rows)
      /\ \A path \in takes : Replaces(rows, b, path)
      /\ \A path \in ContentPaths :
           Replaces(rows, b, path) => path \in puts \cup takes \/ Leaves(k, b)
  BY DEF BeginsAs
<1>1. /\ Tidy' /\ tx'.at = "changing"
      /\ \A x \in Builds, path \in Paths : Had(x, path)' <=> Has(x, path)
      /\ \A path \in Paths :
           WillHave(path)' <=> path \in puts \/ (path \notin takes /\ Has(b, path))
  BY <1>0, Planned DEF SameFiles
<1>2. TidyInv'
  BY <1>0, <1>1 DEF TidyInv, SameFiles, JobAt
<1>3. ContentPaths \subseteq Paths
  BY ContentAssumption
<1>4. puts \cap takes = {}
  BY <1>0 DEF Plan
<1>5. FilesOf(rows, k, b)'
  <2>1. \A path \in PutPaths(rows) : WillHave(path)'
    BY <1>0, <1>1, <1>3
  <2>2. ASSUME NEW path \in ContentPaths, Had(b, path)', ~WillHave(path)'
        PROVE  Replaces(rows, b, path)'
    <3>1. path \in takes
      BY <1>0, <1>1, <1>3, <2>2
    <3> QED
      BY <1>0, <3>1, SameReplaces DEF SameRows
  <2>3. ASSUME NEW path \in ContentPaths \ PutPaths(rows), WillHave(path)'
        PROVE  Had(b, path)'
    BY <1>0, <1>1, <1>3, <2>3
  <2>4. ASSUME NEW path \in ContentPaths \ PutPaths(rows), Replaces(rows, b, path)',
               WillHave(path)'
        PROVE  Leaves(k, b)'
    <3>1. Replaces(rows, b, path)
      BY <2>4, SameReplaces DEF SameRows
    <3>2. path \notin puts
      BY <1>0, <2>4
    <3>3. path \notin takes
      BY <1>1, <1>3, <2>4, <3>2
    <3> QED
      BY <1>0, <2>4, <3>1, <3>2, <3>3, SameLeft DEF SameRows
  <2> QED
    BY <2>1, <2>2, <2>3, <2>4 DEF FilesOf
<1> QED
  BY <1>0, <1>2, <1>5 DEF FilesInv, b0

WritesOne(b, changes, puts, takes, p, v, on) ==
  /\ b \in Builds /\ p \in Projects /\ v \in 0..MaxVersion /\ on \in BOOLEAN
  /\ changes \in Seq(Changes) /\ Plan(changes, puts, takes) /\ BeginChanges(b, changes)
  /\ job'.at = "changing" /\ job'.build = b /\ job'.commit = {<<p, v, on>>}
  /\ job'.pack = NoPack
  /\ puts = IF v = 0 THEN {} ELSE {ProjectPath(p, v, on)}
  /\ puts \subseteq ContentPaths
  /\ takes = {} \/ (Installed(b, p) /\ takes = {RowPath(b, p)})
  /\ Installed(b, p) => RowPath(b, p) \in puts \cup takes
  /\ v # 0 => \A q \in Projects \ {p} :
                 ~Installed(b, q) \/ RowName(b, q) # FileName[<<p, v>>]

LEMMA OneBegins ==
  ASSUME SameRows, SameFiles, DOMAIN stray = Builds,
         NEW b, NEW changes, NEW puts, NEW takes, NEW p, NEW v, NEW on,
         WritesOne(b, changes, puts, takes, p, v, on)
  PROVE  TidyInv' /\ CommitInv' /\ FilesInv'
<1> DEFINE row == <<p, v, on>>
           rows == {row}
<1>0. /\ b \in Builds /\ p \in Projects /\ v \in 0..MaxVersion /\ on \in BOOLEAN
      /\ changes \in Seq(Changes) /\ Plan(changes, puts, takes) /\ BeginChanges(b, changes)
      /\ job'.at = "changing" /\ job'.build = b /\ job'.commit = rows /\ job'.pack = NoPack
      /\ puts = IF v = 0 THEN {} ELSE {ProjectPath(p, v, on)}
      /\ puts \subseteq ContentPaths
      /\ takes = {} \/ (Installed(b, p) /\ takes = {RowPath(b, p)})
      /\ Installed(b, p) => RowPath(b, p) \in puts \cup takes
      /\ v # 0 => \A q \in Projects \ {p} :
                     ~Installed(b, q) \/ RowName(b, q) # FileName[<<p, v>>]
  BY DEF WritesOne
<1>1. row[1] = p /\ row[2] = v /\ row[3] = on
  OBVIOUS
<1>2. row \in Rows
  BY <1>0 DEF Rows
<1>3. /\ \A c : c \in rows <=> c = row
      /\ rows = {row}
  OBVIOUS
<1> HIDE DEF row, rows
<1>4. PutPaths(rows) = puts
  <2>1. {d \in rows : d[2] # 0} = IF v = 0 THEN {} ELSE {row}
    BY <1>1, <1>3
  <2> QED
    BY <1>0, <1>1, <2>1 DEF PutPaths
<1>5. \A q : HasRow(rows, q) <=> q = p
  BY <1>1, <1>3 DEF HasRow
<1>6. \A path : Replaces(rows, b, path) <=> Installed(b, p) /\ path = RowPath(b, p)
  BY <1>0, <1>5 DEF Replaces
<1>7. NoOther(rows, b)'
  <2>1. \A q \in Projects :
          v = 0 \/ q = p \/ ~Installed(b, q)' \/ RowName(b, q)' # FileName[<<p, v>>]
    BY <1>0 DEF SameRows, Installed, RowName
  <2> QED
    BY <1>1, <1>3, <2>1 DEF NoOther
<1>8. CommitInv'
  BY <1>0, <1>2, <1>3, <1>7 DEF CommitInv, b0
<1>9. BeginsAs(b, changes, puts, takes, rows, NoPack)
  BY <1>0, <1>4, <1>6 DEF BeginsAs
<1> QED
  BY <1>8, <1>9, BeginsFiles

LEMMA InstallTopBegins ==
  ASSUME LibraryInv, TidyInv, SameRows, SameFiles, InstallTop, tx'.at # "none"
  PROVE  TidyInv' /\ CommitInv' /\ FilesInv'
<1>1. /\ Shape /\ b0 \in Builds /\ tx.at = "none" /\ job.pack = NoPack /\ Top \in Frames
  BY Resolving DEF InstallTop
<1>2. PICK p \in Projects, v \in Versions, b \in Builds :
        p = Top.project /\ v = Top.version /\ b = b0
  BY <1>1 DEF Frames
<1> DEFINE on == StaysOn(p)
           commit == {<<p, v, on>>}
           changes == Update(p, v)
<1>3. /\ ~Conflict(p, FileName[<<p, v>>]) /\ BeginChanges(b, changes)
      /\ job' = [job EXCEPT !.at = "changing", !.commit = commit]
  BY <1>1, <1>2 DEF InstallTop
<1>4. on \in BOOLEAN /\ changes \in Seq(ChangesOf(ContentPaths))
  BY <1>1, UpdateOfContent DEF Shape
<1>5. changes \in Seq(Changes)
  <2>1. ChangesOf(ContentPaths) \subseteq Changes
    BY ContentAssumption DEF ChangesOf, Changes
  <2> QED
    BY <1>4, <2>1, SeqMonotonic
<1>6. ProjectPath(p, v, on) \in ContentPaths /\ v # 0 /\ v \in 0..MaxVersion
  BY <1>4, PathsOfContent, ContentAssumption DEF Versions
<1>7. /\ job'.at = "changing" /\ job'.build = b /\ job'.commit = commit /\ job'.pack = NoPack
  <2> HIDE DEF commit
  <2> QED
    BY <1>1, <1>2, <1>3 DEF Shape, JobShape, JobFields, b0
<1>8. \A q \in Projects \ {p} : ~Installed(b, q) \/ RowName(b, q) # FileName[<<p, v>>]
  BY <1>2, <1>3 DEF Conflict
<1>9. on = (~Installed(b, p) \/ enabled[b][p])
  BY <1>2 DEF StaysOn
<1>10. DOMAIN stray = Builds
  BY DEF TidyInv
<1> DEFINE puts == {ProjectPath(p, v, on)}
<1>11. CASE Installed(b, p) /\ RowName(b, p) # FileName[<<p, v>>]
  <2> DEFINE old == RowPath(b, p)
  <2>1. changes = <<Put(ProjectPath(p, v, on))>> \o <<Take(old)>>
    BY <1>2, <1>11 DEF Update
  <2>2. old # ProjectPath(p, v, on)
    BY <1>11 DEF RowPath, RowName, ProjectPath, Path
  <2>3. old \in ContentPaths
    BY <1>1, <1>11, RowPaths DEF Shape
  <2> HIDE DEF old, on
  <2>4. Plan(changes, puts, {old})
    <3>1. Plan(<<Put(ProjectPath(p, v, on))>>, puts, {}) /\ Plan(<<Take(old)>>, {}, {old})
      BY PlanOfOne
    <3>2. <<Put(ProjectPath(p, v, on))>> \in Seq(ChangesOf(ContentPaths))
          /\ <<Take(old)>> \in Seq(ChangesOf(ContentPaths))
      BY <1>6, <2>3, ChangesOfPaths
    <3>3. Plan(<<Put(ProjectPath(p, v, on))>> \o <<Take(old)>>, puts \cup {}, {} \cup {old})
      BY <2>2, <3>1, <3>2, PlansTogether
    <3> QED
      BY <2>1, <3>3
  <2>5. old = RowPath(b, p)
    BY DEF old
  <2> HIDE DEF changes
  <2>6. WritesOne(b, changes, puts, {old}, p, v, on)
    BY <1>2, <1>3, <1>4, <1>5, <1>6, <1>7, <1>8, <1>11, <2>4, <2>5 DEF WritesOne
  <2> QED
    BY <1>10, <2>6, OneBegins
<1>12. CASE ~(Installed(b, p) /\ RowName(b, p) # FileName[<<p, v>>])
  <2>1. changes = <<Put(ProjectPath(p, v, on))>>
    <3>1. changes = <<Put(ProjectPath(p, v, on))>> \o <<>>
      BY <1>2, <1>12 DEF Update
    <3> QED
      BY <3>1
  <2>2. Installed(b, p) => RowPath(b, p) = ProjectPath(p, v, on)
    <3>1. Installed(b, p) => enabled[b][p] = on
      BY <1>1, <1>4, <1>9 DEF Shape, RowShape
    <3> HIDE DEF on
    <3> QED
      BY <1>12, <3>1 DEF RowPath, RowName, ProjectPath
  <2> HIDE DEF on
  <2>3. Plan(changes, puts, {})
    BY <2>1, PlanOfOne
  <2> HIDE DEF changes
  <2>4. WritesOne(b, changes, puts, {}, p, v, on)
    BY <1>2, <1>3, <1>4, <1>5, <1>6, <1>7, <1>8, <2>2, <2>3 DEF WritesOne
  <2> QED
    BY <1>10, <2>4, OneBegins
<1> QED
  BY <1>11, <1>12

LEMMA RemoveContentBegins ==
  ASSUME LibraryInv, TidyInv, SameRows, SameFiles, NEW b \in Builds, RemoveContent(b)
  PROVE  TidyInv' /\ CommitInv' /\ FilesInv'
<1>1. Shape
  BY DEF LibraryInv
<1>2. PICK p \in Projects :
        /\ Installed(b, p)
        /\ BeginChanges(b, <<Take(RowPath(b, p))>>)
        /\ job' = [Start("remove", b) EXCEPT !.at = "changing", !.commit = {<<p, 0, TRUE>>}]
  BY DEF RemoveContent
<1> DEFINE old == RowPath(b, p)
           changes == <<Take(old)>>
           commit == {<<p, 0, TRUE>>}
           r == Start("remove", b)
<1>3. changes \in Seq(Changes)
  <2>1. old \in UserPaths
    BY <1>1, <1>2, RowPaths, PathsOfContent DEF Shape
  <2> QED
    BY <2>1, ChangesOfContent
<1>4. Plan(changes, {}, {old})
  BY PlanOfOne
<1>5. DOMAIN r = JobFields /\ r.build = b /\ r.pack = NoPack
  BY Starts
<1> HIDE DEF commit, r
<1>6. /\ job'.at = "changing" /\ job'.build = b /\ job'.commit = commit /\ job'.pack = NoPack
  BY <1>2, <1>5 DEF JobFields, r, commit
<1>7. commit = {<<p, 0, TRUE>>}
  BY DEF commit
<1>8. 0 \in 0..MaxVersion /\ TRUE \in BOOLEAN /\ DOMAIN stray = Builds
  BY ContentAssumption DEF TidyInv
<1>9. BeginChanges(b, changes)
  BY <1>2
<1>10. old = RowPath(b, p)
  BY DEF old
<1> HIDE DEF changes, old
<1>11. WritesOne(b, changes, {}, {old}, p, 0, TRUE)
  BY <1>2, <1>3, <1>4, <1>6, <1>7, <1>8, <1>9, <1>10 DEF WritesOne
<1> QED
  BY <1>8, <1>11, OneBegins

LEMMA ImportLocalBegins ==
  ASSUME LibraryInv, TidyInv, SameRows, SameFiles, NEW b \in Builds, ImportLocal(b)
  PROVE  TidyInv' /\ CommitInv' /\ FilesInv'
<1>1. Shape
  BY DEF LibraryInv
<1>2. PICK p \in Locals, on \in BOOLEAN :
        /\ on = (~Installed(b, p) \/ enabled[b][p])
        /\ ~\E q \in Projects \ Locals :
              Installed(b, q) /\ RowName(b, q) = FileName[<<p, 1>>]
        /\ BeginChanges(b, <<Put(ProjectPath(p, 1, on))>>)
        /\ job' = [Start("import", b) EXCEPT !.at = "changing", !.commit = {<<p, 1, on>>}]
  BY DEF ImportLocal
<1>3. p \in Projects /\ on \in BOOLEAN /\ 1 \in Versions /\ 1 \in 0..MaxVersion /\ 1 # 0
  BY <1>2, ContentAssumption DEF Versions
<1> DEFINE new == ProjectPath(p, 1, on)
           changes == <<Put(new)>>
           commit == {<<p, 1, on>>}
           r == Start("import", b)
<1>4. new \in ContentPaths
  BY <1>3, PathsOfContent
<1>5. changes \in Seq(Changes)
  <2>1. new \in UserPaths
    BY <1>4, PathsOfContent
  <2> QED
    BY <2>1, ChangesOfContent
<1>6. Plan(changes, {new}, {})
  BY PlanOfOne
<1>7. DOMAIN r = JobFields /\ r.build = b /\ r.pack = NoPack
  BY Starts
<1>8. Installed(b, p) => RowPath(b, p) = new
  <2> SUFFICES ASSUME Installed(b, p) PROVE RowPath(b, p) = new
    OBVIOUS
  <2>1. version[b][p] \in Versions
    BY <1>1, <1>3, RowPaths DEF Shape
  <2>2. FileName[<<p, version[b][p]>>] = FileName[<<p, 1>>]
    BY <1>2, <1>3, <2>1, ContentAssumption
  <2>3. enabled[b][p] = on
    BY <1>1, <1>2, <1>3 DEF Shape, RowShape
  <2> QED
    BY <2>2, <2>3 DEF RowPath, ProjectPath
<1>9. ASSUME NEW q \in Projects \ {p}, Installed(b, q)
      PROVE  RowName(b, q) # FileName[<<p, 1>>]
  <2>1. CASE q \in Locals
    <3>1. version[b][q] \in Versions
      BY <1>1, <1>9, RowPaths DEF Shape
    <3> QED
      BY <1>2, <1>3, <2>1, <3>1, ContentAssumption DEF RowName
  <2> QED
    BY <1>2, <1>9, <2>1
<1> HIDE DEF commit, r
<1>10. /\ job'.at = "changing" /\ job'.build = b /\ job'.commit = commit /\ job'.pack = NoPack
  BY <1>2, <1>7 DEF JobFields, r, commit
<1>11. commit = {<<p, 1, on>>} /\ DOMAIN stray = Builds
  BY DEF commit, TidyInv
<1>12. BeginChanges(b, changes)
  BY <1>2
<1>13. new = ProjectPath(p, 1, on)
  BY DEF new
<1> HIDE DEF changes, new
<1>14. WritesOne(b, changes, {new}, {}, p, 1, on)
  BY <1>3, <1>4, <1>5, <1>6, <1>8, <1>9, <1>10, <1>11, <1>12, <1>13 DEF WritesOne
<1> QED
  BY <1>11, <1>14, OneBegins

(* A pack puts its files, and takes those of rows it replaces.             *)
LEMMA PlanOfPack ==
  ASSUME RowShape, NEW b \in Builds, NEW k \in Packs, NEW repairing
  PROVE  \E puts, takes :
           /\ Plan(PackChanges(b, k, repairing), puts, takes)
           /\ puts \cap ContentPaths = NewPaths(PackRows(b, k))
           /\ takes = IF k \in CurseForge THEN {} ELSE Replaced(b, k)
<1> DEFINE N == NewPaths(PackRows(b, k))
           R == Replaced(b, k)
           new == SetToSeq(N)
           first == [i \in DOMAIN new |-> Put(new[i])]
           config == ConfigChange(b, repairing)
           rest == Removals(b, k)
           set == IF repairing /\ Has(b, ConfigPath) THEN {} ELSE {ConfigPath}
           taken == IF k \in CurseForge THEN {} ELSE R
<1>1. N \subseteq ContentPaths /\ IsFiniteSet(N)
  BY RowsOfPack
<1>2. R \subseteq ContentPaths /\ IsFiniteSet(R) /\ R \cap N = {}
  BY ReplacedPaths DEF Replaced
<1>3. first \in Seq(ChangesOf(UserPaths))
  BY <1>1, ListedChanges DEF UserPaths
<1>4. config \in Seq(ChangesOf(UserPaths))
  BY ChangesOfPaths DEF ConfigChange, UserPaths
<1>5. rest \in Seq(ChangesOf(UserPaths))
  BY <1>2, ListedChanges, ChangesOfPaths DEF Removals, UserPaths
<1>6. Plan(first, N, {})
  BY <1>1, PlanOfSet
<1>7. Plan(config, set, {})
  BY PlanOfOne, PlanOfNothing DEF ConfigChange
<1>8. Plan(rest, {}, taken)
  BY <1>2, PlanOfSet, PlanOfNothing DEF Removals
<1>9. ConfigPath \notin ContentPaths
  BY ContentAssumption
<1>10. set \subseteq {ConfigPath} /\ taken \subseteq R
  OBVIOUS
<1>11. PackChanges(b, k, repairing) = first \o config \o rest
  BY DEF PackChanges
<1>12. taken = IF k \in CurseForge THEN {} ELSE Replaced(b, k)
  OBVIOUS
<1>13. N = NewPaths(PackRows(b, k))
  OBVIOUS
<1> HIDE DEF first, config, rest, set, taken, N, R, new
<1>14. Plan(first \o config, N \cup set, {} \cup {})
  <2>1. (N \cup {}) \cap (set \cup {}) = {}
    BY <1>1, <1>9, <1>10
  <2> QED
    BY <1>3, <1>4, <1>6, <1>7, <2>1, PlansTogether
<1>15. first \o config \in Seq(ChangesOf(UserPaths))
  BY <1>3, <1>4, ChangesOfPaths
<1>16. Plan((first \o config) \o rest, N \cup set \cup {}, {} \cup {} \cup taken)
  <2>1. (N \cup set \cup ({} \cup {})) \cap ({} \cup taken) = {}
    BY <1>1, <1>2, <1>9, <1>10
  <2> QED
    BY <1>5, <1>8, <1>14, <1>15, <2>1, PlansTogether
<1>17. N \cup set \cup {} = N \cup set /\ {} \cup {} \cup taken = taken
  OBVIOUS
<1>18. Plan(PackChanges(b, k, repairing), N \cup set, taken)
  BY <1>11, <1>16, <1>17
<1>19. (N \cup set) \cap ContentPaths = N
  BY <1>1, <1>9, <1>10
<1> QED
  BY <1>12, <1>13, <1>18, <1>19

LEMMA PackReplaces ==
  ASSUME NEW b, NEW k \in Packs
  PROVE  /\ PutPaths(PackRows(b, k)) = NewPaths(PackRows(b, k))
         /\ \A path : Replaces(PackRows(b, k), b, path) <=>
              \E p \in {f[1] : f \in PackFiles[k]} \cap {q \in Projects : Installed(b, q)} :
                path = RowPath(b, p)
<1> DEFINE rows == PackRows(b, k)
<1>1. PackFiles[k] \subseteq Projects \X Versions
  BY ContentAssumption
<1>2. \A r \in rows : r[2] # 0
  BY <1>1, ContentAssumption DEF PackRows, Versions
<1>3. {d \in rows : d[2] # 0} = rows
  BY <1>2
<1>4. \A p : HasRow(rows, p) <=> p \in {f[1] : f \in PackFiles[k]}
  <2> DEFINE row(f) == <<f[1], f[2], KeepsFlag(b, f[1], f[2], k)>>
  <2>1. \A c : c \in rows <=> \E f \in PackFiles[k] : c = row(f)
    BY DEF PackRows
  <2>2. \A f \in PackFiles[k] : row(f)[1] = f[1]
    OBVIOUS
  <2> HIDE DEF row, rows
  <2> QED
    BY <2>1, <2>2 DEF HasRow
<1> HIDE DEF rows
<1>5. PutPaths(rows) = NewPaths(rows)
  BY <1>3 DEF PutPaths, NewPaths
<1>6. \A path : Replaces(rows, b, path) <=>
              \E p \in {f[1] : f \in PackFiles[k]} \cap {q \in Projects : Installed(b, q)} :
                path = RowPath(b, p)
  BY <1>4 DEF Replaces
<1> QED
  BY <1>5, <1>6 DEF rows

LEMMA StagePackBegins ==
  ASSUME LibraryInv, TidyInv, SameRows, SameFiles, StagePackHere
  PROVE  TidyInv' /\ CommitInv' /\ FilesInv'
<1>1. /\ JobAt("downloading") /\ job.pack # NoPack
      /\ BeginChanges(b0, PackChanges(b0, job.pack, job.repairing))
      /\ job' = [job EXCEPT !.at = "changing", !.commit = PackRows(b0, job.pack)]
  BY DEF StagePackHere, StagePack
<1>2. /\ Shape /\ RowShape /\ b0 \in Builds /\ job.pack \in Packs
  BY <1>1 DEF LibraryInv, Shape, JobShape, PhaseInv, JobAt
<1>3. PICK b \in Builds, k \in Packs : b = b0 /\ k = job.pack
  BY <1>2
<1> DEFINE rows == PackRows(b, k)
           changes == PackChanges(b, k, job.repairing)
<1>4. changes \in Seq(Changes)
  <2>1. changes \in Seq(ChangesOf(UserPaths))
    BY <1>2, ChangesOfPack DEF UserPaths
  <2>2. ChangesOf(UserPaths) \subseteq Changes
    BY ContentAssumption DEF ChangesOf, Changes, UserPaths
  <2> QED
    BY <2>1, <2>2, SeqMonotonic
<1>5. PICK puts, takes :
           /\ Plan(changes, puts, takes)
           /\ puts \cap ContentPaths = NewPaths(rows)
           /\ takes = IF k \in CurseForge THEN {} ELSE Replaced(b, k)
  BY <1>2, PlanOfPack
<1>6. rows = PackRows(b, k)
  OBVIOUS
<1> HIDE DEF rows, changes
<1>7. /\ PutPaths(rows) = NewPaths(rows)
      /\ \A path : Replaces(rows, b, path) <=>
              \E p \in {f[1] : f \in PackFiles[k]} \cap {q \in Projects : Installed(b, q)} :
                path = RowPath(b, p)
  BY <1>6, PackReplaces
<1>8. Replaced(b, k) = {path \in {RowPath(b, p) :
           p \in {f[1] : f \in PackFiles[k]} \cap {q \in Projects : Installed(b, q)}} :
             path \notin NewPaths(rows)}
  BY <1>6 DEF Replaced
<1>9. \A path \in takes : Replaces(rows, b, path)
  BY <1>5, <1>7, <1>8
<1>10. ASSUME NEW path \in ContentPaths, Replaces(rows, b, path)
       PROVE  path \in puts \cup takes \/ Leaves(k, b)
  <2>1. path \in NewPaths(rows) \/ path \in Replaced(b, k)
    BY <1>7, <1>8, <1>10
  <2>2. CASE path \in NewPaths(rows)
    BY <1>5, <2>2
  <2>3. CASE path \in Replaced(b, k) /\ k \notin CurseForge
    BY <1>5, <2>3
  <2>4. CASE path \in Replaced(b, k) /\ k \in CurseForge
    BY <1>1, <1>3, <2>4 DEF Leaves, LeavesBehind
  <2> QED
    BY <2>1, <2>2, <2>3, <2>4
<1>11. /\ job'.at = "changing" /\ job'.build = b /\ job'.commit = rows /\ job'.pack = k
       /\ BeginChanges(b, changes)
  BY <1>1, <1>2, <1>3, <1>6 DEF Shape, JobShape, JobFields, b0, changes
<1>12. BeginsAs(b, changes, puts, takes, rows, k)
  BY <1>4, <1>5, <1>7, <1>9, <1>10, <1>11 DEF BeginsAs
<1>13. DOMAIN stray = Builds /\ k # NoPack
  BY <1>1, <1>3 DEF TidyInv
<1>14. TidyInv' /\ FilesInv'
  BY <1>12, <1>13, BeginsFiles
<1>15. CommitInv'
  <2>1. PackRows(b, k)' = PackRows(b, k)
    BY DEF PackRows, KeepsFlag, RowsOf, SameRows, Installed, RowName
  <2> QED
    BY <1>6, <1>11, <1>13, <2>1 DEF CommitInv, b0
<1> QED
  BY <1>14, <1>15

(* The installer of Forge puts its two files.                              *)
LEMMA ForgeBegins ==
  ASSUME LibraryInv, TidyInv, SameRows, SameFiles, RunForgeInstaller
  PROVE  TidyInv' /\ CommitInv' /\ FilesInv'
<1>1. JobAt("preparing") /\ To("forging")
      /\ BeginChanges(b0, [i \in 1..2 |-> Put(ForgeFiles[i])])
  BY DEF RunForgeInstaller
<1>2. job'.at = "forging"
  BY <1>1, MovesOn DEF LibraryInv, Shape
<1> DEFINE changes == [i \in 1..2 |-> Put(ForgeFiles[i])]
           P == {ForgeFiles[1], ForgeFiles[2]}
<1>3. /\ ForgeFiles[1] \in Paths \ UserPaths /\ ForgeFiles[2] \in Paths \ UserPaths
      /\ ForgeFiles[1] # ForgeFiles[2]
  BY PathsOfContent, LibraryAssumption DEF UserPaths
<1>4. changes \in Seq(Changes) /\ Len(changes) = 2
  <2>1. \A i \in 1..2 : Put(ForgeFiles[i]) \in Changes
    BY <1>3 DEF Put, Changes
  <2> QED
    BY <2>1
<1>5. \A i \in 1..2 : changes[i].path = ForgeFiles[i] /\ changes[i].to = Sound
  BY DEF Put
<1> HIDE DEF changes
<1>6. Plan(changes, P, {})
  <2>1. 1..Len(changes) = {1, 2}
    BY <1>4
  <2>2. /\ \A i, j \in {1, 2} : changes[i].path = changes[j].path => i = j
        /\ \A i \in {1, 2} : changes[i].to = Sound /\ changes[i].path \in P
        /\ \A path \in P : \E i \in {1, 2} : changes[i].path = path
    BY <1>3, <1>5
  <2> QED
    BY <2>1, <2>2 DEF Plan
<1>7. BeginChanges(b0, changes)
  BY <1>1 DEF changes
<1>8. Tidy' /\ UNCHANGED disk
  BY <1>4, <1>6, <1>7, Planned DEF SameFiles
<1>9. tx'.todo = changes /\ tx'.done = <<>>
  BY <1>4, <1>7, TxBegins
<1>10. Within(Paths \ UserPaths)'
  <2>1. \A i \in 1..Len(tx'.todo) : tx'.todo[i].path \in Paths \ UserPaths
    <3>1. \A i \in {1, 2} : changes[i].path \in Paths \ UserPaths
      BY <1>3, <1>5
    <3>2. 1..Len(changes) = {1, 2}
      BY <1>4
    <3> QED
      BY <1>9, <3>1, <3>2
  <2>2. 1..Len(tx'.done) = {}
    BY <1>9, EmptySeq
  <2> QED
    BY <2>1, <2>2 DEF Within
<1>11. DOMAIN stray' = Builds
  BY DEF TidyInv, SameFiles
<1> QED
  BY <1>2, <1>8, <1>10, <1>11 DEF TidyInv, CommitInv, FilesInv, Working, JobAt

LEMMA BeginsWell ==
  ASSUME LibraryInv, TidyInv, Begins
  PROVE  TidyInv' /\ CommitInv' /\ FilesInv'
BY InstallTopBegins, RemoveContentBegins, ImportLocalBegins, StagePackBegins, ForgeBegins
   DEF Begins

-----------------------------------------------------------------------------
(* What each kind of step keeps.                                           *)
LEMMA RowsStay ==
  ASSUME RowsInv, UNCHANGED version, listed \subseteq listed',
         \A b \in Builds : excused[b] => excused'[b]
  PROVE  RowsInv'
BY DEF RowsInv, NamesDiffer, Installed

LEMMA KeptStays ==
  ASSUME RowsInv, KeptInv, UNCHANGED version, listed' \subseteq Builds,
         \A b \in Builds : excused[b] => excused'[b],
         \A b \in Builds, p \in Projects :
           Installed(b, p) /\ ~excused'[b] /\ KeptName(b, RowName(b, p))
             => KeptName(b, RowName(b, p))'
  PROVE  KeptInv'
<1> SUFFICES ASSUME NEW b \in listed', NEW p \in Projects, ~excused'[b], Installed(b, p)'
             PROVE  KeptName(b, RowName(b, p))'
  BY DEF KeptInv
<1>1. b \in Builds /\ ~excused[b] /\ Installed(b, p)
  BY DEF Installed
<1>2. b \in listed
  BY <1>1 DEF RowsInv
<1>3. KeptName(b, RowName(b, p))
  BY <1>1, <1>2 DEF KeptInv
<1> QED
  BY <1>1, <1>3

(* Paths that are kept make names that are kept.                           *)
LEMMA NamesOfRows ==
  ASSUME RowShape, NEW b \in Builds, NEW p \in Projects, Installed(b, p), NEW on \in BOOLEAN
  PROVE  Path(RowName(b, p), on) \in ContentPaths
<1>1. version[b][p] \in Versions
  BY RowPaths
<1>2. <<p, version[b][p]>> \in DOMAIN FileName
  BY <1>1, ContentAssumption
<1> QED
  BY <1>2 DEF RowName, ContentPaths

LEMMA KeptByPaths ==
  ASSUME RowShape, UNCHANGED version, NEW b \in Builds, NEW p \in Projects, Installed(b, p),
         \A path \in ContentPaths : Kept(b, path) => Kept(b, path)',
         KeptName(b, RowName(b, p))
  PROVE  KeptName(b, RowName(b, p))'
<1>1. PICK on \in BOOLEAN : Kept(b, Path(RowName(b, p), on))
  BY DEF KeptName
<1>2. PICK path \in ContentPaths : path = Path(RowName(b, p), on)
  BY NamesOfRows
<1>3. Kept(b, path)'
  BY <1>1, <1>2
<1>4. RowName(b, p)' = RowName(b, p)
  BY DEF RowName
<1> QED
  BY <1>2, <1>3, <1>4 DEF KeptName

LEMMA RowsAndFilesStay ==
  ASSUME Shape, RowsInv, KeptInv, SameRows, listed \subseteq listed', listed' \subseteq Builds,
         \A b \in Builds, path \in ContentPaths : Kept(b, path) => Kept(b, path)'
  PROVE  RowsInv' /\ KeptInv'
<1>1. UNCHANGED version /\ (\A b \in Builds : excused[b] => excused'[b]) /\ RowShape
  BY DEF SameRows, Shape
<1>2. RowsInv'
  BY <1>1, RowsStay
<1>3. KeptInv'
  BY <1>1, KeptStays, KeptByPaths
<1> QED
  BY <1>2, <1>3

(* An operation that is not in the middle of something.                    *)
LEMMA NothingOpen ==
  ASSUME job'.at \notin Close \cup {"changing"}
  PROVE  CommitInv' /\ FilesInv' /\ MovedInv' /\ CopyInv'
BY DEF Close, CommitInv, FilesInv, Working, MovedInv, Moved, CopyInv, JobAt

LEMMA NothingInWork ==
  ASSUME LibraryInv', tx'.at = "none"
  PROVE  job'.at \notin {"changing", "forging"} /\ CommitInv' /\ FilesInv'
BY DEF LibraryInv, TxInv, TxAt, CommitInv, FilesInv, Working, JobAt

LEMMA TidyAtRest ==
  ASSUME TidyInv, UNCHANGED tx, DOMAIN stray' = Builds, job'.at # "forging"
  PROVE  TidyInv'
BY DEF TidyInv, Tidy, JobAt, TxAt

LEMMA TidyAtEnd ==
  ASSUME TidyInv, tx' = NoTx, DOMAIN stray' = Builds, job'.at # "forging"
  PROVE  TidyInv'
<1>1. tx'.at = "none" /\ 1..Len(tx'.done) = {}
  BY EmptySeq DEF NoTx
<1> QED
  BY <1>1 DEF TidyInv, Tidy, JobAt, TxAt

LEMMA HadAtRest ==
  ASSUME ~Underway, NEW b, NEW path
  PROVE  Had(b, path) <=> Has(b, path)
BY DEF Had

LEMMA KeptAtRest ==
  ASSUME tx.at = "none", tx'.at = "none", UNCHANGED <<disk, stray>>
  PROVE  \A b \in Builds, path \in ContentPaths : Kept(b, path) => Kept(b, path)'
BY DEF Kept, Had, Underway, Has

(* A transaction that goes on as planned.                                  *)
LEMMA CommitStays ==
  ASSUME CommitInv, SameRows, UNCHANGED job, TxAt("cleaning") => TxAt("cleaning")'
  PROVE  CommitInv'
<1>1. PICK b, rows, k : b = b0 /\ rows = job.commit /\ k = job.pack
  OBVIOUS
<1>2. b = b0' /\ rows = job'.commit /\ k = job'.pack
  BY <1>1 DEF b0
<1>3. NoOther(rows, b) => NoOther(rows, b)'
  BY DEF NoOther, Installed, RowName, SameRows
<1>4. PackRows(b, k)' = PackRows(b, k)
  BY DEF PackRows, KeepsFlag, RowsOf, Installed, RowName, SameRows
<1> QED
  BY <1>1, <1>2, <1>3, <1>4 DEF CommitInv, JobAt, TxAt

LEMMA PutsContent ==
  ASSUME NEW rows, rows \subseteq Rows
  PROVE  PutPaths(rows) \subseteq ContentPaths
<1>1. \A c \in rows : c[1] \in Projects /\ c[2] \in 0..MaxVersion /\ c[3] \in BOOLEAN
  BY DEF Rows
<1>2. \A c \in rows : c[2] # 0 => c[2] \in Versions
  BY <1>1, ContentAssumption DEF Versions
<1> QED
  BY <1>1, <1>2, PathsOfContent DEF PutPaths

LEMMA FilesOfStay ==
  ASSUME SameRows, NEW rows, rows \subseteq Rows, NEW k, NEW b, FilesOf(rows, k, b),
         \A path \in ContentPaths : (Had(b, path)' <=> Had(b, path))
           /\ (WillHave(path)' <=> WillHave(path))
  PROVE  FilesOf(rows, k, b)'
<1>1. PutPaths(rows) \subseteq ContentPaths
  BY PutsContent
<1>2. Leaves(k, b)' <=> Leaves(k, b)
  BY SameLeft DEF SameRows
<1>3. \A path : Replaces(rows, b, path)' <=> Replaces(rows, b, path)
  BY SameReplaces DEF SameRows
<1>4. \A path \in PutPaths(rows) : WillHave(path)'
  BY <1>1 DEF FilesOf
<1>5. ASSUME NEW path \in ContentPaths, Had(b, path)', ~WillHave(path)'
      PROVE  Replaces(rows, b, path)'
  <2>1. Had(b, path) /\ ~WillHave(path)
    BY <1>5
  <2>2. Replaces(rows, b, path)
    BY <2>1 DEF FilesOf
  <2> QED
    BY <1>3, <2>2
<1>6. ASSUME NEW path \in ContentPaths \ PutPaths(rows), WillHave(path)'
      PROVE  Had(b, path)'
  <2>1. WillHave(path)
    BY <1>6
  <2>2. Had(b, path)
    BY <2>1 DEF FilesOf
  <2> QED
    BY <2>2
<1>7. ASSUME NEW path \in ContentPaths \ PutPaths(rows), Replaces(rows, b, path)'
      PROVE  ~WillHave(path)' \/ Leaves(k, b)'
  <2>1. Replaces(rows, b, path)
    BY <1>3, <1>7
  <2>2. ~WillHave(path) \/ Leaves(k, b)
    BY <2>1 DEF FilesOf
  <2> QED
    BY <1>2, <2>2
<1> QED
  BY <1>4, <1>5, <1>6, <1>7 DEF FilesOf

LEMMA FilesStay ==
  ASSUME JobShape, SameRows, UNCHANGED job, FilesInv, Working' => Working,
         Working' => \A path \in ContentPaths : (Had(b0, path)' <=> Had(b0, path))
           /\ (WillHave(path)' <=> WillHave(path))
  PROVE  FilesInv'
<1> SUFFICES ASSUME Working' PROVE FilesOf(job.commit, job.pack, b0)'
  BY DEF FilesInv
<1>1. PICK b, rows, k : b = b0 /\ rows = job.commit /\ k = job.pack
  OBVIOUS
<1>2. b = b0' /\ rows = job'.commit /\ k = job'.pack
  BY <1>1 DEF b0
<1>3. rows \subseteq Rows
  BY <1>1 DEF JobShape
<1>4. FilesOf(rows, k, b)
  BY <1>1 DEF FilesInv
<1>5. \A path \in ContentPaths : (Had(b, path)' <=> Had(b, path))
           /\ (WillHave(path)' <=> WillHave(path))
  <2>1. \A path \in ContentPaths : (Had(b, path) <=> Had(b0, path))
           /\ (Had(b, path)' <=> Had(b0, path)')
    BY <1>1, <1>2 DEF Had, Has
  <2> SUFFICES ASSUME NEW path \in ContentPaths
               PROVE  (Had(b, path)' <=> Had(b, path)) /\ (WillHave(path)' <=> WillHave(path))
    OBVIOUS
  <2>2. (Had(b0, path)' <=> Had(b0, path)) /\ (WillHave(path)' <=> WillHave(path))
    OBVIOUS
  <2> QED
    BY <2>1, <2>2
<1>6. FilesOf(rows, k, b)'
  BY <1>3, <1>4, <1>5, FilesOfStay
<1>7. FilesOf(rows, k, b)' <=> FilesOf(job.commit, job.pack, b0)'
  BY <1>2
<1> QED
  BY <1>6, <1>7

LEMMA RestsKeeps == ASSUME LibraryInv, LibraryInv', ContentInv, Rests PROVE ContentInv'
<1>1. /\ Shape /\ listed' = listed /\ listed' \subseteq Builds /\ DOMAIN stray' = Builds
      /\ SameRows /\ UNCHANGED <<tx, disk, stray>>
  BY DEF LibraryInv, Shape, RowShape, Rests, ContentInv, TidyInv, SameFiles
<1>2. \A b \in Builds, path \in ContentPaths : Kept(b, path) => Kept(b, path)'
  BY <1>1 DEF Kept, Had, Underway, Has, SavedAt
<1>3. RowsInv' /\ KeptInv'
  BY <1>1, <1>2, RowsAndFilesStay DEF ContentInv
<1>4. CASE UNCHANGED <<job, torn>>
  <2>1. TidyInv'
    BY <1>1, <1>4 DEF ContentInv, TidyInv, Tidy, JobAt, TxAt, Within
  <2>2. CommitInv'
    BY <1>1, <1>4, CommitStays DEF ContentInv, TxAt
  <2>3. FilesInv'
    <3>1. \A path : WillHave(path)' <=> WillHave(path)
      BY <1>1 DEF WillHave, Has, PlannedAt
    <3>2. \A path : Had(b0, path)' <=> Had(b0, path)
      BY <1>1, <1>4 DEF Had, Has, Underway, SavedAt, b0
    <3> QED
      BY <1>1, <1>4, <3>1, <3>2, FilesStay DEF ContentInv, Working, JobAt, Shape
  <2>4. MovedInv' /\ CopyInv'
    BY <1>1, <1>4 DEF ContentInv, MovedInv, Moved, CopyInv, Has, NewPath, OldPath, Toggled,
                      RowPath, Installed, b0, SameRows, JobAt
  <2> QED
    BY <1>3, <2>1, <2>2, <2>3, <2>4 DEF ContentInv
<1>5. CASE tx.at = "none" /\ job'.at \notin Close
  <2>1. job'.at \notin {"changing", "forging"}
    BY <1>1, <1>5, NothingInWork
  <2>2. TidyInv'
    BY <1>1, <2>1, TidyAtRest DEF ContentInv
  <2> QED
    BY <1>3, <1>5, <2>1, <2>2, NothingOpen DEF ContentInv
<1> QED
  BY <1>4, <1>5 DEF Rests

LEMMA FailsToRecordKeeps ==
  ASSUME LibraryInv, LibraryInv', ContentInv, FailsToRecord
  PROVE  ContentInv'
<1>1. /\ Shape /\ listed' = listed /\ listed' \subseteq Builds /\ DOMAIN stray' = Builds
      /\ SameRows /\ UNCHANGED <<tx, disk, stray>> /\ JobAt("recording")
      /\ tx.at = "none"
  BY DEF LibraryInv, Shape, RowShape, FailsToRecord, ContentInv, TidyInv, SameFiles, TxInv,
         JobAt, TxAt
<1>2. job'.at = "renamingBack" /\ job'.build = job.build /\ job'.commit = job.commit
  BY <1>1, MovesOn DEF Shape, FailsToRecord
<1>3. RowsInv' /\ KeptInv'
  BY <1>1, KeptAtRest, RowsAndFilesStay DEF ContentInv
<1>4. TidyInv'
  BY <1>1, <1>2, TidyAtRest DEF ContentInv
<1>5. MovedInv'
  BY <1>1, <1>2 DEF ContentInv, MovedInv, Moved, Has, NewPath, OldPath, Toggled, RowPath, b0,
                    SameRows, JobAt
<1>6. CommitInv' /\ FilesInv' /\ CopyInv'
  BY <1>2 DEF CommitInv, FilesInv, Working, CopyInv, JobAt
<1> QED
  BY <1>3, <1>4, <1>5, <1>6 DEF ContentInv

LEMMA EndsCopyKeeps == ASSUME LibraryInv, LibraryInv', ContentInv, EndsCopy PROVE ContentInv'
<1>1. /\ Shape /\ listed' = listed /\ listed' \subseteq Builds /\ DOMAIN stray' = Builds
      /\ SameRows /\ UNCHANGED <<tx, disk, stray>> /\ tx.at = "none"
  BY DEF LibraryInv, Shape, RowShape, EndsCopy, ContentInv, TidyInv, SameFiles, TxInv, JobAt,
         TxAt
<1>2. job'.at = "idle"
  BY ComesToAnEnd DEF EndsCopy, Shape, LibraryInv
<1>3. RowsInv' /\ KeptInv'
  BY <1>1, KeptAtRest, RowsAndFilesStay DEF ContentInv
<1>4. TidyInv'
  BY <1>1, <1>2, TidyAtRest DEF ContentInv
<1> QED
  BY <1>2, <1>3, <1>4, NothingOpen DEF ContentInv, Close

LEMMA InsertsKeeps == ASSUME LibraryInv, LibraryInv', ContentInv, Inserts PROVE ContentInv'
<1>1. /\ Shape /\ listed' = listed \cup {b0} /\ listed' \subseteq Builds /\ DOMAIN stray' = Builds
      /\ SameRows /\ UNCHANGED <<tx, disk, stray>> /\ tx.at = "none"
  BY DEF LibraryInv, Shape, RowShape, Inserts, ContentInv, TidyInv, SameFiles, TxInv, JobAt,
         TxAt
<1>2. RowsInv' /\ KeptInv'
  BY <1>1, KeptAtRest, RowsAndFilesStay DEF ContentInv
<1>3. CASE JobAt("inserting") /\ To("selecting")
  <2>1. job'.at = "selecting"
    BY <1>1, <1>3, MovesOn DEF Shape
  <2>2. TidyInv'
    BY <1>1, <2>1, TidyAtRest DEF ContentInv
  <2> QED
    BY <1>2, <2>1, <2>2, NothingOpen DEF ContentInv, Close
<1>5. CASE JobAt("insertingCopy") /\ Fail
  <2>1. job'.at = "idle"
    BY <1>1, <1>5, ComesToAnEnd DEF Shape, Fail
  <2>2. TidyInv'
    BY <1>1, <2>1, TidyAtRest DEF ContentInv
  <2> QED
    BY <1>2, <2>1, <2>2, NothingOpen DEF ContentInv, Close
<1>4. CASE JobAt("insertingCopy") /\ To("copyingRows") /\ UNCHANGED torn
  <2>1. job'.at = "copyingRows" /\ job'.build = job.build /\ job'.from = job.from
    BY <1>1, <1>4, MovesOn DEF Shape
  <2>2. TidyInv'
    BY <1>1, <2>1, TidyAtRest DEF ContentInv
  <2>3. CopyInv'
    BY <1>1, <1>4, <2>1 DEF ContentInv, CopyInv, JobAt, b0, Installed, SameRows
  <2>4. CommitInv' /\ FilesInv' /\ MovedInv'
    BY <2>1 DEF CommitInv, FilesInv, Working, MovedInv, Moved, JobAt
  <2> QED
    BY <1>2, <2>2, <2>3, <2>4 DEF ContentInv
<1> QED
  BY <1>3, <1>4, <1>5 DEF Inserts

LEMMA BeginsKeeps == ASSUME LibraryInv, LibraryInv', ContentInv, Begins PROVE ContentInv'
<1>1. /\ Shape /\ listed' = listed /\ listed' \subseteq Builds /\ DOMAIN stray' = Builds
      /\ SameRows /\ SameFiles /\ UNCHANGED <<disk, stray>> /\ tx.at = "none"
  BY DEF LibraryInv, Shape, RowShape, Begins, ContentInv, TidyInv, SameFiles
<1>2. \E b, changes : BeginChanges(b, changes)
  BY <1>1 DEF Begins, InstallTop, RemoveContent, ImportLocal, StagePackHere, StagePack,
              RunForgeInstaller
<1>3. tx'.at = "changing" /\ 1..Len(tx'.done) = {}
  BY <1>2, EmptySeq DEF BeginChanges, NoTx
<1>4. job'.at \in {"changing", "forging"}
  BY <1>3 DEF LibraryInv, TxInv, TxAt
<1>5. TidyInv' /\ CommitInv' /\ FilesInv'
  BY BeginsWell DEF ContentInv
<1>6. MovedInv' /\ CopyInv'
  BY <1>4 DEF MovedInv, Moved, CopyInv
<1>7. \A b \in Builds, path \in ContentPaths : Kept(b, path) => Kept(b, path)'
  BY <1>1, <1>3 DEF Kept, Had, Underway, SavedAt, Has
<1>8. RowsInv' /\ KeptInv'
  BY <1>1, <1>7, RowsAndFilesStay DEF ContentInv
<1> QED
  BY <1>5, <1>6, <1>8 DEF ContentInv

(* A transaction that works on.                                            *)
LEMMA WithinAll == ASSUME TxShape PROVE Within(Paths)
<1>1. tx.todo \in Seq(Changes) /\ tx.done \in Seq(Saved)
  BY DEF TxShape
<1>2. (\A i \in 1..Len(tx.todo) : tx.todo[i] \in Changes)
      /\ (\A i \in 1..Len(tx.done) : tx.done[i] \in Saved)
  BY <1>1, ElementOfSeq
<1> QED
  BY <1>2 DEF Within, Changes, Saved

LEMMA OthersHave ==
  ASSUME NEW b \in Builds, tx.build = b, tx'.build = b, Touches(b, Paths)
  PROVE  \A x \in Builds \ {b}, path \in Paths : Had(x, path)' <=> Had(x, path)
BY DEF Touches, Had, Has

LEMMA WorkKeeps ==
  ASSUME LibraryInv, ContentInv, SameRows, UNCHANGED <<job, listed>>,
         NEW b \in Builds, tx.build = b, tx'.build = b, Underway, Tidy', Touches(b, Paths),
         DOMAIN stray' = Builds, ~TxAt("none"), ~TxAt("cleaning"),
         \A U : Within(U) => Within(U)',
         \A x \in Builds : stray[x] \subseteq stray'[x],
         Working' => Working,
         Working' => \A path \in ContentPaths : (Had(b, path)' <=> Had(b, path))
           /\ (WillHave(path)' <=> WillHave(path)),
         \A path \in ContentPaths : Had(b, path) => Kept(b, path)'
  PROVE  ContentInv'
<1>1. /\ Shape /\ JobShape /\ listed' \subseteq Builds /\ listed \subseteq listed'
      /\ b = b0 /\ b = b0' /\ job'.at \in {"changing", "forging"}
  BY DEF LibraryInv, Shape, RowShape, TxInv, b0
<1>2. TidyInv'
  BY DEF ContentInv, TidyInv, JobAt
<1>3. MovedInv' /\ CopyInv'
  BY <1>1 DEF MovedInv, Moved, CopyInv
<1>4. CommitInv'
  BY CommitStays DEF ContentInv
<1>5. FilesInv'
  <2>1. \A path \in ContentPaths : (Had(b, path) <=> Had(b0, path))
                                   /\ (Had(b, path)' <=> Had(b0, path)')
    BY <1>1 DEF Had, Has
  <2>2. ASSUME Working', NEW path \in ContentPaths
        PROVE  (Had(b0, path)' <=> Had(b0, path)) /\ (WillHave(path)' <=> WillHave(path))
    <3>1. (Had(b, path)' <=> Had(b, path)) /\ (WillHave(path)' <=> WillHave(path))
      BY <2>2
    <3> QED
      BY <2>1, <3>1
  <2> QED
    BY <1>1, <2>2, FilesStay DEF ContentInv
<1>6. ASSUME NEW x \in Builds, NEW path \in ContentPaths, Kept(x, path)
      PROVE  Kept(x, path)'
  <2>1. CASE x = b
    BY <1>6, <2>1 DEF Kept
  <2>2. CASE x # b
    <3>1. path \in Paths
      BY ContentAssumption
    <3>2. Had(x, path)' <=> Had(x, path)
      BY <2>2, <3>1, OthersHave
    <3> QED
      BY <1>6, <3>2 DEF Kept
  <2> QED
    BY <2>1, <2>2
<1>7. RowsInv' /\ KeptInv'
  BY <1>1, <1>6, RowsAndFilesStay DEF ContentInv
<1> QED
  BY <1>2, <1>3, <1>4, <1>5, <1>7 DEF ContentInv

LEMMA SparedWorkKeeps ==
  ASSUME LibraryInv, ContentInv, SameRows, UNCHANGED <<job, listed, stray>>,
         NEW b \in Builds, tx.build = b, tx'.build = b, Spares(b), Touches(b, Paths),
         tx.at \in {"changing", "placing"}, \A U : Within(U) => Within(U)'
  PROVE  ContentInv'
<1>1. /\ Underway /\ ~TxAt("none") /\ ~TxAt("cleaning") /\ DOMAIN stray' = Builds
      /\ ContentPaths \subseteq Paths
  BY ContentAssumption DEF Underway, TxAt, ContentInv, TidyInv
<1>2. Working' => Working /\ tx'.at # "undoing"
  BY DEF Working, JobAt
<1>3. \A path \in Paths : Had(b, path)' <=> Had(b, path)
  BY DEF Spares
<1>4. ASSUME Working' PROVE \A path \in Paths : WillHave(path)' <=> WillHave(path)
  BY <1>2, <1>4 DEF Spares
<1>5. \A path \in ContentPaths : Had(b, path) => Kept(b, path)'
  BY <1>1, <1>3 DEF Kept
<1>6. Tidy'
  BY DEF Spares
<1>7. Working' => \A path \in ContentPaths : (Had(b, path)' <=> Had(b, path))
           /\ (WillHave(path)' <=> WillHave(path))
  BY <1>1, <1>3, <1>4
<1>8. \A x \in Builds : stray[x] \subseteq stray'[x]
  OBVIOUS
<1> QED
  BY <1>1, <1>2, <1>5, <1>6, <1>7, <1>8, WorkKeeps

LEMMA WorksKeeps == ASSUME LibraryInv, ContentInv, Works PROVE ContentInv'
<1>1. ~TxAt("none") /\ SameRows /\ UNCHANGED <<job, listed>>
  BY FilesInTransaction DEF Works
<1>2. PICK b \in Builds : b = tx.build
  BY <1>1, InTransaction
<1>3. Shape /\ TxShape /\ Tidy /\ DOMAIN stray = Builds
  BY DEF LibraryInv, Shape, ContentInv, TidyInv
<1>4. \A U : Within(U) => Within(U)'
  BY <1>2, <1>3, FileStepKeeps DEF Works
<1>5. tx'.build = b /\ Touches(b, Paths)
  BY <1>2, <1>3, WithinAll, FileStepKeeps DEF Works
<1>6. CASE SetAside
  <2>1. Spares(b) /\ tx.at = "changing" /\ UNCHANGED stray
    BY <1>2, <1>3, <1>6, SetAsideSpares DEF SetAside, TxAt
  <2> QED
    BY <1>1, <1>2, <1>4, <1>5, <2>1, SparedWorkKeeps
<1>7. CASE PlaceFile
  <2>1. Spares(b) /\ tx.at = "placing" /\ UNCHANGED stray
    BY <1>2, <1>3, <1>7, PlaceFileSpares DEF PlaceFile, TxAt
  <2> QED
    BY <1>1, <1>2, <1>4, <1>5, <2>1, SparedWorkKeeps
<1>8. CASE UndoChange
  <2>1. Returns(b) /\ tx.at = "undoing"
    BY <1>2, <1>3, <1>8, UndoChangeReturns DEF UndoChange, TxAt
  <2>2. DOMAIN stray' = Builds /\ \A x \in Builds : stray[x] \subseteq stray'[x]
    BY <1>2, <1>3, <1>8 DEF UndoChange
  <2>3. Underway /\ ~TxAt("cleaning") /\ ~Working'
    BY <2>1 DEF Underway, TxAt, Working, Returns
  <2>4. ASSUME NEW path \in ContentPaths, Had(b, path) PROVE Kept(b, path)'
    <3>1. path \in Paths
      BY ContentAssumption
    <3> QED
      BY <2>1, <2>4, <3>1 DEF Returns, Kept
  <2>5. Tidy'
    BY <2>1 DEF Returns
  <2> QED
    BY <1>1, <1>2, <1>4, <1>5, <2>2, <2>3, <2>4, <2>5, WorkKeeps
<1> QED
  BY <1>6, <1>7, <1>8 DEF Works, FileStep

LEMMA TurnsBackKeeps == ASSUME LibraryInv, ContentInv, TurnsBack PROVE ContentInv'
<1>1. /\ tx.at \in {"changing", "placing"} /\ Undo /\ SameRows
      /\ UNCHANGED <<job, listed, disk, stray>>
  BY DEF TurnsBack, SameFiles
<1>2. PICK b \in Builds : b = tx.build
  BY <1>1, InTransaction DEF TxAt
<1>3. Shape /\ TxShape /\ Tidy
  BY DEF LibraryInv, Shape, ContentInv, TidyInv
<1>4. tx'.build = b /\ tx'.todo = tx.todo /\ tx'.done = tx.done
  BY <1>1, <1>2, <1>3, TxMoves DEF Undo
<1>5. \A U : Within(U) => Within(U)'
  BY <1>4 DEF Within
<1>6. Spares(b)
  BY <1>1, <1>2, <1>3, UndoSpares DEF Underway
<1>7. Touches(b, Paths)
  BY <1>1, <1>3, NothingTouched DEF Shape
<1> QED
  BY <1>1, <1>2, <1>4, <1>5, <1>6, <1>7, SparedWorkKeeps

(* It ends.                                                                *)
LEMMA ClosesKeeps == ASSUME LibraryInv, LibraryInv', ContentInv, Closes PROVE ContentInv'
<1>1. /\ Shape /\ listed' = listed /\ listed' \subseteq Builds /\ DOMAIN stray' = Builds
      /\ SameRows /\ UNCHANGED <<disk, stray>> /\ tx' = NoTx /\ job'.at \notin Close
  BY DEF LibraryInv, Shape, RowShape, Closes, EndChanges, ContentInv, TidyInv, SameFiles
<1>2. tx'.at = "none"
  BY <1>1 DEF NoTx
<1>3. job'.at \notin {"changing", "forging"}
  BY <1>2, NothingInWork
<1>4. TidyInv'
  BY <1>1, <1>3, TidyAtEnd DEF ContentInv
<1>5. ASSUME NEW x \in Builds, NEW path \in ContentPaths, Had(x, path)
      PROVE  Had(x, path)'
  <2>1. Had(x, path)' <=> Has(x, path)
    BY <1>1, <1>2 DEF Had, Underway, Has
  <2>2. CASE ~Underway
    BY <1>5, <2>1, <2>2 DEF Had
  <2>3. CASE tx.done = <<>>
    <3>1. 1..Len(tx.done) = {}
      BY <2>3, EmptySeq
    <3> QED
      BY <1>5, <2>1, <3>1 DEF Had, SavedAt
  <2>4. CASE JobAt("forging")
    <3>1. path \in UserPaths
      BY PathsOfContent
    <3>2. ~SavedAt(path)
      BY <2>4, <3>1 DEF ContentInv, TidyInv, Within, SavedAt
    <3> QED
      BY <1>5, <2>1, <3>2 DEF Had
  <2> QED
    BY <2>2, <2>3, <2>4 DEF Closes, Undone, TxAt, Underway
<1>6. \A x \in Builds, path \in ContentPaths : Kept(x, path) => Kept(x, path)'
  BY <1>1, <1>5 DEF Kept
<1>7. RowsInv' /\ KeptInv'
  BY <1>1, <1>6, RowsAndFilesStay DEF ContentInv
<1> QED
  BY <1>1, <1>3, <1>4, <1>7, NothingOpen DEF ContentInv

LEMMA EndsProcessKeeps ==
  ASSUME LibraryInv, LibraryInv', ContentInv, EndsProcess
  PROVE  ContentInv'
<1>1. /\ Shape /\ TxShape /\ listed' = listed /\ listed' \subseteq Builds /\ DOMAIN stray = Builds
      /\ SameRows /\ UNCHANGED disk /\ tx' = NoTx /\ job'.at = "idle"
      /\ stray' = IF TxAt("none") THEN stray
                  ELSE [stray EXCEPT ![tx.build] =
                          @ \cup {d \in ToSet(tx.done) : d.old # Absent}]
  BY DEF LibraryInv, Shape, RowShape, EndsProcess, AbandonChanges, ContentInv, TidyInv
<1>2. DOMAIN stray' = Builds /\ \A x \in Builds : stray[x] \subseteq stray'[x]
  BY <1>1
<1>3. TidyInv'
  BY <1>1, <1>2, TidyAtEnd DEF ContentInv
<1>4. ASSUME NEW x \in Builds, NEW path \in ContentPaths, Had(x, path)
      PROVE  Kept(x, path)'
  <2>1. Had(x, path)' <=> Has(x, path)
    BY <1>1 DEF Had, Underway, Has, NoTx
  <2>2. CASE ~(Underway /\ x = tx.build /\ SavedAt(path))
    BY <1>4, <2>1, <2>2 DEF Had, Kept
  <2>3. CASE Underway /\ x = tx.build /\ SavedAt(path)
    <3>1. PICK i \in 1..Len(tx.done) : tx.done[i].path = path /\ tx.done[i].old # Absent
      BY <1>4, <2>3 DEF Had
    <3>2. PICK d : d = tx.done[i]
      OBVIOUS
    <3>3. d \in ToSet(tx.done)
      BY <1>1, <3>2 DEF ToSet, TxShape
    <3>4. d \in stray'[x]
      BY <1>1, <2>3, <3>1, <3>2, <3>3 DEF Underway, TxAt
    <3> QED
      BY <3>1, <3>2, <3>4 DEF Kept
  <2> QED
    BY <2>2, <2>3
<1>5. \A x \in Builds, path \in ContentPaths : Kept(x, path) => Kept(x, path)'
  BY <1>2, <1>4 DEF Kept
<1>6. RowsInv' /\ KeptInv'
  BY <1>1, <1>5, RowsAndFilesStay DEF ContentInv
<1> QED
  BY <1>1, <1>3, <1>6, NothingOpen DEF ContentInv, Close

(* A file that is switched keeps its name.                                 *)
LEMMA SwitchedPaths ==
  ASSUME LibraryInv, Switching
  PROVE  \E b \in Builds, p \in Projects, on \in BOOLEAN :
           /\ b = b0 /\ Installed(b, p) /\ job.commit = {<<p, version[b][p], on>>}
           /\ OldPath = Path(RowName(b, p), enabled[b][p]) /\ enabled[b][p] \in BOOLEAN
           /\ NewPath = Path(RowName(b, p), on)
<1>1. b0 \in Builds /\ Shape
  BY Switched
<1>2. PICK p \in Projects, on \in BOOLEAN :
        Installed(b0, p) /\ job.commit = {<<p, version[b0][p], on>>}
  BY DEF LibraryInv, SwitchInv, Switching
<1>3. PICK b \in Builds : b = b0
  BY <1>1
<1>4. Toggled = <<p, version[b][p], on>>
  BY <1>2, <1>3 DEF Toggled
<1>5. OldPath = Path(RowName(b, p), enabled[b][p]) /\ NewPath = Path(RowName(b, p), on)
  BY <1>3, <1>4 DEF OldPath, NewPath, RowPath, RowName, ProjectPath
<1>6. enabled[b][p] \in BOOLEAN
  BY <1>1 DEF Shape, RowShape
<1> QED
  BY <1>2, <1>3, <1>5, <1>6

NameFits(n) == \A on \in BOOLEAN : Path(n, on) \in Paths
NamesKept == \A x \in Builds : \A n : NameFits(n) /\ KeptName(x, n) => KeptName(x, n)'

LEMMA MovesInName ==
  ASSUME Shape, NEW b \in Builds, b = b0, NEW name, NEW old \in BOOLEAN, NEW new \in BOOLEAN,
         Path(name, old) \in Paths, Path(name, new) \in Paths,
         Move(Path(name, old), Path(name, new)), UNCHANGED <<stray, tx>>, tx.at = "none",
         old # new, Has(b, Path(name, old))
  PROVE  /\ Has(b, Path(name, new))' /\ ~Has(b, Path(name, old))'
         /\ NamesKept
<1> DEFINE from == Path(name, old)
           to == Path(name, new)
<1>1. from # to
  BY DEF Path
<1>2. disk \in [Builds -> [Paths -> Contents]]
  BY DEF Shape, DiskShape
<1>3. from = Path(name, old) /\ to = Path(name, new)
  OBVIOUS
<1> HIDE DEF from, to
<1>4. /\ disk'[b][to] = disk[b][from] /\ disk'[b][from] = Absent
      /\ \A x \in Builds, path \in Paths :
           x # b \/ path \notin {from, to} => disk'[x][path] = disk[x][path]
  BY <1>1, <1>2, <1>3 DEF Move
<1>5. Has(b, to)' /\ ~Has(b, from)'
  BY <1>3, <1>4 DEF Has
<1>6. ~Underway /\ ~Underway'
  BY DEF Underway
<1>7. ASSUME NEW x \in Builds, NEW n, NameFits(n), KeptName(x, n) PROVE KeptName(x, n)'
  <2>1. PICK on \in BOOLEAN : Kept(x, Path(n, on))
    BY <1>7 DEF KeptName
  <2>2. CASE x = b /\ Path(n, on) = from
    <3>1. n = name
      BY <1>3, <2>2 DEF Path
    <3>2. Kept(x, to)'
      BY <1>5, <1>6, <2>2 DEF Kept, Had
    <3> QED
      BY <1>3, <3>1, <3>2 DEF KeptName
  <2>3. CASE x = b /\ Path(n, on) = to
    <3>1. Kept(x, to)'
      BY <1>5, <1>6, <2>3 DEF Kept, Had
    <3> QED
      BY <2>3, <3>1 DEF KeptName
  <2>4. CASE x # b \/ Path(n, on) \notin {from, to}
    <3>1. Has(x, Path(n, on))' <=> Has(x, Path(n, on))
      BY <1>4, <1>7, <2>4 DEF Has, NameFits
    <3>2. Kept(x, Path(n, on))'
      BY <1>6, <2>1, <3>1 DEF Kept, Had
    <3> QED
      BY <3>2 DEF KeptName
  <2> QED
    BY <2>2, <2>3, <2>4
<1> QED
  BY <1>3, <1>5, <1>7 DEF NamesKept

LEMMA RowsAndNamesStay ==
  ASSUME Shape, RowsInv, KeptInv, SameRows, UNCHANGED listed,
         NamesKept
  PROVE  RowsInv' /\ KeptInv'
<1>1. UNCHANGED version /\ (\A b \in Builds : excused[b] => excused'[b]) /\ listed' \subseteq Builds
  BY DEF SameRows, Shape, RowShape
<1>2. ASSUME NEW x \in Builds, NEW p \in Projects, Installed(x, p), KeptName(x, RowName(x, p))
      PROVE  KeptName(x, RowName(x, p))'
  <2>1. PICK n : n = RowName(x, p)
    OBVIOUS
  <2>2. RowName(x, p)' = n
    BY <1>1, <2>1 DEF RowName
  <2>3. NameFits(n)
    BY <1>2, <2>1, NamesOfRows, ContentAssumption DEF NameFits, Shape
  <2>4. KeptName(x, n)'
    BY <1>2, <2>1, <2>3 DEF NamesKept
  <2> QED
    BY <2>2, <2>4 DEF KeptName
<1> QED
  BY <1>1, <1>2, RowsStay, KeptStays

LEMMA RenamesKeeps == ASSUME LibraryInv, LibraryInv', ContentInv, Renames PROVE ContentInv'
<1>1. /\ Shape /\ SameRows /\ UNCHANGED <<tx, listed, stray>> /\ tx.at = "none" /\ Switching
      /\ ~Has(b0, NewPath) /\ Has(b0, OldPath) /\ Move(OldPath, NewPath)
      /\ DOMAIN stray' = Builds /\ OldPath \in Paths /\ NewPath \in Paths
  BY Switched, ContentAssumption DEF Renames, Switching, JobAt, ContentInv, TidyInv
<1>2. PICK b \in Builds, p \in Projects, on \in BOOLEAN :
           /\ b = b0 /\ Installed(b, p) /\ job.commit = {<<p, version[b][p], on>>}
           /\ OldPath = Path(RowName(b, p), enabled[b][p]) /\ enabled[b][p] \in BOOLEAN
           /\ NewPath = Path(RowName(b, p), on)
  BY <1>1, SwitchedPaths
<1>3. PICK name : name = RowName(b, p)
  OBVIOUS
<1>4. PICK old \in BOOLEAN : OldPath = Path(name, old) /\ NewPath = Path(name, on)
  BY <1>2, <1>3
<1>5. old # on /\ Has(b, Path(name, old))
  BY <1>1, <1>2, <1>4
<1>6. /\ Has(b, Path(name, on))' /\ ~Has(b, Path(name, old))'
      /\ NamesKept
  BY <1>1, <1>2, <1>4, <1>5, MovesInName
<1>7. RowsInv' /\ KeptInv'
  BY <1>1, <1>6, RowsAndNamesStay DEF ContentInv
<1>8. job'.at = "recording" /\ job'.build = job.build /\ job'.commit = job.commit
  BY <1>1, MovesOn DEF Renames, Shape
<1>9. MovedInv'
  <2>1. OldPath' = OldPath /\ NewPath' = NewPath
    BY <1>1, <1>8 DEF OldPath, NewPath, Toggled, RowPath, b0, SameRows
  <2>2. (Has(b0, NewPath) <=> Has(b, Path(name, on)))'
    BY <1>2, <1>4, <1>8, <2>1 DEF Has, b0
  <2>3. (Has(b0, OldPath) <=> Has(b, Path(name, old)))'
    BY <1>2, <1>4, <1>8, <2>1 DEF Has, b0
  <2> QED
    BY <1>6, <2>2, <2>3 DEF MovedInv
<1>10. TidyInv'
  BY <1>1, <1>8, TidyAtRest DEF ContentInv
<1>11. CommitInv' /\ FilesInv' /\ CopyInv'
  BY <1>8 DEF CommitInv, FilesInv, Working, CopyInv, JobAt
<1> QED
  BY <1>7, <1>9, <1>10, <1>11 DEF ContentInv

LEMMA RenamesBackKeeps ==
  ASSUME LibraryInv, LibraryInv', ContentInv, RenamesBack
  PROVE  ContentInv'
<1>1. /\ Shape /\ SameRows /\ UNCHANGED <<tx, listed, stray>> /\ tx.at = "none" /\ Switching
      /\ Move(NewPath, OldPath) /\ Has(b0, NewPath) /\ ~Has(b0, OldPath)
      /\ DOMAIN stray' = Builds /\ OldPath \in Paths /\ NewPath \in Paths
  BY Switched, ContentAssumption
     DEF RenamesBack, Switching, JobAt, ContentInv, TidyInv, MovedInv, Moved
<1>2. PICK b \in Builds, p \in Projects, on \in BOOLEAN :
           /\ b = b0 /\ Installed(b, p) /\ job.commit = {<<p, version[b][p], on>>}
           /\ OldPath = Path(RowName(b, p), enabled[b][p]) /\ enabled[b][p] \in BOOLEAN
           /\ NewPath = Path(RowName(b, p), on)
  BY <1>1, SwitchedPaths
<1>3. PICK name : name = RowName(b, p)
  OBVIOUS
<1>4. PICK old \in BOOLEAN : OldPath = Path(name, old) /\ NewPath = Path(name, on)
  BY <1>2, <1>3
<1>5. old # on /\ Has(b, Path(name, on))
  BY <1>1, <1>2, <1>4
<1>6. NamesKept
  BY <1>1, <1>2, <1>4, <1>5, MovesInName
<1>7. RowsInv' /\ KeptInv'
  BY <1>1, <1>6, RowsAndNamesStay DEF ContentInv
<1>8. job'.at = "idle"
  BY <1>1, ComesToAnEnd DEF RenamesBack, Fail, Shape
<1>9. TidyInv'
  BY <1>1, <1>8, TidyAtRest DEF ContentInv
<1> QED
  BY <1>7, <1>8, <1>9, NothingOpen DEF ContentInv, Close

(* The row is switched, and its version stays.                             *)
LEMMA RecordsSame ==
  ASSUME Shape, NEW b \in Builds, NEW p \in Projects, NEW on,
         Record(b, {<<p, version[b][p], on>>})
  PROVE  UNCHANGED version
<1> DEFINE c == <<p, version[b][p], on>>
<1>1. version \in [Builds -> [Projects -> 0..MaxVersion]]
  BY DEF Shape, RowShape
<1>2. c[1] = p /\ c[2] = version[b][p]
  OBVIOUS
<1>3. version' = [version EXCEPT ![b] = [q \in Projects |->
           IF \E d \in {c} : d[1] = q THEN (CHOOSE d \in {c} : d[1] = q)[2] ELSE @[q]]]
  BY DEF Record
<1> HIDE DEF c
<1>4. \A q : (\E d \in {c} : d[1] = q) <=> q = p
  BY <1>2
<1>5. (CHOOSE d \in {c} : d[1] = p) = c
  BY <1>2
<1>6. \A q \in Projects : version'[b][q] = version[b][q]
  BY <1>1, <1>2, <1>3, <1>4, <1>5
<1>7. \A x \in Builds : x # b => version'[x] = version[x]
  BY <1>1, <1>3
<1>8. version'[b] = [q \in Projects |-> version'[b][q]]
  BY <1>1, <1>3
<1>9. version'[b] = version[b]
  BY <1>1, <1>6, <1>8
<1>10. version' = [x \in Builds |-> version'[x]]
  BY <1>1, <1>3
<1> QED
  BY <1>1, <1>7, <1>9, <1>10

LEMMA SwitchesKeeps == ASSUME LibraryInv, LibraryInv', ContentInv, Switches PROVE ContentInv'
<1>1. /\ Shape /\ RowShape /\ UNCHANGED <<excused, tx, listed, disk, stray>> /\ tx.at = "none"
      /\ Switching /\ DOMAIN stray' = Builds /\ job'.at \in {"idle", "resolving"}
      /\ Record(b0, job.commit) /\ listed' \subseteq Builds
  BY Switched DEF Switches, SameFiles, Switching, JobAt, ContentInv, TidyInv, Shape, RowShape
<1>2. PICK b \in Builds, p \in Projects, on \in BOOLEAN :
           b = b0 /\ Installed(b, p) /\ job.commit = {<<p, version[b][p], on>>}
  BY <1>1, SwitchedPaths
<1>3. UNCHANGED version
  <2>1. Record(b, {<<p, version[b][p], on>>})
    BY <1>1, <1>2
  <2> QED
    BY <1>1, <2>1, RecordsSame
<1>4. RowsInv'
  BY <1>1, <1>3, RowsStay DEF ContentInv
<1>5. KeptInv'
  <2>1. \A x \in Builds, path \in ContentPaths : Kept(x, path) => Kept(x, path)'
    BY <1>1, KeptAtRest
  <2> QED
    BY <1>1, <1>3, <2>1, KeptByPaths, KeptStays DEF ContentInv
<1>6. TidyInv'
  BY <1>1, TidyAtRest DEF ContentInv
<1> QED
  BY <1>1, <1>4, <1>5, <1>6, NothingOpen DEF ContentInv, Close

(* The user's steps.                                                       *)
LEMMA EditsKeeps == ASSUME LibraryInv, LibraryInv', ContentInv, Edits PROVE ContentInv'
<1>1. /\ Shape /\ SameRows /\ UNCHANGED <<listed, stray, tx, job>> /\ JobAt("idle")
      /\ DOMAIN stray' = Builds /\ listed \subseteq listed' /\ listed' \subseteq Builds
      /\ tx.at = "none" /\ job'.at = "idle"
  BY DEF LibraryInv, Shape, RowShape, Edits, JobAt, ContentInv, TidyInv, TxInv, TxAt
<1>2. \A x \in Builds, path \in ContentPaths : disk'[x][path] = disk[x][path]
  <2>1. PICK b \in Builds : disk' = [disk EXCEPT ![b][ConfigPath] = Edited]
    BY DEF Edits
  <2> QED
    BY <1>1, <2>1, ContentAssumption DEF Shape, DiskShape
<1>3. \A x \in Builds, path \in ContentPaths : Kept(x, path) => Kept(x, path)'
  BY <1>1, <1>2 DEF Kept, Had, Has, Underway
<1>4. RowsInv' /\ KeptInv'
  BY <1>1, <1>3, RowsAndFilesStay DEF ContentInv
<1>5. TidyInv'
  BY <1>1, TidyAtRest DEF ContentInv
<1> QED
  BY <1>1, <1>4, <1>5, NothingOpen DEF ContentInv, Close

LEMMA TakesAwayKeeps == ASSUME LibraryInv, LibraryInv', ContentInv, TakesAway PROVE ContentInv'
<1>1. /\ Shape /\ UNCHANGED <<version, listed, stray, tx>>
      /\ DOMAIN stray' = Builds /\ listed \subseteq listed' /\ listed' \subseteq Builds
      /\ tx.at = "none" /\ job'.at = "idle"
  BY DEF LibraryInv, Shape, RowShape, TakesAway, JobAt, ContentInv, TidyInv, TxInv, TxAt, NoJob
<1>2. PICK b \in Builds, away \in ContentPaths :
        /\ disk' = [disk EXCEPT ![b][away] = Absent]
        /\ excused' = [excused EXCEPT ![b] = TRUE]
  BY DEF TakesAway
<1>3. \A x \in Builds : excused[x] => excused'[x]
  BY <1>1, <1>2 DEF Shape, DiskShape
<1>4. ASSUME NEW x \in Builds, NEW p \in Projects, ~excused'[x], KeptName(x, RowName(x, p))
      PROVE  KeptName(x, RowName(x, p))'
  <2>1. x # b
    BY <1>1, <1>2, <1>4 DEF Shape, DiskShape
  <2>2. disk'[x] = disk[x]
    BY <1>1, <1>2, <2>1 DEF Shape, DiskShape
  <2>3. \A path : Kept(x, path) => Kept(x, path)'
    BY <1>1, <2>2 DEF Kept, Had, Has, Underway
  <2>4. PICK n : n = RowName(x, p)
    OBVIOUS
  <2>5. RowName(x, p)' = n
    BY <1>1, <2>4 DEF RowName
  <2>6. PICK on \in BOOLEAN : Kept(x, Path(n, on))
    BY <1>4, <2>4 DEF KeptName
  <2> QED
    BY <2>3, <2>5, <2>6 DEF KeptName
<1>5. RowsInv' /\ KeptInv'
  BY <1>1, <1>3, <1>4, RowsStay, KeptStays DEF ContentInv
<1>6. TidyInv'
  BY <1>1, TidyAtRest DEF ContentInv
<1> QED
  BY <1>1, <1>5, <1>6, NothingOpen DEF ContentInv, Close

(* Builds that go, and others that are copied.                             *)
LEMMA DeletesKeeps == ASSUME LibraryInv, LibraryInv', ContentInv, Deletes PROVE ContentInv'
<1>1. /\ Shape /\ b0 \in Builds /\ UNCHANGED <<excused, tx, disk, stray>>
      /\ DOMAIN stray' = Builds /\ tx.at = "none" /\ listed \subseteq Builds
      /\ listed' = listed \ {b0}
      /\ version' = [version EXCEPT ![b0] = [p \in Projects |-> 0]]
  BY Deleting DEF Deletes, SameFiles, JobAt, ContentInv, TidyInv, Shape, RowShape
<1>2. PICK b \in Builds : b = b0
  BY <1>1
<1>3. job'.at = "idle"
  BY <1>1, ComesToAnEnd DEF Deletes, Shape
<1>4. /\ \A p \in Projects : version'[b][p] = 0
      /\ \A x \in Builds : x # b => version'[x] = version[x]
  BY <1>1, <1>2 DEF Shape, RowShape
<1>5. RowsInv'
  <2>1. ASSUME NEW x \in Builds \ listed', NEW p \in Projects PROVE ~Installed(x, p)'
    BY <1>1, <1>2, <1>4, <2>1 DEF ContentInv, RowsInv, Installed
  <2>2. ASSUME NEW x \in Builds PROVE excused'[x] \/ NamesDiffer(version'[x])
    BY <1>1, <1>4, <2>2 DEF ContentInv, RowsInv, NamesDiffer
  <2> QED
    BY <2>1, <2>2 DEF RowsInv, NamesDiffer
<1>6. KeptInv'
  <2> SUFFICES ASSUME NEW x \in listed', NEW p \in Projects, ~excused'[x], Installed(x, p)'
               PROVE  KeptName(x, RowName(x, p))'
    BY DEF KeptInv
  <2>1. x \in listed /\ x \in Builds /\ version'[x] = version[x] /\ Installed(x, p)
    BY <1>1, <1>2, <1>4 DEF Installed
  <2>2. KeptName(x, RowName(x, p))
    BY <1>1, <2>1 DEF ContentInv, KeptInv
  <2>3. PICK n : n = RowName(x, p)
    OBVIOUS
  <2>4. RowName(x, p)' = n
    BY <2>1, <2>3 DEF RowName
  <2>5. PICK on \in BOOLEAN : Kept(x, Path(n, on))
    BY <2>2, <2>3 DEF KeptName
  <2>6. Kept(x, Path(n, on))'
    BY <1>1, <2>5 DEF Kept, Had, Has, Underway
  <2> QED
    BY <2>4, <2>6 DEF KeptName
<1>7. TidyInv'
  BY <1>1, <1>3, TidyAtRest DEF ContentInv
<1> QED
  BY <1>3, <1>5, <1>6, <1>7, NothingOpen DEF ContentInv, Close

(* A build without a row may become what it likes.                         *)
LEMMA UnlistedChanges ==
  ASSUME Shape, RowsInv, KeptInv, NEW b \in Builds \ listed,
         UNCHANGED <<listed, version, tx>>, tx.at = "none",
         \A x \in Builds \ {b} :
           disk'[x] = disk[x] /\ stray'[x] = stray[x] /\ excused'[x] = excused[x]
  PROVE  RowsInv' /\ KeptInv'
<1>1. \A p \in Projects : version[b][p] = 0
  BY DEF RowsInv, Installed
<1>2. NamesDiffer(version[b])
  BY <1>1 DEF NamesDiffer
<1>3. RowsInv'
  <2>1. ASSUME NEW x \in Builds PROVE excused'[x] \/ NamesDiffer(version'[x])
    BY <1>2 DEF RowsInv, NamesDiffer
  <2> QED
    BY <2>1 DEF RowsInv, Installed, NamesDiffer
<1>4. KeptInv'
  <2> SUFFICES ASSUME NEW x \in listed', NEW p \in Projects, ~excused'[x], Installed(x, p)'
               PROVE  KeptName(x, RowName(x, p))'
    BY DEF KeptInv
  <2>1. x \in listed /\ x \in Builds \ {b} /\ Installed(x, p)
    BY DEF Shape, RowShape, Installed
  <2>2. KeptName(x, RowName(x, p))
    BY <2>1 DEF KeptInv
  <2>3. PICK n : n = RowName(x, p)
    OBVIOUS
  <2>4. RowName(x, p)' = n
    BY <2>3 DEF RowName
  <2>5. PICK on \in BOOLEAN : Kept(x, Path(n, on))
    BY <2>2, <2>3 DEF KeptName
  <2>6. Kept(x, Path(n, on))'
    BY <2>1, <2>5 DEF Kept, Had, Has, Underway
  <2> QED
    BY <2>4, <2>6 DEF KeptName
<1> QED
  BY <1>3, <1>4

LEMMA CopiesFilesKeeps ==
  ASSUME LibraryInv, LibraryInv', ContentInv, CopiesFiles
  PROVE  ContentInv'
<1>1. /\ Shape /\ b0 \in Builds \ listed /\ job.from \in listed /\ job.from \in Builds
      /\ UNCHANGED <<version, listed, tx>> /\ tx.at = "none" /\ DOMAIN stray = Builds
      /\ disk' = [disk EXCEPT ![b0] = disk[job.from]]
      /\ stray' = [stray EXCEPT ![b0] = stray[job.from]]
      /\ torn' = [torn EXCEPT ![b0] = torn[job.from]]
      /\ excused' = [excused EXCEPT ![b0] = excused[job.from]]
  BY Copying DEF CopiesFiles, JobAt, ContentInv, TidyInv
<1>2. PICK b \in Builds \ listed, from \in listed : b = b0 /\ from = job.from
  BY <1>1
<1>3. from \in Builds /\ from # b
  BY <1>1, <1>2
<1>4. job'.at = "insertingCopy" /\ job'.build = b /\ job'.from = from
  BY <1>1, <1>2, MovesOn DEF CopiesFiles, Shape, b0
<1>5. DOMAIN disk = Builds /\ DOMAIN torn = Builds /\ DOMAIN excused = Builds
  BY <1>1 DEF Shape, DiskShape
<1>6. \A x \in Builds \ {b} :
        disk'[x] = disk[x] /\ stray'[x] = stray[x] /\ excused'[x] = excused[x]
  BY <1>1, <1>2, <1>5
<1>7. RowsInv' /\ KeptInv'
  BY <1>1, <1>6, UnlistedChanges DEF ContentInv
<1>8. CopyInv'
  <2>1. /\ disk'[b] = disk'[from] /\ stray'[b] = stray'[from]
        /\ torn'[b] = torn'[from] /\ excused'[b] = excused'[from]
    BY <1>1, <1>2, <1>3, <1>5
  <2>2. \A p \in Projects : ~Installed(b, p)'
    BY <1>1, <1>2 DEF ContentInv, RowsInv, Installed
  <2>3. job'.from \in listed' /\ job'.from # b /\ b0' = b
    BY <1>1, <1>2, <1>3, <1>4 DEF b0
  <2>4. \A p \in Projects : ~Installed(b0, p)'
    BY <2>2, <2>3 DEF Installed
  <2> QED
    BY <1>4, <2>1, <2>3, <2>4 DEF CopyInv, JobAt
<1>9. TidyInv'
  BY <1>1, <1>4, TidyAtRest DEF ContentInv
<1>10. CommitInv' /\ FilesInv' /\ MovedInv'
  BY <1>4 DEF CommitInv, FilesInv, Working, MovedInv, Moved, JobAt
<1> QED
  BY <1>7, <1>8, <1>9, <1>10 DEF ContentInv

LEMMA ClearsKeeps == ASSUME LibraryInv, LibraryInv', ContentInv, Clears PROVE ContentInv'
<1>1. /\ Shape /\ b0 \in Builds \ listed
      /\ UNCHANGED <<version, listed, tx>> /\ tx.at = "none" /\ DOMAIN stray = Builds
  BY DEF LibraryInv, PhaseInv, TxInv, ShelfInv, NextInv, Clears, JobAt, TxAt, ContentInv,
         TidyInv
<1>2. PICK b \in Builds \ listed : b = b0
  BY <1>1
<1>3. job'.at = "idle"
  BY <1>1, ComesToAnEnd DEF Clears, Fail, Shape
<1>4. DOMAIN disk = Builds /\ DOMAIN torn = Builds /\ DOMAIN excused = Builds
  BY <1>1 DEF Shape, DiskShape
<1>5. DOMAIN stray' = Builds /\ \A x \in Builds \ {b} :
        disk'[x] = disk[x] /\ stray'[x] = stray[x] /\ excused'[x] = excused[x]
  BY <1>1, <1>2, <1>4 DEF Clears, RemoveDirectory
<1>6. RowsInv' /\ KeptInv'
  BY <1>1, <1>5, UnlistedChanges DEF ContentInv
<1>7. TidyInv'
  BY <1>1, <1>3, <1>5, TidyAtRest DEF ContentInv
<1> QED
  BY <1>3, <1>6, <1>7, NothingOpen DEF ContentInv, Close

LEMMA CopiesRowKeeps == ASSUME LibraryInv, LibraryInv', ContentInv, CopiesRow PROVE ContentInv'
<1>1. /\ Shape /\ RowShape /\ b0 \in Builds /\ job.from \in listed /\ job.from \in Builds
      /\ UNCHANGED <<excused, tx, listed, torn, job, disk, stray>>
      /\ tx.at = "none" /\ DOMAIN stray = Builds /\ job.at = "copyingRows"
      /\ b0 \in listed /\ job.from # b0 /\ CopyInv
  BY Copying DEF CopiesRow, SameFiles, JobAt, ContentInv, TidyInv, CopyInv, Shape
<1>2. PICK b \in listed, from \in listed : b = b0 /\ from = job.from
  BY <1>1
<1>3. PICK p \in Projects : Record(b, {<<p, version[from][p], enabled[from][p]>>})
  BY <1>2 DEF CopiesRow, Missing
<1>4. b \in Builds /\ from \in Builds /\ from # b /\ b0' = b /\ job'.from = from
  BY <1>1, <1>2 DEF b0
<1> DEFINE c == <<p, version[from][p], enabled[from][p]>>
<1>5. c[1] = p /\ c[2] = version[from][p] /\ c[3] = enabled[from][p]
  OBVIOUS
<1>6. /\ version' = [version EXCEPT ![b] = [q \in Projects |->
           IF \E d \in {c} : d[1] = q THEN (CHOOSE d \in {c} : d[1] = q)[2] ELSE @[q]]]
      /\ enabled' = [enabled EXCEPT ![b] = [q \in Projects |->
           IF \E d \in {c} : d[1] = q THEN (CHOOSE d \in {c} : d[1] = q)[3] ELSE @[q]]]
  BY <1>3 DEF Record
<1> HIDE DEF c
<1>7. \A q : (\E d \in {c} : d[1] = q) <=> q = p
  BY <1>5
<1>8. (CHOOSE d \in {c} : d[1] = p) = c
  BY <1>5
<1>9. /\ \A q \in Projects : version'[b][q] = IF q = p THEN version[from][p] ELSE version[b][q]
      /\ \A x \in Builds : x # b => version'[x] = version[x]
  BY <1>1, <1>4, <1>5, <1>6, <1>7, <1>8 DEF RowShape
<1>10. /\ \A q \in Projects : enabled'[b][q] = IF q = p THEN enabled[from][p] ELSE enabled[b][q]
       /\ \A x \in Builds : x # b => enabled'[x] = enabled[x]
  BY <1>1, <1>4, <1>5, <1>6, <1>7, <1>8 DEF RowShape
<1>11. ASSUME NEW q \in Projects, version'[b][q] # 0
       PROVE  version'[b][q] = version[from][q] /\ enabled'[b][q] = enabled[from][q]
  <2>1. CASE q = p
    BY <1>9, <1>10, <2>1
  <2>2. CASE q # p
    <3>1. Installed(b, q)
      BY <1>9, <1>11, <2>2 DEF Installed
    <3>2. version[b][q] = version[from][q] /\ enabled[b][q] = enabled[from][q]
      BY <1>1, <1>2, <3>1 DEF CopyInv
    <3> QED
      BY <1>9, <1>10, <2>2, <3>2
  <2> QED
    BY <2>1, <2>2
<1>12. excused[b] = excused[from] /\ disk[b] = disk[from] /\ stray[b] = stray[from]
  BY <1>1, <1>2 DEF CopyInv
<1>13. CopyInv'
  <2>1. \A q \in Projects : Installed(b, q)' =>
           version'[b][q] = version'[from][q] /\ enabled'[b][q] = enabled'[from][q]
    BY <1>4, <1>9, <1>10, <1>11 DEF Installed
  <2>2. \A q \in Projects : Installed(b0, q)' =>
           version'[b][q] = version'[from][q] /\ enabled'[b][q] = enabled'[from][q]
    BY <1>4, <2>1 DEF Installed
  <2>3. torn[b] = torn[from]
    BY <1>1, <1>2 DEF CopyInv
  <2> QED
    BY <1>1, <1>2, <1>4, <1>12, <2>2, <2>3 DEF CopyInv, JobAt
<1>14. RowsInv'
  <2>1. ASSUME NEW x \in Builds \ listed', NEW q \in Projects PROVE ~Installed(x, q)'
    BY <1>1, <1>2, <1>9, <2>1 DEF ContentInv, RowsInv, Installed
  <2>2. ASSUME NEW x \in Builds PROVE excused'[x] \/ NamesDiffer(version'[x])
    <3>1. CASE x # b
      BY <1>1, <1>9, <3>1 DEF ContentInv, RowsInv
    <3>2. CASE x = b
      <4>1. excused[from] \/ NamesDiffer(version[from])
        BY <1>4 DEF ContentInv, RowsInv
      <4> QED
        BY <1>1, <1>11, <1>12, <3>2, <4>1 DEF NamesDiffer
    <3> QED
      BY <3>1, <3>2
  <2> QED
    BY <2>1, <2>2 DEF RowsInv, NamesDiffer
<1>15. KeptInv'
  <2> SUFFICES ASSUME NEW x \in listed', NEW q \in Projects, ~excused'[x], Installed(x, q)'
               PROVE  KeptName(x, RowName(x, q))'
    BY DEF KeptInv
  <2>1. PICK y \in listed : y = IF x = b THEN from ELSE x
    BY <1>1
  <2>2. /\ ~excused[y] /\ disk[y] = disk[x] /\ stray[y] = stray[x]
        /\ version[y][q] = version'[x][q] /\ version'[x][q] # 0
    BY <1>1, <1>2, <1>9, <1>11, <1>12, <2>1 DEF Installed, Shape, RowShape
  <2>3. KeptName(y, RowName(y, q))
    BY <2>2 DEF ContentInv, KeptInv, Installed
  <2>4. PICK n : n = RowName(y, q)
    OBVIOUS
  <2>5. RowName(x, q)' = n
    BY <2>2, <2>4 DEF RowName
  <2>6. PICK on \in BOOLEAN : Kept(y, Path(n, on))
    BY <2>3, <2>4 DEF KeptName
  <2>7. Kept(x, Path(n, on))'
    BY <1>1, <2>2, <2>6 DEF Kept, Had, Has, Underway
  <2> QED
    BY <2>5, <2>7 DEF KeptName
<1>16. TidyInv'
  BY <1>1, TidyAtRest DEF ContentInv
<1>17. CommitInv' /\ FilesInv' /\ MovedInv'
  BY <1>1 DEF CommitInv, FilesInv, Working, MovedInv, Moved, JobAt
<1> QED
  BY <1>13, <1>14, <1>15, <1>16, <1>17 DEF ContentInv

(* Rows are written when the files are there.                              *)
LEMMA RecordsRows ==
  ASSUME RowShape, NEW b \in Builds, NEW rows, Record(b, rows)
  PROVE  /\ \A p \in Projects : ~HasRow(rows, p) =>
              version'[b][p] = version[b][p] /\ enabled'[b][p] = enabled[b][p]
         /\ \A p \in Projects : HasRow(rows, p) => \E c \in rows :
              c[1] = p /\ version'[b][p] = c[2] /\ enabled'[b][p] = c[3]
         /\ \A x \in Builds : x # b => version'[x] = version[x] /\ enabled'[x] = enabled[x]
<1>1. /\ version' = [version EXCEPT ![b] = [p \in Projects |->
           IF HasRow(rows, p) THEN (CHOOSE c \in rows : c[1] = p)[2] ELSE @[p]]]
      /\ enabled' = [enabled EXCEPT ![b] = [p \in Projects |->
           IF HasRow(rows, p) THEN (CHOOSE c \in rows : c[1] = p)[3] ELSE @[p]]]
  BY DEF Record, HasRow
<1>2. \A p : HasRow(rows, p) =>
        (CHOOSE c \in rows : c[1] = p) \in rows /\ (CHOOSE c \in rows : c[1] = p)[1] = p
  BY DEF HasRow
<1>3. \A p \in Projects : HasRow(rows, p) =>
        /\ version'[b][p] = (CHOOSE c \in rows : c[1] = p)[2]
        /\ enabled'[b][p] = (CHOOSE c \in rows : c[1] = p)[3]
  BY <1>1 DEF RowShape
<1>4. \A p \in Projects : ~HasRow(rows, p) =>
        version'[b][p] = version[b][p] /\ enabled'[b][p] = enabled[b][p]
  BY <1>1 DEF RowShape
<1>5. \A x \in Builds : x # b => version'[x] = version[x] /\ enabled'[x] = enabled[x]
  BY <1>1 DEF RowShape
<1>6. \A p \in Projects : HasRow(rows, p) => \E c \in rows :
        c[1] = p /\ version'[b][p] = c[2] /\ enabled'[b][p] = c[3]
  BY <1>2, <1>3
<1> QED
  BY <1>4, <1>5, <1>6

(* The names of the rows fit those of the rows that stay.                  *)
Fits(rows, b) ==
  /\ \A c, d \in rows : c[1] # d[1] /\ c[2] # 0 /\ d[2] # 0
       => FileName[<<c[1], c[2]>>] # FileName[<<d[1], d[2]>>]
  /\ \A c \in rows, q \in Projects : c[2] # 0 /\ ~HasRow(rows, q) /\ Installed(b, q)
       => RowName(b, q) # FileName[<<c[1], c[2]>>]

LEMMA FittingRows ==
  ASSUME Shape, RowsInv, NEW b \in Builds, NEW rows, Record(b, rows),
         ~excused[b], Fits(rows, b)
  PROVE  NamesDiffer(version'[b])
<1>1. /\ \A p \in Projects : ~HasRow(rows, p) => version'[b][p] = version[b][p]
      /\ \A p \in Projects : HasRow(rows, p) => \E c \in rows :
           c[1] = p /\ version'[b][p] = c[2]
  BY RecordsRows DEF Shape
<1>2. NamesDiffer(version[b])
  BY DEF RowsInv
<1> SUFFICES ASSUME NEW p \in Projects, NEW q \in Projects, p # q,
                    version'[b][p] # 0, version'[b][q] # 0,
                    FileName[<<p, version'[b][p]>>] = FileName[<<q, version'[b][q]>>]
             PROVE  FALSE
  BY DEF NamesDiffer
<1>3. CASE HasRow(rows, p) /\ HasRow(rows, q)
  BY <1>1, <1>3 DEF Fits
<1>4. CASE HasRow(rows, p) /\ ~HasRow(rows, q)
  BY <1>1, <1>4 DEF Fits, Installed, RowName
<1>5. CASE ~HasRow(rows, p) /\ HasRow(rows, q)
  BY <1>1, <1>5 DEF Fits, Installed, RowName
<1>6. CASE ~HasRow(rows, p) /\ ~HasRow(rows, q)
  BY <1>1, <1>2, <1>6 DEF NamesDiffer
<1> QED
  BY <1>3, <1>4, <1>5, <1>6

LEMMA CommitsKeeps ==
  ASSUME LibraryInv, LibraryInv', ContentInv, Commits,
         NEW b \in Builds, b = b0, b \in listed', listed \subseteq listed',
         listed' \subseteq listed \cup {b},
         \A x \in Builds : excused[x] => excused'[x],
         ~excused'[b] => Fits(job.commit, b)
  PROVE  ContentInv'
<1>1. /\ Shape /\ JobShape /\ RowShape /\ TxShape /\ UNCHANGED <<job, disk, stray>>
      /\ JobAt("changing") /\ tx.at = "changing" /\ tx.todo = <<>> /\ tx.build = b
      /\ Record(b, job.commit) /\ tx' = [tx EXCEPT !.at = "cleaning"] /\ DOMAIN stray = Builds
  BY DEF LibraryInv, Shape, TxInv, JobAt, TxAt, Commits, SameFiles, AllChanged, ContentInv,
         TidyInv
<1>2. PICK rows : rows = job.commit
  OBVIOUS
<1>3. /\ \A p \in Projects : ~HasRow(rows, p) => version'[b][p] = version[b][p]
      /\ \A p \in Projects : HasRow(rows, p) => \E c \in rows :
           c[1] = p /\ version'[b][p] = c[2]
      /\ \A x \in Builds : x # b => version'[x] = version[x]
  BY <1>1, <1>2, RecordsRows
<1>4. tx'.at = "cleaning" /\ tx'.done = tx.done /\ tx'.todo = tx.todo /\ ~Underway'
  BY <1>1 DEF TxShape, Underway
<1>5. RowsInv'
  <2>1. ASSUME NEW x \in Builds \ listed', NEW q \in Projects PROVE ~Installed(x, q)'
    BY <1>3, <2>1 DEF ContentInv, RowsInv, Installed
  <2>2. ASSUME NEW x \in Builds, ~excused'[x] PROVE NamesDiffer(version'[x])
    <3>1. CASE x # b
      BY <1>3, <2>2, <3>1 DEF ContentInv, RowsInv
    <3>2. CASE x = b
      BY <1>1, <2>2, <3>2, FittingRows DEF ContentInv
    <3> QED
      BY <3>1, <3>2
  <2> QED
    BY <2>1, <2>2 DEF RowsInv, NamesDiffer
<1>6. FilesOf(rows, job.pack, b0) /\ b0 = b
  BY <1>1, <1>2 DEF ContentInv, FilesInv, Working
<1>7. \A path : WillHave(path) <=> Has(b, path)
  <2>1. 1..Len(tx.todo) = {}
    BY <1>1, EmptySeq
  <2> QED
    BY <1>1, <2>1 DEF WillHave, PlannedAt
<1>8. \A x \in Builds : \A path : Has(x, path) => Kept(x, path)'
  BY <1>1, <1>4 DEF Kept, Had, Has
<1>9. KeptInv'
  <2> SUFFICES ASSUME NEW x \in listed', NEW p \in Projects, ~excused'[x], Installed(x, p)'
               PROVE  KeptName(x, RowName(x, p))'
    BY DEF KeptInv
  <2>0. x \in Builds /\ ~excused[x]
    BY <1>1 DEF Shape, RowShape
  <2>1. CASE x # b
    <3>1. x \in listed /\ version'[x] = version[x] /\ Installed(x, p)
      BY <1>3, <2>0, <2>1 DEF Installed
    <3>2. KeptName(x, RowName(x, p))
      BY <2>0, <3>1 DEF ContentInv, KeptInv
    <3>3. PICK n : n = RowName(x, p)
      OBVIOUS
    <3>4. RowName(x, p)' = n
      BY <3>1, <3>3 DEF RowName
    <3>5. PICK on \in BOOLEAN : Kept(x, Path(n, on))
      BY <3>2, <3>3 DEF KeptName
    <3>6. Kept(x, Path(n, on))'
      BY <1>1, <1>4, <1>8, <2>0, <2>1, <3>5 DEF Kept, Had
    <3> QED
      BY <3>4, <3>6 DEF KeptName
  <2>2. CASE x = b /\ HasRow(rows, p)
    <3>1. PICK c \in rows : c[1] = p /\ version'[b][p] = c[2]
      BY <1>3, <2>2
    <3>2. c[2] # 0 /\ c[3] \in BOOLEAN
      BY <1>1, <1>2, <2>2, <3>1 DEF Installed, JobShape, Rows
    <3>3. PICK n : n = FileName[<<c[1], c[2]>>]
      OBVIOUS
    <3>4. RowName(x, p)' = n
      BY <2>2, <3>1, <3>3 DEF RowName
    <3>5. Path(n, c[3]) \in PutPaths(rows)
      BY <3>2, <3>3 DEF PutPaths, ProjectPath
    <3>6. Has(b, Path(n, c[3]))
      BY <1>6, <1>7, <3>5 DEF FilesOf
    <3>7. Kept(x, Path(n, c[3]))'
      BY <1>8, <2>2, <3>6
    <3> QED
      BY <3>2, <3>4, <3>7 DEF KeptName
  <2>3. CASE x = b /\ ~HasRow(rows, p)
    <3>1. Installed(b, p) /\ version'[b][p] = version[b][p]
      BY <1>3, <2>3 DEF Installed
    <3>2. b \in listed
      BY <3>1 DEF ContentInv, RowsInv
    <3>3. KeptName(b, RowName(b, p))
      BY <2>0, <2>3, <3>1, <3>2 DEF ContentInv, KeptInv
    <3>4. PICK n : n = RowName(b, p)
      OBVIOUS
    <3>5. RowName(x, p)' = n
      BY <2>3, <3>1, <3>4 DEF RowName
    <3>6. PICK on \in BOOLEAN : Kept(b, Path(n, on))
      BY <3>3, <3>4 DEF KeptName
    <3>7. PICK path \in ContentPaths : path = Path(n, on)
      BY <1>1, <3>1, <3>4, NamesOfRows
    <3>8. Had(b, path) => Has(b, path)
      <4> SUFFICES ASSUME Had(b, path), ~Has(b, path) PROVE FALSE
        OBVIOUS
      <4>1. Replaces(rows, b, path)
        BY <1>6, <1>7 DEF FilesOf
      <4>2. PICK q \in Projects : HasRow(rows, q) /\ Installed(b, q) /\ path = RowPath(b, q)
        BY <4>1 DEF Replaces
      <4>3. RowName(b, q) = n /\ q # p
        BY <2>3, <3>7, <4>2 DEF RowPath, ProjectPath, RowName, Path
      <4>4. NamesDiffer(version[b])
        BY <2>0, <2>3 DEF ContentInv, RowsInv
      <4> QED
        BY <3>1, <3>4, <4>2, <4>3, <4>4 DEF NamesDiffer, RowName, Installed
    <3>9. Kept(x, path)'
      BY <1>1, <1>8, <2>3, <3>6, <3>7, <3>8 DEF Kept
    <3> QED
      BY <3>5, <3>7, <3>9 DEF KeptName
  <2> QED
    BY <2>1, <2>2, <2>3
<1>10. TidyInv'
  BY <1>1, <1>4 DEF ContentInv, TidyInv, Tidy, JobAt, TxAt
<1>11. CommitInv' /\ FilesInv'
  BY <1>4 DEF CommitInv, FilesInv, Working, TxAt
<1>12. MovedInv' /\ CopyInv'
  BY <1>1 DEF MovedInv, Moved, CopyInv, JobAt
<1> QED
  BY <1>5, <1>9, <1>10, <1>11, <1>12 DEF ContentInv

LEMMA WritesRowsKeeps ==
  ASSUME LibraryInv, LibraryInv', ContentInv, WritesRows
  PROVE  ContentInv'
<1>1. /\ Commits /\ job.pack = NoPack /\ UNCHANGED <<listed, excused>>
      /\ JobAt("changing") /\ tx.at = "changing" /\ b0 \in Builds /\ b0 \in listed
  BY DEF LibraryInv, PhaseInv, WritesRows, Commits, AllChanged, JobAt, TxAt, OnListed, OfPacks,
         NewPack
<1>2. PICK b \in Builds : b = b0
  BY <1>1
<1>3. PICK c \in Rows : job.commit = {c}
  BY <1>1 DEF ContentInv, CommitInv, TxAt
<1>4. NoOther({c}, b)
  BY <1>1, <1>2, <1>3 DEF ContentInv, CommitInv, TxAt
<1>5. ~excused[b] => Fits({c}, b)
  <2>1. \A q : HasRow({c}, q) <=> q = c[1]
    BY DEF HasRow
  <2>2. \A d, e \in {c} : d[1] = e[1]
    OBVIOUS
  <2>3. ~excused[b] => \A q \in Projects : c[2] # 0 /\ q # c[1] /\ Installed(b, q)
                         => RowName(b, q) # FileName[<<c[1], c[2]>>]
    BY <1>4 DEF NoOther
  <2> QED
    BY <2>1, <2>2, <2>3 DEF Fits
<1> QED
  BY <1>1, <1>2, <1>3, <1>5, CommitsKeeps

LEMMA CommitsPackKeeps ==
  ASSUME LibraryInv, LibraryInv', ContentInv, CommitsPack
  PROVE  ContentInv'
<1>1. /\ Shape /\ Commits /\ job.pack \in Packs /\ job.pack # NoPack
      /\ listed' = listed \cup {b0}
      /\ excused' = [excused EXCEPT ![b0] = @ \/ TakesName(b0, job.pack) \/ NamesTwice(job.pack)]
      /\ JobAt("changing") /\ tx.at = "changing" /\ b0 \in Builds
  BY DEF LibraryInv, Shape, JobShape, PhaseInv, CommitsPack, Commits, AllChanged, JobAt, TxAt
<1>2. PICK b \in Builds, k \in Packs : b = b0 /\ k = job.pack
  BY <1>1
<1>3. job.commit = PackRows(b, k)
  BY <1>1, <1>2 DEF ContentInv, CommitInv, TxAt
<1>4. /\ \A x \in Builds : excused[x] => excused'[x]
      /\ ~excused'[b] => ~TakesName(b, k)
  <2>1. excused \in [Builds -> BOOLEAN] /\ TakesName(b, k) \in BOOLEAN /\ NamesTwice(k) \in BOOLEAN
    BY <1>1 DEF Shape, DiskShape, TakesName, NamesTwice
  <2> QED
    BY <1>1, <1>2, <2>1
<1>5. ASSUME ~TakesName(b, k) PROVE Fits(job.commit, b)
  <2> DEFINE row(f) == <<f[1], f[2], KeepsFlag(b, f[1], f[2], k)>>
  <2>1. \A c : c \in job.commit <=> \E f \in PackFiles[k] : c = row(f)
    BY <1>3 DEF PackRows
  <2>2. \A f \in PackFiles[k] : row(f)[1] = f[1] /\ row(f)[2] = f[2]
    OBVIOUS
  <2> HIDE DEF row
  <2>3. \A f \in PackFiles[k] : f = <<f[1], f[2]>>
    BY ContentAssumption
  <2>4. \A q : HasRow(job.commit, q) <=> \E f \in PackFiles[k] : f[1] = q
    BY <2>1, <2>2 DEF HasRow
  <2>5. \A f, g \in PackFiles[k] : FileName[f] = FileName[g] => f = g
    BY ContentAssumption
  <2>6. ASSUME NEW c \in job.commit, NEW d \in job.commit, c[1] # d[1]
        PROVE  FileName[<<c[1], c[2]>>] # FileName[<<d[1], d[2]>>]
    <3>1. PICK f \in PackFiles[k], g \in PackFiles[k] : c = row(f) /\ d = row(g)
      BY <2>1
    <3>2. <<c[1], c[2]>> = f /\ <<d[1], d[2]>> = g
      BY <2>2, <2>3, <3>1
    <3> QED
      BY <2>5, <2>6, <3>2
  <2>7. ASSUME NEW c \in job.commit, NEW q \in Projects, ~HasRow(job.commit, q), Installed(b, q)
        PROVE  RowName(b, q) # FileName[<<c[1], c[2]>>]
    <3>1. PICK f \in PackFiles[k] : c = row(f)
      BY <2>1
    <3>2. <<c[1], c[2]>> = f
      BY <2>2, <2>3, <3>1
    <3> QED
      BY <1>5, <2>4, <2>7, <3>2 DEF TakesName
  <2> QED
    BY <2>6, <2>7 DEF Fits
<1> QED
  BY <1>1, <1>2, <1>4, <1>5, CommitsKeeps

LEMMA ContentInvKept ==
  ASSUME LibraryInv, LibraryInv', ContentInv, StepKind
  PROVE  ContentInv'
BY RestsKeeps, FailsToRecordKeeps, EndsCopyKeeps, InsertsKeeps, BeginsKeeps, WorksKeeps,
   TurnsBackKeeps, ClosesKeeps, RenamesKeeps, RenamesBackKeeps, SwitchesKeeps, CopiesRowKeeps,
   WritesRowsKeeps, CommitsPackKeeps, DeletesKeeps, CopiesFilesKeeps, ClearsKeeps, EditsKeeps,
   TakesAwayKeeps, EndsProcessKeeps
   DEF StepKind, RowStep

LEMMA NothingThere == LibraryInit => ContentInv
<1> SUFFICES ASSUME LibraryInit PROVE ContentInv
  OBVIOUS
<1>1. /\ listed = {} /\ job = NoJob /\ tx = NoTx /\ stray = [b \in Builds |-> {}]
      /\ version = [b \in Builds |-> [p \in Projects |-> 0]]
  BY DEF LibraryInit, ContentInit, FilesInit
<1>2. job.at = "idle" /\ tx.at = "none" /\ 1..Len(tx.done) = {}
  BY <1>1, EmptySeq DEF NoJob, NoTx
<1>3. TidyInv
  BY <1>1, <1>2 DEF TidyInv, Tidy, JobAt, TxAt
<1>4. RowsInv /\ KeptInv
  BY <1>1 DEF RowsInv, KeptInv, NamesDiffer, Installed
<1>5. CommitInv /\ FilesInv /\ MovedInv /\ CopyInv
  BY <1>2 DEF CommitInv, FilesInv, Working, MovedInv, Moved, CopyInv, JobAt
<1> QED
  BY <1>3, <1>4, <1>5 DEF ContentInv

LEMMA StutteringKeeps ==
  ASSUME LibraryInv, LibraryInv', ContentInv, UNCHANGED libraryVars
  PROVE  ContentInv'
<1>1. Rests
  BY Loosely DEF libraryVars, contentVars, fileVars, shelfVars, Rests, SameRows, SameFiles
<1> QED
  BY <1>1, RestsKeeps

LEMMA ContentInvAlways == LibrarySpec => []ContentInv
<1>1. LibraryInit => ContentInv
  BY NothingThere
<1>2. LibraryInv /\ LibraryInv' /\ ContentInv /\ [LibraryNext]_libraryVars => ContentInv'
  BY Steps, ContentInvKept, StutteringKeeps
<1>3. LibrarySpec => []LibraryInv
  BY LibraryIsConsistent
<1> QED
  BY <1>1, <1>2, <1>3, PTL DEF LibrarySpec

(* The file of every row of a listed build exists, in place, under the     *)
(* other of its two names, or in a rollback directory, whatever fails and  *)
(* wherever the process ends (FileTransaction, its Drop,                   *)
(* set_installed_content_enabled, copy_build, delete_build).               *)
THEOREM NothingGetsLost == LibrarySpec => []NothingIsLost
<1>1. LibraryInv /\ ContentInv => NothingIsLost
  <2> SUFFICES ASSUME LibraryInv, ContentInv, NEW b \in listed, NEW p \in Projects,
                      Installed(b, p), ~excused[b]
               PROVE  \E on \in BOOLEAN :
                        LET path == Path(RowName(b, p), on)
                        IN  Has(b, path) \/ \E kept \in stray[b] \cup ToSet(tx.done) :
                                             kept.path = path /\ kept.old # Absent
    BY DEF NothingIsLost
  <2>1. PICK on \in BOOLEAN : Kept(b, Path(RowName(b, p), on))
    BY DEF ContentInv, KeptInv, KeptName
  <2> DEFINE path == Path(RowName(b, p), on)
  <2> HIDE DEF path
  <2>2. CASE Had(b, path) /\ Underway /\ b = tx.build /\ SavedAt(path)
    <3>1. PICK i \in 1..Len(tx.done) : tx.done[i].path = path /\ tx.done[i].old # Absent
      BY <2>2 DEF Had
    <3>2. tx.done[i] \in ToSet(tx.done)
      BY DEF ToSet, LibraryInv, Shape, TxShape
    <3> QED
      BY <3>1, <3>2 DEF path
  <2>3. CASE Had(b, path) /\ ~(Underway /\ b = tx.build /\ SavedAt(path))
    BY <2>3 DEF Had, path
  <2>4. CASE \E s \in stray[b] : s.path = path /\ s.old # Absent
    BY <2>4 DEF path
  <2> QED
    BY <2>1, <2>2, <2>3, <2>4 DEF Kept, path
<1> QED
  BY <1>1, LibraryIsConsistent, ContentInvAlways, PTL

-----------------------------------------------------------------------------
LEMMA GoesOnAsItIs == UNCHANGED job => GoesOn
BY DEF GoesOn, JobAt

LEMMA GoesOnTo ==
  ASSUME JobShape, ~JobAt("idle"), NEW phase, To(phase)
  PROVE  GoesOn
BY MovesOn DEF GoesOn

LEMMA GoesToAnEnd ==
  ASSUME JobShape, NEW verdict,
         \/ job' = Answer(verdict)
         \/ job' = [Answer(verdict) EXCEPT !.stack = job.stack]
         \/ job' = [NoJob EXCEPT !.answer = verdict]
         \/ job' = NoJob
  PROVE  GoesOn
BY ComesToAnEnd DEF GoesOn

LEMMA ContentGoesOn ==
  ASSUME LibraryInv, ContentStep
  PROVE  GoesOn
<1>0. Shape /\ JobShape /\ DOMAIN job = JobFields
  BY DEF LibraryInv, Shape, JobShape
<1>1. CASE GiveUp \/ FailChanges
  BY <1>0, <1>1, GoesToAnEnd DEF GiveUp, FailChanges, Fail
<1>2. CASE TakeRequirement
  <2>1. JobAt("resolving") /\ Top.requires # <<>> /\ ~JobAt("idle")
    BY <1>2 DEF TakeRequirement, JobAt
  <2>2. CASE job' = NextRequirement
    BY <2>1, <2>2, NextRequirementIsOne DEF GoesOn
  <2>3. CASE job' = [job EXCEPT !.at = "renaming",
                       !.commit = {<<Needed.project, version[b0][Needed.project], TRUE>>}]
    <3> DEFINE commit == {<<Needed.project, version[b0][Needed.project], TRUE>>}
    <3>1. job' = [job EXCEPT !.at = "renaming", !.commit = commit]
      BY <2>3
    <3> HIDE DEF commit
    <3> QED
      BY <1>0, <2>1, <3>1 DEF JobFields, GoesOn
  <2> QED
    BY <1>2, <2>2, <2>3 DEF TakeRequirement
<1>3. CASE DescendToRequirement
  <2>1. ~JobAt("idle")
    BY <1>3 DEF DescendToRequirement, JobAt
  <2>2. CASE Fail
    BY <1>0, <2>2, GoesToAnEnd DEF Fail
  <2>3. CASE \E stack : job' = [job EXCEPT !.stack = stack]
    BY <1>0, <2>1, <2>3 DEF JobFields, GoesOn
  <2> QED
    BY <1>3, <2>2, <2>3 DEF DescendToRequirement
<1>4. CASE InstallTop
  <2>1. ~JobAt("idle")
    BY <1>4 DEF InstallTop, JobAt
  <2>2. CASE Fail
    BY <1>0, <2>2, GoesToAnEnd DEF Fail
  <2>3. CASE \E commit : job' = [job EXCEPT !.at = "changing", !.commit = commit]
    BY <1>0, <2>1, <2>3 DEF JobFields, GoesOn
  <2> QED
    BY <1>4, <2>2, <2>3 DEF InstallTop
<1>5. CASE RenameContent \/ RecordToggle \/ RenameBack
  <2>1. ~JobAt("idle")
    BY <1>5 DEF RenameContent, RecordToggle, RenameBack, JobAt
  <2>2. (\E verdict : job' = Answer(verdict)) \/ (\E phase : To(phase))
    BY <1>5 DEF RenameContent, RecordToggle, RenameBack, Fail
  <2> QED
    BY <1>0, <2>1, <2>2, GoesToAnEnd, GoesOnTo
<1>6. CASE CancelPack \/ WriteRows \/ RunChanges
  BY <1>6, GoesOnAsItIs DEF CancelPack, WriteRows, RunChanges, contentVars
<1>7. CASE Finish
  <2>1. ~JobAt("idle")
    BY <1>7 DEF Finish, JobAt
  <2>2. CASE job' = [Answer("ok") EXCEPT !.stack = job.stack]
    BY <1>0, <2>2, GoesToAnEnd
  <2>3. CASE \/ job' = [job EXCEPT !.at = "resolving", !.stack = Tail(@)]
             \/ job' = [job EXCEPT !.at = "selecting", !.stack = <<>>]
    BY <1>0, <2>1, <2>3 DEF JobFields, GoesOn
  <2> QED
    BY <1>7, <2>2, <2>3 DEF Finish
<1> QED
  BY <1>1, <1>2, <1>3, <1>4, <1>5, <1>6, <1>7 DEF ContentStep

PlacesStay == \A b \in Builds : place'[b] = "nowhere" => place[b] = "nowhere" \/ (Clears /\ b = b0)

LEMMA PlacedStay ==
  ASSUME LibraryInv, NEW b \in Builds, NEW where, where # "nowhere",
         UNCHANGED place \/ place' = [place EXCEPT ![b] = where]
  PROVE  PlacesStay
BY DEF LibraryInv, Shape, DiskShape, PlacesStay

LEMMA UnplacedStay == UNCHANGED place => PlacesStay
BY DEF PlacesStay

LEMMA LibraryFollows ==
  ASSUME LibraryInv, LibraryStep
  PROVE  GoesOn /\ PlacesStay
<1>0. Shape /\ JobShape /\ DOMAIN job = JobFields
  BY DEF LibraryInv, Shape, JobShape
<1>1. CASE ContentStep /\ UNCHANGED shelfVars
  BY <1>1, ContentGoesOn, UnplacedStay DEF shelfVars
<1>2. CASE RegisterProfile \/ RegisterForge \/ FinishForge
  <2>1. JobAt("preparing") \/ JobAt("forging")
    BY <1>2 DEF RegisterProfile, RegisterForge, FinishForge
  <2>2. UNCHANGED place /\ (job' = Prepared \/ UNCHANGED job)
    BY <1>2 DEF RegisterProfile, RegisterForge, FinishForge
  <2>3. CASE job' = Prepared
    BY <2>1, <2>2, <2>3, PreparedGoesOn, UnplacedStay DEF GoesOn, JobAt
  <2> QED
    BY <2>2, <2>3, GoesOnAsItIs, UnplacedStay
<1>3. CASE RunForgeInstaller \/ ForgeFails \/ NewPackFails
  <2>1. ~JobAt("idle") /\ UNCHANGED place /\ (\E phase : To(phase))
    BY <1>3 DEF RunForgeInstaller, ForgeFails, NewPackFails, JobAt, shelfVars
  <2> QED
    BY <1>0, <2>1, GoesOnTo, UnplacedStay
<1>4. CASE ForgeChanges \/ CommitPack
  <2>1. UNCHANGED <<job, place>>
    BY <1>4 DEF ForgeChanges, CommitPack, contentVars, shelfVars
  <2> QED
    BY <2>1, GoesOnAsItIs, UnplacedStay
<1>5. CASE FailPreparation
  <2>1. job' = Answer("failed") /\ JobAt("failing")
        /\ UNCHANGED <<version, enabled, listed, tx>>
    BY <1>5 DEF FailPreparation, Fail, rowVars
  <2>2. UNCHANGED place \/ (NewPack /\ RemoveDirectory(b0))
    BY <1>5 DEF FailPreparation, RemovesDirectory
  <2>3. CASE NewPack /\ RemoveDirectory(b0)
    <3>1. Clears
      BY <2>1, <2>3 DEF Clears, Fail
    <3>2. PICK b : b = b0
      OBVIOUS
    <3>3. place' = [place EXCEPT ![b] = "nowhere"]
      BY <2>3, <3>2 DEF RemoveDirectory
    <3>4. PlacesStay
      BY <1>0, <3>1, <3>2, <3>3 DEF PlacesStay, Shape, DiskShape
    <3> QED
      BY <1>0, <2>1, <3>4, GoesToAnEnd
  <2> QED
    BY <1>0, <2>1, <2>2, <2>3, GoesToAnEnd, UnplacedStay
<1>6. CASE InsertBuild \/ FinishSelecting \/ EndCopy \/ DeleteRows \/ CopySource \/ CopyRow
           \/ StagePackHere
  <2>1. ~JobAt("idle") /\ UNCHANGED place
    BY <1>6 DEF InsertBuild, FinishSelecting, EndCopy, DeleteRows, CopySource, CopyRow,
                StagePackHere, StagePack, JobAt, shelfVars
  <2>2. \/ (\E verdict : job' = Answer(verdict)) \/ (\E phase : To(phase)) \/ UNCHANGED job
        \/ \E commit : job' = [job EXCEPT !.at = "changing", !.commit = commit]
    BY <1>6 DEF InsertBuild, FinishSelecting, EndCopy, DeleteRows, CopySource, CopyRow,
                StagePackHere, StagePack, Fail
  <2>3. CASE \E commit : job' = [job EXCEPT !.at = "changing", !.commit = commit]
    BY <1>0, <2>1, <2>3, UnplacedStay DEF JobFields, GoesOn
  <2> QED
    BY <1>0, <2>1, <2>2, <2>3, GoesToAnEnd, GoesOnTo, GoesOnAsItIs, UnplacedStay
<1>7. CASE CopyFiles \/ MoveToTrash \/ MoveBack
  <2>1. ~JobAt("idle") /\ b0 \in Builds
    BY <1>7 DEF CopyFiles, MoveToTrash, MoveBack, JobAt, LibraryInv, PhaseInv
  <2>2. PICK b \in Builds : b = b0
    BY <2>1
  <2>3. \/ UNCHANGED place
        \/ \E where \in {"instances", "trash", "lost"} : place' = [place EXCEPT ![b] = where]
        \/ place' = [place EXCEPT ![b] = place[b]]
    BY <1>7, <2>2 DEF CopyFiles, MoveToTrash, MoveBack, MakeDirectory
  <2>4. PlacesStay
    <3>1. CASE place' = [place EXCEPT ![b] = place[b]]
      BY <1>0, <3>1 DEF PlacesStay, Shape, DiskShape
    <3>2. CASE \E where \in {"instances", "trash", "lost"} : place' = [place EXCEPT ![b] = where]
      BY <3>2, PlacedStay
    <3> QED
      BY <2>3, <3>1, <3>2, UnplacedStay
  <2>5. (\E verdict : job' = Answer(verdict)) \/ (\E phase : To(phase))
    BY <1>7 DEF CopyFiles, MoveToTrash, MoveBack, Fail
  <2> QED
    BY <1>0, <2>1, <2>4, <2>5, GoesToAnEnd, GoesOnTo
<1>8. CASE InsertCopy
  <2>1. JobAt("insertingCopy") /\ ~JobAt("idle") /\ UNCHANGED <<version, enabled, tx>>
    BY <1>8 DEF InsertCopy, JobAt
  <2>2. CASE To("copyingRows") /\ UNCHANGED place
    BY <1>0, <2>1, <2>2, GoesOnTo, UnplacedStay
  <2>3. CASE Fail /\ RemoveDirectory(b0) /\ UNCHANGED listed
    <3>1. Clears
      BY <2>1, <2>3 DEF Clears
    <3>2. PICK b : b = b0
      OBVIOUS
    <3>3. place' = [place EXCEPT ![b] = "nowhere"]
      BY <2>3, <3>2 DEF RemoveDirectory
    <3>4. PlacesStay
      BY <1>0, <3>1, <3>2, <3>3 DEF PlacesStay, Shape, DiskShape
    <3> QED
      BY <1>0, <2>3, <3>4, GoesToAnEnd DEF Fail
  <2>4. CASE Fail /\ UNCHANGED place
    BY <1>0, <2>4, GoesToAnEnd, UnplacedStay DEF Fail
  <2> QED
    BY <1>8, <2>2, <2>3, <2>4 DEF InsertCopy
<1> QED
  BY <1>1, <1>2, <1>3, <1>4, <1>5, <1>6, <1>7, <1>8 DEF LibraryStep

LEMMA FollowsOn ==
  ASSUME LibraryInv, LibraryNext
  PROVE  Follows
<1>0. Shape /\ JobShape
  BY DEF LibraryInv, Shape
<1> SUFFICES (GoesOn \/ StartsAnew) /\ PlacesStay
  BY DEF Follows, PlacesStay
<1>1. CASE LibraryStep
  BY <1>1, LibraryFollows
<1>2. CASE PreparationFails
  <2>1. ~JobAt("idle") /\ To("failing") /\ UNCHANGED place
    BY <1>2 DEF PreparationFails, JobAt, shelfVars
  <2> QED
    BY <1>0, <2>1, GoesOnTo, UnplacedStay
<1>3. CASE PreviewPack
  BY <1>3, GoesOnAsItIs, UnplacedStay DEF PreviewPack, contentVars
<1>4. CASE EndProcess
  BY <1>0, <1>4, GoesToAnEnd, UnplacedStay DEF EndProcess
<1>5. ASSUME NEW b \in Builds,
             \/ InstallProject(b) \/ RemoveContent(b) \/ ImportLocal(b) \/ Toggle(b)
             \/ InstallPack(b) \/ CreateBuild(b) \/ InstallNewPack(b) \/ ConfirmPack(b)
             \/ CopyBuild(b) \/ SelectBuild(b) \/ DeleteBuild(b)
      PROVE  GoesOn \/ StartsAnew
  <2>1. JobAt("idle") /\ Calls(b)
    BY <1>5, CallsStart
  <2>2. CASE job' = Answer("expired")
    BY <1>0, <2>2, GoesToAnEnd
  <2>3. CASE \E op, at : StartsAs(op, b, at) /\ (op \in Creations => place[b] = "nowhere")
    BY <2>1, <2>3, StartsAsSuch DEF StartsAnew
  <2> QED
    BY <2>1, <2>2, <2>3 DEF Calls
<1>6. ASSUME NEW b \in Builds, RepairBuild(b)
      PROVE  GoesOn \/ StartsAnew
  BY <1>6, RepairCalls DEF StartsAnew, Creations
<1>7. ASSUME NEW b \in Builds, CreateBuild(b) \/ InstallNewPack(b) \/ ConfirmPack(b)
      PROVE  PlacesStay
  <2>1. UNCHANGED place \/ place' = [place EXCEPT ![b] = "instances"]
    BY <1>7 DEF CreateBuild, InstallNewPack, ConfirmPack, MakeDirectory
  <2> QED
    BY <2>1, PlacedStay
<1>8. ASSUME NEW b \in Builds, CopyBuild(b) \/ SelectBuild(b) \/ DeleteBuild(b)
      PROVE  PlacesStay
  BY <1>8, UnplacedStay DEF CopyBuild, SelectBuild, DeleteBuild, shelfVars
<1>9. ASSUME NEW b \in Builds, EditConfig(b) \/ TakeFile(b)
      PROVE  GoesOn
  BY <1>0, <1>9, GoesOnAsItIs, GoesToAnEnd DEF EditConfig, TakeFile, contentVars
<1>10. UNCHANGED shelfVars => PlacesStay
  BY UnplacedStay DEF shelfVars
<1> QED
  BY <1>1, <1>2, <1>3, <1>4, <1>5, <1>6, <1>7, <1>8, <1>9, <1>10 DEF LibraryNext, ContentCall
-----------------------------------------------------------------------------
(* Builds that come into sight.                                            *)
LEMMA NewlyListed ==
  ASSUME LibraryInv, StepKind, NEW b \in Builds, b \in listed', b \notin listed
  PROVE  /\ b = b0 /\ place[b] = "instances"
         /\ Inserts \/ CommitsPack
         /\ JobAt("insertingCopy") \/ job.op \in Creations
<1>1. Inserts \/ CommitsPack
  BY DEF StepKind, RowStep, Rests, FailsToRecord, EndsCopy, Begins, Works, TurnsBack, Closes,
         Renames, RenamesBack, Switches, CopiesRow, WritesRows, Deletes, CopiesFiles, Clears,
         Edits, TakesAway, EndsProcess
<1>2. b = b0
  BY <1>1 DEF Inserts, CommitsPack
<1>3. /\ job.at \in {"inserting", "insertingCopy", "changing"}
      /\ JobAt("insertingCopy") => Inserts
  BY <1>1 DEF Inserts, CommitsPack, Commits, JobAt
<1>4. place[b] = "instances"
  BY <1>2, <1>3 DEF LibraryInv, ShelfInv, NextInv
<1>5. JobAt("insertingCopy") \/ job.op \in Creations
  BY <1>1, <1>2, <1>3 DEF LibraryInv, PhaseInv, JobAt, OnListed, OfPacks, Creations,
       Inserts, CommitsPack
<1> QED
  BY <1>1, <1>2, <1>4, <1>5

LEMMA NoDirectoryNoRow ==
  ASSUME LibraryInv, MatchInv, StepKind, Follows, listed' \subseteq Builds
  PROVE  \A b \in listed' : place'[b] # "nowhere"
<1> SUFFICES ASSUME NEW b \in Builds, b \in listed', place'[b] = "nowhere" PROVE FALSE
  OBVIOUS
<1>1. CASE b \in listed
  <2>1. Clears /\ b = b0
    BY <1>1 DEF Follows, MatchInv
  <2>2. job.at \in {"failing", "insertingCopy"} /\ (JobAt("failing") => NewPack)
    BY <2>1 DEF Clears, JobAt
  <2>3. b \notin listed
    BY <2>1, <2>2 DEF LibraryInv, PhaseInv, ShelfInv, NextInv, TxInv, JobAt, TxAt
  <2> QED
    BY <1>1, <2>3
<1>2. CASE b \notin listed
  <2>1. Inserts \/ CommitsPack
    BY <1>2, NewlyListed
  <2>2. ~Clears
    BY <1>2, <2>1 DEF Inserts, CommitsPack, Clears
  <2>3. place[b] = "instances"
    BY <1>2, NewlyListed
  <2> QED
    BY <2>2, <2>3 DEF Follows
<1> QED
  BY <1>1, <1>2

LeavesCopy(b) == JobAt("copyingRows") /\ b = b0 /\ job'.at # "copyingRows"

LEMMA SeenBefore ==
  ASSUME LibraryInv, StepKind, Follows, NEW b \in Builds, Visible(b)', ~Disturbed(b)'
  PROVE  Visible(b) \/ (Clears /\ b = b0) \/ LeavesCopy(b)
<1>1. CASE b \in listed' /\ ~(job'.at = "copyingRows" /\ b = job'.build)
  <2>1. CASE b \in listed
    <3>1. CASE JobAt("copyingRows") /\ b = b0
      <4>1. GoesOn
        BY <3>1 DEF Follows, StartsAnew, JobAt
      <4> QED
        BY <1>1, <3>1, <4>1 DEF GoesOn, LeavesCopy, b0
    <3> QED
      BY <2>1, <3>1 DEF Visible
  <2>2. CASE b \notin listed
    <3>1. b = b0 /\ (Inserts \/ CommitsPack) /\ (JobAt("insertingCopy") \/ job.op \in Creations)
      BY <1>1, <2>2, NewlyListed
    <3>2. ~JobAt("idle")
      BY <3>1 DEF Inserts, CommitsPack, Commits, JobAt
    <3>3. ~JobAt("insertingCopy")
      <4> SUFFICES ASSUME JobAt("insertingCopy") PROVE FALSE
        OBVIOUS
      <4>1. To("copyingRows")
        <5>1. ~(torn' = [torn EXCEPT ![b0] = TRUE])
          BY <3>1 DEF LibraryInv, Shape, DiskShape, Disturbed
        <5> QED
          BY <3>1, <5>1 DEF Inserts, CommitsPack, Commits, JobAt
      <4>2. job'.at = "copyingRows" /\ job'.build = job.build
        BY <4>1, MovesOn DEF LibraryInv, Shape
      <4> QED
        BY <1>1, <3>1, <4>2 DEF b0
    <3> QED
      BY <3>1, <3>2, <3>3 DEF Visible
  <2> QED
    BY <2>1, <2>2
<1>2. CASE place'[b] = "nowhere"
  BY <1>2 DEF Follows, Visible
<1>3. CASE job'.at # "idle" /\ job'.op \in Creations /\ b = job'.build
  BY <1>3 DEF Follows, GoesOn, StartsAnew, Visible, b0
<1> QED
  BY <1>1, <1>2, <1>3 DEF Visible, JobAt, b0

(* Files and rows that do not change agree as before.                      *)
SameOf(b) ==
  /\ version'[b] = version[b] /\ enabled'[b] = enabled[b]
  /\ \A path \in ContentPaths : Had(b, path)' <=> Had(b, path)
Agreed(b) == Visible(b) /\ ~Disturbed(b)

LEMMA AgreesAsBefore ==
  ASSUME MatchInv, NEW b \in Builds, Agreed(b), SameOf(b),
         ~(Moved /\ b = b0), ~(Moved' /\ b = job'.build)
  PROVE  Agrees(b)'
<1>1. Agrees(b)
  BY DEF MatchInv, Agreed
<1>2. Contained(b)' = Contained(b)
  BY DEF Contained, SameOf
<1>3. RowPathsOf(b)' = RowPathsOf(b)
  BY DEF RowPathsOf, Installed, RowPath, SameOf
<1>4. Contained(b) = RowPathsOf(b)
  BY <1>1 DEF Agrees
<1> QED
  BY <1>2, <1>3, <1>4 DEF Agrees, b0
-----------------------------------------------------------------------------
(* What each kind of step does to a build that is in sight.                *)
Calmer(b) == ~Disturbed(b)' => ~Disturbed(b)

LEMMA CalmBefore ==
  ASSUME LibraryInv, NEW b \in Builds, TearsAtMost \/ UNCHANGED torn, UNCHANGED excused
  PROVE  Calmer(b)
BY DEF TearsAtMost, Calmer, Disturbed

LEMMA SameAtRest ==
  ASSUME UNCHANGED <<version, enabled, disk>>, ~Underway, ~Underway', NEW b \in Builds
  PROVE  SameOf(b)
BY DEF SameOf, Had, Has

LEMMA RestsAgree ==
  ASSUME LibraryInv, ContentInv, MatchInv, Rests, NEW b \in Builds, Visible(b),
         ~Disturbed(b)'
  PROVE  Agrees(b)'
<1>1. Agreed(b)
  BY CalmBefore DEF Rests, SameRows, Calmer, Agreed
<1>2. CASE UNCHANGED <<job, torn>>
  <2>1. Agrees(b)
    BY <1>1 DEF MatchInv, Agreed
  <2>2. UNCHANGED <<version, enabled, disk, tx, job>>
    BY <1>2 DEF Rests, SameRows, SameFiles
  <2> QED
    BY <2>1, <2>2 DEF Agrees, Contained, Had, Has, Underway, SavedAt, RowPathsOf, Installed,
                      RowPath, Moved, OldPath, NewPath, Toggled, b0
<1>3. CASE /\ tx.at = "none" /\ job'.at \notin Close
           /\ job.at \in {"recording", "renamingBack", "copyingRows"} => torn'[b0]
  <2>1. ~(Moved /\ b = b0)
    BY <1>3 DEF Moved, Disturbed
  <2>2. ~Moved'
    BY <1>3 DEF Moved, Close
  <2>3. SameOf(b)
    BY <1>3, SameAtRest DEF Rests, SameRows, SameFiles, Underway
  <2> QED
    BY <1>1, <2>1, <2>2, <2>3, AgreesAsBefore
<1> QED
  BY <1>2, <1>3 DEF Rests

LEMMA FailsToRecordAgrees ==
  ASSUME LibraryInv, ContentInv, MatchInv, FailsToRecord, NEW b \in Builds, Visible(b),
         ~Disturbed(b)'
  PROVE  Agrees(b)'
<1>1. Agreed(b)
  BY CalmBefore DEF FailsToRecord, SameRows, Calmer, Agreed
<1>2. Agrees(b)
  BY <1>1 DEF MatchInv, Agreed
<1>3. UNCHANGED <<version, enabled, disk, tx>> /\ job.at = "recording"
  BY DEF FailsToRecord, SameRows, SameFiles, JobAt
<1>4. job'.at = "renamingBack" /\ job'.build = job.build /\ job'.commit = job.commit
  BY MovesOn DEF LibraryInv, Shape, FailsToRecord
<1> QED
  BY <1>2, <1>3, <1>4 DEF Agrees, Contained, Had, Has, Underway, SavedAt, RowPathsOf, Installed,
                      RowPath, Moved, OldPath, NewPath, Toggled, b0

LEMMA InsertsAgree ==
  ASSUME LibraryInv, ContentInv, MatchInv, Inserts, NEW b \in Builds, Visible(b),
         ~Disturbed(b)'
  PROVE  Agrees(b)'
<1>1. Agreed(b)
  <2>1. TearsAtMost \/ UNCHANGED torn
    BY DEF Inserts, TearsAtMost, LibraryInv, Shape, DiskShape
  <2> QED
    BY <2>1, CalmBefore DEF Inserts, SameRows, Calmer, Agreed
<1>2. ~Moved /\ tx.at = "none"
  BY DEF Inserts, Moved, JobAt, LibraryInv, TxInv, TxAt
<1>3. ~Moved'
  <2>1. CASE Fail
    <3>1. job' = Answer("failed") /\ JobShape
      BY <2>1 DEF Fail, LibraryInv, Shape
    <3>2. job'.at = "idle"
      BY <3>1, ComesToAnEnd
    <3> QED
      BY <3>2 DEF Moved
  <2>2. CASE To("selecting") \/ To("copyingRows")
    BY <2>2, MovesOn DEF Moved, LibraryInv, Shape
  <2> QED
    BY <2>1, <2>2 DEF Inserts
<1>4. SameOf(b)
  BY <1>2, SameAtRest DEF Inserts, SameRows, SameFiles, Underway
<1> QED
  BY <1>1, <1>2, <1>3, <1>4, AgreesAsBefore

LEMMA BeginsAgree ==
  ASSUME LibraryInv, LibraryInv', ContentInv, MatchInv, Begins, NEW b \in Builds, Visible(b),
         ~Disturbed(b)'
  PROVE  Agrees(b)'
<1>1. Agreed(b)
  BY CalmBefore DEF Begins, SameRows, Calmer, Agreed
<1>2. \E x, changes : BeginChanges(x, changes)
  BY DEF Begins, InstallTop, RemoveContent, ImportLocal, StagePackHere, StagePack,
         RunForgeInstaller
<1>3. tx'.at = "changing" /\ 1..Len(tx'.done) = {}
  BY <1>2, EmptySeq DEF BeginChanges, NoTx
<1>4. ~Moved'
  BY <1>3 DEF LibraryInv, TxInv, TxAt, Moved
<1>5. tx.at = "none" /\ ~Moved
  <2>1. \/ job.at \in {"resolving", "idle", "downloading", "preparing"}
    BY DEF Begins, InstallTop, RemoveContent, ImportLocal, StagePackHere, StagePack,
           RunForgeInstaller, Call, JobAt
  <2> QED
    BY <2>1 DEF Begins, Moved
<1>6. SameOf(b)
  BY <1>3, <1>5 DEF Begins, SameRows, SameFiles, SameOf, Had, Has, Underway, SavedAt
<1> QED
  BY <1>1, <1>4, <1>5, <1>6, AgreesAsBefore

LEMMA InTransactionNotMoved ==
  ASSUME LibraryInv, ~TxAt("none")
  PROVE  ~Moved /\ (UNCHANGED job => ~Moved')
BY DEF LibraryInv, TxInv, Moved

LEMMA WorksAgree ==
  ASSUME LibraryInv, ContentInv, MatchInv, Works, NEW b \in Builds, Visible(b),
         ~Disturbed(b)'
  PROVE  Agrees(b)'
<1>1. ~TxAt("none") /\ SameRows /\ UNCHANGED <<job, listed>>
  BY FilesInTransaction DEF Works
<1>2. PICK x \in Builds : x = tx.build
  BY <1>1, InTransaction
<1>3. Shape /\ TxShape /\ Tidy /\ DOMAIN stray = Builds
  BY DEF LibraryInv, Shape, ContentInv, TidyInv
<1>4. tx'.build = x /\ Touches(x, Paths) /\ TearsAtMost
  BY <1>2, <1>3, WithinAll, FileStepKeeps DEF Works
<1>5. Agreed(b)
  BY <1>1, <1>4, CalmBefore DEF SameRows, Calmer, Agreed
<1>6. \A path \in Paths : Had(b, path)' <=> Had(b, path)
  <2>1. CASE b # x
    BY <1>2, <1>4, <2>1, OthersHave
  <2>2. CASE b = x /\ (SetAside \/ PlaceFile)
    BY <1>2, <1>3, <2>2, SetAsideSpares, PlaceFileSpares DEF Spares
  <2>3. CASE b = x /\ UndoChange
    BY <1>2, <1>3, <2>3, UndoChangeReturns DEF Returns, Disturbed
  <2> QED
    BY <2>1, <2>2, <2>3 DEF Works, FileStep
<1>7. SameOf(b)
  BY <1>1, <1>6, ContentAssumption DEF SameOf, SameRows
<1> QED
  BY <1>1, <1>5, <1>7, InTransactionNotMoved, AgreesAsBefore

LEMMA TurnsBackAgrees ==
  ASSUME LibraryInv, ContentInv, MatchInv, TurnsBack, NEW b \in Builds, Visible(b),
         ~Disturbed(b)'
  PROVE  Agrees(b)'
<1>1. /\ tx.at \in {"changing", "placing"} /\ Undo /\ SameRows
      /\ UNCHANGED <<job, listed, disk, stray, torn>>
  BY DEF TurnsBack, SameFiles
<1>2. ~TxAt("none") /\ TxShape
  BY <1>1 DEF TxAt, LibraryInv, Shape
<1>3. tx'.at = "undoing" /\ tx'.build = tx.build /\ tx'.todo = tx.todo /\ tx'.done = tx.done
  BY <1>1, <1>2, TxMoves DEF Undo
<1>4. Agreed(b)
  BY <1>1, CalmBefore DEF SameRows, Calmer, Agreed
<1>5. SameOf(b)
  BY <1>1, <1>3 DEF SameOf, SameRows, Had, Has, Underway, SavedAt
<1> QED
  BY <1>1, <1>2, <1>4, <1>5, InTransactionNotMoved, AgreesAsBefore

LEMMA ClosesAgree ==
  ASSUME LibraryInv, ContentInv, MatchInv, Closes, NEW b \in Builds, Visible(b),
         ~Disturbed(b)'
  PROVE  Agrees(b)'
<1>1. /\ SameRows /\ UNCHANGED <<disk, torn>> /\ tx' = NoTx /\ job'.at \notin Close
      /\ job.at \in {"changing", "forging"}
  BY DEF Closes, EndChanges, SameFiles, JobAt
<1>2. tx'.at = "none" /\ ~Moved' /\ ~Moved
  BY <1>1 DEF NoTx, Moved, Close
<1>3. Agreed(b)
  BY <1>1, CalmBefore DEF SameRows, Calmer, Agreed
<1>4. ASSUME NEW path \in ContentPaths
      PROVE  Had(b, path)' <=> Had(b, path)
  <2>1. Had(b, path)' <=> Has(b, path)
    BY <1>1, <1>2 DEF Had, Underway, Has
  <2>2. CASE ~Underway
    BY <2>1, <2>2 DEF Had
  <2>3. CASE tx.done = <<>>
    <3>1. 1..Len(tx.done) = {}
      BY <2>3, EmptySeq
    <3> QED
      BY <2>1, <3>1 DEF Had, SavedAt
  <2>4. CASE JobAt("forging")
    <3>1. path \in UserPaths
      BY PathsOfContent
    <3>2. ~SavedAt(path)
      BY <2>4, <3>1 DEF ContentInv, TidyInv, Within, SavedAt
    <3> QED
      BY <2>1, <3>2 DEF Had
  <2> QED
    BY <2>2, <2>3, <2>4 DEF Closes, Undone, TxAt, Underway
<1>5. SameOf(b)
  BY <1>1, <1>4 DEF SameOf, SameRows
<1> QED
  BY <1>2, <1>3, <1>5, AgreesAsBefore

LEMMA EditsAgree ==
  ASSUME LibraryInv, ContentInv, MatchInv, Edits, NEW b \in Builds, Visible(b),
         ~Disturbed(b)'
  PROVE  Agrees(b)'
<1>1. /\ SameRows /\ UNCHANGED <<tx, torn, job>> /\ tx.at = "none" /\ ~Moved /\ ~Moved'
  BY DEF LibraryInv, Edits, JobAt, TxInv, TxAt, Moved
<1>2. \A path \in ContentPaths : disk'[b][path] = disk[b][path]
  <2>1. PICK x \in Builds : disk' = [disk EXCEPT ![x][ConfigPath] = Edited]
    BY DEF Edits
  <2> QED
    BY <2>1, ContentAssumption DEF LibraryInv, Shape, DiskShape
<1>3. SameOf(b)
  BY <1>1, <1>2 DEF SameOf, SameRows, Had, Has, Underway
<1>4. Agreed(b)
  BY <1>1, CalmBefore DEF SameRows, Calmer, Agreed
<1> QED
  BY <1>1, <1>3, <1>4, AgreesAsBefore

LEMMA TakesAwayAgrees ==
  ASSUME LibraryInv, ContentInv, MatchInv, TakesAway, NEW b \in Builds, Visible(b),
         ~Disturbed(b)'
  PROVE  Agrees(b)'
<1>1. /\ UNCHANGED <<version, enabled, tx, torn>> /\ tx.at = "none" /\ ~Moved /\ ~Moved'
      /\ DOMAIN disk = Builds /\ excused \in [Builds -> BOOLEAN]
  BY DEF LibraryInv, Shape, DiskShape, TakesAway, JobAt, TxInv, TxAt, Moved, NoJob
<1>2. PICK x \in Builds, away \in ContentPaths :
        /\ disk' = [disk EXCEPT ![x][away] = Absent]
        /\ excused' = [excused EXCEPT ![x] = TRUE]
  BY DEF TakesAway
<1>3. b # x
  BY <1>1, <1>2 DEF Disturbed
<1>4. disk'[b] = disk[b] /\ excused'[b] = excused[b]
  BY <1>1, <1>2, <1>3
<1>5. SameOf(b)
  BY <1>1, <1>4 DEF SameOf, Had, Has, Underway
<1>6. Agreed(b)
  BY <1>1, <1>4 DEF Disturbed, Agreed
<1> QED
  BY <1>1, <1>5, <1>6, AgreesAsBefore

LEMMA EndsProcessAgrees ==
  ASSUME LibraryInv, ContentInv, MatchInv, EndsProcess, NEW b \in Builds, Visible(b),
         ~Disturbed(b)'
  PROVE  Agrees(b)'
<1> DEFINE half == IF job.at \in {"recording", "renamingBack", "copyingRows", "deletingRow",
                                  "movingBack"} THEN {b0} ELSE {}
<1>1. /\ SameRows /\ UNCHANGED disk /\ job'.at = "idle" /\ tx' = NoTx
      /\ torn' = [x \in Builds |-> torn[x] \/ x \in half
                    \/ (x = tx.build /\ tx.done # <<>> /\ tx.at # "cleaning")]
  BY DEF EndsProcess, AbandonChanges
<1>2. /\ ~torn[b] /\ b \notin half /\ ~(b = tx.build /\ tx.done # <<>> /\ tx.at # "cleaning")
      /\ ~excused[b]
  BY <1>1 DEF Disturbed, SameRows
<1>3. ~(Moved /\ b = b0) /\ ~Moved'
  BY <1>1, <1>2 DEF Moved
<1>4. \A path : Had(b, path)' <=> Had(b, path)
  <2>1. tx.done = <<>> => 1..Len(tx.done) = {}
    BY EmptySeq
  <2> QED
    BY <1>1, <1>2, <2>1 DEF Had, Has, Underway, SavedAt, NoTx
<1>5. SameOf(b)
  BY <1>1, <1>4 DEF SameOf, SameRows
<1>6. Agreed(b)
  BY <1>2 DEF Agreed, Disturbed
<1> QED
  BY <1>3, <1>5, <1>6, AgreesAsBefore
-----------------------------------------------------------------------------
(* Files that change their names.                                          *)
LEMMA MovesFile ==
  ASSUME LibraryInv, NEW b \in Builds, b = b0, NEW from \in Paths, NEW to \in Paths, from # to,
         Move(from, to)
  PROVE  /\ disk'[b][to] = disk[b][from] /\ disk'[b][from] = Absent
         /\ \A path \in Paths \ {from, to} : disk'[b][path] = disk[b][path]
         /\ \A x \in Builds \ {b} : disk'[x] = disk[x]
<1>1. disk \in [Builds -> [Paths -> Contents]]
  BY DEF LibraryInv, Shape, DiskShape
<1> QED
  BY <1>1 DEF Move

LEMMA OthersApart ==
  ASSUME ContentInv, NEW b \in Builds, ~excused[b], NEW p \in Projects, Installed(b, p),
         NEW q \in Projects, Installed(b, q), q # p, NEW on
  PROVE  RowPath(b, q) # Path(RowName(b, p), on)
<1>1. NamesDiffer(version[b])
  BY DEF ContentInv, RowsInv
<1>2. FileName[<<q, version[b][q]>>] # FileName[<<p, version[b][p]>>]
  BY <1>1 DEF NamesDiffer, Installed
<1> QED
  BY <1>2 DEF RowPath, ProjectPath, RowName, Path

LEMMA MovesContained ==
  ASSUME LibraryInv, NEW b \in Builds, b = b0, NEW from \in ContentPaths, NEW to \in ContentPaths,
         from # to, Move(from, to), Has(b, from), tx.at = "none", UNCHANGED tx
  PROVE  Contained(b)' = (Contained(b) \ {from}) \cup {to}
<1>1. ContentPaths \subseteq Paths
  BY ContentAssumption
<1>2. /\ disk'[b][to] = disk[b][from] /\ disk'[b][from] = Absent
      /\ \A path \in Paths \ {from, to} : disk'[b][path] = disk[b][path]
  BY <1>1, MovesFile
<1>3. \A path \in ContentPaths :
        /\ Had(b, path)' <=> disk'[b][path] # Absent
        /\ Had(b, path) <=> disk[b][path] # Absent
  BY DEF Had, Underway, Has
<1> QED
  BY <1>1, <1>2, <1>3 DEF Contained, Has

LEMMA OthersStay ==
  ASSUME LibraryInv, MatchInv, NEW b \in Builds, b # b0, Agreed(b), tx.at = "none",
         UNCHANGED tx, job'.at = "idle" \/ job'.build = job.build,
         version'[b] = version[b], enabled'[b] = enabled[b], disk'[b] = disk[b]
  PROVE  Agrees(b)'
<1>1. SameOf(b)
  BY DEF SameOf, Had, Has, Underway
<1>2. ~(Moved' /\ b = job'.build)
  BY DEF Moved, b0
<1> QED
  BY <1>1, <1>2, AgreesAsBefore

LEMMA RenamesAgree ==
  ASSUME LibraryInv, ContentInv, MatchInv, Renames, NEW b \in Builds, Visible(b),
         ~Disturbed(b)'
  PROVE  Agrees(b)'
<1>1. /\ SameRows /\ UNCHANGED <<version, enabled, tx, listed, torn>> /\ tx.at = "none"
      /\ Switching /\ job.at = "renaming"
      /\ ~Has(b0, NewPath) /\ Has(b0, OldPath) /\ Move(OldPath, NewPath)
      /\ OldPath \in ContentPaths /\ NewPath \in ContentPaths /\ b0 \in Builds
  BY Switched DEF Renames, SameRows, Switching, JobAt
<1>2. Agreed(b)
  BY <1>1, CalmBefore DEF SameRows, Calmer, Agreed
<1>3. job'.at = "recording" /\ job'.build = job.build /\ job'.commit = job.commit
  BY MovesOn DEF Renames, LibraryInv, Shape
<1>4. PICK x \in Builds, from \in ContentPaths, to \in ContentPaths :
        x = b0 /\ from = OldPath /\ to = NewPath
  BY <1>1
<1>5. from # to /\ Move(from, to) /\ Has(x, from)
  BY <1>1, <1>4
<1>6. CASE b # b0
  <2>1. disk'[b] = disk[b]
    BY <1>4, <1>5, <1>6, MovesFile, ContentAssumption
  <2> QED
    BY <1>1, <1>2, <1>3, <1>6, <2>1, OthersStay
<1>7. CASE b = b0
  <2>1. Contained(b) = RowPathsOf(b)
    BY <1>1, <1>2 DEF MatchInv, Agreed, Agrees, Moved
  <2>2. Contained(b)' = (Contained(b) \ {from}) \cup {to}
    BY <1>1, <1>4, <1>5, <1>7, MovesContained
  <2>3. RowPathsOf(b)' = RowPathsOf(b)
    BY <1>1 DEF RowPathsOf, Installed, RowPath
  <2>4. OldPath' = from /\ NewPath' = to
    BY <1>1, <1>3, <1>4 DEF OldPath, NewPath, Toggled, RowPath, b0
  <2>5. Moved' /\ b = b0'
    BY <1>3, <1>7 DEF Moved, b0
  <2> QED
    BY <2>1, <2>2, <2>3, <2>4, <2>5 DEF Agrees
<1> QED
  BY <1>6, <1>7

LEMMA RenamesBackAgree ==
  ASSUME LibraryInv, ContentInv, MatchInv, RenamesBack, NEW b \in Builds, Visible(b),
         ~Disturbed(b)'
  PROVE  Agrees(b)'
<1>1. /\ SameRows /\ UNCHANGED <<version, enabled, tx, listed, torn>> /\ tx.at = "none"
      /\ Switching /\ job.at = "renamingBack" /\ Moved
      /\ Has(b0, NewPath) /\ ~Has(b0, OldPath) /\ Move(NewPath, OldPath)
      /\ OldPath \in ContentPaths /\ NewPath \in ContentPaths /\ b0 \in Builds
  BY Switched DEF RenamesBack, SameRows, Switching, JobAt, ContentInv, MovedInv, Moved
<1>2. Agreed(b)
  BY <1>1, CalmBefore DEF SameRows, Calmer, Agreed
<1>3. job'.at = "idle"
  BY ComesToAnEnd DEF RenamesBack, Fail, LibraryInv, Shape
<1>4. PICK x \in Builds, old \in ContentPaths, new \in ContentPaths :
        x = b0 /\ old = OldPath /\ new = NewPath
  BY <1>1
<1>5. old # new /\ Move(new, old) /\ Has(x, new)
  BY <1>1, <1>4
<1>6. CASE b # b0
  <2>1. disk'[b] = disk[b]
    BY <1>4, <1>5, <1>6, MovesFile, ContentAssumption
  <2> QED
    BY <1>1, <1>2, <1>3, <1>6, <2>1, OthersStay
<1>7. CASE b = b0
  <2>1. Contained(b) = (RowPathsOf(b) \ {old}) \cup {new}
    BY <1>1, <1>2, <1>4, <1>7 DEF MatchInv, Agreed, Agrees
  <2>2. Contained(b)' = (Contained(b) \ {new}) \cup {old}
    BY <1>1, <1>4, <1>5, <1>7, MovesContained
  <2>3. RowPathsOf(b)' = RowPathsOf(b)
    BY <1>1 DEF RowPathsOf, Installed, RowPath
  <2>4. old \in RowPathsOf(b) /\ new \notin RowPathsOf(b)
    <3>1. PICK y \in Builds, p \in Projects, on \in BOOLEAN :
             /\ y = b0 /\ Installed(y, p)
             /\ OldPath = Path(RowName(y, p), enabled[y][p])
             /\ NewPath = Path(RowName(y, p), on)
      BY <1>1, SwitchedPaths
    <3>2. old = RowPath(b, p) /\ Installed(b, p)
      BY <1>4, <1>7, <3>1 DEF RowPath, ProjectPath, RowName
    <3>3. ~excused[b]
      BY <1>2 DEF Agreed, Disturbed
    <3>4. \A q \in Projects : Installed(b, q) /\ q # p => RowPath(b, q) # new
      BY <1>4, <1>7, <3>1, <3>3, OthersApart
    <3> QED
      BY <1>5, <3>2, <3>4 DEF RowPathsOf
  <2>5. ~Moved'
    BY <1>3 DEF Moved
  <2> QED
    BY <1>5, <2>1, <2>2, <2>3, <2>4, <2>5 DEF Agrees
<1> QED
  BY <1>6, <1>7

LEMMA SwitchesAgree ==
  ASSUME LibraryInv, LibraryInv', ContentInv, MatchInv, Switches, NEW b \in Builds, Visible(b),
         ~Disturbed(b)'
  PROVE  Agrees(b)'
<1>1. /\ UNCHANGED <<excused, tx, listed, torn, disk>> /\ tx.at = "none" /\ Shape /\ RowShape
      /\ Switching /\ Moved /\ job'.at \in {"idle", "resolving"} /\ Record(b0, job.commit)
      /\ OldPath \in ContentPaths /\ NewPath \in ContentPaths /\ b0 \in Builds
  BY Switched DEF Switches, SameFiles, Switching, JobAt, Moved, Shape
<1>2. Agreed(b)
  BY <1>1, CalmBefore DEF Calmer, Agreed
<1>3. ~Moved'
  BY <1>1 DEF Moved
<1>4. PICK x \in Builds, p \in Projects, on \in BOOLEAN :
         /\ x = b0 /\ Installed(x, p) /\ job.commit = {<<p, version[x][p], on>>}
         /\ OldPath = Path(RowName(x, p), enabled[x][p])
         /\ NewPath = Path(RowName(x, p), on)
  BY <1>1, SwitchedPaths
<1> DEFINE c == <<p, version[x][p], on>>
<1>5. c[1] = p /\ c[3] = on
  OBVIOUS
<1>6. Record(x, {c})
  BY <1>1, <1>4
<1>7. UNCHANGED version
  BY <1>1, <1>6, RecordsSame
<1> HIDE DEF c
<1>8. /\ \A q \in Projects : q # p => enabled'[x][q] = enabled[x][q]
      /\ enabled'[x][p] = on
      /\ \A y \in Builds : y # x => enabled'[y] = enabled[y]
  <2>0. PICK rows : rows = {c}
    OBVIOUS
  <2>1. \A q : HasRow(rows, q) <=> q = p
    BY <1>5, <2>0 DEF HasRow
  <2>2. /\ \A q \in Projects : ~HasRow(rows, q) =>
              version'[x][q] = version[x][q] /\ enabled'[x][q] = enabled[x][q]
        /\ \A q \in Projects : HasRow(rows, q) => \E d \in rows :
              d[1] = q /\ version'[x][q] = d[2] /\ enabled'[x][q] = d[3]
        /\ \A y \in Builds : y # x => version'[y] = version[y] /\ enabled'[y] = enabled[y]
    <3>1. Record(x, rows) /\ RowShape
      BY <1>1, <1>6, <2>0
    <3> QED
      BY <3>1, RecordsRows
  <2>3. \E d \in {c} : enabled'[x][p] = d[3]
    BY <2>0, <2>1, <2>2
  <2>4. enabled'[x][p] = c[3]
    BY <2>3
  <2> QED
    BY <1>5, <2>1, <2>2, <2>4
<1>9. CASE b # b0
  <2>1. SameOf(b)
    BY <1>1, <1>4, <1>7, <1>8, <1>9 DEF SameOf, Had, Has, Underway
  <2> QED
    BY <1>2, <1>3, <1>9, <2>1, AgreesAsBefore
<1>10. CASE b = b0
  <2>1. PICK old \in ContentPaths, new \in ContentPaths : old = OldPath /\ new = NewPath
    BY <1>1
  <2>2. Contained(b) = (RowPathsOf(b) \ {old}) \cup {new}
    BY <1>1, <1>2, <1>10, <2>1 DEF MatchInv, Agreed, Agrees
  <2>3. Contained(b)' = Contained(b)
    BY <1>1 DEF Contained, Had, Has, Underway
  <2>4. \A q \in Projects : (Installed(b, q)' <=> Installed(b, q))
          /\ RowPath(b, q)' = IF q = p THEN new ELSE RowPath(b, q)
    BY <1>4, <1>7, <1>8, <1>10, <2>1 DEF Installed, RowPath, ProjectPath, RowName
  <2>5. RowPath(b, p) = old /\ Installed(b, p)
    BY <1>4, <1>10, <2>1 DEF RowPath, ProjectPath, RowName
  <2>6. \A q \in Projects : Installed(b, q) /\ q # p => RowPath(b, q) # old
    <3>1. ~excused[b]
      BY <1>2 DEF Agreed, Disturbed
    <3> QED
      BY <1>4, <1>10, <2>1, <3>1, OthersApart
  <2>7. RowPathsOf(b)' = (RowPathsOf(b) \ {old}) \cup {new}
    BY <2>4, <2>5, <2>6 DEF RowPathsOf
  <2> QED
    BY <1>3, <2>2, <2>3, <2>7 DEF Agrees
<1> QED
  BY <1>9, <1>10
-----------------------------------------------------------------------------
(* Copies, and builds that go.                                             *)
LEMMA UnseenCopy ==
  ASSUME LibraryInv, MatchInv, NEW b \in Builds, Visible(b),
         job.at \in {"copying", "insertingCopy", "copyingRows"}, b0 \in listed \/ place[b0] # "nowhere"
  PROVE  b # b0 \/ ~JobAt("copyingRows")
BY DEF LibraryInv, PhaseInv, MatchInv, Visible, JobAt, Creations

LEMMA CopiesRowAgrees ==
  ASSUME LibraryInv, ContentInv, MatchInv, CopiesRow, NEW b \in Builds, Visible(b),
         ~Disturbed(b)'
  PROVE  Agrees(b)'
<1>1. /\ UNCHANGED <<excused, tx, torn, job, disk>> /\ tx.at = "none"
      /\ job.at = "copyingRows" /\ b0 \in listed /\ b0 \in Builds /\ RowShape
      /\ \E p \in Missing : Record(b0, {<<p, version[job.from][p], enabled[job.from][p]>>})
  BY Copying DEF CopiesRow, SameFiles, JobAt, ContentInv, CopyInv, LibraryInv, Shape
<1>2. b # b0
  BY <1>1, UnseenCopy DEF JobAt
<1>3. Agreed(b)
  BY <1>1, CalmBefore DEF Calmer, Agreed
<1>4. PICK rows : Record(b0, rows)
  BY <1>1
<1>5. version'[b] = version[b] /\ enabled'[b] = enabled[b]
  BY <1>1, <1>2, <1>4, RecordsRows
<1> QED
  BY <1>1, <1>2, <1>3, <1>5, OthersStay

LEMMA EndsCopyAgrees ==
  ASSUME LibraryInv, ContentInv, MatchInv, EndsCopy, NEW b \in Builds,
         Visible(b) \/ LeavesCopy(b), ~Disturbed(b)'
  PROVE  Agrees(b)'
<1>1. /\ UNCHANGED <<version, enabled, excused, tx, torn, disk>> /\ tx.at = "none"
      /\ job.at = "copyingRows" /\ Missing = {} /\ CopyInv /\ job.from \in Builds
  BY Copying DEF EndsCopy, SameRows, SameFiles, JobAt, ContentInv
<1>2. job'.at = "idle" /\ ~Moved' /\ ~Moved
  BY <1>1, ComesToAnEnd DEF EndsCopy, LibraryInv, Shape, Moved
<1>3. ~Disturbed(b)
  BY <1>1, CalmBefore DEF Calmer
<1>4. CASE b # b0
  <2>1. Visible(b)
    BY <1>4 DEF LeavesCopy
  <2> QED
    BY <1>1, <1>2, <1>3, <1>4, <2>1, OthersStay DEF Agreed
<1>5. CASE b = b0
  <2>1. PICK from \in Builds : from = job.from
    BY <1>1
  <2>2. /\ from \in listed /\ from # b0 /\ disk[b] = disk[from]
        /\ torn[b] = torn[from] /\ excused[b] = excused[from]
        /\ \A p \in Projects : version[b][p] = version[from][p]
        /\ \A p \in Projects : Installed(b, p) => enabled[b][p] = enabled[from][p]
    BY <1>1, <1>5, <2>1 DEF CopyInv, JobAt, Missing
  <2>3. Agreed(from)
    BY <1>3, <2>2 DEF Agreed, Visible, Disturbed
  <2>4. Contained(from) = RowPathsOf(from)
    BY <1>2, <2>3 DEF MatchInv, Agreed, Agrees
  <2>5. Contained(b)' = Contained(from)
    BY <1>1, <2>2 DEF Contained, Had, Has, Underway
  <2>6. \A p \in Projects : (Installed(b, p)' <=> Installed(from, p))
                            /\ (Installed(from, p) => RowPath(b, p)' = RowPath(from, p))
    BY <1>1, <2>2 DEF Installed, RowPath
  <2>7. RowPathsOf(b)' = RowPathsOf(from)
    BY <2>6 DEF RowPathsOf
  <2> QED
    BY <1>2, <2>4, <2>5, <2>7 DEF Agrees
<1> QED
  BY <1>4, <1>5

LEMMA DeletesAgree ==
  ASSUME LibraryInv, ContentInv, MatchInv, Follows, Deletes, NEW b \in Builds, Visible(b),
         Visible(b)', ~Disturbed(b)'
  PROVE  Agrees(b)'
<1>1. /\ Shape /\ b0 \in Builds /\ b0 \in listed /\ UNCHANGED <<excused, tx, disk, torn>>
      /\ job.at = "deletingRow" /\ tx.at = "none" /\ listed' = listed \ {b0}
      /\ version' = [version EXCEPT ![b0] = [p \in Projects |-> 0]]
      /\ enabled' = [enabled EXCEPT ![b0] = [p \in Projects |-> TRUE]]
  BY Deleting DEF Deletes, SameFiles, JobAt
<1>2. job'.at = "idle" /\ ~Moved /\ ~Moved'
  BY <1>1, ComesToAnEnd DEF Deletes, Shape, Moved
<1>3. b # b0
  <2> SUFFICES ASSUME b = b0 PROVE FALSE
    OBVIOUS
  <2>1. place'[b] = "nowhere"
    BY <1>1, <1>2 DEF Visible, JobAt
  <2>2. ~Clears
    BY <1>1 DEF Clears, JobAt
  <2> QED
    BY <1>1, <2>1, <2>2 DEF Follows, MatchInv
<1>4. version'[b] = version[b] /\ enabled'[b] = enabled[b]
  BY <1>1, <1>3 DEF Shape, RowShape
<1>5. Agreed(b)
  BY <1>1, CalmBefore DEF Calmer, Agreed
<1>6. disk'[b] = disk[b]
  BY <1>1
<1> QED
  BY <1>1, <1>2, <1>3, <1>4, <1>5, <1>6, OthersStay

LEMMA CopiesFilesAgree ==
  ASSUME LibraryInv, LibraryInv', ContentInv, MatchInv, CopiesFiles, NEW b \in Builds,
         Visible(b), Visible(b)', ~Disturbed(b)'
  PROVE  Agrees(b)'
<1>1. /\ Shape /\ b0 \in Builds \ listed /\ UNCHANGED <<version, enabled, listed, tx>>
      /\ tx.at = "none" /\ job.at = "copying"
      /\ disk' = [disk EXCEPT ![b0] = disk[job.from]]
      /\ torn' = [torn EXCEPT ![b0] = torn[job.from]]
      /\ excused' = [excused EXCEPT ![b0] = excused[job.from]]
  BY Copying DEF CopiesFiles, JobAt
<1>2. job'.at = "insertingCopy" /\ job'.build = job.build /\ job'.op = job.op
  BY <1>1, MovesOn DEF CopiesFiles, Shape
<1>3. b # b0
  <2> SUFFICES ASSUME b = b0 PROVE FALSE
    OBVIOUS
  <2>1. job.op = "copy"
    BY <1>1 DEF LibraryInv, PhaseInv
  <2>2. place'[b] = "instances"
    BY <1>2 DEF LibraryInv, ShelfInv, NextInv, b0
  <2> QED
    BY <1>1, <1>2, <2>1, <2>2 DEF Visible, Creations
<1>4. disk'[b] = disk[b] /\ torn'[b] = torn[b] /\ excused'[b] = excused[b]
  BY <1>1, <1>3 DEF Shape, DiskShape
<1>5. Agreed(b)
  BY <1>4 DEF Agreed, Disturbed
<1> QED
  BY <1>1, <1>2, <1>3, <1>4, <1>5, OthersStay

LEMMA ClearsAgree ==
  ASSUME LibraryInv, ContentInv, MatchInv, Clears, NEW b \in Builds,
         Visible(b) \/ b = b0, ~Disturbed(b)'
  PROVE  Agrees(b)'
<1>1. /\ Shape /\ b0 \in Builds \ listed /\ UNCHANGED <<version, enabled, listed, tx>>
      /\ tx.at = "none" /\ RemoveDirectory(b0)
  BY DEF LibraryInv, PhaseInv, TxInv, ShelfInv, NextInv, Clears, JobAt, TxAt
<1>2. job'.at = "idle"
  BY <1>1, ComesToAnEnd DEF Clears, Fail, Shape
<1>3. PICK x \in Builds \ listed : x = b0
  BY <1>1
<1>4. /\ disk' = [disk EXCEPT ![x] = [p \in Paths |-> Absent]]
      /\ torn' = [torn EXCEPT ![x] = FALSE] /\ excused' = [excused EXCEPT ![x] = FALSE]
  BY <1>1, <1>3 DEF RemoveDirectory
<1>5. CASE b # b0
  <2>1. disk'[b] = disk[b] /\ torn'[b] = torn[b] /\ excused'[b] = excused[b]
    BY <1>1, <1>3, <1>4, <1>5 DEF Shape, DiskShape
  <2>2. Agreed(b)
    BY <1>5, <2>1 DEF Agreed, Disturbed
  <2> QED
    BY <1>1, <1>2, <1>5, <2>1, <2>2, OthersStay
<1>6. CASE b = b0
  <2>1. \A path \in Paths : disk'[b][path] = Absent
    BY <1>1, <1>3, <1>4, <1>6 DEF Shape, DiskShape
  <2>2. Contained(b)' = {}
    BY <1>1, <2>1, ContentAssumption DEF Contained, Had, Has, Underway
  <2>3. \A p \in Projects : ~Installed(b, p)
    BY <1>3, <1>6 DEF ContentInv, RowsInv
  <2>4. RowPathsOf(b)' = {}
    BY <1>1, <2>3 DEF RowPathsOf, Installed
  <2>5. ~Moved'
    BY <1>2 DEF Moved
  <2> QED
    BY <2>2, <2>4, <2>5 DEF Agrees
<1> QED
  BY <1>5, <1>6
-----------------------------------------------------------------------------
(* Rows that are written agree with the files that were changed.           *)
OneRow(rows) == \A c, d \in rows : c[1] = d[1] => c = d

LEMMA WrittenPaths ==
  ASSUME RowShape, NEW b \in Builds, NEW rows, rows \subseteq Rows, OneRow(rows),
         Record(b, rows)
  PROVE  RowPathsOf(b)' =
           PutPaths(rows) \cup {RowPath(b, p) : p \in {q \in Projects : Installed(b, q)
                                                                        /\ ~HasRow(rows, q)}}
<1> DEFINE rest == {RowPath(b, p) : p \in {q \in Projects : Installed(b, q)
                                                             /\ ~HasRow(rows, q)}}
<1>1. /\ \A p \in Projects : ~HasRow(rows, p) =>
            version'[b][p] = version[b][p] /\ enabled'[b][p] = enabled[b][p]
      /\ \A p \in Projects : HasRow(rows, p) => \E c \in rows :
            c[1] = p /\ version'[b][p] = c[2] /\ enabled'[b][p] = c[3]
      /\ \A x \in Builds : x # b => version'[x] = version[x] /\ enabled'[x] = enabled[x]
  BY RecordsRows
<1>2. ASSUME NEW p \in Projects, Installed(b, p)'
      PROVE  RowPath(b, p)' \in PutPaths(rows) \cup rest
  <2>1. CASE HasRow(rows, p)
    <3>1. PICK c \in rows : c[1] = p /\ version'[b][p] = c[2] /\ enabled'[b][p] = c[3]
      BY <1>1, <2>1
    <3>2. RowPath(b, p)' = ProjectPath(c[1], c[2], c[3]) /\ c[2] # 0
      BY <1>2, <3>1 DEF RowPath, Installed
    <3> QED
      BY <3>2 DEF PutPaths
  <2>2. CASE ~HasRow(rows, p)
    <3>1. Installed(b, p) /\ RowPath(b, p)' = RowPath(b, p)
      BY <1>1, <1>2, <2>2 DEF RowPath, Installed
    <3> QED
      BY <2>2, <3>1
  <2> QED
    BY <2>1, <2>2
<1>3. ASSUME NEW c \in rows, c[2] # 0
      PROVE  ProjectPath(c[1], c[2], c[3]) \in RowPathsOf(b)'
  <2>1. c[1] \in Projects /\ HasRow(rows, c[1])
    BY DEF HasRow, Rows
  <2>2. PICK p \in Projects : p = c[1]
    BY <2>1
  <2>3. PICK d \in rows : d[1] = p /\ version'[b][p] = d[2] /\ enabled'[b][p] = d[3]
    BY <1>1, <2>1, <2>2
  <2>4. d = c
    BY <2>2, <2>3 DEF OneRow
  <2>5. Installed(b, p)' /\ RowPath(b, p)' = ProjectPath(c[1], c[2], c[3])
    BY <1>3, <2>2, <2>3, <2>4 DEF RowPath, Installed
  <2> QED
    BY <2>5 DEF RowPathsOf
<1>4. ASSUME NEW p \in Projects, Installed(b, p), ~HasRow(rows, p)
      PROVE  RowPath(b, p) \in RowPathsOf(b)'
  <2>1. Installed(b, p)' /\ RowPath(b, p)' = RowPath(b, p)
    BY <1>1, <1>4 DEF RowPath, Installed
  <2> QED
    BY <2>1 DEF RowPathsOf
<1>5. RowPathsOf(b)' \subseteq PutPaths(rows) \cup rest
  BY <1>2 DEF RowPathsOf
<1>6. PutPaths(rows) \cup rest \subseteq RowPathsOf(b)'
  BY <1>3, <1>4 DEF PutPaths
<1> QED
  BY <1>5, <1>6

LEMMA CommitsAgree ==
  ASSUME LibraryInv, ContentInv, MatchInv, Commits, NEW b \in Builds, Agreed(b),
         b = b0 => OneRow(job.commit) /\ ~Leaves(job.pack, b)
  PROVE  Agrees(b)'
<1>1. /\ Shape /\ JobShape /\ RowShape /\ TxShape /\ UNCHANGED <<job, disk>>
      /\ job.at = "changing" /\ tx.at = "changing" /\ tx.todo = <<>> /\ tx.build = b0
      /\ Record(b0, job.commit) /\ tx' = [tx EXCEPT !.at = "cleaning"] /\ b0 \in Builds
  BY DEF LibraryInv, Shape, PhaseInv, TxInv, JobAt, TxAt, Commits, SameFiles, AllChanged
<1>2. tx'.at = "cleaning" /\ ~Underway' /\ ~Moved /\ ~Moved'
  BY <1>1 DEF TxShape, Underway, Moved
<1>3. PICK rows, k : rows = job.commit /\ k = job.pack
  OBVIOUS
<1>4. CASE b # b0
  <2>1. version'[b] = version[b] /\ enabled'[b] = enabled[b]
    BY <1>1, <1>4, RecordsRows
  <2>2. SameOf(b)
    BY <1>1, <1>2, <1>4, <2>1 DEF SameOf, Had, Has
  <2> QED
    BY <1>2, <2>2, AgreesAsBefore
<1>5. CASE b = b0
  <2>1. FilesOf(rows, k, b) /\ OneRow(rows) /\ ~Leaves(k, b)
    BY <1>1, <1>3, <1>5 DEF ContentInv, FilesInv, Working, JobAt
  <2>2. \A path : WillHave(path) <=> Has(b, path)
    <3>1. 1..Len(tx.todo) = {}
      BY <1>1, EmptySeq
    <3> QED
      BY <1>1, <1>5, <3>1 DEF WillHave, PlannedAt
  <2>3. Contained(b) = RowPathsOf(b)
    BY <1>2 DEF MatchInv, Agreed, Agrees
  <2>4. Contained(b)' = {path \in ContentPaths : Has(b, path)}
    BY <1>1, <1>2 DEF Contained, Had, Has
  <2> DEFINE rest == {RowPath(b, p) : p \in {q \in Projects : Installed(b, q)
                                                               /\ ~HasRow(rows, q)}}
  <2>5. Record(b, rows) /\ rows \subseteq Rows
    BY <1>1, <1>3, <1>5 DEF JobShape
  <2>6. RowPathsOf(b)' = PutPaths(rows) \cup rest
    BY <1>1, <2>1, <2>5, WrittenPaths
  <2>7. ASSUME NEW path \in ContentPaths, Has(b, path)
        PROVE  path \in PutPaths(rows) \cup rest
    <3> SUFFICES ASSUME path \notin PutPaths(rows) PROVE path \in rest
      OBVIOUS
    <3>1. Had(b, path)
      BY <2>1, <2>2, <2>7 DEF FilesOf
    <3>2. PICK p \in Projects : Installed(b, p) /\ path = RowPath(b, p)
      BY <2>3, <3>1 DEF Contained, RowPathsOf
    <3>3. ~Replaces(rows, b, path)
      BY <2>1, <2>2, <2>7 DEF FilesOf
    <3>4. ~HasRow(rows, p)
      BY <3>2, <3>3 DEF Replaces
    <3> QED
      BY <3>2, <3>4
  <2>8. ASSUME NEW p \in Projects, Installed(b, p), ~HasRow(rows, p)
        PROVE  Has(b, RowPath(b, p)) /\ RowPath(b, p) \in ContentPaths
    <3>1. PICK path : path = RowPath(b, p)
      OBVIOUS
    <3>2. path \in RowPathsOf(b)
      BY <2>8, <3>1 DEF RowPathsOf
    <3>3. path \in ContentPaths /\ Had(b, path)
      BY <2>3, <3>2 DEF Contained
    <3>4. ~Replaces(rows, b, path)
      <4> SUFFICES ASSUME NEW q \in Projects, HasRow(rows, q), Installed(b, q),
                          path = RowPath(b, q)
                   PROVE  FALSE
        BY DEF Replaces
      <4>1. path = Path(RowName(b, p), enabled[b][p])
        BY <3>1 DEF RowPath, ProjectPath, RowName
      <4>2. ~excused[b] /\ q # p
        BY <2>8 DEF Agreed, Disturbed
      <4> QED
        BY <2>8, <4>1, <4>2, OthersApart
    <3>5. Has(b, path)
      BY <2>1, <2>2, <3>3, <3>4 DEF FilesOf
    <3> QED
      BY <3>1, <3>3, <3>5
  <2>9. \A path \in PutPaths(rows) : path \in ContentPaths /\ Has(b, path)
    BY <2>1, <2>2, <2>5, PutsContent DEF FilesOf
  <2>10. Contained(b)' = PutPaths(rows) \cup rest
    BY <2>4, <2>7, <2>8, <2>9
  <2> QED
    BY <1>2, <2>6, <2>10 DEF Agrees
<1> QED
  BY <1>4, <1>5

LEMMA WritesRowsAgree ==
  ASSUME LibraryInv, ContentInv, MatchInv, WritesRows, NEW b \in Builds, Visible(b),
         ~Disturbed(b)'
  PROVE  Agrees(b)'
<1>1. /\ Commits /\ job.pack = NoPack /\ UNCHANGED <<excused, torn>>
      /\ job.at = "changing" /\ tx.at = "changing"
  BY DEF WritesRows, Commits, AllChanged, JobAt, TxAt
<1>2. PICK c \in Rows : job.commit = {c}
  BY <1>1 DEF ContentInv, CommitInv, JobAt, TxAt
<1>3. OneRow(job.commit) /\ ~Leaves(job.pack, b)
  BY <1>1, <1>2 DEF OneRow, Leaves
<1>4. Agreed(b)
  BY <1>1, CalmBefore DEF Calmer, Agreed
<1> QED
  BY <1>1, <1>3, <1>4, CommitsAgree

LEMMA CommitsPackAgrees ==
  ASSUME LibraryInv, ContentInv, MatchInv, CommitsPack, NEW b \in Builds, Visible(b),
         ~Disturbed(b)'
  PROVE  Agrees(b)'
<1>1. /\ Shape /\ DiskShape /\ Commits /\ job.pack \in Packs /\ job.pack # NoPack
      /\ excused' = [excused EXCEPT ![b0] = @ \/ TakesName(b0, job.pack) \/ NamesTwice(job.pack)]
      /\ torn' = [torn EXCEPT ![b0] = @ \/ LeavesBehind(b0, job.pack)]
      /\ job.at = "changing" /\ tx.at = "changing" /\ b0 \in Builds
  BY DEF LibraryInv, Shape, JobShape, PhaseInv, CommitsPack, Commits, AllChanged, JobAt, TxAt
<1>2. PICK x \in Builds, k \in Packs : x = b0 /\ k = job.pack
  BY <1>1
<1>3. job.commit = PackRows(x, k)
  BY <1>1, <1>2 DEF ContentInv, CommitInv, JobAt, TxAt
<1>4. /\ ~torn[b] /\ ~excused[b]
      /\ b = x => ~NamesTwice(k) /\ ~LeavesBehind(x, k)
  <2>1. /\ TakesName(x, k) \in BOOLEAN /\ NamesTwice(k) \in BOOLEAN
        /\ LeavesBehind(x, k) \in BOOLEAN
    BY DEF TakesName, NamesTwice, LeavesBehind
  <2> QED
    BY <1>1, <1>2, <2>1 DEF Disturbed, DiskShape
<1>5. ASSUME ~NamesTwice(k) PROVE OneRow(job.commit)
  <2> DEFINE row(f) == <<f[1], f[2], KeepsFlag(x, f[1], f[2], k)>>
  <2>1. \A c : c \in job.commit <=> \E f \in PackFiles[k] : c = row(f)
    BY <1>3 DEF PackRows
  <2>2. \A f \in PackFiles[k] : row(f)[1] = f[1]
    OBVIOUS
  <2> HIDE DEF row
  <2> QED
    BY <1>5, <2>1, <2>2 DEF OneRow, NamesTwice
<1>6. b = b0 => OneRow(job.commit) /\ ~Leaves(job.pack, b)
  BY <1>2, <1>4, <1>5 DEF Leaves
<1>7. Agreed(b)
  BY <1>4 DEF Agreed, Disturbed
<1> QED
  BY <1>1, <1>6, <1>7, CommitsAgree

-----------------------------------------------------------------------------
(* Together.                                                               *)
LEMMA LeavingCopy ==
  ASSUME LibraryInv, ContentInv, MatchInv, StepKind, NEW b \in Builds, LeavesCopy(b),
         ~Disturbed(b)'
  PROVE  Agrees(b)'
<1>1. EndsCopy
  <2>1. job.at = "copyingRows" /\ b = b0 /\ job'.at # "copyingRows" /\ ~torn'[b]
    BY DEF LeavesCopy, JobAt, Disturbed
  <2>2. tx.at = "none"
    BY <2>1 DEF LibraryInv, TxInv, TxAt
  <2>3. ~Rests /\ ~EndsProcess
    BY <2>1 DEF Rests, EndsProcess, AbandonChanges
  <2>4. ~CopiesRow /\ ~Works /\ ~TurnsBack
    BY <2>1 DEF CopiesRow, Works, TurnsBack
  <2>5. ~Begins
    BY <2>1 DEF Begins, InstallTop, RemoveContent, ImportLocal, StagePackHere, StagePack,
                RunForgeInstaller, Call, JobAt
  <2>6. /\ ~FailsToRecord /\ ~Inserts /\ ~Closes /\ ~Renames /\ ~RenamesBack /\ ~Switches
        /\ ~WritesRows /\ ~CommitsPack /\ ~Deletes /\ ~CopiesFiles /\ ~Clears /\ ~Edits
        /\ ~TakesAway
    BY <2>1 DEF FailsToRecord, Inserts, Closes, Renames, RenamesBack, Switches, WritesRows,
                CommitsPack, Commits, Deletes, CopiesFiles, Clears, Edits, TakesAway, JobAt
  <2> QED
    BY <2>3, <2>4, <2>5, <2>6 DEF StepKind, RowStep
<1> QED
  BY <1>1, EndsCopyAgrees

LEMMA MatchInvKept ==
  ASSUME LibraryInv, LibraryInv', ContentInv, MatchInv, StepKind, Follows
  PROVE  MatchInv'
<1>1. listed' \subseteq Builds
  BY DEF LibraryInv, Shape, RowShape
<1>2. \A b \in listed' : place'[b] # "nowhere"
  BY <1>1, NoDirectoryNoRow
<1>3. ASSUME NEW b \in Builds, Visible(b)', ~Disturbed(b)'
      PROVE  Agrees(b)'
  <2>1. CASE Visible(b)
    BY <1>3, <2>1, RestsAgree, FailsToRecordAgrees, EndsCopyAgrees, InsertsAgree, BeginsAgree,
       WorksAgree, TurnsBackAgrees, ClosesAgree, RenamesAgree, RenamesBackAgree,
       SwitchesAgree, CopiesRowAgrees, WritesRowsAgree, CommitsPackAgrees, DeletesAgree,
       CopiesFilesAgree, ClearsAgree, EditsAgree, TakesAwayAgrees, EndsProcessAgrees
       DEF StepKind, RowStep
  <2>2. CASE Clears /\ b = b0
    BY <1>3, <2>2, ClearsAgree
  <2>3. CASE LeavesCopy(b)
    BY <1>3, <2>3, LeavingCopy
  <2> QED
    BY <1>3, <2>1, <2>2, <2>3, SeenBefore
<1> QED
  BY <1>2, <1>3 DEF MatchInv

LEMMA NothingToMatch == LibraryInit => MatchInv
<1> SUFFICES ASSUME LibraryInit PROVE MatchInv
  OBVIOUS
<1>1. /\ listed = {} /\ job = NoJob /\ tx = NoTx
      /\ disk = [b \in Builds |-> [p \in Paths |-> Absent]]
      /\ version = [b \in Builds |-> [p \in Projects |-> 0]]
  BY DEF LibraryInit, ContentInit, FilesInit
<1>2. ~Moved /\ ~Underway
  BY <1>1 DEF NoJob, NoTx, Moved, Underway
<1>3. \A b \in Builds : Contained(b) = {}
  BY <1>1, <1>2, ContentAssumption DEF Contained, Had, Has
<1>4. \A b \in Builds : RowPathsOf(b) = {}
  BY <1>1 DEF RowPathsOf, Installed
<1> QED
  BY <1>1, <1>2, <1>3, <1>4 DEF MatchInv, Agrees

LEMMA StutteringMatches ==
  ASSUME LibraryInv, ContentInv, MatchInv, UNCHANGED libraryVars
  PROVE  MatchInv'
<1>1. UNCHANGED <<listed, place, version, enabled, job, disk, tx, torn, excused>>
  BY DEF libraryVars, contentVars, fileVars, shelfVars
<1>2. Rests
  BY Loosely DEF libraryVars, contentVars, fileVars, shelfVars, Rests, SameRows, SameFiles
<1>3. \A b \in listed' : place'[b] # "nowhere"
  BY <1>1 DEF MatchInv
<1>4. ASSUME NEW b \in Builds, Visible(b)', ~Disturbed(b)'
      PROVE  Agrees(b)'
  <2>1. Visible(b)
    BY <1>1, <1>4 DEF Visible, JobAt, b0
  <2> QED
    BY <1>2, <1>4, <2>1, RestsAgree
<1> QED
  BY <1>3, <1>4 DEF MatchInv

LEMMA MatchInvAlways == LibrarySpec => []MatchInv
<1>1. LibraryInit => MatchInv
  BY NothingToMatch
<1>2. LibraryInv /\ LibraryInv' /\ ContentInv /\ MatchInv /\ [LibraryNext]_libraryVars
        => MatchInv'
  BY Steps, FollowsOn, MatchInvKept, StutteringMatches
<1> QED
  BY <1>1, <1>2, LibraryIsConsistent, ContentInvAlways, PTL DEF LibrarySpec

(* Between two operations the content in the directory of a listed build   *)
(* is what its rows say, each file under the name its flag wants and       *)
(* nothing else, unless the process ended within an operation, an undo     *)
(* failed, or the user or a pack took a file (FileTransaction,             *)
(* set_installed_content_enabled, commit_pack, copy_build).                *)
THEOREM RowsAlwaysMatchFiles == LibrarySpec => []RowsMatchFiles
<1>1. LibraryInv /\ MatchInv => RowsMatchFiles
  <2> SUFFICES ASSUME LibraryInv, MatchInv, JobAt("idle"), NEW b \in listed,
                      ~torn[b], ~excused[b]
               PROVE  {path \in ContentPaths : Has(b, path)} =
                        {RowPath(b, p) : p \in {q \in Projects : Installed(b, q)}}
    BY DEF RowsMatchFiles
  <2>1. b \in Builds /\ tx.at = "none" /\ ~Moved
    BY DEF LibraryInv, Shape, RowShape, TxInv, JobAt, TxAt, Moved
  <2>2. Visible(b) /\ ~Disturbed(b)
    BY DEF Visible, Disturbed, JobAt
  <2>3. Contained(b) = RowPathsOf(b)
    BY <2>1, <2>2 DEF MatchInv, Agrees
  <2> QED
    BY <2>1, <2>3 DEF Contained, RowPathsOf, Had, Underway
<1> QED
  BY <1>1, LibraryIsConsistent, MatchInvAlways, PTL
-----------------------------------------------------------------------------
LEMMA FailIsOver == ASSUME Fail PROVE Over
<1>1. Answer("failed").at = "idle" /\ Answer("failed").answer = "failed"
  BY Answers
<1>2. job'.at = "idle" /\ job'.answer = "failed"
  BY <1>1 DEF Fail
<1> QED
  BY <1>2 DEF Over

LEMMA InstallSteps ==
  ASSUME LibraryInv, StackInv, LibraryNext
  PROVE  \/ Over \/ Waits \/ (Installing /\ InstallStep)
         \/ \E b \in Builds : InstallProject(b)
<1>0. Shape /\ JobShape /\ DiskShape
  BY DEF LibraryInv, Shape
<1>1. CASE LibraryStep
  <2>1. ~JobAt("idle") /\ GoesOn
    <3>1. GoesOn
      BY <1>1, LibraryFollows
    <3>2. ~JobAt("idle")
      BY <1>1 DEF LibraryStep, RegisterProfile, RegisterForge, RunForgeInstaller, FinishForge,
         ForgeChanges, ForgeFails, FailPreparation, InsertBuild, FinishSelecting, CommitPack,
         StagePackHere, StagePack, NewPackFails, CopyFiles, InsertCopy, CopySource, CopyRow,
         EndCopy, MoveToTrash, DeleteRows, MoveBack, ContentStep, GiveUp, TakeRequirement,
         DescendToRequirement, InstallTop, RenameContent, RecordToggle, RenameBack, CancelPack,
         WriteRows, Finish, FailChanges, RunChanges, JobAt
    <3> QED
      BY <3>1, <3>2
  <2>2. CASE job.op # "install"
    BY <2>1, <2>2 DEF GoesOn, Over
  <2>3. CASE job.op = "install"
    <3>1. /\ Installing /\ job.pack = NoPack
          /\ job.at \in {"resolving", "renaming", "recording", "renamingBack", "changing"}
      BY <2>1, <2>3 DEF Installing, StackInv, StackShape
    <3>2. ContentStep
      BY <1>1, <2>3, <3>1 DEF LibraryStep, RegisterProfile, RegisterForge, RunForgeInstaller,
         FinishForge, ForgeChanges, ForgeFails, FailPreparation, InsertBuild, FinishSelecting,
         CommitPack, StagePackHere, StagePack, NewPackFails, NewPack, CopyFiles, InsertCopy,
         CopySource, CopyRow, EndCopy, MoveToTrash, DeleteRows, MoveBack, JobAt
    <3>3. CASE GiveUp \/ RenameBack \/ FailChanges
      BY <3>3, FailIsOver DEF GiveUp, RenameBack, FailChanges
    <3>4. ~CancelPack
      BY <3>1 DEF CancelPack
    <3> QED
      BY <3>1, <3>2, <3>3, <3>4 DEF ContentStep, InstallStep
  <2> QED
    BY <2>2, <2>3
<1>2. CASE PreparationFails
  <2>1. ~JobAt("idle") /\ job.op # "install" /\ To("failing")
    BY <1>2 DEF PreparationFails, JobAt, LibraryInv, PhaseInv, OfPacks
  <2>2. job'.op = job.op
    BY <1>0, <2>1, MovesOn
  <2> QED
    BY <2>1, <2>2 DEF Over
<1>3. CASE PreviewPack
  BY <1>3 DEF PreviewPack, Waits, contentVars, fileVars
<1>4. CASE EndProcess
  <2>1. job'.op = "none"
    BY <1>4 DEF EndProcess, NoJob
  <2> QED
    BY <2>1 DEF Over
<1>5. ASSUME NEW b \in Builds,
             \/ InstallProject(b) \/ RemoveContent(b) \/ ImportLocal(b) \/ Toggle(b)
             \/ InstallPack(b) \/ CreateBuild(b) \/ InstallNewPack(b) \/ ConfirmPack(b)
             \/ CopyBuild(b) \/ SelectBuild(b) \/ DeleteBuild(b)
      PROVE  Over \/ InstallProject(b)
  BY <1>5, CallsStart DEF OnlyInstalls, Over
<1>6. ASSUME NEW b \in Builds, RepairBuild(b)
      PROVE  Over
  BY <1>6, RepairCalls DEF Over
<1>7. ASSUME NEW b \in Builds, EditConfig(b)
      PROVE  Waits
  <2>1. disk' = [disk EXCEPT ![b][ConfigPath] = Edited]
    BY <1>7 DEF EditConfig
  <2>2. \A x \in Builds, path \in ContentPaths : disk'[x][path] = disk[x][path]
    BY <1>0, <2>1, ContentAssumption DEF DiskShape
  <2> QED
    BY <1>7, <2>2 DEF EditConfig, Waits, contentVars
<1>8. ASSUME NEW b \in Builds, TakeFile(b)
      PROVE  Over
  BY <1>8 DEF TakeFile, NoJob, Over
<1> QED
  BY <1>1, <1>2, <1>3, <1>4, <1>5, <1>6, <1>7, <1>8 DEF LibraryNext, ContentCall

-----------------------------------------------------------------------------
(* What stays ready.                                                       *)
KeepsReady(b) == \A p \in Projects : Ready(b, p) => Ready(b, p)'

LEMMA SameIsReady ==
  ASSUME RowShape, NEW b \in Builds, SameOf(b)
  PROVE  KeepsReady(b)
<1> SUFFICES ASSUME NEW p \in Projects, Ready(b, p) PROVE Ready(b, p)'
  BY DEF KeepsReady
<1>1. PICK path \in ContentPaths : path = RowPath(b, p)
  BY RowPaths DEF Ready
<1>2. RowPath(b, p)' = path /\ Installed(b, p)' /\ enabled'[b][p]
  BY <1>1 DEF SameOf, RowPath, Installed, Ready
<1>3. Had(b, path)'
  BY <1>1 DEF SameOf, Ready
<1> QED
  BY <1>2, <1>3 DEF Ready

LEMMA RequiredProjects ==
  ASSUME NEW frame \in Frames
  PROVE  /\ frame.project \in Projects /\ Requires[frame.project] \in Seq(Requirements)
         /\ \A i \in DOMAIN Requires[frame.project] :
              /\ Requires[frame.project][i] \in Requirements
              /\ Requires[frame.project][i].project \in Projects
<1>1. frame.project \in Projects
  BY DEF Frames
<1>2. Requires[frame.project] \in Seq(Requirements)
  BY <1>1, ContentAssumption DEF Requirements
<1>3. \A i \in DOMAIN Requires[frame.project] : Requires[frame.project][i] \in Requirements
  BY <1>2, ElementOfSeq
<1> QED
  BY <1>1, <1>2, <1>3 DEF Requirements

LEMMA StaysProvided ==
  ASSUME NEW b \in Builds, KeepsReady(b), NEW frame \in Frames, Provided(frame, b)
  PROVE  Provided(frame, b)'
BY RequiredProjects DEF Provided, KeepsReady

LEMMA NothingPassed ==
  ASSUME NEW b, NEW p \in Projects, NEW v
  PROVE  Provided(Frame(p, v), b)'
<1>1. Requires[p] \in Seq(Requirements)
  BY ContentAssumption DEF Requirements
<1>2. DOMAIN Requires[p] = 1..Len(Requires[p])
  BY <1>1
<1>3. Frame(p, v).requires = Requires[p] /\ Frame(p, v).project = p
  BY DEF Frame
<1>4. PICK frame : frame = Frame(p, v)
  OBVIOUS
<1>5. Provided(frame, b)'
  BY <1>2, <1>3, <1>4 DEF Provided
<1> QED
  BY <1>4, <1>5

(* A list with a new head.                                                 *)
LEMMA NewHead ==
  ASSUME NEW S, NEW x \in S, NEW s \in Seq(S)
  PROVE  /\ (<<x>> \o s)[1] = x /\ Head(<<x>> \o s) = x
         /\ \A i \in 1..Len(<<x>> \o s) :
              (<<x>> \o s)[i] = x \/ \E j \in 1..Len(s) : (<<x>> \o s)[i] = s[j]
<1> DEFINE t == <<x>> \o s
<1>1. <<x>> \in Seq(S) /\ Len(<<x>>) = 1 /\ <<x>>[1] = x /\ Len(s) \in Nat
  OBVIOUS
<1>2. t \in Seq(S) /\ Len(t) = 1 + Len(s) /\ t # <<>>
  BY <1>1, ConsList, ConcatProperties
<1>3. /\ t[1] = x
      /\ \A i \in 1..Len(t) : i # 1 => t[i] = s[i - 1] /\ i - 1 \in 1..Len(s)
  BY <1>1, <1>2, ConcatProperties
<1>4. Head(t) = t[1]
  BY <1>2, PartsOfLists
<1> HIDE DEF t
<1>5. \A i \in 1..Len(t) : t[i] = x \/ \E j \in 1..Len(s) : t[i] = s[j]
  BY <1>3
<1>6. t[1] = x /\ Head(t) = x
  BY <1>3, <1>4
<1> QED
  BY <1>5, <1>6 DEF t

LEMMA AllFrames ==
  ASSUME JobShape, job.stack # <<>>
  PROVE  /\ Top \in Frames /\ Top = job.stack[1] /\ 1 \in 1..Len(job.stack)
         /\ \A i \in 1..Len(job.stack) : job.stack[i] \in Frames
         /\ Tail(job.stack) \in Seq(Frames)
         /\ \A i \in 1..Len(Tail(job.stack)) :
              \E j \in 1..Len(job.stack) : Tail(job.stack)[i] = job.stack[j]
<1>1. job.stack \in Seq(Frames)
  BY DEF JobShape
<1>2. \A i \in 1..Len(job.stack) : job.stack[i] \in Frames
  BY <1>1, ElementOfSeq
<1> QED
  BY <1>1, <1>2, PartsOfLists DEF Top

(* An installation goes on when what it has on the stack is provided for.  *)
FromStack(frame) == \E j \in 1..Len(job.stack) : frame = job.stack[j]
GoesOnInstalling(b) ==
  /\ b = b0 /\ Installing /\ job'.op = "install" /\ job'.build = b /\ excused'[b] = excused[b]
  /\ ~excused[b] /\ tx'.at # "undoing" =>
       /\ tx.at # "undoing" /\ KeepsReady(b)
       /\ \A i \in 1..Len(job'.stack) :
            FromStack(job'.stack[i]) \/ \E frame : job'.stack[i] = frame /\ Provided(frame, b)'
       /\ job'.at = "changing" => TopIsThere'

LEMMA InstallsOn ==
  ASSUME JobShape, StackInv, NEW b \in Builds, GoesOnInstalling(b), job'.at # "idle", StackShape'
  PROVE  StackInv'
<1>1. ~(Succeeded') /\ (RequiredAreEnabled)'
  BY DEF Succeeded, RequiredAreEnabled, JobAt
<1>2. ASSUME ~excused[b], tx'.at # "undoing"
      PROVE  AllProvided' /\ (job'.at = "changing" => TopIsThere')
  <2>1. AllProvided /\ KeepsReady(b)
    BY <1>2 DEF GoesOnInstalling, StackInv, StackReady, TxAt
  <2>2. ASSUME NEW i \in 1..Len(job'.stack)
        PROVE  Provided(job.stack[i], b)'
    <3>1. CASE FromStack(job'.stack[i])
      <4>1. PICK j \in 1..Len(job.stack) : job'.stack[i] = job.stack[j]
        BY <3>1 DEF FromStack
      <4>2. job.stack \in Seq(Frames)
        BY DEF JobShape
      <4>3. PICK frame \in Frames : frame = job.stack[j]
        BY <4>1, <4>2, ElementOfSeq
      <4>4. Provided(frame, b)
        BY <2>1, <4>3 DEF AllProvided, GoesOnInstalling
      <4>5. Provided(frame, b)'
        BY <2>1, <4>4, StaysProvided
      <4>6. frame = job'.stack[i]
        BY <4>1, <4>3
      <4> QED
        BY <4>5, <4>6 DEF Provided
    <3>2. CASE \E frame : job'.stack[i] = frame /\ Provided(frame, b)'
      <4>1. PICK frame : job'.stack[i] = frame /\ Provided(frame, b)'
        BY <3>2
      <4> QED
        BY <4>1 DEF Provided
    <3> QED
      BY <1>2, <2>2, <3>1, <3>2 DEF GoesOnInstalling
  <2>3. AllProvided'
    BY <2>2 DEF AllProvided, GoesOnInstalling, b0
  <2> QED
    BY <1>2, <2>3 DEF GoesOnInstalling
<1>3. StackReady'
  BY <1>2 DEF StackReady, GoesOnInstalling, TxAt, JobAt, b0
<1> QED
  BY <1>1, <1>3 DEF StackInv, Succeeded

LEMMA OverIsFine == ASSUME Over PROVE StackInv'
<1>1. ~(Installing') /\ ~(Succeeded')
  BY DEF Over, Installing, Succeeded, JobAt
<1>2. (RequiredAreEnabled)'
  BY <1>1 DEF RequiredAreEnabled, Succeeded
<1> QED
  BY <1>1, <1>2 DEF StackInv, StackShape, StackReady

-----------------------------------------------------------------------------
(* The steps one by one.                                                   *)
LEMMA InstallsFor ==
  ASSUME LibraryInv, StackInv, Installing
  PROVE  /\ Shape /\ JobShape /\ RowShape /\ TxShape /\ DiskShape /\ DOMAIN job = JobFields
         /\ b0 \in Builds /\ job.pack = NoPack /\ job.stack # <<>> /\ Top \in Frames
         /\ ~JobAt("changing") => tx.at = "none"
BY AllFrames DEF LibraryInv, Shape, JobShape, PhaseInv, TxInv, TxAt, JobAt, Installing, StackInv,
                 StackShape

LEMMA SameIsSame ==
  ASSUME NEW b, UNCHANGED <<version, enabled, disk, tx>>
  PROVE  SameOf(b)
BY DEF SameOf, Had, Has, Underway, SavedAt

(* A requirement that is met is ready, when it is on.                      *)
LEMMA MetIsReady ==
  ASSUME tx.at = "none", NEW d, NEW b, b = b0, IsMet(d), d.project \notin CurseForge,
         enabled[b][d.project]
  PROVE  Ready(b, d.project)
BY DEF IsMet, Ready, Had, Underway

LEMMA TakeRequirementInstalls ==
  ASSUME LibraryInv, StackInv, Installing, TakeRequirement
  PROVE  StackInv'
<1>1. /\ Shape /\ JobShape /\ RowShape /\ TxShape /\ DOMAIN job = JobFields /\ b0 \in Builds
      /\ job.pack = NoPack /\ job.stack # <<>> /\ Top \in Frames /\ tx.at = "none"
      /\ JobAt("resolving") /\ Top.requires # <<>>
      /\ UNCHANGED <<version, enabled, disk, tx, excused>>
  BY InstallsFor DEF TakeRequirement, JobAt, rowVars, fileVars
<1>2. PICK b \in Builds : b = b0
  BY <1>1
<1>3. KeepsReady(b)
  BY <1>1, SameIsSame, SameIsReady
<1>4. CASE job' = NextRequirement /\ (enabled[b0][Needed.project] \/ Needed.project \in CurseForge)
  <2>0. PICK top : top = [Top EXCEPT !.requires = Tail(@)]
    OBVIOUS
  <2> DEFINE rest == Tail(job.stack)
             stack == <<top>> \o rest
  <2>1. Top.requires \in Seq(Requirements) /\ DOMAIN Top = {"project", "version", "requires"}
    BY <1>1 DEF Frames, Requirements
  <2>2. /\ Needed = Top.requires[1] /\ Tail(Top.requires) \in Seq(Requirements)
        /\ \A j \in 1..Len(Top.requires) :
             j = 1 \/ \E m \in 1..Len(Tail(Top.requires)) :
                        Tail(Top.requires)[m] = Top.requires[j]
    <3>1. PICK s \in Seq(Requirements) : s = Top.requires /\ s # <<>>
      BY <1>1, <2>1
    <3>2. /\ Head(s) = s[1] /\ Tail(s) \in Seq(Requirements) /\ Len(Tail(s)) = Len(s) - 1
          /\ \A i \in 1..Len(Tail(s)) : Tail(s)[i] = s[i + 1]
          /\ Len(s) \in Nat
      BY <3>1, PartsOfLists
    <3>3. ASSUME NEW j \in 1..Len(s), j # 1
          PROVE  \E m \in 1..Len(Tail(s)) : Tail(s)[m] = s[j]
      <4>1. j - 1 \in 1..Len(Tail(s)) /\ (j - 1) + 1 = j
        BY <3>2, <3>3
      <4> QED
        BY <3>2, <4>1
    <3> QED
      BY <3>1, <3>2, <3>3 DEF Needed
  <2>3. /\ top.project = Top.project /\ top.requires = Tail(Top.requires)
        /\ top \in Frames
    BY <1>1, <2>0, <2>1, <2>2 DEF Frames, Requirements
  <2>4. rest \in Seq(Frames) /\ \A i \in 1..Len(rest) : \E j \in 1..Len(job.stack) :
                                                          rest[i] = job.stack[j]
    BY <1>1, AllFrames
  <2>5. /\ job'.at = "resolving" /\ job'.stack = stack /\ job'.stack # <<>>
        /\ job'.op = job.op /\ job'.build = job.build /\ job'.pack = job.pack
    <3>1. job' = [job EXCEPT !.stack = stack]
      BY <1>4, <2>0 DEF NextRequirement
    <3> HIDE DEF stack
    <3>2. job'.stack = stack
      BY <1>1, <3>1 DEF JobFields
    <3> QED
      BY <1>1, <1>4, <3>2, NextRequirementIsOne, LibraryInv DEF JobAt
  <2>6. ASSUME ~excused[b], tx.at # "undoing"
        PROVE  Provided(top, b)'
    <3>1. Provided(Top, b)
      <4>1. AllProvided
        BY <1>2, <2>6 DEF StackInv, StackReady, TxAt
      <4> QED
        BY <1>1, <1>2, <4>1, AllFrames DEF AllProvided
    <3> SUFFICES ASSUME top.project \notin CurseForge, NEW i \in DOMAIN Requires[top.project],
                        ~Ready(b, Requires[top.project][i].project)'
                 PROVE  \E m \in 1..Len(top.requires) :
                          top.requires[m] = Requires[top.project][i]
      BY DEF Provided
    <3>4. ~Ready(b, Requires[Top.project][i].project) /\ i \in DOMAIN Requires[Top.project]
      <4>1. Requires[top.project][i].project \in Projects
        BY <2>3, RequiredProjects
      <4> QED
        BY <1>3, <2>3, <4>1 DEF KeepsReady
    <3>2. PICK j \in 1..Len(Top.requires) : Top.requires[j] = Requires[Top.project][i]
      BY <2>3, <3>1, <3>4 DEF Provided
    <3>3. j # 1
      <4> SUFFICES ASSUME j = 1 PROVE FALSE
        OBVIOUS
      <4>1. Needed = Requires[Top.project][i] /\ Top.project \in Projects
        BY <1>1, <2>2, <3>2 DEF Frames
      <4>2. Needed.project \notin CurseForge
        BY <2>3, <3>4, <4>1, ContentAssumption
      <4>3. Ready(b, Needed.project)
        BY <1>1, <1>2, <1>4, <4>2, MetIsReady DEF TakeRequirement
      <4> QED
        BY <3>4, <4>1, <4>3
    <3> QED
      BY <2>2, <2>3, <3>2, <3>3
  <2>7. ASSUME NEW i \in 1..Len(stack)
        PROVE  stack[i] = top \/ FromStack(stack[i])
    <3> HIDE DEF rest
    <3>1. stack[i] = top \/ \E j \in 1..Len(rest) : stack[i] = rest[j]
      BY <2>3, <2>4, NewHead
    <3> QED
      BY <2>4, <3>1 DEF FromStack
  <2> HIDE DEF stack, rest
  <2>8. GoesOnInstalling(b)
    <3>1. ASSUME ~excused[b], tx.at # "undoing", NEW i \in 1..Len(job'.stack)
          PROVE  FromStack(job'.stack[i]) \/ \E frame : job'.stack[i] = frame /\ Provided(frame, b)'
      BY <2>5, <2>6, <2>7, <3>1
    <3>2. \A i \in 1..Len(job'.stack) : ~excused[b] /\ tx.at # "undoing" =>
            FromStack(job'.stack[i]) \/ \E frame : job'.stack[i] = frame /\ Provided(frame, b)'
      BY <3>1
    <3> QED
      BY <1>1, <1>2, <1>3, <2>5, <3>2 DEF GoesOnInstalling, Installing, b0
  <2>9. StackShape'
    BY <1>1, <2>5 DEF StackShape, Switching, JobAt
  <2> QED
    BY <1>1, <2>5, <2>8, <2>9, InstallsOn
<1>5. CASE job' = [job EXCEPT !.at = "renaming",
                     !.commit = {<<Needed.project, version[b0][Needed.project], TRUE>>}]
  <2>1. PICK p \in Projects : p = Needed.project
    BY <1>1, Resolving DEF Requirements
  <2> DEFINE commit == {<<p, version[b][p], TRUE>>}
  <2>2. job' = [job EXCEPT !.at = "renaming", !.commit = commit]
    BY <1>2, <1>5, <2>1
  <2> HIDE DEF commit
  <2>3. /\ job'.at = "renaming" /\ job'.commit = commit
        /\ job'.op = job.op /\ job'.build = job.build /\ job'.stack = job.stack
        /\ job'.pack = job.pack
    BY <1>1, <2>2 DEF JobFields
  <2>4. GoesOnInstalling(b)
    BY <1>1, <1>2, <1>3, <2>3 DEF GoesOnInstalling, Installing, FromStack, b0
  <2>5. \E q \in Projects : job'.commit = {<<q, version'[job'.build][q], TRUE>>}
    BY <1>1, <1>2, <2>3 DEF commit, b0
  <2>6. StackShape'
    BY <1>1, <2>3, <2>5 DEF StackShape, Switching, JobAt, b0
  <2> QED
    BY <1>1, <2>3, <2>4, <2>6, InstallsOn
<1> QED
  BY <1>4, <1>5 DEF TakeRequirement

LEMMA DescendToRequirementInstalls ==
  ASSUME LibraryInv, StackInv, Installing, DescendToRequirement
  PROVE  StackInv'
<1>1. /\ JobShape /\ RowShape /\ DOMAIN job = JobFields /\ b0 \in Builds
      /\ job.pack = NoPack /\ job.stack # <<>> /\ tx.at = "none"
      /\ JobAt("resolving") /\ Top.requires # <<>>
      /\ UNCHANGED <<version, enabled, disk, tx, excused>>
  BY InstallsFor DEF DescendToRequirement, JobAt, rowVars, fileVars
<1>2. CASE Fail
  BY <1>2, FailIsOver, OverIsFine
<1>3. CASE ~Fail
  <2>0. PICK b \in Builds, p \in Projects : b = b0 /\ p = Needed.project
    BY <1>1, Resolving DEF Requirements
  <2>1. PICK v : v = (IF Needed.pin = 0 THEN MaxVersion ELSE Needed.pin)
    OBVIOUS
  <2>2. PICK frame : frame = Frame(p, v)
    OBVIOUS
  <2>3. frame \in Frames
    <3>1. Needed \in Requirements
      BY <1>1, Resolving
    <3>2. v \in Versions
      BY <2>1, <3>1, ContentAssumption DEF Requirements, Versions
    <3> QED
      BY <2>2, <3>2, FrameIsOne
  <2> DEFINE stack == <<frame>> \o job.stack
  <2>4. job' = [job EXCEPT !.stack = stack]
    BY <1>3, <2>0, <2>1, <2>2 DEF DescendToRequirement
  <2>5. stack # <<>> /\ \A i \in 1..Len(stack) : stack[i] = frame \/ FromStack(stack[i])
    <3>1. job.stack \in Seq(Frames)
      BY <1>1 DEF JobShape
    <3> QED
      BY <2>3, <3>1, ConsList, NewHead DEF FromStack
  <2> HIDE DEF stack
  <2>6. /\ job'.at = "resolving" /\ job'.stack = stack
        /\ job'.op = job.op /\ job'.build = job.build /\ job'.pack = job.pack
    BY <1>1, <2>4 DEF JobFields, JobAt
  <2>7. Provided(frame, b)'
    BY <2>2, NothingPassed
  <2>8. KeepsReady(b)
    BY <1>1, SameIsSame, SameIsReady
  <2>9. GoesOnInstalling(b)
    <3>1. \A i \in 1..Len(job'.stack) :
            FromStack(job'.stack[i]) \/ \E f : job'.stack[i] = f /\ Provided(f, b)'
      BY <2>5, <2>6, <2>7
    <3> QED
      BY <1>1, <2>0, <2>6, <2>8, <3>1 DEF GoesOnInstalling, Installing, b0
  <2>10. StackShape'
    BY <1>1, <2>5, <2>6 DEF StackShape, Switching, JobAt
  <2> QED
    BY <1>1, <2>6, <2>9, <2>10, InstallsOn
<1> QED
  BY <1>2, <1>3

LEMMA InstallTopInstalls ==
  ASSUME LibraryInv, StackInv, Installing, InstallTop
  PROVE  StackInv'
<1>1. /\ JobShape /\ RowShape /\ DOMAIN job = JobFields /\ b0 \in Builds /\ Top \in Frames
      /\ job.pack = NoPack /\ job.stack # <<>> /\ tx.at = "none"
      /\ JobAt("resolving") /\ Top.requires = <<>>
      /\ UNCHANGED <<version, enabled, disk, excused>>
  BY InstallsFor DEF InstallTop, JobAt, rowVars
<1>2. CASE Fail
  BY <1>2, FailIsOver, OverIsFine
<1>3. CASE ~Fail
  <2>0. PICK b \in Builds, p \in Projects : b = b0 /\ p = Top.project
    BY <1>1 DEF Frames
  <2>1. PICK v, on : b = b0 /\ p = Top.project /\ v = Top.version /\ on = StaysOn(Top.project)
    BY <2>0
  <2>2. PICK changes : BeginChanges(b, changes)
    BY <1>3, <2>1 DEF InstallTop
  <2>3. tx'.at = "changing" /\ 1..Len(tx'.done) = {}
    BY <2>2, EmptySeq DEF BeginChanges, NoTx
  <2> DEFINE commit == {<<p, v, on>>}
  <2>4. job' = [job EXCEPT !.at = "changing", !.commit = commit]
    BY <1>3, <2>1 DEF InstallTop
  <2> HIDE DEF commit
  <2>5. /\ job'.at = "changing" /\ job'.commit = commit /\ job'.stack = job.stack
        /\ job'.op = job.op /\ job'.build = job.build /\ job'.pack = job.pack
    BY <1>1, <2>4 DEF JobFields
  <2>6. SameOf(b)
    BY <1>1, <2>3 DEF SameOf, Had, Has, Underway, SavedAt
  <2>7. KeepsReady(b)
    BY <1>1, <2>6, SameIsReady
  <2>8. GoesOnInstalling(b)
    <3>1. TopIsThere'
      BY <2>3 DEF TopIsThere, TxAt
    <3>2. \A i \in 1..Len(job'.stack) : FromStack(job'.stack[i])
      BY <2>5 DEF FromStack
    <3> QED
      BY <1>1, <2>1, <2>5, <2>7, <3>1, <3>2 DEF GoesOnInstalling, Installing, b0
  <2>9. Top' = Top /\ (StaysOn(p))' = on
    BY <1>1, <2>1, <2>5 DEF Top, StaysOn, Installed, b0
  <2>10. job'.commit = {<<Top'.project, Top'.version, StaysOn(Top.project)'>>} /\ Top'.requires = <<>>
    BY <1>1, <2>1, <2>5, <2>9 DEF commit, StaysOn, Installed, b0
  <2>11. StackShape'
    BY <1>1, <2>5, <2>10 DEF StackShape, Switching, JobAt
  <2> QED
    BY <1>1, <2>5, <2>8, <2>11, InstallsOn
<1> QED
  BY <1>2, <1>3

(* A switch concerns one row, which was off.                               *)
LEMMA InstallSwitches ==
  ASSUME LibraryInv, StackInv, Installing, Switching
  PROVE  \E b \in Builds, p \in Projects, from \in ContentPaths, to \in ContentPaths :
           /\ b = b0 /\ Installed(b, p) /\ job.commit = {<<p, version[b][p], TRUE>>}
           /\ from = OldPath /\ to = NewPath
           /\ from = Path(RowName(b, p), enabled[b][p]) /\ to = Path(RowName(b, p), TRUE)
           /\ enabled[b][p] => from = to
<1>1. PICK b \in Builds, p \in Projects, on \in BOOLEAN :
        /\ b = b0 /\ Installed(b, p) /\ job.commit = {<<p, version[b][p], on>>}
        /\ OldPath = Path(RowName(b, p), enabled[b][p]) /\ enabled[b][p] \in BOOLEAN
        /\ NewPath = Path(RowName(b, p), on)
  BY SwitchedPaths
<1>2. PICK q \in Projects : job.commit = {<<q, version[b][q], TRUE>>}
  BY <1>1 DEF StackInv, StackShape
<1>3. <<p, version[b][p], on>> = <<q, version[b][q], TRUE>>
  BY <1>1, <1>2
<1>4. on = TRUE
  BY <1>3
<1>5. OldPath \in ContentPaths /\ NewPath \in ContentPaths
  BY Switched
<1>6. enabled[b][p] => OldPath = NewPath
  BY <1>1, <1>4
<1> QED
  BY <1>1, <1>4, <1>5, <1>6

LEMMA RenameContentInstalls ==
  ASSUME LibraryInv, ContentInv, StackInv, Installing, RenameContent
  PROVE  StackInv'
<1>1. /\ JobShape /\ RowShape /\ tx.at = "none" /\ Switching /\ JobAt("renaming")
      /\ UNCHANGED <<version, enabled, tx, excused>>
  BY InstallsFor DEF RenameContent, JobAt, Switching, rowVars
<1>2. CASE Fail
  BY <1>2, FailIsOver, OverIsFine
<1>3. CASE ~Fail
  <2>1. ~Has(b0, NewPath) /\ Has(b0, OldPath) /\ Move(OldPath, NewPath) /\ To("recording")
    BY <1>3 DEF RenameContent
  <2>2. PICK b \in Builds, p \in Projects, from \in ContentPaths, to \in ContentPaths :
           /\ b = b0 /\ Installed(b, p) /\ job.commit = {<<p, version[b][p], TRUE>>}
           /\ from = OldPath /\ to = NewPath
           /\ from = Path(RowName(b, p), enabled[b][p]) /\ to = Path(RowName(b, p), TRUE)
           /\ enabled[b][p] => from = to
    BY <1>1, InstallSwitches
  <2>3. from # to /\ Move(from, to) /\ ~enabled[b][p] /\ b = b0 /\ from \in Paths /\ to \in Paths
    <3>1. Has(b, from) /\ ~Has(b, to) /\ Move(from, to) /\ b = b0
      BY <2>1, <2>2
    <3>2. from # to
      BY <3>1
    <3>3. ~enabled[b][p]
      BY <2>2, <3>2
    <3>4. from \in Paths /\ to \in Paths
      BY ContentAssumption
    <3> QED
      BY <3>1, <3>2, <3>3, <3>4
  <2>4. \A path \in Paths \ {from, to} : disk'[b][path] = disk[b][path]
    BY <2>3, MovesFile
  <2>5. KeepsReady(b) \/ excused[b]
    <3> SUFFICES ASSUME ~excused[b], NEW q \in Projects, Ready(b, q) PROVE Ready(b, q)'
      BY DEF KeepsReady
    <3>1. Installed(b, q) /\ q # p
      BY <2>3 DEF Ready
    <3>2. PICK path \in ContentPaths : path = RowPath(b, q)
      BY <1>1, <3>1, RowPaths
    <3>3. path \in Paths \ {from, to}
      <4>1. path # Path(RowName(b, p), TRUE) /\ path # Path(RowName(b, p), enabled[b][p])
        BY <2>2, <3>1, <3>2, OthersApart
      <4>2. path \in Paths
        BY ContentAssumption
      <4> QED
        BY <2>2, <4>1, <4>2
    <3>4. Had(b, path)' <=> Had(b, path)
      BY <1>1, <2>4, <3>3 DEF Had, Has, Underway
    <3>5. RowPath(b, q)' = path /\ Installed(b, q)' /\ enabled'[b][q]
      BY <1>1, <3>2 DEF RowPath, Installed, Ready
    <3> QED
      BY <3>2, <3>4, <3>5 DEF Ready
  <2>6. /\ job'.at = "recording" /\ job'.op = job.op /\ job'.build = job.build
        /\ job'.stack = job.stack /\ job'.commit = job.commit /\ job'.pack = job.pack
    BY <1>1, <2>1, MovesOn
  <2>7. GoesOnInstalling(b)
    <3>1. \A i \in 1..Len(job'.stack) : FromStack(job'.stack[i])
      BY <2>6 DEF FromStack
    <3> QED
      BY <1>1, <2>2, <2>5, <2>6, <3>1 DEF GoesOnInstalling, Installing, b0
  <2>8. \E q \in Projects : job'.commit = {<<q, version'[job'.build][q], TRUE>>}
    BY <1>1, <2>2, <2>6 DEF b0
  <2>9. StackShape'
    BY <2>6, <2>8 DEF StackShape, StackInv, Installing, JobAt, b0
  <2> QED
    BY <1>1, <2>6, <2>7, <2>9, InstallsOn
<1> QED
  BY <1>2, <1>3

LEMMA RecordToggleInstalls ==
  ASSUME LibraryInv, ContentInv, StackInv, Installing, RecordToggle
  PROVE  StackInv'
<1>1. /\ JobShape /\ RowShape /\ tx.at = "none" /\ Switching /\ JobAt("recording")
      /\ job.stack # <<>> /\ UNCHANGED <<disk, tx, excused>>
  BY InstallsFor DEF RecordToggle, JobAt, Switching
<1>2. PICK b \in Builds, p \in Projects, from \in ContentPaths, to \in ContentPaths :
         /\ b = b0 /\ Installed(b, p) /\ job.commit = {<<p, version[b][p], TRUE>>}
         /\ from = OldPath /\ to = NewPath
         /\ from = Path(RowName(b, p), enabled[b][p]) /\ to = Path(RowName(b, p), TRUE)
         /\ enabled[b][p] => from = to
  BY <1>1, InstallSwitches
<1>3. CASE Record(b0, job.commit) /\ To("resolving")
  <2>1. /\ job'.at = "resolving" /\ job'.op = job.op /\ job'.build = job.build
        /\ job'.stack = job.stack /\ job'.pack = job.pack
    BY <1>1, <1>3, MovesOn
  <2>2. PICK rows : rows = {<<p, version[b][p], TRUE>>}
    OBVIOUS
  <2>3. Record(b, rows) /\ RowShape
    BY <1>1, <1>2, <1>3, <2>2
  <2>4. \A q \in Projects : ~HasRow(rows, q) =>
              version'[b][q] = version[b][q] /\ enabled'[b][q] = enabled[b][q]
    BY <2>3, RecordsRows
  <2>5. \A q \in Projects : HasRow(rows, q) => q = p
    BY <2>2 DEF HasRow
  <2>6. ~enabled[b][p]
    BY <1>1, <1>2 DEF ContentInv, MovedInv, Moved, JobAt
  <2>7. KeepsReady(b)
    <3> SUFFICES ASSUME NEW q \in Projects, Ready(b, q) PROVE Ready(b, q)'
      BY DEF KeepsReady
    <3>1. ~HasRow(rows, q)
      BY <2>5, <2>6 DEF Ready
    <3>2. PICK path : path = RowPath(b, q)
      OBVIOUS
    <3>3. RowPath(b, q)' = path /\ Installed(b, q)' /\ enabled'[b][q]
      BY <2>4, <3>1, <3>2 DEF RowPath, Installed, Ready
    <3>4. Had(b, path)'
      BY <1>1, <3>2 DEF Had, Has, Underway, SavedAt, Ready
    <3> QED
      BY <3>3, <3>4 DEF Ready
  <2>8. GoesOnInstalling(b)
    <3>1. \A i \in 1..Len(job'.stack) : FromStack(job'.stack[i])
      BY <2>1 DEF FromStack
    <3> QED
      BY <1>1, <1>2, <2>1, <2>7, <3>1 DEF GoesOnInstalling, Installing, b0
  <2>9. StackShape'
    BY <1>1, <2>1 DEF StackShape, StackInv, Installing, Switching, JobAt
  <2> QED
    BY <1>1, <2>1, <2>8, <2>9, InstallsOn
<1>4. CASE To("renamingBack") /\ UNCHANGED <<version, enabled>>
  <2>1. /\ job'.at = "renamingBack" /\ job'.op = job.op /\ job'.build = job.build
        /\ job'.stack = job.stack /\ job'.pack = job.pack /\ job'.commit = job.commit
    BY <1>1, <1>4, MovesOn
  <2>2. KeepsReady(b)
    BY <1>1, <1>4, SameIsSame, SameIsReady
  <2>3. GoesOnInstalling(b)
    <3>1. \A i \in 1..Len(job'.stack) : FromStack(job'.stack[i])
      BY <2>1 DEF FromStack
    <3> QED
      BY <1>1, <1>2, <2>1, <2>2, <3>1 DEF GoesOnInstalling, Installing, b0
  <2>4. \E q \in Projects : job'.commit = {<<q, version'[job'.build][q], TRUE>>}
    BY <1>2, <1>4, <2>1 DEF b0
  <2>5. StackShape'
    BY <2>1, <2>4 DEF StackShape, StackInv, Installing, JobAt, b0
  <2> QED
    BY <1>1, <2>1, <2>3, <2>5, InstallsOn
<1> QED
  BY <1>1, <1>3, <1>4 DEF RecordToggle

LEMMA RunChangesInstalls ==
  ASSUME LibraryInv, ContentInv, StackInv, Installing, RunChanges
  PROVE  StackInv'
<1>1. /\ FileStep /\ JobAt("changing") /\ UNCHANGED <<version, enabled, excused, job>>
      /\ Shape /\ TxShape /\ JobShape /\ RowShape /\ Tidy /\ ~TxAt("none")
  BY FilesInTransaction, InstallsFor DEF RunChanges, contentVars, ContentInv, TidyInv
<1>2. PICK b \in Builds : b = b0 /\ b = tx.build
  BY <1>1, InTransaction
<1>3. tx'.at \in {"changing", "placing", "undoing"} /\ tx.at # "cleaning"
  BY <1>1, <1>2, WithinAll, FileStepKeeps DEF FileStep, SetAside, PlaceFile, UndoChange, TxAt
<1>4. CASE UndoChange
  <2>1. tx'.at = "undoing"
    BY <1>1, <1>4 DEF UndoChange, TxAt, TxShape
  <2> QED
    BY <1>1, <1>2, <1>3, <2>1 DEF StackInv, StackShape, StackReady, Succeeded, RequiredAreEnabled,
       Switching, Installing, JobAt, TxAt, StaysOn, Installed, Top, b0
<1>5. CASE SetAside \/ PlaceFile
  <2>1. \A path \in Paths : Had(b, path)' <=> Had(b, path)
    BY <1>1, <1>2, <1>5, SetAsideSpares, PlaceFileSpares DEF Spares
  <2>2. SameOf(b)
    BY <1>1, <2>1, ContentAssumption DEF SameOf
  <2>3. KeepsReady(b)
    BY <1>1, <2>2, SameIsReady
  <2>4. tx.at # "undoing"
    BY <1>5 DEF SetAside, PlaceFile, TxAt
  <2>5. GoesOnInstalling(b)
    <3>1. \A i \in 1..Len(job'.stack) : FromStack(job'.stack[i])
      BY <1>1 DEF FromStack
    <3>2. TopIsThere'
      BY <1>3 DEF TopIsThere, TxAt
    <3> QED
      BY <1>1, <1>2, <2>3, <2>4, <3>1, <3>2 DEF GoesOnInstalling, Installing, b0
  <2>6. StackShape'
    BY <1>1, <1>3 DEF StackInv, StackShape, Switching, Installing, JobAt, TxAt, StaysOn,
                      Installed, Top, b0
  <2> QED
    BY <1>1, <2>5, <2>6, InstallsOn DEF JobAt
<1> QED
  BY <1>1, <1>4, <1>5 DEF FileStep

LEMMA WriteRowsInstalls ==
  ASSUME LibraryInv, ContentInv, StackInv, Installing, WriteRows
  PROVE  StackInv'
<1>1. /\ JobAt("changing") /\ tx.at = "changing" /\ tx.todo = <<>> /\ job.pack = NoPack
      /\ UNCHANGED <<job, excused, disk>> /\ TxShape /\ JobShape /\ RowShape
      /\ job.stack # <<>> /\ Top \in Frames /\ Top.requires = <<>> /\ tx.build = b0
  BY InstallsFor, InTransaction DEF WriteRows, AllChanged, TxAt, StackInv, StackShape, JobAt
<1>0. PICK b \in Builds, p \in Projects, v \in Versions :
        b = b0 /\ p = Top.project /\ v = Top.version
  BY <1>1, InstallsFor DEF Frames
<1>2. PICK on : b = b0 /\ p = Top.project /\ v = Top.version /\ on = StaysOn(Top.project)
  BY <1>0
<1>3. job.commit = {<<p, v, on>>}
  BY <1>1, <1>2 DEF StackInv, StackShape, TxAt
<1>4. \A i \in 1..Len(job'.stack) : FromStack(job'.stack[i])
  BY <1>1 DEF FromStack
<1>5. CASE Undo /\ UNCHANGED <<version, enabled>>
  <2>1. tx'.at = "undoing"
    BY <1>1, <1>5, TxMoves DEF Undo
  <2> QED
    BY <1>1, <1>5, <2>1 DEF StackInv, StackShape, StackReady, Succeeded, RequiredAreEnabled,
       Switching, Installing, JobAt, TxAt, StaysOn, Installed, Top, b0
<1>6. CASE Record(b0, job.commit) /\ tx' = [tx EXCEPT !.at = "cleaning"]
  <2>1. tx'.at = "cleaning" /\ ~Underway'
    BY <1>1, <1>6 DEF TxShape, Underway
  <2>2. PICK rows : rows = {<<p, v, on>>} /\ rows = job.commit
    BY <1>3
  <2>3. Record(b, rows)
    BY <1>2, <1>6, <2>2
  <2>4. HasRow(rows, p) /\ \A q \in Projects : HasRow(rows, q) => q = p
    BY <2>2 DEF HasRow
  <2>5. \A q \in Projects : q # p =>
          version'[b][q] = version[b][q] /\ enabled'[b][q] = enabled[b][q]
    BY <1>1, <2>3, <2>4, RecordsRows
  <2>6. version'[b][p] = v /\ enabled'[b][p] = on
    <3>1. PICK c \in rows : c[1] = p /\ version'[b][p] = c[2] /\ enabled'[b][p] = c[3]
      BY <1>1, <2>3, <2>4, RecordsRows
    <3>2. c = <<p, v, on>>
      BY <2>2
    <3> QED
      BY <3>1, <3>2
  <2>7. FilesOf(rows, job.pack, b) /\ \A path : WillHave(path) <=> Has(b, path)
    <3>1. 1..Len(tx.todo) = {}
      BY <1>1, EmptySeq
    <3>2. \A path : WillHave(path) <=> Has(b, path)
      BY <1>1, <1>2, <3>1 DEF WillHave, PlannedAt
    <3> QED
      BY <1>1, <1>2, <2>2, <3>2 DEF ContentInv, FilesInv, Working, JobAt
  <2>8. PICK new : new = ProjectPath(p, v, on)
    OBVIOUS
  <2>9. Has(b, new) /\ RowPath(b, p)' = new /\ Installed(b, p)' /\ Had(b, new)'
    <3>1. v # 0
      BY DEF Versions
    <3>2. new \in PutPaths(rows)
      BY <2>2, <2>8, <3>1 DEF PutPaths
    <3>3. Has(b, new)
      BY <2>7, <3>2 DEF FilesOf
    <3>4. Had(b, new)'
      BY <1>1, <2>1, <3>3 DEF Had, Has
    <3> QED
      BY <2>6, <2>8, <3>1, <3>3, <3>4 DEF RowPath, Installed
  <2>10. ASSUME ~excused[b]
         PROVE  KeepsReady(b)
    <3> SUFFICES ASSUME NEW q \in Projects, Ready(b, q) PROVE Ready(b, q)'
      BY DEF KeepsReady
    <3>1. Installed(b, q) /\ enabled[b][q]
      BY DEF Ready
    <3>2. CASE q = p
      <4>1. on = TRUE
        BY <1>1, <1>2, <3>1, <3>2 DEF StaysOn, RowShape
      <4> QED
        BY <2>6, <2>9, <3>2, <4>1 DEF Ready
    <3>3. CASE q # p
      <4>1. PICK path \in ContentPaths : path = RowPath(b, q)
        BY <1>1, <3>1, RowPaths
      <4>2. ~Replaces(rows, b, path)
        <5> SUFFICES ASSUME Installed(b, p), path = RowPath(b, p) PROVE FALSE
          BY <2>4 DEF Replaces
        <5>1. path = Path(RowName(b, p), enabled[b][p])
          BY DEF RowPath, ProjectPath, RowName
        <5> QED
          BY <2>10, <3>1, <3>3, <4>1, <5>1, OthersApart
      <4>3. Had(b, path)
        BY <4>1 DEF Ready
      <4>4. Has(b, path)
        BY <2>7, <4>2, <4>3 DEF FilesOf
      <4>5. Had(b, path)'
        BY <1>1, <2>1, <4>4 DEF Had, Has
      <4>6. RowPath(b, q)' = path /\ Installed(b, q)' /\ enabled'[b][q]
        BY <2>5, <3>1, <3>3, <4>1 DEF RowPath, Installed
      <4> QED
        BY <4>5, <4>6 DEF Ready
    <3> QED
      BY <3>2, <3>3
  <2>11. TopIsThere'
    <3>1. b0' = b /\ Top'.project = p
      BY <1>1, <1>2 DEF b0, Top
    <3>2. Has(b, new)'
      BY <1>1, <2>9 DEF Has
    <3> QED
      BY <2>9, <3>1, <3>2 DEF TopIsThere, Installed, RowPath, Has
  <2>12. GoesOnInstalling(b)
    BY <1>1, <1>2, <1>4, <2>10, <2>11 DEF GoesOnInstalling, Installing, b0
  <2>13. StackShape'
    BY <1>1, <2>1 DEF StackInv, StackShape, Switching, Installing, JobAt, TxAt, Top
  <2> QED
    BY <1>1, <2>12, <2>13, InstallsOn DEF JobAt
<1> QED
  BY <1>5, <1>6 DEF WriteRows

(* What was required is ready when nothing is left on the stack.           *)
LEMMA AnswersWithStack ==
  ASSUME JobShape, job' = [Answer("ok") EXCEPT !.stack = job.stack]
  PROVE  /\ job'.at = "idle" /\ job'.op = job.op /\ job'.build = job.build
         /\ job'.stack = job.stack
<1> DEFINE r == Answer("ok")
<1>1. DOMAIN r = JobFields /\ r.at = "idle" /\ r.op = job.op /\ r.build = job.build
  BY Answers
<1> HIDE DEF r
<1>2. job' = [r EXCEPT !.stack = job.stack]
  BY DEF r
<1> QED
  BY <1>1, <1>2 DEF JobFields

LEMMA AllIsReady ==
  ASSUME LibraryInv, StackInv, Installing, JobAt("changing"), TxAt("cleaning"), ~excused[b0],
         NEW b \in Builds, b = b0, NEW top \in Projects, top = Top.project
  PROVE  /\ Installed(b, top) /\ Has(b, RowPath(b, top))
         /\ top \notin CurseForge => \A i \in DOMAIN Requires[top] :
              Ready(b, Requires[top][i].project)
<1>1. /\ JobShape /\ job.stack # <<>> /\ Top \in Frames /\ Top = job.stack[1]
      /\ 1 \in 1..Len(job.stack) /\ Top.requires = <<>>
  BY InstallsFor, AllFrames DEF StackInv, StackShape
<1>2. AllProvided /\ TopIsThere
  BY DEF StackInv, StackReady, TxAt
<1>3. PICK frame \in Frames : frame = Top
  BY <1>1
<1>4. Provided(frame, b)
  BY <1>1, <1>2, <1>3 DEF AllProvided
<1>5. 1..Len(frame.requires) = {}
  BY <1>1, <1>3, EmptySeq
<1>6. top \notin CurseForge => \A i \in DOMAIN Requires[top] :
              Ready(b, Requires[top][i].project)
  BY <1>3, <1>4, <1>5 DEF Provided
<1>7. Installed(b, top) /\ Has(b, RowPath(b, top))
  BY <1>2 DEF TopIsThere
<1> QED
  BY <1>6, <1>7

LEMMA FinishInstalls ==
  ASSUME LibraryInv, StackInv, Installing, Finish
  PROVE  StackInv'
<1>1. /\ JobAt("changing") /\ TxAt("cleaning") /\ tx' = NoTx /\ tx'.at = "none"
      /\ UNCHANGED <<version, enabled, disk, excused>>
      /\ JobShape /\ RowShape /\ DOMAIN job = JobFields /\ b0 \in Builds /\ job.stack # <<>>
      /\ job.pack = NoPack
  BY InstallsFor DEF Finish, EndChanges, NoTx, rowVars
<1>2. PICK b \in Builds, top \in Projects : b = b0 /\ top = Top.project
  BY <1>1, InstallsFor DEF Frames
<1>3. CASE Len(job.stack) > 1
  <2> DEFINE rest == Tail(job.stack)
  <2>1. job' = [job EXCEPT !.at = "resolving", !.stack = rest]
    BY <1>1, <1>3 DEF Finish, JobFields
  <2>2. rest # <<>>
    <3>1. job.stack \in Seq(Frames) /\ Len(job.stack) \in Nat
      BY <1>1 DEF JobShape
    <3>2. Len(rest) = Len(job.stack) - 1
      BY <1>1, <3>1, PartsOfLists
    <3>3. \A n \in Nat : n > 1 => n - 1 # 0
      OBVIOUS
    <3>4. Len(rest) # 0
      BY <1>3, <3>1, <3>2, <3>3
    <3> QED
      BY <3>4, EmptySeq
  <2>3. \A i \in 1..Len(rest) : FromStack(rest[i])
    BY <1>1, AllFrames DEF FromStack
  <2> HIDE DEF rest
  <2>4. /\ job'.at = "resolving" /\ job'.stack = rest
        /\ job'.op = job.op /\ job'.build = job.build /\ job'.pack = job.pack
    BY <1>1, <2>1 DEF JobFields
  <2>5. KeepsReady(b)
    BY <1>1, SameAtRest, SameIsReady DEF Underway, TxAt
  <2>6. GoesOnInstalling(b)
    BY <1>1, <1>2, <2>3, <2>4, <2>5 DEF GoesOnInstalling, Installing, TxAt, b0
  <2>7. StackShape'
    BY <1>1, <2>2, <2>4 DEF StackShape, Switching, JobAt
  <2> QED
    BY <1>1, <2>4, <2>6, <2>7, InstallsOn
<1>4. CASE ~(Len(job.stack) > 1)
  <2>1. job' = [Answer("ok") EXCEPT !.stack = job.stack]
    BY <1>4 DEF Finish, Installing
  <2>2. job'.at = "idle" /\ job'.op = job.op /\ job'.build = b /\ job'.stack = job.stack
    BY <1>1, <1>2, <2>1, AnswersWithStack DEF b0
  <2>3. job'.stack[1].project = top
    BY <1>1, <1>2, <2>2, AllFrames
  <2>4. ASSUME ~excused[b]
        PROVE  /\ Installed(b, top)' /\ Has(b, RowPath(b, top))'
               /\ top \notin CurseForge => \A i \in DOMAIN Requires[top] :
                    Ready(b, Requires[top][i].project)
    <3>1. /\ Installed(b, top) /\ Has(b, RowPath(b, top))
          /\ top \notin CurseForge => \A i \in DOMAIN Requires[top] :
               Ready(b, Requires[top][i].project)
      BY <1>1, <1>2, <2>4, AllIsReady
    <3> QED
      BY <1>1, <3>1 DEF Installed, Has, RowPath
  <2>5. \A q : Ready(b, q) => (Installed(b, q) /\ enabled[b][q] /\ Has(b, RowPath(b, q)))'
    <3> SUFFICES ASSUME NEW q, Ready(b, q)
                 PROVE  (Installed(b, q) /\ enabled[b][q] /\ Has(b, RowPath(b, q)))'
      OBVIOUS
    <3>1. Installed(b, q) /\ enabled[b][q] /\ Has(b, RowPath(b, q))
      BY <1>1 DEF Ready, Had, Underway, TxAt
    <3> QED
      BY <1>1, <3>1 DEF Installed, Has, RowPath
  <2>6. (RequiredAreEnabled)'
    <3> SUFFICES ASSUME ~excused[b]
                 PROVE  /\ Installed(b, top)' /\ Has(b, RowPath(b, top))'
                        /\ top \notin CurseForge => \A i \in DOMAIN Requires[top] :
                             (Installed(b, Requires[top][i].project)
                              /\ enabled[b][Requires[top][i].project]
                              /\ Has(b, RowPath(b, Requires[top][i].project)))'
      BY <1>1, <2>2, <2>3 DEF RequiredAreEnabled
    <3> QED
      BY <2>4, <2>5
  <2> QED
    BY <1>1, <2>2, <2>6 DEF StackInv, StackShape, StackReady, Installing, JobAt, b0
<1> QED
  BY <1>3, <1>4

LEMMA InstallProjectInstalls ==
  ASSUME LibraryInv, NEW b \in Builds, InstallProject(b)
  PROVE  StackInv'
<1>1. PICK p \in Projects, v \in Versions :
        job' = [Start("install", b) EXCEPT !.at = "resolving", !.stack = <<Frame(p, v)>>]
  BY DEF InstallProject
<1>2. PICK frame : frame = Frame(p, v)
  OBVIOUS
<1> DEFINE r == Start("install", b)
           stack == <<frame>>
<1>3. DOMAIN r = JobFields /\ r.op = "install" /\ r.build = b /\ r.pack = NoPack
  BY Starts
<1>4. stack # <<>> /\ \A i \in 1..Len(stack) : stack[i] = frame
  OBVIOUS
<1>5. job' = [r EXCEPT !.at = "resolving", !.stack = stack]
  BY <1>1, <1>2
<1> HIDE DEF r, stack
<1>6. /\ job'.at = "resolving" /\ job'.op = "install" /\ job'.build = b /\ job'.pack = NoPack
      /\ job'.stack = stack
  BY <1>3, <1>5 DEF JobFields
<1>7. Provided(frame, b)'
  BY <1>2, NothingPassed
<1>8. ASSUME NEW i \in 1..Len(job'.stack)
      PROVE  Provided(job.stack[i], b)'
  <2>1. job'.stack[i] = frame
    BY <1>4, <1>6
  <2> QED
    BY <1>7, <2>1 DEF Provided
<1>9. AllProvided'
  BY <1>6, <1>8 DEF AllProvided, b0
<1> QED
  BY <1>4, <1>6, <1>9 DEF StackInv, StackShape, StackReady, Succeeded, RequiredAreEnabled,
     Switching, JobAt

-----------------------------------------------------------------------------
(* An installation that has succeeded is not undone by what follows.       *)
LEMMA WaitsInstalls ==
  ASSUME LibraryInv, StackInv, Waits
  PROVE  StackInv'
<1>1. /\ JobShape /\ RowShape /\ UNCHANGED <<job, version, enabled, excused>> /\ JobAt("idle")
      /\ \A x \in Builds, path \in ContentPaths : disk'[x][path] = disk[x][path]
  BY DEF LibraryInv, Shape, Waits
<1>2. ~Installing' /\ (Succeeded' <=> Succeeded)
  BY <1>1 DEF Installing, Succeeded, JobAt
<1>3. ASSUME Succeeded
      PROVE  (RequiredAreEnabled)'
  <2>1. PICK b \in Builds : b = job.build
    BY <1>3 DEF StackInv, b0
  <2>2. PICK top \in Projects : top = job.stack[1].project
    <3>1. job.stack # <<>>
      BY <1>3 DEF StackInv
    <3> QED
      BY <1>1, <3>1, AllFrames DEF Frames
  <2>3. ASSUME NEW q \in Projects, Installed(b, q), Has(b, RowPath(b, q))
        PROVE  (Installed(b, q) /\ Has(b, RowPath(b, q)))'
    <3>1. PICK path \in ContentPaths : path = RowPath(b, q)
      BY <1>1, <2>3, RowPaths
    <3>2. Has(b, path)'
      BY <1>1, <2>3, <3>1 DEF Has
    <3>3. RowPath(b, q)' = path
      BY <1>1, <3>1 DEF RowPath
    <3> QED
      BY <1>1, <2>3, <3>2, <3>3 DEF Installed, Has
  <2>4. CASE excused[b]
    BY <1>1, <2>1, <2>4 DEF RequiredAreEnabled
  <2>5. CASE ~excused[b]
    <3>1. /\ Installed(b, top) /\ Has(b, RowPath(b, top))
          /\ top \notin CurseForge => \A i \in DOMAIN Requires[top] :
               /\ Installed(b, Requires[top][i].project)
               /\ enabled[b][Requires[top][i].project]
               /\ Has(b, RowPath(b, Requires[top][i].project))
      BY <1>1, <1>3, <2>1, <2>2, <2>5 DEF StackInv, RequiredAreEnabled, Succeeded
    <3>2. \A i \in DOMAIN Requires[top] : Requires[top][i].project \in Projects
      <4>1. Requires[top] \in Seq(Requirements)
        BY ContentAssumption DEF Requirements
      <4>2. \A i \in DOMAIN Requires[top] : Requires[top][i] \in Requirements
        BY <4>1, ElementOfSeq
      <4> QED
        BY <4>2 DEF Requirements
    <3>3. /\ (Installed(b, top) /\ Has(b, RowPath(b, top)))'
          /\ top \notin CurseForge => \A i \in DOMAIN Requires[top] :
               (Installed(b, Requires[top][i].project)
                /\ enabled[b][Requires[top][i].project]
                /\ Has(b, RowPath(b, Requires[top][i].project)))'
      BY <1>1, <2>3, <3>1, <3>2
    <3> QED
      BY <1>1, <2>1, <2>2, <3>3 DEF RequiredAreEnabled
  <2> QED
    BY <2>4, <2>5
<1>4. ASSUME ~Succeeded
      PROVE  (RequiredAreEnabled)'
  BY <1>2, <1>4 DEF RequiredAreEnabled, Succeeded, JobAt
<1> QED
  BY <1>1, <1>2, <1>3, <1>4 DEF StackInv, StackShape, StackReady, b0

LEMMA StackStays ==
  ASSUME LibraryInv, StackInv, UNCHANGED libraryVars
  PROVE  StackInv'
<1>1. /\ UNCHANGED <<job, version, enabled, excused, disk, tx>> /\ JobShape /\ RowShape
      /\ DiskShape
  BY DEF libraryVars, contentVars, fileVars, LibraryInv, Shape
<1>2. CASE Installing
  <2>1. PICK b \in Builds : b = b0
    BY <1>2, InstallsFor
  <2>2. KeepsReady(b)
    BY <1>1, SameIsSame, SameIsReady
  <2>3. GoesOnInstalling(b)
    <3>1. \A i \in 1..Len(job'.stack) : FromStack(job'.stack[i])
      BY <1>1 DEF FromStack
    <3>2. tx.at # "undoing" /\ ~excused[b] => (JobAt("changing") => TopIsThere)
      BY <1>2, <2>1 DEF StackInv, StackReady, TxAt
    <3>3. TopIsThere => TopIsThere'
      BY <1>1 DEF TopIsThere, TxAt, Installed, Has, RowPath, Top, b0
    <3> QED
      BY <1>1, <1>2, <2>1, <2>2, <3>1, <3>2, <3>3 DEF GoesOnInstalling, Installing, JobAt, b0
  <2>4. StackShape'
    BY <1>1, <1>2 DEF StackInv, StackShape, Switching, Installing, JobAt, TxAt, StaysOn,
                      Installed, Top, b0
  <2> QED
    BY <1>1, <1>2, <2>3, <2>4, InstallsOn DEF Installing, JobAt
<1>3. CASE JobAt("idle")
  BY <1>1, <1>3, WaitsInstalls DEF Waits
<1>4. CASE job.op # "install"
  BY <1>1, <1>4, OverIsFine DEF Over
<1> QED
  BY <1>2, <1>3, <1>4 DEF Installing

LEMMA StackInvKept == ASSUME LibraryInv, ContentInv, StackInv, LibraryNext PROVE StackInv'
<1>1. \/ Over \/ Waits \/ (Installing /\ InstallStep)
      \/ \E b \in Builds : InstallProject(b)
  BY InstallSteps
<1>2. CASE Installing /\ InstallStep
  BY <1>2, TakeRequirementInstalls, DescendToRequirementInstalls, InstallTopInstalls,
     RenameContentInstalls, RecordToggleInstalls, WriteRowsInstalls, FinishInstalls,
     RunChangesInstalls DEF InstallStep
<1> QED
  BY <1>1, <1>2, OverIsFine, WaitsInstalls, InstallProjectInstalls

LEMMA StackInvAlways == LibrarySpec => []StackInv
<1>1. LibraryInit => StackInv
  <2> SUFFICES ASSUME LibraryInit PROVE StackInv
    OBVIOUS
  <2>1. job.op # "install"
    BY DEF LibraryInit, ContentInit, NoJob
  <2> QED
    BY <2>1 DEF StackInv, StackShape, StackReady, Succeeded, RequiredAreEnabled, Installing
<1>2. LibraryInv /\ ContentInv /\ StackInv /\ [LibraryNext]_libraryVars => StackInv'
  BY StackInvKept, StackStays
<1> QED
  BY <1>1, <1>2, LibraryIsConsistent, ContentInvAlways, PTL DEF LibrarySpec

(* When the installation of a project from Modrinth has succeeded, the     *)
(* project is there, and everything it requires is there, switched on and  *)
(* has its file (install_project_inner, enable_required_dependency).       *)
THEOREM RequirementsAreAlwaysEnabled == LibrarySpec => []RequiredAreEnabled
<1>1. StackInv => RequiredAreEnabled
  BY DEF StackInv
<1> QED
  BY <1>1, StackInvAlways, PTL
=============================================================================
