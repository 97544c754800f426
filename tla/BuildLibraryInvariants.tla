------------------------ MODULE BuildLibraryInvariants ------------------------
(***************************************************************************)
(* What holds of BuildLibrary in every state, and the kinds of steps it    *)
(* takes; BuildLibraryProofs shows that the steps are of these kinds and   *)
(* that each kind keeps the invariants.                                    *)
(*                                                                         *)
(*   LibraryInv   what an operation knows of its build at each phase       *)
(*   RepairInv    a repair cannot reach a file the user has edited         *)
(*   ContentInv   where the files of rows are, transactions included       *)
(*   MatchInv     the files of a build are those of its rows               *)
(*   StackInv     what an installation has passed stays ready              *)
(***************************************************************************)
EXTENDS BuildLibrary

JobFields == {"at", "op", "build", "stack", "commit", "pack", "repairing", "loader",
              "from", "answer"}
Frames == [project : Projects, version : Versions,
           requires : Seq([project : Projects, pin : 0..MaxVersion])]
Rows == Projects \X (0..MaxVersion) \X BOOLEAN
Contents == {Absent, Sound, Edited}
Changes == [path : Paths, to : {Sound, Absent}]
Saved == [path : Paths, old : Contents]

JobShape ==
  /\ DOMAIN job = JobFields
  /\ job.stack \in Seq(Frames)
  /\ job.commit \subseteq Rows
  /\ job.pack \in Packs \cup {NoPack}

TxShape ==
  /\ DOMAIN tx = {"at", "build", "todo", "done", "failed"}
  /\ tx.at \in {"none", "changing", "placing", "undoing", "cleaning"}
  /\ tx.todo \in Seq(Changes)
  /\ tx.done \in Seq(Saved)
  /\ tx.at = "placing" => tx.todo # <<>> /\ Head(tx.todo).to = Sound

RowShape ==
  /\ listed \subseteq Builds
  /\ version \in [Builds -> [Projects -> 0..MaxVersion]]
  /\ enabled \in [Builds -> [Projects -> BOOLEAN]]
  /\ source \in [Builds -> Packs \cup {NoPack}]
  /\ previews \subseteq Packs

DiskShape ==
  /\ disk \in [Builds -> [Paths -> Contents]]
  /\ torn \in [Builds -> BOOLEAN] /\ excused \in [Builds -> BOOLEAN]
  /\ DOMAIN place = Builds /\ DOMAIN loader = Builds

Shape == JobShape /\ TxShape /\ RowShape /\ DiskShape

(* Who works on what: which operation is in which phase, and what it knows *)
(* of the row of its build.                                                *)
OnListed == {"install", "remove", "import", "toggle", "pack", "repair", "select", "delete"}
OfPacks == {"newPack", "confirmed", "pack", "repair"}

PhaseInv ==
  /\ ~JobAt("idle") => b0 \in Builds
  /\ job.at \in {"preparing", "forging", "failing"} => job.op \in OfPacks \cup {"create"}
  /\ job.at = "downloading" => job.op \in OfPacks /\ job.pack # NoPack
  /\ job.at = "changing" => job.op \in OfPacks \cup {"install", "remove", "import"}
  /\ job.at = "resolving" =>
       job.op \in {"install", "repair"} /\ job.pack = NoPack /\ job.stack # <<>>
  /\ job.at \in {"renaming", "recording", "renamingBack"} =>
       job.op \in {"install", "repair", "toggle"} /\ job.pack = NoPack
  /\ job.at = "inserting" => job.op = "create"
  /\ job.at = "selecting" => b0 \in listed
  /\ job.at \in {"copying", "insertingCopy", "copyingRows"} => job.op = "copy"
  /\ job.at \in {"deleting", "deletingRow", "movingBack"} => job.op = "delete"
  /\ ~JobAt("idle") /\ job.op \notin {"install", "repair"} => job.stack = <<>>
  /\ ~JobAt("idle") /\ job.pack # NoPack => job.stack = <<>>
  /\ ~JobAt("idle") /\ job.op = "create" => job.pack = NoPack
  /\ ~JobAt("idle") /\ job.op \in OnListed => b0 \in listed
  /\ ~JobAt("idle") /\ NewPack =>
       job.pack # NoPack /\ (~TxAt("cleaning") => b0 \notin listed)

(* A row that is switched is one of the build.                             *)
SwitchInv ==
  job.at \in {"renaming", "recording", "renamingBack"} =>
    \E p \in Projects, on \in BOOLEAN :
      Installed(b0, p) /\ job.commit = {<<p, version[b0][p], on>>}

(* A transaction belongs to the operation, and only that which installs    *)
(* Forge touches the files of Forge, putting both in place.                *)
UserPaths == ContentPaths \cup {ConfigPath}
ForgeThere(b) == \A i \in 1..2 : Has(b, ForgeFiles[i])
TxInv ==
  /\ job.at \in {"changing", "forging"} <=> ~TxAt("none")
  /\ ~TxAt("none") => tx.build = b0
  /\ job.at = "changing" =>
       /\ \A i \in 1..Len(tx.todo) : tx.todo[i].path \in UserPaths
       /\ \A i \in 1..Len(tx.done) : tx.done[i].path \in UserPaths
  /\ job.at = "forging" =>
       ~TxAt("cleaning") /\ \A i \in 1..Len(tx.todo) : tx.todo[i].to = Sound
  /\ job.at = "forging" /\ ~TxAt("undoing") =>
       \A i \in 1..2 : Has(b0, ForgeFiles[i]) \/
                       \E j \in 1..Len(tx.todo) : tx.todo[j] = Put(ForgeFiles[i])

(* A listed build, and one that is about to be.                            *)
Disturbed(b) == torn[b] \/ excused[b]
Trashing(b) == job.at \in {"deletingRow", "movingBack"} /\ b = b0
Launchable(b) ==
  /\ loader[b] \in registered
  /\ ~Disturbed(b) =>
       /\ (Trashing(b) /\ place[b] = "trash") \/ place[b] = "instances"
       /\ loader[b] = "forge" => ForgeThere(b)

Carried ==
  \/ job.at \in {"downloading", "inserting"}
  \/ job.at = "changing" /\ job.pack # NoPack
NextInv ==
  /\ job.at = "forging" => Wanted = "forge"
  /\ job.at = "forging" /\ b0 \in listed => Disturbed(b0) \/ loader[b0] # "forge"
  /\ Carried => job.loader \in registered /\ (job.loader = "forge" => ForgeThere(b0))
  /\ job.at \in {"preparing", "forging", "downloading", "changing", "inserting"}
       /\ b0 \notin listed => place[b0] = "instances"
  /\ job.at \in {"copying", "insertingCopy"} => job.from \in listed /\ b0 \notin listed
  /\ job.at = "copyingRows" => job.from \in listed
  /\ job.at = "insertingCopy" =>
       /\ place[b0] = "instances" /\ disk[b0] = disk[job.from]
       /\ torn[b0] = torn[job.from] /\ excused[b0] = excused[job.from]

ShelfInv == NextInv /\ \A b \in listed : Launchable(b)

(* What is active, without a count.                                        *)
SelectionInv ==
  /\ \/ listed = {} /\ active = {}
     \/ \E b \in listed : active = {b}
  /\ profile \in active \/ active = {} \/ halfway

LibraryInv == Shape /\ PhaseInv /\ SwitchInv /\ TxInv /\ ShelfInv /\ SelectionInv

-----------------------------------------------------------------------------
(* Repairs.  Whether the user has edited the file of the pack or not: a    *)
(* repair has nothing to do with its path, or there was nothing to keep    *)
(* when it began.                                                          *)
Unedited ==
  /\ disk[tx.build][ConfigPath] # Edited
  /\ \A i \in 1..Len(tx.done) : tx.done[i].path = ConfigPath => tx.done[i].old # Edited

(* All changes of the transaction are at paths of U.                       *)
Within(U) ==
  /\ \A i \in 1..Len(tx.todo) : tx.todo[i].path \in U
  /\ \A i \in 1..Len(tx.done) : tx.done[i].path \in U

Others == Paths \ {ConfigPath}

RepairInv ==
  /\ job.repairing => job.op = "repair" /\ ~JobAt("idle")
  /\ job.repairing /\ ~TxAt("none") => Within(Others) \/ Unedited

-----------------------------------------------------------------------------
(* What is in a build.  While a transaction is underway the files that     *)
(* count are those it has found: what was at a path before, and what will  *)
(* be there when it is done.                                               *)
Underway == tx.at \in {"changing", "placing", "undoing"}
SavedAt(path) == \E i \in 1..Len(tx.done) : tx.done[i].path = path
PlannedAt(path) == \E i \in 1..Len(tx.todo) : tx.todo[i].path = path
Had(b, path) ==
  IF Underway /\ b = tx.build /\ SavedAt(path)
  THEN \E i \in 1..Len(tx.done) : tx.done[i].path = path /\ tx.done[i].old # Absent
  ELSE Has(b, path)
WillHave(path) ==
  IF PlannedAt(path)
  THEN \E i \in 1..Len(tx.todo) : tx.todo[i].path = path /\ tx.todo[i].to # Absent
  ELSE Has(tx.build, path)

(* No path is changed twice, and the one that is being placed is the last  *)
(* that was set aside; the installer of Forge keeps away from content.     *)
Tidy ==
  /\ \A i, j \in 1..Len(tx.done) : tx.done[i].path = tx.done[j].path => i = j
  /\ tx.at \in {"changing", "placing"} =>
       \A i, j \in 1..Len(tx.todo) : tx.todo[i].path = tx.todo[j].path => i = j
  /\ TxAt("changing") =>
       \A i \in 1..Len(tx.todo), j \in 1..Len(tx.done) : tx.todo[i].path # tx.done[j].path
  /\ TxAt("placing") =>
       /\ tx.done # <<>> /\ Last(tx.done).path = Head(tx.todo).path
       /\ \A i \in 1..Len(tx.todo), j \in 1..Len(tx.done) :
            tx.todo[i].path = tx.done[j].path => i = 1 /\ j = Len(tx.done)

(* Transactions are tidy, and the one of the installer of Forge keeps away *)
(* from content.                                                           *)
TidyInv ==
  /\ Tidy /\ DOMAIN stray = Builds
  /\ JobAt("forging") => Within(Paths \ UserPaths)

(* Rows of a build: two of them have different files.                      *)
NamesDiffer(ver) ==
  \A p, q \in Projects : ver[p] # 0 /\ ver[q] # 0 /\ p # q
    => FileName[<<p, ver[p]>>] # FileName[<<q, ver[q]>>]
RowsInv ==
  /\ \A b \in Builds \ listed, p \in Projects : ~Installed(b, p)
  /\ \A b \in Builds : excused[b] \/ NamesDiffer(version[b])

(* What the operation will write, and the files that belong to it.         *)
HasRow(rows, p) == \E c \in rows : c[1] = p
PutPaths(rows) == {ProjectPath(c[1], c[2], c[3]) : c \in {d \in rows : d[2] # 0}}
Replaces(rows, b, path) ==
  \E p \in Projects : HasRow(rows, p) /\ Installed(b, p) /\ path = RowPath(b, p)
NoOther(rows, b) ==
  \A c \in rows, q \in Projects :
    \/ excused[b] \/ c[2] = 0 \/ q = c[1] \/ ~Installed(b, q)
    \/ RowName(b, q) # FileName[<<c[1], c[2]>>]
Leaves(k, b) == k # NoPack /\ LeavesBehind(b, k)

(* The transaction does what the operation will write.                     *)
CommitInv ==
  JobAt("changing") /\ ~TxAt("cleaning") =>
    IF job.pack = NoPack
    THEN (\E c \in Rows : job.commit = {c}) /\ NoOther(job.commit, b0)
    ELSE job.commit = PackRows(b0, job.pack)
Working == JobAt("changing") /\ tx.at \in {"changing", "placing"}
FilesOf(rows, k, b) ==
  /\ \A path \in PutPaths(rows) : WillHave(path)
  /\ \A path \in ContentPaths : Had(b, path) /\ ~WillHave(path) => Replaces(rows, b, path)
  /\ \A path \in ContentPaths \ PutPaths(rows) : WillHave(path) => Had(b, path)
  /\ \A path \in ContentPaths \ PutPaths(rows) :
       Replaces(rows, b, path) => ~WillHave(path) \/ Leaves(k, b)
FilesInv == Working => FilesOf(job.commit, job.pack, b0)

(* A file that is renamed has been moved and not copied.                   *)
Moved == job.at \in {"recording", "renamingBack"}
MovedInv == Moved => Has(b0, NewPath) /\ ~Has(b0, OldPath)

(* A copy has the files of the other build, and some of its rows.          *)
CopyInv ==
  job.at \in {"insertingCopy", "copyingRows"} =>
    /\ job.from \in listed /\ job.from # b0
    /\ JobAt("copyingRows") => b0 \in listed
    /\ disk[b0] = disk[job.from] /\ stray[b0] = stray[job.from]
    /\ torn[b0] = torn[job.from] /\ excused[b0] = excused[job.from]
    /\ \A p \in Projects : Installed(b0, p) =>
         /\ version[b0][p] = version[job.from][p]
         /\ enabled[b0][p] = enabled[job.from][p]

(* Somewhere there is a file for each row.                                 *)
Kept(b, path) ==
  Had(b, path) \/ \E s \in stray[b] : s.path = path /\ s.old # Absent
KeptName(b, name) == \E on \in BOOLEAN : Kept(b, Path(name, on))
KeptInv ==
  \A b \in listed, p \in Projects :
    excused[b] \/ ~Installed(b, p) \/ KeptName(b, RowName(b, p))

ContentInv ==
  TidyInv /\ RowsInv /\ CommitInv /\ FilesInv /\ MovedInv /\ CopyInv /\ KeptInv

-----------------------------------------------------------------------------
(* The files of a build are those of its rows, in every build that is      *)
(* listed and not being copied, that has no directory yet, or that is      *)
(* being made.                                                             *)
Creations == {"create", "newPack", "confirmed"}
RowPathsOf(b) == {RowPath(b, p) : p \in {q \in Projects : Installed(b, q)}}
Contained(b) == {path \in ContentPaths : Had(b, path)}
Visible(b) ==
  \/ b \in listed /\ ~(JobAt("copyingRows") /\ b = b0)
  \/ place[b] = "nowhere"
  \/ ~JobAt("idle") /\ job.op \in Creations /\ b = b0
Agrees(b) ==
  Contained(b) = IF Moved /\ b = b0 THEN (RowPathsOf(b) \ {OldPath}) \cup {NewPath}
                 ELSE RowPathsOf(b)
MatchInv ==
  /\ \A b \in listed : place[b] # "nowhere"
  /\ \A b \in Builds : Visible(b) /\ ~Disturbed(b) => Agrees(b)

-----------------------------------------------------------------------------
(* An installation.  What a project on the stack requires and has passed   *)
(* is there and on, and its file too; what a step switches on the way is   *)
(* switched on.                                                            *)
Ready(b, p) == Installed(b, p) /\ enabled[b][p] /\ Had(b, RowPath(b, p))
Provided(frame, b) ==
  frame.project \notin CurseForge =>
    \A i \in DOMAIN Requires[frame.project] :
      \/ Ready(b, Requires[frame.project][i].project)
      \/ \E j \in 1..Len(frame.requires) : frame.requires[j] = Requires[frame.project][i]

Switching == job.at \in {"renaming", "recording", "renamingBack"}
Installing == job.op = "install" /\ ~JobAt("idle")
StackShape ==
  Installing =>
    /\ job.pack = NoPack /\ job.stack # <<>>
    /\ job.at \in {"resolving", "renaming", "recording", "renamingBack", "changing"}
    /\ Switching => \E p \in Projects : job.commit = {<<p, version[b0][p], TRUE>>}
    /\ JobAt("changing") => Top.requires = <<>>
    /\ JobAt("changing") /\ ~TxAt("cleaning") =>
         job.commit = {<<Top.project, Top.version, StaysOn(Top.project)>>}
AllProvided == \A i \in 1..Len(job.stack) : Provided(job.stack[i], b0)
TopIsThere ==
  TxAt("cleaning") => Installed(b0, Top.project) /\ Has(b0, RowPath(b0, Top.project))
StackReady ==
  Installing /\ ~excused[b0] /\ ~TxAt("undoing") =>
    AllProvided /\ (JobAt("changing") => TopIsThere)
Succeeded == JobAt("idle") /\ job.op = "install" /\ job.answer = "ok"
StackInv ==
  /\ StackShape /\ StackReady
  /\ Succeeded => b0 \in Builds /\ job.stack # <<>>
  /\ RequiredAreEnabled

-----------------------------------------------------------------------------
(* What a step of a transaction touches: paths of U in one build.         *)
Touches(b, U) ==
  /\ disk' \in [Builds -> [Paths -> Contents]]
  /\ \A x \in Builds, p \in Paths : x # b \/ p \notin U => disk'[x][p] = disk[x][p]

TearsAtMost ==
  torn' \in [Builds -> BOOLEAN] /\ \A x \in Builds : torn[x] => torn'[x]

(* What a step may do with a repair: begin a transaction, turn to its      *)
(* next phase, or change a file; it touches no file on its own, except by  *)
(* a rename.                                                               *)
BeginsApart ==
  /\ tx'.build = b0 /\ tx'.done = <<>>
  /\ Within(Others)' \/ disk[b0][ConfigPath] = Absent
TurnsTx ==
  /\ ~TxAt("none")
  /\ tx'.build = tx.build /\ tx'.todo = tx.todo /\ tx'.done = tx.done
RepairStep ==
  /\ job'.repairing => job'.op = "repair" /\ job'.at # "idle"
  /\ job'.repairing /\ job'.at \in {"changing", "forging"} =>
       job.repairing /\ (FileStep \/ (UNCHANGED disk /\ (BeginsApart \/ TurnsTx)))
  /\ job.repairing => FileStep \/ Touches(b0, Others)

-----------------------------------------------------------------------------
(* What a step does to rows and files, apart from who does it.             *)
SameRows == UNCHANGED <<version, enabled, excused>>
SameFiles == UNCHANGED <<disk, stray>>
Close == {"recording", "renamingBack", "insertingCopy", "copyingRows"}

Rests ==
  /\ SameRows /\ SameFiles /\ UNCHANGED <<tx, listed>> /\ TearsAtMost
  /\ \/ UNCHANGED <<job, torn>>
     \/ /\ tx.at = "none" /\ job'.at \notin Close
        /\ job.at \in {"recording", "renamingBack", "copyingRows"} => torn'[b0]
FailsToRecord ==
  /\ SameRows /\ SameFiles /\ UNCHANGED <<tx, listed, torn>>
  /\ JobAt("recording") /\ To("renamingBack")
EndsCopy ==
  /\ SameRows /\ SameFiles /\ UNCHANGED <<tx, listed, torn>>
  /\ JobAt("copyingRows") /\ Missing = {} /\ job' = Answer("ok")
Inserts ==
  /\ SameRows /\ SameFiles /\ UNCHANGED tx
  /\ \/ JobAt("inserting") /\ To("selecting") /\ UNCHANGED torn
     \/ JobAt("insertingCopy") /\ To("copyingRows") /\ UNCHANGED torn
     \/ JobAt("insertingCopy") /\ Fail /\ torn' = [torn EXCEPT ![b0] = TRUE]
  /\ listed' = listed \cup {b0}
Begins ==
  /\ SameRows /\ SameFiles /\ UNCHANGED <<listed, torn>> /\ tx.at = "none"
  /\ \/ InstallTop /\ tx'.at # "none"
     \/ \E b \in Builds : RemoveContent(b) \/ ImportLocal(b)
     \/ StagePackHere \/ RunForgeInstaller
Works == SameRows /\ FileStep /\ UNCHANGED <<job, listed>>
TurnsBack ==
  /\ SameRows /\ SameFiles /\ UNCHANGED <<job, listed, torn>>
  /\ Undo /\ tx.at \in {"changing", "placing"}
Closes ==
  /\ SameRows /\ SameFiles /\ UNCHANGED <<listed, torn>> /\ EndChanges
  /\ \/ JobAt("changing") /\ (TxAt("cleaning") \/ Undone)
     \/ JobAt("forging")
  /\ job'.at \notin Close
Renames ==
  /\ SameRows /\ UNCHANGED <<tx, listed, stray, torn>> /\ JobAt("renaming")
  /\ ~Has(b0, NewPath) /\ Has(b0, OldPath) /\ Move(OldPath, NewPath) /\ To("recording")
RenamesBack ==
  /\ SameRows /\ UNCHANGED <<tx, listed, stray, torn>> /\ JobAt("renamingBack")
  /\ Move(NewPath, OldPath) /\ Fail
Switches ==
  /\ UNCHANGED <<excused, tx, listed, torn>> /\ SameFiles
  /\ JobAt("recording") /\ Record(b0, job.commit) /\ job'.at \in {"idle", "resolving"}
CopiesRow ==
  /\ UNCHANGED <<excused, tx, listed, torn, job>> /\ SameFiles /\ JobAt("copyingRows")
  /\ \E p \in Missing : Record(b0, {<<p, version[job.from][p], enabled[job.from][p]>>})
Commits ==
  /\ SameFiles /\ UNCHANGED job /\ JobAt("changing") /\ AllChanged /\ Record(b0, job.commit)
  /\ tx' = [tx EXCEPT !.at = "cleaning"]
WritesRows == Commits /\ job.pack = NoPack /\ UNCHANGED <<listed, excused, torn>>
CommitsPack ==
  /\ Commits /\ job.pack # NoPack /\ listed' = listed \cup {b0}
  /\ excused' = [excused EXCEPT ![b0] = @ \/ TakesName(b0, job.pack) \/ NamesTwice(job.pack)]
  /\ torn' = [torn EXCEPT ![b0] = @ \/ LeavesBehind(b0, job.pack)]
Deletes ==
  /\ UNCHANGED <<excused, tx, torn>> /\ SameFiles
  /\ JobAt("deletingRow") /\ job' = Answer("ok") /\ listed' = listed \ {b0}
  /\ version' = [version EXCEPT ![b0] = [p \in Projects |-> 0]]
  /\ enabled' = [enabled EXCEPT ![b0] = [p \in Projects |-> TRUE]]
CopiesFiles ==
  /\ UNCHANGED <<version, enabled, listed, tx>>
  /\ JobAt("copying") /\ To("insertingCopy")
  /\ disk' = [disk EXCEPT ![b0] = disk[job.from]]
  /\ stray' = [stray EXCEPT ![b0] = stray[job.from]]
  /\ torn' = [torn EXCEPT ![b0] = torn[job.from]]
  /\ excused' = [excused EXCEPT ![b0] = excused[job.from]]
Clears ==
  /\ UNCHANGED <<version, enabled, listed, tx>> /\ RemoveDirectory(b0) /\ Fail
  /\ (JobAt("failing") /\ NewPack) \/ JobAt("insertingCopy")
Edits ==
  /\ SameRows /\ UNCHANGED <<listed, stray, tx, torn, job>> /\ JobAt("idle")
  /\ \E b \in Builds :
       /\ disk[b][ConfigPath] = Sound /\ disk' = [disk EXCEPT ![b][ConfigPath] = Edited]
TakesAway ==
  /\ UNCHANGED <<version, enabled, listed, stray, tx, torn>> /\ JobAt("idle") /\ job' = NoJob
  /\ \E b \in Builds, path \in ContentPaths :
       /\ disk' = [disk EXCEPT ![b][path] = Absent]
       /\ excused' = [excused EXCEPT ![b] = TRUE]
EndsProcess ==
  /\ SameRows /\ UNCHANGED <<disk, listed>> /\ job'.at = "idle"
  /\ AbandonChanges(IF job.at \in {"recording", "renamingBack", "copyingRows",
                                   "deletingRow", "movingBack"} THEN {b0} ELSE {})

RowStep == Switches \/ CopiesRow \/ WritesRows \/ CommitsPack \/ Deletes
StepKind ==
  \/ Rests \/ FailsToRecord \/ EndsCopy \/ Inserts \/ Begins \/ Works \/ TurnsBack \/ Closes
  \/ Renames \/ RenamesBack \/ RowStep \/ CopiesFiles \/ Clears \/ Edits \/ TakesAway
  \/ EndsProcess

(* How the operation goes on, and where directories come from.             *)
GoesOn ==
  /\ job'.op \in {job.op, "none"}
  /\ job'.at = "idle" \/ (~JobAt("idle") /\ job'.op = job.op /\ job'.build = job.build)
StartsAnew ==
  JobAt("idle") /\ (job'.op \notin Creations \/ place[job'.build] = "nowhere")
Follows ==
  /\ GoesOn \/ StartsAnew
  /\ \A b \in Builds : place'[b] = "nowhere" => place[b] = "nowhere" \/ (Clears /\ b = b0)

(* The steps of an installation, and the others, which end it or have      *)
(* nothing to do with it.                                                  *)
Over == job'.op = "install" => job'.at = "idle" /\ job'.answer # "ok"
InstallStep ==
  \/ TakeRequirement \/ DescendToRequirement \/ InstallTop \/ RenameContent \/ RecordToggle
  \/ WriteRows \/ Finish \/ RunChanges
Waits ==
  /\ JobAt("idle") /\ UNCHANGED <<job, version, enabled, excused>>
  /\ \A b \in Builds, path \in ContentPaths : disk'[b][path] = disk[b][path]

=============================================================================
