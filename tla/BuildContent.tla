---------------------------- MODULE BuildContent ----------------------------
(***************************************************************************)
(* The mods, resource packs and shaders of a build, as files in its        *)
(* directory and as rows of installed_content (commands/content.rs and     *)
(* curseforge.rs): installing a project with what it requires, updating,   *)
(* removing, switching off and on, importing local files, installing a     *)
(* pack over a build and repairing one.                                    *)
(*                                                                         *)
(* One operation runs at a time, under the guard of api.rs.  A project's   *)
(* file has a name for each version; the name with ".disabled" at its end  *)
(* is the same name, "off".  What can only fail (the catalogue, downloads, *)
(* archives, cancellation before the first change) is a step that may end  *)
(* the operation at any time.                                              *)
(*                                                                         *)
(* The user edits and takes away files between operations only.  A build   *)
(* is torn when the code itself cannot keep its files and rows together:   *)
(* an undo failed, the process ended between the first change and the      *)
(* commit or between a rename and its row, a copy ended half-way, its      *)
(* directory could not be moved back, or a repair of a CurseForge pack     *)
(* left an updated file behind.  It is excused when the user has taken a   *)
(* file, or a pack has two files for one row or one file for two.          *)
(***************************************************************************)
EXTENDS FileChanges, FiniteSets

CONSTANTS
  Projects,
  Locals,        (* those imported from local files                        *)
  CurseForge,    (* those of CurseForge, and its packs                     *)
  MaxVersion,    (* versions of a project                                  *)
  FileName,      (* [Projects \X (1..MaxVersion)] -> name                  *)
  Requires,      (* project -> sequence of [project, pin], pin 0 is any    *)
  Packs, NoPack,
  PackFiles,     (* pack -> set of <<project, version>>                    *)
  Config,        (* name of a file packs bring that is no content          *)
  MaxEnds, MaxCalls

Versions == 1..MaxVersion
Path(name, on) == <<name, IF on THEN "on" ELSE "off">>
ProjectPath(p, v, on) == Path(FileName[<<p, v>>], on)
ConfigPath == Path(Config, TRUE)
ContentPaths ==
  {Path(n, on) : n \in {FileName[f] : f \in DOMAIN FileName}, on \in BOOLEAN}

ASSUME ContentAssumption ==
  /\ NoBuild \notin Builds /\ NoPack \notin Packs
  /\ Locals \subseteq Projects /\ MaxVersion \in Nat \ {0}
  /\ IsFiniteSet(Projects) /\ DOMAIN FileName = Projects \X Versions
  /\ Requires \in [Projects -> Seq([project : Projects, pin : 0..MaxVersion])]
  /\ PackFiles \in [Packs -> SUBSET (Projects \X Versions)]
  /\ ContentPaths \cup {ConfigPath} \subseteq Paths /\ ConfigPath \notin ContentPaths
  /\ \A k \in Packs : \A f, g \in PackFiles[k] : FileName[f] = FileName[g] => f = g
  /\ \A p, q \in Locals, v, w \in Versions : FileName[<<p, v>>] = FileName[<<q, w>>] <=> p = q
  /\ \A p \in Projects \ CurseForge : \A i \in DOMAIN Requires[p] :
       Requires[p][i].project \notin CurseForge

VARIABLES
  listed,    (* builds with a row in the table of builds                   *)
  version,   (* build -> project -> version in installed_content, or 0     *)
  enabled,   (* build -> project -> the row's flag                         *)
  source,    (* build -> the pack in pack_sources                          *)
  job,       (* [at, op, build, stack, ...]: the operation                 *)
  excused,   (* build -> whether a file was taken by the user, or by a     *)
             (* pack with the name of another row or a project twice     *)
  ends, calls

contentVars == <<listed, version, enabled, source, job, excused, ends, calls>>

Has(b, path) == disk[b][path] # Absent

Installed(b, p) == version[b][p] # 0
RowPath(b, p) == ProjectPath(p, version[b][p], enabled[b][p])
RowName(b, p) == FileName[<<p, version[b][p]>>]

NoJob == [at |-> "idle", op |-> "none", build |-> NoBuild, stack |-> <<>>, commit |-> {},
          pack |-> NoPack, repairing |-> FALSE, loader |-> "none", from |-> NoBuild,
          answer |-> "none"]
JobAt(phase) == job.at = phase
To(phase) == job' = [job EXCEPT !.at = phase]
Answer(verdict) == [NoJob EXCEPT !.answer = verdict, !.op = job.op, !.build = job.build,
                                 !.commit = job.commit]
Fail == job' = Answer("failed")
Start(op, b) == [NoJob EXCEPT !.op = op, !.build = b]
b0 == job.build

ContentInit ==
  /\ FilesInit
  /\ listed = {}
  /\ version = [b \in Builds |-> [p \in Projects |-> 0]]
  /\ enabled = [b \in Builds |-> [p \in Projects |-> TRUE]]
  /\ source = [b \in Builds |-> NoPack]
  /\ job = NoJob
  /\ excused = [b \in Builds |-> FALSE]
  /\ ends = 0 /\ calls = 0

Call == JobAt("idle") /\ calls < MaxCalls /\ calls' = calls + 1
rowVars == <<listed, version, enabled, source>>

-----------------------------------------------------------------------------
(* install_project: a project is installed when everything it requires is. *)
Frame(p, v) == [project |-> p, version |-> v, requires |-> Requires[p]]
InstallProject(b) ==
  /\ Call /\ b \in listed
  /\ \E p \in Projects \ Locals, v \in Versions :
       job' = [Start("install", b) EXCEPT !.at = "resolving", !.stack = <<Frame(p, v)>>]
  /\ UNCHANGED <<rowVars, excused, ends, fileVars>>

(* Until the first change, all an operation can do is fail.                *)
GiveUp ==
  /\ JobAt("resolving") /\ Fail
  /\ UNCHANGED <<rowVars, excused, ends, calls, fileVars>>

Top == Head(job.stack)
Needed == Head(Top.requires)

(* enable_required_dependency asks for the row, the pinned version and the *)
(* file; install_curseforge_project for the row only.                      *)
IsMet(d) ==
  /\ Installed(b0, d.project)
  /\ d.project \notin CurseForge =>
       /\ d.pin \in {0, version[b0][d.project]}
       /\ Has(b0, RowPath(b0, d.project))

NextRequirement == [job EXCEPT !.stack = <<[Top EXCEPT !.requires = Tail(@)]>> \o Tail(@)]

(* Fault: it is left as it is.                                             *)
TakeRequirementAsItIs ==
  /\ JobAt("resolving") /\ Top.requires # <<>> /\ IsMet(Needed)
  /\ job' = NextRequirement
  /\ UNCHANGED <<rowVars, excused, ends, calls, fileVars>>

(* A required project that is switched off is switched on.                 *)
TakeRequirement ==
  /\ JobAt("resolving") /\ Top.requires # <<>> /\ IsMet(Needed)
  /\ job' = IF enabled[b0][Needed.project] \/ Needed.project \in CurseForge
            THEN NextRequirement
            ELSE [job EXCEPT !.at = "renaming",
                    !.commit = {<<Needed.project, version[b0][Needed.project], TRUE>>}]
  /\ UNCHANGED <<rowVars, excused, ends, calls, fileVars>>

(* Others are installed first; a cycle ends the operation.                 *)
DescendToRequirement ==
  /\ JobAt("resolving") /\ Top.requires # <<>> /\ ~IsMet(Needed)
  /\ IF \E i \in DOMAIN job.stack : job.stack[i].project = Needed.project
     THEN Fail
     ELSE job' = [job EXCEPT !.stack =
            <<Frame(Needed.project, IF Needed.pin = 0 THEN MaxVersion ELSE Needed.pin)>> \o @]
  /\ UNCHANGED <<rowVars, excused, ends, calls, fileVars>>

(* install_regular, install_cf_single: the new file, which is off when the *)
(* old one was; then the old one is taken if it has another name.          *)
Conflict(p, name) == \E q \in Projects \ {p} : Installed(b0, q) /\ RowName(b0, q) = name
StaysOn(p) == ~Installed(b0, p) \/ enabled[b0][p]

Update(p, v) ==
  <<Put(ProjectPath(p, v, StaysOn(p)))>> \o
  (IF Installed(b0, p) /\ RowName(b0, p) # FileName[<<p, v>>]
   THEN <<Take(RowPath(b0, p))>> ELSE <<>>)

InstallTop ==
  /\ JobAt("resolving") /\ Top.requires = <<>>
  /\ LET p == Top.project
         v == Top.version
     IN  IF Conflict(p, FileName[<<p, v>>]) THEN Fail /\ UNCHANGED tx
         ELSE /\ BeginChanges(b0, Update(p, v))
              /\ job' = [job EXCEPT !.at = "changing", !.commit = {<<p, v, StaysOn(p)>>}]
  /\ UNCHANGED <<rowVars, excused, ends, calls, disk, stray, torn, errors>>

-----------------------------------------------------------------------------
(* remove_installed_content                                                *)
RemoveContent(b) ==
  /\ Call /\ b \in listed
  /\ \E p \in Projects :
       /\ Installed(b, p)
       /\ BeginChanges(b, <<Take(RowPath(b, p))>>)
       /\ job' = [Start("remove", b) EXCEPT !.at = "changing", !.commit = {<<p, 0, TRUE>>}]
  /\ UNCHANGED <<rowVars, excused, ends, disk, stray, torn, errors>>

(* import_local_file: a name that belongs to a project of a catalogue, or  *)
(* a file without a row, is not replaced.                                  *)
ImportLocal(b) ==
  /\ Call /\ b \in listed
  /\ \E p \in Locals :
       LET on == ~Installed(b, p) \/ enabled[b][p]
           path == ProjectPath(p, 1, on)
       IN  /\ ~\E q \in Projects \ Locals :
                 Installed(b, q) /\ RowName(b, q) = FileName[<<p, 1>>]
           /\ Installed(b, p) \/ ~Has(b, path)
           /\ BeginChanges(b, <<Put(path)>>)
           /\ job' = [Start("import", b) EXCEPT !.at = "changing", !.commit = {<<p, 1, on>>}]
  /\ UNCHANGED <<rowVars, excused, ends, disk, stray, torn, errors>>

(* set_installed_content_enabled: one rename, then the row; if the row     *)
(* fails, the rename is taken back.                                        *)
Toggle(b) ==
  /\ Call /\ b \in listed
  /\ \E p \in Projects :
       /\ Installed(b, p)
       /\ job' = [Start("toggle", b) EXCEPT !.at = "renaming",
                    !.commit = {<<p, version[b][p], ~enabled[b][p]>>}]
  /\ UNCHANGED <<rowVars, excused, ends, fileVars>>

Toggled == CHOOSE c \in job.commit : TRUE
OldPath == RowPath(b0, Toggled[1])
NewPath == ProjectPath(Toggled[1], Toggled[2], Toggled[3])
Move(from, to) ==
  disk' = [disk EXCEPT ![b0][to] = disk[b0][from], ![b0][from] = Absent]

RenameContent ==
  /\ JobAt("renaming")
  /\ IF Has(b0, NewPath) \/ ~Has(b0, OldPath) THEN Fail /\ NoError /\ UNCHANGED disk
     ELSE \/ Move(OldPath, NewPath) /\ NoError /\ To("recording")
          \/ Error /\ Fail /\ UNCHANGED disk
  /\ UNCHANGED <<rowVars, excused, ends, calls, stray, tx, torn>>

Record(b, changes) ==
  /\ version' = [version EXCEPT ![b] = [p \in Projects |->
       IF \E c \in changes : c[1] = p THEN (CHOOSE c \in changes : c[1] = p)[2] ELSE @[p]]]
  /\ enabled' = [enabled EXCEPT ![b] = [p \in Projects |->
       IF \E c \in changes : c[1] = p THEN (CHOOSE c \in changes : c[1] = p)[3] ELSE @[p]]]

RecordToggle ==
  /\ JobAt("recording")
  /\ \/ /\ NoError /\ Record(b0, job.commit)
        /\ IF job.stack = <<>> THEN job' = Answer("ok") ELSE To("resolving")
     \/ Error /\ To("renamingBack") /\ UNCHANGED <<version, enabled>>
  /\ UNCHANGED <<listed, source, excused, ends, calls, disk, stray, tx, torn>>

(* Fault: the file stays where the rename has put it.                      *)
StayRenamed ==
  /\ JobAt("renamingBack") /\ NoError /\ Fail
  /\ UNCHANGED <<rowVars, excused, ends, calls, disk, stray, tx, torn>>

RenameBack ==
  /\ JobAt("renamingBack")
  /\ \/ Move(NewPath, OldPath) /\ NoError /\ UNCHANGED torn
     \/ Error /\ torn' = [torn EXCEPT ![b0] = TRUE] /\ UNCHANGED disk
  /\ Fail
  /\ UNCHANGED <<rowVars, excused, ends, calls, stray, tx>>

-----------------------------------------------------------------------------
(* A pack over an existing build.  A file keeps the flag of the first row  *)
(* with its project or, in Modrinth's packs, its name; a repair leaves     *)
(* alone the other files that exist.                                       *)
RowsOf(b, p, v, k) ==
  {q \in Projects : /\ Installed(b, q)
                    /\ \/ q = p
                       \/ k \notin CurseForge /\ RowName(b, q) = FileName[<<p, v>>]}
KeepsFlag(b, p, v, k) ==
  LET rows == RowsOf(b, p, v, k) IN rows # {} => enabled[b][CHOOSE q \in rows : TRUE]
PackRows(b, k) == {<<f[1], f[2], KeepsFlag(b, f[1], f[2], k)>> : f \in PackFiles[k]}
NewPaths(rows) == {ProjectPath(r[1], r[2], r[3]) : r \in rows}

(* Fault: a repair brings the pack's own files back.                       *)
ConfigChangeAlways(b, repairing) == <<Put(ConfigPath)>>

ConfigChange(b, repairing) ==
  IF repairing /\ Has(b, ConfigPath) THEN <<>> ELSE <<Put(ConfigPath)>>

(* remove_replaced_content_files, which CurseForge's packs do not call.    *)
Replaced(b, k) ==
  {RowPath(b, p) : p \in {f[1] : f \in PackFiles[k]} \cap {q \in Projects : Installed(b, q)}}
    \ NewPaths(PackRows(b, k))
Removals(b, k) ==
  IF k \in CurseForge THEN <<>>
  ELSE LET paths == SetToSeq(Replaced(b, k)) IN [i \in DOMAIN paths |-> Take(paths[i])]

PackChanges(b, k, repairing) ==
  LET paths == SetToSeq(NewPaths(PackRows(b, k)))
  IN  [i \in DOMAIN paths |-> Put(paths[i])] \o ConfigChange(b, repairing) \o Removals(b, k)

(* Three things the code does leave rows and files apart: a pack's file    *)
(* may take the name of a row that stays, two of its files may be of one   *)
(* project, which has one row, and a file that was updated since stays     *)
(* beside the one a repair of a CurseForge pack brings.                    *)
TakesName(b, k) ==
  \E f \in PackFiles[k], q \in Projects :
    /\ Installed(b, q) /\ RowName(b, q) = FileName[f]
    /\ \A g \in PackFiles[k] : g[1] # q
NamesTwice(k) == \E f, g \in PackFiles[k] : f[1] = g[1] /\ f # g
LeavesBehind(b, k) == k \in CurseForge /\ Replaced(b, k) # {}

StagePack ==
  /\ JobAt("downloading") /\ job.pack # NoPack
  /\ BeginChanges(b0, PackChanges(b0, job.pack, job.repairing))
  /\ job' = [job EXCEPT !.at = "changing", !.commit = PackRows(b0, job.pack)]
  /\ UNCHANGED <<rowVars, excused, ends, calls, disk, stray, torn, errors>>

(* Between two files of a pack the token is looked at.                     *)
CancelPack ==
  /\ JobAt("changing") /\ job.pack # NoPack
  /\ TxAt("changing") /\ tx.todo # <<>>
  /\ Undo
  /\ UNCHANGED <<contentVars, disk, stray, torn, errors>>

(* install_project with a pack as the project.                             *)
InstallPack(b) ==
  /\ Call /\ b \in listed
  /\ \E k \in Packs \ CurseForge :
       job' = [Start("pack", b) EXCEPT !.at = "preparing", !.pack = k]
  /\ UNCHANGED <<rowVars, excused, ends, fileVars>>

(* repair_build: the pack from its archive, or every item one by one.      *)
RepairBuild(b) ==
  /\ Call /\ b \in listed
  /\ LET items == {p \in Projects \ Locals : Installed(b, p)}
         frames == {[project |-> p, version |-> version[b][p],
                     requires |-> IF p \in CurseForge THEN Requires[p] ELSE <<>>] : p \in items}
     IN  job' = [Start("repair", b) EXCEPT !.repairing = TRUE, !.at = "preparing",
                   !.pack = source[b],
                   !.stack = IF source[b] = NoPack THEN SetToSeq(frames) ELSE <<>>]
  /\ UNCHANGED <<rowVars, excused, ends, fileVars>>

-----------------------------------------------------------------------------
(* The files are changed; the rows follow, or the files go back.           *)
WriteRows ==
  /\ AllChanged /\ job.pack = NoPack /\ JobAt("changing")
  /\ \/ /\ NoError /\ Record(b0, job.commit)
        /\ tx' = [tx EXCEPT !.at = "cleaning"]
     \/ Error /\ Undo /\ UNCHANGED <<version, enabled>>
  /\ UNCHANGED <<listed, source, job, excused, ends, calls, disk, stray, torn>>

(* The next project on the stack, if there is one.                         *)
Finish ==
  /\ JobAt("changing") /\ TxAt("cleaning")
  /\ EndChanges
  /\ job' = IF Len(job.stack) > 1
            THEN [job EXCEPT !.at = "resolving", !.stack = Tail(@)]
            ELSE IF job.op = "repair" THEN [job EXCEPT !.at = "selecting", !.stack = <<>>]
            ELSE [Answer("ok") EXCEPT !.stack = job.stack]
  /\ UNCHANGED <<rowVars, excused, ends, calls, disk, stray, torn, errors>>

FailChanges ==
  /\ JobAt("changing") /\ Undone /\ job.op # "newPack" /\ job.op # "confirmed"
  /\ EndChanges /\ Fail
  /\ UNCHANGED <<rowVars, excused, ends, calls, disk, stray, torn, errors>>

RunChanges == JobAt("changing") /\ FileStep /\ UNCHANGED contentVars

(* The user edits a file of a pack, or takes a file away.                  *)
EditConfig(b) ==
  /\ JobAt("idle") /\ disk[b][ConfigPath] = Sound
  /\ disk' = [disk EXCEPT ![b][ConfigPath] = Edited]
  /\ UNCHANGED <<contentVars, stray, tx, torn, errors>>

TakeFile(b) ==
  /\ JobAt("idle") /\ Error
  /\ \E path \in Paths :
       /\ path \in ContentPaths /\ Has(b, path)
       /\ disk' = [disk EXCEPT ![b][path] = Absent]
  /\ excused' = [excused EXCEPT ![b] = TRUE]
  /\ job' = NoJob
  /\ UNCHANGED <<rowVars, ends, calls, stray, tx, torn>>

ContentStep ==
  \/ GiveUp \/ TakeRequirement \/ DescendToRequirement \/ InstallTop
  \/ RenameContent \/ RecordToggle \/ RenameBack
  \/ CancelPack \/ WriteRows \/ Finish \/ FailChanges \/ RunChanges

ContentCall(b) ==
  \/ InstallProject(b) \/ RemoveContent(b) \/ ImportLocal(b) \/ Toggle(b)
  \/ InstallPack(b) \/ RepairBuild(b)

-----------------------------------------------------------------------------
(* Between two operations, the content in a build's directory is what its  *)
(* rows say, each file under the name its flag wants and nothing else,     *)
(* except in builds that are torn or excused, as the head of the module    *)
(* says (FileTransaction, set_installed_content_enabled; docs/audit/       *)
(* implementation-status.md, row 10).                                      *)
RowsMatchFiles ==
  JobAt("idle") => \A b \in listed :
    torn[b] \/ excused[b] \/
    {path \in ContentPaths : Has(b, path)} =
      {RowPath(b, p) : p \in {q \in Projects : Installed(b, q)}}

(* Whatever fails or ends, the file of every row exists: in place, under   *)
(* the other of its two names, or in a rollback directory (Drop never      *)
(* deletes the only copy that is left).  Builds that are torn are not left *)
(* out, those that are excused are.                                        *)
NothingIsLost ==
  \A b \in listed, p \in Projects :
    Installed(b, p) /\ ~excused[b] =>
      \E on \in BOOLEAN :
        LET path == Path(RowName(b, p), on)
        IN  Has(b, path) \/ \E kept \in stray[b] \cup ToSet(tx.done) :
                             kept.path = path /\ kept.old # Absent

(* When an installation from Modrinth has succeeded, what the project      *)
(* requires is there and switched on, and so is its file                   *)
(* (install_project_inner: a required dependency cannot stay disabled).    *)
(* A pinned version may have been replaced by the one another requirement  *)
(* pins: the last one wins, so that what is required is a project and not  *)
(* a version.  Two rows with one file are left out (excused): the update   *)
(* of one takes the file of the other.                                     *)
RequiredAreEnabled ==
  JobAt("idle") /\ job.op = "install" /\ job.answer = "ok" /\ ~excused[job.build] =>
    LET b == job.build
        top == job.stack[1].project
    IN  /\ Installed(b, top) /\ Has(b, RowPath(b, top))
        /\ top \notin CurseForge => \A i \in DOMAIN Requires[top] :
             LET p == Requires[top][i].project
             IN  Installed(b, p) /\ enabled[b][p] /\ Has(b, RowPath(b, p))

(* A repair leaves what the user has edited as it is, also when it fails   *)
(* and is undone (install_mrpack_archive, install_curseforge_pack_archive).*)
EditsSurviveRepair ==
  [][\A b \in Builds : job.repairing /\ disk[b][ConfigPath] = Edited
       => disk'[b][ConfigPath] = Edited]_<<job, disk>>

=============================================================================
