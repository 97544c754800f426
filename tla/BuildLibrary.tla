---------------------------- MODULE BuildLibrary ----------------------------
(***************************************************************************)
(* The builds of the launcher (commands/content.rs, storage/mod.rs): rows  *)
(* and directories are made, copied, selected and thrown away, packs are   *)
(* installed as builds of their own, and the profile that is launched      *)
(* follows the build that is active.  What is in a build, and the          *)
(* operations on it, is BuildContent.                                      *)
(***************************************************************************)
EXTENDS BuildContent

CONSTANTS
  Loaders,       (* loaders of builds the user makes: "vanilla", "fabric", *)
                 (* "quilt" or "forge"                                     *)
  PackLoader,    (* pack -> the loader it wants                            *)
  MaxPreviews    (* 4 in the code                                          *)

VARIABLES
  active,      (* builds whose row says they are active                    *)
  profile,     (* the build whose name, version and directory it has       *)
  place,       (* build -> where its directory is                          *)
  loader,      (* build -> loader in its row                               *)
  registered,  (* loaders with a custom version in the metadata cache      *)
  previews,    (* packs previewed and not confirmed                        *)
  halfway      (* a creation was interrupted between row and selection     *)
               (* (history)                                                *)

shelfVars == <<active, profile, place, loader, registered, previews, halfway>>
libraryVars == <<shelfVars, contentVars, fileVars>>

NoLoader == "none"
ForgeFiles == <<Path("forge", TRUE), Path("inventory", TRUE)>>
ASSUME LibraryAssumption ==
  /\ Loaders \subseteq {"vanilla", "fabric", "quilt", "forge"}
  /\ \A i \in 1..2 : ForgeFiles[i] \in Paths \ (ContentPaths \cup {ConfigPath})

LibraryInit ==
  /\ ContentInit
  /\ active = {} /\ profile = NoBuild
  /\ place = [b \in Builds |-> "nowhere"]
  /\ loader = [b \in Builds |-> NoLoader]
  /\ registered = {"vanilla"} /\ previews = {}
  /\ halfway = FALSE

IsNew(b) == place[b] = "nowhere" /\ b \notin listed
MakeDirectory(b) == place' = [place EXCEPT ![b] = "instances"]
RemoveDirectory(b) ==
  /\ place' = [place EXCEPT ![b] = "nowhere"]
  /\ disk' = [disk EXCEPT ![b] = [p \in Paths |-> Absent]]
  /\ stray' = [stray EXCEPT ![b] = {}]
  /\ torn' = [torn EXCEPT ![b] = FALSE] /\ excused' = [excused EXCEPT ![b] = FALSE]

-----------------------------------------------------------------------------
(* create_build                                                            *)
CreateBuild(b) ==
  /\ Call /\ IsNew(b) /\ MakeDirectory(b)
  /\ \E l \in Loaders :
       job' = [Start("create", b) EXCEPT !.at = "preparing", !.loader = l]
  /\ UNCHANGED <<rowVars, excused, ends, fileVars, active, profile, loader, registered,
                 previews, halfway>>

(* install_modpack_as_build, install_curseforge_modpack                    *)
InstallNewPack(b) ==
  /\ Call /\ IsNew(b) /\ MakeDirectory(b)
  /\ \E k \in Packs :
       job' = [Start("newPack", b) EXCEPT !.at = "preparing", !.pack = k]
  /\ UNCHANGED <<rowVars, excused, ends, fileVars, active, profile, loader, registered,
                 previews, halfway>>

(* preview_mrpack: a fifth snapshot drops the other four, and one that is  *)
(* ten minutes old is dropped; confirm_mrpack takes a snapshot once.       *)
PreviewPack ==
  /\ JobAt("idle")
  /\ \E k \in Packs \ CurseForge :
       previews' = (IF Cardinality(previews) >= MaxPreviews THEN {} ELSE previews) \cup {k}
  /\ UNCHANGED <<active, profile, place, loader, registered, halfway, contentVars, fileVars>>

ConfirmPack(b) ==
  /\ Call /\ IsNew(b)
  /\ \E k \in previews :
       /\ previews' = previews \ {k}
       /\ \/ /\ MakeDirectory(b)
             /\ job' = [Start("confirmed", b) EXCEPT !.at = "preparing", !.pack = k]
          \/ job' = Answer("expired") /\ UNCHANGED place
  /\ UNCHANGED <<rowVars, excused, ends, fileVars, active, profile, loader, registered,
                 halfway>>

(* The loader the operation needs.                                         *)
Wanted ==
  IF job.pack # NoPack THEN PackLoader[job.pack]
  ELSE IF job.op = "create" THEN job.loader ELSE loader[b0]
Prepared ==
  [job EXCEPT !.loader = Wanted,
     !.at = IF job.pack # NoPack THEN "downloading"
            ELSE IF job.op = "create" THEN "inserting"
            ELSE IF job.stack # <<>> THEN "resolving" ELSE "selecting"]

(* install_fabric_profile, install_quilt_profile: one document is fetched  *)
(* and put into the metadata cache.                                        *)
RegisterProfile ==
  /\ JobAt("preparing") /\ Wanted # "forge"
  /\ registered' = registered \cup {Wanted}
  /\ job' = Prepared
  /\ UNCHANGED <<rowVars, excused, ends, calls, fileVars, active, profile, place, loader,
                 previews, halfway>>

(* verify_installation: the inventory names the files, and they are there. *)
ForgeVerifies == \A i \in 1..2 : Has(b0, ForgeFiles[i])

RegisterForge ==
  /\ JobAt("preparing") /\ Wanted = "forge" /\ ForgeVerifies
  /\ registered' = registered \cup {"forge"}
  /\ job' = Prepared
  /\ UNCHANGED <<rowVars, excused, ends, calls, fileVars, active, profile, place, loader,
                 previews, halfway>>

(* install_forge_profile: the installer has run in a staging directory,    *)
(* and its files replace those of the build, the inventory last.           *)
RunForgeInstaller ==
  /\ JobAt("preparing") /\ Wanted = "forge" /\ ~ForgeVerifies
  /\ BeginChanges(b0, [i \in 1..2 |-> Put(ForgeFiles[i])])
  /\ To("forging")
  /\ UNCHANGED <<rowVars, excused, ends, calls, disk, stray, torn, errors, shelfVars>>

FinishForge ==
  /\ JobAt("forging") /\ AllChanged
  /\ \/ /\ NoError /\ EndChanges
        /\ registered' = registered \cup {"forge"}
        /\ job' = Prepared
     \/ Error /\ Undo /\ UNCHANGED <<registered, job>>
  /\ UNCHANGED <<rowVars, excused, ends, calls, disk, stray, torn, active, profile, place,
                 loader, previews, halfway>>

ForgeChanges ==
  /\ JobAt("forging")
  /\ FileStep \/ (tx.at \in {"changing", "placing"} /\ Undo /\ UNCHANGED <<disk, stray, torn, errors>>)
  /\ UNCHANGED <<contentVars, shelfVars>>

ForgeFails ==
  /\ JobAt("forging") /\ Undone
  /\ EndChanges /\ To("failing")
  /\ UNCHANGED <<rowVars, excused, ends, calls, disk, stray, torn, errors, shelfVars>>

(* A failure before anything has changed, or a cancellation.               *)
PreparationFails ==
  /\ job.at \in {"preparing", "downloading"} /\ To("failing")
  /\ UNCHANGED <<rowVars, excused, ends, calls, fileVars, shelfVars>>

(* The directory of a pack from Modrinth that failed is removed; that of   *)
(* another pack if nothing is left in it; that of a build the user wanted  *)
(* to make is left.  A failure to remove it is ignored.                    *)
NewPack == job.op \in {"newPack", "confirmed"}
Empty(b) == \A p \in Paths : disk[b][p] = Absent
RemovesDirectory ==
  NewPack /\ (Empty(b0) \/ (job.op = "newPack" /\ job.pack \notin CurseForge))
FailPreparation ==
  /\ JobAt("failing") /\ Fail
  /\ \/ RemovesDirectory /\ NoError /\ RemoveDirectory(b0)
     \/ /\ IF RemovesDirectory THEN Error ELSE NoError
        /\ UNCHANGED <<place, disk, stray, torn, excused>>
  /\ UNCHANGED <<rowVars, ends, calls, tx, active, profile, loader, registered,
                 previews, halfway>>

(* upsert_build, and then select_build, each in a transaction of its own.  *)
InsertBuild ==
  /\ JobAt("inserting")
  /\ \/ /\ NoError /\ To("selecting")
        /\ listed' = listed \cup {b0} /\ active' = {b0}
        /\ loader' = [loader EXCEPT ![b0] = job.loader]
        /\ halfway' = TRUE
     \/ Error /\ Fail /\ UNCHANGED <<listed, active, loader, halfway>>
  /\ UNCHANGED <<version, enabled, source, excused, ends, calls, disk, stray, tx, torn,
                 profile, place, registered, previews>>

Select(b) == active' = {b} /\ profile' = b /\ halfway' = FALSE

FinishSelecting ==
  /\ JobAt("selecting")
  /\ \/ NoError /\ Select(b0) /\ job' = Answer("ok")
     \/ Error /\ Fail /\ UNCHANGED <<active, profile, halfway>>
  /\ UNCHANGED <<rowVars, excused, ends, calls, disk, stray, tx, torn, place, loader,
                 registered, previews>>

SelectBuild(b) ==
  /\ Call /\ b \in listed
  /\ job' = [Start("select", b) EXCEPT !.at = "selecting"]
  /\ UNCHANGED <<rowVars, excused, ends, fileVars, shelfVars>>

(* commit_pack: build, rows, source and, if the build is active, profile.  *)
CommitPack ==
  /\ JobAt("changing") /\ AllChanged /\ job.pack # NoPack
  /\ \/ /\ NoError
        /\ Record(b0, job.commit)
        /\ listed' = listed \cup {b0}
        /\ source' = [source EXCEPT ![b0] = job.pack]
        /\ loader' = [loader EXCEPT ![b0] = job.loader]
        /\ IF NewPack \/ b0 \in active THEN Select(b0)
           ELSE UNCHANGED <<active, profile, halfway>>
        /\ excused' = [excused EXCEPT ![b0] =
             @ \/ TakesName(b0, job.pack) \/ NamesTwice(job.pack)]
        /\ torn' = [torn EXCEPT ![b0] = @ \/ LeavesBehind(b0, job.pack)]
        /\ tx' = [tx EXCEPT !.at = "cleaning"]
     \/ /\ Error /\ Undo
        /\ UNCHANGED <<version, enabled, listed, source, loader, active, profile, halfway,
                       excused, torn>>
  /\ UNCHANGED <<job, ends, calls, disk, stray, place, registered, previews>>

StagePackHere == StagePack /\ UNCHANGED shelfVars

(* A new pack that failed takes its directory along.                       *)
NewPackFails ==
  /\ JobAt("changing") /\ Undone /\ NewPack
  /\ EndChanges /\ To("failing")
  /\ UNCHANGED <<rowVars, excused, ends, calls, disk, stray, torn, errors, shelfVars>>

-----------------------------------------------------------------------------
(* copy_build: the files, the row, the preferences, the pack's source, and *)
(* the rows of the content one by one.                                     *)
CopyBuild(b) ==
  /\ Call /\ IsNew(b)
  /\ \E from \in listed : job' = [Start("copy", b) EXCEPT !.at = "copying", !.from = from]
  /\ UNCHANGED <<rowVars, excused, ends, fileVars, shelfVars>>

CopyFiles ==
  /\ JobAt("copying")
  /\ \/ /\ NoError /\ To("insertingCopy") /\ MakeDirectory(b0)
        /\ disk' = [disk EXCEPT ![b0] = disk[job.from]]
        /\ stray' = [stray EXCEPT ![b0] = stray[job.from]]
        /\ torn' = [torn EXCEPT ![b0] = torn[job.from]]
        /\ excused' = [excused EXCEPT ![b0] = excused[job.from]]
     \/ Error /\ Fail /\ UNCHANGED <<place, disk, stray, torn, excused>>
  /\ UNCHANGED <<rowVars, ends, calls, tx, active, profile, loader, registered, previews,
                 halfway>>

(* Without a row the directory goes, or stays if it cannot; without its    *)
(* preferences the copy is listed, and nothing more is copied.             *)
InsertCopy ==
  /\ JobAt("insertingCopy")
  /\ \/ /\ \/ NoError /\ To("copyingRows") /\ UNCHANGED torn
           \/ Error /\ Fail /\ torn' = [torn EXCEPT ![b0] = TRUE]
        /\ listed' = listed \cup {b0}
        /\ loader' = [loader EXCEPT ![b0] = loader[job.from]]
        /\ UNCHANGED <<place, disk, stray, excused>>
     \/ /\ Error /\ Fail
        /\ RemoveDirectory(b0) \/ UNCHANGED <<place, disk, stray, torn, excused>>
        /\ UNCHANGED <<listed, loader>>
  /\ UNCHANGED <<version, enabled, source, ends, calls, tx, active, profile, registered,
                 previews, halfway>>

CopySource ==
  /\ JobAt("copyingRows") /\ source[b0] # source[job.from]
  /\ \/ NoError /\ source' = [source EXCEPT ![b0] = source[job.from]] /\ UNCHANGED <<job, torn>>
     \/ Error /\ Fail /\ torn' = [torn EXCEPT ![b0] = TRUE] /\ UNCHANGED source
  /\ UNCHANGED <<listed, version, enabled, excused, ends, calls, disk, stray, tx, shelfVars>>

Missing == {p \in Projects : version[b0][p] # version[job.from][p]}
CopyRow ==
  /\ JobAt("copyingRows") /\ source[b0] = source[job.from] /\ Missing # {}
  /\ LET p == CHOOSE q \in Missing : TRUE
     IN  \/ /\ NoError
            /\ Record(b0, {<<p, version[job.from][p], enabled[job.from][p]>>})
            /\ UNCHANGED <<job, torn>>
         \/ /\ Error /\ Fail /\ torn' = [torn EXCEPT ![b0] = TRUE]
            /\ UNCHANGED <<version, enabled>>
  /\ UNCHANGED <<listed, source, excused, ends, calls, disk, stray, tx, shelfVars>>

EndCopy ==
  /\ JobAt("copyingRows") /\ source[b0] = source[job.from] /\ Missing = {}
  /\ job' = Answer("ok")
  /\ UNCHANGED <<rowVars, excused, ends, calls, fileVars, shelfVars>>

(* delete_build: the directory moves to the trash, then the rows go; when  *)
(* they do not, the directory moves back, if it can.  One that an earlier  *)
(* deletion has left there has a name nobody knows any more.               *)
DeleteBuild(b) ==
  /\ Call /\ b \in listed
  /\ job' = [Start("delete", b) EXCEPT !.at = "deleting"]
  /\ UNCHANGED <<rowVars, excused, ends, fileVars, shelfVars>>

MoveToTrash ==
  /\ JobAt("deleting")
  /\ \/ /\ NoError /\ To("deletingRow")
        /\ place' = [place EXCEPT ![b0] = IF @ = "instances" THEN "trash" ELSE "lost"]
     \/ Error /\ Fail /\ UNCHANGED place
  /\ UNCHANGED <<rowVars, excused, ends, calls, disk, stray, tx, torn, active, profile,
                 loader, registered, previews, halfway>>

(* Fault: no other build is chosen.                                        *)
DeleteRowsOnly ==
  /\ JobAt("deletingRow")
  /\ NoError /\ job' = Answer("ok")
  /\ listed' = listed \ {b0} /\ active' = active \ {b0}
  /\ source' = [source EXCEPT ![b0] = NoPack]
  /\ version' = [version EXCEPT ![b0] = [p \in Projects |-> 0]]
  /\ enabled' = [enabled EXCEPT ![b0] = [p \in Projects |-> TRUE]]
  /\ UNCHANGED <<profile, halfway, excused, ends, calls, disk, stray, tx, torn, place,
                 loader, registered, previews>>

(* The last build that is left becomes the active one.                     *)
DeleteRows ==
  /\ JobAt("deletingRow")
  /\ \/ /\ NoError /\ job' = Answer("ok")
        /\ listed' = listed \ {b0}
        /\ source' = [source EXCEPT ![b0] = NoPack]
        /\ version' = [version EXCEPT ![b0] = [p \in Projects |-> 0]]
        /\ enabled' = [enabled EXCEPT ![b0] = [p \in Projects |-> TRUE]]
        /\ IF b0 \notin active THEN UNCHANGED <<active, profile, halfway>>
           ELSE IF listed' = {} THEN active' = {} /\ UNCHANGED profile /\ halfway' = FALSE
           ELSE \E b \in listed' : Select(b)
     \/ Error /\ To("movingBack") /\ UNCHANGED <<rowVars, active, profile, halfway>>
  /\ UNCHANGED <<excused, ends, calls, disk, stray, tx, torn, place, loader, registered,
                 previews>>

(* Fault: it stays in the trash.                                           *)
LeaveInTrash ==
  /\ JobAt("movingBack") /\ Fail /\ NoError
  /\ UNCHANGED <<rowVars, excused, ends, calls, disk, stray, tx, torn, place, active,
                 profile, loader, registered, previews, halfway>>

MoveBack ==
  /\ JobAt("movingBack") /\ Fail
  /\ \/ /\ NoError /\ UNCHANGED torn
        /\ place' = [place EXCEPT ![b0] = IF @ = "trash" THEN "instances" ELSE @]
     \/ /\ place[b0] = "trash" /\ Error
        /\ torn' = [torn EXCEPT ![b0] = TRUE] /\ UNCHANGED place
  /\ UNCHANGED <<rowVars, excused, ends, calls, disk, stray, tx, active, profile, loader,
                 registered, previews, halfway>>

(* The core ends between any two steps.                                    *)
EndProcess ==
  /\ ~JobAt("idle") /\ ends < MaxEnds
  /\ ends' = ends + 1
  /\ AbandonChanges(IF job.at \in {"recording", "renamingBack", "copyingRows",
                                   "deletingRow", "movingBack"} THEN {b0} ELSE {})
  /\ job' = [NoJob EXCEPT !.answer = "crashed"]
  /\ previews' = {}
  /\ UNCHANGED <<rowVars, excused, calls, disk, errors, active, profile, place, loader,
                 registered, halfway>>

LibraryStep ==
  \/ RegisterProfile \/ RegisterForge \/ RunForgeInstaller \/ FinishForge \/ ForgeChanges
  \/ ForgeFails \/ FailPreparation \/ InsertBuild \/ FinishSelecting \/ CommitPack
  \/ StagePackHere \/ NewPackFails \/ CopyFiles \/ InsertCopy \/ CopySource \/ CopyRow
  \/ EndCopy \/ MoveToTrash \/ DeleteRows \/ MoveBack
  \/ ContentStep /\ UNCHANGED shelfVars

LibraryNext ==
  \/ LibraryStep \/ PreparationFails \/ PreviewPack \/ EndProcess
  \/ \E b \in Builds :
       \/ CreateBuild(b) \/ InstallNewPack(b) \/ ConfirmPack(b) \/ CopyBuild(b)
       \/ SelectBuild(b) \/ DeleteBuild(b)
       \/ (ContentCall(b) \/ EditConfig(b) \/ TakeFile(b)) /\ UNCHANGED shelfVars

LibrarySpec == LibraryInit /\ [][LibraryNext]_libraryVars

-----------------------------------------------------------------------------
(* One build is active if there are any, and it is the one the profile     *)
(* launches, unless a creation was interrupted between its two             *)
(* transactions; a pack that fails leaves the selection as it was, for     *)
(* only a build with a row is ever active (commit_pack, select_build,      *)
(* delete_build; install_modpack_version: a failed download must leave the *)
(* old selection intact).                                                  *)
SelectionIsWhole ==
  /\ Cardinality(active) = IF listed = {} THEN 0 ELSE 1
  /\ active \subseteq listed
  /\ profile \in active \/ active = {} \/ halfway

(* A build that is listed can be launched: its loader is in the metadata   *)
(* cache, the files of Forge are complete, and its directory is in place   *)
(* (install_forge_profile, delete_build).  The loader holds of every       *)
(* build; the files and the place not of one that is torn or excused: its  *)
(* copy ended half-way or its directory could not be moved back, an undo   *)
(* failed, the process ended on the way, or the user has taken a file      *)
(* (BuildContent).                                                         *)
ListedCanBeLaunched ==
  JobAt("idle") => \A b \in listed :
    /\ loader[b] \in registered
    /\ torn[b] \/ excused[b] \/
         /\ place[b] = "instances"
         /\ loader[b] = "forge" => \A i \in 1..2 : Has(b, ForgeFiles[i])

=============================================================================
