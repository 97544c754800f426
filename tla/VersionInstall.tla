--------------------------- MODULE VersionInstall ---------------------------
(***************************************************************************)
(* Installation of one Minecraft version into the game directories of the  *)
(* builds that use it (crates/launcher-core/src/installer, metadata).      *)
(*                                                                         *)
(* The service that publishes the version may change it.  The content of a *)
(* file or a directory is the edition of the metadata it belongs to.  The  *)
(* row that marks the version as verified is one for all directories.      *)
(***************************************************************************)
EXTENDS Naturals

CONSTANTS
  Builds,        (* game directories                                       *)
  NoBuild,
  MaxEdition,    (* bound: editions of the version's metadata              *)
  MaxErrors,     (* bound: errors of the disk and the database, damage     *)
  MaxEnds,       (* bound: ends of the process                             *)
  MaxPreparations

ASSUME InstallAssumption ==
  NoBuild \notin Builds /\ MaxEdition \in Nat \ {0}

VARIABLES
  published,  (* edition the service has now                               *)
  cached,     (* [manifest, version]: editions in the metadata cache       *)
  marker,     (* installations.state of the version                        *)
  disk,       (* build -> file or directory -> its edition                 *)
  job,        (* the one preparation that runs: [at, build, want, ...]     *)
  vouched,    (* build -> whether the marker was set by an installation    *)
              (* into it that is the last one begun there (history)        *)
  errors, ends

installVars == <<published, cached, marker, disk, job, vouched, errors, ends>>

(* What an installation leaves in a game directory.  Libraries, client,    *)
(* logging and asset index are downloaded together: "base".                *)
Parts == {"json", "base", "objects", "natives", "backup"}
None == 0
Damaged == MaxEdition + 1
Editions == 1..MaxEdition

Idle == [at |-> "idle", build |-> NoBuild, want |-> None, manifest |-> None,
         asked |-> FALSE, cancelled |-> FALSE, verdict |-> "none", count |-> 0]

JobAt(phase) == job.at = phase
To(phase) == job' = [job EXCEPT !.at = phase]
Settle(verdict) == job' = [job EXCEPT !.at = "settling", !.verdict = verdict]
End(verdict) == job' = [job EXCEPT !.at = "idle", !.verdict = verdict]
Error == errors < MaxErrors /\ errors' = errors + 1
NoError == UNCHANGED errors

Here == disk[job.build]
Put(part, edition) == disk' = [disk EXCEPT ![job.build][part] = edition]

InstallInit ==
  /\ published = 1
  /\ cached = [manifest |-> None, version |-> None]
  /\ marker = "none"
  /\ disk = [b \in Builds |-> [p \in Parts |-> None]]
  /\ job = Idle
  /\ vouched = [b \in Builds |-> FALSE]
  /\ errors = 0 /\ ends = 0

-----------------------------------------------------------------------------
(* The version is published again.                                         *)
Publish ==
  /\ published < MaxEdition
  /\ published' = published + 1
  /\ UNCHANGED <<cached, marker, disk, job, vouched, errors, ends>>

(* A file of a build is damaged while nothing works on it.                 *)
DamagePart ==
  /\ JobAt("idle") /\ Error
  /\ \E b \in Builds, p \in Parts :
       /\ disk[b][p] \in Editions
       /\ disk' = [disk EXCEPT ![b][p] = Damaged]
  /\ End("none")
  /\ UNCHANGED <<published, cached, marker, vouched, ends>>

(* The process ends between any two steps.  Staging directories of natives *)
(* are removed by the next installation; temporary files stay, and nobody  *)
(* looks at them again.                                                    *)
EndProcess ==
  /\ ~JobAt("idle") /\ ends < MaxEnds
  /\ ends' = ends + 1
  /\ job' = [Idle EXCEPT !.count = job.count, !.verdict = "crashed"]
  /\ UNCHANGED <<published, cached, marker, disk, vouched, errors>>

(* A launch prepares the version; install_version installs it even if it   *)
(* is complete.                                                            *)
BeginPreparation ==
  /\ JobAt("idle") /\ job.count < MaxPreparations
  /\ \E b \in Builds, asked \in BOOLEAN :
       job' = [Idle EXCEPT !.at = "manifest", !.build = b, !.asked = asked,
                           !.count = job.count + 1]
  /\ UNCHANGED <<published, cached, marker, disk, vouched, errors, ends>>

CancelPreparation ==
  /\ ~JobAt("idle") /\ ~job.cancelled
  /\ job' = [job EXCEPT !.cancelled = TRUE]
  /\ UNCHANGED <<published, cached, marker, disk, vouched, errors, ends>>

-----------------------------------------------------------------------------
(* MetadataService::document: what the service answers is checked against  *)
(* the hash its manifest names and then cached; without an answer, or when *)
(* nothing has changed, the cached document is used.  A wrong hash or a    *)
(* cache that cannot be written is an error.                               *)
Save(document, edition) == cached' = [cached EXCEPT ![document] = edition]

FetchManifest ==
  /\ JobAt("manifest")
  /\ \/ /\ job.cancelled /\ End("cancelled") /\ UNCHANGED cached
     \/ /\ ~job.cancelled
        /\ Save("manifest", published)
        /\ job' = [job EXCEPT !.at = "version", !.manifest = published]
     \/ /\ ~job.cancelled /\ UNCHANGED cached
        /\ \/ End("failed")
           \/ /\ cached.manifest # None
              /\ job' = [job EXCEPT !.at = "version", !.manifest = cached.manifest]
  /\ UNCHANGED <<published, marker, disk, vouched, errors, ends>>

FetchVersion ==
  /\ JobAt("version")
  /\ \/ /\ job.cancelled /\ End("cancelled") /\ UNCHANGED cached
     \/ /\ ~job.cancelled
        /\ Save("version", job.manifest)
        /\ job' = [job EXCEPT !.at = "checking", !.want = job.manifest]
     \/ /\ ~job.cancelled /\ UNCHANGED cached
        /\ \/ End("failed")
           \/ /\ cached.version # None
              /\ job' = [job EXCEPT !.at = "checking", !.want = cached.version]
  /\ UNCHANGED <<published, marker, disk, vouched, errors, ends>>

(* Every planned file has the size and hash the metadata wants; the        *)
(* natives are compared with the inventory written when they were          *)
(* extracted, since the metadata says nothing of what is in the archives.  *)
FilesVerify(w) == \A p \in {"json", "base", "objects"} : Here[p] = w
InventoryVerifies == Here["natives"] \in Editions

(* Fault: the marker is believed.                                          *)
CheckMarkerOnly ==
  /\ JobAt("checking")
  /\ IF job.cancelled THEN End("cancelled")
     ELSE IF marker = "verified" THEN End("ready") ELSE To("marking")
  /\ UNCHANGED <<published, cached, marker, disk, vouched, errors, ends>>

(* is_verified_version *)
IsVerified == marker = "verified" /\ FilesVerify(job.want) /\ InventoryVerifies
CheckVersion ==
  /\ JobAt("checking")
  /\ \/ /\ NoError
        /\ IF job.asked THEN To("marking")
           ELSE IF job.cancelled THEN End("cancelled")
           ELSE IF IsVerified THEN End("ready") ELSE To("marking")
     \/ ~job.asked /\ Error /\ End("failed")
  /\ UNCHANGED <<published, cached, marker, disk, vouched, ends>>

(* install_resolved_with_progress: first the marker changes.               *)
MarkInstalling ==
  /\ JobAt("marking")
  /\ \/ /\ marker' = "installing" /\ NoError /\ To("persisting")
        /\ vouched' = [vouched EXCEPT ![job.build] = FALSE]
     \/ Error /\ End("failed") /\ UNCHANGED <<marker, vouched>>
  /\ UNCHANGED <<published, cached, disk, ends>>

(* persist_resolved_version and replace_file_safely: the new file is       *)
(* written beside the old one, which is moved away and comes back if the   *)
(* new one cannot take its place.                                          *)
SetJsonAside ==
  /\ JobAt("persisting")
  /\ \/ job.cancelled /\ Settle("cancelled") /\ NoError /\ UNCHANGED disk
     \/ ~job.cancelled /\ Error /\ Settle("failed") /\ UNCHANGED disk
     \/ /\ ~job.cancelled /\ NoError
        /\ IF Here["json"] = job.want THEN To("base") /\ UNCHANGED disk
           ELSE /\ Put("json", None)
                /\ job' = [job EXCEPT !.at = "placing", !.manifest = Here["json"]]
  /\ UNCHANGED <<published, cached, marker, vouched, ends>>

(* From here on the field that held the manifest's edition holds that of   *)
(* the file that was moved away.                                           *)
PlaceJson ==
  /\ JobAt("placing")
  /\ \/ Put("json", job.want) /\ To("base") /\ NoError
     \/ /\ Error /\ Settle("failed")
        /\ disk' \in {disk, [disk EXCEPT ![job.build]["json"] = job.manifest]}
     \/ Put("json", job.want) /\ Error /\ Settle("failed")
  /\ UNCHANGED <<published, cached, marker, vouched, ends>>

(* Fault: every execution downloads all of its files again.                *)
BeginDownloadAfresh(phase, part, running) ==
  /\ JobAt(phase)
  /\ \/ job.cancelled /\ Settle("cancelled") /\ UNCHANGED disk
     \/ ~job.cancelled /\ Settle("failed") /\ UNCHANGED disk
     \/ ~job.cancelled /\ To(running) /\ Put(part, None)
  /\ UNCHANGED <<published, cached, marker, vouched, errors, ends>>

(* The two executions of the downloads, which replace one file after the   *)
(* other; a file that verifies already is left as it is.                   *)
BeginDownload(phase, part, running) ==
  /\ JobAt(phase)
  /\ \/ job.cancelled /\ Settle("cancelled") /\ UNCHANGED disk
     \/ ~job.cancelled /\ Settle("failed") /\ UNCHANGED disk
     \/ /\ ~job.cancelled /\ To(running)
        /\ IF Here[part] = job.want THEN UNCHANGED disk ELSE Put(part, None)
  /\ UNCHANGED <<published, cached, marker, vouched, errors, ends>>

FinishDownload(running, part, next) ==
  /\ JobAt(running)
  /\ \/ job.cancelled /\ Settle("cancelled") /\ UNCHANGED disk
     \/ ~job.cancelled /\ Settle("failed") /\ UNCHANGED disk
     \/ ~job.cancelled /\ Put(part, job.want) /\ To(next)
  /\ UNCHANGED <<published, cached, marker, vouched, errors, ends>>

DownloadBase == BeginDownload("base", "base", "fetchingBase")
BaseIsThere == FinishDownload("fetchingBase", "base", "objects")
DownloadObjects == BeginDownload("objects", "objects", "fetchingObjects")
ObjectsAreThere == FinishDownload("fetchingObjects", "objects", "recovering")

(* Fault: a backup is rubbish.                                             *)
DiscardBackup ==
  /\ JobAt("recovering")
  /\ NoError /\ To("extracting") /\ Put("backup", None)
  /\ UNCHANGED <<published, cached, marker, vouched, ends>>

(* recover_interrupted: what an interrupted swap has left behind, staging  *)
(* directories included.                                                   *)
BackupHalfRemoved ==
  Here["backup"] # None /\ Here["natives"] # None /\ Put("backup", Damaged)
RecoverNatives ==
  /\ JobAt("recovering")
  /\ \/ /\ NoError /\ To("extracting")
        /\ disk' = [disk EXCEPT ![job.build]["backup"] = None,
             ![job.build]["natives"] = IF @ = None THEN Here["backup"] ELSE @]
     \/ Error /\ Settle("failed") /\ (UNCHANGED disk \/ BackupHalfRemoved)
  /\ UNCHANGED <<published, cached, marker, vouched, ends>>

(* extract_archive into a staging directory, within the budget of entries  *)
(* and bytes.                                                              *)
ExtractNatives ==
  /\ JobAt("extracting")
  /\ \/ job.cancelled /\ Settle("cancelled")
     \/ ~job.cancelled /\ Settle("failed")
     \/ ~job.cancelled /\ To("listing")
  /\ UNCHANGED <<published, cached, marker, disk, vouched, errors, ends>>

(* What has been extracted is listed with its hashes beside it.            *)
PersistInventory ==
  /\ JobAt("listing")
  /\ \/ To("settingAside") /\ NoError
     \/ Error /\ Settle("failed")
  /\ UNCHANGED <<published, cached, marker, disk, vouched, ends>>

(* activate_staging_with_cleanup, rename by rename.                        *)
SetNativesAside ==
  /\ JobAt("settingAside")
  /\ \/ /\ NoError /\ To("activating")
        /\ disk' = [disk EXCEPT ![job.build]["backup"] = Here["natives"],
                                ![job.build]["natives"] = None]
     \/ Here["natives"] # None /\ Error /\ Settle("failed") /\ UNCHANGED disk
  /\ UNCHANGED <<published, cached, marker, vouched, ends>>

PlaceNatives ==
  /\ JobAt("activating")
  /\ \/ Put("natives", job.want) /\ To("cleaning") /\ NoError
     \/ /\ Error /\ Settle("failed")
        /\ \/ disk' = [disk EXCEPT ![job.build]["natives"] = Here["backup"],
                                   ![job.build]["backup"] = None]
           \/ Here["backup"] # None /\ UNCHANGED disk
  /\ UNCHANGED <<published, cached, marker, vouched, ends>>

(* The backup may be in use; the next installation removes it then.        *)
RemoveNativesBackup ==
  /\ JobAt("cleaning")
  /\ IF job.cancelled THEN Settle("cancelled") ELSE Settle("verified")
  /\ \/ Put("backup", None) /\ NoError
     \/ Here["backup"] # None /\ Error /\ (UNCHANGED disk \/ BackupHalfRemoved)
  /\ UNCHANGED <<published, cached, marker, vouched, ends>>

(* The marker tells the result, if the database takes it.                  *)
MarkResult ==
  /\ JobAt("settling")
  /\ \/ /\ NoError /\ marker' = job.verdict
        /\ End(IF job.verdict = "verified" THEN "ready" ELSE job.verdict)
        /\ vouched' = [vouched EXCEPT ![job.build] = job.verdict = "verified"]
     \/ Error /\ End("failed") /\ UNCHANGED <<marker, vouched>>
  /\ UNCHANGED <<published, cached, disk, ends>>

PreparationStep ==
  \/ FetchManifest \/ FetchVersion \/ CheckVersion \/ MarkInstalling \/ SetJsonAside
  \/ PlaceJson \/ DownloadBase \/ BaseIsThere \/ DownloadObjects \/ ObjectsAreThere
  \/ RecoverNatives \/ ExtractNatives \/ PersistInventory \/ SetNativesAside
  \/ PlaceNatives \/ RemoveNativesBackup \/ MarkResult

InstallNext ==
  \/ Publish \/ DamagePart \/ EndProcess \/ BeginPreparation \/ CancelPreparation
  \/ PreparationStep

InstallSpec == InstallInit /\ [][InstallNext]_installVars

-----------------------------------------------------------------------------
(* From the first change of a directory to the result.                     *)
Installing == {"persisting", "placing", "base", "fetchingBase", "objects",
               "fetchingObjects", "recovering", "extracting", "listing",
               "settingAside", "activating", "cleaning", "settling"}
Phases == {"idle", "manifest", "version", "checking", "marking"} \cup Installing
Results == {"verified", "cancelled", "failed"}

(* The state is well formed.                                               *)
InstallTypeOK ==
  /\ published \in Editions
  /\ cached \in [{"manifest", "version"} -> 0..MaxEdition]
  /\ marker \in {"none", "installing"} \cup Results
  /\ disk \in [Builds -> [Parts -> 0..Damaged]]
  /\ vouched \in [Builds -> BOOLEAN]
  /\ job \in [at : Phases, build : Builds \cup {NoBuild}, want : 0..MaxEdition,
              manifest : 0..Damaged, asked : BOOLEAN, cancelled : BOOLEAN,
              verdict : Results \cup {"none", "crashed", "ready"}, count : Nat]

Ready == JobAt("idle") /\ job.verdict = "ready"

(* A launch goes on only with a directory in which every file and the      *)
(* natives are those the metadata wants, whatever broke off before.        *)
(* The natives are vouched for by the marker alone, and the marker is      *)
(* that of all builds: the statement about them is for builds in which the *)
(* last installation begun has also completed (is_verified_version).       *)
ReadyIsComplete ==
  Ready => /\ \A p \in {"json", "base", "objects"} : Here[p] = job.want
           /\ Here["natives"] \in Editions
           /\ vouched[job.build] => Here["natives"] = job.want

(* No step of an installation destroys the last directory of natives: it   *)
(* is in place or set aside.  A damaged directory counts as one: nobody    *)
(* asks whether it is (activate_staging_with_cleanup, recover_interrupted).*)
HasNatives(b) == disk[b]["natives"] # None \/ disk[b]["backup"] # None
NativesAreKept ==
  [][~JobAt("idle") => \A b \in Builds : HasNatives(b) => HasNatives(b)']_installVars

(* What a cancelled or failed installation has downloaded and verified is  *)
(* found by the next one: only an installation that wants another edition  *)
(* takes a part away (docs/superpowers/specs: cancelling leaves verified   *)
(* files for the next attempt).                                            *)
VerifiedPartsStay ==
  [][\A b \in Builds : \A p \in {"json", "base", "objects"} :
       ~JobAt("idle") /\ disk[b][p] = job.want => disk'[b][p] = disk[b][p]]_installVars

=============================================================================
