--------------------------- MODULE ManagedRuntime ---------------------------
(***************************************************************************)
(* The managed Java runtime of one major version                           *)
(* (crates/launcher-core/src/runtime): it is installed beside the one in   *)
(* use and put in its place by two renames, with the old one as a backup   *)
(* that the next installation or the next start of the core finds again.   *)
(* The paths the user chose by hand are kept in a file that is replaced    *)
(* the same way.                                                           *)
(*                                                                         *)
(* The content of a Java home is what a probe of it would say.             *)
(***************************************************************************)
EXTENDS Naturals, FiniteSets

CONSTANTS
  Launches,     (* launches that ask for the runtime                       *)
  Pages,        (* settings pages that install it or choose another        *)
  Paths,        (* java.exe files the user may choose by hand              *)
  NoPath,       (* none is chosen                                          *)
  Legacy,       (* whether a backup with a name of old versions is there   *)
  MaxFaults,    (* bound: file system errors, probes that time out, damage *)
  MaxCrashes,   (* bound: ends of the core's process                       *)
  MaxCalls      (* bound: calls of each caller                             *)

ASSUME RuntimeAssumption == NoPath \notin Paths /\ Legacy \in BOOLEAN

Callers == Launches \cup Pages

VARIABLES
  core,       (* "up", "down", or "refused": the last start has failed     *)
  final,      (* java-N                                                    *)
  backup,     (* .backup-java-N and the legacy .backup-java-N-nonce        *)
  staged,     (* .candidate-java-N, and .failed-java-N while recovering    *)
  installing, (* RuntimeManager::installing holds this major               *)
  call,       (* caller -> [at, answer, cancelled, path, told, calls]; told *)
              (* since the start that the runtime's state is inconsistent   *)
  override,   (* manual_overrides in memory                                *)
  saved,      (* java-overrides-v1.json                                    *)
  acked,      (* the choice last acknowledged (history)                    *)
  torn,       (* replacing the file was interrupted or failed (history)    *)
  faults, crashes

homeVars == <<final, backup, staged>>
overrideVars == <<override, saved, acked, torn>>
runtimeVars == <<core, homeVars, installing, call, overrideVars, faults, crashes>>

Homes == {"none", "working", "broken"}
Names == {"current", "legacy"}
Backups == {n \in Names : backup[n] # "none"}
TheBackup == CHOOSE n \in Names : backup[n] # "none"

At(c, phase) == core = "up" /\ call[c].at = phase
Move(c, phase) == call' = [call EXCEPT ![c].at = phase]
Finish(c, answer) == call' = [call EXCEPT ![c].at = "leaving", ![c].answer = answer,
                                          ![c].told = @ \/ answer = "inconsistent"]
Answer(c, answer) == call' = [call EXCEPT ![c].at = "idle", ![c].answer = answer]
Fault == faults < MaxFaults /\ faults' = faults + 1
NoFault == UNCHANGED faults

(* probe_java: a home that works may still fail to answer within five      *)
(* seconds; one that is broken, or of another major, never passes.         *)
Probe(home, ok) ==
  IF home = "working" THEN (ok /\ NoFault) \/ (~ok /\ Fault)
  ELSE ~ok /\ NoFault

(* remove_dir_all of a home, best effort: a file that is in use leaves     *)
(* everything, or what had not been deleted yet.                           *)
Removal(home, rest) ==
  \/ rest = "none" /\ NoFault
  \/ rest \in {home, "broken"} /\ Fault

RuntimeInit ==
  /\ core = "down"
  /\ final \in Homes
  /\ backup \in [Names -> {"none", "working"}]
  /\ backup["current"] = "none"
  /\ ~Legacy => backup["legacy"] = "none"
  /\ staged = "none"
  /\ installing = FALSE
  /\ call = [c \in Callers |-> [at |-> "idle", answer |-> "none", cancelled |-> FALSE,
                                path |-> NoPath, told |-> FALSE, calls |-> 0]]
  /\ override = NoPath /\ saved = NoPath /\ acked = NoPath /\ torn = FALSE
  /\ faults = 0 /\ crashes = 0

-----------------------------------------------------------------------------
(* recover_interrupted_swaps_on_startup and load_manual_overrides: a start *)
(* puts a backup back where no runtime is left; it fails where there are   *)
(* two backups, or the rename fails.                                       *)
StartCore ==
  /\ core # "up"
  /\ override' = saved
  /\ \/ /\ Cardinality(Backups) < 2
        /\ core' = "up" /\ NoFault
        /\ IF final = "none" /\ Backups # {}
           THEN /\ final' = backup[TheBackup]
                /\ backup' = [backup EXCEPT ![TheBackup] = "none"]
           ELSE UNCHANGED <<final, backup>>
     \/ /\ Cardinality(Backups) = 2
        /\ core' = "refused" /\ NoFault /\ UNCHANGED <<final, backup>>
     \/ /\ Cardinality(Backups) = 1 /\ final = "none"
        /\ core' = "refused" /\ Fault /\ UNCHANGED <<final, backup>>
  /\ UNCHANGED <<staged, installing, call, saved, acked, torn, crashes>>

(* The process ends between any two steps.  Candidates and what was        *)
(* renamed to .failed-java are never looked for again.                     *)
CrashCore ==
  /\ core = "up" /\ crashes < MaxCrashes
  /\ core' = "down" /\ crashes' = crashes + 1
  /\ staged' = "none" /\ installing' = FALSE
  /\ call' = [c \in Callers |-> [call[c] EXCEPT !.at = "idle", !.answer = "none", !.told = FALSE]]
  /\ torn' = (torn \/ \E c \in Callers : call[c].at = "saving")
  /\ UNCHANGED <<final, backup, override, saved, acked, faults>>

(* Other programs damage the home in use while nothing is installed.       *)
DamageRuntime ==
  /\ ~installing /\ final = "working"
  /\ final' = "broken" /\ Fault
  /\ UNCHANGED <<core, backup, staged, installing, call, overrideVars, crashes>>

BeginCall(c, phase, path) ==
  /\ At(c, "idle") /\ call[c].calls < MaxCalls
  /\ call' = [call EXCEPT ![c] = [at |-> phase, answer |-> "none", cancelled |-> FALSE,
                                  path |-> path, told |-> @.told, calls |-> @.calls + 1]]
  /\ UNCHANGED <<core, homeVars, installing, overrideVars, faults, crashes>>

(* ProductionWorkflowBackend::runtime resolves first; the page installs at *)
(* once, or lets the user choose a java.exe.                               *)
LaunchAsks(c) == c \in Launches /\ BeginCall(c, "resolving", NoPath)
PageInstalls(c) == c \in Pages /\ BeginCall(c, "admitting", NoPath)
PageChooses(c) == c \in Pages /\ \E p \in Paths : BeginCall(c, "choosing", p)

CancelCall(c) ==
  /\ core = "up" /\ call[c].at # "idle" /\ ~call[c].cancelled
  /\ call' = [call EXCEPT ![c].cancelled = TRUE]
  /\ UNCHANGED <<core, homeVars, installing, overrideVars, faults, crashes>>

-----------------------------------------------------------------------------
(* resolve_cancellable: the managed runtime, else the one chosen by hand,  *)
(* else one of the system, whichever passes the probe first; when none     *)
(* does, a launch goes on to install.                                      *)
Resolve(c) ==
  /\ At(c, "resolving")
  /\ \/ call[c].cancelled /\ Answer(c, "cancelled") /\ NoFault
     \/ ~call[c].cancelled /\ Probe(final, TRUE) /\ Answer(c, "managed")
     \/ /\ ~call[c].cancelled /\ Probe(final, FALSE)
        /\ \/ override # NoPath /\ Answer(c, "manual")
           \/ Answer(c, "system")
           \/ Move(c, "admitting")
  /\ UNCHANGED <<core, homeVars, installing, overrideVars, crashes>>

(* RuntimeManager::install_cancellable: the second caller is told that an  *)
(* installation is running and does not wait for it.                       *)
Admit(c) ==
  /\ At(c, "admitting")
  /\ IF call[c].cancelled THEN Answer(c, "cancelled") /\ UNCHANGED installing
     ELSE IF installing THEN Answer(c, "installing") /\ UNCHANGED installing
     ELSE Move(c, "recovering") /\ installing' = TRUE
  /\ UNCHANGED <<core, homeVars, overrideVars, faults, crashes>>

(* recover_interrupted_swap up to its first await.                         *)
FindBackup(c) ==
  /\ At(c, "recovering")
  /\ CASE call[c].cancelled ->
            Finish(c, "cancelled") /\ NoFault /\ UNCHANGED <<final, backup>>
       [] ~call[c].cancelled /\ Cardinality(Backups) = 2 ->
            Finish(c, "inconsistent") /\ NoFault /\ UNCHANGED <<final, backup>>
       [] ~call[c].cancelled /\ Backups = {} ->
            Move(c, "fetching") /\ NoFault /\ UNCHANGED <<final, backup>>
       [] ~call[c].cancelled /\ Cardinality(Backups) = 1 /\ final # "none" ->
            Move(c, "probingFinal") /\ NoFault /\ UNCHANGED <<final, backup>>
       [] OTHER ->
            \/ /\ Move(c, "probingFinal") /\ NoFault
               /\ final' = backup[TheBackup]
               /\ backup' = [backup EXCEPT ![TheBackup] = "none"]
            \/ Finish(c, "inconsistent") /\ Fault /\ UNCHANGED <<final, backup>>
  /\ UNCHANGED <<core, staged, installing, overrideVars, crashes>>

(* Its probe of the runtime in place, raced against the cancellation.      *)
ProbeFinal(c) ==
  /\ At(c, "probingFinal")
  /\ \/ call[c].cancelled /\ Finish(c, "cancelled") /\ NoFault /\ UNCHANGED backup
     \/ /\ final = "working" /\ Move(c, "fetching")
        /\ IF Backups = {} THEN NoFault /\ UNCHANGED backup
           ELSE \E rest \in Homes :
                  /\ Removal(backup[TheBackup], rest)
                  /\ backup' = [backup EXCEPT ![TheBackup] = rest]
     \/ /\ Probe(final, FALSE) /\ UNCHANGED backup
        /\ IF Backups = {} THEN Finish(c, "inconsistent") ELSE Move(c, "probingBackup")
  /\ UNCHANGED <<core, final, staged, installing, overrideVars, crashes>>

(* Fault: the backup takes the place of the runtime without a probe.       *)
TrustBackup(c) ==
  /\ At(c, "probingBackup")
  /\ Move(c, "reverting") /\ staged' = final /\ final' = "none" /\ NoFault
  /\ UNCHANGED <<core, backup, installing, overrideVars, crashes>>

(* The backup must prove itself before the runtime in place is moved away. *)
ProbeBackup(c) ==
  /\ At(c, "probingBackup")
  /\ \/ call[c].cancelled /\ Finish(c, "cancelled") /\ NoFault /\ UNCHANGED <<final, staged>>
     \/ /\ Probe(backup[TheBackup], FALSE)
        /\ Finish(c, "inconsistent") /\ UNCHANGED <<final, staged>>
     \/ /\ backup[TheBackup] = "working"
        /\ \/ Move(c, "reverting") /\ staged' = final /\ final' = "none" /\ NoFault
           \/ Finish(c, "inconsistent") /\ Fault /\ UNCHANGED <<final, staged>>
  /\ UNCHANGED <<core, backup, installing, overrideVars, crashes>>

(* Its second rename, or the first one undone; undoing may fail as well.   *)
Revert(c) ==
  /\ At(c, "reverting")
  /\ staged' = "none"
  /\ \/ /\ final' = backup[TheBackup] /\ backup' = [backup EXCEPT ![TheBackup] = "none"]
        /\ Move(c, "fetching") /\ NoFault
     \/ final' \in {staged, "none"} /\ Finish(c, "inconsistent") /\ Fault /\ UNCHANGED backup
  /\ UNCHANGED <<core, installing, overrideVars, crashes>>

(* The archive: fetched piece by piece, cancelled between two pieces, and  *)
(* its checksum compared.                                                  *)
FetchArchive(c) ==
  /\ At(c, "fetching")
  /\ \/ call[c].cancelled /\ Finish(c, "cancelled")
     \/ Finish(c, "failed")
     \/ ~call[c].cancelled /\ Move(c, "extracting")
  /\ UNCHANGED <<core, homeVars, installing, overrideVars, faults, crashes>>

(* Entry by entry, within bounds of entries and bytes, into a directory    *)
(* that goes if that fails.  What it holds may be broken all the same.     *)
ExtractArchive(c) ==
  /\ At(c, "extracting")
  /\ \/ call[c].cancelled /\ Finish(c, "cancelled") /\ UNCHANGED staged
     \/ Finish(c, "failed") /\ UNCHANGED staged
     \/ ~call[c].cancelled /\ Move(c, "probing") /\ staged' \in {"working", "broken"}
  /\ UNCHANGED <<core, final, backup, installing, overrideVars, faults, crashes>>

(* Fault: the candidate is installed without being run.                    *)
TrustCandidate(c) ==
  /\ At(c, "probing")
  /\ Move(c, "swapping")
  /\ UNCHANGED <<core, homeVars, installing, overrideVars, faults, crashes>>

(* Its Java is run, and must be of the major that was asked for.           *)
ProbeCandidate(c) ==
  /\ At(c, "probing")
  /\ \/ call[c].cancelled /\ Finish(c, "cancelled") /\ NoFault /\ staged' = "none"
     \/ Probe(staged, FALSE) /\ Finish(c, "failed") /\ staged' = "none"
     \/ Probe(staged, TRUE) /\ Move(c, "swapping") /\ UNCHANGED staged
  /\ UNCHANGED <<core, final, backup, installing, overrideVars, crashes>>

(* replace_runtime, first rename.  From here on a cancel has no effect.    *)
SetAside(c) ==
  /\ At(c, "swapping")
  /\ IF backup["current"] # "none"
     THEN /\ Finish(c, "inconsistent") /\ NoFault
          /\ staged' = "none" /\ UNCHANGED <<final, backup>>
     ELSE \/ /\ final # "none"
             /\ backup' = [backup EXCEPT !["current"] = final] /\ final' = "none"
             /\ Move(c, "activating") /\ NoFault /\ UNCHANGED staged
          \/ /\ final = "none"
             /\ Move(c, "activating") /\ NoFault /\ UNCHANGED homeVars
          \/ /\ final # "none"
             /\ Finish(c, "failed") /\ Fault /\ staged' = "none" /\ UNCHANGED <<final, backup>>
  /\ UNCHANGED <<core, installing, overrideVars, crashes>>

(* Fault: a failed activation leaves the old runtime set aside.            *)
ActivateOrForget(c) ==
  /\ At(c, "activating")
  /\ staged' = "none"
  /\ \/ final' = staged /\ Move(c, "activated") /\ NoFault /\ UNCHANGED backup
     \/ Fault /\ Finish(c, "failed") /\ UNCHANGED <<final, backup>>
  /\ UNCHANGED <<core, installing, overrideVars, crashes>>

(* Its second rename; when that fails, restore_backup, which may fail too. *)
Activate(c) ==
  /\ At(c, "activating")
  /\ staged' = "none"
  /\ \/ final' = staged /\ Move(c, "activated") /\ NoFault /\ UNCHANGED backup
     \/ /\ Fault
        /\ \/ /\ final' = backup["current"] /\ backup' = [backup EXCEPT !["current"] = "none"]
              /\ Finish(c, "failed")
           \/ /\ backup["current"] # "none"
              /\ Finish(c, "inconsistent") /\ UNCHANGED <<final, backup>>
  /\ UNCHANGED <<core, installing, overrideVars, crashes>>

DropBackup(c) ==
  /\ At(c, "activated")
  /\ Finish(c, "valid")
  /\ IF backup["current"] = "none" THEN NoFault /\ UNCHANGED backup
     ELSE \E rest \in Homes :
            /\ Removal(backup["current"], rest)
            /\ backup' = [backup EXCEPT !["current"] = rest]
  /\ UNCHANGED <<core, final, staged, installing, overrideVars, crashes>>

(* Whatever the installer returned, the major is free again.               *)
ReleaseSlot(c) ==
  /\ At(c, "leaving")
  /\ Move(c, "idle")
  /\ installing' = FALSE
  /\ UNCHANGED <<core, homeVars, overrideVars, faults, crashes>>

-----------------------------------------------------------------------------
(* choose_manual_runtime probes the path and then takes the write lock.    *)
SetSavedAside(c) ==
  /\ At(c, "choosing")
  /\ \A d \in Callers : call[d].at # "saving"
  /\ \/ /\ Fault /\ Answer(c, "refused") /\ UNCHANGED saved
     \/ /\ NoFault /\ Move(c, "saving") /\ saved' = NoPath
  /\ UNCHANGED <<core, homeVars, installing, override, acked, torn, crashes>>

(* Fault: a choice that could not be written is kept in memory only.       *)
KeepUnsavedChoice(c) ==
  /\ At(c, "saving")
  /\ \/ /\ NoFault /\ saved' = call[c].path /\ UNCHANGED torn
     \/ /\ Fault
        /\ \/ saved' = override /\ UNCHANGED torn
           \/ torn' = TRUE /\ UNCHANGED saved
  /\ Answer(c, "chosen") /\ override' = call[c].path /\ acked' = call[c].path
  /\ UNCHANGED <<core, homeVars, installing, crashes>>

(* persist_manual_overrides: the file with the new choice takes the place  *)
(* of the old one, which comes back if that fails, and only then does the  *)
(* memory change.                                                          *)
SaveChoice(c) ==
  /\ At(c, "saving")
  /\ \/ /\ NoFault /\ Answer(c, "chosen")
        /\ saved' = call[c].path /\ override' = call[c].path /\ acked' = call[c].path
        /\ UNCHANGED torn
     \/ /\ Fault /\ Answer(c, "refused")
        /\ \/ saved' = override /\ UNCHANGED torn
           \/ torn' = TRUE /\ UNCHANGED saved
        /\ UNCHANGED <<override, acked>>
  /\ UNCHANGED <<core, homeVars, installing, crashes>>

InstallStep(c) ==
  \/ Resolve(c) \/ Admit(c) \/ FindBackup(c) \/ ProbeFinal(c) \/ ProbeBackup(c)
  \/ Revert(c) \/ FetchArchive(c) \/ ExtractArchive(c) \/ ProbeCandidate(c) \/ SetAside(c)
  \/ Activate(c) \/ DropBackup(c) \/ ReleaseSlot(c) \/ SetSavedAside(c) \/ SaveChoice(c)

RuntimeNext ==
  \/ StartCore \/ CrashCore \/ DamageRuntime
  \/ \E c \in Callers :
       LaunchAsks(c) \/ PageInstalls(c) \/ PageChooses(c) \/ CancelCall(c) \/ InstallStep(c)

RuntimeSpec == RuntimeInit /\ [][RuntimeNext]_runtimeVars

-----------------------------------------------------------------------------
Swapping == {"reverting", "activating"}
HasWorking == "working" \in {final, backup["current"], backup["legacy"]}

(* From the admission to the return of an installation.                    *)
Installation == {"recovering", "probingFinal", "probingBackup", "reverting",
                 "fetching", "extracting", "probing", "swapping", "activating",
                 "activated", "leaving"}
CallPhases == {"idle", "resolving", "admitting", "choosing", "saving"} \cup Installation
Answers == {"none", "managed", "manual", "system", "valid", "installing",
            "cancelled", "failed", "inconsistent", "chosen", "refused"}

(* The state is well formed.                                               *)
RuntimeTypeOK ==
  /\ core \in {"up", "down", "refused"}
  /\ final \in Homes /\ staged \in Homes
  /\ backup \in [Names -> Homes]
  /\ installing \in BOOLEAN /\ torn \in BOOLEAN
  /\ {override, saved, acked} \subseteq Paths \cup {NoPath}
  /\ call \in [Callers -> [at : CallPhases, answer : Answers, cancelled : BOOLEAN,
                          path : Paths \cup {NoPath}, told : BOOLEAN, calls : Nat]]

(* No step of the core destroys the last runtime that works: it is in      *)
(* place or in a backup whatever fails and whenever the core ends          *)
(* (RuntimeInstaller::install_cancellable, recover_interrupted_swap).      *)
WorkingRuntimeIsKept ==
  [][HasWorking /\ ~HasWorking' => ~installing /\ final # final']_runtimeVars

(* While the core runs, a runtime that is missing although a backup of it  *)
(* waits is being swapped at that moment, or a caller has been told that   *)
(* its state is inconsistent (restore_backup, the rollback of the          *)
(* recovery, recover_interrupted_swaps_on_startup).                        *)
GapIsReported ==
  core = "up" /\ final = "none" /\ Backups # {} =>
    \E c \in Callers : call[c].at \in Swapping \/ call[c].told

(* When an installation answers that the runtime is valid, a working one   *)
(* is in place, and nobody else is replacing it at that moment (the set    *)
(* of majors being installed, the probe before the swap).                  *)
ValidIsInPlace ==
  \A c \in Callers : call[c].at = "leaving" /\ call[c].answer = "valid" => final = "working"

(* A choice the user was told was accepted is in the file the next start   *)
(* reads, unless a later choice was interrupted or could not be undone     *)
(* (persist_manual_overrides before the memory is changed).                *)
ChoiceSurvives ==
  saved = acked \/ torn \/ \E c \in Callers : call[c].at = "saving"

=============================================================================
