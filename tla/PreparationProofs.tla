------------------------- MODULE PreparationProofs -------------------------
(***************************************************************************)
(* Proofs about what a launch prepares before it starts a game: the Java   *)
(* that it runs on (ManagedRuntime, for any callers and paths) and the     *)
(* version that it runs (VersionInstall, for any builds, editions and      *)
(* bounds).                                                                *)
(*                                                                         *)
(* The argument about a runtime: one caller at a time is between the       *)
(* admission and the return of an installation, so what it knows of the    *)
(* homes from its last step is still true at its next one; and what it     *)
(* knows is enough to see that neither rename loses anything.              *)
(* The argument about a version: in each phase of a preparation, the parts *)
(* it has gone through are those that its metadata wants, since nothing    *)
(* else changes a directory that is being installed.                       *)
(***************************************************************************)
EXTENDS ManagedRuntime, VersionInstall, FiniteSetTheorems, TLAPS

Calls == [at : CallPhases, answer : Answers, cancelled : BOOLEAN,
          path : Paths \cup {NoPath}, told : BOOLEAN, calls : Nat]

IsInstalling(c) == call[c].at \in Installation

(* What an installation knows at each of its steps.                        *)
Knows(c) ==
  /\ IsInstalling(c) => installing
  /\ call[c].at \in {"probingFinal", "probingBackup", "reverting"} =>
       \A m, n \in Backups : m = n
  /\ call[c].at \in {"probingBackup", "reverting"} => Backups # {}
  /\ call[c].at = "reverting" =>
       final = "none" /\ \A n \in Backups : backup[n] = "working"
  /\ call[c].at \in {"fetching", "extracting", "probing", "swapping"} =>
       final # "none" \/ Backups = {}
  /\ call[c].at \in {"swapping", "activating"} => staged = "working"
  /\ call[c].at = "activating" =>
       final = "none" /\ (backup["current"] # "none" \/ Backups = {})
  /\ call[c].at = "activated" => final = "working"
  /\ call[c].at = "leaving" /\ call[c].answer = "valid" => final = "working"

OneInstalls == \A c, d \in Callers : IsInstalling(c) /\ IsInstalling(d) => c = d
NobodyWhenDown == core # "up" => \A c \in Callers : call[c].at = "idle"

(* The memory holds what was acknowledged, and so does the file unless it  *)
(* is being replaced.                                                      *)
ChoiceIsHeld ==
  torn \/ /\ core = "up" => override = acked
          /\ (\A c \in Callers : call[c].at # "saving") => saved = acked

RuntimeInv ==
  /\ RuntimeTypeOK
  /\ \A c \in Callers : Knows(c)
  /\ OneInstalls
  /\ NobodyWhenDown
  /\ ChoiceIsHeld
  /\ GapIsReported

-----------------------------------------------------------------------------
(* There are two names of backups: none, one or both exist.                *)
LEMMA BackupFacts ==
  /\ Backups = {} <=> Cardinality(Backups) = 0
  /\ Cardinality(Backups) \in 0..2
  /\ Cardinality(Backups) < 2 => \A m, n \in Backups : m = n
  /\ Backups # {} => TheBackup \in Backups
<1>1. Backups \subseteq {"current", "legacy"}
  BY DEF Backups, Names
<1>2. \/ Backups = {} \/ Backups = {"current"} \/ Backups = {"legacy"}
      \/ Backups = {"current", "legacy"}
  BY <1>1
<1>3. Cardinality({}) = 0
  BY FS_EmptySet
<1>4. Cardinality({"current"}) = 1 /\ Cardinality({"legacy"}) = 1
      /\ IsFiniteSet({"current"})
  BY FS_Singleton
<1>5. Cardinality({"current", "legacy"}) = 2
  <2>1. {"current", "legacy"} = {"current"} \cup {"legacy"} /\ "legacy" \notin {"current"}
    OBVIOUS
  <2> QED
    BY <1>4, <2>1, FS_AddElement
<1>6. Backups # {} => TheBackup \in Backups
  <2> SUFFICES ASSUME NEW n \in Names, backup[n] # "none"
               PROVE  TheBackup \in Backups
    BY DEF Backups
  <2> QED
    BY DEF TheBackup, Backups
<1>7. /\ Cardinality(Backups) \in {0, 1, 2}
      /\ (Cardinality(Backups) < 2 => \A m, n \in Backups : m = n)
  BY <1>2, <1>3, <1>4, <1>5
<1> QED
  BY <1>2, <1>3, <1>4, <1>5, <1>6, <1>7

(* The three ways a call goes on.                                          *)
LEMMA Moves ==
  ASSUME call \in [Callers -> Calls], NEW c \in Callers, NEW p \in CallPhases, Move(c, p)
  PROVE  /\ call' \in [Callers -> Calls]
         /\ \A d \in Callers : d # c => call'[d] = call[d]
         /\ call'[c].at = p /\ call'[c].answer = call[c].answer
         /\ call'[c].told = call[c].told
<1>1. /\ [call[c] EXCEPT !.at = p] \in Calls
      /\ [call[c] EXCEPT !.at = p].at = p
      /\ [call[c] EXCEPT !.at = p].answer = call[c].answer
      /\ [call[c] EXCEPT !.at = p].told = call[c].told
  BY DEF Calls
<1> QED
  BY <1>1 DEF Move

LEMMA Finishes ==
  ASSUME call \in [Callers -> Calls], NEW c \in Callers, NEW a \in Answers, Finish(c, a)
  PROVE  /\ call' \in [Callers -> Calls]
         /\ \A d \in Callers : d # c => call'[d] = call[d]
         /\ call'[c].at = "leaving" /\ call'[c].answer = a
         /\ call[c].told => call'[c].told
         /\ a = "inconsistent" => call'[c].told
<1> DEFINE r == [call[c] EXCEPT !.at = "leaving", !.answer = a,
                               !.told = call[c].told \/ a = "inconsistent"]
<1>1. (call[c].told \/ a = "inconsistent") \in BOOLEAN
  BY DEF Calls
<1>2. r \in Calls /\ r.at = "leaving" /\ r.answer = a
      /\ r.told = (call[c].told \/ a = "inconsistent")
  BY <1>1 DEF Calls, CallPhases, Installation
<1>3. call' = [call EXCEPT ![c] = r]
  BY DEF Finish
<1> HIDE DEF r
<1> QED
  BY <1>2, <1>3

LEMMA GivesAnswer ==
  ASSUME call \in [Callers -> Calls], NEW c \in Callers, NEW a \in Answers, Answer(c, a)
  PROVE  /\ call' \in [Callers -> Calls]
         /\ \A d \in Callers : d # c => call'[d] = call[d]
         /\ call'[c].at = "idle" /\ call'[c].told = call[c].told
<1>1. /\ [call[c] EXCEPT !.at = "idle", !.answer = a] \in Calls
      /\ [call[c] EXCEPT !.at = "idle", !.answer = a].at = "idle"
      /\ [call[c] EXCEPT !.at = "idle", !.answer = a].told = call[c].told
  BY DEF Calls, CallPhases
<1> QED
  BY <1>1 DEF Answer

(* Every step of a call is one of them, or begins or cancels it.           *)
CallStep(c) ==
  LaunchAsks(c) \/ PageInstalls(c) \/ PageChooses(c) \/ CancelCall(c) \/ InstallStep(c)

LEMMA StepsOfCall ==
  ASSUME RuntimeTypeOK, NEW c \in Callers, CallStep(c)
  PROVE  /\ call' \in [Callers -> Calls]
         /\ \A d \in Callers : d # c => call'[d] = call[d]
         /\ call[c].told => call'[c].told
<1>0. call \in [Callers -> Calls]
  BY DEF RuntimeTypeOK, Calls
<1>1. CASE LaunchAsks(c) \/ PageInstalls(c) \/ PageChooses(c)
  <2>1. PICK phase \in CallPhases, path \in Paths \cup {NoPath} : BeginCall(c, phase, path)
    BY <1>1 DEF LaunchAsks, PageInstalls, PageChooses, CallPhases
  <2> DEFINE r == [at |-> phase, answer |-> "none", cancelled |-> FALSE,
                   path |-> path, told |-> call[c].told, calls |-> call[c].calls + 1]
  <2>2. r \in Calls /\ r.told = call[c].told
    BY <1>0, <2>1 DEF Calls, Answers
  <2>3. call' = [call EXCEPT ![c] = r]
    BY <2>1 DEF BeginCall
  <2> HIDE DEF r
  <2> QED
    BY <1>0, <2>2, <2>3
<1>2. CASE CancelCall(c)
  <2>1. [call[c] EXCEPT !.cancelled = TRUE] \in Calls
        /\ [call[c] EXCEPT !.cancelled = TRUE].told = call[c].told
    BY <1>0 DEF Calls
  <2> QED
    BY <1>0, <1>2, <2>1 DEF CancelCall
<1>3. ASSUME NEW p \in CallPhases, Move(c, p)
      PROVE  /\ call' \in [Callers -> Calls]
             /\ \A d \in Callers : d # c => call'[d] = call[d]
             /\ call[c].told => call'[c].told
  BY <1>0, <1>3, Moves
<1>4. ASSUME NEW a \in Answers, Finish(c, a)
      PROVE  /\ call' \in [Callers -> Calls]
             /\ \A d \in Callers : d # c => call'[d] = call[d]
             /\ call[c].told => call'[c].told
  BY <1>0, <1>4, Finishes
<1>5. ASSUME NEW a \in Answers, Answer(c, a)
      PROVE  /\ call' \in [Callers -> Calls]
             /\ \A d \in Callers : d # c => call'[d] = call[d]
             /\ call[c].told => call'[c].told
  BY <1>0, <1>5, GivesAnswer
<1>6. CASE Resolve(c) \/ Admit(c) \/ SetSavedAside(c) \/ SaveChoice(c)
  <2>1. (\E p \in CallPhases : Move(c, p)) \/ (\E a \in Answers : Answer(c, a))
    BY <1>6 DEF Resolve, Admit, SetSavedAside, SaveChoice, CallPhases, Installation, Answers
  <2> QED
    BY <1>3, <1>5, <2>1
<1>7. CASE FindBackup(c)
  <2>1. (\E p \in CallPhases : Move(c, p)) \/ (\E a \in Answers : Finish(c, a))
    BY <1>7 DEF FindBackup, CallPhases, Installation, Answers
  <2> QED
    BY <1>3, <1>4, <2>1
<1>8. CASE ProbeFinal(c) \/ ProbeBackup(c) \/ Revert(c) \/ FetchArchive(c)
           \/ ExtractArchive(c) \/ ProbeCandidate(c)
  <2>1. (\E p \in CallPhases : Move(c, p)) \/ (\E a \in Answers : Finish(c, a))
    BY <1>8 DEF ProbeFinal, ProbeBackup, Revert, FetchArchive, ExtractArchive,
       ProbeCandidate, CallPhases, Installation, Answers
  <2> QED
    BY <1>3, <1>4, <2>1
<1>9. CASE SetAside(c) \/ Activate(c) \/ DropBackup(c) \/ ReleaseSlot(c)
  <2>1. (\E p \in CallPhases : Move(c, p)) \/ (\E a \in Answers : Finish(c, a))
    BY <1>9 DEF SetAside, Activate, DropBackup, ReleaseSlot, CallPhases, Installation, Answers
  <2> QED
    BY <1>3, <1>4, <2>1
<1> QED
  BY <1>1, <1>2, <1>6, <1>7, <1>8, <1>9 DEF CallStep, InstallStep

LEMMA RuntimeTypeStep ==
  ASSUME RuntimeTypeOK, \A c \in Callers : Knows(c), [RuntimeNext]_runtimeVars
  PROVE  RuntimeTypeOK'
<1>0. /\ call \in [Callers -> Calls] /\ final \in Homes /\ staged \in Homes
      /\ backup \in [Names -> Homes] /\ core \in {"up", "down", "refused"}
      /\ installing \in BOOLEAN /\ torn \in BOOLEAN
      /\ override \in Paths \cup {NoPath} /\ saved \in Paths \cup {NoPath}
      /\ acked \in Paths \cup {NoPath}
  BY DEF RuntimeTypeOK, Calls
<1>t. ASSUME /\ call' \in [Callers -> Calls] /\ final' \in Homes /\ staged' \in Homes
             /\ backup' \in [Names -> Homes] /\ core' \in {"up", "down", "refused"}
             /\ installing' \in BOOLEAN /\ torn' \in BOOLEAN
             /\ override' \in Paths \cup {NoPath} /\ saved' \in Paths \cup {NoPath}
             /\ acked' \in Paths \cup {NoPath}
      PROVE  RuntimeTypeOK'
  BY <1>t DEF RuntimeTypeOK, Calls
<1>h. {"none", "working", "broken"} = Homes /\ "current" \in Names
  BY DEF Homes, Names
<1>b. Backups # {} => TheBackup \in Names /\ backup[TheBackup] \in Homes
  BY <1>0, BackupFacts DEF Backups
<1>1. CASE StartCore
  <2>1. /\ final' \in Homes /\ backup' \in [Names -> Homes] /\ core' \in {"up", "refused"}
    BY <1>0, <1>1, <1>b, <1>h DEF StartCore
  <2> QED
    BY <1>0, <1>1, <1>t, <2>1 DEF StartCore
<1>2. CASE CrashCore
  <2>1. call' \in [Callers -> Calls]
    <3>1. \A c \in Callers :
            [call[c] EXCEPT !.at = "idle", !.answer = "none", !.told = FALSE] \in Calls
      BY <1>0 DEF Calls, CallPhases, Answers
    <3> QED
      BY <1>2, <3>1 DEF CrashCore
  <2> QED
    BY <1>0, <1>2, <1>h, <1>t, <2>1 DEF CrashCore
<1>3. CASE DamageRuntime
  BY <1>0, <1>3, <1>h, <1>t DEF DamageRuntime, overrideVars
<1>4. ASSUME NEW c \in Callers, CallStep(c)
      PROVE  RuntimeTypeOK'
  <2>0. call' \in [Callers -> Calls]
    BY <1>4, StepsOfCall
  <2>1. CASE LaunchAsks(c) \/ PageInstalls(c) \/ PageChooses(c) \/ CancelCall(c)
             \/ Resolve(c) \/ FetchArchive(c)
    BY <1>0, <1>t, <2>0, <2>1 DEF LaunchAsks, PageInstalls, PageChooses, BeginCall,
       CancelCall, Resolve, FetchArchive, homeVars, overrideVars
  <2>2. CASE Admit(c) \/ ReleaseSlot(c)
    BY <1>0, <1>t, <2>0, <2>2 DEF Admit, ReleaseSlot, homeVars, overrideVars
  <2>3. CASE FindBackup(c)
    <3>1. final' \in Homes /\ backup' \in [Names -> Homes]
      <4>1. CASE UNCHANGED <<final, backup>>
        BY <1>0, <4>1
      <4>2. CASE /\ final' = backup[TheBackup] /\ Backups # {}
                 /\ backup' = [backup EXCEPT ![TheBackup] = "none"]
        BY <1>0, <1>b, <1>h, <4>2
      <4> QED
        BY <2>3, <4>1, <4>2 DEF FindBackup
    <3> QED
      BY <1>0, <1>t, <2>0, <2>3, <3>1 DEF FindBackup, overrideVars
  <2>4. CASE ProbeFinal(c)
    <3>1. backup' \in [Names -> Homes]
      BY <1>0, <1>b, <2>4 DEF ProbeFinal
    <3> QED
      BY <1>0, <1>t, <2>0, <2>4, <3>1 DEF ProbeFinal, overrideVars
  <2>5. CASE ProbeBackup(c) \/ ExtractArchive(c) \/ ProbeCandidate(c)
    <3>1. final' \in Homes /\ staged' \in Homes
      BY <1>0, <1>h, <2>5 DEF ProbeBackup, ExtractArchive, ProbeCandidate
    <3> QED
      BY <1>0, <1>t, <2>0, <2>5, <3>1 DEF ProbeBackup, ExtractArchive,
         ProbeCandidate, overrideVars
  <2>6. CASE Revert(c)
    <3>1. Backups # {}
      BY <2>6 DEF Revert, At, Knows
    <3>2. final' \in Homes /\ staged' \in Homes /\ backup' \in [Names -> Homes]
      BY <1>0, <1>b, <1>h, <2>6, <3>1 DEF Revert
    <3> QED
      BY <1>0, <1>t, <2>0, <2>6, <3>2 DEF Revert, overrideVars
  <2>7. CASE SetAside(c)
    <3>1. final' \in Homes /\ staged' \in Homes /\ backup' \in [Names -> Homes]
      BY <1>0, <1>h, <2>7 DEF SetAside, homeVars
    <3> QED
      BY <1>0, <1>t, <2>0, <2>7, <3>1 DEF SetAside, overrideVars
  <2>8. CASE Activate(c)
    <3>1. final' \in Homes /\ staged' \in Homes /\ backup' \in [Names -> Homes]
      BY <1>0, <1>h, <2>8 DEF Activate
    <3> QED
      BY <1>0, <1>t, <2>0, <2>8, <3>1 DEF Activate, overrideVars
  <2>9. CASE DropBackup(c)
    <3>1. backup' \in [Names -> Homes]
      BY <1>0, <1>h, <2>9 DEF DropBackup
    <3> QED
      BY <1>0, <1>t, <2>0, <2>9, <3>1 DEF DropBackup, overrideVars
  <2>10. CASE SetSavedAside(c) \/ SaveChoice(c)
    <3>1. call[c].path \in Paths \cup {NoPath}
      BY <1>0 DEF Calls
    <3> QED
      BY <1>0, <1>t, <2>0, <2>10, <3>1 DEF SetSavedAside, SaveChoice, homeVars
  <2> QED
    BY <1>4, <2>1, <2>2, <2>3, <2>4, <2>5, <2>6, <2>7, <2>8, <2>9, <2>10
       DEF CallStep, InstallStep
<1>5. CASE UNCHANGED runtimeVars
  BY <1>0, <1>5, <1>t DEF runtimeVars, homeVars, overrideVars
<1> QED
  BY <1>1, <1>2, <1>3, <1>4, <1>5 DEF RuntimeNext, CallStep

-----------------------------------------------------------------------------
(* Nobody changes the homes or gives the major back while another installs.*)
LEMMA OthersKeep ==
  ASSUME RuntimeTypeOK, \A w \in Callers : Knows(w), OneInstalls,
         NEW c \in Callers, CallStep(c),
         NEW d \in Callers, c # d
  PROVE  /\ call'[d] = call[d]
         /\ IsInstalling(d) => UNCHANGED <<homeVars, installing>>
<1>1. call'[d] = call[d]
  BY StepsOfCall
<1>2. IsInstalling(d) => installing /\ ~IsInstalling(c)
  BY DEF Knows, OneInstalls
<1>3. CASE LaunchAsks(c) \/ PageInstalls(c) \/ PageChooses(c) \/ CancelCall(c)
           \/ Resolve(c) \/ SetSavedAside(c) \/ SaveChoice(c)
  BY <1>1, <1>3 DEF LaunchAsks, PageInstalls, PageChooses, BeginCall, CancelCall,
     Resolve, SetSavedAside, SaveChoice
<1>4. CASE Admit(c)
  BY <1>1, <1>2, <1>4 DEF Admit
<1>5. CASE \/ FindBackup(c) \/ ProbeFinal(c) \/ ProbeBackup(c) \/ Revert(c)
           \/ FetchArchive(c) \/ ExtractArchive(c) \/ ProbeCandidate(c) \/ SetAside(c)
           \/ Activate(c) \/ DropBackup(c) \/ ReleaseSlot(c)
  <2>1. IsInstalling(c)
    BY <1>5 DEF FindBackup, ProbeFinal, ProbeBackup, Revert, FetchArchive,
       ExtractArchive, ProbeCandidate, SetAside, Activate, DropBackup, ReleaseSlot,
       At, IsInstalling, Installation
  <2> QED
    BY <1>1, <1>2, <2>1
<1> QED
  BY <1>3, <1>4, <1>5 DEF CallStep, InstallStep

LEMMA OthersStay ==
  ASSUME NEW d \in Callers, Knows(d), call'[d] = call[d],
         IsInstalling(d) => UNCHANGED <<homeVars, installing>>
  PROVE  Knows(d)'
<1>1. CASE IsInstalling(d)
  <2>1. UNCHANGED <<final, backup, staged, installing>>
    BY <1>1 DEF homeVars
  <2>2. Backups' = Backups
    BY <2>1 DEF Backups
  <2> QED
    BY <2>1, <2>2 DEF Knows, IsInstalling
<1>2. CASE ~IsInstalling(d)
  BY <1>2 DEF Knows, IsInstalling, Installation
<1> QED
  BY <1>1, <1>2

(* A step that leaves the homes as they are, and another that does not.    *)
LEMMA OwnStep ==
  ASSUME RuntimeInv, NEW c \in Callers, CallStep(c)
  PROVE  Knows(c)'
<1>0. /\ call \in [Callers -> Calls] /\ Knows(c)
      /\ \A n \in Names : n \in Backups <=> backup[n] # "none"
      /\ backup \in [Names -> Homes] /\ Names = {"current", "legacy"}
  BY DEF RuntimeInv, RuntimeTypeOK, Calls, Backups, Names
<1>f. \A a \in Answers : Finish(c, a) => call'[c].at = "leaving" /\ call'[c].answer = a
  BY <1>0, Finishes
<1>m. \A p \in CallPhases : Move(c, p) => call'[c].at = p
  BY <1>0, Moves
<1>a. \A a \in Answers : Answer(c, a) => call'[c].at = "idle"
  BY <1>0, GivesAnswer
<1>o. ASSUME call'[c].at \notin Installation
      PROVE  Knows(c)'
  BY <1>o DEF Knows, IsInstalling, Installation
<1>l. ASSUME call'[c].at = "leaving", call'[c].answer # "valid", installing'
      PROVE  Knows(c)'
  BY <1>l DEF Knows, IsInstalling
<1>s. UNCHANGED backup => Backups' = Backups
  BY DEF Backups
<1>1. CASE LaunchAsks(c) \/ PageInstalls(c) \/ PageChooses(c)
  <2>1. call'[c].at \in {"resolving", "admitting", "choosing"}
    BY <1>0, <1>1 DEF LaunchAsks, PageInstalls, PageChooses, BeginCall
  <2> QED
    BY <1>o, <2>1 DEF Installation
<1>2. CASE CancelCall(c)
  <2>1. /\ call'[c].at = call[c].at /\ call'[c].answer = call[c].answer
        /\ UNCHANGED <<final, backup, staged, installing>>
    BY <1>0, <1>2 DEF CancelCall, Calls, homeVars
  <2>2. Backups' = Backups
    BY <1>s, <2>1
  <2> QED
    BY <1>0, <2>1, <2>2 DEF Knows, IsInstalling
<1>3. CASE Resolve(c) \/ SetSavedAside(c) \/ SaveChoice(c) \/ ReleaseSlot(c)
  <2>1. call'[c].at \in {"idle", "admitting", "saving"}
    BY <1>a, <1>m, <1>3 DEF Resolve, SetSavedAside, SaveChoice, ReleaseSlot, CallPhases,
       Answers, Installation
  <2> QED
    BY <1>o, <2>1 DEF Installation
<1>4. CASE Admit(c)
  <2>1. \/ call'[c].at = "idle"
        \/ call'[c].at = "recovering" /\ installing'
    BY <1>a, <1>m, <1>4 DEF Admit, CallPhases, Answers, Installation
  <2> QED
    BY <1>o, <2>1 DEF Installation, Knows, IsInstalling
<1>5. CASE FindBackup(c)
  <2>1. installing'
    BY <1>0, <1>5 DEF FindBackup, At, Knows, IsInstalling, Installation
  <2>2. CASE Finish(c, "cancelled") \/ Finish(c, "inconsistent")
    BY <1>f, <1>l, <2>1, <2>2 DEF Answers
  <2>3. CASE Backups = {} /\ Move(c, "fetching") /\ UNCHANGED <<final, backup>>
    <3>1. call'[c].at = "fetching" /\ Backups' = {}
      BY <1>m, <1>s, <2>3 DEF CallPhases, Installation
    <3> QED
      BY <2>1, <3>1 DEF Knows, IsInstalling
  <2>4. CASE Cardinality(Backups) = 1 /\ Move(c, "probingFinal") /\ UNCHANGED <<final, backup>>
    <3>1. call'[c].at = "probingFinal" /\ \A m, n \in Backups' : m = n
      BY <1>m, <1>s, <2>4, BackupFacts DEF CallPhases, Installation
    <3> QED
      BY <2>1, <3>1 DEF Knows, IsInstalling
  <2>5. CASE /\ Cardinality(Backups) < 2 /\ Move(c, "probingFinal")
             /\ backup' = [backup EXCEPT ![TheBackup] = "none"]
    <3>1. Backups' \subseteq Backups
      BY <1>0, <2>5 DEF Backups
    <3>2. call'[c].at = "probingFinal" /\ \A m, n \in Backups' : m = n
      BY <1>m, <2>5, <3>1, BackupFacts DEF CallPhases, Installation
    <3> QED
      BY <2>1, <3>2 DEF Knows, IsInstalling
  <2> QED
    BY <1>5, <2>2, <2>3, <2>4, <2>5, BackupFacts DEF FindBackup
<1>6. CASE ProbeFinal(c)
  <2>1. installing' /\ \A m, n \in Backups : m = n
    BY <1>0, <1>6 DEF ProbeFinal, At, Knows, IsInstalling, Installation
  <2>2. CASE Finish(c, "cancelled") \/ Finish(c, "inconsistent")
    BY <1>f, <1>l, <2>1, <2>2 DEF Answers
  <2>3. CASE final = "working" /\ Move(c, "fetching")
    <3>1. call'[c].at = "fetching" /\ final' # "none"
      BY <1>m, <1>6, <2>3 DEF ProbeFinal, CallPhases, Installation
    <3> QED
      BY <2>1, <3>1 DEF Knows, IsInstalling
  <2>4. CASE Backups # {} /\ Move(c, "probingBackup") /\ UNCHANGED backup
    <3>1. call'[c].at = "probingBackup" /\ Backups' = Backups
      BY <1>m, <1>s, <2>4 DEF CallPhases, Installation
    <3> QED
      BY <2>1, <2>4, <3>1 DEF Knows, IsInstalling
  <2> QED
    BY <1>6, <2>2, <2>3, <2>4 DEF ProbeFinal
<1>7. CASE ProbeBackup(c)
  <2>1. installing' /\ Backups # {} /\ \A m, n \in Backups : m = n
    BY <1>0, <1>7 DEF ProbeBackup, At, Knows, IsInstalling, Installation
  <2>2. CASE Finish(c, "cancelled") \/ Finish(c, "inconsistent")
    BY <1>f, <1>l, <2>1, <2>2 DEF Answers
  <2>3. CASE backup[TheBackup] = "working" /\ Move(c, "reverting") /\ final' = "none"
    <3>1. call'[c].at = "reverting" /\ Backups' = Backups /\ backup' = backup
      BY <1>m, <1>s, <1>7, <2>3 DEF ProbeBackup, CallPhases, Installation
    <3>2. \A n \in Backups : backup[n] = "working"
      BY <2>1, <2>3, BackupFacts
    <3> QED
      BY <2>1, <2>3, <3>1, <3>2 DEF Knows, IsInstalling
  <2> QED
    BY <1>7, <2>2, <2>3 DEF ProbeBackup
<1>8. CASE Revert(c)
  <2>1. installing' /\ Backups # {} /\ \A n \in Backups : backup[n] = "working"
    BY <1>0, <1>8 DEF Revert, At, Knows, IsInstalling, Installation
  <2>2. CASE Finish(c, "inconsistent")
    BY <1>f, <1>l, <2>1, <2>2 DEF Answers
  <2>3. CASE final' = backup[TheBackup] /\ Move(c, "fetching")
    <3>1. call'[c].at = "fetching" /\ final' = "working"
      BY <1>m, <2>1, <2>3, BackupFacts DEF CallPhases, Installation
    <3> QED
      BY <2>1, <3>1 DEF Knows, IsInstalling
  <2> QED
    BY <1>8, <2>2, <2>3 DEF Revert
<1>9. CASE FetchArchive(c) \/ ExtractArchive(c)
  <2>1. /\ installing' /\ UNCHANGED <<final, backup>>
        /\ final # "none" \/ Backups = {}
    BY <1>0, <1>9 DEF FetchArchive, ExtractArchive, At, Knows, IsInstalling,
       Installation, homeVars
  <2>2. CASE Finish(c, "cancelled") \/ Finish(c, "failed")
    BY <1>f, <1>l, <2>1, <2>2 DEF Answers
  <2>3. CASE Move(c, "extracting") \/ Move(c, "probing")
    <3>1. call'[c].at \in {"extracting", "probing"} /\ Backups' = Backups
      BY <1>m, <1>s, <2>1, <2>3 DEF CallPhases, Installation
    <3> QED
      BY <2>1, <3>1 DEF Knows, IsInstalling
  <2> QED
    BY <1>9, <2>2, <2>3 DEF FetchArchive, ExtractArchive
<1>10. CASE ProbeCandidate(c)
  <2>1. /\ installing' /\ UNCHANGED <<final, backup>>
        /\ final # "none" \/ Backups = {}
    BY <1>0, <1>10 DEF ProbeCandidate, At, Knows, IsInstalling, Installation
  <2>2. CASE Finish(c, "cancelled") \/ Finish(c, "failed")
    BY <1>f, <1>l, <2>1, <2>2 DEF Answers
  <2>3. CASE Probe(staged, TRUE) /\ Move(c, "swapping") /\ UNCHANGED staged
    <3>1. call'[c].at = "swapping" /\ Backups' = Backups /\ staged' = "working"
      BY <1>m, <1>s, <2>1, <2>3 DEF CallPhases, Installation, Probe
    <3> QED
      BY <2>1, <3>1 DEF Knows, IsInstalling
  <2> QED
    BY <1>10, <2>2, <2>3 DEF ProbeCandidate
<1>11. CASE SetAside(c)
  <2>1. /\ installing' /\ staged = "working"
        /\ final # "none" \/ Backups = {}
    BY <1>0, <1>11 DEF SetAside, At, Knows, IsInstalling, Installation
  <2>2. CASE Finish(c, "inconsistent") \/ Finish(c, "failed")
    BY <1>f, <1>l, <2>1, <2>2 DEF Answers
  <2>3. CASE /\ final # "none" /\ final' = "none" /\ UNCHANGED staged
             /\ backup' = [backup EXCEPT !["current"] = final]
             /\ Move(c, "activating")
    <3>1. call'[c].at = "activating" /\ backup'["current"] # "none"
      BY <1>0, <1>m, <2>3 DEF CallPhases, Installation
    <3> QED
      BY <2>1, <2>3, <3>1 DEF Knows, IsInstalling
  <2>4. CASE final = "none" /\ Move(c, "activating") /\ UNCHANGED homeVars
    <3>1. /\ call'[c].at = "activating" /\ final' = "none" /\ staged' = "working"
          /\ Backups' = {}
      BY <1>m, <1>s, <2>1, <2>4 DEF CallPhases, Installation, homeVars
    <3> QED
      BY <2>1, <3>1 DEF Knows, IsInstalling
  <2> QED
    BY <1>11, <2>2, <2>3, <2>4 DEF SetAside
<1>12. CASE Activate(c)
  <2>1. installing' /\ staged = "working"
    BY <1>0, <1>12 DEF Activate, At, Knows, IsInstalling, Installation
  <2>2. CASE Finish(c, "inconsistent") \/ Finish(c, "failed")
    BY <1>f, <1>l, <2>1, <2>2 DEF Answers
  <2>3. CASE final' = staged /\ Move(c, "activated")
    <3>1. call'[c].at = "activated"
      BY <1>m, <2>3 DEF CallPhases, Installation
    <3> QED
      BY <2>1, <2>3, <3>1 DEF Knows, IsInstalling
  <2> QED
    BY <1>12, <2>2, <2>3 DEF Activate
<1>13. CASE DropBackup(c)
  <2>1. installing' /\ final' = "working"
    BY <1>0, <1>13 DEF DropBackup, At, Knows, IsInstalling, Installation
  <2>2. call'[c].at = "leaving"
    BY <1>f, <1>13 DEF DropBackup, Answers
  <2> QED
    BY <2>1, <2>2 DEF Knows, IsInstalling
<1> QED
  BY <1>1, <1>2, <1>3, <1>4, <1>5, <1>6, <1>7, <1>8, <1>9, <1>10, <1>11, <1>12, <1>13
     DEF CallStep, InstallStep

-----------------------------------------------------------------------------
LEMMA KnowledgeStep ==
  ASSUME RuntimeInv, [RuntimeNext]_runtimeVars
  PROVE  \A c \in Callers : Knows(c)'
<1> SUFFICES ASSUME NEW d \in Callers PROVE Knows(d)'
  OBVIOUS
<1>0. call \in [Callers -> Calls]
  BY DEF RuntimeInv, RuntimeTypeOK, Calls
<1>1. CASE StartCore
  <2>1. call'[d].at = "idle"
    BY <1>1 DEF StartCore, RuntimeInv, NobodyWhenDown
  <2> QED
    BY <2>1 DEF Knows, IsInstalling, Installation
<1>2. CASE CrashCore
  <2>1. call'[d] = [call[d] EXCEPT !.at = "idle", !.answer = "none", !.told = FALSE]
    BY <1>2 DEF CrashCore
  <2>2. call'[d].at = "idle"
    BY <1>0, <2>1 DEF Calls
  <2> QED
    BY <2>2 DEF Knows, IsInstalling, Installation
<1>3. CASE DamageRuntime
  <2>1. ~IsInstalling(d) /\ call' = call
    BY <1>3 DEF DamageRuntime, RuntimeInv, Knows
  <2> QED
    BY <2>1, OthersStay DEF RuntimeInv
<1>4. ASSUME NEW c \in Callers, CallStep(c)
      PROVE  Knows(d)'
  <2>1. CASE c = d
    BY <1>4, <2>1, OwnStep
  <2>2. CASE c # d
    BY <1>4, <2>2, OthersKeep, OthersStay DEF RuntimeInv
  <2> QED
    BY <2>1, <2>2
<1>5. CASE UNCHANGED runtimeVars
  BY <1>5, OthersStay DEF RuntimeInv, runtimeVars
<1> QED
  BY <1>1, <1>2, <1>3, <1>4, <1>5 DEF RuntimeNext, CallStep

(* A call enters the installation by its admission, and only if nobody     *)
(* else is there.                                                          *)
LEMMA EntersByAdmission ==
  ASSUME RuntimeInv, NEW c \in Callers, CallStep(c), ~IsInstalling(c), IsInstalling(c)'
  PROVE  ~installing
<1>0. call \in [Callers -> Calls]
  BY DEF RuntimeInv, RuntimeTypeOK, Calls
<1>1. CASE LaunchAsks(c) \/ PageInstalls(c) \/ PageChooses(c)
  BY <1>0, <1>1 DEF LaunchAsks, PageInstalls, PageChooses, BeginCall, IsInstalling,
     Installation
<1>2. CASE CancelCall(c)
  BY <1>0, <1>2 DEF CancelCall, IsInstalling, Calls
<1>3. CASE Resolve(c) \/ SetSavedAside(c) \/ SaveChoice(c)
  <2>1. \/ Move(c, "admitting") \/ Move(c, "saving")
        \/ \E a \in Answers : Answer(c, a)
    BY <1>3 DEF Resolve, SetSavedAside, SaveChoice, Answers
  <2>2. call'[c].at \in {"admitting", "saving", "idle"}
    BY <1>0, <2>1, Moves, GivesAnswer DEF CallPhases
  <2> QED
    BY <2>2 DEF IsInstalling, Installation
<1>4. CASE Admit(c)
  <2>1. installing => \E a \in Answers : Answer(c, a)
    BY <1>4 DEF Admit, Answers
  <2>2. installing => call'[c].at = "idle"
    BY <1>0, <2>1, GivesAnswer
  <2> QED
    BY <2>2 DEF IsInstalling, Installation
<1>5. CASE \/ FindBackup(c) \/ ProbeFinal(c) \/ ProbeBackup(c) \/ Revert(c)
           \/ FetchArchive(c) \/ ExtractArchive(c) \/ ProbeCandidate(c) \/ SetAside(c)
           \/ Activate(c) \/ DropBackup(c) \/ ReleaseSlot(c)
  BY <1>5 DEF FindBackup, ProbeFinal, ProbeBackup, Revert, FetchArchive,
     ExtractArchive, ProbeCandidate, SetAside, Activate, DropBackup, ReleaseSlot,
     At, IsInstalling, Installation
<1> QED
  BY <1>1, <1>2, <1>3, <1>4, <1>5 DEF CallStep, InstallStep

LEMMA ExclusionStep ==
  ASSUME RuntimeInv, [RuntimeNext]_runtimeVars
  PROVE  OneInstalls' /\ NobodyWhenDown'
<1>0. call \in [Callers -> Calls]
  BY DEF RuntimeInv, RuntimeTypeOK, Calls
<1>1. CASE StartCore \/ CrashCore
  <2>1. \A c \in Callers : call'[c].at = "idle"
    <3>1. CASE StartCore
      BY <3>1 DEF StartCore, RuntimeInv, NobodyWhenDown
    <3>2. CASE CrashCore
      <4> SUFFICES ASSUME NEW c \in Callers PROVE call'[c].at = "idle"
        OBVIOUS
      <4>1. call'[c] = [call[c] EXCEPT !.at = "idle", !.answer = "none", !.told = FALSE]
        BY <3>2 DEF CrashCore
      <4> QED
        BY <1>0, <4>1 DEF Calls
    <3> QED
      BY <1>1, <3>1, <3>2
  <2> QED
    BY <2>1 DEF OneInstalls, NobodyWhenDown, IsInstalling, Installation
<1>2. CASE DamageRuntime \/ UNCHANGED runtimeVars
  <2>1. UNCHANGED <<call, core>>
    BY <1>2 DEF DamageRuntime, runtimeVars
  <2> QED
    BY <2>1 DEF RuntimeInv, OneInstalls, NobodyWhenDown, IsInstalling
<1>3. ASSUME NEW c \in Callers, CallStep(c)
      PROVE  OneInstalls' /\ NobodyWhenDown'
  <2>1. core = "up" /\ core' = "up"
    BY <1>3 DEF CallStep, InstallStep, LaunchAsks, PageInstalls, PageChooses,
       BeginCall, CancelCall, Resolve, Admit, FindBackup, ProbeFinal, ProbeBackup,
       Revert, FetchArchive, ExtractArchive, ProbeCandidate, SetAside, Activate,
       DropBackup, ReleaseSlot, SetSavedAside, SaveChoice, At
  <2>2. \A d \in Callers : d # c => (IsInstalling(d)' <=> IsInstalling(d))
    BY <1>3, StepsOfCall DEF RuntimeInv, IsInstalling
  <2>3. IsInstalling(c)' => IsInstalling(c) \/ \A d \in Callers : ~IsInstalling(d)
    BY <1>3, EntersByAdmission DEF RuntimeInv, Knows
  <2>4. OneInstalls'
    BY <2>2, <2>3 DEF RuntimeInv, OneInstalls
  <2> QED
    BY <2>1, <2>4 DEF NobodyWhenDown
<1> QED
  BY <1>1, <1>2, <1>3 DEF RuntimeNext, CallStep

LEMMA ChoiceStep ==
  ASSUME RuntimeInv, [RuntimeNext]_runtimeVars
  PROVE  ChoiceIsHeld'
<1> USE DEF RuntimeInv, ChoiceIsHeld
<1>0. call \in [Callers -> Calls]
  BY DEF RuntimeTypeOK, Calls
<1>1. CASE StartCore
  <2>1. \A c \in Callers : call[c].at # "saving"
    BY <1>1 DEF StartCore, NobodyWhenDown
  <2> QED
    BY <1>1, <2>1 DEF StartCore
<1>2. CASE CrashCore
  <2>1. core' # "up" /\ UNCHANGED <<saved, acked>>
        /\ torn' = (torn \/ \E c \in Callers : call[c].at = "saving")
    BY <1>2 DEF CrashCore
  <2> QED
    BY <2>1
<1>3. CASE DamageRuntime \/ UNCHANGED runtimeVars
  BY <1>3 DEF DamageRuntime, runtimeVars, overrideVars
<1>4. ASSUME NEW c \in Callers, CallStep(c)
      PROVE  ChoiceIsHeld'
  <2>1. CASE SetSavedAside(c)
    <3>1. CASE Move(c, "saving") /\ UNCHANGED <<core, override, acked, torn>>
      <4>1. call'[c].at = "saving"
        BY <1>0, <3>1, Moves DEF CallPhases
      <4> QED
        BY <3>1, <4>1
    <3>2. CASE UNCHANGED <<core, override, saved, acked, torn>> /\ Answer(c, "refused")
      <4>1. \A d \in Callers : call[d].at # "saving"
        BY <2>1 DEF SetSavedAside
      <4> QED
        BY <3>2, <4>1
    <3> QED
      BY <2>1, <3>1, <3>2 DEF SetSavedAside
  <2>2. CASE SaveChoice(c)
    BY <2>2 DEF SaveChoice, At
  <2>4. CASE CancelCall(c)
    <3>1. UNCHANGED <<core, override, saved, acked, torn>> /\ call'[c].at = call[c].at
      BY <1>0, <2>4 DEF CancelCall, overrideVars, Calls
    <3> QED
      BY <1>4, <3>1, StepsOfCall
  <2>3. CASE ~SetSavedAside(c) /\ ~SaveChoice(c) /\ ~CancelCall(c)
    <3>1. UNCHANGED <<core, override, saved, acked, torn>>
      BY <1>4, <2>3 DEF CallStep, InstallStep, LaunchAsks, PageInstalls, PageChooses,
         BeginCall, CancelCall, Resolve, Admit, FindBackup, ProbeFinal, ProbeBackup,
         Revert, FetchArchive, ExtractArchive, ProbeCandidate, SetAside, Activate,
         DropBackup, ReleaseSlot, overrideVars
    <3>2. call[c].at # "saving"
      <4>1. CASE LaunchAsks(c) \/ PageInstalls(c) \/ PageChooses(c)
        BY <4>1 DEF LaunchAsks, PageInstalls, PageChooses, BeginCall, At
      <4>2. CASE InstallStep(c)
        BY <2>3, <4>2 DEF InstallStep, Resolve, Admit, FindBackup, ProbeFinal,
           ProbeBackup, Revert, FetchArchive, ExtractArchive, ProbeCandidate,
           SetAside, Activate, DropBackup, ReleaseSlot, At
      <4> QED
        BY <1>4, <2>3, <4>1, <4>2 DEF CallStep
    <3> QED
      BY <1>4, <3>1, <3>2, StepsOfCall
  <2> QED
    BY <2>1, <2>2, <2>3, <2>4
<1> QED
  BY <1>1, <1>2, <1>3, <1>4 DEF RuntimeNext, CallStep

-----------------------------------------------------------------------------
(* A step that leaves the homes alone leaves a reported gap reported.      *)
LEMMA GapRemains ==
  ASSUME RuntimeInv, NEW c \in Callers, CallStep(c), core = "up",
         UNCHANGED <<final, backup>>,
         call[c].at \in Swapping => call'[c].at \in Swapping \/ call'[c].told
  PROVE  GapIsReported'
<1> SUFFICES ASSUME final' = "none", Backups' # {}
             PROVE  \E d \in Callers : call'[d].at \in Swapping \/ call'[d].told
  BY DEF GapIsReported
<1>1. final = "none" /\ Backups # {}
  BY DEF Backups
<1>2. PICK d \in Callers : call[d].at \in Swapping \/ call[d].told
  BY <1>1 DEF RuntimeInv, GapIsReported
<1>3. CASE d = c
  BY <1>2, <1>3, StepsOfCall DEF RuntimeInv
<1>4. CASE d # c
  BY <1>2, <1>4, StepsOfCall DEF RuntimeInv
<1> QED
  BY <1>3, <1>4

(* Each step of an installation closes the gap, swaps or reports it.       *)
LEMMA GapOfCall ==
  ASSUME RuntimeInv, NEW c \in Callers, CallStep(c)
  PROVE  GapIsReported'
<1>0. call \in [Callers -> Calls] /\ backup \in [Names -> Homes]
  BY DEF RuntimeInv, RuntimeTypeOK, Calls
<1>k. Knows(c)
  BY DEF RuntimeInv
<1>w. ASSUME call'[c].at \in Swapping \/ call'[c].told
      PROVE  GapIsReported'
  BY <1>w DEF GapIsReported
<1>f. final' # "none" \/ Backups' = {} => GapIsReported'
  BY DEF GapIsReported
<1>i. Finish(c, "inconsistent") => GapIsReported'
  BY <1>0, <1>w, Finishes DEF Answers
<1>1. CASE \/ LaunchAsks(c) \/ PageInstalls(c) \/ PageChooses(c)
           \/ Resolve(c) \/ Admit(c) \/ FetchArchive(c) \/ ExtractArchive(c)
           \/ ProbeCandidate(c) \/ ReleaseSlot(c) \/ SetSavedAside(c) \/ SaveChoice(c)
  <2>1. core = "up" /\ UNCHANGED <<final, backup>> /\ call[c].at \notin Swapping
    BY <1>1 DEF LaunchAsks, PageInstalls, PageChooses, BeginCall, Resolve, Admit,
       FetchArchive, ExtractArchive, ProbeCandidate, ReleaseSlot, SetSavedAside,
       SaveChoice, At, homeVars, Swapping
  <2> QED
    BY <2>1, GapRemains
<1>2. CASE CancelCall(c)
  <2>1. core = "up" /\ UNCHANGED <<final, backup>> /\ call'[c].at = call[c].at
    BY <1>0, <1>2 DEF CancelCall, homeVars, Calls
  <2> QED
    BY <2>1, GapRemains
<1>3. CASE FindBackup(c)
  <2>1. CASE UNCHANGED <<final, backup>>
    <3>1. core = "up" /\ call[c].at \notin Swapping
      BY <1>3 DEF FindBackup, At, Swapping
    <3> QED
      BY <2>1, <3>1, GapRemains
  <2>2. CASE Backups # {} /\ final' = backup[TheBackup]
    <3>1. final' # "none"
      BY <2>2, BackupFacts DEF Backups
    <3> QED
      BY <1>f, <3>1
  <2> QED
    BY <1>3, <2>1, <2>2 DEF FindBackup
<1>4. CASE ProbeFinal(c)
  <2>1. CASE final = "working"
    BY <1>4, <1>f, <2>1 DEF ProbeFinal
  <2>2. CASE final # "working"
    <3>1. core = "up" /\ UNCHANGED <<final, backup>> /\ call[c].at \notin Swapping
      BY <1>4, <2>2 DEF ProbeFinal, At, Swapping
    <3> QED
      BY <3>1, GapRemains
  <2> QED
    BY <2>1, <2>2
<1>5. CASE ProbeBackup(c)
  <2>1. CASE Move(c, "reverting")
    <3>1. call'[c].at = "reverting"
      BY <1>0, <2>1, Moves DEF CallPhases, Installation
    <3> QED
      BY <1>w, <3>1 DEF Swapping
  <2>2. CASE UNCHANGED final
    <3>1. core = "up" /\ UNCHANGED <<final, backup>> /\ call[c].at \notin Swapping
      BY <1>5, <2>2 DEF ProbeBackup, At, Swapping
    <3> QED
      BY <3>1, GapRemains
  <2> QED
    BY <1>5, <2>1, <2>2 DEF ProbeBackup
<1>6. CASE Revert(c)
  <2>1. Backups # {} /\ \A n \in Backups : backup[n] = "working"
    BY <1>6, <1>k DEF Revert, At, Knows
  <2>2. backup[TheBackup] # "none"
    BY <2>1, BackupFacts
  <2> QED
    BY <1>6, <1>f, <1>i, <2>2 DEF Revert
<1>7. CASE SetAside(c)
  <2>1. CASE Move(c, "activating")
    <3>1. call'[c].at = "activating"
      BY <1>0, <2>1, Moves DEF CallPhases, Installation
    <3> QED
      BY <1>w, <3>1 DEF Swapping
  <2>2. CASE UNCHANGED <<final, backup>>
    <3>1. core = "up" /\ call[c].at \notin Swapping
      BY <1>7 DEF SetAside, At, Swapping
    <3> QED
      BY <2>2, <3>1, GapRemains
  <2> QED
    BY <1>7, <2>1, <2>2 DEF SetAside
<1>8. CASE Activate(c)
  <2>1. staged = "working" /\ (backup["current"] # "none" \/ Backups = {})
    BY <1>8, <1>k DEF Activate, At, Knows
  <2>2. CASE final' = staged
    BY <1>f, <2>1, <2>2
  <2>3. CASE final' = backup["current"] /\ backup' = [backup EXCEPT !["current"] = "none"]
    <3>1. Backups' \subseteq Backups
      BY <1>0, <2>3 DEF Backups
    <3> QED
      BY <1>f, <2>1, <2>3, <3>1
  <2> QED
    BY <1>8, <1>i, <2>2, <2>3 DEF Activate
<1>9. CASE DropBackup(c)
  <2>1. final' = "working"
    BY <1>9, <1>k DEF DropBackup, At, Knows
  <2> QED
    BY <1>f, <2>1
<1> QED
  BY <1>1, <1>2, <1>3, <1>4, <1>5, <1>6, <1>7, <1>8, <1>9 DEF CallStep, InstallStep

LEMMA GapStep ==
  ASSUME RuntimeInv, [RuntimeNext]_runtimeVars
  PROVE  GapIsReported'
<1>1. CASE StartCore
  <2> SUFFICES ASSUME core' = "up"
               PROVE  final' # "none" \/ Backups' = {}
    BY DEF GapIsReported
  <2>1. CASE final = "none" /\ Backups # {}
    <3>1. final' = backup[TheBackup]
      BY <1>1, <2>1 DEF StartCore
    <3> QED
      BY <2>1, <3>1, BackupFacts DEF Backups
  <2>2. CASE ~(final = "none" /\ Backups # {})
    <3>1. UNCHANGED <<final, backup>>
      BY <1>1, <2>2 DEF StartCore
    <3> QED
      BY <2>2, <3>1 DEF Backups
  <2> QED
    BY <2>1, <2>2
<1>2. CASE CrashCore \/ DamageRuntime
  BY <1>2 DEF CrashCore, DamageRuntime, GapIsReported
<1>3. ASSUME NEW c \in Callers, CallStep(c)
      PROVE  GapIsReported'
  BY <1>3, GapOfCall
<1>4. CASE UNCHANGED runtimeVars
  BY <1>4 DEF runtimeVars, homeVars, RuntimeInv, GapIsReported, Backups
<1> QED
  BY <1>1, <1>2, <1>3, <1>4 DEF RuntimeNext, CallStep

LEMMA RuntimeInitEstablishes == RuntimeInit => RuntimeInv
<1> SUFFICES ASSUME RuntimeInit PROVE RuntimeInv
  OBVIOUS
<1>0. \A c \in Callers : call[c] =
        [at |-> "idle", answer |-> "none", cancelled |-> FALSE,
         path |-> NoPath, told |-> FALSE, calls |-> 0]
  BY DEF RuntimeInit
<1>1. RuntimeTypeOK
  <2>1. call \in [Callers -> Calls]
    BY DEF RuntimeInit, Calls, CallPhases, Answers
  <2>2. backup \in [Names -> Homes]
    BY DEF RuntimeInit, Homes
  <2> QED
    BY <2>1, <2>2 DEF RuntimeInit, RuntimeTypeOK, Calls, Homes
<1>2. \A c \in Callers : Knows(c)
  BY <1>0 DEF Knows, IsInstalling, Installation
<1>3. OneInstalls /\ NobodyWhenDown
  BY <1>0 DEF OneInstalls, NobodyWhenDown, IsInstalling, Installation
<1>4. ChoiceIsHeld /\ GapIsReported
  BY DEF RuntimeInit, ChoiceIsHeld, GapIsReported
<1> QED
  BY <1>1, <1>2, <1>3, <1>4 DEF RuntimeInv

-----------------------------------------------------------------------------
(* What an installation knows of the homes stays true between its steps,   *)
(* for any number of callers (the set of majors being installed,           *)
(* RuntimeManager::install_cancellable).                                   *)
THEOREM RuntimeIsConsistent == RuntimeSpec => []RuntimeInv
<1>1. RuntimeInit => RuntimeInv
  BY RuntimeInitEstablishes
<1>2. RuntimeInv /\ [RuntimeNext]_runtimeVars => RuntimeInv'
  <2> SUFFICES ASSUME RuntimeInv, [RuntimeNext]_runtimeVars
               PROVE  RuntimeInv'
    OBVIOUS
  <2>1. RuntimeTypeOK'
    BY RuntimeTypeStep DEF RuntimeInv
  <2>2. \A c \in Callers : Knows(c)'
    BY KnowledgeStep
  <2> QED
    BY <2>1, <2>2, ExclusionStep, ChoiceStep, GapStep DEF RuntimeInv
<1> QED
  BY <1>1, <1>2, PTL DEF RuntimeSpec

(* The state of the runtimes and of the calls stays well formed.           *)
THEOREM RuntimeTypes == RuntimeSpec => []RuntimeTypeOK
<1>1. RuntimeInv => RuntimeTypeOK
  BY DEF RuntimeInv
<1> QED
  BY <1>1, RuntimeIsConsistent, PTL

(* A runtime that was answered to be valid works and is in place           *)
(* (RuntimeInstaller::install_cancellable, the probe before the swap).     *)
THEOREM ValidRuntimesAreInPlace == RuntimeSpec => []ValidIsInPlace
<1>1. RuntimeInv => ValidIsInPlace
  BY DEF RuntimeInv, Knows, ValidIsInPlace
<1> QED
  BY <1>1, RuntimeIsConsistent, PTL

(* A missing runtime with a backup is being swapped, or was reported       *)
(* (restore_backup and the roll back of recover_interrupted_swap).         *)
THEOREM GapsAreReported == RuntimeSpec => []GapIsReported
<1>1. RuntimeInv => GapIsReported
  BY DEF RuntimeInv
<1> QED
  BY <1>1, RuntimeIsConsistent, PTL

(* An acknowledged choice of a Java is in the file of the next start,      *)
(* unless its replacement was interrupted (persist_manual_overrides).      *)
THEOREM ChoicesSurvive == RuntimeSpec => []ChoiceSurvives
<1>1. RuntimeInv => ChoiceSurvives
  BY DEF RuntimeInv, ChoiceIsHeld, ChoiceSurvives
<1> QED
  BY <1>1, RuntimeIsConsistent, PTL

-----------------------------------------------------------------------------
(* The only backup takes the place of a missing runtime: what worked works.*)
LEMMA PuttingBackKeeps ==
  ASSUME backup \in [Names -> Homes], final = "none",
         \A m, n \in Backups : m = n, final' = backup[TheBackup], HasWorking
  PROVE  HasWorking'
<1>1. PICK n \in Names : backup[n] = "working"
  BY DEF HasWorking, Names
<1>2. n \in Backups /\ TheBackup \in Backups
  BY <1>1, BackupFacts DEF Backups
<1>3. final' = "working"
  BY <1>1, <1>2
<1> QED
  BY <1>3 DEF HasWorking

LEMMA CallKeepsWorking ==
  ASSUME RuntimeInv, NEW c \in Callers, CallStep(c), HasWorking
  PROVE  HasWorking'
<1>0. backup \in [Names -> Homes] /\ Knows(c)
  BY DEF RuntimeInv, RuntimeTypeOK
<1>n. "current" \in Names /\ "legacy" \in Names /\ "current" # "legacy"
  BY DEF Names
<1>u. UNCHANGED <<final, backup>> => HasWorking'
  BY DEF HasWorking
<1>f. final' = "working" => HasWorking'
  BY DEF HasWorking
<1>b. ASSUME NEW n \in Names, backup[n] = "working", UNCHANGED backup
      PROVE  HasWorking'
  BY <1>b DEF HasWorking, Names
<1>1. CASE \/ LaunchAsks(c) \/ PageInstalls(c) \/ PageChooses(c) \/ CancelCall(c)
           \/ Resolve(c) \/ Admit(c) \/ FetchArchive(c) \/ ExtractArchive(c)
           \/ ProbeCandidate(c) \/ ReleaseSlot(c) \/ SetSavedAside(c) \/ SaveChoice(c)
  <2>1. UNCHANGED <<final, backup>>
    BY <1>1 DEF LaunchAsks, PageInstalls, PageChooses, BeginCall, CancelCall, Resolve,
       Admit, FetchArchive, ExtractArchive, ProbeCandidate, ReleaseSlot, SetSavedAside,
       SaveChoice, homeVars
  <2> QED
    BY <1>u, <2>1
<1>2. CASE FindBackup(c)
  <2>1. CASE UNCHANGED <<final, backup>>
    BY <1>u, <2>1
  <2>2. CASE Cardinality(Backups) < 2 /\ final = "none" /\ final' = backup[TheBackup]
    <3>1. \A m, n \in Backups : m = n
      BY <2>2, BackupFacts
    <3> QED
      BY <1>0, <2>2, <3>1, PuttingBackKeeps
  <2> QED
    BY <1>2, <2>1, <2>2, BackupFacts DEF FindBackup
<1>3. CASE ProbeFinal(c)
  BY <1>3, <1>u, <1>f DEF ProbeFinal
<1>4. CASE ProbeBackup(c)
  <2>1. Backups # {}
    BY <1>0, <1>4 DEF ProbeBackup, At, Knows
  <2>2. TheBackup \in Names
    BY <2>1, BackupFacts DEF Backups
  <2> QED
    BY <1>4, <1>u, <1>b, <2>2 DEF ProbeBackup
<1>5. CASE Revert(c)
  <2>1. Backups # {} /\ \A n \in Backups : backup[n] = "working"
    BY <1>0, <1>5 DEF Revert, At, Knows
  <2>2. TheBackup \in Names /\ backup[TheBackup] = "working"
    BY <2>1, BackupFacts DEF Backups
  <2> QED
    BY <1>5, <1>f, <1>b, <2>2 DEF Revert
<1>6. CASE SetAside(c)
  <2>1. CASE UNCHANGED <<final, backup>>
    BY <1>u, <2>1
  <2>2. CASE backup["current"] = "none" /\ backup' = [backup EXCEPT !["current"] = final]
    <3>1. backup'["current"] = final /\ backup'["legacy"] = backup["legacy"]
      BY <1>0, <1>n, <2>2
    <3> QED
      BY <2>2, <3>1 DEF HasWorking
  <2> QED
    BY <1>6, <2>1, <2>2 DEF SetAside, homeVars
<1>7. CASE Activate(c)
  <2>1. staged = "working" /\ final = "none"
    BY <1>0, <1>7 DEF Activate, At, Knows
  <2>2. CASE final' = staged
    BY <1>f, <2>1, <2>2
  <2>3. CASE final' = backup["current"] /\ backup' = [backup EXCEPT !["current"] = "none"]
    <3>1. backup'["legacy"] = backup["legacy"]
      BY <1>0, <1>n, <2>3
    <3> QED
      BY <2>1, <2>3, <3>1 DEF HasWorking
  <2> QED
    BY <1>7, <1>u, <2>2, <2>3 DEF Activate
<1>8. CASE DropBackup(c)
  <2>1. final' = "working"
    BY <1>0, <1>8 DEF DropBackup, At, Knows
  <2> QED
    BY <1>f, <2>1
<1> QED
  BY <1>1, <1>2, <1>3, <1>4, <1>5, <1>6, <1>7, <1>8 DEF CallStep, InstallStep

(* No step of the core destroys the last runtime that works, whatever      *)
(* fails and whenever it ends (recover_interrupted_swap, replace_runtime). *)
THEOREM WorkingRuntimesAreKept == RuntimeSpec => WorkingRuntimeIsKept
<1>1. RuntimeInv /\ [RuntimeNext]_runtimeVars =>
        [HasWorking /\ ~HasWorking' => ~installing /\ final # final']_runtimeVars
  <2> SUFFICES ASSUME RuntimeInv, RuntimeNext, HasWorking, ~HasWorking'
               PROVE  ~installing /\ final # final'
    BY DEF RuntimeInv
  <2>0. backup \in [Names -> Homes]
    BY DEF RuntimeInv, RuntimeTypeOK
  <2>1. CASE StartCore
    <3>1. UNCHANGED <<final, backup>> => HasWorking'
      BY DEF HasWorking
    <3>2. CASE /\ Cardinality(Backups) < 2 /\ final = "none"
               /\ final' = backup[TheBackup]
      <4>1. \A m, n \in Backups : m = n
        BY <3>2, BackupFacts
      <4> QED
        BY <2>0, <3>2, <4>1, PuttingBackKeeps
    <3> QED
      BY <2>1, <3>1, <3>2 DEF StartCore
  <2>2. CASE CrashCore
    BY <2>2 DEF CrashCore, HasWorking
  <2>3. CASE DamageRuntime
    BY <2>3 DEF DamageRuntime
  <2>4. ASSUME NEW c \in Callers, CallStep(c)
        PROVE  FALSE
    BY <2>4, CallKeepsWorking
  <2> QED
    BY <2>1, <2>2, <2>3, <2>4 DEF RuntimeNext, CallStep
<1> QED
  BY <1>1, RuntimeIsConsistent, PTL DEF RuntimeSpec, WorkingRuntimeIsKept

-----------------------------------------------------------------------------

Jobs == [at : Phases, build : Builds \cup {NoBuild}, want : 0..MaxEdition,
         manifest : 0..Damaged, asked : BOOLEAN, cancelled : BOOLEAN,
         verdict : Results \cup {"none", "crashed", "ready"}, count : Nat]
Directories == [Parts -> 0..Damaged]

AfterObjects == {"recovering", "extracting", "listing", "settingAside",
                 "activating", "cleaning"}
AfterBase == {"objects", "fetchingObjects"} \cup AfterObjects
AfterJson == {"base", "fetchingBase"} \cup AfterBase
Finished == JobAt("settling") /\ job.verdict = "verified"

(* What the preparation knows of its metadata and its verdict.             *)
JobIsKnown ==
  /\ ~JobAt("idle") => job.build \in Builds
  /\ JobAt("version") => job.manifest \in Editions
  /\ job.at \in {"checking", "marking"} \cup Installing => job.want \in Editions
  /\ JobAt("settling") => job.verdict \in Results

(* What it knows of the directory it works on.                             *)
PartsAreThere ==
  /\ JobAt("placing") => Here["json"] = None
  /\ job.at \in AfterJson \/ Finished => Here["json"] = job.want
  /\ job.at \in AfterBase \/ Finished => Here["base"] = job.want
  /\ job.at \in AfterObjects \/ Finished => Here["objects"] = job.want
  /\ job.at \in {"extracting", "listing", "settingAside"} => Here["backup"] = None
  /\ JobAt("activating") => Here["natives"] = None
  /\ JobAt("cleaning") \/ Finished => Here["natives"] = job.want

(* The natives a marker vouches for belong to the version file beside them.*)
VouchedAgree ==
  \A b \in Builds : vouched[b] =>
    /\ job.at \in Installing => job.build # b
    /\ \/ disk[b]["json"] = disk[b]["natives"]
       \/ Damaged \in {disk[b]["json"], disk[b]["natives"]}

InstallInv ==
  /\ InstallTypeOK
  /\ JobIsKnown
  /\ PartsAreThere
  /\ VouchedAgree
  /\ ReadyIsComplete

-----------------------------------------------------------------------------
LEMMA Numbers ==
  /\ MaxEdition \in Nat /\ Damaged \in Nat /\ None \in 0..Damaged /\ None \notin Editions
  /\ Damaged \in 0..Damaged /\ Damaged \notin Editions
  /\ Editions \subseteq 0..MaxEdition /\ 0..MaxEdition \subseteq 0..Damaged
  /\ 1 \in Editions /\ 0 \in 0..MaxEdition
BY InstallAssumption DEF Damaged, None, Editions

(* The three ways a preparation goes on.                                   *)
LEMMA Steps ==
  ASSUME job \in Jobs
  PROVE  /\ \A p \in Phases : To(p) =>
              job' \in Jobs /\ job' = [job EXCEPT !.at = p] /\ job'.at = p
              /\ job'.verdict = job.verdict
              /\ job'.build = job.build /\ job'.want = job.want
              /\ job'.manifest = job.manifest
         /\ \A v \in Results : Settle(v) =>
              job' \in Jobs /\ job'.at = "settling" /\ job'.verdict = v
              /\ job'.build = job.build /\ job'.want = job.want
         /\ \A v \in {"none", "crashed", "ready"} \cup Results : End(v) =>
              job' \in Jobs /\ job'.at = "idle" /\ job'.verdict = v
              /\ job'.build = job.build /\ job'.want = job.want
<1>1. ASSUME NEW p \in Phases, To(p)
      PROVE  job' \in Jobs /\ job' = [job EXCEPT !.at = p] /\ job'.at = p
             /\ job'.verdict = job.verdict
             /\ job'.build = job.build /\ job'.want = job.want
             /\ job'.manifest = job.manifest
  BY <1>1 DEF Jobs, To
<1>2. ASSUME NEW v \in Results, Settle(v)
      PROVE  job' \in Jobs /\ job'.at = "settling" /\ job'.verdict = v
             /\ job'.build = job.build /\ job'.want = job.want
  BY <1>2 DEF Jobs, Settle, Phases, Installing
<1>3. ASSUME NEW v \in {"none", "crashed", "ready"} \cup Results, End(v)
      PROVE  job' \in Jobs /\ job'.at = "idle" /\ job'.verdict = v
             /\ job'.build = job.build /\ job'.want = job.want
  BY <1>3 DEF Jobs, End, Phases
<1> QED
  BY <1>1, <1>2, <1>3

(* Writing a part of a directory.                                          *)
Written(b, p, e) == disk' = [disk EXCEPT ![b][p] = e]

LEMMA OneWrite ==
  ASSUME disk \in [Builds -> Directories], NEW b \in Builds, NEW p \in Parts,
         NEW e \in 0..Damaged, Written(b, p, e)
  PROVE  /\ disk' \in [Builds -> Directories]
         /\ disk'[b][p] = e
         /\ \A q \in Parts : q # p => disk'[b][q] = disk[b][q]
         /\ \A d \in Builds : d # b => disk'[d] = disk[d]
<1>1. [disk[b] EXCEPT ![p] = e] \in Directories
  BY DEF Directories
<1>2. disk' = [disk EXCEPT ![b] = [disk[b] EXCEPT ![p] = e]]
  BY DEF Written
<1>3. disk[b] \in Directories
  OBVIOUS
<1> QED
  BY <1>1, <1>2, <1>3 DEF Directories

NativesWritten(b, e, f) ==
  disk' = [disk EXCEPT ![b]["backup"] = e, ![b]["natives"] = f]

LEMMA TwoWrites ==
  ASSUME disk \in [Builds -> Directories], NEW b \in Builds, NEW e \in 0..Damaged,
         NEW f \in 0..Damaged, NativesWritten(b, e, f)
  PROVE  /\ disk' \in [Builds -> Directories]
         /\ disk'[b]["backup"] = e /\ disk'[b]["natives"] = f
         /\ \A q \in {"json", "base", "objects"} : disk'[b][q] = disk[b][q]
         /\ \A d \in Builds : d # b => disk'[d] = disk[d]
<1> DEFINE middle == [disk[b] EXCEPT !["backup"] = e]
           last == [middle EXCEPT !["natives"] = f]
<1>3. disk[b] \in Directories
  OBVIOUS
<1>1. last \in Directories /\ last["backup"] = e /\ last["natives"] = f
      /\ \A q \in {"json", "base", "objects"} : last[q] = disk[b][q]
  BY <1>3 DEF Directories, Parts
<1>2. disk' = [disk EXCEPT ![b] = last]
  BY DEF NativesWritten
<1> HIDE DEF last
<1> QED
  BY <1>1, <1>2

-----------------------------------------------------------------------------
(* The phases before a directory is touched, and the others.               *)
BeforeChanges == FetchManifest \/ FetchVersion \/ CheckVersion \/ MarkInstalling
OnFiles == \/ SetJsonAside \/ PlaceJson \/ DownloadBase \/ BaseIsThere
           \/ DownloadObjects \/ ObjectsAreThere
OnNatives == \/ RecoverNatives \/ ExtractNatives \/ PersistInventory
             \/ SetNativesAside \/ PlaceNatives \/ RemoveNativesBackup

LEMMA PhasesAreOneOf ==
  PreparationStep => BeforeChanges \/ OnFiles \/ OnNatives \/ MarkResult
BY DEF PreparationStep, BeforeChanges, OnFiles, OnNatives

(* The job stays well formed, and on its build.                            *)
LEMMA JobStep ==
  ASSUME InstallInv, PreparationStep
  PROVE  job' \in Jobs /\ job'.build = job.build /\ JobIsKnown'
<1>0. job \in Jobs /\ cached \in [{"manifest", "version"} -> 0..MaxEdition]
      /\ published \in Editions
  BY DEF InstallInv, InstallTypeOK, Jobs
<1>k. JobIsKnown
  BY DEF InstallInv
<1>e. ASSUME NEW v \in {"none", "crashed", "ready"} \cup Results, End(v)
      PROVE  job' \in Jobs /\ job'.build = job.build /\ JobIsKnown'
  BY <1>0, <1>e, Steps DEF JobIsKnown, JobAt, Installing
<1>s. ASSUME NEW v \in Results, Settle(v), job.at \in Installing
      PROVE  job' \in Jobs /\ job'.build = job.build /\ JobIsKnown'
  BY <1>0, <1>k, <1>s, Steps DEF JobIsKnown, JobAt, Installing
<1>t. ASSUME NEW p \in Phases \ {"idle", "manifest", "version", "settling"}, To(p),
             job.at \in {"checking", "marking"} \cup Installing
      PROVE  job' \in Jobs /\ job'.build = job.build /\ JobIsKnown'
  BY <1>0, <1>k, <1>t, Steps DEF JobIsKnown, JobAt, Installing
<1>1. CASE FetchManifest
  <2>1. ASSUME NEW e \in Editions, job' = [job EXCEPT !.at = "version", !.manifest = e]
        PROVE  job' \in Jobs /\ job'.build = job.build /\ JobIsKnown'
    <3>1. e \in 0..Damaged
      BY Numbers
    <3>2. job' \in Jobs /\ job'.build = job.build /\ job'.at = "version" /\ job'.manifest = e
      BY <1>0, <2>1, <3>1 DEF Jobs, Phases
    <3> QED
      BY <1>1, <1>k, <3>2 DEF FetchManifest, JobIsKnown, JobAt, Installing
  <2>2. cached.manifest # None => cached.manifest \in Editions
    BY <1>0, Numbers DEF Editions, None
  <2> QED
    BY <1>0, <1>1, <1>e, <2>1, <2>2 DEF FetchManifest, Results
<1>2. CASE FetchVersion
  <2>1. ASSUME NEW e \in Editions, job' = [job EXCEPT !.at = "checking", !.want = e]
        PROVE  job' \in Jobs /\ job'.build = job.build /\ JobIsKnown'
    <3>1. e \in 0..MaxEdition
      BY Numbers
    <3>2. job' \in Jobs /\ job'.build = job.build /\ job'.at = "checking" /\ job'.want = e
      BY <1>0, <2>1, <3>1 DEF Jobs, Phases
    <3> QED
      BY <1>2, <1>k, <3>2 DEF FetchVersion, JobIsKnown, JobAt, Installing
  <2>2. cached.version # None => cached.version \in Editions
    BY <1>0, Numbers DEF Editions, None
  <2>3. job.manifest \in Editions
    BY <1>2, <1>k DEF FetchVersion, JobIsKnown
  <2> QED
    BY <1>2, <1>e, <2>1, <2>2, <2>3 DEF FetchVersion, Results
<1>3. CASE CheckVersion \/ MarkInstalling
  <2>1. job.at \in {"checking", "marking"}
    BY <1>3 DEF CheckVersion, MarkInstalling, JobAt
  <2>2. \/ \E v \in {"none", "crashed", "ready"} \cup Results : End(v)
        \/ To("marking") \/ To("persisting")
    BY <1>3 DEF CheckVersion, MarkInstalling, Results
  <2> QED
    BY <1>e, <1>t, <2>1, <2>2 DEF Phases, Installing
<1>4. CASE OnFiles
  <2>1. job.at \in Installing
    BY <1>4 DEF OnFiles, SetJsonAside, PlaceJson, DownloadBase, BaseIsThere,
       DownloadObjects, ObjectsAreThere, BeginDownload, FinishDownload, JobAt, Installing
  <2>2. \/ \E v \in Results : Settle(v)
        \/ \E p \in Phases \ {"idle", "manifest", "version", "settling"} : To(p)
        \/ job' = [job EXCEPT !.at = "placing", !.manifest = Here["json"]]
    BY <1>4 DEF OnFiles, SetJsonAside, PlaceJson, DownloadBase, BaseIsThere,
       DownloadObjects, ObjectsAreThere, BeginDownload, FinishDownload, Results,
       Phases, Installing
  <2>3. CASE job' = [job EXCEPT !.at = "placing", !.manifest = Here["json"]]
    <3>1. job.build \in Builds
      BY <1>k, <2>1 DEF JobIsKnown, JobAt, Installing
    <3>2. Here["json"] \in 0..Damaged
      BY <3>1 DEF InstallInv, InstallTypeOK, Here, Parts
    <3>3. job' \in Jobs /\ job'.build = job.build /\ job'.at = "placing"
          /\ job'.want = job.want
      BY <1>0, <2>3, <3>2 DEF Jobs, Phases, Installing
    <3> QED
      BY <1>k, <2>1, <3>1, <3>3 DEF JobIsKnown, JobAt, Installing
  <2> QED
    BY <1>s, <1>t, <2>1, <2>2, <2>3
<1>5. CASE OnNatives
  <2>1. job.at \in Installing
    BY <1>5 DEF OnNatives, RecoverNatives, ExtractNatives, PersistInventory,
       SetNativesAside, PlaceNatives, RemoveNativesBackup, JobAt, Installing
  <2>2. \/ \E v \in Results : Settle(v)
        \/ \E p \in Phases \ {"idle", "manifest", "version", "settling"} : To(p)
    BY <1>5 DEF OnNatives, RecoverNatives, ExtractNatives, PersistInventory,
       SetNativesAside, PlaceNatives, RemoveNativesBackup, Results, Phases, Installing
  <2> QED
    BY <1>s, <1>t, <2>1, <2>2
<1>6. CASE MarkResult
  <2>1. job.verdict \in Results
    BY <1>6, <1>k DEF MarkResult, JobIsKnown
  <2>2. \E v \in {"none", "crashed", "ready"} \cup Results : End(v)
    BY <1>6, <2>1 DEF MarkResult, Results
  <2> QED
    BY <1>e, <2>2
<1> QED
  BY <1>1, <1>2, <1>3, <1>4, <1>5, <1>6, PhasesAreOneOf DEF BeforeChanges

-----------------------------------------------------------------------------
(* What a step of the preparation leaves in the directory it works on.     *)
Kept(q) == disk'[job.build][q] = Here[q]

(* The directories stay well formed, and only the job's own changes.       *)
LEMMA DiskStep ==
  ASSUME InstallInv, PreparationStep
  PROVE  /\ disk' \in [Builds -> Directories]
         /\ \A d \in Builds : d # job.build => disk'[d] = disk[d]
         /\ BeforeChanges \/ MarkResult => disk' = disk
         /\ OnNatives => Kept("json") /\ Kept("base") /\ Kept("objects")
<1>0. job \in Jobs /\ disk \in [Builds -> Directories]
  BY DEF InstallInv, InstallTypeOK, Jobs, Directories
<1>i. CASE BeforeChanges \/ MarkResult
  <2>1. disk' = disk
    BY <1>i DEF BeforeChanges, FetchManifest, FetchVersion, CheckVersion,
       MarkInstalling, MarkResult
  <2> QED
    BY <1>0, <2>1 DEF Kept, Here
<1>b. CASE OnFiles \/ OnNatives
  <2>0. job.build \in Builds /\ job.want \in 0..Damaged /\ job.manifest \in 0..Damaged
    <3>1. ~JobAt("idle")
      BY <1>b DEF OnFiles, SetJsonAside, PlaceJson, DownloadBase, BaseIsThere,
         DownloadObjects, ObjectsAreThere, BeginDownload, FinishDownload,
         OnNatives, RecoverNatives, ExtractNatives, PersistInventory,
         SetNativesAside, PlaceNatives, RemoveNativesBackup, JobAt
    <3> QED
      BY <1>0, <3>1, Numbers DEF InstallInv, JobIsKnown, Jobs
  <2>k. Here \in Directories
    BY <1>0, <2>0 DEF Here
  <2>u. disk' = disk => /\ disk' \in [Builds -> Directories]
                        /\ \A d \in Builds : d # job.build => disk'[d] = disk[d]
                        /\ Kept("json") /\ Kept("base") /\ Kept("objects")
    BY <1>0 DEF Kept, Here
  <2>w. ASSUME NEW p \in Parts, NEW e \in 0..Damaged, Put(p, e)
        PROVE  /\ disk' \in [Builds -> Directories]
               /\ \A d \in Builds : d # job.build => disk'[d] = disk[d]
               /\ \A q \in Parts \ {p} : Kept(q)
    <3>1. Written(job.build, p, e)
      BY <2>w DEF Put, Written
    <3>2. /\ disk' \in [Builds -> Directories]
          /\ \A q \in Parts : q # p => disk'[job.build][q] = disk[job.build][q]
          /\ \A d \in Builds : d # job.build => disk'[d] = disk[d]
      BY <1>0, <2>0, <3>1, OneWrite
    <3> QED
      BY <3>2 DEF Kept, Here
  <2>t. ASSUME NEW e \in 0..Damaged, NEW f \in 0..Damaged,
               disk' = [disk EXCEPT ![job.build]["backup"] = e,
                                    ![job.build]["natives"] = f]
        PROVE  /\ disk' \in [Builds -> Directories]
               /\ \A d \in Builds : d # job.build => disk'[d] = disk[d]
               /\ Kept("json") /\ Kept("base") /\ Kept("objects")
    <3>1. NativesWritten(job.build, e, f)
      BY <2>t DEF NativesWritten
    <3> QED
      BY <1>0, <2>0, <3>1, TwoWrites DEF Kept, Here
  <2>1. CASE OnFiles
    <3>1. \/ disk' = disk
          \/ \E p \in {"json", "base", "objects"} :
               Put(p, None) \/ Put(p, job.want) \/ Put(p, job.manifest)
      BY <2>1 DEF OnFiles, SetJsonAside, PlaceJson, DownloadBase, BaseIsThere,
         DownloadObjects, ObjectsAreThere, BeginDownload, FinishDownload, Put
    <3>2. ~OnNatives
      BY <2>1 DEF OnFiles, SetJsonAside, PlaceJson, DownloadBase, BaseIsThere,
         DownloadObjects, ObjectsAreThere, BeginDownload, FinishDownload,
         OnNatives, RecoverNatives, ExtractNatives, PersistInventory,
         SetNativesAside, PlaceNatives, RemoveNativesBackup, JobAt
    <3>3. {"json", "base", "objects"} \subseteq Parts
      BY DEF Parts
    <3>4. /\ disk' \in [Builds -> Directories]
          /\ \A d \in Builds : d # job.build => disk'[d] = disk[d]
      BY <2>0, <2>u, <2>w, <3>1, <3>3, Numbers
    <3>5. BeforeChanges \/ MarkResult => disk' = disk
      BY DEF BeforeChanges, FetchManifest, FetchVersion, CheckVersion,
         MarkInstalling, MarkResult
    <3> QED
      BY <3>2, <3>4, <3>5
  <2>2. CASE OnNatives
    <3>1. \/ disk' = disk
          \/ \E p \in {"natives", "backup"}, e \in 0..Damaged : Put(p, e)
          \/ \E e, f \in 0..Damaged :
               disk' = [disk EXCEPT ![job.build]["backup"] = e,
                                    ![job.build]["natives"] = f]
      <4>0. Here["backup"] \in 0..Damaged /\ Here["natives"] \in 0..Damaged
        BY <2>k DEF Directories, Parts
      <4>1. CASE RecoverNatives
        <5>1. disk[job.build]["natives"] = Here["natives"]
          BY DEF Here
        <5>3. (IF Here["natives"] = None THEN Here["backup"] ELSE Here["natives"])
                \in 0..Damaged
          BY <4>0
        <5>2. \/ disk' = disk \/ Put("backup", Damaged)
              \/ disk' = [disk EXCEPT ![job.build]["backup"] = None,
                   ![job.build]["natives"] =
                      IF Here["natives"] = None THEN Here["backup"] ELSE Here["natives"]]
          BY <4>1, <5>1 DEF RecoverNatives, BackupHalfRemoved
        <5> QED
          BY <5>2, <5>3, Numbers
      <4>2. CASE ExtractNatives \/ PersistInventory
        BY <4>2 DEF ExtractNatives, PersistInventory
      <4>3. CASE SetNativesAside
        BY <4>0, <4>3, Numbers DEF SetNativesAside
      <4>4. CASE PlaceNatives
        <5>1. \/ Put("natives", job.want) \/ disk' = disk
              \/ disk' = [disk EXCEPT ![job.build]["natives"] = Here["backup"],
                                      ![job.build]["backup"] = None]
          BY <4>4 DEF PlaceNatives
        <5>2. CASE disk' = [disk EXCEPT ![job.build]["natives"] = Here["backup"],
                                        ![job.build]["backup"] = None]
          <6>1. disk' = [disk EXCEPT ![job.build]["backup"] = None,
                                     ![job.build]["natives"] = Here["backup"]]
            BY <5>2
          <6> QED
            BY <4>0, <6>1, Numbers
        <5> QED
          BY <2>0, <5>1, <5>2
      <4>5. CASE RemoveNativesBackup
        BY <4>5, Numbers DEF RemoveNativesBackup, BackupHalfRemoved
      <4> QED
        BY <2>2, <4>1, <4>2, <4>3, <4>4, <4>5 DEF OnNatives
    <3>2. /\ disk' \in [Builds -> Directories]
          /\ \A d \in Builds : d # job.build => disk'[d] = disk[d]
          /\ Kept("json") /\ Kept("base") /\ Kept("objects")
      <4>1. {"natives", "backup"} \subseteq Parts
            /\ {"json", "base", "objects"} \subseteq Parts \ {"natives", "backup"}
        BY DEF Parts
      <4> QED
        BY <2>u, <2>w, <2>t, <3>1, <4>1
    <3>5. BeforeChanges \/ MarkResult => disk' = disk
      BY DEF BeforeChanges, FetchManifest, FetchVersion, CheckVersion,
         MarkInstalling, MarkResult
    <3> QED
      BY <3>2, <3>5
  <2> QED
    BY <1>b, <2>1, <2>2
<1> QED
  BY <1>i, <1>b, PhasesAreOneOf

(* The parts it has gone through stay those that the metadata wants.       *)
LEMMA PartsStep ==
  ASSUME InstallInv, PreparationStep
  PROVE  PartsAreThere'
<1>0. job \in Jobs /\ disk \in [Builds -> Directories]
  BY DEF InstallInv, InstallTypeOK, Jobs, Directories
<1>p. PartsAreThere
  BY DEF InstallInv
<1>q. job' \in Jobs /\ job'.build = job.build
  BY JobStep
<1>h. \A q \in Parts : (Here[q])' = disk'[job.build][q]
  BY <1>q DEF Here
<1>n. "json" \in Parts /\ "base" \in Parts /\ "objects" \in Parts
      /\ "natives" \in Parts /\ "backup" \in Parts
  BY DEF Parts
<1>i. ASSUME job'.at \in {"idle", "version", "checking", "marking", "persisting"}
      PROVE  PartsAreThere'
  BY <1>i DEF PartsAreThere, JobAt, Finished, AfterJson, AfterBase, AfterObjects
<1>s. ASSUME job'.at = "settling", job'.verdict # "verified"
      PROVE  PartsAreThere'
  BY <1>s DEF PartsAreThere, JobAt, Finished, AfterJson, AfterBase, AfterObjects
<1>c. Settle("cancelled") \/ Settle("failed") => PartsAreThere'
  BY <1>0, <1>s, Steps DEF Results
<1>e. \A v \in {"none", "crashed", "ready"} \cup Results : End(v) => PartsAreThere'
  BY <1>0, <1>i, Steps
<1>a. ASSUME NEW p \in Phases, To(p)
      PROVE  job'.at = p /\ job'.want = job.want
  BY <1>0, <1>a, Steps
<1>w. ASSUME NEW p \in Parts, NEW e \in 0..Damaged, Put(p, e), job.build \in Builds
      PROVE  disk'[job.build][p] = e
             /\ \A q \in Parts : q # p => disk'[job.build][q] = Here[q]
  <2>1. Written(job.build, p, e)
    BY <1>w DEF Put, Written
  <2>2. /\ disk'[job.build][p] = e
        /\ \A q \in Parts : q # p => disk'[job.build][q] = disk[job.build][q]
    BY <1>0, <1>w, <2>1, OneWrite
  <2> QED
    BY <2>2 DEF Here
<1>1. CASE BeforeChanges
  <2>1. job'.at \in {"idle", "version", "checking", "marking", "persisting"}
    <3>1. CASE FetchManifest
      BY <1>0, <3>1, Steps DEF FetchManifest, Results, Jobs
    <3>2. CASE FetchVersion
      BY <1>0, <3>2, Steps DEF FetchVersion, Results, Jobs
    <3>3. CASE CheckVersion
      BY <1>0, <3>3, Steps DEF CheckVersion, Results, Phases
    <3>4. CASE MarkInstalling
      BY <1>0, <3>4, Steps DEF MarkInstalling, Results, Phases, Installing
    <3> QED
      BY <1>1, <3>1, <3>2, <3>3, <3>4 DEF BeforeChanges
  <2> QED
    BY <1>i, <2>1
<1>b. CASE OnFiles \/ OnNatives
  <2>0. job.build \in Builds /\ job.want \in 0..Damaged /\ job.want # None
    <3>1. job.at \in Installing
      BY <1>b DEF OnFiles, SetJsonAside, PlaceJson, DownloadBase, BaseIsThere,
         DownloadObjects, ObjectsAreThere, BeginDownload, FinishDownload,
         OnNatives, RecoverNatives, ExtractNatives, PersistInventory,
         SetNativesAside, PlaceNatives, RemoveNativesBackup, JobAt, Installing
    <3> QED
      BY <1>0, <3>1, Numbers DEF InstallInv, JobIsKnown, JobAt, Installing
  <2>s. disk' = disk => \A q \in Parts : disk'[job.build][q] = Here[q]
    BY DEF Here
  <2>k. ASSUME OnNatives
        PROVE  \A q \in {"json", "base", "objects"} : disk'[job.build][q] = Here[q]
    BY <2>k, DiskStep DEF Kept
  <2>1. CASE SetJsonAside
    <3>1. CASE Settle("cancelled") \/ Settle("failed")
      BY <1>c, <3>1
    <3>2. CASE Here["json"] = job.want /\ To("base") /\ disk' = disk
      <4>1. job'.at = "base" /\ job'.want = job.want
        BY <1>a, <3>2 DEF Phases, Installing
      <4> QED
        BY <1>h, <1>n, <2>s, <3>2, <4>1 DEF PartsAreThere, JobAt, Finished, AfterJson,
           AfterBase, AfterObjects
    <3>3. CASE /\ Put("json", None)
               /\ job' = [job EXCEPT !.at = "placing", !.manifest = Here["json"]]
      <4>1. job'.at = "placing"
        BY <1>0, <3>3 DEF Jobs
      <4>2. disk'[job.build]["json"] = None
        BY <1>n, <1>w, <2>0, <3>3, Numbers
      <4> QED
        BY <1>h, <1>n, <4>1, <4>2 DEF PartsAreThere, JobAt, Finished, AfterJson,
           AfterBase, AfterObjects
    <3> QED
      BY <2>1, <3>1, <3>2, <3>3 DEF SetJsonAside
  <2>2. CASE PlaceJson
    <3>1. CASE Put("json", job.want) /\ To("base")
      <4>1. job'.at = "base" /\ job'.want = job.want
        BY <1>a, <3>1 DEF Phases, Installing
      <4>2. disk'[job.build]["json"] = job.want
        BY <1>n, <1>w, <2>0, <3>1
      <4> QED
        BY <1>h, <1>n, <4>1, <4>2 DEF PartsAreThere, JobAt, Finished, AfterJson,
           AfterBase, AfterObjects
    <3> QED
      BY <1>c, <2>2, <3>1 DEF PlaceJson
  <2>3. CASE DownloadBase \/ DownloadObjects
    <3>1. PICK part \in {"base", "objects"},
               running \in {"fetchingBase", "fetchingObjects"} :
            /\ part = "base" <=> running = "fetchingBase"
            /\ JobAt(part) /\ BeginDownload(part, part, running)
      BY <2>3 DEF DownloadBase, DownloadObjects, BeginDownload
    <3>2. CASE Settle("cancelled") \/ Settle("failed")
      BY <1>c, <3>2
    <3>3. CASE To(running) /\ (disk' = disk \/ Put(part, None))
      <4>1. job'.at = running /\ job'.want = job.want
        BY <1>a, <3>3 DEF Phases, Installing
      <4>2. \A q \in Parts : q # part => disk'[job.build][q] = Here[q]
        BY <1>n, <1>w, <2>0, <2>s, <3>1, <3>3, Numbers
      <4>3. Here["json"] = job.want /\ (part = "objects" => Here["base"] = job.want)
        BY <1>p, <3>1 DEF PartsAreThere, JobAt, AfterJson, AfterBase
      <4> QED
        BY <1>h, <1>n, <3>1, <4>1, <4>2, <4>3 DEF PartsAreThere, JobAt, Finished,
           AfterJson, AfterBase, AfterObjects
    <3> QED
      BY <3>1, <3>2, <3>3 DEF BeginDownload
  <2>4. CASE BaseIsThere \/ ObjectsAreThere
    <3>1. PICK part \in {"base", "objects"} :
            FinishDownload(IF part = "base" THEN "fetchingBase" ELSE "fetchingObjects",
                           part, IF part = "base" THEN "objects" ELSE "recovering")
      BY <2>4 DEF BaseIsThere, ObjectsAreThere
    <3> DEFINE next == IF part = "base" THEN "objects" ELSE "recovering"
    <3>2. CASE Settle("cancelled") \/ Settle("failed")
      BY <1>c, <3>2
    <3>3. CASE Put(part, job.want) /\ To(next)
      <4>1. job'.at = next /\ job'.want = job.want
        BY <1>a, <3>3 DEF Phases, Installing
      <4>2. /\ disk'[job.build][part] = job.want
            /\ \A q \in Parts : q # part => disk'[job.build][q] = Here[q]
        BY <1>n, <1>w, <2>0, <3>3
      <4>3. Here["json"] = job.want /\ (part = "objects" => Here["base"] = job.want)
        BY <1>p, <3>1 DEF FinishDownload, PartsAreThere, JobAt, AfterJson, AfterBase
      <4> QED
        BY <1>h, <1>n, <4>1, <4>2, <4>3 DEF PartsAreThere, JobAt, Finished,
           AfterJson, AfterBase, AfterObjects
    <3> QED
      BY <3>1, <3>2, <3>3 DEF FinishDownload
  <2>n. ASSUME OnNatives
        PROVE  \A q \in {"json", "base", "objects"} : disk'[job.build][q] = job.want
    <3>1. JobAt("recovering") \/ JobAt("extracting") \/ JobAt("listing")
          \/ JobAt("settingAside") \/ JobAt("activating") \/ JobAt("cleaning")
      BY <2>n DEF OnNatives, RecoverNatives, ExtractNatives, PersistInventory,
         SetNativesAside, PlaceNatives, RemoveNativesBackup
    <3>2. Here["json"] = job.want /\ Here["base"] = job.want /\ Here["objects"] = job.want
      BY <1>p, <3>1 DEF PartsAreThere, JobAt, AfterJson, AfterBase, AfterObjects
    <3> QED
      BY <2>k, <2>n, <3>2
  <2>o. ASSUME OnNatives, job'.want = job.want, job'.at \in AfterObjects,
               job'.at \in {"extracting", "listing", "settingAside"} =>
                 disk'[job.build]["backup"] = None,
               job'.at = "activating" => disk'[job.build]["natives"] = None,
               job'.at = "cleaning" => disk'[job.build]["natives"] = job.want
        PROVE  PartsAreThere'
    BY <1>h, <1>n, <2>n, <2>o DEF PartsAreThere, JobAt, Finished, AfterJson,
       AfterBase, AfterObjects
  <2>5. CASE RecoverNatives
    <3>1. CASE To("extracting") /\ disk' = [disk EXCEPT ![job.build]["backup"] = None,
             ![job.build]["natives"] = IF @ = None THEN Here["backup"] ELSE @]
      <4>1. job'.at = "extracting" /\ job'.want = job.want
        BY <1>a, <3>1 DEF Phases, Installing
      <4>2. disk'[job.build]["backup"] = None
        <5>1. disk[job.build] \in Directories
          BY <1>0, <2>0
        <5>2. Here["backup"] \in 0..Damaged /\ disk[job.build]["natives"] \in 0..Damaged
          BY <1>n, <5>1 DEF Here, Directories
        <5>3. PICK f \in 0..Damaged :
                disk' = [disk EXCEPT ![job.build]["backup"] = None,
                                     ![job.build]["natives"] = f]
          <6>1. (IF disk[job.build]["natives"] = None THEN Here["backup"]
                 ELSE disk[job.build]["natives"]) \in 0..Damaged
            BY <5>2
          <6>2. disk' = [disk EXCEPT ![job.build]["backup"] = None,
                  ![job.build]["natives"] =
                     IF disk[job.build]["natives"] = None THEN Here["backup"]
                     ELSE disk[job.build]["natives"]]
            BY <3>1
          <6> QED
            BY <6>1, <6>2
        <5>4. NativesWritten(job.build, None, f)
          BY <5>3 DEF NativesWritten
        <5> QED
          BY <1>0, <2>0, <5>3, <5>4, TwoWrites, Numbers
      <4> QED
        BY <2>5, <2>o, <4>1, <4>2 DEF OnNatives, AfterObjects
    <3> QED
      BY <1>c, <2>5, <3>1 DEF RecoverNatives
  <2>6. CASE ExtractNatives \/ PersistInventory
    <3>1. CASE (To("listing") \/ To("settingAside")) /\ disk' = disk
      <4>1. job'.at \in {"listing", "settingAside"} /\ job'.want = job.want
        BY <1>a, <3>1 DEF Phases, Installing
      <4>2. Here["backup"] = None
        BY <1>p, <2>6 DEF ExtractNatives, PersistInventory, PartsAreThere, JobAt
      <4> QED
        BY <1>n, <2>6, <2>o, <2>s, <3>1, <4>1, <4>2 DEF OnNatives, AfterObjects
    <3> QED
      BY <1>c, <2>6, <3>1 DEF ExtractNatives, PersistInventory
  <2>7. CASE SetNativesAside
    <3>1. CASE To("activating")
               /\ disk' = [disk EXCEPT ![job.build]["backup"] = Here["natives"],
                                       ![job.build]["natives"] = None]
      <4>1. job'.at = "activating" /\ job'.want = job.want
        BY <1>a, <3>1 DEF Phases, Installing
      <4>2. Here["natives"] \in 0..Damaged
        BY <1>0, <1>n, <2>0 DEF Here, Directories
      <4>3. disk'[job.build]["natives"] = None
        <5>1. NativesWritten(job.build, Here["natives"], None)
          BY <3>1 DEF NativesWritten
        <5> QED
          BY <1>0, <2>0, <4>2, <5>1, TwoWrites, Numbers
      <4> QED
        BY <2>7, <2>o, <4>1, <4>3 DEF OnNatives, AfterObjects
    <3> QED
      BY <1>c, <2>7, <3>1 DEF SetNativesAside
  <2>8. CASE PlaceNatives
    <3>1. CASE Put("natives", job.want) /\ To("cleaning")
      <4>1. job'.at = "cleaning" /\ job'.want = job.want
        BY <1>a, <3>1 DEF Phases, Installing
      <4>2. disk'[job.build]["natives"] = job.want
        BY <1>n, <1>w, <2>0, <3>1
      <4> QED
        BY <2>8, <2>o, <4>1, <4>2 DEF OnNatives, AfterObjects
    <3> QED
      BY <1>c, <2>8, <3>1 DEF PlaceNatives
  <2>9. CASE RemoveNativesBackup
    <3>1. CASE Settle("verified")
      <4>1. job'.at = "settling" /\ job'.want = job.want
        BY <1>0, <3>1, Steps DEF Results
      <4>2. Here["natives"] = job.want
        BY <1>p, <2>9 DEF RemoveNativesBackup, PartsAreThere, JobAt
      <4>3. disk' = disk \/ Put("backup", None) \/ Put("backup", Damaged)
        BY <2>9 DEF RemoveNativesBackup, BackupHalfRemoved
      <4>4. disk'[job.build]["natives"] = job.want
        BY <1>n, <1>w, <2>0, <2>s, <4>2, <4>3, Numbers
      <4>5. \A q \in {"json", "base", "objects"} : disk'[job.build][q] = job.want
        BY <2>9, <2>n DEF OnNatives
      <4> QED
        BY <1>h, <1>n, <4>1, <4>4, <4>5 DEF PartsAreThere, JobAt, Finished, AfterJson,
           AfterBase, AfterObjects
    <3> QED
      BY <1>c, <2>9, <3>1 DEF RemoveNativesBackup
  <2> QED
    BY <1>b, <2>1, <2>2, <2>3, <2>4, <2>5, <2>6, <2>7, <2>8, <2>9 DEF OnFiles, OnNatives
<1>2. CASE MarkResult
  <2>1. job.verdict \in Results
    BY <1>2 DEF MarkResult, InstallInv, JobIsKnown
  <2>2. \E v \in {"none", "crashed", "ready"} \cup Results : End(v)
    BY <1>2, <2>1 DEF MarkResult, Results
  <2> QED
    BY <1>e, <2>2
<1> QED
  BY <1>1, <1>b, <1>2, PhasesAreOneOf

(* The builds a marker vouches for are left alone until it is withdrawn.   *)
LEMMA VouchedStep ==
  ASSUME InstallInv, PreparationStep
  PROVE  VouchedAgree'
<1>v. VouchedAgree /\ vouched \in [Builds -> BOOLEAN]
  BY DEF InstallInv, InstallTypeOK
<1>q. job'.build = job.build
  BY JobStep
<1>0. job \in Jobs
  BY DEF InstallInv, InstallTypeOK, Jobs
<1>i. job.at # "idle" => job.build \in Builds
  BY DEF InstallInv, JobIsKnown, JobAt
<1>1. CASE FetchManifest \/ FetchVersion \/ CheckVersion
  <2>1. UNCHANGED <<disk, vouched>>
    BY <1>1 DEF FetchManifest, FetchVersion, CheckVersion
  <2>2. job'.at \notin Installing
    <3>1. CASE FetchManifest
      BY <1>0, <3>1, Steps DEF FetchManifest, Results, Jobs, Installing
    <3>2. CASE FetchVersion
      BY <1>0, <3>2, Steps DEF FetchVersion, Results, Jobs, Installing
    <3>3. CASE CheckVersion
      BY <1>0, <3>3, Steps DEF CheckVersion, Results, Phases, Installing
    <3> QED
      BY <1>1, <3>1, <3>2, <3>3
  <2> QED
    BY <1>v, <2>1, <2>2 DEF VouchedAgree
<1>2. CASE MarkInstalling
  <2>1. CASE vouched' = [vouched EXCEPT ![job.build] = FALSE] /\ disk' = disk
    <3>1. \A b \in Builds : vouched'[b] => b # job.build /\ vouched[b]
      BY <1>v, <2>1
    <3> QED
      BY <1>q, <1>v, <2>1, <3>1 DEF VouchedAgree
  <2>2. CASE End("failed") /\ UNCHANGED <<disk, vouched>>
    <3>1. job'.at = "idle"
      BY <1>0, <2>2, Steps DEF Results
    <3> QED
      BY <1>v, <2>2, <3>1 DEF VouchedAgree, Installing
  <2> QED
    BY <1>2, <2>1, <2>2 DEF MarkInstalling
<1>3. CASE OnFiles \/ OnNatives
  <2>1. job.at \in Installing /\ vouched' = vouched
    BY <1>3 DEF OnFiles, SetJsonAside, PlaceJson, DownloadBase, BaseIsThere,
       DownloadObjects, ObjectsAreThere, BeginDownload, FinishDownload,
       OnNatives, RecoverNatives, ExtractNatives, PersistInventory,
       SetNativesAside, PlaceNatives, RemoveNativesBackup, JobAt, Installing
  <2>2. \A b \in Builds : vouched'[b] => b # job.build /\ disk'[b] = disk[b]
    BY <1>v, <2>1, DiskStep DEF VouchedAgree
  <2> QED
    BY <1>q, <1>v, <2>1, <2>2 DEF VouchedAgree
<1>4. CASE MarkResult
  <2>1. disk' = disk /\ job'.at = "idle" /\ job.build \in Builds
    <3>1. job.verdict \in Results /\ job.at # "idle"
      BY <1>4 DEF MarkResult, InstallInv, JobIsKnown, JobAt
    <3>2. \E v \in {"none", "crashed", "ready"} \cup Results : End(v)
      BY <1>4, <3>1 DEF MarkResult, Results
    <3> QED
      BY <1>0, <1>i, <1>4, <3>1, <3>2, Steps DEF MarkResult
  <2>2. vouched'[job.build] =>
          vouched[job.build] \/ Here["json"] = Here["natives"]
    <3>1. job.verdict = "verified" => Here["json"] = Here["natives"]
      BY <1>4 DEF MarkResult, InstallInv, PartsAreThere, Finished
    <3> QED
      BY <1>v, <1>4, <2>1, <3>1 DEF MarkResult
  <2>3. \A b \in Builds : b # job.build => vouched'[b] = vouched[b]
    BY <1>v, <1>4 DEF MarkResult
  <2> QED
    BY <1>v, <2>1, <2>2, <2>3 DEF VouchedAgree, Installing, Here
<1> QED
  BY <1>1, <1>2, <1>3, <1>4, PhasesAreOneOf DEF BeforeChanges

(* A preparation answers "ready" after a check or an installation only.    *)
LEMMA ReadyStep ==
  ASSUME InstallInv, PreparationStep
  PROVE  ReadyIsComplete'
<1>0. job \in Jobs /\ disk \in [Builds -> Directories]
  BY DEF InstallInv, InstallTypeOK, Jobs, Directories
<1>q. job'.build = job.build
  BY JobStep
<1>n. job'.at # "idle" \/ job'.verdict # "ready" => ReadyIsComplete'
  BY DEF ReadyIsComplete, Ready, JobAt
<1>e. \A v \in {"none", "crashed"} \cup Results : End(v) => ReadyIsComplete'
  BY <1>0, <1>n, Steps DEF Results
<1>t. \A p \in Phases \ {"idle"} : To(p) => ReadyIsComplete'
  BY <1>0, <1>n, Steps
<1>s. \A v \in Results : Settle(v) => ReadyIsComplete'
  BY <1>0, <1>n, Steps
<1>1. CASE FetchManifest \/ FetchVersion
  <2>1. CASE job'.at \in {"version", "checking"}
    BY <1>n, <2>1
  <2>2. CASE End("cancelled") \/ End("failed")
    BY <1>e, <2>2 DEF Results
  <2> QED
    BY <1>0, <1>1, <2>1, <2>2 DEF FetchManifest, FetchVersion, Jobs
<1>2. CASE CheckVersion
  <2>1. CASE End("ready") /\ IsVerified
    <3>1. UNCHANGED <<disk, vouched>> /\ job'.want = job.want
      BY <1>0, <1>2, <2>1, Steps DEF CheckVersion
    <3>2. /\ \A p \in {"json", "base", "objects"} : Here[p] = job.want
          /\ Here["natives"] \in Editions
      BY <2>1 DEF IsVerified, FilesVerify, InventoryVerifies
    <3>3. job.want \in Editions /\ job.build \in Builds
      BY <1>2 DEF CheckVersion, InstallInv, JobIsKnown, JobAt
    <3>4. vouched[job.build] => Here["natives"] = job.want
      BY <3>2, <3>3, Numbers DEF InstallInv, VouchedAgree, Here
    <3> QED
      BY <1>q, <3>1, <3>2, <3>4 DEF ReadyIsComplete, Here
  <2>2. CASE To("marking") \/ End("cancelled") \/ End("failed")
    BY <1>e, <1>t, <2>2 DEF Phases, Results
  <2> QED
    BY <1>2, <2>1, <2>2 DEF CheckVersion
<1>3. CASE MarkInstalling
  BY <1>3, <1>e, <1>t DEF MarkInstalling, Phases, Installing, Results
<1>4. CASE OnFiles
  <2>1. CASE job' = [job EXCEPT !.at = "placing", !.manifest = Here["json"]]
    BY <1>0, <1>n, <2>1 DEF Jobs
  <2> QED
    BY <1>4, <1>s, <1>t, <2>1 DEF OnFiles, SetJsonAside, PlaceJson, DownloadBase,
       BaseIsThere, DownloadObjects, ObjectsAreThere, BeginDownload, FinishDownload,
       Phases, Installing, Results
<1>5. CASE OnNatives
  BY <1>5, <1>s, <1>t DEF OnNatives, RecoverNatives, ExtractNatives,
     PersistInventory, SetNativesAside, PlaceNatives, RemoveNativesBackup,
     Phases, Installing, Results
<1>6. CASE MarkResult
  <2>1. CASE job.verdict = "verified" /\ End("ready")
    <3>1. disk' = disk /\ job'.want = job.want
      BY <1>0, <1>6, <2>1, Steps DEF MarkResult
    <3>2. /\ \A p \in {"json", "base", "objects"} : Here[p] = job.want
          /\ Here["natives"] = job.want
      BY <1>6, <2>1 DEF MarkResult, InstallInv, PartsAreThere, Finished
    <3>3. job.want \in Editions
      BY <1>6 DEF MarkResult, InstallInv, JobIsKnown, JobAt, Installing
    <3> QED
      BY <1>q, <3>1, <3>2, <3>3 DEF ReadyIsComplete, Here
  <2>2. CASE \E v \in Results : End(v)
    BY <1>e, <2>2
  <2>3. job.verdict \in Results
    BY <1>6 DEF MarkResult, InstallInv, JobIsKnown
  <2> QED
    BY <1>6, <2>1, <2>2, <2>3 DEF MarkResult, Results
<1> QED
  BY <1>1, <1>2, <1>3, <1>4, <1>5, <1>6, PhasesAreOneOf DEF BeforeChanges

-----------------------------------------------------------------------------
LEMMA InitEstablishes == InstallInit => InstallInv
<1> SUFFICES ASSUME InstallInit PROVE InstallInv
  OBVIOUS
<1>1. Idle \in Jobs /\ Idle.at = "idle" /\ Idle.verdict = "none"
  BY Numbers DEF Idle, Jobs, Phases, None
<1>2. disk \in [Builds -> Directories]
  BY Numbers DEF InstallInit, Directories
<1>3. InstallTypeOK
  BY <1>1, <1>2, Numbers DEF InstallInit, InstallTypeOK, Jobs, Directories, None
<1> QED
  BY <1>1, <1>3 DEF InstallInit, InstallInv, JobIsKnown, PartsAreThere, VouchedAgree,
     ReadyIsComplete, Ready, JobAt, Finished, Installing, AfterJson, AfterBase,
     AfterObjects

(* The steps that are not those of a preparation.                          *)
LEMMA OtherSteps ==
  ASSUME InstallInv,
         \/ Publish \/ DamagePart \/ EndProcess \/ BeginPreparation
         \/ CancelPreparation \/ UNCHANGED installVars
  PROVE  InstallInv'
<1> USE DEF InstallInv
<1>0. job \in Jobs /\ disk \in [Builds -> Directories] /\ vouched \in [Builds -> BOOLEAN]
      /\ published \in Editions
  BY DEF InstallTypeOK, Jobs, Directories
<1>n. MaxEdition \in Nat
  BY Numbers
<1>i. ASSUME job' \in Jobs, job'.at \in {"idle", "manifest"}, job'.verdict # "ready",
             job'.at = "manifest" => job'.build \in Builds,
             disk' \in [Builds -> Directories], published' \in Editions,
             UNCHANGED <<cached, marker, vouched>>,
             \A b \in Builds : \A p \in Parts :
               disk'[b][p] = disk[b][p] \/ disk'[b][p] = Damaged
      PROVE  InstallInv'
  <2>1. InstallTypeOK'
    BY <1>i DEF InstallTypeOK, Jobs, Directories
  <2>2. JobIsKnown' /\ PartsAreThere' /\ ReadyIsComplete'
    BY <1>i DEF JobIsKnown, PartsAreThere, ReadyIsComplete, Ready, JobAt, Finished,
       Installing, AfterJson, AfterBase, AfterObjects
  <2>3. VouchedAgree'
    <3>1. "json" \in Parts /\ "natives" \in Parts
      BY DEF Parts
    <3> QED
      BY <1>i, <3>1 DEF VouchedAgree, Installing
  <2> QED
    BY <2>1, <2>2, <2>3
<1>1. CASE Publish \/ UNCHANGED installVars
  <2>1. published' \in Editions /\ UNCHANGED <<cached, marker, disk, job, vouched>>
    BY <1>0, <1>1, <1>n DEF Publish, installVars, Editions
  <2> QED
    BY <2>1 DEF InstallTypeOK, JobIsKnown, PartsAreThere, VouchedAgree, ReadyIsComplete,
       Ready, JobAt, Finished, Here
<1>2. CASE DamagePart
  <2>1. PICK b \in Builds, p \in Parts : disk' = [disk EXCEPT ![b][p] = Damaged]
    BY <1>2 DEF DamagePart
  <2>2. Written(b, p, Damaged)
    BY <2>1 DEF Written
  <2>3. /\ disk' \in [Builds -> Directories]
        /\ \A c \in Builds : \A q \in Parts :
             disk'[c][q] = disk[c][q] \/ disk'[c][q] = Damaged
    BY <1>0, <2>2, OneWrite, Numbers
  <2>4. job' \in Jobs /\ job'.at = "idle" /\ job'.verdict = "none"
    BY <1>0, <1>2, Steps DEF DamagePart
  <2> QED
    BY <1>0, <1>2, <1>i, <2>3, <2>4 DEF DamagePart
<1>3. CASE EndProcess
  <2>1. job' \in Jobs /\ job'.at = "idle" /\ job'.verdict = "crashed"
    BY <1>0, <1>3, Numbers DEF EndProcess, Idle, Jobs, Phases, None
  <2> QED
    BY <1>0, <1>3, <1>i, <2>1 DEF EndProcess
<1>4. CASE BeginPreparation
  <2>1. PICK b \in Builds, asked \in BOOLEAN :
          job' = [Idle EXCEPT !.at = "manifest", !.build = b, !.asked = asked,
                              !.count = job.count + 1]
    BY <1>4 DEF BeginPreparation
  <2>2. job' \in Jobs /\ job'.at = "manifest" /\ job'.verdict = "none" /\ job'.build = b
    <3>1. Idle \in Jobs /\ Idle.verdict = "none"
      BY Numbers DEF Idle, Jobs, Phases, None
    <3>2. job.count + 1 \in Nat
      BY <1>0 DEF Jobs
    <3> HIDE DEF Idle
    <3> QED
      BY <2>1, <3>1, <3>2 DEF Jobs, Phases
  <2> QED
    BY <1>0, <1>4, <1>i, <2>2 DEF BeginPreparation
<1>5. CASE CancelPreparation
  <2>1. /\ job' \in Jobs /\ UNCHANGED <<published, cached, marker, disk, vouched>>
        /\ job'.at = job.at /\ job'.build = job.build /\ job'.want = job.want
        /\ job'.manifest = job.manifest /\ job'.verdict = job.verdict
    BY <1>0, <1>5 DEF CancelPreparation, Jobs
  <2>2. InstallTypeOK'
    BY <2>1 DEF InstallTypeOK, Jobs
  <2> QED
    BY <2>1, <2>2 DEF JobIsKnown, PartsAreThere, VouchedAgree, ReadyIsComplete,
       Ready, JobAt, Finished, Here
<1> QED
  BY <1>1, <1>2, <1>3, <1>4, <1>5

LEMMA TypeStep ==
  ASSUME InstallInv, PreparationStep
  PROVE  InstallTypeOK'
<1>0. InstallTypeOK /\ job \in Jobs
  BY DEF InstallInv, InstallTypeOK, Jobs
<1>1. job' \in Jobs /\ disk' \in [Builds -> Directories]
  BY JobStep, DiskStep
<1>2. cached' \in [{"manifest", "version"} -> 0..MaxEdition]
  <2>1. CASE FetchManifest
    BY <1>0, <2>1, Numbers DEF InstallTypeOK, FetchManifest, Save
  <2>2. CASE FetchVersion
    <3>1. job.manifest \in 0..MaxEdition
      BY <2>2, Numbers DEF FetchVersion, InstallInv, JobIsKnown
    <3> QED
      BY <1>0, <2>2, <3>1 DEF InstallTypeOK, FetchVersion, Save
  <2>3. CASE ~FetchManifest /\ ~FetchVersion
    <3>1. cached' = cached
      BY <2>3 DEF PreparationStep, CheckVersion, MarkInstalling, SetJsonAside,
         PlaceJson, DownloadBase, BaseIsThere, DownloadObjects, ObjectsAreThere,
         BeginDownload, FinishDownload, RecoverNatives, ExtractNatives,
         PersistInventory, SetNativesAside, PlaceNatives, RemoveNativesBackup,
         MarkResult
    <3> QED
      BY <1>0, <3>1 DEF InstallTypeOK
  <2> QED
    BY <2>1, <2>2, <2>3
<1>3. marker' \in {"none", "installing"} \cup Results /\ vouched' \in [Builds -> BOOLEAN]
      /\ published' \in Editions
  <2>1. CASE MarkInstalling
    BY <1>0, <2>1 DEF InstallTypeOK, MarkInstalling
  <2>2. CASE MarkResult
    BY <1>0, <2>2 DEF InstallTypeOK, MarkResult, InstallInv, JobIsKnown
  <2>3. CASE ~MarkInstalling /\ ~MarkResult
    <3>1. UNCHANGED <<marker, vouched, published>>
      BY <2>3 DEF PreparationStep, FetchManifest, FetchVersion, CheckVersion,
         SetJsonAside, PlaceJson, DownloadBase, BaseIsThere, DownloadObjects,
         ObjectsAreThere, BeginDownload, FinishDownload, RecoverNatives,
         ExtractNatives, PersistInventory, SetNativesAside, PlaceNatives,
         RemoveNativesBackup
    <3> QED
      BY <1>0, <3>1 DEF InstallTypeOK
  <2> QED
    BY <2>1, <2>2, <2>3
<1> QED
  BY <1>1, <1>2, <1>3 DEF InstallTypeOK, Jobs, Directories

-----------------------------------------------------------------------------
(* What a preparation has gone through stays as the metadata wants it, for *)
(* any builds and editions (install_resolved_with_progress).               *)
THEOREM InstallIsConsistent == InstallSpec => []InstallInv
<1>1. InstallInv /\ [InstallNext]_installVars => InstallInv'
  <2> SUFFICES ASSUME InstallInv, [InstallNext]_installVars
               PROVE  InstallInv'
    OBVIOUS
  <2>1. CASE PreparationStep
    BY <2>1, TypeStep, JobStep, PartsStep, VouchedStep, ReadyStep DEF InstallInv
  <2> QED
    BY <2>1, OtherSteps DEF InstallNext
<1> QED
  BY <1>1, InitEstablishes, PTL DEF InstallSpec

(* The state of the preparation and of the directories stays well formed.  *)
THEOREM InstallTypes == InstallSpec => []InstallTypeOK
<1>1. InstallInv => InstallTypeOK
  BY DEF InstallInv
<1> QED
  BY <1>1, InstallIsConsistent, PTL

(* A launch goes on only with a complete directory (is_verified_version,   *)
(* the marker that is withdrawn before the first change).                  *)
THEOREM ReadyVersionsAreComplete == InstallSpec => []ReadyIsComplete
<1>1. InstallInv => ReadyIsComplete
  BY DEF InstallInv
<1> QED
  BY <1>1, InstallIsConsistent, PTL

-----------------------------------------------------------------------------
(* A part that is as the metadata wants it is not taken away again.        *)
LEMMA PartsAreKept ==
  ASSUME InstallInv, PreparationStep, NEW b \in Builds,
         NEW p \in {"json", "base", "objects"}, disk[b][p] = job.want
  PROVE  disk'[b][p] = disk[b][p]
<1>0. disk \in [Builds -> Directories]
  BY DEF InstallInv, InstallTypeOK, Directories
<1>1. CASE b # job.build
  BY <1>1, DiskStep
<1>2. CASE b = job.build /\ ~OnFiles
  BY <1>2, DiskStep, PhasesAreOneOf DEF Kept, Here
<1>3. CASE b = job.build /\ OnFiles
  <2>0. job.want \in 0..Damaged /\ job.want # None /\ p \in Parts
    <3>1. job.at \in Installing
      BY <1>3 DEF OnFiles, SetJsonAside, PlaceJson, DownloadBase, BaseIsThere,
         DownloadObjects, ObjectsAreThere, BeginDownload, FinishDownload, JobAt, Installing
    <3> QED
      BY <3>1, Numbers DEF InstallInv, JobIsKnown, JobAt, Parts
  <2>1. \/ disk' = disk
        \/ \E q \in {"json", "base", "objects"} : Put(q, job.want)
        \/ \E q \in {"json", "base", "objects"} : q # p /\ Put(q, None)
        \/ p # "json" /\ Put("json", job.manifest)
    <3>1. CASE SetJsonAside
      BY <1>3, <3>1 DEF SetJsonAside, Here
    <3>2. CASE PlaceJson
      <4>1. p # "json"
        BY <1>3, <2>0, <3>2 DEF PlaceJson, InstallInv, PartsAreThere, Here
      <4>2. \/ disk' = disk \/ Put("json", job.want) \/ Put("json", job.manifest)
        BY <3>2 DEF PlaceJson, Put
      <4> QED
        BY <4>1, <4>2
    <3>3. CASE DownloadBase \/ DownloadObjects
      BY <1>3, <3>3 DEF DownloadBase, DownloadObjects, BeginDownload, Here
    <3>4. CASE BaseIsThere \/ ObjectsAreThere
      BY <3>4 DEF BaseIsThere, ObjectsAreThere, FinishDownload
    <3> QED
      BY <1>3, <3>1, <3>2, <3>3, <3>4 DEF OnFiles
  <2>2. ASSUME NEW q \in {"json", "base", "objects"}, NEW e \in 0..Damaged, Put(q, e),
               q = p => e = job.want
        PROVE  disk'[b][p] = disk[b][p]
    <3>1. Written(b, q, e) /\ q \in Parts
      BY <1>3, <2>2 DEF Put, Written, Parts
    <3>2. disk'[b][q] = e /\ \A r \in Parts : r # q => disk'[b][r] = disk[b][r]
      BY <1>0, <3>1, OneWrite
    <3> QED
      BY <2>0, <2>2, <3>2
  <2>3. job.manifest \in 0..Damaged /\ None \in 0..Damaged
    BY Numbers DEF InstallInv, InstallTypeOK
  <2> QED
    BY <2>0, <2>1, <2>2, <2>3
<1> QED
  BY <1>1, <1>2, <1>3

(* What a cancelled or failed installation has verified is found by the    *)
(* next one (persist_resolved_version, the downloads that skip what        *)
(* verifies already).                                                      *)
THEOREM VerifiedPartsAreKept == InstallSpec => VerifiedPartsStay
<1>1. InstallInv /\ [InstallNext]_installVars =>
        [\A b \in Builds : \A p \in {"json", "base", "objects"} :
           ~JobAt("idle") /\ disk[b][p] = job.want => disk'[b][p] = disk[b][p]]_installVars
  <2> SUFFICES ASSUME InstallInv, InstallNext, ~JobAt("idle"), NEW b \in Builds,
                      NEW p \in {"json", "base", "objects"}, disk[b][p] = job.want
               PROVE  disk'[b][p] = disk[b][p]
    OBVIOUS
  <2>1. CASE PreparationStep
    BY <2>1, PartsAreKept
  <2>2. CASE ~PreparationStep
    BY <2>2 DEF InstallNext, Publish, DamagePart, EndProcess, BeginPreparation,
       CancelPreparation
  <2> QED
    BY <2>1, <2>2
<1> QED
  BY <1>1, InstallIsConsistent, PTL DEF InstallSpec, VerifiedPartsStay

(* Neither rename of the natives loses the last directory.                 *)
LEMMA NativesStep ==
  ASSUME InstallInv, PreparationStep, NEW b \in Builds, HasNatives(b)
  PROVE  HasNatives(b)'
<1>0. disk \in [Builds -> Directories]
  BY DEF InstallInv, InstallTypeOK, Directories
<1>n. "natives" \in Parts /\ "backup" \in Parts /\ "natives" # "backup"
      /\ None \in 0..Damaged /\ Damaged \in 0..Damaged
  BY Numbers DEF Parts
<1>u. disk'[b] = disk[b] => HasNatives(b)'
  BY DEF HasNatives
<1>w. ASSUME NEW q \in Parts, NEW e \in 0..Damaged, Written(b, q, e),
             q = "natives" => e # None, q = "backup" => disk[b]["natives"] # None
      PROVE  HasNatives(b)'
  <2>1. disk'[b][q] = e /\ \A r \in Parts : r # q => disk'[b][r] = disk[b][r]
    BY <1>0, <1>w, OneWrite
  <2> QED
    BY <1>n, <1>w, <2>1 DEF HasNatives
<1>t. ASSUME NEW e \in 0..Damaged, NEW f \in 0..Damaged, e # None \/ f # None,
             disk' = [disk EXCEPT ![b]["backup"] = e, ![b]["natives"] = f]
      PROVE  HasNatives(b)'
  <2>1. NativesWritten(b, e, f)
    BY <1>t DEF NativesWritten
  <2> QED
    BY <1>0, <1>t, <2>1, TwoWrites DEF HasNatives
<1>1. CASE b # job.build \/ BeforeChanges \/ MarkResult
  BY <1>1, <1>u, DiskStep
<1>2. CASE b = job.build /\ OnFiles
  <2>1. \/ disk' = disk
        \/ \E p \in {"json", "base", "objects"} :
             Put(p, None) \/ Put(p, job.want) \/ Put(p, job.manifest)
    BY <1>2 DEF OnFiles, SetJsonAside, PlaceJson, DownloadBase, BaseIsThere,
       DownloadObjects, ObjectsAreThere, BeginDownload, FinishDownload, Put
  <2>2. job.want \in 0..Damaged /\ job.manifest \in 0..Damaged
    BY Numbers DEF InstallInv, InstallTypeOK
  <2>3. \A p \in {"json", "base", "objects"} : p \in Parts /\ p # "natives" /\ p # "backup"
    BY DEF Parts
  <2>4. \A p, e : Put(p, e) => Written(b, p, e)
    BY <1>2 DEF Put, Written
  <2> QED
    BY <1>n, <1>u, <1>w, <2>1, <2>2, <2>3, <2>4
<1>3. CASE b = job.build /\ OnNatives
  <2>0. /\ job.want \in 0..Damaged /\ job.want # None
        /\ disk[b]["natives"] \in 0..Damaged /\ disk[b]["backup"] \in 0..Damaged
    <3>1. job.at \in Installing
      BY <1>3 DEF OnNatives, RecoverNatives, ExtractNatives, PersistInventory,
         SetNativesAside, PlaceNatives, RemoveNativesBackup, JobAt, Installing
    <3>2. disk[b] \in Directories
      BY <1>0
    <3> QED
      BY <1>n, <3>1, <3>2, Numbers DEF InstallInv, JobIsKnown, JobAt, Directories
  <2>p. \A p, e : Put(p, e) => Written(b, p, e)
    BY <1>3 DEF Put, Written
  <2>1. CASE RecoverNatives
    <3>1. \/ disk' = disk
          \/ disk[b]["natives"] # None /\ Put("backup", Damaged)
          \/ disk' = [disk EXCEPT ![b]["backup"] = None,
               ![b]["natives"] = IF disk[b]["natives"] = None THEN disk[b]["backup"]
                                 ELSE disk[b]["natives"]]
      BY <1>3, <2>1 DEF RecoverNatives, BackupHalfRemoved, Here
    <3>2. ASSUME NEW f, f = IF disk[b]["natives"] = None THEN disk[b]["backup"]
                            ELSE disk[b]["natives"]
          PROVE  f \in 0..Damaged /\ f # None
      BY <2>0, <3>2 DEF HasNatives
    <3> QED
      BY <1>n, <1>t, <1>u, <1>w, <2>p, <3>1, <3>2
  <2>2. CASE ExtractNatives \/ PersistInventory
    BY <1>u, <2>2 DEF ExtractNatives, PersistInventory
  <2>3. CASE SetNativesAside
    <3>1. disk[b]["natives"] # None
      BY <1>3, <2>3 DEF SetNativesAside, InstallInv, PartsAreThere, JobAt, HasNatives, Here
    <3>2. \/ disk' = disk
          \/ disk' = [disk EXCEPT ![b]["backup"] = disk[b]["natives"],
                                  ![b]["natives"] = None]
      BY <1>3, <2>3 DEF SetNativesAside, Here
    <3> QED
      BY <1>n, <1>t, <1>u, <2>0, <3>1, <3>2
  <2>4. CASE PlaceNatives
    <3>1. \/ Put("natives", job.want) \/ disk' = disk
          \/ disk' = [disk EXCEPT ![b]["natives"] = disk[b]["backup"],
                                  ![b]["backup"] = None]
      BY <1>3, <2>4 DEF PlaceNatives, Here
    <3>2. CASE disk' = [disk EXCEPT ![b]["natives"] = disk[b]["backup"],
                                    ![b]["backup"] = None]
      <4>1. disk' = [disk EXCEPT ![b]["backup"] = None,
                                 ![b]["natives"] = disk[b]["backup"]]
        BY <3>2
      <4>2. disk[b]["backup"] # None
        BY <1>3, <2>4 DEF PlaceNatives, InstallInv, PartsAreThere, HasNatives, Here
      <4> QED
        BY <1>n, <1>t, <2>0, <4>1, <4>2
    <3> QED
      BY <1>n, <1>u, <1>w, <2>0, <2>p, <3>1, <3>2
  <2>5. CASE RemoveNativesBackup
    <3>1. disk[b]["natives"] # None
      BY <1>3, <2>0, <2>5 DEF RemoveNativesBackup, InstallInv, PartsAreThere, Here
    <3>2. disk' = disk \/ Put("backup", None) \/ Put("backup", Damaged)
      BY <2>5 DEF RemoveNativesBackup, BackupHalfRemoved
    <3> QED
      BY <1>n, <1>u, <1>w, <2>p, <3>1, <3>2
  <2> QED
    BY <1>3, <2>1, <2>2, <2>3, <2>4, <2>5 DEF OnNatives
<1> QED
  BY <1>1, <1>2, <1>3, PhasesAreOneOf

(* No step of an installation destroys the last directory of natives       *)
(* (recover_interrupted, activate_staging_with_cleanup).                   *)
THEOREM NativesAreNeverLost == InstallSpec => NativesAreKept
<1>1. InstallInv /\ [InstallNext]_installVars =>
        [~JobAt("idle") => \A b \in Builds : HasNatives(b) => HasNatives(b)']_installVars
  <2> SUFFICES ASSUME InstallInv, InstallNext, ~JobAt("idle"), NEW b \in Builds,
                      HasNatives(b)
               PROVE  HasNatives(b)'
    OBVIOUS
  <2>1. CASE PreparationStep
    BY <2>1, NativesStep
  <2>2. CASE ~PreparationStep
    BY <2>2 DEF InstallNext, Publish, DamagePart, EndProcess, BeginPreparation,
       CancelPreparation, HasNatives
  <2> QED
    BY <2>1, <2>2
<1> QED
  BY <1>1, InstallIsConsistent, PTL DEF InstallSpec, NativesAreKept
=============================================================================
