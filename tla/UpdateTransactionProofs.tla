---------------------- MODULE UpdateTransactionProofs ----------------------
(***************************************************************************)
(* Proofs about UpdateTransaction, for any updaters and any package.       *)
(*                                                                         *)
(* The argument: the mutex makes the installation the property of one      *)
(* updater at a time.  While it works, every file of the package is either *)
(* as it was found, or has an entry in the journal from which it can be    *)
(* put back; the position of the updater tells which.                      *)
(***************************************************************************)
EXTENDS UpdateTransaction, TLAPS

Contents == Updaters \cup {Old, Missing}
Entries == [previous : BOOLEAN, installed : BOOLEAN]
Positions == 1..Len(Package)
States == [at : Phases, next : 0..Len(Package), failed : BOOLEAN, sound : BOOLEAN]

(* Phases that hold the mutex, and those before the first change.          *)
Working == {"waiting", "preparing", "replacing", "installing", "undoing",
            "restoring"}
Early == {"asked", "downloaded", "verified", "extracted", "starting",
          "refused", "waiting", "preparing"}

(* File i has not been touched, or has been put back.                      *)
AsFound(u, i) ==
  /\ target[Package[i]] = before[u][Package[i]]
  /\ backups[u][Package[i]] = Missing

(* Its entry in the journal is enough to put it back,                      *)
CanBePutBack(u, i) ==
  /\ changes[u][i].previous <=> before[u][Package[i]] # Missing
  /\ backups[u][Package[i]] = before[u][Package[i]]

(* and tells what is in its place.                                         *)
IsInPlace(u, i) ==
  target[Package[i]] = IF changes[u][i].installed THEN u ELSE Missing

HoldsLock(u) == updater[u].at \in Working => lock = u

IsSigned(u) ==
  updater[u].at \in {"verified", "extracted", "starting", "installed"} \cup Working
    => updater[u].sound

IsUnused(u) ==
  updater[u].at \in Early =>
    /\ updater[u].next = 1 /\ ~updater[u].failed
    /\ changes[u] = <<>>
    /\ backups[u] = Nothing

IsReplacing(u) ==
  updater[u].at \in {"replacing", "installing"} =>
    /\ updater[u].next \in Positions /\ ~updater[u].failed
    /\ Len(changes[u]) = IF At(u, "replacing") THEN updater[u].next - 1
                                               ELSE updater[u].next
    /\ \A i \in 1..Len(changes[u]) :
         /\ CanBePutBack(u, i) /\ IsInPlace(u, i)
         /\ changes[u][i].installed <=> i < updater[u].next
    /\ \A i \in Positions : i > Len(changes[u]) => AsFound(u, i)

IsUndoing(u) ==
  updater[u].at \in {"undoing", "restoring"} =>
    /\ Len(changes[u]) <= Len(Package)
    /\ updater[u].next <= Len(changes[u])
    /\ At(u, "restoring") => updater[u].next > 0
    /\ \A i \in 1..updater[u].next :
         /\ CanBePutBack(u, i)
         /\ IF At(u, "restoring") /\ i = updater[u].next
            THEN target[Package[i]] = Missing
            ELSE IsInPlace(u, i)
    /\ ~updater[u].failed =>
         \A i \in Positions : i > updater[u].next => AsFound(u, i)

HasEnded(u) ==
  /\ At(u, "installed") /\ lock = u => \A f \in Files : target[f] = u
  /\ At(u, "restored") => backups[u] = Nothing
  /\ At(u, "restored") /\ lock = u => target = before[u]

IsConsistent(u) ==
  HoldsLock(u) /\ IsSigned(u) /\ IsUnused(u) /\ IsReplacing(u) /\ IsUndoing(u)
    /\ HasEnded(u)

(* An update has succeeded once its updater has left; until then the old   *)
(* files are kept.  This is stronger than OldFilesArePreserved: an updater *)
(* may still die between the last file and its leave.                      *)
HasSucceeded(u) == At(u, "installed") /\ lock # u
OldFilesAreSomewhere ==
  (\A u \in Updaters : ~HasSucceeded(u)) =>
    \A f \in OldFiles :
      target[f] = Old \/ \E u \in Updaters : backups[u][f] = Old

UpdateInv ==
  /\ UpdateTypeOK
  /\ \A u \in Updaters : IsConsistent(u)
  /\ OldFilesAreSomewhere

-----------------------------------------------------------------------------
(* The files are those at the positions of the package, each at one.       *)
LEMMA PackageFacts ==
  /\ Len(Package) \in Nat \ {0}
  /\ DOMAIN Package = Positions
  /\ \A i \in Positions : Package[i] \in Files
  /\ \A f \in Files : \E i \in Positions : f = Package[i]
  /\ \A i, j \in Positions : Package[i] = Package[j] => i = j
  /\ OldFiles \subseteq Files
<1>1. /\ Package \in Seq(Files)
      /\ Len(Package) > 0
      /\ OldFiles \subseteq Files
  BY UpdateAssumption DEF Files
<1>2. DOMAIN Package = Positions /\ Len(Package) \in Nat
  BY <1>1 DEF Positions
<1>3. \A i, j \in Positions : Package[i] = Package[j] => i = j
  BY <1>2, UpdateAssumption DEF IsInjective
<1> QED
  BY <1>1, <1>2, <1>3 DEF Files, ToSet

(* An updater that is moved, or told something, is still well formed.      *)
LEMMA StateMoves ==
  ASSUME NEW s \in States, NEW at \in Phases, NEW next \in 0..Len(Package),
         NEW failed \in BOOLEAN
  PROVE  /\ [s EXCEPT !.at = at] \in States
         /\ [s EXCEPT !.at = at, !.sound = failed] \in States
         /\ [s EXCEPT !.at = at, !.next = next] \in States
         /\ [s EXCEPT !.at = at, !.next = next, !.failed = failed] \in States
BY DEF States

LEMMA MovesAreTyped ==
  ASSUME updater \in [Updaters -> States], NEW u \in Updaters,
         NEW phase \in Phases, MoveTo(u, phase)
  PROVE  updater' \in [Updaters -> States]
<1>1. [updater[u] EXCEPT !.at = phase] \in States
  BY DEF States
<1> QED
  BY <1>1 DEF MoveTo

LEMMA UndosAreTyped ==
  ASSUME updater \in [Updaters -> States], NEW u \in Updaters,
         NEW failed \in BOOLEAN, NextUndo(u, failed),
         updater[u].next \in Positions
  PROVE  updater' \in [Updaters -> States]
<1>1. "undoing" \in Phases /\ updater[u] \in States
  BY DEF Phases
<1>2. updater[u].next - 1 \in 0..Len(Package)
  BY PackageFacts DEF Positions
<1>3. (updater[u].failed \/ failed) \in BOOLEAN
  BY <1>1 DEF States
<1>4. [updater[u] EXCEPT !.at = "undoing", !.next = updater[u].next - 1,
                         !.failed = updater[u].failed \/ failed] \in States
  BY <1>1, <1>2, <1>3, StateMoves
<1> QED
  BY <1>4 DEF NextUndo

(* Steps that only move the updater, or give back what it holds.           *)
IsQuiet(u) ==
  \/ Download(u) \/ Verify(u) \/ Extract(u) \/ StartUpdater(u) \/ HandOverFails(u)
  \/ TakeLock(u) \/ WaitSucceeds(u) \/ WaitFails(u)
  \/ Prepare(u) \/ PrepareFails(u) \/ Crash(u)

LEMMA TypeStep ==
  ASSUME UpdateTypeOK, \A u \in Updaters : IsConsistent(u), [UpdateNext]_updateVars
  PROVE  UpdateTypeOK'
<1>0. /\ updater \in [Updaters -> States]
      /\ changes \in [Updaters -> Seq(Entries)]
      /\ target \in [Files -> Contents]
      /\ backups \in [Updaters -> [Files -> Contents]]
      /\ UpdateTypeOK
  BY DEF UpdateTypeOK, States, Entries, Contents
<1>t. ASSUME /\ launcher' \in [Updaters -> BOOLEAN]
             /\ updater' \in [Updaters -> States]
             /\ lock' \in Updaters \cup {NoUpdater}
             /\ target' \in [Files -> Contents]
             /\ backups' \in [Updaters -> [Files -> Contents]]
             /\ changes' \in [Updaters -> Seq(Entries)]
             /\ before' \in [Updaters -> [Files -> Contents]]
      PROVE  UpdateTypeOK'
  BY <1>t DEF UpdateTypeOK, States, Entries, Contents
<1> HIDE DEF States, Entries, Contents, UpdateTypeOK
<1>1. ASSUME NEW u \in Updaters, IsQuiet(u)
      PROVE  UpdateTypeOK'
  <2>1. updater' \in [Updaters -> States]
    <3>1. CASE Download(u)
      <4>1. PICK sound \in BOOLEAN :
              updater' = [updater EXCEPT ![u].at = "downloaded", ![u].sound = sound]
        BY <3>1 DEF Download
      <4>2. [updater[u] EXCEPT !.at = "downloaded", !.sound = sound] \in States
        BY <1>0 DEF States, Phases
      <4> QED
        BY <1>0, <4>1, <4>2
    <3>2. CASE \E phase \in Phases : MoveTo(u, phase)
      BY <1>0, <3>2, MovesAreTyped
    <3> QED
      BY <1>1, <3>1, <3>2 DEF IsQuiet, Verify, Extract, StartUpdater, Prepares,
         HandOverFails, TakeLock, WaitSucceeds, WaitFails, Prepare, PrepareFails,
         Crash, Unlock, Phases
  <2>2. /\ launcher' = launcher /\ lock' \in {lock, u, NoUpdater}
        /\ target' = target /\ backups' = backups /\ changes' = changes
        /\ before' \in {before, [before EXCEPT ![u] = target]}
    BY <1>1 DEF IsQuiet, Download, Verify, Extract, StartUpdater, Prepares,
       HandOverFails, TakeLock, WaitSucceeds, WaitFails, Prepare, PrepareFails,
       Crash, Unlock
  <2>3. before' \in [Updaters -> [Files -> Contents]]
    BY <1>0, <2>2 DEF UpdateTypeOK, Contents
  <2> QED
    BY <1>0, <1>t, <2>1, <2>2, <2>3 DEF UpdateTypeOK
<1>2. ASSUME NEW u \in Updaters, updater[u].at \in {"replacing", "installing"}
      PROVE  /\ updater[u].next \in Positions /\ Current(u) \in Files
             /\ Len(changes[u]) \in 0..Len(Package)
             /\ At(u, "installing") => updater[u].next \in DOMAIN changes[u]
  <2>1. IsReplacing(u)
    BY <1>2 DEF IsConsistent
  <2>2. changes[u] \in Seq(Entries)
    BY <1>0
  <2>3. Len(changes[u]) \in Nat /\ DOMAIN changes[u] = 1..Len(changes[u])
    BY <2>2
  <2> QED
    BY <1>2, <2>1, <2>3, PackageFacts DEF IsReplacing, Current, Positions, At
<1>3. ASSUME NEW u \in Updaters, updater[u].at \in {"undoing", "restoring"},
             At(u, "restoring") \/ updater[u].next > 0
      PROVE  updater[u].next \in Positions /\ Current(u) \in Files
  <2>1. IsUndoing(u)
    BY <1>3 DEF IsConsistent
  <2>2. updater[u].next \in 0..Len(Package)
    BY <1>0 DEF States
  <2> QED
    BY <1>3, <2>1, <2>2, PackageFacts DEF IsUndoing, Current, Positions, At
<1>4. ASSUME NEW u \in Updaters, BackUp(u)
      PROVE  UpdateTypeOK'
  <2>1. Current(u) \in Files
    BY <1>2, <1>4 DEF BackUp, At
  <2>2. [previous |-> target[Current(u)] # Missing, installed |-> FALSE] \in Entries
    BY DEF Entries
  <2>3. changes' \in [Updaters -> Seq(Entries)]
    BY <1>0, <1>4, <2>2 DEF BackUp
  <2>4. updater' \in [Updaters -> States]
    BY <1>0, <1>4, MovesAreTyped DEF BackUp, Phases
  <2>5. target[Current(u)] \in Contents /\ Missing \in Contents
    BY <1>0, <2>1 DEF Contents
  <2>6. /\ target' \in [Files -> Contents]
        /\ backups' \in [Updaters -> [Files -> Contents]]
    BY <1>0, <1>4, <2>1, <2>5 DEF BackUp
  <2>7. UNCHANGED <<launcher, lock, before>>
    BY <1>4 DEF BackUp
  <2> QED
    BY <1>0, <1>t, <2>3, <2>4, <2>6, <2>7 DEF UpdateTypeOK, Contents
<1>5. ASSUME NEW u \in Updaters, Install(u)
      PROVE  UpdateTypeOK'
  <2>1. /\ Current(u) \in Files /\ updater[u].next \in Positions
        /\ updater[u].next \in DOMAIN changes[u]
    BY <1>2, <1>5 DEF Install, At
  <2>2. changes' \in [Updaters -> Seq(Entries)]
    <3>1. /\ changes[u] \in Seq(Entries)
          /\ changes[u][updater[u].next] \in Entries
      BY <1>0, <2>1
    <3>2. [changes[u][updater[u].next] EXCEPT !.installed = TRUE] \in Entries
      BY <3>1 DEF Entries
    <3>3. [changes[u] EXCEPT ![updater[u].next] =
             [changes[u][updater[u].next] EXCEPT !.installed = TRUE]] \in Seq(Entries)
      BY <2>1, <3>1, <3>2
    <3> QED
      BY <1>0, <1>5, <3>3 DEF Install
  <2>3. updater' \in [Updaters -> States]
    <3>1. CASE updater[u].next = Len(Package)
      <4>1. [updater[u] EXCEPT !.at = "installed"] \in States
        BY <1>0 DEF States, Phases
      <4> QED
        BY <1>0, <1>5, <3>1, <4>1 DEF Install
    <3>2. CASE updater[u].next # Len(Package)
      <4>1. updater[u].next + 1 \in 0..Len(Package)
        BY <2>1, <3>2, PackageFacts DEF Positions
      <4>2. [updater[u] EXCEPT !.at = "replacing", !.next = updater[u].next + 1]
              \in States
        BY <1>0, <4>1, StateMoves DEF Phases
      <4> QED
        BY <1>0, <1>5, <3>2, <4>2 DEF Install
    <3> QED
      BY <3>1, <3>2
  <2>4. target' \in [Files -> Contents]
    BY <1>0, <1>5, <2>1 DEF Install, Contents
  <2>5. UNCHANGED <<launcher, lock, backups, before>>
    BY <1>5 DEF Install
  <2> QED
    BY <1>0, <1>t, <2>2, <2>3, <2>4, <2>5 DEF UpdateTypeOK, Contents
<1>6. ASSUME NEW u \in Updaters, ReplaceFails(u) \/ EndRollback(u) \/ Leave(u)
      PROVE  UpdateTypeOK'
  <2>1. CASE ReplaceFails(u)
    <3>1. Len(changes[u]) \in 0..Len(Package)
      BY <1>2, <2>1 DEF ReplaceFails
    <3>2. [updater[u] EXCEPT !.at = "undoing", !.next = Len(changes[u])] \in States
      BY <1>0, <3>1, StateMoves DEF Phases
    <3>3. updater' \in [Updaters -> States]
      BY <1>0, <2>1, <3>2 DEF ReplaceFails
    <3> QED
      BY <1>0, <1>t, <2>1, <3>3 DEF ReplaceFails, UpdateTypeOK, Contents
  <2>2. CASE EndRollback(u)
    <3>1. updater' \in [Updaters -> States]
      BY <1>0, <2>2, MovesAreTyped DEF EndRollback, Phases
    <3> QED
      BY <1>0, <1>t, <2>2, <3>1 DEF EndRollback, UpdateTypeOK, Contents
  <2>3. CASE Leave(u)
    BY <1>0, <2>3 DEF Leave, Nothing, UpdateTypeOK
  <2> QED
    BY <1>6, <2>1, <2>2, <2>3
<1>7. ASSUME NEW u \in Updaters, RemoveInstalled(u) \/ RestoreBackup(u) \/ UndoFails(u)
      PROVE  UpdateTypeOK'
  <2>1. updater[u].next \in Positions /\ Current(u) \in Files
    BY <1>3, <1>7 DEF RemoveInstalled, RestoreBackup, UndoFails, At
  <2>2. Missing \in Contents /\ backups[u][Current(u)] \in Contents
    BY <1>0, <2>1 DEF Contents
  <2>3. updater' \in [Updaters -> States]
    BY <1>0, <1>7, <2>1, MovesAreTyped, UndosAreTyped
       DEF RemoveInstalled, RestoreBackup, UndoFails, Phases
  <2>4. /\ target' \in [Files -> Contents]
        /\ backups' \in [Updaters -> [Files -> Contents]]
    <3>1. CASE RemoveInstalled(u)
      BY <1>0, <2>1, <2>2, <3>1 DEF RemoveInstalled
    <3>2. CASE RestoreBackup(u)
      <4>1. CASE changes[u][updater[u].next].previous
        <5>1. /\ target' = [target EXCEPT ![Current(u)] = backups[u][Current(u)]]
              /\ backups' = [backups EXCEPT ![u][Current(u)] = Missing]
          BY <3>2, <4>1 DEF RestoreBackup
        <5>2. target' \in [Files -> Contents]
          BY <1>0, <2>1, <2>2, <5>1
        <5>3. backups' \in [Updaters -> [Files -> Contents]]
          BY <1>0, <2>1, <2>2, <5>1
        <5> QED
          BY <5>2, <5>3
      <4>2. CASE ~changes[u][updater[u].next].previous
        BY <1>0, <3>2, <4>2 DEF RestoreBackup
      <4> QED
        BY <4>1, <4>2
    <3>3. CASE UndoFails(u)
      BY <1>0, <3>3 DEF UndoFails
    <3> QED
      BY <1>7, <3>1, <3>2, <3>3
  <2>5. UNCHANGED <<launcher, lock, changes, before>>
    BY <1>7 DEF RemoveInstalled, RestoreBackup, UndoFails
  <2> QED
    BY <1>0, <1>t, <2>3, <2>4, <2>5 DEF UpdateTypeOK, Contents
<1>8. CASE \E u \in Updaters : LauncherExits(u)
  BY <1>0, <1>8 DEF LauncherExits, UpdateTypeOK
<1>9. CASE UNCHANGED updateVars
  BY <1>0, <1>9 DEF updateVars, UpdateTypeOK
<1> QED
  BY <1>1, <1>4, <1>5, <1>6, <1>7, <1>8, <1>9 DEF UpdateNext, UpdaterStep, IsQuiet

-----------------------------------------------------------------------------
(* The mutex: nobody touches the installation or the state of another.     *)
LEMMA OthersKeep ==
  ASSUME UpdateTypeOK, \A w \in Updaters : IsConsistent(w),
         NEW u \in Updaters, UpdaterStep(u) \/ Crash(u),
         NEW v \in Updaters, u # v
  PROVE  /\ updater'[v] = updater[v] /\ changes'[v] = changes[v]
         /\ backups'[v] = backups[v] /\ before'[v] = before[v]
         /\ lock' = v <=> lock = v
         /\ lock = v => target' = target
<1>0. /\ updater \in [Updaters -> States]
      /\ changes \in [Updaters -> Seq(Entries)]
      /\ backups \in [Updaters -> [Files -> Contents]]
      /\ before \in [Updaters -> [Files -> Contents]]
      /\ NoUpdater \notin Updaters
  BY UpdateAssumption DEF UpdateTypeOK, States, Entries, Contents
<1>1. updater[u].at \in Working => lock = u
  BY DEF IsConsistent, HoldsLock
<1>2. CASE Download(u) \/ Verify(u) \/ Extract(u) \/ StartUpdater(u)
           \/ HandOverFails(u) \/ WaitSucceeds(u) \/ Prepare(u)
  BY <1>0, <1>2 DEF Download, Verify, Extract, StartUpdater, Prepares,
     HandOverFails, WaitSucceeds, Prepare, MoveTo
<1>3. CASE TakeLock(u)
  BY <1>0, <1>3 DEF TakeLock, MoveTo
<1>4. CASE WaitFails(u) \/ PrepareFails(u) \/ Crash(u)
  BY <1>0, <1>1, <1>4 DEF WaitFails, PrepareFails, Crash, Unlock, MoveTo, At, Working
<1>5. CASE BackUp(u)
  BY <1>0, <1>1, <1>5 DEF BackUp, MoveTo, At, Working
<1>6. CASE Install(u)
  BY <1>0, <1>1, <1>6 DEF Install, At, Working
<1>7. CASE ReplaceFails(u) \/ EndRollback(u)
  BY <1>0, <1>7 DEF ReplaceFails, EndRollback, MoveTo
<1>8. CASE RemoveInstalled(u)
  BY <1>0, <1>1, <1>8 DEF RemoveInstalled, MoveTo, At, Working
<1>9. CASE RestoreBackup(u) \/ UndoFails(u)
  BY <1>0, <1>1, <1>9 DEF RestoreBackup, UndoFails, NextUndo, At, Working
<1>10. CASE Leave(u)
  BY <1>0, <1>10 DEF Leave
<1> QED
  BY <1>2, <1>3, <1>4, <1>5, <1>6, <1>7, <1>8, <1>9, <1>10 DEF UpdaterStep

LEMMA OthersStay ==
  ASSUME NEW v \in Updaters, IsConsistent(v),
         updater'[v] = updater[v], changes'[v] = changes[v],
         backups'[v] = backups[v], before'[v] = before[v],
         lock' = v <=> lock = v, lock = v => target' = target
  PROVE  IsConsistent(v)'
<1>1. HoldsLock(v)' /\ IsSigned(v)' /\ IsUnused(v)'
  BY DEF IsConsistent, HoldsLock, IsSigned, IsUnused
<1>2. HasEnded(v)'
  BY DEF IsConsistent, HasEnded, At
<1>3. updater[v].at \in Working => target' = target
  BY DEF IsConsistent, HoldsLock
<1>4. IsReplacing(v)'
  BY <1>3 DEF IsConsistent, IsReplacing, CanBePutBack, IsInPlace, AsFound, At, Working
<1>5. IsUndoing(v)'
  BY <1>3 DEF IsConsistent, IsUndoing, CanBePutBack, IsInPlace, AsFound, At, Working
<1> QED
  BY <1>1, <1>2, <1>4, <1>5 DEF IsConsistent

-----------------------------------------------------------------------------
(* What each step means for the updater that takes it.                     *)
LEMMA QuietStep ==
  ASSUME UpdateTypeOK, NEW u \in Updaters, IsConsistent(u), IsQuiet(u)
  PROVE  IsConsistent(u)'
<1>0. /\ updater \in [Updaters -> States]
      /\ before \in [Updaters -> [Files -> Contents]]
      /\ target \in [Files -> Contents]
  BY DEF UpdateTypeOK, States, Contents
<1> USE DEF IsConsistent
(* Before the hand-over nothing has been touched.                          *)
<1>1. CASE Download(u) \/ Verify(u) \/ Extract(u) \/ StartUpdater(u) \/ HandOverFails(u)
  <2>1. /\ updater[u].at \in {"asked", "downloaded", "verified", "extracted"}
        /\ updater'[u].at \in {"downloaded", "verified", "extracted", "starting", "refused"}
        /\ updater'[u].next = updater[u].next /\ updater'[u].failed = updater[u].failed
        /\ updater'[u].at \in {"verified", "extracted", "starting"} => updater'[u].sound
        /\ changes' = changes /\ backups' = backups
    BY <1>0, <1>1 DEF Download, Verify, Extract, StartUpdater, Prepares,
       HandOverFails, MoveTo, At, IsSigned, States
  <2> QED
    BY <2>1 DEF HoldsLock, IsSigned, IsUnused, IsReplacing, IsUndoing, HasEnded,
       At, Early, Working
<1>2. CASE TakeLock(u) \/ WaitSucceeds(u) \/ WaitFails(u) \/ PrepareFails(u)
  <2>1. /\ updater[u].at \in {"starting", "waiting", "preparing"}
        /\ updater'[u].at \in {"waiting", "preparing", "refused"}
        /\ updater'[u].at # "refused" => lock' = u
        /\ updater'[u].next = updater[u].next /\ updater'[u].failed = updater[u].failed
        /\ updater'[u].sound = updater[u].sound
        /\ changes' = changes /\ backups' = backups
    BY <1>0, <1>2 DEF TakeLock, WaitSucceeds, WaitFails, PrepareFails, Unlock,
       MoveTo, At, HoldsLock, Working, States
  <2> QED
    BY <2>1 DEF HoldsLock, IsSigned, IsUnused, IsReplacing, IsUndoing, HasEnded,
       At, Early, Working
<1>3. CASE Prepare(u)
  <2>1. /\ updater[u].at = "preparing" /\ updater'[u].at = "replacing"
        /\ updater'[u].next = updater[u].next /\ updater'[u].failed = updater[u].failed
        /\ updater'[u].sound = updater[u].sound
        /\ changes' = changes /\ backups' = backups /\ lock' = lock
        /\ target' = target /\ before'[u] = target
    BY <1>0, <1>3 DEF Prepare, MoveTo, At, States
  <2>2. updater[u].next = 1 /\ ~updater[u].failed /\ changes[u] = <<>> /\ backups[u] = Nothing
    BY <2>1 DEF IsUnused, Early
  <2>3. HoldsLock(u)' /\ IsSigned(u)' /\ IsUnused(u)' /\ HasEnded(u)' /\ IsUndoing(u)'
    BY <2>1 DEF HoldsLock, IsSigned, IsUnused, HasEnded, IsUndoing, At, Early, Working
  <2>4. \A i \in Positions : AsFound(u, i)'
    BY <2>1, <2>2, PackageFacts DEF AsFound, Nothing
  <2>5. Len(changes'[u]) = 0 /\ 1..0 = {}
    BY <2>1, <2>2
  <2>6. IsReplacing(u)'
    BY <2>1, <2>2, <2>4, <2>5, PackageFacts DEF IsReplacing, At, Positions
  <2> QED
    BY <2>3, <2>6
<1>4. CASE Crash(u)
  <2>1. updater'[u].at = "crashed"
    BY <1>0, <1>4 DEF Crash, Unlock, MoveTo, States
  <2> QED
    BY <2>1 DEF HoldsLock, IsSigned, IsUnused, IsReplacing, IsUndoing, HasEnded,
       At, Early, Working
<1> QED
  BY <1>1, <1>2, <1>3, <1>4 DEF IsQuiet

LEMMA BackUpStep ==
  ASSUME UpdateTypeOK, NEW u \in Updaters, IsConsistent(u), BackUp(u)
  PROVE  IsConsistent(u)'
<1> SUFFICES ASSUME NEW n, n = updater[u].next
             PROVE  IsConsistent(u)'
  OBVIOUS
<1> DEFINE entry == [previous |-> target[Current(u)] # Missing, installed |-> FALSE]
<1>0. /\ updater \in [Updaters -> States]
      /\ changes[u] \in Seq(Entries) /\ changes \in [Updaters -> Seq(Entries)]
      /\ backups \in [Updaters -> [Files -> Contents]]
      /\ target \in [Files -> Contents]
  BY DEF UpdateTypeOK, States, Entries, Contents
<1>1. /\ updater[u].at = "replacing" /\ updater'[u].at = "installing"
      /\ updater'[u].next = n /\ updater'[u].failed = updater[u].failed
      /\ updater'[u].sound = updater[u].sound
      /\ changes'[u] = Append(changes[u], entry)
      /\ lock' = lock /\ before' = before
  BY <1>0 DEF BackUp, MoveTo, At, States
<1>2. /\ n \in Positions /\ ~updater[u].failed /\ Len(changes[u]) = n - 1
      /\ \A i \in 1..(n - 1) : /\ CanBePutBack(u, i) /\ IsInPlace(u, i)
                             /\ changes[u][i].installed <=> i < n
      /\ \A i \in Positions : i > n - 1 => AsFound(u, i)
  BY <1>1 DEF IsConsistent, IsReplacing, At
<1>3. /\ target'[Package[n]] = Missing
      /\ backups'[u][Package[n]] = target[Package[n]]
      /\ \A f \in Files \ {Package[n]} :
           target'[f] = target[f] /\ backups'[u][f] = backups[u][f]
  BY <1>0, <1>2, PackageFacts DEF BackUp, Current
<1>4. \A i \in Positions \ {n} :
        /\ Package[i] \in Files \ {Package[n]}
        /\ target'[Package[i]] = target[Package[i]]
        /\ backups'[u][Package[i]] = backups[u][Package[i]]
  BY <1>2, <1>3, PackageFacts
<1>5. /\ entry \in Entries
      /\ Len(changes'[u]) = n /\ changes'[u][n] = entry
      /\ \A i \in 1..(n - 1) : changes'[u][i] = changes[u][i]
  <2>1. entry \in Entries /\ n \in Nat
    BY <1>2 DEF Entries, Positions
  <2> HIDE DEF entry
  <2> QED
    BY <1>0, <1>1, <1>2, <2>1
<1>6. CanBePutBack(u, n)' /\ IsInPlace(u, n)' /\ ~changes'[u][n].installed
  <2>1. /\ target[Package[n]] = before[u][Package[n]]
        /\ backups'[u][Package[n]] = before'[u][Package[n]]
    BY <1>1, <1>2, <1>3 DEF AsFound, Positions
  <2>2. /\ changes'[u][n].previous <=> target[Package[n]] # Missing
        /\ ~changes'[u][n].installed
    <3>1. entry.previous = (target[Current(u)] # Missing) /\ entry.installed = FALSE
      OBVIOUS
    <3> HIDE DEF entry
    <3> QED
      BY <1>5, <3>1 DEF Current
  <2> QED
    BY <1>1, <1>3, <2>1, <2>2 DEF CanBePutBack, IsInPlace
<1>7. \A i \in 1..(n - 1) : /\ CanBePutBack(u, i)' /\ IsInPlace(u, i)'
                           /\ changes'[u][i].installed
  BY <1>1, <1>2, <1>4, <1>5 DEF CanBePutBack, IsInPlace, Positions
<1>8. \A i \in Positions : i > n => AsFound(u, i)'
  BY <1>1, <1>2, <1>4 DEF AsFound, Positions
<1>9. IsReplacing(u)'
  BY <1>1, <1>2, <1>5, <1>6, <1>7, <1>8 DEF IsReplacing, At, Positions
<1>10. HoldsLock(u)' /\ IsSigned(u)' /\ IsUnused(u)' /\ IsUndoing(u)' /\ HasEnded(u)'
  BY <1>1 DEF IsConsistent, HoldsLock, IsSigned, IsUnused, IsUndoing, HasEnded,
     At, Early, Working
<1> QED
  BY <1>9, <1>10 DEF IsConsistent

LEMMA InstallStep ==
  ASSUME UpdateTypeOK, NEW u \in Updaters, IsConsistent(u), Install(u)
  PROVE  IsConsistent(u)'
<1> SUFFICES ASSUME NEW n, n = updater[u].next
             PROVE  IsConsistent(u)'
  OBVIOUS
<1>0. /\ updater \in [Updaters -> States]
      /\ changes[u] \in Seq(Entries) /\ changes \in [Updaters -> Seq(Entries)]
      /\ backups \in [Updaters -> [Files -> Contents]]
      /\ target \in [Files -> Contents]
  BY DEF UpdateTypeOK, States, Entries, Contents
<1>1. /\ updater[u].at = "installing"
      /\ updater'[u].failed = updater[u].failed /\ updater'[u].sound = updater[u].sound
      /\ lock' = lock /\ before' = before /\ backups' = backups
      /\ target' = [target EXCEPT ![Package[n]] = u]
  BY <1>0 DEF Install, At, Current, States
<1>2. /\ n \in Positions /\ ~updater[u].failed /\ Len(changes[u]) = n
      /\ \A i \in 1..n : CanBePutBack(u, i) /\ IsInPlace(u, i)
      /\ \A i \in 1..n : changes[u][i].installed <=> i < n
      /\ \A i \in Positions : i > n => AsFound(u, i)
  BY <1>1 DEF IsConsistent, IsReplacing, At
<1>3. /\ Len(changes'[u]) = n /\ changes'[u][n].installed
      /\ changes'[u][n].previous = changes[u][n].previous
      /\ \A i \in 1..(n - 1) : changes'[u][i] = changes[u][i]
  <2>1. n \in DOMAIN changes[u] /\ n \in Nat /\ changes[u][n] \in Entries
    BY <1>0, <1>2 DEF Positions
  <2>2. changes'[u] = [changes[u] EXCEPT ![n] = [changes[u][n] EXCEPT !.installed = TRUE]]
    BY <1>0 DEF Install
  <2>3. changes'[u][n] = [changes[u][n] EXCEPT !.installed = TRUE]
    BY <2>1, <2>2
  <2>4. /\ changes'[u][n].installed
        /\ changes'[u][n].previous = changes[u][n].previous
    BY <2>1, <2>3 DEF Entries
  <2>5. /\ Len(changes'[u]) = n
        /\ \A i \in 1..(n - 1) : changes'[u][i] = changes[u][i]
    BY <1>0, <1>2, <2>1, <2>2
  <2> QED
    BY <2>4, <2>5
<1>4. \A i \in Positions :
        target'[Package[i]] = IF i = n THEN u ELSE target[Package[i]]
  BY <1>0, <1>1, <1>2, PackageFacts
<1>5. \A i \in 1..n : /\ CanBePutBack(u, i)' /\ IsInPlace(u, i)'
                     /\ changes'[u][i].installed
  <2> SUFFICES ASSUME NEW i \in 1..n
               PROVE  /\ CanBePutBack(u, i)' /\ IsInPlace(u, i)'
                      /\ changes'[u][i].installed
    OBVIOUS
  <2>1. i \in Positions /\ CanBePutBack(u, i) /\ IsInPlace(u, i)
    <3>1. n \in Positions
      BY <1>2
    <3>2. i \in Positions
      BY <3>1, PackageFacts DEF Positions
    <3> QED
      BY <1>2, <3>2
  <2>2. changes'[u][i].installed /\ changes'[u][i].previous = changes[u][i].previous
    BY <1>2, <1>3 DEF Positions
  <2>3. target'[Package[i]] = u
    BY <1>2, <1>3, <1>4, <2>1, <2>2 DEF IsInPlace, Positions
  <2> QED
    BY <1>1, <2>1, <2>2, <2>3 DEF CanBePutBack, IsInPlace
<1>6. \A i \in Positions : i > n => AsFound(u, i)'
  BY <1>1, <1>2, <1>4 DEF AsFound, Positions
<1>7. CASE n = Len(Package)
  <2>1. updater'[u].at = "installed"
    BY <1>0, <1>7 DEF Install, States
  <2>2. \A f \in Files : target'[f] = u
    BY <1>5, <1>7, PackageFacts DEF IsInPlace, Positions
  <2> QED
    BY <1>1, <2>1, <2>2 DEF IsConsistent, HoldsLock, IsSigned, IsUnused,
       IsReplacing, IsUndoing, HasEnded, At, Early, Working
<1>8. CASE n # Len(Package)
  <2>1. updater'[u].at = "replacing" /\ updater'[u].next = n + 1
    BY <1>0, <1>8 DEF Install, States
  <2>2. IsReplacing(u)'
    BY <1>1, <1>2, <1>3, <1>5, <1>6, <1>8, <2>1, PackageFacts
       DEF IsReplacing, At, Positions
  <2> QED
    BY <1>1, <2>1, <2>2 DEF IsConsistent, HoldsLock, IsSigned, IsUnused,
       IsUndoing, HasEnded, At, Early, Working
<1> QED
  BY <1>7, <1>8

LEMMA ReplaceFailsStep ==
  ASSUME UpdateTypeOK, NEW u \in Updaters, IsConsistent(u), ReplaceFails(u)
  PROVE  IsConsistent(u)'
<1>0. updater \in [Updaters -> States]
  BY DEF UpdateTypeOK, States
<1>1. /\ updater[u].at \in {"replacing", "installing"}
      /\ updater'[u].at = "undoing" /\ updater'[u].next = Len(changes[u])
      /\ updater'[u].failed = updater[u].failed
      /\ updater'[u].sound = updater[u].sound
      /\ lock' = lock /\ before' = before /\ backups' = backups
      /\ target' = target /\ changes' = changes
  BY <1>0 DEF ReplaceFails, States
<1>2. /\ Len(changes[u]) \in 0..Len(Package) /\ ~updater[u].failed
      /\ \A i \in 1..Len(changes[u]) : CanBePutBack(u, i) /\ IsInPlace(u, i)
      /\ \A i \in Positions : i > Len(changes[u]) => AsFound(u, i)
  BY <1>1, PackageFacts DEF IsConsistent, IsReplacing, At, Positions
<1>3. /\ \A i \in 1..Len(changes[u]) : CanBePutBack(u, i)' /\ IsInPlace(u, i)'
      /\ \A i \in Positions : i > Len(changes[u]) => AsFound(u, i)'
  BY <1>1, <1>2 DEF CanBePutBack, IsInPlace, AsFound
<1>4. IsUndoing(u)'
  BY <1>1, <1>2, <1>3 DEF IsUndoing, At
<1> QED
  BY <1>1, <1>4 DEF IsConsistent, HoldsLock, IsSigned, IsUnused, IsReplacing,
     HasEnded, At, Early, Working

LEMMA RemoveInstalledStep ==
  ASSUME UpdateTypeOK, NEW u \in Updaters, IsConsistent(u), RemoveInstalled(u)
  PROVE  IsConsistent(u)'
<1> SUFFICES ASSUME NEW n, n = updater[u].next
             PROVE  IsConsistent(u)'
  OBVIOUS
<1>0. /\ updater \in [Updaters -> States] /\ n \in 0..Len(Package)
      /\ target \in [Files -> Contents]
  BY DEF UpdateTypeOK, States, Contents
<1>1. /\ updater[u].at = "undoing" /\ updater'[u].at = "restoring"
      /\ updater'[u].next = n /\ n > 0
      /\ updater'[u].failed = updater[u].failed
      /\ updater'[u].sound = updater[u].sound
      /\ lock' = lock /\ before' = before /\ backups' = backups /\ changes' = changes
  BY <1>0 DEF RemoveInstalled, MoveTo, At, States
<1>2. /\ Len(changes[u]) <= Len(Package) /\ n <= Len(changes[u])
      /\ \A i \in 1..n : CanBePutBack(u, i) /\ IsInPlace(u, i)
      /\ ~updater[u].failed => \A i \in Positions : i > n => AsFound(u, i)
  BY <1>1 DEF IsConsistent, IsUndoing, At
<1>3. n \in Positions /\ n \in 1..n
  BY <1>0, <1>1, PackageFacts DEF Positions
<1>4. \A i \in Positions :
        target'[Package[i]] = IF i = n THEN Missing ELSE target[Package[i]]
  <2>1. IsInPlace(u, n)
    BY <1>2, <1>3
  <2>2. CASE changes[u][n].installed
    BY <1>0, <1>3, <2>2, PackageFacts DEF RemoveInstalled, Current
  <2>3. CASE ~changes[u][n].installed
    BY <2>1, <2>3 DEF RemoveInstalled, IsInPlace
  <2> QED
    BY <2>2, <2>3
<1>5. \A i \in 1..n : CanBePutBack(u, i)'
  BY <1>1, <1>2 DEF CanBePutBack
<1>6. \A i \in 1..n : i # n => IsInPlace(u, i)'
  <2> SUFFICES ASSUME NEW i \in 1..n, i # n PROVE IsInPlace(u, i)'
    OBVIOUS
  <2>1. i \in Positions /\ IsInPlace(u, i)
    BY <1>2, <1>3, PackageFacts DEF Positions
  <2> QED
    BY <1>1, <1>4, <2>1 DEF IsInPlace
<1>7. target'[Package[n]] = Missing
  BY <1>3, <1>4
<1>8. ~updater'[u].failed => \A i \in Positions : i > n => AsFound(u, i)'
  BY <1>0, <1>1, <1>2, <1>4 DEF AsFound, Positions
<1>9. IsUndoing(u)'
  BY <1>1, <1>2, <1>5, <1>6, <1>7, <1>8 DEF IsUndoing, At
<1> QED
  BY <1>1, <1>9 DEF IsConsistent, HoldsLock, IsSigned, IsUnused, IsReplacing,
     HasEnded, At, Early, Working

LEMMA RestoreBackupStep ==
  ASSUME UpdateTypeOK, NEW u \in Updaters, IsConsistent(u), RestoreBackup(u)
  PROVE  IsConsistent(u)'
<1> SUFFICES ASSUME NEW n, n = updater[u].next
             PROVE  IsConsistent(u)'
  OBVIOUS
<1>0. /\ updater \in [Updaters -> States] /\ n \in 0..Len(Package)
      /\ target \in [Files -> Contents]
      /\ backups \in [Updaters -> [Files -> Contents]]
  BY DEF UpdateTypeOK, States, Contents
<1>1. /\ updater[u].at = "restoring" /\ updater'[u].at = "undoing"
      /\ updater'[u].next = n - 1
      /\ updater'[u].failed = updater[u].failed
      /\ updater'[u].sound = updater[u].sound
      /\ lock' = lock /\ before' = before /\ changes' = changes
  BY <1>0 DEF RestoreBackup, NextUndo, At, States
<1>2. /\ Len(changes[u]) <= Len(Package) /\ n <= Len(changes[u]) /\ n > 0
      /\ target[Package[n]] = Missing
      /\ \A i \in 1..n : CanBePutBack(u, i) /\ (i # n => IsInPlace(u, i))
      /\ ~updater[u].failed => \A i \in Positions : i > n => AsFound(u, i)
  BY <1>0, <1>1 DEF IsConsistent, IsUndoing, At
<1>3. n \in Positions /\ n \in 1..n /\ \A i \in 1..(n - 1) : i \in Positions
  BY <1>0, <1>2, PackageFacts DEF Positions
<1>4. /\ AsFound(u, n)'
      /\ \A i \in Positions \ {n} :
           /\ target'[Package[i]] = target[Package[i]]
           /\ backups'[u][Package[i]] = backups[u][Package[i]]
  <2>1. CanBePutBack(u, n)
    BY <1>2, <1>3
  <2>2. CASE changes[u][n].previous
    BY <1>0, <1>1, <1>3, <2>1, <2>2, PackageFacts
       DEF RestoreBackup, Current, AsFound, CanBePutBack
  <2>3. CASE ~changes[u][n].previous
    BY <1>1, <1>2, <2>1, <2>3 DEF RestoreBackup, AsFound, CanBePutBack
  <2> QED
    BY <2>2, <2>3
<1>5. \A i \in 1..(n - 1) : CanBePutBack(u, i)' /\ IsInPlace(u, i)'
  <2> SUFFICES ASSUME NEW i \in 1..(n - 1)
               PROVE  CanBePutBack(u, i)' /\ IsInPlace(u, i)'
    OBVIOUS
  <2>1. i \in 1..n /\ i # n /\ i \in Positions
    BY <1>0, <1>3
  <2>2. CanBePutBack(u, i) /\ IsInPlace(u, i)
    BY <1>2, <2>1
  <2> QED
    BY <1>1, <1>4, <2>1, <2>2 DEF CanBePutBack, IsInPlace
<1>6. ~updater'[u].failed => \A i \in Positions : i > n - 1 => AsFound(u, i)'
  <2> SUFFICES ASSUME ~updater[u].failed, NEW i \in Positions, i > n - 1, i # n
               PROVE  AsFound(u, i)'
    BY <1>1, <1>4
  <2>1. AsFound(u, i)
    BY <1>0, <1>2 DEF Positions
  <2> QED
    BY <1>1, <1>4, <2>1 DEF AsFound
<1>7. IsUndoing(u)'
  BY <1>0, <1>1, <1>2, <1>5, <1>6 DEF IsUndoing, At
<1> QED
  BY <1>1, <1>7 DEF IsConsistent, HoldsLock, IsSigned, IsUnused, IsReplacing,
     HasEnded, At, Early, Working

LEMMA UndoFailsStep ==
  ASSUME UpdateTypeOK, NEW u \in Updaters, IsConsistent(u), UndoFails(u)
  PROVE  IsConsistent(u)'
<1> SUFFICES ASSUME NEW n, n = updater[u].next
             PROVE  IsConsistent(u)'
  OBVIOUS
<1>0. updater \in [Updaters -> States] /\ n \in 0..Len(Package)
  BY DEF UpdateTypeOK, States
<1>1. /\ updater[u].at \in {"undoing", "restoring"} /\ updater'[u].at = "undoing"
      /\ updater'[u].next = n - 1 /\ updater'[u].failed
      /\ updater'[u].sound = updater[u].sound
      /\ lock' = lock /\ before' = before /\ backups' = backups
      /\ target' = target /\ changes' = changes
  BY <1>0 DEF UndoFails, NextUndo, At, States
<1>2. /\ Len(changes[u]) <= Len(Package) /\ n <= Len(changes[u])
      /\ \A i \in 1..n : CanBePutBack(u, i) /\ (i # n => IsInPlace(u, i))
  BY <1>0, <1>1 DEF IsConsistent, IsUndoing, At
<1>3. \A i \in 1..(n - 1) : CanBePutBack(u, i) /\ IsInPlace(u, i)
  BY <1>0, <1>2
<1>4. \A i \in 1..(n - 1) : CanBePutBack(u, i)' /\ IsInPlace(u, i)'
  BY <1>1, <1>3 DEF CanBePutBack, IsInPlace
<1>5. IsUndoing(u)'
  BY <1>0, <1>1, <1>2, <1>4 DEF IsUndoing, At
<1> QED
  BY <1>1, <1>5 DEF IsConsistent, HoldsLock, IsSigned, IsUnused, IsReplacing,
     HasEnded, At, Early, Working

(* A rollback none of whose steps failed has brought everything back.      *)
LEMMA EndRollbackStep ==
  ASSUME UpdateTypeOK, NEW u \in Updaters, IsConsistent(u), EndRollback(u)
  PROVE  IsConsistent(u)'
<1>0. /\ updater \in [Updaters -> States]
      /\ target \in [Files -> Contents] /\ before[u] \in [Files -> Contents]
      /\ backups[u] \in [Files -> Contents]
  BY DEF UpdateTypeOK, States, Contents
<1>1. /\ updater[u].at = "undoing" /\ updater[u].next = 0
      /\ updater'[u].at = IF updater[u].failed THEN "inconsistent" ELSE "restored"
      /\ target' = target /\ before' = before /\ backups' = backups
  BY <1>0 DEF EndRollback, MoveTo, At, States
<1>2. ~updater[u].failed => target = before[u] /\ backups[u] = Nothing
  <2> SUFFICES ASSUME ~updater[u].failed
               PROVE  target = before[u] /\ backups[u] = Nothing
    OBVIOUS
  <2>1. \A i \in Positions : AsFound(u, i)
    BY <1>1, PackageFacts DEF IsConsistent, IsUndoing, Positions
  <2>2. \A f \in Files : target[f] = before[u][f] /\ backups[u][f] = Missing
    BY <2>1, PackageFacts DEF AsFound
  <2> QED
    BY <1>0, <2>2 DEF Nothing
<1>3. HasEnded(u)'
  BY <1>1, <1>2 DEF HasEnded, At
<1> QED
  BY <1>1, <1>3 DEF IsConsistent, HoldsLock, IsSigned, IsUnused, IsReplacing,
     IsUndoing, At, Early, Working

LEMMA LeaveStep ==
  ASSUME UpdateTypeOK, NEW u \in Updaters, IsConsistent(u), Leave(u)
  PROVE  IsConsistent(u)'
<1>1. /\ updater' = updater /\ lock' = NoUpdater
      /\ updater[u].at \in {"installed", "restored", "inconsistent"}
      /\ At(u, "restored") => backups'[u] = Nothing
  BY DEF Leave, At, UpdateTypeOK
<1>2. HasEnded(u)'
  BY <1>1, UpdateAssumption DEF HasEnded, At
<1> QED
  BY <1>1, <1>2 DEF IsConsistent, HoldsLock, IsSigned, IsUnused, IsReplacing,
     IsUndoing, At, Early, Working

LEMMA ConsistencyStep ==
  ASSUME UpdateInv, [UpdateNext]_updateVars
  PROVE  \A v \in Updaters : IsConsistent(v)'
<1> USE DEF UpdateInv
<1> SUFFICES ASSUME NEW v \in Updaters
             PROVE  IsConsistent(v)'
  OBVIOUS
<1>1. ASSUME NEW u \in Updaters, UpdaterStep(u) \/ Crash(u)
      PROVE  IsConsistent(v)'
  <2>1. CASE u # v
    BY <1>1, <2>1, OthersKeep, OthersStay
  <2>2. CASE u = v
    BY <1>1, <2>2, QuietStep, BackUpStep, InstallStep, ReplaceFailsStep,
       RemoveInstalledStep, RestoreBackupStep, UndoFailsStep, EndRollbackStep,
       LeaveStep DEF UpdaterStep, IsQuiet
  <2> QED
    BY <2>1, <2>2
<1>2. CASE (\E u \in Updaters : LauncherExits(u)) \/ UNCHANGED updateVars
  <2>1. UNCHANGED <<updater, lock, target, backups, changes, before>>
    BY <1>2 DEF LauncherExits, updateVars
  <2> QED
    BY <2>1, OthersStay
<1> QED
  BY <1>1, <1>2 DEF UpdateNext

-----------------------------------------------------------------------------
(* A file that was there at first is never in neither place.               *)
LEMMA OldFilesStep ==
  ASSUME UpdateInv, [UpdateNext]_updateVars
  PROVE  OldFilesAreSomewhere'
<1> USE DEF UpdateInv
<1>0. /\ updater \in [Updaters -> States]
      /\ changes \in [Updaters -> Seq(Entries)]
      /\ backups \in [Updaters -> [Files -> Contents]]
      /\ target \in [Files -> Contents]
      /\ lock \in Updaters \cup {NoUpdater}
      /\ Old # Missing /\ Old \notin Updaters /\ NoUpdater \notin Updaters
  BY UpdateAssumption DEF UpdateTypeOK, States, Entries, Contents
<1>1. ASSUME NEW u \in Updaters, UpdaterStep(u) \/ Crash(u),
             NEW v \in Updaters, HasSucceeded(v)
      PROVE  HasSucceeded(v)'
  <2>1. CASE u # v
    BY <1>1, <2>1, OthersKeep DEF HasSucceeded, At
  <2>2. CASE u = v
    BY <1>0, <1>1, <2>2 DEF HasSucceeded, UpdaterStep, Download, Verify, Extract,
       StartUpdater, Prepares, HandOverFails, TakeLock, WaitSucceeds, WaitFails,
       Prepare, PrepareFails, BackUp, Install, ReplaceFails, RemoveInstalled,
       RestoreBackup, UndoFails, EndRollback, Leave, Crash, At
  <2> QED
    BY <2>1, <2>2
<1>2. ASSUME NEW u \in Updaters, UpdaterStep(u) \/ Crash(u),
             \A v \in Updaters : ~HasSucceeded(v)',
             NEW f \in OldFiles
      PROVE  target'[f] = Old \/ \E v \in Updaters : backups'[v][f] = Old
  <2>1. f \in Files /\ (target[f] = Old \/ \E v \in Updaters : backups[v][f] = Old)
    BY <1>1, <1>2, PackageFacts DEF OldFilesAreSomewhere
  <2>2. CASE IsQuiet(u) \/ ReplaceFails(u) \/ UndoFails(u) \/ EndRollback(u)
    <3>1. target' = target /\ backups' = backups
      BY <2>2 DEF IsQuiet, Download, Verify, Extract, StartUpdater, Prepares,
         HandOverFails, TakeLock, WaitSucceeds, WaitFails, Prepare, PrepareFails,
         Crash, ReplaceFails, UndoFails, EndRollback
    <3> QED
      BY <2>1, <3>1
  (* What is in place becomes the backup; there was none before.           *)
  <2>3. CASE BackUp(u)
    <3>1. /\ updater[u].next \in Positions
          /\ AsFound(u, updater[u].next)
      BY <1>0, <2>3 DEF BackUp, At, IsConsistent, IsReplacing, Positions
    <3>2. Current(u) \in Files /\ backups[u][Current(u)] = Missing
      BY <3>1, PackageFacts DEF Current, AsFound
    <3>3. CASE f = Current(u)
      BY <1>0, <2>1, <2>3, <3>2, <3>3 DEF BackUp
    <3>4. CASE f # Current(u)
      BY <1>0, <2>1, <2>3, <3>2, <3>4 DEF BackUp
    <3> QED
      BY <3>3, <3>4
  (* A new file comes to an empty place.                                   *)
  <2>4. CASE Install(u)
    <3>1. /\ updater[u].next \in Positions
          /\ updater[u].next \in 1..Len(changes[u])
      BY <2>4, PackageFacts DEF Install, At, IsConsistent, IsReplacing, Positions
    <3>2. IsInPlace(u, updater[u].next) /\ ~changes[u][updater[u].next].installed
      BY <2>4, <3>1, PackageFacts DEF Install, At, IsConsistent, IsReplacing, Positions
    <3>3. target[Current(u)] = Missing /\ Current(u) \in Files
      BY <3>1, <3>2, PackageFacts DEF IsInPlace, Current
    <3> QED
      BY <1>0, <2>1, <2>4, <3>3 DEF Install
  (* Only what this updater installed is removed.                          *)
  <2>5. CASE RemoveInstalled(u)
    <3>1. /\ updater[u].next \in Positions /\ IsInPlace(u, updater[u].next)
      <4>1. /\ updater[u].at = "undoing" /\ updater[u].next > 0
            /\ updater[u].next \in 0..Len(Package)
            /\ IsUndoing(u)
        BY <1>0, <2>5 DEF RemoveInstalled, At, IsConsistent, States
      <4>2. updater[u].next \in Positions /\ updater[u].next \in 1..updater[u].next
        BY <4>1, PackageFacts DEF Positions
      <4> QED
        BY <4>1, <4>2 DEF IsUndoing, At
    <3>2. CASE changes[u][updater[u].next].installed
      <4>1. target[Current(u)] = u /\ Current(u) \in Files
        BY <3>1, <3>2, PackageFacts DEF IsInPlace, Current
      <4> QED
        BY <1>0, <2>1, <2>5, <3>2, <4>1 DEF RemoveInstalled
    <3>3. CASE ~changes[u][updater[u].next].installed
      BY <2>1, <2>5, <3>3 DEF RemoveInstalled
    <3> QED
      BY <3>2, <3>3
  (* A backup goes back to an empty place.                                 *)
  <2>6. CASE RestoreBackup(u)
    <3>1. /\ updater[u].next \in Positions
          /\ target[Package[updater[u].next]] = Missing
      BY <1>0, <2>6, PackageFacts DEF RestoreBackup, At, IsConsistent, IsUndoing,
         Positions, States
    <3>2. Current(u) \in Files /\ target[Current(u)] = Missing
      BY <3>1, PackageFacts DEF Current
    <3>3. CASE changes[u][updater[u].next].previous
      <4>1. CASE f = Current(u)
        BY <1>0, <2>1, <2>6, <3>2, <3>3, <4>1 DEF RestoreBackup
      <4>2. CASE f # Current(u)
        <5>1. /\ target' = [target EXCEPT ![Current(u)] = backups[u][Current(u)]]
              /\ backups' = [backups EXCEPT ![u][Current(u)] = Missing]
          BY <2>6, <3>3 DEF RestoreBackup
        <5>2. /\ target'[f] = target[f]
              /\ \A v \in Updaters : backups'[v][f] = backups[v][f]
          BY <1>0, <2>1, <4>2, <5>1
        <5> QED
          BY <2>1, <5>2
      <4> QED
        BY <4>1, <4>2
    <3>4. CASE ~changes[u][updater[u].next].previous
      BY <2>1, <2>6, <3>4 DEF RestoreBackup
    <3> QED
      BY <3>3, <3>4
  (* The workspace goes when the update has succeeded, or holds nothing.   *)
  <2>7. CASE Leave(u)
    <3>1. updater' = updater /\ lock' # u /\ target' = target
      BY <1>0, <2>7 DEF Leave
    <3>2. ~At(u, "installed")
      BY <1>2, <3>1 DEF HasSucceeded, At
    <3>3. backups' = backups
      BY <1>0, <2>7, <3>2 DEF Leave, At, IsConsistent, HasEnded
    <3> QED
      BY <2>1, <3>1, <3>3
  <2> QED
    BY <1>2, <2>2, <2>3, <2>4, <2>5, <2>6, <2>7 DEF UpdaterStep, IsQuiet
<1>3. CASE (\E u \in Updaters : LauncherExits(u)) \/ UNCHANGED updateVars
  <2>1. UNCHANGED <<updater, lock, target, backups, changes, before>>
    BY <1>3 DEF LauncherExits, updateVars
  <2> QED
    BY <2>1 DEF OldFilesAreSomewhere, HasSucceeded, At
<1> QED
  BY <1>2, <1>3 DEF UpdateNext, OldFilesAreSomewhere

LEMMA InitEstablishes ==
  ASSUME UpdateInit
  PROVE  UpdateInv
<1>1. UpdateTypeOK
  BY UpdateAssumption, PackageFacts DEF UpdateInit, UpdateTypeOK, Nothing, Phases
<1>2. \A u \in Updaters : IsConsistent(u)
  BY DEF UpdateInit, IsConsistent, HoldsLock, IsSigned, IsUnused, IsReplacing,
     IsUndoing, HasEnded, At, Working
<1>3. OldFilesAreSomewhere
  BY PackageFacts DEF UpdateInit, OldFilesAreSomewhere
<1> QED
  BY <1>1, <1>2, <1>3 DEF UpdateInv

(* The inductive invariant: the mutex has one owner, and the position and  *)
(* the journal of that owner account for every file (transaction.rs).      *)
THEOREM UpdateIsConsistent == UpdateSpec => []UpdateInv
<1>1. UpdateInv /\ [UpdateNext]_updateVars => UpdateInv'
  <2> SUFFICES ASSUME UpdateInv, [UpdateNext]_updateVars PROVE UpdateInv'
    OBVIOUS
  <2>1. UpdateTypeOK'
    BY TypeStep DEF UpdateInv
  <2> QED
    BY <2>1, ConsistencyStep, OldFilesStep DEF UpdateInv
<1> QED
  BY <1>1, InitEstablishes, PTL DEF UpdateSpec

(* The state is well formed.                                               *)
THEOREM UpdateTypes == UpdateSpec => []UpdateTypeOK
<1>1. UpdateInv => UpdateTypeOK
  BY DEF UpdateInv
<1> QED
  BY <1>1, UpdateIsConsistent, PTL

(* An updater that ends has installed the whole signed package, or has put *)
(* back exactly what it found, or says that it could not (apply_with), for *)
(* any package and any number of updaters.                                 *)
THEOREM UpdatesAreAtomic == UpdateSpec => []AllOrNothing
<1>1. UpdateInv => AllOrNothing
  BY DEF UpdateInv, IsConsistent, IsSigned, HasEnded, AllOrNothing, At
<1> QED
  BY <1>1, UpdateIsConsistent, PTL

(* Whatever fails or dies on the way, no file of the first installation is *)
(* lost before an update has succeeded.                                    *)
THEOREM OldFilesAreKept == UpdateSpec => []OldFilesArePreserved
<1>1. UpdateInv => OldFilesArePreserved
  BY DEF UpdateInv, OldFilesAreSomewhere, OldFilesArePreserved, HasSucceeded
<1> QED
  BY <1>1, UpdateIsConsistent, PTL
=============================================================================
