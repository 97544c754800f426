# CK-Launcher: specification, model checking and proofs

CK-Launcher is a desktop launcher for Minecraft: a Rust core (`src/crates/launcher-core`), a
service process that exposes it over a pipe (`src/crates/launcher-service`), a native Qt window
(`src/apps/qt`), a transitional web interface (`src/app`), and a separate updater process
(`src/crates/launcher-updater`). This directory specifies the parts of it in which order,
failure and concurrency decide whether it works. The modules are written from the code;
`PROJECT.json` names the lines behind every definition.

## 1. Inventory

Paths are relative to `src/crates/launcher-core/src/` unless they begin with another directory.

| Component | State it keeps | Operations | Talks to |
|---|---|---|---|
| Request admission (`api.rs`, `context.rs`) | the guard `mutation` (a `tokio::Mutex<()>`), the content cancellation token | `dispatch`: lock the guard, ask `has_active`, renew the content token, run the command, answer; `cancel_content_operation` fires the token it finds | every command; registry and processes through `has_active` |
| Operation registry (`installer/mod.rs`) | `RegistryState`: records with state and token, active versions, active workflow, bounded history of finished ids | `begin`, `begin_launch`, `cancel`, `mark_spawned`, `finish`, `has_active` | launch and install tasks, the cancel command |
| Launch orchestrator (`orchestration.rs`) | one spawned task per launch | `reserve`, the awaited stages (account, version, Java, files, start), `terminate` | registry, installer, runtimes, authentication, launcher |
| Launcher and process registry (`launcher/mod.rs`, `launcher/process.rs`) | `active_by_profile`, record per process, stop flags, the child | reserve, start, wait for the child, judge the exit, `stop` | registry (`finish`), event sink |
| Install command (`commands/install.rs`, `commands/launch.rs`) | none of its own; event sinks | `install_version`, `cancel_operation`, `launch_*`, `stop_process` | registry, tasks, events |
| Installer, natives, metadata (`installer/mod.rs`, `installer/natives.rs`, `metadata/resolver.rs`) | game directories, one verified marker per version, the metadata cache | prepare: resolve, check, download what is missing, extract and swap the natives, mark as verified | download worker, storage |
| Download worker (`downloads/worker.rs`, `downloads/plan.rs`, `downloads/verify.rs`) | `.part`, `.lock` and backup beside each destination; progress counters | `execute`: lock, attempt, resume, verify, replace | HTTP, file system, cancellation token |
| Cancellation token (`downloads/worker.rs`) | an atomic flag and a `Notify` | `cancel`, `is_cancelled`, `cancelled().await` | everything cancellable |
| Authentication (`auth/`) | active login session, token cache, mutation mutex | log in (loopback callback, chain of services), cancel, refresh | credential store, account rows |
| Accounts (`commands/accounts.rs`, `credentials.rs`, `storage.rs`) | account rows in SQLite, refresh tokens in the system's keyring | list (with purge of legacy accounts), switch, remove | authentication |
| Managed runtimes (`runtime/`, `commands/runtime.rs`) | a directory per major version, with candidate and backup; the majors being installed; `java-overrides-v1.json` | resolve, install, `replace_runtime`, `recover_interrupted_swap`, choose a Java by hand | download worker, launches |
| Content (`commands/content.rs`, `content/curseforge.rs`, `content/security.rs`) | mod files of a build, rows of `installed_content`, `pack_sources` | install with requirements, update, toggle, remove, import, repair; `FileTransaction` | storage, network, guard |
| Builds and packs (`commands/content.rs`, `storage/mod.rs`) | rows of builds, the selection and the profile that follows it, directories, previews of packs | create, copy, select, delete, preview and confirm a pack, install Forge | content, storage |
| Updates (`updates.rs`, `src/crates/launcher-updater`) | staged package, backup directory, installation lock | download; in the updater: wait, prepare, replace, roll back, restart | the launcher process |
| Service process (`src/crates/launcher-service`) | permits (32 requests, 8 controls), a channel of 256 frames | read a line, dispatch, write answers and events | admission, the window |
| Native window (`src/apps/qt`) | `ready_`, `busy_`, `running_`, `operationId_`, the completed operations, pending requests with deadlines | play, cancel, close, handle answers and events | service process over a pipe |
| Web interface, Tauri shell (`src/app/src`, `src/app/src-tauri`) | the same over an adapter | the same | admission |

How they interact. The window sends a request over the pipe and waits for the answer with its
id; a launch or an installation answers as soon as its task is spawned and goes on as events. So
three processes (window, service, game) and, within the service, several tasks (the request,
the workflow, the waiter for the child, the stop calls) act on the same operation, each under
its own short lock. Files are changed by `rename`, with a backup beside the destination.

What is hard to test here, and what the properties are aimed at:

- a launch outlives the request that started it, while other requests rewrite the same build;
- a cancellation, a stop, the end of the game and an error all race to end one operation;
- events and answers reach the window in an order no handler chose;
- a resumed download counts from bytes another attempt, another execution, or a process that
  crashed has left behind;
- a file or an account lives in two places (file and backup, row and keyring), and a failure or
  a crash falls between the two writes;
- a flag is set and its waiters are notified in two steps, while a waiter checks and subscribes
  in two others.

`PROJECT.json` lists these hazards one by one at the line where each bites, with the
properties that cover it, or the reason why none does yet.

## 2. Modules

| Module | What it models | Source |
|---|---|---|
| `OperationRegistry` | the registry under its one lock: one action per method | `installer/mod.rs` |
| `LaunchWorkflow` | admission, orchestrator, process registry, waiter, stop calls, install task and event sink, composed with the registry (`EXTENDS OperationRegistry`) | `api.rs`, `orchestration.rs`, `launcher/`, `commands/launch.rs`, `commands/install.rs` |
| `ExclusiveUse` | the abstract promise: the build has one user at a time, and a game runs only in the tenure of its launch | |
| `CancellationToken` | the token, at the granularity of its atomic accesses | `downloads/worker.rs` |
| `ServiceLink` | the service process: reader, permits, guard and content token of admission, bounded channel, writer, composed with the token (`EXTENDS CancellationToken`) | `src/crates/launcher-service`, `api.rs`, `events.rs` |
| `DownloadWorker` | executions over shared destinations, with crashes | `downloads/` |
| `ManagedRuntime` | one managed Java: resolution, installation, the swap and its recovery, the choice by hand | `runtime/`, `commands/runtime.rs` |
| `VersionInstall` | preparation of one Minecraft version in the directories of several builds | `installer/`, `metadata/`, `storage/mod.rs` |
| `FileChanges` | `FileTransaction`: files replaced one by one and put back | `commands/content/security.rs` |
| `BuildContent` | content of a build as files and as rows (`EXTENDS FileChanges`) | `commands/content.rs`, `commands/content/curseforge.rs`, `storage/mod.rs` |
| `BuildLibrary` | the builds themselves, selection, profile and packs (`EXTENDS BuildContent`) | `commands/content.rs`, `storage/mod.rs`, `metadata/` |
| `UpdateTransaction` | the launcher that downloads an update and the updater that puts it in place, with crashes | `updates.rs`, `src/crates/launcher-updater` |
| `Accounts` | logins, refreshes, switches, removals and purges over rows, keyring and token cache, with crashes | `auth/`, `commands/accounts.rs`, `storage.rs`, `credentials.rs` |
| `LauncherWindow` | what the window believes of the core, over the pipe | `src/apps/qt/src/{window,library,backend}.cpp` |
| `BuildLibraryInvariants` | the inductive invariants of the library and the kinds of steps it takes, for its proofs; no theorems (`EXTENDS BuildLibrary`) | |
| `*Proofs` | theorems about the module in their name, and about those it is composed of (section 5) | |
| `MC*` | finite sets for TLC, and nothing else | |

The chains of `EXTENDS` are the compositions: the workflow over the registry, the service over the token,
the library over the content over the file transaction. `LauncherWindow` sees the core as `LaunchWorkflow`
establishes it, and `VersionInstall` takes a download as one step that succeeds or fails, which is
what `DownloadWorker` establishes (`OkMeansVerified`).

A definition keeps the name of the method or the field it stands for where there is one
(`Begin`, `MarkSpawned`, `activeVersions`, `operationId`). One action is what happens under one
lock, or between two awaits: where the code drops a lock and takes another (for instance
`reserve` in `orchestration.rs`, which asks the process registry first and the operation registry
second), the model has two actions (`CheckGame`, `ReserveLaunch`), and others may act between.

Each module has definitions introduced by a comment that begins with *Fault*: a neighbouring
definition with one plausible mistake (a dropped guard, a missing reset, two steps swapped). They are
not part of any specification. `PROJECT.json` pairs each with the property it breaks: substituting it for the
original makes TLC report that property, which shows that the property depends on the code it is about.

### State and actions, module by module

**OperationRegistry.** `operations` is the map of records (kind by its subject: a version for
an installation, a profile for a launch; state; `spawned`); `cancelled` holds the
token of each operation, which tasks keep after the record is gone; `activeVersions`,
`activeWorkflow`, `terminalOrder` are the fields of `RegistryState`. `Finish` evicts the oldest
finished record when the history exceeds `MaxTerminalOperations` (128 in the code). An id whose
record was evicted may be drawn again.

**LaunchWorkflow.** `request[r]` is a connection with one request in progress. `TryLock` takes
the guard, `RefuseBusy`/`Admit` is `has_active`; `EndMutation`, `BeginInstall`, `CheckGame` and
`ReserveLaunch` are the three kinds of command; `SendAnswer` drops the guard. `task[id]` is the spawned
workflow or install task: its stages end in success, failure or cancellation, then
`EnterSpawnBoundary` (`mark_spawned`), `ReserveProcess`, `SpawnChild`, `RecordPid`,
`AnnounceStart`. `waiter[id]` is the task that waits for the child and settles the exit in
four separate steps (judge, clear the process, finish the operation, send the event). `stopper[c]`
is a call of `stop`: set the flag, kill, and withdraw the flag if the kill failed. `events[id]` is
what the interface has been sent about the operation.
What a stage computes, and the sixty-odd requests that do not touch exclusion, are abstracted:
a stage succeeds, fails or is cancelled; a request either rewrites the build, installs or launches.

**CancellationToken.** `cancel()` is `SetFlag` then `NotifyWaiters`; `cancelled()` is a loop of
three steps: check the flag, create the `Notified` future, check the flag again, and await.
A future is released by a notification after its creation, which is what `Notify` documents.

**DownloadWorker.** `run[e]` is a call of `execute`, `job[e][f]` one destination in it, limited
by `MaxConcurrentDownloads`. Contents of part, destination and backup are `[len, good]`: how many
bytes, and whether they are those of the wanted file. The final step is modelled rename by rename (move the
old file aside, move the part in, verify, drop or restore the backup), since both a failure and a crash
may fall in between. The server may answer a range request with the rest, with the whole file,
with an error, with too many bytes or with wrong ones.
A crash closes every file and lock, and leaves of an unsynced part any shorter or damaged
remainder. The part lock is that of Windows, the launcher's platform.

**ServiceLink.** `input` is what the window has written and nobody has read; `reader` is the reading thread,
which takes a line, and starts a task if a permit of the request's pool is free or else sends `busy`; `request[r]` is
the task, from the guard to its answer; `channel` is the bounded channel, in which progress is dropped when it is
full and everything else waits; `window` is the other end of the pipe. `guard` and `token` are the guard and the current content
token of `AppContext`. A request that changes builds goes through `dispatch` in three steps: `ClaimGuard` (`try_lock`, which turns it away at once
if the guard is taken), `Admit` (`has_active`, which may turn it away with the guard in hand) and `RenewToken` (`reset_cancellation`). A request
to cancel asks for no guard and may fall between any two of them: it takes the token it finds (`TakeToken`) and fires it two steps later, in the
steps of `CancellationToken`. `aimed` is the token it has taken and, as history, who held the guard then and whether that request
had its own token already; `seen` is history too: the requests from whose work the window had heard when it asked to cancel.
`progress`, `told` and `received` count what was sent.

**ManagedRuntime.** A home's content is what a probe of it would say: none, working, broken. `final`, `backup`, `staged` are the
directories `java-N`, `.backup-java-N` (and the one an old version has left under another name), and the candidate.
`installing` is the entry in the set of majors being installed. `call[c]` is a launch or a request of the settings page, at
one position per rename, probe or download. Every rename may fail, every undo of a rename too, a
probe may time out, and the process may end between any two steps; `StartCore` is the recovery at the start of the core, which may refuse to start.
`override` is the choice by hand in memory, `saved` the file; `acked` and `torn` are history.

**VersionInstall.** The content of a part of a game directory is the *edition* of the metadata it
belongs to, as Mojang may publish a version again (`Publish`). The parts are the version file, the downloads (libraries, client, logging
and asset index go together), the asset objects, the natives and their backup. `cached` is the
metadata cache, with which a preparation goes on when the network fails. `job` is the one preparation that runs: the guard and
the registry let no second one begin. `marker` is the row of the version in `installations`, one for all game directories; `vouched` is history:
the marker was set by an installation into this directory and none was begun there since. Damage to files
happens only while nothing works on them.

**FileChanges.** `tx` is a transaction with the changes to come and those done; its two steps per change are the move
of the old file into the rollback directory (`SetAside`) and the arrival of the new one. `UndoChange` puts the last change back. What
cannot be put back, and what a dead process leaves, goes to `stray`, directories nobody looks into. `torn` is history.

**BuildContent.** A file has the name of its project and version, and is `on` or `off` (the suffix `.disabled`).
`version`, `enabled` are the rows, `source` the pack of a build, `job` the one operation (they run under the guard), with its position and
its stack of requirements. The order is that of the code: the files first, then one transaction of the database, then
the commit of the file transaction; where a row follows a rename (toggling), the undo of the rename may fail as well.
`excused` is history: the user, or a pack, has taken a file whose row stays, or a pack has brought two files of one project, which has one row.
`torn` (of `FileChanges`) is set wherever the code itself cannot keep files and rows together: an undo that failed, an end of the process
between the first change and the commit or between a rename and its row, a copy that ended half-way, a directory that could not be moved back, a file
the repair of a CurseForge pack leaves behind. `RowsMatchFiles` says nothing of builds that are torn or excused, `ListedCanBeLaunched` promises them the
loader only, `NothingIsLost` leaves out the excused ones alone.

**BuildLibrary.** `listed` and `active` are the rows of builds, `profile` the build the launcher's profile points to, `place` whether the
directory of a build is in the instances, in the trash, nowhere, or lost (in the trash under the name an earlier failed deletion gave it, which nobody knows
any more), `loader` its loader, `registered` the
loaders with a custom version in the metadata cache, `previews` the packs that wait to be confirmed. Creation, copy, deletion by way of the trash, selection, Forge
with its two files, preview and confirmation of a pack are step by step, each with its failures.
`halfway` is history: `create_build` writes its row and the selection in two transactions.

**UpdateTransaction.** `updater[u]` begins in the launcher (`updates.rs`: both downloads, the signature over the
whole package, the extraction, the start of the updater, each of which may fail or be cancelled) and goes on in the updater's process, which
waits for the launcher to end and walks through the package in its order; `changes[u]` is the journal,
which exists in memory only, so `Crash` loses it and leaves the backup directory. `before[u]` is
history: the installation as the updater found it. The lock is released last. Nothing prevents the
user from starting the launcher again while files are being replaced.

**Accounts.** `call[c]` is a request with its position; `mutex` is the mutation coordinator; `rows` and
`credential` are the two stores, `cache` the account of the cached access token; `activeLogin`
and `cancelled` are the login sessions. `before` and `torn` are history: the stores when the mutex
was taken, and the accounts a crash or a failed compensation has left in one store only.
The chain of Microsoft, Xbox and Minecraft calls is one step that succeeds, fails or is cancelled.

**LauncherWindow.** `frames` is what the core has written and the window has not read yet, in
order; `pending` the one request the window waits for; `ready`, `busy`, `running`,
`operationId`, `completedOperations` are the window's fields. The core is reduced to what
`LaunchWorkflow` establishes about it: one request at a time, none beside a live operation, at most one
start and then one end per launch, each in any order with the answer. `gaveUp` and `regretted`
are history: an answer was given up for; the user cancelled before the launch was answered.
`link` is the connection: `dying` is the time between the death of the core and the window's
notice of it, in which frames already written still arrive.

## 3. Runs

| Run | Checks | Instance |
|---|---|---|
| `launch` | a mutation never meets a game; a cancelled launch never plays; an end event is the last word, after which both registries are free; a stop that succeeded is no crash; refinement of `OperationRegistry` and of `ExclusiveUse`; accepted cancellations end the operation; the end of a game is reported | 2 operations, 2 connections, 2 stop calls, history of 1 |
| `window` | the window is engaged while the core is; it agrees with the core once everything has arrived; it is not busy for ever | 2 operations, 4 requests |
| `service` | no event comes after the answer of its request; a cancellation that finds an operation at work, or follows its first sign of life, fires the token that operation waits on; no wake-up is lost; a cancellation is carried out however many slow requests hold permits, guard and channel; every request is answered | 5 requests of which 3 are sent, 2 ordinary permits, 1 for controls, channel of 1 frame |
| `update` | all or nothing; the first installation is never lost | 2 launchers, each with its updater; 3 files, a new one between two old ones |
| `accounts` | the two stores agree; changes are atomic; a login can be reached by its cancellation; access belongs to the active account; a login ends | 3 calls, 3 accounts (one signed in, one legacy) |
| `download` | success means verified; a file is lost only to a verified one; progress is the sum of its parts; an execution returns | rivals for one hashed file, or one execution of a hashed and an unhashed file; 2 chunks, 2 attempts, 1 crash |
| `runtime` | no gap without a report; a runtime that was answered to be valid is in place; a choice survives; the last working runtime is never destroyed | a launch and a page with 2 calls each, 2 paths, a legacy backup, 3 faults, 1 crash |
| `install` | a launch goes on only with a complete directory; natives are never lost; what was verified stays | 2 builds, 2 editions, 3 preparations, 2 errors, 1 end of the process |
| `content` | rows match files; nothing is lost; requirements are enabled; the selection is whole; a listed build can be launched; edited files survive a repair | 2 builds, 5 projects of 2 versions, 2 packs, 3 operations, 2 errors, 1 end of the process |
| `window_lost_core` | **violated**: see finding 1 | 2 operations, 2 requests |
| `window_cancel` | **violated**: see finding 2 | 2 operations, 2 requests |
| `service_cancel` | **violated**: see finding 3 | 5 requests of which 3 are sent |

### Bounds, and why they are enough

- *Operations, requests, connections.* Exclusion, refusal and races are between two parties; two
  of each let every pair of kinds meet, before, during and after one another. The guard and
  the active workflow admit one, so a third party only waits in the same place as the second.
- *History.* `MaxTerminalOperations` is 128 in the code and 1 or 2 here, so that eviction happens in every
  instance. The proofs hold for any natural number. `MaxCompleted` is the window's 64 in the same way.
- *Ids.* In `LaunchWorkflow` an id is drawn once (they are random UUIDs), in
  `OperationRegistry`, whose theorems hold for any use of it, one may come back after eviction.
- *`StopCalls`.* Each stop call is made once. Two are needed to let calls overlap. They differ in name only, so the
  call that is made next has a fixed name (`NextCall`).
- *`MaxRuns`, `MaxAttempts`, `Size`, `MaxConcurrentDownloads`.* Two attempts (three in the code) give
  a first one, and a resumed one that is the last; two chunks give a partial part; two slots (six in the code)
  let two files proceed together; two runs let one execution meet the leftovers of another.
- *`MaxCrashes`, `MaxDisturbances`.* One crash at any point, followed by a whole execution. A disturbance
  is another program damaging a new file between its rename and its verification, or completing a file
  that is being downloaded; one file at most.
- *Accounts.* Each caller calls once; three calls let a third observe what two left. A purge
  removes one legacy account per call.
- *`MaxRequests`.* Four requests of the window in a run: a launch, a refused second one, another
  action and another launch. In `service`, three of five
  (two that change builds, a cancellation, an image, a malformed line): a cancellation and any two
  others, which is enough for an operation at work, a request that is refused beside it and a cancellation.
- *`OrdinaryPermits`, `ControlPermits`, `Capacity`, `MaxInput`, `MaxProgress`.* 32, 8 and 256 in the code. With two ordinary permits two
  requests take them all, and one control permit is enough for one cancellation, which is what `CancelIsCarriedOut` presupposes; any two frames fill
  a channel with room for one.
- *Updaters.* Two, for one installation: a third would wait for the same lock. The new file stands between two old ones, so that
  a rollback removes and restores.
- *`MaxFaults`, `MaxErrors`, `MaxCrashes`, `MaxEnds`.* Two failures let a step and its undo both fail; the runtime has a third, for the
  repair that comes after. One end of the process at any point, followed by further calls.
- *`MaxCalls`, `MaxPreparations`.* Two calls of a caller, or three operations on the builds: the first leaves something, the second
  fails on it, the third meets the result.
- *`MaxEdition`, `MaxVersion`.* Two: an old one and one that replaces it.
- *Projects.* A mod that requires a library in its first version, two mods of CurseForge that require each other,
  and a local file with the name of the library's second version: a chain, a cycle, a conflict of names.
- *`MaxPreviews`.* Four in the code, one here: when they are all taken, the next preview discards them.

### Fairness

No user action, no request, no end of a game and no failure is fair: they may happen or never.
What is weakly fair is what a scheduler owes to a task that is ready:

- `LaunchWorkflow`: the steps of a spawned task and of the waiter after the game has ended (Tokio polls
  spawned tasks; stages have network timeouts); nothing is assumed of requests and of stop calls,
  which the two promises do not wait for;
- `DownloadWorker`: the next step of a started execution, as each await in it has a timeout. `Watched` are the executions
  whose return is asked for; their rivals need no fairness, as a part lock that is taken is an error and not a wait;
- `CancellationToken`: the second step of `cancel()` and the steps of a waiter that is not asleep;
- `Accounts`: the steps of a begun call, whose callback has a deadline;
- `LauncherWindow`: the Qt event loop reads a frame, the timer expires, the disconnect is noticed;
- `ServiceLink`: the reading and the writing thread.

In `ServiceLink` the step of a task is strongly fair, because the last one is enabled only now and then: a place in the channel
is free, and taken by others, again and again, and the channel serves its senders in their order. Nobody waits for the guard: `try_lock` takes it or
gives up. The wait for the network (`Leave`) is strongly fair as well: it has a timeout, whether or not a cancellation comes.

Of the waiter in `LaunchWorkflow` the fairness is idealised in one place: when the child has ended, the waiter reads the game's output to its end
(`launcher/process.rs:123`), without a timeout, so a process the game has left behind with the same pipe can hold up the report.
`GameEndIsReported` speaks of games whose output ends with them.

`UpdateTransaction`, `ManagedRuntime`, `VersionInstall` and `BuildLibrary` state no fairness, and no
liveness: each of their steps may be the last one before the process ends.

Deadlock is checked for the launch workflow. The other models end (all calls made, all updaters
gone, the window closed), and their configurations say so.

## 4. Findings

1. **A window that has lost its core cannot be closed after a launch** (`window_lost_core`). `src/apps/qt/src/backend.cpp:27`
   tells the user to restart the launcher. The handler of the disconnect (`window.cpp:298`) clears `ready_` and `busy_`
   but neither `running_` nor `operationId_`, and `closeEvent` (`window.cpp:609`) refuses as long as either is set; no
   event will clear them. TLC's run: play, the answer names the operation, the core dies.
2. **A cancellation before the launch is answered has no effect on it** (`window_cancel`). Without an
   `operationId_` the window sends `cancel_content_operation` alone (`window.cpp:597`) and shows
   "Останавливаем операцию…" (`window.cpp:601`). The launch is not a content operation, and goes on.
3. **A cancellation between the guard and the new token is lost** (`service_cancel`). `dispatch` takes the guard (`api.rs:64`), asks for active
   operations (`:65`) and only then throws the old token away (`:68`); `cancel_content_operation` (`:115`) takes no guard. One that is handled in between fires
   the old token, is answered with success, and the operation goes on, while the window shows that it is being stopped (`window.cpp:601`).
   `CancelHitsItsTarget` says what does hold: once the operation has its token, and so whenever the window has heard of it, no cancellation misses it,
   also if other requests are refused meanwhile.

Met while modelling, and stated as limits of a property rather than as findings:

- Two overlapping stop calls: the one that fails because the first has already killed the game removes the flag
  of both (`launcher/mod.rs:422`), and the stop is reported as a crash. The web interface holds the second call back
  (`GameActivity.tsx:50`), the window does not. `StopEndsCleanly` is stated for calls without a rival.
- An updater that dies in the middle leaves a mixed installation with the old files in its backup directory;
  `src/docs/audit/2026-09-08-stability.md:18` makes no promise about power loss. `OldFilesArePreserved` says what holds.
- For a file without a hash, a crash between the two renames of the final step is repaired by nobody: the
  part that then takes the place is not known to be good. `ReplacedOnlyByVerified` speaks of hashed files.
- `mark_spawned` would overwrite a finished state if it were called on one. Its clients do not:
  `WorkflowUsesRegistry` proves it.
- *Content.* Two mods that pin different versions of one requirement: the one installed last decides
  (`RequiredAreEnabled` asks that a required project is there and on, not which version it has). A requirement of a CurseForge mod that is
  installed and off stays off. A pack may take the file name of another row; `RowsMatchFiles` excuses that build.
  The repair of a CurseForge pack does not remove the files of replaced rows.
- *Builds.* `create_build` uses two transactions, and a failure between them leaves a listed build that is not selected. A failure of
  `copy_build` after the build's row leaves a listed copy with part of the content's rows. Deletion of the last build leaves the
  profile pointing to its directory.
- *Runtimes.* With a current backup and a legacy one that cannot be deleted, every later start is refused as
  inconsistent; `GapIsReported` says that this is at least reported.
- *Installation.* The marker is one row per version for all game directories (`storage/mod.rs:346`), and the
  natives are not checked when it is set: `ReadyIsComplete` promises the wanted natives only for builds whose last installation has completed.
  `NativesAreKept` counts damaged natives as natives, as the code does.
- *Service.* A malformed request is answered with the id `null` (`launcher-service/src/main.rs:117`), which the window takes for
  a broken core. A line that is too long (`main.rs:95`) ends the process; that is not modelled.
- *Update.* The updater waits for the window's process, not for the core's.
- *Profile.* Only `select_build` (`storage/mod.rs:560`) carries the Java choice of a build over to the profile. `commit_pack` (`storage/mod.rs:514`) and
  `delete_build` (`storage/mod.rs:679`) make another build the active one without its `java_override`. The profile's Java is not modelled.
- *Accounts of builds.* `select_build` and `update_build_preferences` (`storage/mod.rs:469`) make the account of a build the active one outside the
  mutex of the account service. `Accounts` has the calls of that service only: `ChangesAreAtomic` says nothing of a build
  selected beside a login or a skin change.

## 5. Proofs

All theorems hold for every value of the constants that satisfies the named assumptions: `NoOp` is
no operation id, versions and profiles are disjoint, the bound of the history is a natural number, `NoRequest`
is no request, requests and operation ids are disjoint; a package is a sequence of different files; `NoPath` is no path; `MaxEdition`
is positive; the permits are numbers, the channel holds at least one frame, and no request that changes builds is one to cancel; the `No...` values are no members of their sets; every version of
a project has a file name, packs and requirements name projects there are, no two files of a pack have one name (`security.rs:237`, `curseforge.rs:884`), a
local project is its file name (its id is a hash of it, `content.rs:2236`), a project of Modrinth requires none of CurseForge, and the file that
stands for configuration is no content; the files of Forge are not among those that content and
configuration use (they lie under `libraries`, the others under `mods`, `config` and the like). Two sets have to be
finite: that of the files to download, and that of the projects. The bounds on
faults, crashes and calls are arbitrary too, so the theorems hold for any number of them.

| Module | Proves about | Inductive invariant |
|---|---|---|
| `LaunchWorkflowProofs` | `OperationRegistry`, `LaunchWorkflow`, `ExclusiveUse` | `RegistryInv`, `WorkflowInv`, `OutcomeInv`, `UseInv` |
| `DownloadWorkerProofs` | `DownloadWorker` | `DownloadInv`, `ProgressInv`, `AttemptsInv` |
| `ServiceLinkProofs` | `CancellationToken`, `ServiceLink` | `TokenInv`, `ServiceInv` |
| `LauncherWindowProofs` | `LauncherWindow` | `WindowInv` |
| `UpdateTransactionProofs` | `UpdateTransaction` | `UpdateInv` |
| `PreparationProofs` | `ManagedRuntime`, `VersionInstall` | `RuntimeInv`, `InstallInv` |
| `BuildLibraryProofs` | `BuildLibrary` over `BuildContent` and `FileChanges` | `LibraryInv`, `RepairInv`, `ContentInv`, `MatchInv`, `StackInv` (in `BuildLibraryInvariants`) |
| `AccountsProofs` | `Accounts` | `AccountsInv` |

**LaunchWorkflowProofs: the registry.** `RegistryInv` = type, `SlotsMatchRecords`, `TerminalHistory` and
`TokenMatchesState`. It is inductive as it stands (`RegistryIsConsistent`), because the slots have to be
known in both directions: that whoever holds a slot is live makes `Begin` keep the records of others,
that every live record holds its slot makes `Finish` release the right one. `TerminalHistory` needs
that an id in the history is present and not live, so that `Begin` draws no id that is still in it, and
appending a live id introduces no duplicate. `RegistryTypes`, `SlotsAlwaysMatch`,
`HistoryIsTerminal`, `TokensMatch` follow; `VerdictsAreFinal` is the action property.

**LaunchWorkflowProofs: the workflow.** The safety properties are not inductive: they depend on who owns an
operation at every point. `WorkflowInv` adds to `RegistryInv`:
*Shape* (positions and their arguments fit together), *GuardHeld* (whoever is inside holds the
guard), *AdmittedAlone* (while a request is admitted and has begun nothing, no operation is live), and *Ownership* (a live operation is
owned by exactly one of its task and its waiter; a running process has a waiter and a spawned
record). From it: `MutationsExcludeGames`, `CancelledNeverStarts`, `VerdictsAreStored`, and
`WorkflowUsesRegistry`, the refinement of the registry's specification with its precondition
on `mark_spawned`.

*How launches end.* `OutcomeInv` adds two things of every operation. `Reporting`: a terminal event is the last one and has been sent by
the owner that gave the operation up (its task or its waiter, and then the process registry holds nothing of it; the place in `activeProfiles`
belongs to a task on its way to the game or to a waiter that has not cleared it). `Stopping`: of the calls of stop for one game, as long as
none is a rival, at most one is not refused, and its flag stays up until the exit has been judged; so the judgement finds it.
`EndsAreLastAndFree` and `StopsEndCleanly` follow.

*Exclusive use.* `UseInv` adds to `WorkflowInv` that at most one operation is live
(`OneLive`), which the guard brings about; that a rewriting request is alone is `AdmittedAlone`. `WorkflowIsExclusive` shows that each step of the workflow is an
`Acquire`, `StartGame`, `EndGame`, `Release` or a stutter of `ExclusiveUse` under the mapping at the end of
`LaunchWorkflow`.

**DownloadWorkerProofs.** A job between its first poll and its end holds the lock of its file (`Working`), so nobody else touches part,
destination and backup in the meantime. `JobInv` says what it may rely on: the part is verified from the check up to the first rename, the destination after the second,
and the old file is in the backup while the swap may still fail. `FileInv` is what holds whatever happens: the file is its original or verified,
or it is missing with a verified part and its backup beside it. The last case is what a crash in the swap leaves; it is inductive because the next attempt finds
the verified part and goes straight to the swap, so no bytes arrive while the destination is missing. It is also why a job
never rejects its own new file unless another program interferes: a verified part that was moved is a verified destination. Theorems: `DownloadsAreConsistent`, `OkAlwaysMeansVerified`, `OnlyVerifiedReplaces`.

*The progress.* `ProgressInv` says that `completed` is the sum of what the jobs have reported, that a job reports no more than its file has, and
nothing before its first attempt (a file that turns out to be complete after the lock is taken is counted from zero). So a job never takes back more than
is there and the sum never exceeds the total: the saturation and the cap of `set_file_bytes` change nothing (`ReportStep`). What a fold makes of one changed summand is an induction over the
files. The theorems on induction take an operator, which the installed provers cannot instantiate; the lemmas on sums do without: of the
subsets for which a claim fails a smallest one is chosen (`MinimalSubset`), and that the fold's recursive equation has a solution is
shown for subsets of up to n elements at a time (`SumExists`). Theorems: `ProgressIsCounted`, `ProgressAddsUp`. They assume that
the files of the model are finitely many, as the lists given to `execute` are.

*The end of a download.* `EveryStepCounts` is the termination argument: `StepsLeft` counts the steps a job can still take, its attempts times one byte at a time, and
every step lowers it (TLC agrees on the instances of `download`), whether the server fails, starts over or sends a byte at a time. A new attempt may find fewer bytes than the last one had, as the part is thrown away when it is
damaged, so an attempt has to outweigh whatever a new one begins with. `AttemptsInv` (no job begins more than `MAX_ATTEMPTS`, none has received more than its
file has) keeps the count a natural number. Theorem: `StepsRunOut`. What is left to TLC of `ExecutionReturns` is that a job that has not ended can take a step, and does.

**ServiceLinkProofs.** `TokenInv` adds to `SleepersWillWake` that notifications are counted from zero and that no future
is created ahead of the counter. It is proved of `CancellationToken` by itself (`SleepersAlwaysWake`) and again under the callers in the service, where
a request under the guard renews the token (`ServiceSleepersWake`). `ServiceInv` adds: a line in the pipe is a request that was written once
(`PipeInv`); the event of a request is received, or in the channel before any answer to it (`FrameInv`), as the channel keeps the order and what it drops is
dropped when the window is gone; exactly the request between its claim of the guard and its end holds it (`GuardInv`); and nobody has heard of a request that has not
got its own token (`HeardInv`). A request that has got past that point never comes back to it (`Late`), so the token is renewed for others only, and
not while it holds the guard. Hence `AimInv`: a cancellation that found the present holder at work, or was asked for after the window had heard
of it, has taken the present token, and once it has fired it the token stays fired. Theorems: `ServiceIsConsistent`, `EventsComeFirst`,
`CancellationsHit`.

**LauncherWindowProofs.** The two properties speak of a window whose core lives and which has given up no answer, and so does `WindowInv`. `RequestsInv`: only the request whose answer is
awaited is under way in the core, and its answer is in the pipe at most once. `LifeInv(id)` lists, for each state of a game in the core, what may be in the pipe about it and what the
window makes of it: for instance, an operation that has ended, with no end in the pipe, is not followed, and if its answer is still to come it is among the completed ones. `LivesInv`: at most one
operation is *unsettled* (live, in a frame, announced or followed), and none when the window asks for the next. The last is what makes room for the bounded set of completed operations:
one that is still needed is never the one evicted. Theorems: `WindowIsConsistent`, `LiveGamesEngageWindow`, `WindowAgreesWithCore`.

**UpdateTransactionProofs.** `AllOrNothing` and `OldFilesArePreserved` speak of the end of an update; `UpdateInv` says at each position what they
rest on. An updater between *acquired* and its leave holds the mutex, so at most one changes `target`. Its journal
holds exactly the files before its position (and the one in hand), and each entry suffices to put the file back: the content of `before` is in
the backup directory, or the file was missing. Hence a complete rollback ends in `before`, and one that fails at some
file still has its backup. `OldFilesAreSomewhere` is the stronger form of `OldFilesArePreserved` which survives
the death of an updater between its last file and its leave. Theorems: `UpdateIsConsistent`, `UpdateTypes`, `UpdatesAreAtomic`, `OldFilesAreKept`.

**PreparationProofs: the runtime.** `Knows(c)` is what a call has learnt of the homes and relies on later: after the probes, that
there is at most one backup, that the final home is gone while the candidate is moved in, that the candidate works. It
is preserved by other calls because `installing` admits one installation per major (`OneInstalls`), and by
a crash because nobody is there afterwards (`NobodyWhenDown`). `ChoiceIsHeld` ties memory, file and acknowledgement
together. Theorems: `RuntimeIsConsistent`, `RuntimeTypes`, `GapsAreReported`, `ValidRuntimesAreInPlace`, `ChoicesSurvive`, and the action
property `WorkingRuntimesAreKept`.

**PreparationProofs: the version.** `PartsAreThere` says for every position which parts have the wanted edition already, which no
later step of the same preparation takes away. `VouchedAgree` is about directories nobody works on: where the
marker is trusted for the natives, they are of the edition of the version file beside them, unless either was damaged.
Together they make `ReadyIsComplete` inductive. Theorems: `InstallIsConsistent`, `InstallTypes`, `ReadyVersionsAreComplete`, and
the action properties `VerifiedPartsAreKept`, `NativesAreNeverLost`.

**BuildLibraryProofs.** One operation runs at a time, so the invariant is about what it knows at its phase. `PhaseInv`: which operations reach
which phase, and whether their build has a row. `TxInv`: a transaction belongs to the operation; the one that installs Forge puts both files in place or has them
still to do, and every other keeps to the paths of content and configuration, so that it can not take a file of Forge away. `ShelfInv`: a build gets its row only when
what the row promises is there, which is what the phases before the insertion collect (`NextInv`), and a build that has one stays launchable
(`Launchable`) unless an undo failed or the user took a file, which `torn` and `excused` remember; `Trashing` is the moment at which the directory is in the trash and the row
still there, and moves back from there. `SelectionInv` says `SelectionIsWhole` without a count. `SwitchInv` is needed because a row is
switched by writing it anew: it must be a row of the build. Theorems: `LibraryIsConsistent`, `SelectionsAreWhole`, `ListedBuildsCanBeLaunched`.
`RepairInv`, on top of it, is about repairs: the transaction of a repair keeps away from the file the user may edit, or that file was not edited when
the transaction began, so that neither its changes nor their undo can put anything in the place of an edited one (`EditsSurviveRepairs`).

*The content of builds.* `ContentInv` follows the files through a transaction. `Had(b, path)` is whether the build had a file there before the
transaction, which what it saved (`tx.done`) tells of the paths it has changed, and `WillHave(path)` whether it will have one when the transaction
is through, which `tx.todo` tells of those to come; a step of the transaction changes neither (`FileStep` spares them, since by `TidyInv` no path occurs twice),
and undoing gives back what was had or tears the build. `CommitInv` and `FilesInv` say what the operation is going to write and that the plan it began
with gives exactly the files which that wants and takes away only files of the rows it replaces (the `...Begins` lemmas, one for each operation
that begins a transaction). `RowsInv` keeps the files of two rows apart, `MovedInv` and `CopyInv` know where the file is while a row is switched and a build copied,
and `KeptInv` is `NothingIsLost` in these terms. The steps of the library are sorted into sixteen kinds by what they do to rows and files (`StepKind`, lemma
`Steps`), and each kind keeps the invariant. Theorem: `NothingGetsLost`.

*Rows and files.* `MatchInv` says that the files a build had before the transaction are those of its rows (`Agrees`), the file that
a switch has renamed counted under its new name. It holds of every build that is visible: one that is listed and not being copied, one that has no directory
yet, and one that is being made, which has no row but is filled with what its rows will say. A build leaves and enters this set only as `Follows` tells (an
operation keeps to its build; a directory comes from a cleared or a new one). When the rows of a transaction are written, `CommitInv` and `FilesInv` have
said exactly which files will be there, so that the rows name those and no other. Builds without a directory
belong to it since a creation begins with one: it has neither files nor rows. Theorem: `RowsAlwaysMatchFiles`.

*Requirements.* `RequiredAreEnabled` speaks of the end of an installation, and `StackInv` of its stack. A requirement that no longer stands
before its project (`Provided`) is `Ready`: it has a row, the row is on, and its file is there or was before the transaction that runs. Every step of the
installation keeps what is ready: the update of one project takes no file of another, since the rows of a build that is not excused have different names
(`RowsInv`), and keeps its own flag (`StackShape` says that what will be written is `StaysOn`); a switch moves the file of a row that was off, which
was not ready (`InstallSwitches`). A transaction that is being undone says nothing, as the installation then fails. When the rows of the last
project on the stack are written nothing stands before it any more, so that all it requires is ready (`AllIsReady`). Theorem: `RequirementsAreAlwaysEnabled`.

**AccountsProofs.** Only the request that holds the mutex touches the stores, and `StoresKnown(c)` says how far they are from `before`: nothing
has changed up to its first write; between its writes exactly the token of its account has, and the old one is in
`previous`. So the compensation restores `before`, and a crash in between tears exactly that account (`AccountsMostlyAgree`). `OneActiveIfAny`
is kept by `delete_account`, which activates another account, and by an activation, which makes the others idle. Theorems: `AccountsAreConsistent`, `AccountsTypes`,
`StoresAlwaysAgree`, `ChangesAreAlwaysAtomic`, `LoginsAreReachable`, `AccessBelongsToActive`; that is, all of the run `accounts` but `LoginsEnd`.

TLC finds the inductive invariants to hold on the instances above; they are not part of the runs, as they are proved.

Only model-checked, and why:

- Liveness and fairness, which are out of TLAPS' reach: `GameEndIsReported`, `CancelIsHonoured`, `ExecutionReturns`, `RequestsAreAnswered`, `CancelIsCarriedOut`, `BusyEnds`, `LoginsEnd`.
- The three findings, which are counterexamples.

## 6. What is not modelled

- *Pure data*: construction of the command line, parsing of metadata, redaction of game output, skins,
  path checks, the rendering of pages. They have no order to get wrong; their tests are examples.
- *In the registry of processes*: the eviction of old records and the status query.
- *In admission*: `import_mrpack` is not in the list of mutating methods and so takes no guard (the
  window uses preview and confirm instead); the decoding of parameters.
- *In the updates*: `check_update`, which selects a release by comparing versions.
- *In the installation*: which libraries, classifiers and assets a version has (rules and inheritance are pure data); what an
  archive of natives may contain. A directory left in place of the natives is taken as it is by `recover_interrupted`.
- *In the runtimes*: the catalogue of Java builds and the format of archives; several majors at once (they share nothing but the
  file of choices). `detect_runtime` and the status query run beside an installation without its lock; the model lets them read
  at any time and keeps only what they store.
- *In the content*: search and descriptions, the checks of archives, the choice among published versions; that CurseForge packs download
  before the directory is made; `import_mrpack`. Removal of an empty directory after a confirmed pack. A pack's overrides are one file of configuration: those that
  land under `mods` (`content.rs:1243` to `1290`), where rows have their files, are outside, as `ConfigPath` is assumed to be no content (without a row of their own
  they would be files no row names). The user edits and removes files between operations only, so a change that falls between the check of
  `content.rs:1264` and the write of `:1319` is outside too, and `EditsSurviveRepair` does not speak of it.
- *In torn builds*: the directory of a build that stayed in the trash keeps its files in the model; that a repair would make a new, empty directory in its place
  is not followed. `RowsMatchFiles` and `ListedCanBeLaunched` do not speak of such builds.
- *In the storage*: migrations; `update_build_preferences` (not one transaction, `storage/mod.rs:408`) and
  `update_build_identity`, which change single values of one row; the Java choice in the profile.
- *Hazards without a property in a run*: two overlapping stop calls (`launcher/mod.rs:422`); a refresh token that the server has
  rotated when a later step fails (`auth/mod.rs:339`); the eviction of finished operations (`installer/mod.rs:318`), of which the theorems
  `HistoryIsTerminal` and `SlotsAlwaysMatch` speak.

- *In the downloads*: the backoff sleeps do not listen to the cancellation; the model lets a job wake up
  and notice then.
- *In the window*: the early return for events of other operations is in the model, but the core, as specified,
  never sends such an event; requests that only read; errors that only show a text; requests refused locally
  because the queue is full.

## 7. Plan

Done, in this order: the registry and its proofs; the workflow, its refinement and proofs; the token; the
downloads; the updater; the accounts; the window; the managed runtimes; the installation of a version; the service
process with admission's content token; file transactions, content and builds; the hand-over to the updater; proofs for the updates, the
runtimes, the installation, the accounts, the downloads, the service, the window, the end of launches and the library of builds.

The registry has no run of its own: its invariants are proved, and `launch` checks that it is used as
specified. The token is checked in `service`, where it has its real callers. One run covers both shapes of download, and one the safety and
liveness of accounts.

Next, in order of what can go wrong:

1. A refresh token that the server has rotated, as a third place beside row and keyring in `Accounts`.
2. `update_build_preferences` and the other edits of a single row, with the failures between their statements.
3. A promise for overlapping stop calls, once the code makes one.
