# A formal model of apexd

`apexd` is the Android daemon that installs, activates and rolls back APEX
packages. This directory holds TLA+ models of the parts of it that keep state,
the TLC configurations that check them on small instances, and TLAPS proofs
of what holds for every instance. Paths below are relative to `src/apexd/`
unless they say otherwise.

## 1. The system

### 1.1 What apexd does

The package installer puts the APEX files of an update into staging directories
`/data/app-staging/session_<id>` and calls apexd over binder:

1. `submitStagedSession` forgets older sessions, protects the packages in
   `/data/apex/active` (with a vold checkpoint, or with a backup of hard links
   in `/data/apex/backup`), verifies the new packages by mounting them at a
   temporary place, and records the session as `VERIFIED`;
2. `markStagedSessionReady` records it as `STAGED`;
3. after a reboot `onStart` links the packages into `/data/apex/active`, removes
   the versions they replace and records `ACTIVATED`; then it mounts and
   activates the packages of `/data/apex/active` and of the builtin
   directories;
4. `markStagedSessionSuccessful` deletes the backup and records `SUCCESS`; or, if
   updatable processes crash or an activation fails, the session is rolled back
   from the backup and the device reboots.

An activated package is a loop device over the file, a dm-verity device over
that (not for builtin packages), a mount on `/apex/<name>@<version>` and, for the
newest version, a bind mount on `/apex/<name>`. `gMountedApexes` is apexd's
in-memory table of those mounts.

apexd is a critical service of class core: when it dies, init starts it again,
and mounts, loop devices and the disk are as it left them.

### 1.2 Components

| component | state | operations | model |
|---|---|---|---|
| session store (`apexd_session.cpp`) | `/data/apex/sessions/<id>/state` | list, create, commit a state, delete | `SessionStore`, `StagedSessions` |
| staged sessions (`apexd.cpp`) | session store, `/data/apex/active`, `/data/apex/backup` | submit, ready, successful, abort, roll back, resume, stage at boot | `StagedSessions`, abstractly `SessionLifecycle` |
| staging of packages (`apexd.cpp`) | `/data/apex/active` | `stagePackages`, `unstagePackages` | `StagedSessions` |
| boot sequence (`apexd.cpp`, `apexd_main.cpp`, `apexd_prop.cpp`) | phase of the process | `onBootstrap`, `onStart`, `waitForBootStatus` | `StagedSessions`, `ApexMounts`, `ApexVerification` |
| activation and mounting (`apexd.cpp`, `apexd_private.cpp`, `apexd_loop.cpp`) | loop and dm devices, mounts, bind mounts | activate, deactivate, mount, unmount, scans, dangling mounts | `ApexMounts`, abstractly `MountedPackages` |
| database of mounts (`apex_database.h`, `.cpp`) | `gMountedApexes` | add, remove, set latest, populate from mounts | `ApexMounts`; coarsely `StagedSessions`, `InstallHooks` |
| checkpoint client (`apexd_checkpoint_vold.cpp`) | none; vold keeps it | start, abort, queries | `StagedSessions`, vold external |
| binder service (`apexservice.cpp`) | thread pool | one method per operation, debug-only gating | `Request` in both |
| hooks (`apexd_prepostinstall.cpp`, `apexd_utils.h`) | temporary mounts, a child process and its mount namespace | preinstall, postinstall | `InstallHooks`; their mounts also `ApexMounts` |
| trusted keys (`apex_key.cpp`) | `gScannedApexKeys` | collect, look up | `ApexVerification` |
| verification, shim (`apex_file.cpp`, `apex_shim.cpp`, `apexd.cpp`) | none; read at submission, staging and mounting | `VerifyApexVerity`, `VerifyPackageBoot`, `VerifyPackageInstall`, `ValidateShimApex`, `ValidateUpdate` | `ApexVerification` |
| manifest parsing, status helpers, apexer, host tests | – | – | not modelled |

How they interact: handlers on binder threads and the main thread (in
`waitForBootStatus`) share the session store, the directories and
`gMountedApexes`, without any lock. `onStart` runs before the service is
registered, so it never overlaps a call. A hook runs in a child process that
shares nothing with apexd but what is mounted, in a mount namespace that it first
copies and then detaches from the others. vold is called synchronously, but what
a checkpoint does happens at the next reboot.

### 1.3 What is hard

* **Crashes.** Each handler is a sequence of file system calls, and no
  two of them are atomic. A half-done backup, stage or rollback must be
  repairable from what is on disk.
* **Order of commits.** A state is committed before or after the files it talks
  about, and each order is right for one crash and wrong for another.
* **Failures whose status is only logged**: scope guards, commits at the end of
  a loop, destructors of devices.
* **Interleaving** of handlers that read a state first and commit one later.
* **Checkpoints** that take effect, and undo everything, at a later reboot.
* **Restarts** in which mounts survive and the database does not.
* **Trust that outlives its reason**: a file is verified at submission, at staging
  and at each mount, and the keys it is verified against come with a system image
  that may be replaced in between.
* **Mount namespaces** that copy, propagate and detach mounts: a call cleans up in
  `/apex` while the hook of another call runs from it.

Section "hazards" of `PROJECT.json` lists these at their lines, with the
properties that cover each one.

## 2. Modules

```
SessionStore        operators on the persisted records
SessionLifecycle    abstract: the life of a session
StagedSessions      detailed: sessions, files, vold, threads, crashes
  MCStagedSessions  its instances for TLC
  StagedSessions_proofs   TypeOK
    Lifecycle_proofs      SessionInv, refinement of SessionLifecycle
      Backup_proofs       BackupInv, rollbacks, staging
MountedPackages     abstract: what /apex shows
  MountedPackages_proofs  what follows from it
ApexMounts          detailed: devices, mounts, database, restarts
  MCApexMounts      its instances for TLC
  ApexMounts_proofs   its invariants
    Promises_proofs   refinement of MountedPackages
ApexVerification    keys, checks, system updates, bootstrap
  MCApexVerification  its instance for TLC
  ApexVerification_proofs   its invariants
InstallHooks        hooks, child processes, mount namespaces
  MCInstallHooks    its instance for TLC
  InstallHooks_proofs   its invariants
```

### 2.1 StagedSessions

*State.* The disk (`sessions`, `active`, `activeDir`, `backup`, `backupDir`), vold
(`checkpoint`, `snapshot`), the mounts (`mounted`, `latest`), the process
(`phase`, the two globals `gSupportsFsCheckpoints` and `gInFsCheckpointMode`, and
whether a reboot was asked for), and per handler a label (`pc`), local
variables (`frame`) and whether a state file is open for writing (`opened`).
Packages are records of a name and a version; a directory is the set of
packages in it, as a file's name is made of name and version.

*Steps.* One step per system call that changes the disk: each link, unlink,
rename, truncation, write. Code between two of them is one step. A label names
what comes next. A directory is listed once and its files are then visited from
the handler's `todo`, in any order.

| code | labels or actions |
|---|---|
| `UpdateStateAndCommit` | `OpenStateFile`, then `Commits`, `CommitFails` or `CommitLost`, at each label `commit...` |
| `submitStagedSession` | `clear`, `protect`, `backup`, `backupClean`, `backupLink`, `backupUndo`, `verify`, `commitVerified` |
| `markStagedSessionReady`, `...Successful` | `commitStaged`; `successClean`, `commitSuccess` |
| `DoRollback` | `restoreCheck`, `restoreDelete`, `restoreRename`, `restoreChmod`, and `commitRollbackFailed` for its scope guard |
| `RollbackActivatedSession`, `RollbackStagedSession` | `commitRollback`, then `DoRollback`, then `commitRolledBack`; `commitStagedRollback` |
| `stagePackages` | `stageVerify`, `stageLink`, `stageUndo`, `stageRemove` |
| `onStart` | `onStart`, `voldRollback`, `collectKeys`, `stageScan`, `resume`, `scanData`, `activateData`, `scanBuiltin`, `activateBuiltin` |
| `waitForBootStatus` | `UpdatableCrashing`, `BootCompleted` |

The functions `rollbackActiveSession`, `resumeRollbackIfNeeded` and so on are
called from several places; `frame.caller` and `Return` say where the status
goes. Failures of a kind are switched on by `Faults`; a step that then
fails takes the code's error path, including the scope guards.

*Two kinds of death.* `RestartProcess` loses the threads and the database and
keeps disk and mounts; `RebootDevice` loses the mounts too and lets vold put a
checkpoint in force or give `/data` back. `AbortProcess` is the `LOG(FATAL)` in
`SetLatest`. With `CrashAnywhere` they may fall between any two steps.

*History variables* `before`, `protection`, `accepted` and `restoring` say what
the last submission protected and how, and whether a restore is half done.
No guard reads them.

*Coarse here, fine in ApexMounts.* Mounting a package is one step here.

### 2.2 SessionLifecycle

What apexd promises about the records: one session is alive at a time, a new one
is recorded only when the store is empty, states follow the diagram

```
NONE -> VERIFIED -> STAGED -> ACTIVATED -> SUCCESS
                      |  \        |
                      |   \       v
                      |    \  ROLLBACK_IN_PROGRESS -> ROLLBACK_FAILED
                      v     \     |
        ACTIVATION_FAILED    v    v
                           ROLLED_BACK
```

any record may be discarded, and a checkpoint may rewind the whole store.
`FollowsLifecycle` is the refinement; the abstract variables are `sessions`,
whether a checkpoint is in force, and the sessions in vold's snapshot.

### 2.3 ApexMounts

*State.* The kernel: `loop` (backing files), `autoclear`, `dm` (the loop device
under each dm device), `mounts`, `bound` (bind mounts on `/apex/<name>`). The
process: `db` and `latest`, and one handler's `pc` and `frame`. The files that
can be opened. A mount point is a record of name, version and whether it is the
`.tmp` one.

*Kernel rules.* `LOOP_CLR_FD` on a busy device marks it to go with its last user;
a dm device that is mounted, or still read through a bind mount after a lazy
unmount, cannot be deleted; loop devices are handed out lowest first.

*Handlers.* `activatePackageImpl` goes through `mountPackage` (create the loop
device, up to three attempts), `verity`, `mount`, `unbind`, `bind`.
`verifyPackages` does the same on the `.tmp` point without an entry in the
database and then unmounts; preinstall mounts, runs the hook and unmounts.
`Unmount` is one step: its three calls touch nothing that another handler
sees in between. `onStart` is `Populate`, then a scan of `data` and one of the
builtin files. The order of the database's multimap matters where the code
searches it by path: `FirstOf` and `LastOf` follow the order by loop device.

*History variable* `spoiled` is the set of kinds of misfortune since the device
booted (`activate`, `bind`, `umount`, `dm`, `restart`, `check`, and `twice`: a
restart found a file mounted on both of its mount points). Properties that
a failed kernel call excuses name exactly that kind. For example, when
`umount2` fails on a verification's temporary mount and the process is then
restarted, the database holds a file twice, `RemoveMountedApex` (which compares
paths) may take the wrong entry, and a later mount can fail
`CheckUniqueLoopDm`; TLC found this path, and the properties except it.

*Promises.* `KeepsPromises` is the refinement of `MountedPackages`: its files are
those of mounts and database entries, its `visible` the bind mounts.

*One handler at a time.* `apex_database.h` has no lock (TODO at line 197), so two
handlers inside it are a data race; `ApexMounts` therefore runs them one by
one. The interleavings that are not undefined, those on the disk, are in
`StagedSessions`.

### 2.4 MountedPackages

What apexd promises about `/apex`, without devices and handlers. A name is empty
or shows one version; it passes from one version to another by way of empty
(`Hide`, then `Show`), and only for a version that is mounted, known and not older
than another that is known; a package is forgotten, and its name emptied, before
it is unmounted. `fresh` says that no process has died since the device booted.
A successor (`Recover`) knows what is mounted and may take any version for the
active one; it may confuse two mounts of one file (`Misremember`), show the other
mount of the version that it activates, and unmount what it still knows. That
is as much as the code keeps after a restart, and runs `mounts` and
`restarted_mounts` show why it is not more.

### 2.5 ApexVerification

*State.* The system image that runs (its builtin directories, whether it is
debuggable and updatable), `/data/apex/active`, the session with its backup, the
keys, what `onBootstrap` and `onStart` do next, and what is mounted for each of
the two processes. A file is a record of what the checks ask of it, one
field for each thing that can be wrong. `linkedIn` (history) is the image under
which a file was put into `/data/apex/active`; `reboots` counts the reboots that
apexd asked for since anything else happened.

| code | definitions |
|---|---|
| `collectApexKeys`, `updateScannedApexKeys` | `CollectKey`, `CollectFails`, `CollectedDir` |
| `VerifyApexVerity` and its helpers | `VerifyPublicKey`, `VerifyVbMetaSignature`, `FindDescriptor`, `VerifyApexVerity` |
| `VerifyManifestMatches`, `ValidateShimApex`, `ValidateUpdate` | `VerifyMountedImage`, `ValidateShimApex`, `ValidateUpdate` |
| `VerifyPackageBoot`, `VerifyPackageInstall` | the operators of these names |
| `scanStagedSessionsDirAndStage`, `scanPackagesDirAndActivate` | `StageSession`; `ScanPackagesDir`, `ActivateOne`, `ActivatedDir`, `RollbackActiveSessionAndReboot` |
| `onBootstrap` | the same steps with `bootstrap` set |

Sessions and mounts are coarse here: crashes between their steps belong to
`StagedSessions` and `ApexMounts`. The properties are stated with `SignatureTrusted`,
which looks at the builtin packages of the image and not at the keys that the
process happens to hold, so that a wrong list of keys shows.

When the keys cannot be collected, `onStart` returns early and the service
starts (`broken`). On a debuggable device the missing keys then make a preinstalled
package look like one that is not, and `SignatureTrusted` allows its bundled key
in that case only.

### 2.6 InstallHooks

*State.* `dirs` (directories in `/apex`, which all namespaces share), `mounts` for
each mount namespace, `shared` (namespaces that still propagate), dm devices,
files; the database; each call's label and locals (`mounted_apexes`,
`activation_dirs`), its child's label, and the main thread in
`unmountDanglingMounts`.

*Kernel rules.* `unshare` copies the mounts, which propagate both ways until
`MS_PRIVATE`; `rmdir` of a directory that is no mount point in the host's namespace
succeeds and detaches whatever other namespaces have mounted there; a dm
device is busy while any namespace has it mounted or a hook runs from it.

*Steps.* `StageFnInstall` is `IsMounted`, `MountPackage`, `AddMountedApex` and
`MakeActivePoint` for each package, then `Fork`, `WaitChild` and the scope guard
(`UnmountPackage`, `Unmount`, `RemoveActivePoint`), to which every failure jumps.
The child is `Unshare`, `MakePrivate`, `Unbind` and `Bind` for each package and
`ExecHook`. The database has no lock; each access is one step here, and the
data race itself is not modelled.

*History variables.* `disturbed`: another thread unmounted a package of the
call, for example `unmountDanglingMounts`, which takes a package that a call has
mounted for a dangling one, or a second call of the same package that cleans up
first. That may also be past: `unmountDanglingMounts` makes its list once, so it
can unmount a package between a call's `MountPackage` and its `AddMountedApex`;
the entry is then stale, and the next call that finds the package in the database
does not mount it. The hook may then miss it, and `HookSeesPackages` leaves the
call out; what is left behind is still clean. `remade`: an active point that a child had to
make again, since `BindMount` makes it if it is missing and nobody removes it.

The TODO at `apexd.cpp:295` asks whether an existing dm device can be met although
unmounting tears devices down. It can: a device that another hook's namespace
keeps busy stays, and `LeftoverIsReplaceable` says that it is free once the
calls are over.

## 3. Runs

Parameters: `Threads` is how many handlers may overlap; package `a` has versions 1
and 2, package `b` has one.

| run | instance | shows |
|---|---|---|
| `sessions` | 2 sessions (one updates `a` and installs `b`, one sets `a` to version 1), crashes anywhere, all file system failures | types, one active session, the backup is intact and resumable, a rollback restores, a staged package replaces before it removes, an activated session is installed, the life cycle |
| `orderly` | the same without crashes inside a handler; debug calls, a builtin version 1, any initial version | an activated session is the newest; `stagePackages` is all or nothing |
| `progress` | 1 session, crashes, state files seen truncated, failing activations, fairness | rollbacks finish, staged sessions are decided, handlers end; a half-done restore is always recorded, and a rolled back session is undone |
| `checkpoint` | 1 session, a device with checkpoints | nothing is activated between vold's rollback request and its settlement; the life cycle with rewinds |
| `mounts` | 4 files of one package (builtin 1, data 2, the same version 2 in staging, flattened 3), 2 loop devices, versions above 2 not an `int`, all kernel failures, restarts | database and kernel agree, devices are freed, the reported versions are the bound ones, a boot activates the newest; `MountedPackages` is implemented |
| `verification` | 5 system images (another key for package `a`, a shim that lists no update, two keys for one package, an unreadable package, a device that is not updatable), files with each defect the checks look for, 16 sets of them to submit, restarts, updates at any time | only trusted packages are mounted, the keys are those of the image, installed files were verified, builtin packages stand in for failed ones, no reboot loop |
| `hooks` | 2 calls over 5 files of 2 packages, for the same or for different packages, with an older version dangling; every step of a call and its child failing | hooks see their packages, the host keeps the active versions, nothing is left mounted, devices left over are free, calls end |

The other five runs end in a counterexample. Each checks one statement that a
comment or a test of the repository makes, and `PROJECT.json` quotes it:

| run | statement | what happens |
|---|---|---|
| `torn_sessions` | a submit leaves only the new session | a crash between truncation and write leaves an empty record that parses as session 0, and its deletion removes another directory |
| `accept_crash` | aborting an `ACTIVATED` session restores the old packages | a crash after `DeleteBackup` and before the commit of `SUCCESS`, then an abort: an emptied backup is restored |
| `accept_race` | only `ACTIVATED` sessions are accepted | a rollback on another thread between the read and the commit |
| `stage_crash` | staging an older version removes the newer one | a crash between link and removal; the next boot filters the package out and keeps the newer version |
| `restarted_mounts` | the database is synchronised with the mounts at start | a crash between mount and bind mount: the version is reported active and never bound |

### 3.1 Bounds, and why they are enough

* Two sessions are the least with an older one to clear and, in `orderly`, one
  session that downgrades what another installed. Deletions and commits concern
  one session at a time, so a third adds repetitions only.
* Two versions of one package give every order relation the code asks about
  (older, same, newer); the second package makes sessions of two packages, so
  that a handler can stop half-way through its files.
* Two handlers suffice for `accept_race`. The other runs have one; the code has no
  locks, and with two the properties about a handler's own files fail in the ways
  that `accept_race` shows.
* Two loop devices make the pool run out (a package, a temporary mount and the
  builtin version compete for them); three attempts are the code's constant.
* `IntMax = 2` puts version 3 beyond what `ParseInt` accepts, as a version of more
  than 31 bits is.
* In `mounts` a `LOOP_CTL_GET_FREE` or `LOOP_SET_FD` that fails out of the blue is not
  turned on: with two devices the pool runs out, which takes the same error
  path and its three attempts.
* In `verification` each defective file has one defect, since a check that fails
  ends the verification. The two builtin directories are the code's, so that the keys of
  one can conflict with those of the other.
* In `hooks` each call is made once (so the system may stop, and deadlock is not
  checked), and `unmountDanglingMounts` runs once, as in the code. Two calls are
  the least that disturb each other; packages of one call are bound one by one,
  so two packages show an order.
* There is no other bound: the state spaces are finite and explored completely.

Failures are set per run. `orderly` has no failing unlinks, because with one
`stagePackages` is not atomic (`RemovePreviouslyActiveApexFiles` runs after the
scope guard was disabled, and the comment there says so). `vold`, `keys` and
`sessions` failures are modelled, and no run turns them on: the code promises
nothing for them. The type theorem covers them, and what a service without all keys
may mount is a question of run `verification`.

`progress` leaves one failure out on purpose. When the commit of
`ACTIVATED` fails (`apexd.cpp:1453`) it is only logged: the session stays `STAGED` with
its packages installed, and rolling it back then only updates its state;
`RolledBackIsUndone` is therefore about boots whose commits succeed.

Deadlock is checked in every run but `hooks`: a reboot is always possible, so it says
little here; `HandlersEnd` is the statement that handlers do not get stuck.

### 3.2 Fairness

`FairSpec` assumes weak fairness of each handler's steps (a thread that has begun
goes on), of `AbortProcess` (a failed check does abort) and of the reboot after
apexd has asked for it. Nothing is assumed of requests, crashes or vold.
Liveness is stated under `StaysUp`: from some point on, only reboots that apexd
asks for. The faults in `progress` exclude commits; a commit
that fails at every boot keeps a session in its state for ever. State files may be
torn there, so that the progress does not rest on atomic writes.

`FairSpec` of `InstallHooks` assumes weak fairness of each call together with its
child, which take turns; a hook is external and may run for ever, and the
scheduler owes nothing to `unmountDanglingMounts`. `CallsEnd` says that a call ends
or waits for such a hook: the code has no timeout.

## 4. Proofs

The theorems hold for all values of the constants that satisfy the `ASSUME`s of
their modules: all sets of sessions, packages, files and system images, any number of
calls, devices and failures, crashes anywhere. The second column says what some of
them assume besides.

| theorem | assumes | establishes |
|---|---|---|
| `StagedSessions_proofs!TypeCorrect` | – | `[]TypeOK` |
| `SessionInvariant` | `Sequential` | `[]SessionInv` |
| `ImplementsLifecycle` | `Sequential` | `FollowsLifecycle` |
| `OneActiveSession` | `Sequential` | `[]AtMostOneActiveSession` |
| `BackupInvariant` | `WithoutCheckpoints` | `[]BackupInv` |
| `BackupIsIntact`, `RollbackIsResumable`, `RollbackRestoresActive` | `WithoutCheckpoints` | `[]BackupIntact`, `[]RollbackResumable`, `RollbackRestores` |
| `HalfRestoredIsOnRecord` | `WithoutCheckpoints`, `RestoreCallsWork` | `[]HalfRestoredIsRecorded` |
| `VoldRollbackIsHeeded` | `Sequential`, `VoldAnswers` | `NoActivationAfterVoldRollback` |
| `ReplacementComesFirst` | `WithoutCheckpoints` | `ReplacedBeforeRemoved` |
| `StagesAllOrNothing` | `Sequential`, no failing unlink | `StageAllOrNothing` |
| `ActivatedPackagesAreInstalled` | `Sequential`, `OneVersionEach` | `ActivatedIsInstalled` |
| `ActivatedPackagesAreNewest` | `Sequential`, `OrderlyDevice` | `ActivatedIsNewest` |
| `RolledBackSessionIsUndone` | `UndoableDevice` | `RolledBackIsUndone` |
| `ApexVerification_proofs!TypeCorrect` | – | `[]TypeOK` |
| `KeysAlwaysMatch`, `MountedIsAlwaysTrusted`, `InstalledIsVerified`, `NeverRebootsAgain` | – | `[]KeysMatchImage`, `[]MountedIsTrusted`, `[]InstalledWasVerified`, `[]NoBootLoop` |
| `BootAlwaysCovers` | `BootstrapIsInSystem` | `[]BootCoversBuiltins` |
| `HooksTypeCorrect` | – | `[]TypeOK` |
| `HostAlwaysKeepsActive`, `NothingIsEverLeft`, `LeftoverIsAlwaysReplaceable` | – | `[]HostKeepsActive`, `[]NothingIsLeft`, `[]LeftoverIsReplaceable` |
| `HooksSeeTheirPackages` | `DistinctNames` | `[]HookSeesPackages` |
| `MountsTypeCorrect` | – | `[]TypeOK` |
| `DatabaseIsAlwaysMounted`, `DatabaseChecksAlwaysPass`, `MountsAreAlwaysKnown`, `DevicesAreAlwaysFreed`, `ReportedIsAlwaysBound` | – | `[]DatabaseIsMounted`, `[]DatabaseChecksPass`, `[]MountsAreKnown`, `[]DevicesAreFreed`, `[]ReportedIsBound` |
| `BootAlwaysActivatesNewest` | – | `BootActivatesNewest` |
| `PromisesAreKept` | – | `KeepsPromises`: `ApexMounts` implements `MountedPackages` |
| `ShownIsReported` | – | `[]Packages!ShownIsActive` of `ApexMounts` |
| `ShownIsActiveAlways` | – | `MountedPackages!Spec => []ShownIsActive` |

### 4.1 Sessions

`Sequential` says that there is one handler at a time, that state files are
written at once and that the session directory can be listed. Each part is
needed: runs `accept_race` and `torn_sessions` refute the conclusions without the
first two, and with an unreadable directory `submitStagedSession` leaves the old
sessions where they are. `WithoutCheckpoints` adds that the device has no file
system checkpoints, as the backup is only made then.

*Argument.* The life cycle is not inductive: a commit at the end of a handler
overwrites a state that was read at its start. `SessionInv` says, for each label,
which states the handler's session may be in by then (`RecordedStates`), that
between `clear` and `commitVerified` the store is empty, and that the sessions
still listed at boot are `STAGED`. From it each step of `StagedSessions` is a step
of `SessionLifecycle` or a stutter (`SessionStep`, one lemma per group of
actions), and `OneActiveSession` follows from the abstract steps alone, for the
store and for vold's snapshot together.

`BackupInv` adds where each handler stands with the files: while it links, what
is linked and what is left make up `active`, which is still what the submission
found; between the backup and `commitVerified` the backup is complete; a handler
that deletes the backup has `accepted`. With `SessionInv`, a step that breaks
`BackupIntact` or `RollbackResumable` would have to delete files of the backup
while a session relies on it; the steps that do are those in `submitStagedSession`
(no session is left), `markStagedSessionSuccessful` (`accepted`) and the rename
(the backup directory is gone). `RollbackRestores` then has one case, the rename.

*Rollbacks.* `HalfRestoredIsRecorded` is not inductive either: the session could be
cleared, or its state changed, between the deletion and the rename. `RestoreInv`
says that as long as files are missing, nothing but `onStart` runs, up to the
place where it resumes the rollback, with the session still in
`ROLLBACK_IN_PROGRESS`. It takes failing commits, crashes and reboots. It does not
take failing directory, unlink and rename calls (the rollback fails half-way, and the
session is recorded as such), nor failing keys: then `onStart` ends before
`resumeRollbackIfNeeded`, the service starts, and `submitStagedSession` clears the
session whose packages are missing. TLC shows that behaviour when `keys` is added
to the failures of run `progress`.

`VoldStands` says, for `NoActivationAfterVoldRollback`, that once vold needs a
rollback and `onStart` has passed its question, no session is `STAGED`, so the scan
finds none to activate. `VoldAnswers` excludes a failing vold, in which case
`onStart` goes on without an answer, and a failing commit, which leaves the session
`STAGED`. The theorem covers both kinds of device: without checkpoints vold never
needs a rollback.

`RolledBackIsUndone` relates a record to what a submission found long before.
`NothingNewOnRecord` says when a session may be recorded as rolled back at once:
before it was staged, or once the backup has taken the place of the active files;
`UndoneStands` adds that a boot leaves no session `STAGED` behind it. What
`UndoableDevice` excludes besides checkpoints is needed, and TLC has a
counterexample without each: on a debuggable
build `stagePackages` of the service installs files that no session records;
with a lost commit of `ACTIVATED` (section 3.1) or a boot without keys a session stays
`STAGED` or `ROLLBACK_IN_PROGRESS` behind the boot that should have dealt with it.

*Staging.* `StageStands` says that while `stagePackages` links, `active` is what it
found and what it has linked, and that while it removes, what it has linked is
active and what it has yet to remove are other versions of it.
`ReplacedBeforeRemoved` and `StageAllOrNothing` follow from it; the latter without
failing unlinks, since the scope guard cannot undo without them. `SessionStands`
adds that each package of the session is in place, runs already, or is still to be
linked; for `ActivatedIsInstalled` it has to survive the removals, and it does if no
session brings two versions of a package (`OneVersionEach`), which
`submitStagedSession` does not check across its child sessions: of two such versions
one may be active already and is then not linked, and it is removed as a previous
version of the other.

`ActivatedIsNewest` needs that two versions of a package are side by side only while
`stagePackages` runs (`VersionsStand`): in `active`, in the backup and in what vold's
checkpoint keeps. `OrderlyDevice` says what that rests on: no crash in the middle of a
handler (run `stage_crash` refutes the property with one), no failing unlink, one
version of each package in a session and in the files the device came with.
Crashes between handlers and all other failures are covered.

### 4.2 Verification

`KeysInv` says where the loops of `onBootstrap` and `onStart` stand: of the
directories up to the current one all packages but those in `todo` are collected,
and each key that is held is that of a builtin package that was read. It gives
`KeysMatchImage`. If the keys match the image, a file that passes
`VerifyApexVerity` is trusted by the image (`VerityTrusted`); if the image is
inconsistent a key may be missing, which the image's debug flag then has to
excuse. `MountInv` adds that what is activated next is from `/data/apex/active`
or the image, and a system update ends every mount. `InstallInv` extends
`InstalledWasVerified` to the backup, because a rollback links it back without
verification; files that stay keep the image they were verified under.
`LoopInv` says that a reboot asked for by apexd left no session that could ask
again.

`BootCoversBuiltins` needs more than a loop invariant. A package that
apexd-bootstrap has to mount is left alone by `onStart`, and apexd-bootstrap
looks into `/system` only. `BootstrapIsInSystem` says that for each such package
`/system` has that version or a newer one; without it a package in another builtin
directory is mounted by neither process.

### 4.3 Hooks

`ControlInv` says what each label of a call and of its child knows of its frame.
`NamespaceInv`: a child's namespace is a peer of the host's only between `unshare`
and `MS_PRIVATE`, and has the same mounts then; so what a child does later stays in
its namespace. `ActiveInv` strengthens `HostKeepsActive`: each point of the host
has one mount, and no call and no clean-up has a file at hand that shares its
mount point with an active one. `CleanInv` accounts for everything: a mount is in
the database or in somebody's hands, an entry was there before or will be cleaned
up by somebody, and so is each directory. When all are idle, `NothingIsLeft` is
what remains of it.

`SeenInv` follows a call's packages: mounted in the host, then copied by
`unshare`, then bound one by one on empty active points. `DistinctNames` is
needed: two packages of one name in a call share an active point, and the hook
sees the later one. With two calls the property was true as first stated; for
more the proof failed at `IsMounted`, on the stale entry that section 2.6 describes,
and with four calls it is false. `disturbed` now includes that case.

### 4.4 Mounts

| part | what it says |
|---|---|
| `HandlerInv` | what each label knows of `frame` and `phase` |
| `KernelInv` | each point has one mount, each mount the loop device of its file and each loop device one mount; `autoclear` devices are in use; a name has one bind mount |
| `HeldInv` | the device at hand is used by nothing else, and the mount point stays free until `mount`; at `bind` the name is vacant |
| `DatabaseInv` | at most one entry of a package is flagged; until a file was found mounted twice, each entry is a mount, each file has one entry, and the entry being unmounted is out of the database |
| `KnownInv` | each mount is in the database or being unmounted |
| `FreedInv` | each loop and dm device is of a mount, marked `autoclear`, or at hand |
| `ReportInv` | what is bound is flagged, and what is flagged is bound or about to be |
| `BootInv` | each file that the scans have passed is covered by one that is flagged, and `newest` still holds for the file at hand |

The first four are inductive together (`MountsInv`) and hold also after restarts
and reboots; each of the others is inductive relative to them. `DatabaseInv` is where the
multimap's order matters: `RemoveMountedApex` removes the first entry with a path,
and this is the entry being unmounted because there is only one.

A proof attempt of `FreedInv` found an error in the model itself: its `Unmount` left a
loop device in use that is marked to go with its last user, although that user, a
dm device left behind by an earlier failure, had just been deleted.

*Refinement.* Until a process has died, `DatabaseInv` and `ReportInv` are enough
for the steps to map. After a restart they say little, since a file may
be mounted twice, but `MountedPackages` still promises something, and four
more invariants (`PromisesInv`) carry it:

* `EnoughInv`: a version has no more entries than mounts, counting the entry that
  is being unmounted. So the version of which `activatePackageImpl` found an entry is
  mounted when it is bound, though by another file perhaps (`Show`).
* `DanglingInv`: a file has an entry for each time that `unmountDanglingMounts`
  will visit it, so that each visit forgets something.
* `AtHandInv`: from the check of `is_newest_version` to the bind mount no newer
  version gets into the database.
* `FirstInv`: the entry that is flagged is the first of its file. If the last one,
  which `UnmountPackage` looks at, is flagged, then it is the only one (`LastIsFirst`), and
  what is unbound is what is forgotten.

Then each action has a lemma that names its abstract step: `UnbindOld` is `Hide`,
`BindNew` is `Show`, `UnmountPackage` and the visits of `unmountDanglingMounts` are
`Forget` or, after a restart, `Misremember`, `Unmount` is `Unmount` or a stutter if the
file stays mounted elsewhere, `Populate` is `Recover`; a process dies in `Die` with the mount or bind
mount it was in the middle of. All other steps stutter (`StepMaps`).

`ShownIsActiveAlways` is about the abstract `MountedPackages`: until a process has died,
what `/apex/<name>` shows is mounted, known and reported as active. With types added
the property is inductive; the steps that could break it are `Show` (the file is
known), `Forget` (the name is emptied with it) and `Unmount` (of nothing that is
known). `ShownIsReported` is the same of `ApexMounts`.

### 4.5 Only model-checked

Each safety property of a passing run is a theorem. What TLC alone shows:

* Liveness (`RollbackFinishes`, `StagedIsDecided`, `HandlersEnd`, `CallsEnd`), which
  rests on fairness and `ENABLED`, out of the prover's reach.
* `HalfRestoredIsRecorded` and `RolledBackIsUndone` where state files can be seen
  truncated: run `progress` has torn writes, and the theorems assume `Sequential`. The
  session invariant would have to say which files may be empty at each label.
* The strengthened invariants `RestoreInv`, `VoldStands`, `StageStands`, `VersionsStand`
  and `UndoneStands` were model-checked before they were proved; they are proved,
  so no run repeats that.

## 5. Not modelled

* Formats and cryptography: zip, AVB, protobuf, JSON, RSA and SHA512. What a check
  finds in a file is a field of the file; `apex_manifest.cpp` is decoding alone.
* The property `apexd.status`, which `onAllPackagesReady` sets also after a boot
  whose keys could not be collected: nothing in the repository reads it.
* Loop device pre-allocation, which only saves waiting for device nodes later.
* Devices that are not updatable (`kUpdatable` false), but for what
  `ApexVerification` needs of them.
* What hooks do, and the data races on `gMountedApexes` when two calls access it
  at once.
* Reads without effect (`getSessions`, `getAllPackages`, the shell command).
* Lost writes after a power failure: the disk keeps what a system call reported.

## 6. Plan

Done: the core (`SessionStore`, `StagedSessions`, `SessionLifecycle`), its runs and
its theorems; `MountedPackages`, `ApexMounts` and the refinement;
`ApexVerification`; `InstallHooks`; every safety property of a passing run as a theorem.

Next, in this order:

1. The session theorems with torn writes, for the properties that run `progress`
   shows to hold with them.
2. Two handlers on the session store: which of the session properties survive
   overlapping calls other than rollbacks.
3. A composition in which `StagedSessions` activates by the steps of
   `MountedPackages` in place of its coarse `mounted` and `latest`.
