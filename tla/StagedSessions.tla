--------------------------- MODULE StagedSessions ---------------------------
(***************************************************************************)
(* apexd's staged sessions (apexd/apexd.cpp): how a set of APEX packages   *)
(* is submitted, staged at the next boot, activated, accepted or rolled    *)
(* back, over a disk that survives crashes and threads that do not.        *)
(*                                                                         *)
(* Every system call that changes the disk is a step of its own, and a     *)
(* crash may fall between any two of them.  A handler is a sequence of     *)
(* labels of its thread's pc; a label is named for what the next step does.*)
(***************************************************************************)
EXTENDS Naturals, SessionStore

CONSTANTS
  Threads,        \* handlers that may be in progress at the same time
  Main,           \* the thread that runs onStart()
  Apexes,         \* APEX packages, records with fields name and version
  Builtin,        \* those preinstalled under /system/apex, /product/apex
  Staging,        \* session id -> packages in its (children's) staging dirs
  FactoryActive,  \* the possible contents of /data/apex/active at the start
  SupportsFsCheckpoints,  \* does the device support file system checkpoints
  Debuggable,     \* ro.debuggable: are the debug-only calls accepted
  CrashAnywhere,  \* may a crash fall inside a handler, or only between them
  TornWrites,     \* may a state file be seen between its truncation and write
  Faults,         \* the calls that may fail, members of FaultKinds
  NoSession       \* no session id

FaultKinds == {"commit", "dir", "link", "unlink", "rename", "chmod", "vold",
               "keys", "sessions", "activate"}

ASSUME ThreadsAssumption == Main \in Threads
ASSUME ApexesAssumption == \A a \in Apexes : a.version \in Nat
ASSUME BuiltinAssumption == Builtin \subseteq Apexes
ASSUME StagingAssumption == Staging \in [SessionIds -> SUBSET Apexes]
ASSUME FactoryAssumption == FactoryActive \subseteq SUBSET Apexes
ASSUME EnvironmentAssumption ==
  /\ SupportsFsCheckpoints \in BOOLEAN
  /\ Debuggable \in BOOLEAN
  /\ CrashAnywhere \in BOOLEAN
  /\ TornWrites \in BOOLEAN
  /\ Faults \subseteq FaultKinds
ASSUME NoSessionAssumption == NoSession \notin SessionIds

VARIABLES
  \* /data
  sessions,       \* /data/apex/sessions, a store in the sense of SessionStore
  active,         \* files in /data/apex/active
  activeDir,      \* does that directory exist
  backup,         \* files in /data/apex/backup
  backupDir,      \* does that directory exist
  \* vold (external)
  checkpoint,     \* "none", "requested", "active", "aborted" or "failed"
  snapshot,       \* what /data goes back to while checkpoint is "active"
  \* the kernel's mounts and apexd's database of them (gMountedApexes)
  mounted,        \* mounted packages with the directory they come from
  latest,         \* those flagged latest
  \* the apexd process
  phase,          \* "booting" until onStart ends, then "serving" until
                  \* waitForBootStatus ends, then "completed"
  populated,      \* PopulateFromMounts has run
  gSupportsFsCheckpoints, gInFsCheckpointMode,
  rebooting,      \* the process asked init to reboot the device
  \* its threads
  pc,             \* what the thread does next, a member of Labels
  frame,          \* its local variables, a member of Frames
  opened,         \* it has truncated the state file it commits
  \* history
  before,         \* active when the last submit started to protect it
  protection,     \* how: "backup" or "checkpoint"
  accepted,       \* markStagedSessionSuccessful has begun since then
  restoring       \* DoRollback has deleted files and not yet renamed

disk    == <<sessions, active, activeDir, backup, backupDir>>
vold    == <<checkpoint, snapshot>>
mounts  == <<mounted, latest>>
process == <<phase, populated, gSupportsFsCheckpoints, gInFsCheckpointMode,
             rebooting>>
history == <<before, protection, accepted, restoring>>
\* All that a step on /data leaves alone.
outside == <<vold, mounts, process, opened, history>>
vars    == <<disk, vold, mounts, process, pc, frame, opened, history>>

Fault(kind) == kind \in Faults

CommitLabels == {"commitVerified", "commitStaged", "commitSuccess",
                 "commitActivated", "commitActivationFailed",
                 "commitStagedRollback", "commitRollback",
                 "commitRolledBack", "commitRollbackFailed"}

Labels == CommitLabels \cup
  {"idle", "clear", "protect", "backup", "backupClean", "backupLink",
   "backupUndo", "verify", "successClean", "abortDelete",
   "restoreCheck", "restoreDelete", "restoreRename", "restoreChmod",
   "stageVerify", "stageLink", "stageUndo", "stageRemove", "unstage",
   "onStart", "voldRollback", "collectKeys", "stageScan", "resume",
   "scanData", "activateData", "scanBuiltin", "activateBuiltin", "dangling"}

\* Who called a rollback, or stagePackages ("bootStage" or "service").
Callers == {"service", "watch", "bootVold", "bootResume", "bootActivate",
            "bootStage"}

\* sid     the session the thread works on
\* caller  whom its rollback or its stagePackages returns to
\* listed  the sessions its loop has yet to visit
\* todo    the packages its loop has yet to visit
\* staged  the packages its stagePackages has linked so far
\* base    active when it began to link them (history)
\* failed  the packages its scan could not activate
Frames == [sid : SessionIds \cup {NoSession}, caller : Callers,
           listed : SUBSET SessionIds, todo : SUBSET Apexes,
           staged : SUBSET Apexes, base : SUBSET Apexes,
           failed : SUBSET Apexes]

EmptyFrame == [sid |-> NoSession, caller |-> "service", listed |-> {},
               todo |-> {}, staged |-> {}, base |-> {}, failed |-> {}]

Mounts == [apex : Apexes, dir : {"data", "builtin"}]

Disks == [sessions : [SessionIds -> FileStates], active : SUBSET Apexes,
          activeDir : BOOLEAN, backup : SUBSET Apexes, backupDir : BOOLEAN]

CurrentDisk == [sessions |-> sessions, active |-> active,
                activeDir |-> activeDir, backup |-> backup,
                backupDir |-> backupDir]

NoDisk == [sessions |-> [s \in SessionIds |-> "NONE"], active |-> {},
           activeDir |-> FALSE, backup |-> {}, backupDir |-> FALSE]

-----------------------------------------------------------------------------
(* Control flow shared by the handlers.                                    *)

Goto(t, label) == pc' = [pc EXCEPT ![t] = label]

\* Continue at label with a fresh frame.
Leave(t, label) ==
  /\ Goto(t, label)
  /\ frame' = [frame EXCEPT ![t] = EmptyFrame]

Finish(t) == Leave(t, "idle")

\* Continue at label on session s on behalf of caller c.
Enter(t, label, s, c) ==
  /\ Goto(t, label)
  /\ frame' = [frame EXCEPT ![t].sid = s, ![t].caller = c]

\* A binder thread can take a request: the service is registered after
\* onStart() has returned (apexd_main.cpp).
Serving(t) == phase # "booting" /\ pc[t] = "idle"

\* What a reader of the session directory is given: when the directory cannot
\* be read, ApexSession::GetSessions returns no sessions and no error.
Listing(ids) == IF Fault("sessions") THEN {ids, {}} ELSE {ids}

-----------------------------------------------------------------------------
(* vold, as apexd uses it (external).                                      *)

NeedsCheckpoint == checkpoint = "active"
NeedsRollback == checkpoint \in {"aborted", "failed"}

\* StartCheckpoint takes effect at the next reboot.
VoldStartCheckpoint ==
  checkpoint' = IF checkpoint \in {"none", "failed"} THEN "requested"
                                                      ELSE checkpoint

\* AbortChanges(retry = false): /data goes back at the next reboot, and vold
\* then asks for a rollback.
VoldAbortChanges ==
  checkpoint' = IF checkpoint = "active" THEN "aborted" ELSE checkpoint

\* The system commits the checkpoint, or forgets a failed one, once it is up.
VoldCommitChanges ==
  /\ phase # "booting"
  /\ checkpoint \in {"active", "failed"}
  /\ checkpoint' = "none"
  /\ snapshot' = NoDisk
  /\ UNCHANGED <<disk, mounts, process, pc, frame, opened, history>>

-----------------------------------------------------------------------------
(* ApexSession::UpdateStateAndCommit opens the state file with truncation  *)
(* and then writes it.                                                     *)

\* The file can be opened: its directory exists, or CreateSession makes it.
CanOpen(t) == sessions[frame[t].sid] # "NONE" \/ pc[t] = "commitVerified"

OpenStateFile(t) ==
  /\ TornWrites
  /\ pc[t] \in CommitLabels
  /\ ~opened[t]
  /\ CanOpen(t)
  /\ sessions' = [sessions EXCEPT ![frame[t].sid] = "EMPTY"]
  /\ opened' = [opened EXCEPT ![t] = TRUE]
  /\ UNCHANGED <<active, activeDir, backup, backupDir, vold, mounts, process, pc, frame, history>>

\* What the write leaves; it reaches no file if the directory is gone by now.
WriteStateFile(t, state) ==
  IF opened[t] /\ sessions[frame[t].sid] = "NONE"
    THEN sessions
    ELSE [sessions EXCEPT ![frame[t].sid] = state]

\* The commit at label succeeds.
Commits(t, label, state) ==
  /\ pc[t] = label
  /\ opened[t] = TornWrites
  /\ opened[t] \/ CanOpen(t)
  /\ sessions' = WriteStateFile(t, state)
  /\ opened' = [opened EXCEPT ![t] = FALSE]

\* The open fails, or the write does and leaves the truncated file.
CommitFails(t, label) ==
  /\ pc[t] = label
  /\ Fault("commit") \/ (~opened[t] /\ ~CanOpen(t))
  /\ opened' = [opened EXCEPT ![t] = FALSE]
  /\ UNCHANGED sessions

\* A write that fails when the stream is closed is not noticed.
CommitLost(t, label) ==
  /\ pc[t] = label
  /\ opened[t]
  /\ Fault("commit")
  /\ opened' = [opened EXCEPT ![t] = FALSE]
  /\ UNCHANGED sessions

CommitReportsSuccess(t, label, state) ==
  Commits(t, label, state) \/ CommitLost(t, label)

\* The steps of a commit leave everything but the session store alone.
CommitFrame == UNCHANGED <<active, activeDir, backup, backupDir, snapshot, mounts, phase, populated, gSupportsFsCheckpoints, gInFsCheckpointMode, history>>

-----------------------------------------------------------------------------
(* submitStagedSession: clear the sessions, protect /data/apex/active by a *)
(* checkpoint or a backup, verify, create the session.                     *)

SubmitStagedSession(t, s) ==
  /\ Serving(t)
  /\ Goto(t, "clear")
  /\ \E ids \in Listing(GetSessions(sessions)) :
       frame' = [frame EXCEPT ![t].sid = s, ![t].listed = ids]
  /\ UNCHANGED <<disk, outside>>

\* Mutant: the old sessions are not deleted.
ClearSessionsSkipped(t) ==
  /\ pc[t] = "clear"
  /\ Goto(t, "protect")
  /\ UNCHANGED <<disk, frame, outside>>

ClearSessions(t) ==
  /\ pc[t] = "clear"
  /\ \/ \E s \in frame[t].listed :
          /\ sessions' = DeleteSession(sessions, s)
          /\ frame' = [frame EXCEPT ![t].listed = @ \ {s}]
          /\ UNCHANGED pc
     \/ /\ frame[t].listed = {}
        /\ Goto(t, "protect")
        /\ UNCHANGED <<sessions, frame>>
     \/ /\ frame[t].listed # {} /\ Fault("unlink")
        /\ Finish(t)
        /\ UNCHANGED sessions
  /\ UNCHANGED <<active, activeDir, backup, backupDir, outside>>

\* StartCheckpoint, and the choice of what protects the active packages.
ProtectActivePackages(t) ==
  /\ pc[t] = "protect"
  /\ \/ /\ gSupportsFsCheckpoints
        /\ VoldStartCheckpoint
        /\ protection' = "checkpoint"
        /\ Goto(t, "verify")
     \/ /\ ~gSupportsFsCheckpoints \/ Fault("vold")
        /\ protection' = "backup"
        /\ Goto(t, "backup")
        /\ UNCHANGED checkpoint
  /\ before' = active
  /\ accepted' = FALSE
  /\ UNCHANGED <<disk, snapshot, mounts, process, frame, opened, restoring>>

\* Mutant: an old backup is not deleted before a new one is made.
BackupActivePackagesOverOld(t) ==
  /\ pc[t] = "backup"
  /\ backupDir' = TRUE
  /\ Goto(t, IF activeDir THEN "backupLink" ELSE "verify")
  /\ frame' = [frame EXCEPT ![t].todo = IF activeDir THEN active ELSE {}]
  /\ UNCHANGED <<sessions, active, activeDir, backup, outside>>

\* BackupActivePackages up to the listing of /data/apex/active.
BackupActivePackages(t) ==
  /\ pc[t] = "backup"
  /\ \/ /\ backupDir' = TRUE
        /\ Goto(t, IF activeDir THEN "backupClean" ELSE "verify")
        /\ frame' = [frame EXCEPT ![t].todo = IF activeDir THEN active ELSE {}]
     \/ /\ Fault("dir")
        /\ backupDir' \in {backupDir, TRUE}
        /\ Finish(t)
  /\ UNCHANGED <<sessions, active, activeDir, backup, outside>>

\* DeleteDirContent(/data/apex/backup), one file per step.
DeleteBackup(t, label, next) ==
  /\ pc[t] = label
  /\ \/ \E a \in backup : backup' = backup \ {a} /\ UNCHANGED <<pc, frame>>
     \/ backup = {} /\ Goto(t, next) /\ UNCHANGED <<backup, frame>>
     \/ /\ Fault("dir") \/ (backup # {} /\ Fault("unlink"))
        /\ Finish(t)
        /\ UNCHANGED backup
  /\ UNCHANGED <<sessions, active, activeDir, backupDir, outside>>

\* Mutant: a package that cannot be linked is left out of the backup.
LinkBackupIncomplete(t) ==
  /\ pc[t] = "backupLink"
  /\ \/ \E a \in frame[t].todo :
          /\ \/ backup' = backup \cup {a}
             \/ Fault("link") /\ UNCHANGED backup
          /\ frame' = [frame EXCEPT ![t].todo = @ \ {a}]
          /\ UNCHANGED pc
     \/ /\ frame[t].todo = {}
        /\ Goto(t, "verify")
        /\ UNCHANGED <<backup, frame>>
  /\ UNCHANGED <<sessions, active, activeDir, backupDir, outside>>

LinkBackup(t) ==
  /\ pc[t] = "backupLink"
  /\ \/ \E a \in (frame[t].todo \cap active) \ backup :
          /\ backup' = backup \cup {a}
          /\ frame' = [frame EXCEPT ![t].todo = @ \ {a}]
          /\ UNCHANGED pc
     \/ /\ frame[t].todo = {}
        /\ Goto(t, "verify")
        /\ UNCHANGED <<backup, frame>>
     \/ /\ frame[t].todo # {}
        /\ Fault("link") \/ ~(frame[t].todo \subseteq active \ backup)
        /\ Goto(t, "backupUndo")
        /\ UNCHANGED <<backup, frame>>
  /\ UNCHANGED <<sessions, active, activeDir, backupDir, outside>>

\* The scope guard deletes an incomplete backup; a failure is only logged.
UndoBackup(t) ==
  /\ pc[t] = "backupUndo"
  /\ \/ \E a \in backup : backup' = backup \ {a} /\ UNCHANGED <<pc, frame>>
     \/ /\ backup = {} \/ Fault("unlink")
        /\ Finish(t)
        /\ UNCHANGED backup
  /\ UNCHANGED <<sessions, active, activeDir, backupDir, outside>>

\* verifySessionDir of the session or its children, and PreinstallPackages.
VerifySession(t) ==
  /\ pc[t] = "verify"
  /\ \/ Goto(t, "commitVerified") /\ UNCHANGED frame
     \/ Finish(t)
  /\ UNCHANGED <<disk, outside>>

CommitVerified(t) ==
  /\ \/ CommitReportsSuccess(t, "commitVerified", "VERIFIED")
     \/ CommitFails(t, "commitVerified")
  /\ Finish(t)
  /\ CommitFrame /\ UNCHANGED <<checkpoint, rebooting>>

-----------------------------------------------------------------------------
(* markStagedSessionReady and markStagedSessionSuccessful.  A call on a    *)
(* session in another state changes nothing.                               *)

\* Mutant: the state of the session is not looked at.
MarkStagedSessionReadyAlways(t, s) ==
  /\ Serving(t)
  /\ sessions[s] # "NONE"
  /\ Enter(t, "commitStaged", s, "service")
  /\ UNCHANGED <<disk, outside>>

MarkStagedSessionReady(t, s) ==
  /\ Serving(t)
  /\ sessions[s] = "VERIFIED"
  /\ Enter(t, "commitStaged", s, "service")
  /\ UNCHANGED <<disk, outside>>

CommitStaged(t) ==
  /\ \/ CommitReportsSuccess(t, "commitStaged", "STAGED")
     \/ CommitFails(t, "commitStaged")
  /\ Finish(t)
  /\ CommitFrame /\ UNCHANGED <<checkpoint, rebooting>>

\* Mutant: a session that was not activated yet is accepted.
MarkStagedSessionSuccessfulEarly(t, s) ==
  /\ Serving(t)
  /\ sessions[s] \in {"STAGED", "ACTIVATED"}
  /\ accepted' = TRUE
  /\ Enter(t, "successClean", s, "service")
  /\ UNCHANGED <<disk, vold, mounts, process, opened, before, protection,
                 restoring>>

MarkStagedSessionSuccessful(t, s) ==
  /\ Serving(t)
  /\ sessions[s] = "ACTIVATED"
  /\ accepted' = TRUE
  /\ Enter(t, "successClean", s, "service")
  /\ UNCHANGED <<disk, vold, mounts, process, opened, before, protection,
                 restoring>>

CommitSuccess(t) ==
  /\ \/ CommitReportsSuccess(t, "commitSuccess", "SUCCESS")
     \/ CommitFails(t, "commitSuccess")
  /\ Finish(t)
  /\ CommitFrame /\ UNCHANGED <<checkpoint, rebooting>>

-----------------------------------------------------------------------------
(* Rollback.  Return(t, ok) is how RollbackSession or ResumeRollback gives *)
(* its status back to its caller; rollbackActiveSessionAndReboot then      *)
(* aborts the checkpoint, if there is one, and asks for a reboot, which    *)
(* does not stop the process at once.                                      *)

AbortAndReboot ==
  /\ rebooting' = TRUE
  /\ IF gInFsCheckpointMode
       THEN VoldAbortChanges \/ (Fault("vold") /\ UNCHANGED checkpoint)
       ELSE UNCHANGED checkpoint

ReturnLabel(c) ==
  CASE c = "bootVold"     -> "collectKeys"
    [] c = "bootResume"   -> "scanData"
    [] c = "bootActivate" -> "scanBuiltin"
    [] OTHER              -> "idle"

Return(t, ok) ==
  /\ Leave(t, ReturnLabel(frame[t].caller))
  /\ IF ok /\ frame[t].caller \in {"watch", "bootActivate"}
       THEN AbortAndReboot
       ELSE UNCHANGED <<rebooting, checkpoint>>

\* GetActiveSession finds a session, in this state.
ActiveSessionIs(state) ==
  \E s \in SessionIds : IsActiveSession(sessions, s) /\ sessions[s] = state

\* Mutant: the files are restored before the state is committed.
RollbackSessionUnrecorded(t, s, c) ==
  \/ sessions[s] = "STAGED" /\ Enter(t, "commitStagedRollback", s, c)
  \/ /\ sessions[s] = "ACTIVATED" /\ ~gInFsCheckpointMode
     /\ Enter(t, "restoreCheck", s, c)

\* Mutant: an activated session is only marked, like a staged one.
RollbackSessionMarksOnly(t, s, c) ==
  /\ sessions[s] \in {"STAGED", "ACTIVATED"}
  /\ Enter(t, "commitStagedRollback", s, c)

\* RollbackSession has something to do for session s.
RollbackSession(t, s, c) ==
  \/ sessions[s] = "STAGED" /\ Enter(t, "commitStagedRollback", s, c)
  \/ /\ sessions[s] = "ACTIVATED" /\ ~gInFsCheckpointMode
     /\ Enter(t, "commitRollback", s, c)

\* RollbackSession succeeds without doing anything.
RollbackIsNoOp(s) ==
  \/ sessions[s] \in {"ROLLBACK_IN_PROGRESS", "ROLLED_BACK"}
  \/ sessions[s] = "ACTIVATED" /\ gInFsCheckpointMode

\* rollbackActiveSession fails before it changes anything.
RollbackRefused ==
  \/ Fault("sessions")
  \/ ~\E state \in {"STAGED", "ACTIVATED", "ROLLBACK_IN_PROGRESS"} :
        ActiveSessionIs(state)

\* rollbackActiveSession, the debug call.
RollbackActiveSession(t) ==
  /\ Debuggable /\ Serving(t)
  /\ \E s \in SessionIds : /\ IsActiveSession(sessions, s)
                           /\ RollbackSession(t, s, "service")
  /\ UNCHANGED <<disk, outside>>

\* abortActiveSession.
AbortActiveSession(t) ==
  /\ Serving(t)
  /\ \E s \in SessionIds :
       /\ IsActiveSession(sessions, s)
       /\ \/ /\ sessions[s] \in {"VERIFIED", "STAGED"}
             /\ Enter(t, "abortDelete", s, "service")
          \/ /\ sessions[s] = "ACTIVATED"
             /\ RollbackSession(t, s, "service")
  /\ UNCHANGED <<disk, outside>>

AbortDelete(t) ==
  /\ pc[t] = "abortDelete"
  /\ Finish(t)
  /\ \/ sessions' = DeleteSession(sessions, frame[t].sid)
     \/ Fault("unlink") /\ UNCHANGED sessions
  /\ UNCHANGED <<active, activeDir, backup, backupDir, outside>>

\* waitForBootStatus sees updatable_crashing: rollbackActiveSessionAndReboot.
UpdatableCrashing(t) ==
  /\ phase = "serving" /\ pc[t] = "idle"
  /\ phase' = "completed"
  /\ \/ \E s \in SessionIds :
          /\ IsActiveSession(sessions, s)
          /\ \/ /\ RollbackSession(t, s, "watch")
                /\ UNCHANGED <<checkpoint, rebooting>>
             \/ /\ RollbackIsNoOp(s)
                /\ AbortAndReboot
                /\ UNCHANGED <<pc, frame>>
     \/ /\ RollbackRefused
        /\ UNCHANGED <<checkpoint, rebooting, pc, frame>>
  /\ UNCHANGED <<disk, snapshot, mounts, populated, gSupportsFsCheckpoints, gInFsCheckpointMode, opened, history>>

\* RollbackStagedSession.
CommitStagedRollback(t) ==
  /\ \/ /\ CommitReportsSuccess(t, "commitStagedRollback", "ROLLED_BACK")
        /\ Return(t, TRUE)
     \/ CommitFails(t, "commitStagedRollback") /\ Return(t, FALSE)
  /\ CommitFrame

\* RollbackActivatedSession marks the session before it touches any file.
CommitRollback(t) ==
  /\ \/ /\ CommitReportsSuccess(t, "commitRollback", "ROLLBACK_IN_PROGRESS")
        /\ Goto(t, "restoreCheck")
        /\ UNCHANGED <<frame, checkpoint, rebooting>>
     \/ CommitFails(t, "commitRollback") /\ Return(t, FALSE)
  /\ CommitFrame

\* DoRollback.
RestoreCheck(t) ==
  /\ pc[t] = "restoreCheck"
  /\ \/ backupDir /\ activeDir /\ Goto(t, "restoreDelete")
     \/ /\ ~backupDir \/ ~activeDir \/ Fault("dir")
        /\ Goto(t, "commitRollbackFailed")
  /\ UNCHANGED <<disk, frame, outside>>

RestoreDelete(t) ==
  /\ pc[t] = "restoreDelete"
  /\ \/ \E a \in active : /\ active' = active \ {a}
                            /\ restoring' = TRUE
                            /\ UNCHANGED pc
     \/ active = {} /\ Goto(t, "restoreRename") /\ UNCHANGED <<active, restoring>>
     \/ /\ active # {} /\ Fault("unlink")
        /\ Goto(t, "commitRollbackFailed")
        /\ UNCHANGED <<active, restoring>>
  /\ UNCHANGED <<sessions, activeDir, backup, backupDir, vold, mounts, process,
                 frame, opened, before, protection, accepted>>

\* Mutant: the files are moved one by one.
RestoreRenameEach(t) ==
  /\ pc[t] = "restoreRename"
  /\ \/ \E a \in backup : /\ active' = active \cup {a}
                          /\ backup' = backup \ {a}
                          /\ UNCHANGED <<backupDir, restoring, pc>>
     \/ /\ backup = {}
        /\ backupDir' = FALSE
        /\ restoring' = FALSE
        /\ Goto(t, "restoreChmod")
        /\ UNCHANGED <<active, backup>>
  /\ UNCHANGED <<sessions, activeDir, vold, mounts, process, frame, opened,
                 before, protection, accepted>>

\* rename() replaces an empty directory only.
RestoreRename(t) ==
  /\ pc[t] = "restoreRename"
  /\ \/ /\ backupDir /\ active = {}
        /\ active' = backup
        /\ backup' = {}
        /\ backupDir' = FALSE
        /\ restoring' = FALSE
        /\ Goto(t, "restoreChmod")
     \/ /\ ~backupDir \/ active # {} \/ Fault("rename")
        /\ Goto(t, "commitRollbackFailed")
        /\ UNCHANGED <<active, backup, backupDir, restoring>>
  /\ UNCHANGED <<sessions, activeDir, vold, mounts, process, frame, opened,
                 before, protection, accepted>>

RestoreChmod(t) ==
  /\ pc[t] = "restoreChmod"
  /\ \/ Goto(t, "commitRolledBack")
     \/ Fault("chmod") /\ Goto(t, "commitRollbackFailed")
  /\ UNCHANGED <<disk, frame, outside>>

CommitRollbackFailed(t) ==
  /\ \/ CommitReportsSuccess(t, "commitRollbackFailed", "ROLLBACK_FAILED")
     \/ CommitFails(t, "commitRollbackFailed")
  /\ Return(t, FALSE)
  /\ CommitFrame

\* A failure to record the end of the rollback is only logged.
CommitRolledBack(t) ==
  /\ \/ CommitReportsSuccess(t, "commitRolledBack", "ROLLED_BACK")
     \/ CommitFails(t, "commitRolledBack")
  /\ Return(t, TRUE)
  /\ CommitFrame

\* ResumeRollback: without a backup directory the rename was done already.
ResumeRollback(t, s, c) ==
  /\ IsActiveSession(sessions, s)
  /\ sessions[s] = "ROLLBACK_IN_PROGRESS"
  /\ Enter(t, IF backupDir /\ ~gInFsCheckpointMode
                THEN "restoreCheck" ELSE "commitRolledBack", s, c)

\* resumeRollbackIfNeeded, the debug call.
ResumeRollbackIfNeeded(t) ==
  /\ Debuggable /\ Serving(t)
  /\ \E s \in SessionIds : ResumeRollback(t, s, "service")
  /\ UNCHANGED <<disk, outside>>

-----------------------------------------------------------------------------
(* stagePackages and unstagePackages.                                      *)

\* The file a mounted package came from can still be opened.
HasFile(m) == m.dir = "builtin" \/ m.apex \in active

\* getActivePackages: the packages flagged latest whose file can be opened.
GetActivePackages == {m.apex : m \in {l \in latest : HasFile(l)}}

\* FilterUnnecessaryStagingPaths.
FilterUnnecessaryStagingPaths(paths) ==
  {a \in paths : a \notin active /\ a \notin GetActivePackages}

\* Mutant: the files just staged are not spared.
PreviouslyActiveAll(files) ==
  {a \in active : \E f \in files : f.name = a.name}

\* Mutant: only older versions are removed.
PreviouslyActiveOlder(files) ==
  {a \in active \ files :
     \E f \in files : f.name = a.name /\ a.version < f.version}

\* RemovePreviouslyActiveApexFiles: other files of the packages just staged.
PreviouslyActive(files) ==
  {a \in active \ files : \E f \in files : f.name = a.name}

StageSucceeds(t) ==
  IF frame[t].caller = "bootStage"
    THEN Goto(t, "commitActivated") /\ UNCHANGED frame
    ELSE Finish(t)

\* Mutant: the session is activated although stagePackages failed.
StageFailsUnnoticed(t) ==
  IF frame[t].caller = "bootStage"
    THEN Goto(t, "commitActivated") /\ UNCHANGED frame
    ELSE Finish(t)

StageFails(t) ==
  IF frame[t].caller = "bootStage"
    THEN Goto(t, "commitActivationFailed") /\ UNCHANGED frame
    ELSE Finish(t)

\* stagePackages called by a client, on a debuggable build.
StagePackages(t, paths) ==
  /\ Debuggable /\ Serving(t)
  /\ Goto(t, "stageVerify")
  /\ frame' = [frame EXCEPT ![t].todo = paths]
  /\ UNCHANGED <<disk, outside>>

\* verifyPackages, createDirIfNeeded and the filter.
StageVerify(t) ==
  /\ pc[t] = "stageVerify"
  /\ \/ /\ activeDir' = TRUE
        /\ LET paths == FilterUnnecessaryStagingPaths(frame[t].todo)
           IN IF paths = {}
                THEN StageSucceeds(t)
                ELSE /\ Goto(t, "stageLink")
                     /\ frame' = [frame EXCEPT ![t].todo = paths,
                                               ![t].base = active]
     \/ StageFails(t) /\ UNCHANGED activeDir
  /\ UNCHANGED <<sessions, active, backup, backupDir, outside>>

StageLink(t) ==
  /\ pc[t] = "stageLink"
  /\ \/ \E a \in frame[t].todo \ active :
          /\ active' = active \cup {a}
          /\ frame' = [frame EXCEPT ![t].todo = @ \ {a},
                                    ![t].staged = @ \cup {a}]
          /\ UNCHANGED pc
     \/ /\ frame[t].todo = {}
        /\ Goto(t, "stageRemove")
        /\ frame' = [frame EXCEPT ![t].todo = PreviouslyActive(frame[t].staged)]
        /\ UNCHANGED active
     \/ /\ frame[t].todo # {}
        /\ Fault("link") \/ frame[t].todo \cap active # {}
        /\ Goto(t, "stageUndo")
        /\ UNCHANGED <<active, frame>>
  /\ UNCHANGED <<sessions, activeDir, backup, backupDir, outside>>

\* Mutant: there is no scope guard.
StageUndoSkipped(t) ==
  /\ pc[t] = "stageUndo"
  /\ StageFails(t)
  /\ UNCHANGED <<disk, outside>>

\* The scope guard unlinks what was linked; a failure is only logged.
StageUndo(t) ==
  /\ pc[t] = "stageUndo"
  /\ \/ \E a \in frame[t].staged :
          /\ active' = active \ {a} \/ (Fault("unlink") /\ UNCHANGED active)
          /\ frame' = [frame EXCEPT ![t].staged = @ \ {a}]
          /\ UNCHANGED pc
     \/ frame[t].staged = {} /\ StageFails(t) /\ UNCHANGED active
  /\ UNCHANGED <<sessions, activeDir, backup, backupDir, outside>>

\* RemovePreviouslyActiveApexFiles, after the scope guard was disabled.
StageRemove(t) ==
  /\ pc[t] = "stageRemove"
  /\ \/ \E a \in frame[t].todo \cap active :
          /\ active' = active \ {a}
          /\ frame' = [frame EXCEPT ![t].todo = @ \ {a}]
          /\ UNCHANGED pc
     \/ frame[t].todo = {} /\ StageSucceeds(t) /\ UNCHANGED active
     \/ /\ frame[t].todo # {}
        /\ Fault("unlink") \/ ~(frame[t].todo \subseteq active)
        /\ StageFails(t)
        /\ UNCHANGED active
  /\ UNCHANGED <<sessions, activeDir, backup, backupDir, outside>>

\* unstagePackages: all paths must be accessible before any is unlinked.
UnstagePackages(t, paths) ==
  /\ Serving(t)
  /\ paths # {} /\ paths \subseteq active
  /\ Goto(t, "unstage")
  /\ frame' = [frame EXCEPT ![t].todo = paths]
  /\ UNCHANGED <<disk, outside>>

Unstage(t) ==
  /\ pc[t] = "unstage"
  /\ \/ \E a \in frame[t].todo \cap active :
          /\ active' = active \ {a}
          /\ frame' = [frame EXCEPT ![t].todo = @ \ {a}]
          /\ UNCHANGED pc
     \/ frame[t].todo = {} /\ Finish(t) /\ UNCHANGED active
     \/ /\ frame[t].todo # {}
        /\ Fault("unlink") \/ ~(frame[t].todo \subseteq active)
        /\ Finish(t)
        /\ UNCHANGED active
  /\ UNCHANGED <<sessions, activeDir, backup, backupDir, outside>>

-----------------------------------------------------------------------------
(* onStart.                                                                *)

\* Mutant: needsRollback is not asked.
OnStartNoRollback(t) ==
  /\ pc[t] = "onStart"
  /\ gSupportsFsCheckpoints' = SupportsFsCheckpoints
  /\ gInFsCheckpointMode' = (SupportsFsCheckpoints /\ NeedsCheckpoint)
  /\ Goto(t, "collectKeys")
  /\ UNCHANGED <<disk, vold, mounts, phase, populated, rebooting, frame,
                 opened, history>>

\* The vold queries; a query that fails counts as "no".
OnStart(t) ==
  /\ pc[t] = "onStart"
  /\ gSupportsFsCheckpoints' \in
       {SupportsFsCheckpoints, SupportsFsCheckpoints /\ ~Fault("vold")}
  /\ gInFsCheckpointMode' \in
       {gSupportsFsCheckpoints' /\ NeedsCheckpoint,
        gSupportsFsCheckpoints' /\ NeedsCheckpoint /\ ~Fault("vold")}
  /\ \/ /\ gSupportsFsCheckpoints' /\ NeedsRollback
        /\ Goto(t, "voldRollback")
     \/ /\ ~gSupportsFsCheckpoints' \/ ~NeedsRollback \/ Fault("vold")
        /\ Goto(t, "collectKeys")
  /\ UNCHANGED <<disk, vold, mounts, phase, populated, rebooting, frame, opened, history>>

\* rollbackStagedSessionIfAny.
RollbackStagedSessionIfAny(t) ==
  /\ pc[t] = "voldRollback"
  /\ \/ \E s \in SessionIds :
          /\ IsActiveSession(sessions, s) /\ sessions[s] = "STAGED"
          /\ Enter(t, "commitStagedRollback", s, "bootVold")
     \/ /\ Fault("sessions") \/ ~ActiveSessionIs("STAGED")
        /\ Goto(t, "collectKeys")
        /\ UNCHANGED frame
  /\ UNCHANGED <<disk, outside>>

\* PopulateFromMounts flags the highest mounted version of each package; it
\* starts from version 0.
Highest(ms) ==
  {m \in ms : /\ m.apex.version > 0
              /\ \A o \in ms : o.apex.name = m.apex.name
                                 => o.apex.version <= m.apex.version}

\* collectApexKeys, whose failure ends onStart; then PopulateFromMounts, and
\* the list of staged sessions of scanStagedSessionsDirAndStage.
CollectApexKeys(t) ==
  /\ pc[t] = "collectKeys"
  /\ \/ /\ latest' = Highest(mounted)
        /\ populated' = TRUE
        /\ Goto(t, "stageScan")
        /\ \E ids \in Listing(GetSessionsInState(sessions, "STAGED")) :
             frame' = [frame EXCEPT ![t].listed = ids]
        /\ UNCHANGED phase
     \/ /\ Fault("keys")
        /\ Finish(t)
        /\ phase' = "serving"
        /\ UNCHANGED <<latest, populated>>
  /\ UNCHANGED <<disk, vold, mounted, gSupportsFsCheckpoints, gInFsCheckpointMode, rebooting, opened, history>>

\* Mutant: a session that cannot be scanned is skipped and stays staged.
ScanStagedSessionSkips(t) ==
  /\ pc[t] = "stageScan"
  /\ \/ \E s \in frame[t].listed :
          \/ /\ Goto(t, "stageVerify")
             /\ frame' = [frame EXCEPT ![t].sid = s,
                                       ![t].caller = "bootStage",
                                       ![t].listed = @ \ {s},
                                       ![t].todo = Staging[s]]
          \/ /\ frame' = [frame EXCEPT ![t].listed = @ \ {s}]
             /\ UNCHANGED pc
     \/ frame[t].listed = {} /\ Leave(t, "resume")
  /\ UNCHANGED <<disk, outside>>

\* Mutant: the loop does not move on to the next session.
ScanStagedSessionRepeats(t) ==
  /\ pc[t] = "stageScan"
  /\ \/ \E s \in frame[t].listed :
          /\ Goto(t, "stageVerify") \/ Goto(t, "commitActivationFailed")
          /\ frame' = [frame EXCEPT ![t].sid = s,
                                    ![t].caller = "bootStage",
                                    ![t].todo = Staging[s]]
     \/ frame[t].listed = {} /\ Leave(t, "resume")
  /\ UNCHANGED <<disk, outside>>

\* One staged session: scan its directories, run postinstall, then stage.
ScanStagedSession(t) ==
  /\ pc[t] = "stageScan"
  /\ \/ \E s \in frame[t].listed :
          /\ Goto(t, "stageVerify") \/ Goto(t, "commitActivationFailed")
          /\ frame' = [frame EXCEPT ![t].sid = s,
                                    ![t].caller = "bootStage",
                                    ![t].listed = @ \ {s},
                                    ![t].todo = Staging[s]]
     \/ frame[t].listed = {} /\ Leave(t, "resume")
  /\ UNCHANGED <<disk, outside>>

\* On to the next staged session.
NextStagedSession(t) ==
  /\ Goto(t, "stageScan")
  /\ frame' = [frame EXCEPT ![t] = [EmptyFrame EXCEPT !.listed = frame[t].listed]]

CommitActivated(t) ==
  /\ \/ CommitReportsSuccess(t, "commitActivated", "ACTIVATED")
     \/ CommitFails(t, "commitActivated")
  /\ NextStagedSession(t)
  /\ CommitFrame /\ UNCHANGED <<checkpoint, rebooting>>

CommitActivationFailed(t) ==
  /\ \/ CommitReportsSuccess(t, "commitActivationFailed", "ACTIVATION_FAILED")
     \/ CommitFails(t, "commitActivationFailed")
  /\ NextStagedSession(t)
  /\ CommitFrame /\ UNCHANGED <<checkpoint, rebooting>>

\* Mutant: an interrupted rollback is not resumed.
BootResumeRollbackSkipped(t) ==
  /\ pc[t] = "resume"
  /\ Goto(t, "scanData")
  /\ UNCHANGED <<disk, frame, outside>>

\* resumeRollbackIfNeeded during onStart; a failure is only logged.
BootResumeRollback(t) ==
  /\ pc[t] = "resume"
  /\ \/ \E s \in SessionIds : ResumeRollback(t, s, "bootResume")
     \/ /\ \/ Fault("sessions") \/ Fault("dir")
           \/ ~ActiveSessionIs("ROLLBACK_IN_PROGRESS")
        /\ Goto(t, "scanData")
        /\ UNCHANGED frame
  /\ UNCHANGED <<disk, outside>>

\* scanPackagesDirAndActivate: the files that are not skipped.
ToActivate(files) ==
  {a \in files : ~\E p \in GetActivePackages : /\ p.name = a.name
                                               /\ p.version >= a.version}

\* Mounts of the version of a that activatePackageImpl can look into.
MountsOf(a) == {m \in mounted : m.apex = a /\ HasFile(m)}

\* is_newest_version.
IsNewest(a) == \A m \in mounted : HasFile(m) /\ m.apex.name = a.name
                                    => m.apex.version <= a.version

\* MountPackage succeeds or was done before.  Its mount point is not empty
\* when a file that is gone by now is mounted there.
MountPackage(a, dir) ==
  IF MountsOf(a) # {}
    THEN UNCHANGED mounted
    ELSE /\ \A m \in mounted : m.apex # a
         /\ mounted' = mounted \cup {[apex |-> a, dir |-> dir]}

\* MountedApexDatabase::SetLatest.
SetLatest(m) ==
  /\ m \in mounted'
  /\ latest' = {m} \cup {l \in latest : l.apex.name # m.apex.name}

\* activatePackageImpl succeeds.
ActivatePackage(a, dir) ==
  \/ MountsOf(a) \cap latest # {} /\ UNCHANGED mounts
  \/ /\ MountsOf(a) \cap latest = {}
     /\ MountPackage(a, dir)
     /\ IF IsNewest(a) THEN SetLatest([apex |-> a, dir |-> dir])
                       ELSE UNCHANGED latest

\* The mount fails, or the bind mount over the active mount point does.
ActivatePackageFails(a, dir) ==
  /\ MountsOf(a) \cap latest = {}
  /\ \/ /\ MountsOf(a) = {}
        /\ Fault("activate") \/ \E m \in mounted : m.apex = a
        /\ UNCHANGED mounted
     \/ Fault("activate") /\ IsNewest(a) /\ MountPackage(a, dir)
  /\ UNCHANGED latest

\* One package of a scan of directory dir.
ActivateOne(t, dir) ==
  /\ \E a \in frame[t].todo :
       \/ /\ ActivatePackage(a, dir)
          /\ frame' = [frame EXCEPT ![t].todo = @ \ {a}]
       \/ /\ ActivatePackageFails(a, dir)
          /\ frame' = [frame EXCEPT ![t].todo = @ \ {a},
                                    ![t].failed = @ \cup {a}]
  /\ UNCHANGED pc

\* rollbackActiveSessionAndReboot, when the packages in /data cannot be
\* activated; a failure is only logged.
ActivationFailed(t) ==
  \/ \E s \in SessionIds :
       /\ IsActiveSession(sessions, s)
       /\ \/ /\ RollbackSession(t, s, "bootActivate")
             /\ UNCHANGED <<checkpoint, rebooting>>
          \/ /\ RollbackIsNoOp(s)
             /\ AbortAndReboot
             /\ Leave(t, "scanBuiltin")
  \/ /\ RollbackRefused
     /\ Leave(t, "scanBuiltin")
     /\ UNCHANGED <<checkpoint, rebooting>>

ScanData(t) ==
  /\ pc[t] = "scanData"
  /\ \/ /\ activeDir
        /\ Goto(t, "activateData")
        /\ frame' = [frame EXCEPT ![t].todo = ToActivate(active)]
        /\ UNCHANGED <<checkpoint, rebooting>>
     \/ /\ ~activeDir \/ Fault("activate")
        /\ ActivationFailed(t)
  /\ UNCHANGED <<disk, snapshot, mounts, phase, populated, gSupportsFsCheckpoints, gInFsCheckpointMode, opened, history>>

ActivateData(t) ==
  /\ pc[t] = "activateData"
  /\ \/ ActivateOne(t, "data") /\ UNCHANGED <<checkpoint, rebooting>>
     \/ /\ frame[t].todo = {} /\ frame[t].failed = {}
        /\ Leave(t, "scanBuiltin")
        /\ UNCHANGED <<mounts, checkpoint, rebooting>>
     \/ /\ frame[t].todo = {} /\ frame[t].failed # {}
        /\ ActivationFailed(t)
        /\ UNCHANGED mounts
  /\ UNCHANGED <<disk, snapshot, phase, populated, gSupportsFsCheckpoints, gInFsCheckpointMode, opened, history>>

ScanBuiltin(t) ==
  /\ pc[t] = "scanBuiltin"
  /\ Goto(t, "activateBuiltin")
  /\ frame' = [frame EXCEPT ![t].todo = ToActivate(Builtin)]
  /\ UNCHANGED <<disk, outside>>

\* A builtin package that cannot be activated is only logged.
ActivateBuiltin(t) ==
  /\ pc[t] = "activateBuiltin"
  /\ \/ ActivateOne(t, "builtin") /\ UNCHANGED phase
     \/ /\ frame[t].todo = {}
        /\ Finish(t)
        /\ phase' = "serving"
        /\ UNCHANGED mounts
  /\ UNCHANGED <<disk, vold, populated, gSupportsFsCheckpoints, gInFsCheckpointMode, rebooting, opened, history>>

\* waitForBootStatus sees boot_completed: unmountDanglingMounts.
BootCompleted(t) ==
  /\ phase = "serving" /\ pc[t] = "idle"
  /\ phase' = "completed"
  /\ Goto(t, "dangling")
  /\ UNCHANGED <<disk, vold, mounts, populated, gSupportsFsCheckpoints, gInFsCheckpointMode, rebooting, frame, opened, history>>

UnmountDanglingMounts(t) ==
  /\ pc[t] = "dangling"
  /\ \/ /\ populated
        /\ \E m \in mounted \ latest :
             /\ mounted' = mounted \ {m}
             /\ \/ m.dir = "data" /\ active' = active \ {m.apex}
                \/ m.dir # "data" /\ UNCHANGED active
                \/ Fault("unlink") /\ UNCHANGED active
        /\ UNCHANGED <<pc, frame>>
     \/ /\ ~populated \/ mounted \subseteq latest
        /\ Finish(t)
        /\ UNCHANGED <<mounted, active>>
  /\ UNCHANGED <<sessions, activeDir, backup, backupDir, vold, latest, process, opened, history>>

-----------------------------------------------------------------------------
(* The process dies and init starts it again, or the device reboots.  Both *)
(* run onStart again; mounts survive the first only.  What the bootstrap   *)
(* instance of apexd mounts is in a mount namespace of its own.            *)

MayCrash == CrashAnywhere \/ \A t \in Threads : pc[t] = "idle"

StartProcess ==
  /\ phase' = "booting"
  /\ populated' = FALSE
  /\ gSupportsFsCheckpoints' = FALSE
  /\ gInFsCheckpointMode' = FALSE
  /\ latest' = {}
  /\ pc' = [t \in Threads |-> IF t = Main THEN "onStart" ELSE "idle"]
  /\ frame' = [t \in Threads |-> EmptyFrame]
  /\ opened' = [t \in Threads |-> FALSE]
  /\ UNCHANGED history

ProcessDies ==
  /\ StartProcess
  /\ UNCHANGED <<disk, vold, mounted, rebooting>>

RestartProcess == MayCrash /\ ProcessDies

\* The version to activate is mounted from a file in another directory, not
\* from the one at hand: SetLatest does not find the latter and aborts.
SetLatestAborts(a, dir) ==
  /\ MountsOf(a) # {} /\ MountsOf(a) \cap latest = {} /\ IsNewest(a)
  /\ [apex |-> a, dir |-> dir] \notin mounted

AbortProcess ==
  /\ \E t \in Threads, a \in Apexes :
       /\ a \in frame[t].todo
       /\ \/ pc[t] = "activateData" /\ SetLatestAborts(a, "data")
          \/ pc[t] = "activateBuiltin" /\ SetLatestAborts(a, "builtin")
  /\ ProcessDies

\* vold puts /data in checkpoint mode, or gives it back its old contents when
\* the device reboots before the checkpoint was committed.
RebootDevice ==
  /\ MayCrash
  /\ StartProcess
  /\ rebooting' = FALSE
  /\ mounted' = {}
  /\ \/ /\ checkpoint \in {"none", "failed"}
        /\ UNCHANGED <<disk, vold>>
     \/ /\ checkpoint = "requested"
        /\ checkpoint' = "active"
        /\ snapshot' = CurrentDisk
        /\ UNCHANGED disk
     \/ /\ checkpoint \in {"active", "aborted"}
        /\ checkpoint' \in IF checkpoint = "active" THEN {"active", "failed"}
                                                    ELSE {"failed"}
        /\ snapshot' = IF checkpoint' = "active" THEN snapshot ELSE NoDisk
        /\ sessions' = snapshot.sessions
        /\ active' = snapshot.active
        /\ activeDir' = snapshot.activeDir
        /\ backup' = snapshot.backup
        /\ backupDir' = snapshot.backupDir

-----------------------------------------------------------------------------
Init ==
  /\ sessions = [s \in SessionIds |-> "NONE"]
  /\ active \in FactoryActive
  /\ activeDir \in (IF active = {} THEN BOOLEAN ELSE {TRUE})
  /\ backup = {} /\ backupDir = FALSE
  /\ checkpoint = "none" /\ snapshot = NoDisk
  /\ mounted = {} /\ latest = {}
  /\ phase = "booting" /\ populated = FALSE
  /\ gSupportsFsCheckpoints = FALSE /\ gInFsCheckpointMode = FALSE
  /\ rebooting = FALSE
  /\ pc = [t \in Threads |-> IF t = Main THEN "onStart" ELSE "idle"]
  /\ frame = [t \in Threads |-> EmptyFrame]
  /\ opened = [t \in Threads |-> FALSE]
  /\ before = active /\ protection = "backup" /\ accepted = FALSE
  /\ restoring = FALSE

\* Requests to thread t, from the installer, a shell or the main thread.
Request(t) ==
  \/ \E s \in SessionIds : \/ SubmitStagedSession(t, s)
                           \/ MarkStagedSessionReady(t, s)
                           \/ MarkStagedSessionSuccessful(t, s)
                           \/ StagePackages(t, Staging[s])
  \/ RollbackActiveSession(t)
  \/ AbortActiveSession(t)
  \/ ResumeRollbackIfNeeded(t)
  \/ \E paths \in SUBSET active : UnstagePackages(t, paths)
  \/ UpdatableCrashing(t)
  \/ BootCompleted(t)

\* The steps of the handler that thread t is running.
Step(t) ==
  \/ OpenStateFile(t)
  \/ ClearSessions(t)
  \/ ProtectActivePackages(t)
  \/ BackupActivePackages(t)
  \/ DeleteBackup(t, "backupClean", "backupLink")
  \/ LinkBackup(t)
  \/ UndoBackup(t)
  \/ VerifySession(t)
  \/ CommitVerified(t)
  \/ CommitStaged(t)
  \/ DeleteBackup(t, "successClean", "commitSuccess")
  \/ CommitSuccess(t)
  \/ AbortDelete(t)
  \/ CommitStagedRollback(t)
  \/ CommitRollback(t)
  \/ RestoreCheck(t)
  \/ RestoreDelete(t)
  \/ RestoreRename(t)
  \/ RestoreChmod(t)
  \/ CommitRollbackFailed(t)
  \/ CommitRolledBack(t)
  \/ StageVerify(t)
  \/ StageLink(t)
  \/ StageUndo(t)
  \/ StageRemove(t)
  \/ Unstage(t)
  \/ OnStart(t)
  \/ RollbackStagedSessionIfAny(t)
  \/ CollectApexKeys(t)
  \/ ScanStagedSession(t)
  \/ CommitActivated(t)
  \/ CommitActivationFailed(t)
  \/ BootResumeRollback(t)
  \/ ScanData(t)
  \/ ActivateData(t)
  \/ ScanBuiltin(t)
  \/ ActivateBuiltin(t)
  \/ UnmountDanglingMounts(t)

Next ==
  \/ \E t \in Threads : Request(t) \/ Step(t)
  \/ VoldCommitChanges
  \/ RestartProcess
  \/ AbortProcess
  \/ RebootDevice

Spec == Init /\ [][Next]_vars

-----------------------------------------------------------------------------
(* Properties.                                                             *)

DiskType ==
  /\ sessions \in [SessionIds -> FileStates]
  /\ active \in SUBSET Apexes /\ activeDir \in BOOLEAN
  /\ backup \in SUBSET Apexes /\ backupDir \in BOOLEAN

VoldType ==
  /\ checkpoint \in {"none", "requested", "active", "aborted", "failed"}
  /\ snapshot \in Disks

MountsType == mounted \in SUBSET Mounts /\ latest \in SUBSET Mounts

ProcessType ==
  /\ phase \in {"booting", "serving", "completed"}
  /\ populated \in BOOLEAN
  /\ gSupportsFsCheckpoints \in BOOLEAN /\ gInFsCheckpointMode \in BOOLEAN
  /\ rebooting \in BOOLEAN

ThreadsType == pc \in [Threads -> Labels] /\ frame \in [Threads -> Frames]

HistoryType ==
  /\ before \in SUBSET Apexes
  /\ protection \in {"backup", "checkpoint"}
  /\ accepted \in BOOLEAN /\ restoring \in BOOLEAN

\* The types of the variables.
TypeOK ==
  /\ DiskType /\ VoldType /\ MountsType /\ ProcessType
  /\ ThreadsType /\ opened \in [Threads -> BOOLEAN]
  /\ HistoryType

\* ApexSession::GetActiveSession never finds more than one session: whatever
\* crashes and failures do to submitStagedSession, it clears the old sessions
\* before it records a new one.  Two unfinalized sessions would make every
\* abort, rollback and resumed rollback fail.
AtMostOneActiveSession ==
  \A s, u \in Unfinalized(sessions) : s = u

\* From its submission until it is accepted, a session that relies on the
\* backup can be undone: /data/apex/backup holds exactly what
\* /data/apex/active held when submitStagedSession began to protect it.
BackupIntact ==
  (/\ \E s \in SessionIds : sessions[s] \in {"VERIFIED", "STAGED", "ACTIVATED"}
   /\ protection = "backup" /\ ~accepted)
    => backupDir /\ backup = before

\* While a rollback is recorded as in progress, across crashes and failed
\* commits, either the backup is complete and can be restored again, or it is
\* gone because the rename was done.
RollbackResumable ==
  (/\ \E s \in SessionIds : sessions[s] = "ROLLBACK_IN_PROGRESS"
   /\ protection = "backup" /\ ~accepted /\ backupDir)
    => backup = before

\* DoRollback gives back exactly the packages that were active before the
\* session: the step that uses up the backup puts them in place.
RollbackRestores ==
  [][backupDir /\ ~backupDir' /\ protection = "backup" /\ ~accepted
       => active' = before]_vars

\* ... whatever state the session had reached: as long as it is recorded as
\* ACTIVATED, abortActiveSession and updatable_crashing may roll it back.
RollbackAlwaysRestores ==
  [][backupDir /\ ~backupDir' /\ protection = "backup"
       => active' = before]_vars

\* Only a session that is ACTIVATED at that moment becomes SUCCESS, as the
\* comment in markStagedSessionSuccessful says.
AcceptsActivatedOnly ==
  [][\A s \in SessionIds :
       sessions[s] # "SUCCESS" /\ sessions'[s] = "SUCCESS"
         => sessions[s] = "ACTIVATED"]_vars

\* stagePackages removes an old version of a package only when another
\* version of it is in /data/apex/active already.
ReplacedBeforeRemoved ==
  [][\A t \in Threads : pc[t] = "stageRemove" =>
       \A a \in active \ active' : \E b \in active' : b.name = a.name]_vars

\* onStart records that session s was activated.
Activates(s) ==
  /\ \E t \in Threads : pc[t] = "commitActivated" /\ frame[t].sid = s
  /\ sessions[s] # "ACTIVATED" /\ sessions'[s] = "ACTIVATED"

\* A session is recorded as activated only when each of its packages is in
\* /data/apex/active or is the one running already.
ActivatedIsInstalled ==
  [][\A s \in SessionIds : Activates(s) =>
       \A a \in Staging[s] : a \in active \/ a \in GetActivePackages]_vars

\* ... and no newer version of a package of the session is left beside it,
\* which would be activated in its place (a package that was not staged since
\* that version runs already is not concerned).
ActivatedIsNewest ==
  [][\A s \in SessionIds : Activates(s) =>
       \A a \in Staging[s] \cap active, b \in active :
         b.name = a.name => b.version <= a.version]_vars

\* A stagePackages that fails leaves /data/apex/active as it found it.
StageAllOrNothing ==
  [][\A t \in Threads :
       (/\ pc[t] = "stageUndo" \/ (pc[t] = "stageRemove" /\ frame[t].todo # {})
        /\ pc'[t] \notin {pc[t], "onStart"})
         => active' = frame[t].base]_vars

\* A session recorded as rolled back has none of the packages it brought left
\* in /data/apex/active.
RolledBackIsUndone ==
  [][\A s \in SessionIds :
       sessions[s] # "ROLLED_BACK" /\ sessions'[s] = "ROLLED_BACK" /\ ~accepted
         => (Staging[s] \ before) \cap active = {}]_vars

\* Once vold has asked for a rollback, no session is activated until vold has
\* settled: onStart marks the staged session before it scans for them.
NoActivationAfterVoldRollback ==
  [][\A s \in SessionIds : Activates(s) => ~NeedsRollback]_vars

\* Packages that DoRollback has deleted are never forgotten: until the backup
\* has taken their place, GetActiveSession finds the session whose rollback is
\* to be resumed, even where a crash may leave a state file empty.
HalfRestoredIsRecorded ==
  restoring => ActiveSessionIs("ROLLBACK_IN_PROGRESS")

\* The records of the sessions follow the life of a session.
Rewindable == checkpoint \in {"active", "aborted"}

Lifecycle == INSTANCE SessionLifecycle
  WITH status <- sessions, rewindable <- Rewindable,
       saved <- snapshot.sessions

FollowsLifecycle == Lifecycle!Spec

-----------------------------------------------------------------------------
(* Inductive invariants of an apexd that runs one handler at a time, whose *)
(* state files are written at once and can be listed.                      *)

Sequential == Threads = {Main} /\ ~TornWrites /\ ~Fault("sessions")

\* The states the session of a handler may be in when its pc is at label.
RecordedStates(label) ==
  CASE label = "commitStaged" -> {"VERIFIED"}
    [] label \in {"successClean", "commitSuccess", "commitRollback"} ->
         {"ACTIVATED"}
    [] label = "abortDelete" -> {"VERIFIED", "STAGED"}
    [] label \in {"commitStagedRollback", "commitActivated",
                  "commitActivationFailed", "stageVerify", "stageLink",
                  "stageUndo", "stageRemove"} -> {"STAGED"}
    [] label \in {"restoreCheck", "restoreDelete", "restoreRename",
                  "restoreChmod", "commitRolledBack",
                  "commitRollbackFailed"} -> {"ROLLBACK_IN_PROGRESS"}
    [] OTHER -> FileStates

\* Labels at which a thread has a fresh frame.
FreshLabels == {"idle", "onStart", "voldRollback", "collectKeys"}

\* submitStagedSession has cleared the sessions and not yet made its own.
ClearedLabels == {"protect", "backup", "backupClean", "backupLink",
                  "backupUndo", "verify", "commitVerified"}

\* scanStagedSessionsDirAndStage is in its loop.
ScanLabels == {"stageScan", "stageVerify", "stageLink", "stageUndo",
               "stageRemove", "commitActivated", "commitActivationFailed"}

NoTornFiles ==
  /\ \A s \in SessionIds : sessions[s] # "EMPTY" /\ snapshot.sessions[s] # "EMPTY"
  /\ \A t \in Threads : ~opened[t]

\* What a handler has read of the sessions is still so.
ReadsHold(t) ==
  /\ pc[t] \in FreshLabels => frame[t] = EmptyFrame
  /\ pc[t] = "clear" => GetSessions(sessions) \subseteq frame[t].listed
  /\ pc[t] \in ClearedLabels => GetSessions(sessions) = {}
  /\ pc[t] \in ScanLabels =>
       \A s \in frame[t].listed : sessions[s] = "STAGED" /\ s # frame[t].sid
  /\ frame[t].sid \in SessionIds =>
       sessions[frame[t].sid] \in RecordedStates(pc[t])

SessionInv == NoTornFiles /\ \A t \in Threads : ReadsHold(t)

\* Where a submission or a rollback stands with the files.
BackupStands(t) ==
  /\ pc[t] \in {"backup", "backupClean", "backupLink"} => before = active
  /\ pc[t] \in {"backupClean", "backupLink"} => backupDir
  /\ pc[t] = "backupClean" => frame[t].todo = active
  /\ pc[t] = "backupLink" => /\ frame[t].todo \cap backup = {}
                             /\ frame[t].todo \cup backup = active
  /\ pc[t] \in {"verify", "commitVerified"} => backupDir /\ backup = before
  /\ pc[t] \in {"successClean", "commitSuccess"} => accepted
  /\ pc[t] \in {"commitRollback", "restoreCheck", "restoreDelete",
                "restoreRename"} => frame[t].sid \in SessionIds
  /\ pc[t] \in {"backupClean", "backupLink", "stageLink", "stageUndo",
                "stageRemove", "restoreDelete", "restoreRename"} => activeDir

NoCheckpoints ==
  /\ checkpoint = "none" /\ protection = "backup"
  /\ ~gSupportsFsCheckpoints /\ ~gInFsCheckpointMode

NothingWithoutDir == ~activeDir => active = {} /\ backup = {}

BackupInv ==
  /\ NoCheckpoints /\ NothingWithoutDir
  /\ BackupIntact /\ RollbackResumable
  /\ \A t \in Threads : BackupStands(t)

\* Until the files that DoRollback has deleted are replaced, their session is
\* on record and nothing but onStart runs, up to where it resumes the rollback.
RestoreInv ==
  /\ \A t \in Threads :
       /\ pc[t] \in {"restoreDelete", "restoreRename"} => backupDir
       /\ pc[t] = "restoreRename" => active = {}
  /\ restoring =>
       /\ activeDir /\ backupDir
       /\ \E s \in SessionIds : sessions[s] = "ROLLBACK_IN_PROGRESS"
       /\ \A t \in Threads :
            pc[t] \in {"onStart", "collectKeys", "stageScan", "resume",
                      "restoreCheck", "restoreDelete", "restoreRename"}

\* onStart has asked vold, and may come to activate a session.
MayActivate(t) ==
  \/ pc[t] \in {"collectKeys", "stageScan", "commitActivated",
               "commitActivationFailed"}
  \/ pc[t] \in ScanLabels /\ frame[t].caller = "bootStage"

\* It has then marked the session that was staged before vold's rollback.
VoldStands(t) ==
  /\ pc[t] \in {"commitRollback", "restoreCheck", "restoreDelete",
               "restoreRename", "restoreChmod", "commitRolledBack",
               "commitRollbackFailed"} => frame[t].caller # "bootVold"
  /\ pc[t] = "commitStagedRollback" => frame[t].sid \in SessionIds
  /\ MayActivate(t) /\ NeedsRollback
       => \A s \in SessionIds : sessions[s] # "STAGED"

\* The package need not be staged.
Present(a) == a \in active \/ a \in GetActivePackages

\* Where stagePackages stands with /data/apex/active ...
StageStands(t) ==
  /\ pc[t] \in {"stageScan", "stageVerify"} => frame[t].staged = {}
  /\ pc[t] = "stageLink" \/ (pc[t] = "stageUndo" /\ ~Fault("unlink")) =>
       /\ active = frame[t].base \cup frame[t].staged
       /\ frame[t].base \cap frame[t].staged = {}
  /\ pc[t] = "stageRemove" => /\ frame[t].staged \subseteq active
                             /\ frame[t].todo \subseteq
                                  PreviouslyActive(frame[t].staged)

\* ... and with the session it stages.
SessionStands(t) ==
  /\ pc[t] = "commitActivated" \/ (pc[t] \in {"stageVerify", "stageLink",
                                             "stageRemove"}
                                  /\ frame[t].caller = "bootStage")
       => frame[t].sid \in SessionIds
  /\ frame[t].caller = "bootStage" =>
       LET files == Staging[frame[t].sid]
           linked == frame[t].staged \cup
                       (IF pc[t] = "stageLink" THEN frame[t].todo ELSE {})
       IN /\ pc[t] = "stageVerify" => frame[t].todo = files
          /\ pc[t] \in {"stageLink", "stageRemove"} =>
               /\ linked \subseteq files
               /\ \A a \in files \ linked : Present(a)
  /\ pc[t] = "commitActivated" => \A a \in Staging[frame[t].sid] : Present(a)

OneVersion(files) == \A a, b \in files : a.name = b.name => a = b

\* No session brings two versions of a package.
OneVersionEach == \A s \in SessionIds : OneVersion(Staging[s])

\* Where no crash and no failing unlink cut stagePackages short, two versions
\* of a package are side by side only while it runs.
VersionsStand(t) ==
  /\ OneVersion(backup) /\ OneVersion(snapshot.active)
  /\ OneVersion(snapshot.backup)
  /\ pc[t] = "backupLink" => backup \subseteq active
  /\ pc[t] \in {"stageLink", "stageUndo"} =>
       /\ OneVersion(frame[t].base)
       /\ pc[t] = "stageLink" => OneVersion(frame[t].todo \cup frame[t].staged)
  /\ pc[t] = "stageVerify" => OneVersion(frame[t].todo)
  /\ pc[t] = "stageRemove" =>
       /\ frame[t].todo = PreviouslyActive(frame[t].staged)
       /\ OneVersion(active \ frame[t].todo)
  /\ pc[t] \notin {"stageLink", "stageUndo", "stageRemove"} => OneVersion(active)

\* Nothing was installed since submitStagedSession looked at the active files.
NothingNew == accepted \/ active \subseteq before

\* As long as a session may be recorded as rolled back at once, nothing of it
\* is installed: it was not staged yet, or the backup has been put in place.
NothingNewOnRecord ==
  \A s \in SessionIds :
    (\/ sessions[s] = "VERIFIED"
     \/ sessions[s] = "STAGED" /\ phase # "booting"
     \/ sessions[s] = "ROLLBACK_IN_PROGRESS" /\ ~backupDir)
      => NothingNew

\* onStart leaves no session staged behind it, and every handler has its files
\* where it needs them to undo its session.
UndoneStands(t) ==
  /\ pc[t] \in {"backup", "backupClean", "backupLink", "verify",
               "commitVerified"} => active = before
  /\ pc[t] \in {"restoreChmod", "commitRolledBack"} =>
       ~backupDir /\ frame[t].sid \in SessionIds
  /\ pc[t] \in {"commitStaged", "commitStagedRollback"} => phase # "booting"
  /\ pc[t] \in {"commitStagedRollback", "commitRollback", "restoreCheck",
               "restoreDelete", "restoreRename", "restoreChmod",
               "commitRolledBack", "commitRollbackFailed"} =>
       frame[t].caller # "bootVold"
  /\ pc[t] # "voldRollback"
  /\ pc[t] \in {"onStart", "collectKeys"} \cup ScanLabels => phase = "booting"
  /\ pc[t] \in ScanLabels \ {"stageScan"} =>
       frame[t].caller = "bootStage" /\ frame[t].sid \in SessionIds
  /\ pc[t] = "stageScan" =>
       \A s \in SessionIds : sessions[s] = "STAGED" => s \in frame[t].listed
  /\ phase = "booting" /\ pc[t] \notin {"onStart", "collectKeys"} \cup ScanLabels =>
       \A s \in SessionIds : sessions[s] # "STAGED"

-----------------------------------------------------------------------------
(* Liveness.  A handler that has begun goes on, and a device that was asked*)
(* to reboot does; requests and crashes need never come.                   *)

FairSpec == /\ Spec
            /\ \A t \in Threads : WF_vars(Step(t))
            /\ WF_vars(AbortProcess)
            /\ WF_vars(rebooting /\ RebootDevice)

\* From some point on the process and the device stay up, except for reboots
\* that apexd asks for.
StaysUp == <>[][~(RestartProcess \/ (RebootDevice /\ ~rebooting))]_vars

\* A rollback that was begun is finished, if need be by resumeRollbackIfNeeded
\* after a crash.
RollbackFinishes ==
  StaysUp => \A s \in SessionIds :
    sessions[s] = "ROLLBACK_IN_PROGRESS" ~> sessions[s] # "ROLLBACK_IN_PROGRESS"

\* A boot decides every staged session it finds.
StagedIsDecided ==
  StaysUp => \A s \in SessionIds :
    sessions[s] = "STAGED" /\ phase = "booting" ~> sessions[s] # "STAGED"

\* onStart ends, and so does every handler.
HandlersEnd ==
  StaysUp => \A t \in Threads : pc[t] # "idle" ~> pc[t] = "idle"

=============================================================================
