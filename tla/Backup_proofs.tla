---------------------------- MODULE Backup_proofs ----------------------------
(***************************************************************************)
(* What the files of a session go through.  On a device without file       *)
(* system checkpoints the backup that a session relies on is complete, a   *)
(* rollback gives back what was active before the session, and what a      *)
(* rollback has deleted is not forgotten.  A rollback that vold asks for   *)
(* comes before any activation.  stagePackages leaves a session's packages *)
(* in place of their predecessors, or nothing.  A session recorded as      *)
(* rolled back has left nothing behind.                                    *)
(***************************************************************************)
EXTENDS Lifecycle_proofs

WithoutCheckpoints == Sequential /\ ~SupportsFsCheckpoints

\* Without checkpoints every session is protected by the backup.
LEMMA NoCheckpointsStep ==
  ASSUME WithoutCheckpoints, NoCheckpoints, [Next]_vars
  PROVE  NoCheckpoints'
<1> USE DEF NoCheckpoints
<1>1. CASE UNCHANGED vars
  BY <1>1 DEF vars, vold, process, history
<1>0. UNCHANGED outside => NoCheckpoints'
  BY DEF vold, process, history, outside
<1>2. ASSUME NEW t \in Threads, Request(t)
      PROVE  NoCheckpoints'
  <2>1. CASE UpdatableCrashing(t)
    BY <2>1 DEF UpdatableCrashing, AbortAndReboot, history
  <2>2. ASSUME NEW s \in SessionIds, MarkStagedSessionSuccessful(t, s)
        PROVE  NoCheckpoints'
    BY <2>2 DEF MarkStagedSessionSuccessful, vold, process
  <2>3. CASE BootCompleted(t)
    BY <2>3 DEF BootCompleted, vold, history
  <2>4. ASSUME NEW s \in SessionIds,
               \/ SubmitStagedSession(t, s) \/ MarkStagedSessionReady(t, s)
               \/ StagePackages(t, Staging[s])
        PROVE  UNCHANGED outside
    BY <2>4 DEF SubmitStagedSession, MarkStagedSessionReady, StagePackages
  <2>5. ASSUME \/ RollbackActiveSession(t) \/ AbortActiveSession(t)
               \/ ResumeRollbackIfNeeded(t)
               \/ \E paths \in SUBSET active : UnstagePackages(t, paths)
        PROVE  UNCHANGED outside
    BY <2>5 DEF RollbackActiveSession, AbortActiveSession,
                ResumeRollbackIfNeeded, UnstagePackages
  <2> QED BY <1>0, <1>2, <2>1, <2>2, <2>3, <2>4, <2>5 DEF Request
<1>3. ASSUME NEW t \in Threads,
             \/ CommitVerified(t) \/ CommitStaged(t) \/ CommitSuccess(t)
             \/ CommitStagedRollback(t) \/ CommitRollback(t)
             \/ CommitRollbackFailed(t) \/ CommitRolledBack(t)
             \/ CommitActivated(t) \/ CommitActivationFailed(t)
      PROVE  NoCheckpoints'
  <2>1. UNCHANGED checkpoint
    BY <1>3 DEF CommitVerified, CommitStaged, CommitSuccess,
                CommitStagedRollback, CommitRollback, CommitRollbackFailed,
                CommitRolledBack, CommitActivated, CommitActivationFailed,
                Return, AbortAndReboot
  <2>2. CommitFrame
    BY <1>3 DEF CommitVerified, CommitStaged, CommitSuccess,
                CommitStagedRollback, CommitRollback, CommitRollbackFailed,
                CommitRolledBack, CommitActivated, CommitActivationFailed
  <2> QED BY <2>1, <2>2 DEF CommitFrame, history
<1>4. ASSUME NEW t \in Threads, ScanData(t) \/ ActivateData(t)
      PROVE  NoCheckpoints'
  BY <1>4 DEF ScanData, ActivateData, ActivationFailed, AbortAndReboot, history
<1>5. ASSUME NEW t \in Threads, OnStart(t) PROVE NoCheckpoints'
  BY <1>5 DEF OnStart, WithoutCheckpoints, vold, history
<1>6. ASSUME NEW t \in Threads,
             \/ ClearSessions(t) \/ BackupActivePackages(t)
             \/ DeleteBackup(t, "backupClean", "backupLink")
             \/ LinkBackup(t) \/ UndoBackup(t) \/ VerifySession(t)
             \/ DeleteBackup(t, "successClean", "commitSuccess")
             \/ AbortDelete(t) \/ RestoreCheck(t) \/ RestoreChmod(t)
             \/ StageVerify(t) \/ StageLink(t) \/ StageUndo(t) \/ StageRemove(t)
             \/ Unstage(t) \/ RollbackStagedSessionIfAny(t)
             \/ ScanStagedSession(t) \/ BootResumeRollback(t)
             \/ ScanBuiltin(t)
      PROVE  UNCHANGED outside
  BY <1>6 DEF ClearSessions, BackupActivePackages, DeleteBackup, LinkBackup,
              UndoBackup, VerifySession, AbortDelete, RestoreCheck,
              RestoreChmod, StageVerify, StageLink, StageUndo, StageRemove,
              Unstage, RollbackStagedSessionIfAny, ScanStagedSession,
              BootResumeRollback, ScanBuiltin
<1>7. ASSUME NEW t \in Threads,
             \/ OpenStateFile(t) \/ ProtectActivePackages(t)
             \/ RestoreDelete(t) \/ RestoreRename(t) \/ CollectApexKeys(t)
             \/ ActivateBuiltin(t) \/ UnmountDanglingMounts(t)
      PROVE  NoCheckpoints'
  <2>1. CASE OpenStateFile(t)
    BY <2>1 DEF OpenStateFile, vold, process, history
  <2>2. CASE ProtectActivePackages(t)
    BY <2>2 DEF ProtectActivePackages, process
  <2>3. CASE RestoreDelete(t) \/ RestoreRename(t)
    BY <2>3 DEF RestoreDelete, RestoreRename, vold, process
  <2>4. CASE CollectApexKeys(t) \/ ActivateBuiltin(t)
    BY <2>4 DEF CollectApexKeys, ActivateBuiltin, vold, history
  <2>5. CASE UnmountDanglingMounts(t)
    BY <2>5 DEF UnmountDanglingMounts, vold, process, history
  <2> QED BY <1>7, <2>1, <2>2, <2>3, <2>4, <2>5
<1>8. CASE VoldCommitChanges \/ ProcessDies \/ RebootDevice
  BY <1>8 DEF VoldCommitChanges, ProcessDies, RebootDevice, StartProcess,
              vold, history
<1>9. ASSUME NEW t \in Threads, Step(t) PROVE NoCheckpoints'
  BY <1>0, <1>3, <1>4, <1>5, <1>6, <1>7, <1>9 DEF Step
<1> QED BY <1>1, <1>2, <1>8, <1>9 DEF Next, RestartProcess, AbortProcess

\* Labels at which BackupStands says something.
StandsLabels ==
  {"backup", "backupClean", "backupLink", "verify", "commitVerified",
   "successClean", "commitSuccess", "commitRollback", "restoreCheck",
   "restoreDelete", "restoreRename", "stageLink", "stageUndo", "stageRemove"}

LEMMA ElsewhereStands ==
  ASSUME NEW t \in Threads, pc'[t] \notin StandsLabels
  PROVE  BackupStands(t)'
BY DEF BackupStands, StandsLabels

\* A step that leaves the files and the history of the protection alone.
FilesKept == UNCHANGED <<active, activeDir, backup, backupDir, before,
                         protection, accepted>>

Kept(t) == NothingWithoutDir' /\ BackupIntact' /\ RollbackResumable'
           /\ BackupStands(t)'

Needy == {"VERIFIED", "STAGED", "ACTIVATED"}

\* The records may move in these ways without the files.
LEMMA RecordsMove ==
  ASSUME NothingWithoutDir, BackupIntact, RollbackResumable, FilesKept,
         \A s \in SessionIds :
           \/ sessions'[s] = sessions[s]
           \/ sessions'[s] \notin Needy \cup {"ROLLBACK_IN_PROGRESS"}
           \/ sessions[s] \in Needy /\ sessions'[s] \in Needy
           \/ sessions[s] = "ACTIVATED" /\ sessions'[s] = "ROLLBACK_IN_PROGRESS"
  PROVE  NothingWithoutDir' /\ BackupIntact' /\ RollbackResumable'
BY DEF NothingWithoutDir, BackupIntact, RollbackResumable, FilesKept, Needy

\* Without sessions nothing depends on the backup.
LEMMA NoSessions ==
  ASSUME GetSessions(sessions') = {}
  PROVE  BackupIntact' /\ RollbackResumable'
BY DEF GetSessions, BackupIntact, RollbackResumable

\* The frame of thread t after an assignment to one of its fields.
LEMMA TodoFacts ==
  ASSUME TypeOK, NEW t \in Threads, NEW todo,
         frame' = [frame EXCEPT ![t].todo = todo]
  PROVE  frame'[t].todo = todo
<1>1. [frame EXCEPT ![t].todo = todo][t].todo = todo
  BY DEF TypeOK, ThreadsType, Frames
<1> QED BY <1>1

\* submitStagedSession once the sessions are cleared.
LEMMA SubmitKept ==
  ASSUME Sequential, TypeOK, TypeOK', NEW t \in Threads, ReadsHold(t),
         NoCheckpoints, NothingWithoutDir, BackupStands(t),
         \/ ProtectActivePackages(t) \/ BackupActivePackages(t)
         \/ DeleteBackup(t, "backupClean", "backupLink")
         \/ LinkBackup(t) \/ UndoBackup(t) \/ VerifySession(t)
  PROVE  Kept(t)
<1>1. BackupIntact' /\ RollbackResumable'
  <2>1. pc[t] \in ClearedLabels
    BY DEF ProtectActivePackages, BackupActivePackages, DeleteBackup,
           LinkBackup, UndoBackup, VerifySession, ClearedLabels
  <2>2. GetSessions(sessions') = {}
    BY <2>1, SubmitReadsHold DEF ReadsHold, Quiet
  <2> QED BY <2>2, NoSessions
<1>2. CASE Finish(t) /\ ~ProtectActivePackages(t)
  <2>1. BackupStands(t)'
    BY <1>2, LeaveFacts, ElsewhereStands DEF Finish, StandsLabels
  <2>2. NothingWithoutDir'
    BY <1>2 DEF BackupActivePackages, DeleteBackup, LinkBackup, UndoBackup,
                VerifySession, NothingWithoutDir, disk, outside
  <2> QED BY <1>1, <2>1, <2>2 DEF Kept
<1>3. CASE ProtectActivePackages(t)
  <2>1. pc'[t] = "backup" /\ UNCHANGED disk /\ before' = active
    BY <1>3, GotoFacts DEF ProtectActivePackages, NoCheckpoints
  <2> QED BY <1>1, <2>1 DEF Kept, BackupStands, NothingWithoutDir, disk
<1>4. CASE BackupActivePackages(t) /\ ~Finish(t)
  <2>1. /\ pc[t] = "backup" /\ backupDir'
        /\ UNCHANGED <<active, activeDir, backup, before>>
        /\ pc'[t] = IF activeDir THEN "backupClean" ELSE "verify"
    BY <1>4, GotoFacts DEF BackupActivePackages, outside, history
  <2>2. frame'[t].todo = IF activeDir THEN active ELSE {}
    BY <1>4, TodoFacts DEF BackupActivePackages
  <2> QED BY <1>1, <2>1, <2>2 DEF Kept, BackupStands, NothingWithoutDir
<1>5. CASE DeleteBackup(t, "backupClean", "backupLink") /\ ~Finish(t)
  <2>1. /\ pc[t] = "backupClean"
        /\ UNCHANGED <<active, activeDir, backupDir, before, frame>>
        /\ \/ \E a \in backup : backup' = backup \ {a} /\ UNCHANGED pc
           \/ backup = {} /\ pc'[t] = "backupLink" /\ UNCHANGED backup
    BY <1>5, GotoFacts DEF DeleteBackup, outside, history
  <2> QED BY <1>1, <2>1 DEF Kept, BackupStands, NothingWithoutDir
<1>6. CASE LinkBackup(t)
  <2>1. /\ pc[t] = "backupLink"
        /\ UNCHANGED <<active, activeDir, backupDir, before>>
    BY <1>6 DEF LinkBackup, outside, history
  <2>2. ASSUME NEW a \in (frame[t].todo \cap active) \ backup,
               backup' = backup \cup {a}, UNCHANGED pc,
               frame' = [frame EXCEPT ![t].todo = @ \ {a}]
        PROVE  BackupStands(t)' /\ NothingWithoutDir'
    <3>1. frame'[t].todo = frame[t].todo \ {a}
      BY <2>2, TodoFacts
    <3> QED BY <2>1, <2>2, <3>1 DEF BackupStands, NothingWithoutDir
  <2>3. CASE frame[t].todo = {} /\ pc'[t] = "verify" /\ UNCHANGED backup
    BY <1>1, <2>1, <2>3 DEF BackupStands, NothingWithoutDir, Kept
  <2>4. CASE pc'[t] = "backupUndo" /\ UNCHANGED backup
    BY <1>1, <2>1, <2>4, ElsewhereStands DEF NothingWithoutDir, StandsLabels,
                                             Kept
  <2> QED BY <1>1, <1>6, <2>2, <2>3, <2>4, GotoFacts DEF LinkBackup, Kept
<1>7. CASE UndoBackup(t) /\ ~Finish(t)
  <2>1. /\ pc'[t] = "backupUndo" /\ UNCHANGED <<active, activeDir>>
        /\ \E a \in backup : backup' = backup \ {a}
    BY <1>7 DEF UndoBackup
  <2> QED BY <1>1, <2>1, ElsewhereStands DEF Kept, NothingWithoutDir, StandsLabels
<1>8. CASE VerifySession(t) /\ ~Finish(t)
  <2>1. /\ pc[t] = "verify" /\ pc'[t] = "commitVerified"
        /\ UNCHANGED <<active, activeDir, backup, backupDir, before>>
    BY <1>8, GotoFacts DEF VerifySession, disk, outside, history
  <2> QED BY <1>1, <2>1 DEF Kept, BackupStands, NothingWithoutDir
<1> QED BY <1>2, <1>3, <1>4, <1>5, <1>6, <1>7, <1>8

\* DoRollback.
LEMMA RestoreKept ==
  ASSUME TypeOK, NEW t \in Threads, ReadsHold(t), AtMostOneActiveSession,
         NothingWithoutDir, BackupIntact, RollbackResumable, BackupStands(t),
         \/ RestoreCheck(t) \/ RestoreDelete(t) \/ RestoreRename(t)
         \/ RestoreChmod(t)
  PROVE  Kept(t)
<1>0. UNCHANGED <<sessions, activeDir, frame, before, protection, accepted>>
  BY DEF RestoreCheck, RestoreDelete, RestoreRename, RestoreChmod, disk,
         outside, history
<1>1. CASE FilesKept
  <2>1. NothingWithoutDir' /\ BackupIntact' /\ RollbackResumable'
    BY <1>0, <1>1, RecordsMove
  <2>2. pc'[t] \in {"restoreDelete", "restoreRename", "restoreChmod",
                    "commitRolledBack", "commitRollbackFailed"}
    BY <1>1, GotoFacts DEF RestoreCheck, RestoreDelete, RestoreRename,
                           RestoreChmod, FilesKept
  <2>3. pc'[t] \in {"restoreDelete", "restoreRename"}
          => /\ pc[t] \in {"restoreCheck", "restoreDelete"} /\ activeDir
    BY <1>1, GotoFacts DEF RestoreCheck, RestoreDelete, RestoreRename,
                           RestoreChmod, FilesKept, BackupStands
  <2> QED BY <1>0, <2>1, <2>2, <2>3 DEF BackupStands, Kept
<1>2. CASE RestoreDelete(t) /\ ~FilesKept
  <2>1. /\ pc[t] = "restoreDelete" /\ pc' = pc
        /\ \E a \in active : active' = active \ {a}
        /\ UNCHANGED <<backup, backupDir>>
    BY <1>2 DEF RestoreDelete, FilesKept
  <2> QED BY <1>0, <2>1 DEF Kept, BackupStands, NothingWithoutDir,
                            BackupIntact, RollbackResumable
<1>3. CASE RestoreRename(t) /\ ~FilesKept
  <2>1. /\ pc[t] = "restoreRename" /\ pc'[t] = "restoreChmod"
        /\ active' = backup /\ backup' = {} /\ ~backupDir'
    BY <1>3, GotoFacts DEF RestoreRename, FilesKept
  <2>2. frame[t].sid \in SessionIds
    BY <2>1 DEF BackupStands
  <2>3. sessions[frame[t].sid] = "ROLLBACK_IN_PROGRESS"
    BY <2>1, <2>2 DEF ReadsHold, RecordedStates
  <2>4. ASSUME NEW s \in SessionIds PROVE sessions[s] \notin Needy
    BY <2>2, <2>3 DEF AtMostOneActiveSession, Unfinalized, GetSessions,
                      IsFinalized, Needy
  <2>5. activeDir
    BY <2>1 DEF BackupStands
  <2>6. BackupStands(t)'
    BY <2>1, ElsewhereStands DEF StandsLabels
  <2> QED BY <1>0, <2>1, <2>4, <2>5, <2>6
          DEF Kept, NothingWithoutDir, BackupIntact, RollbackResumable, Needy
<1>4. CASE ~RestoreDelete(t) /\ ~RestoreRename(t)
  <2>1. FilesKept
    BY <1>4 DEF RestoreCheck, RestoreChmod, FilesKept, disk, outside, history
  <2> QED BY <1>1, <2>1
<1> QED BY <1>1, <1>2, <1>3, <1>4

\* A step that leaves the sessions and the backup alone.
LEMMA ActiveMoves ==
  ASSUME TypeOK, BackupIntact, RollbackResumable,
         UNCHANGED <<sessions, backup, backupDir, before, protection, accepted>>
  PROVE  BackupIntact' /\ RollbackResumable'
BY DEF BackupIntact, RollbackResumable

\* stagePackages, unstagePackages and unmountDanglingMounts.
LEMMA StageKept ==
  ASSUME TypeOK, NEW t \in Threads,
         NothingWithoutDir, BackupIntact, RollbackResumable, BackupStands(t),
         \/ StageVerify(t) \/ StageLink(t) \/ StageUndo(t) \/ StageRemove(t)
         \/ Unstage(t) \/ UnmountDanglingMounts(t)
  PROVE  Kept(t)
<1>1. BackupIntact' /\ RollbackResumable'
  <2>1. UNCHANGED <<sessions, backup, backupDir, before, protection, accepted>>
    BY DEF StageVerify, StageLink, StageUndo, StageRemove, Unstage,
           UnmountDanglingMounts, outside, history
  <2> QED BY <2>1, ActiveMoves
<1>2. NothingWithoutDir'
  BY DEF StageVerify, StageLink, StageUndo, StageRemove, Unstage,
         UnmountDanglingMounts, NothingWithoutDir, BackupStands
<1>3. pc'[t] \in {"stageLink", "stageUndo", "stageRemove"} => activeDir'
  <2>1. CASE StageVerify(t)
    <3>1. activeDir' \/ StageFails(t)
      BY <2>1 DEF StageVerify
    <3>2. StageFails(t) => pc'[t] \notin {"stageLink", "stageUndo", "stageRemove"}
      BY GotoFacts, LeaveFacts DEF StageFails, Finish
    <3> QED BY <3>1, <3>2
  <2>2. CASE StageLink(t) \/ StageUndo(t) \/ StageRemove(t)
    BY <2>2 DEF StageLink, StageUndo, StageRemove, BackupStands
  <2>3. CASE Unstage(t) \/ UnmountDanglingMounts(t)
    BY <2>3, LeaveFacts DEF Unstage, UnmountDanglingMounts, Finish
  <2> QED BY <2>1, <2>2, <2>3
<1>4. pc'[t] \in {"stageLink", "stageUndo", "stageRemove", "commitActivated",
                  "commitActivationFailed", "idle", "unstage", "dangling"}
  BY GotoFacts, LeaveFacts
     DEF StageVerify, StageLink, StageUndo, StageRemove, Unstage,
         UnmountDanglingMounts, StageFails, StageSucceeds, Finish
<1> QED BY <1>1, <1>2, <1>3, <1>4 DEF Kept, BackupStands

\* The labels at which BackupStands says nothing, of those a handler returns
\* to or goes on at.
LEMMA ReturnStands ==
  ASSUME TypeOK, NEW t \in Threads, NEW ok, Return(t, ok)
  PROVE  BackupStands(t)'
BY LeaveFacts, ElsewhereStands DEF Return, ReturnLabel, StandsLabels

LEMMA FinishStands ==
  ASSUME TypeOK, NEW t \in Threads, Finish(t)
  PROVE  BackupStands(t)'
BY LeaveFacts, ElsewhereStands DEF Finish, StandsLabels

\* The commits.
LEMMA CommitKept ==
  ASSUME Sequential, TypeOK, NoTornFiles, NEW t \in Threads, ReadsHold(t),
         NothingWithoutDir, BackupIntact, RollbackResumable, BackupStands(t),
         \/ CommitVerified(t) \/ CommitStaged(t) \/ CommitSuccess(t)
         \/ CommitStagedRollback(t) \/ CommitRollback(t)
         \/ CommitRollbackFailed(t) \/ CommitRolledBack(t)
         \/ CommitActivated(t) \/ CommitActivationFailed(t)
  PROVE  Kept(t)
<1> DEFINE Written(state) == /\ frame[t].sid \in SessionIds
                             /\ sessions' = [sessions EXCEPT ![frame[t].sid] = state]
           Moves(old, new) == \/ new \notin Needy \cup {"ROLLBACK_IN_PROGRESS"}
                              \/ old \in Needy /\ new \in Needy
                              \/ old = "ACTIVATED" /\ new = "ROLLBACK_IN_PROGRESS"
<1>0. CommitFrame /\ FilesKept
  BY DEF CommitVerified, CommitStaged, CommitSuccess, CommitStagedRollback,
         CommitRollback, CommitRollbackFailed, CommitRolledBack,
         CommitActivated, CommitActivationFailed, CommitFrame, FilesKept,
         history
<1>1. ASSUME NEW state,
             \/ UNCHANGED sessions \/ Written(state),
             \A old \in RecordedStates(pc[t]) : Moves(old, state)
      PROVE  NothingWithoutDir' /\ BackupIntact' /\ RollbackResumable'
  <2>1. ASSUME NEW s \in SessionIds, ~UNCHANGED sessions, s = frame[t].sid
        PROVE  Moves(sessions[s], sessions'[s])
    <3>1. sessions'[s] = state
      BY <1>1, <2>1 DEF TypeOK, DiskType
    <3>2. sessions[s] \in RecordedStates(pc[t])
      BY <2>1 DEF ReadsHold
    <3> QED BY <1>1, <3>1, <3>2
  <2>2. ASSUME NEW s \in SessionIds, s # frame[t].sid \/ UNCHANGED sessions
        PROVE  sessions'[s] = sessions[s]
    BY <1>1, <2>2 DEF TypeOK, DiskType
  <2> HIDE DEF Written
  <2> QED BY <1>0, <2>1, <2>2, RecordsMove
<1>2. CASE CommitVerified(t)
  <2>1. pc[t] = "commitVerified"
    BY <1>2 DEF CommitVerified, CommitReportsSuccess, Commits, CommitLost,
                CommitFails
  <2>2. NothingWithoutDir' /\ BackupIntact' /\ RollbackResumable'
    BY <1>0, <2>1 DEF BackupStands, FilesKept, NothingWithoutDir,
                      BackupIntact, RollbackResumable
  <2> QED BY <1>2, <2>2, FinishStands DEF CommitVerified, Kept
<1>3. CASE CommitStaged(t)
  <2>1. pc[t] = "commitStaged" /\ (UNCHANGED sessions \/ Written("STAGED"))
    BY <1>0, <1>3, CommitFacts DEF CommitStaged, States
  <2>2. NothingWithoutDir' /\ BackupIntact' /\ RollbackResumable'
    BY <1>1, <2>1 DEF RecordedStates, Needy
  <2> QED BY <1>3, <2>2, FinishStands DEF CommitStaged, Kept
<1>4. CASE CommitSuccess(t)
  <2>1. pc[t] = "commitSuccess" /\ (UNCHANGED sessions \/ Written("SUCCESS"))
    BY <1>0, <1>4, CommitFacts DEF CommitSuccess, States
  <2>2. NothingWithoutDir' /\ BackupIntact' /\ RollbackResumable'
    BY <1>1, <2>1 DEF RecordedStates, Needy
  <2> QED BY <1>4, <2>2, FinishStands DEF CommitSuccess, Kept
<1>5. CASE CommitStagedRollback(t)
  <2>1. /\ pc[t] = "commitStagedRollback"
        /\ UNCHANGED sessions \/ Written("ROLLED_BACK")
    BY <1>0, <1>5, CommitFacts DEF CommitStagedRollback, States
  <2>2. NothingWithoutDir' /\ BackupIntact' /\ RollbackResumable'
    BY <1>1, <2>1 DEF RecordedStates, Needy
  <2> QED BY <1>5, <2>2, ReturnStands DEF CommitStagedRollback, Kept
<1>6. CASE CommitRollback(t)
  <2>1. /\ pc[t] = "commitRollback"
        /\ UNCHANGED sessions \/ Written("ROLLBACK_IN_PROGRESS")
    BY <1>0, <1>6, CommitFacts DEF CommitRollback, States
  <2>2. NothingWithoutDir' /\ BackupIntact' /\ RollbackResumable'
    BY <1>1, <2>1 DEF RecordedStates, Needy
  <2>3. CASE pc'[t] = "restoreCheck" /\ UNCHANGED frame
    BY <2>1, <2>2, <2>3 DEF BackupStands, Kept
  <2> QED BY <1>6, <2>2, <2>3, ReturnStands, GotoFacts DEF CommitRollback, Kept
<1>7. CASE CommitRollbackFailed(t)
  <2>1. /\ pc[t] = "commitRollbackFailed"
        /\ UNCHANGED sessions \/ Written("ROLLBACK_FAILED")
    BY <1>0, <1>7, CommitFacts DEF CommitRollbackFailed, States
  <2>2. NothingWithoutDir' /\ BackupIntact' /\ RollbackResumable'
    BY <1>1, <2>1 DEF RecordedStates, Needy
  <2> QED BY <1>7, <2>2, ReturnStands DEF CommitRollbackFailed, Kept
<1>8. CASE CommitRolledBack(t)
  <2>1. /\ pc[t] = "commitRolledBack"
        /\ UNCHANGED sessions \/ Written("ROLLED_BACK")
    BY <1>0, <1>8, CommitFacts DEF CommitRolledBack, States
  <2>2. NothingWithoutDir' /\ BackupIntact' /\ RollbackResumable'
    BY <1>1, <2>1 DEF RecordedStates, Needy
  <2> QED BY <1>8, <2>2, ReturnStands DEF CommitRolledBack, Kept
<1>9. ASSUME CommitActivated(t) \/ CommitActivationFailed(t)
      PROVE  Kept(t)
  <2>1. \/ /\ pc[t] = "commitActivated"
           /\ UNCHANGED sessions \/ Written("ACTIVATED")
        \/ /\ pc[t] = "commitActivationFailed"
           /\ UNCHANGED sessions \/ Written("ACTIVATION_FAILED")
    BY <1>0, <1>9, CommitFacts DEF CommitActivated, CommitActivationFailed, States
  <2>2. NothingWithoutDir' /\ BackupIntact' /\ RollbackResumable'
    BY <1>1, <2>1 DEF RecordedStates, Needy
  <2>3. pc'[t] = "stageScan"
    BY <1>9, GotoFacts DEF CommitActivated, CommitActivationFailed,
                           NextStagedSession
  <2> QED BY <2>2, <2>3, ElsewhereStands DEF Kept, StandsLabels
<1> QED BY <1>2, <1>3, <1>4, <1>5, <1>6, <1>7, <1>8, <1>9

\* The deletion of records, in submitStagedSession and abortActiveSession.
LEMMA DeleteKept ==
  ASSUME TypeOK, NoTornFiles, NEW t \in Threads,
         NothingWithoutDir, BackupIntact, RollbackResumable,
         ClearSessions(t) \/ AbortDelete(t)
  PROVE  Kept(t)
<1>0. FilesKept
  BY DEF ClearSessions, AbortDelete, FilesKept, outside, history
<1>1. pc'[t] \in {"clear", "protect", "idle"}
  BY GotoFacts, LeaveFacts DEF ClearSessions, AbortDelete, Finish
<1>2. \A s \in SessionIds : sessions'[s] \in {sessions[s], "NONE"}
  BY DEF ClearSessions, AbortDelete, DeleteSession, NoTornFiles, TypeOK,
         DiskType
<1>3. NothingWithoutDir' /\ BackupIntact' /\ RollbackResumable'
  BY <1>0, <1>2, RecordsMove DEF Needy
<1> QED BY <1>1, <1>3, ElsewhereStands DEF Kept, StandsLabels

\* markStagedSessionSuccessful gives up the backup.
LEMMA AcceptKept ==
  ASSUME TypeOK, NEW t \in Threads, NothingWithoutDir, BackupStands(t),
         DeleteBackup(t, "successClean", "commitSuccess")
  PROVE  Kept(t)
<1>1. /\ pc[t] = "successClean" /\ UNCHANGED <<active, activeDir, accepted>>
      /\ backup' \subseteq backup
      /\ pc'[t] \in {"successClean", "commitSuccess", "idle"}
  BY GotoFacts, LeaveFacts DEF DeleteBackup, Finish, outside, history
<1> QED BY <1>1 DEF Kept, BackupStands, NothingWithoutDir, BackupIntact,
                    RollbackResumable

\* A rollback, or its resumption, begins with a session.
LEMMA RollbackStands ==
  ASSUME TypeOK, NEW t \in Threads, NEW s \in SessionIds, NEW c,
         RollbackSession(t, s, c) \/ ResumeRollback(t, s, c)
  PROVE  BackupStands(t)'
<1>1. /\ frame'[t].sid = s
      /\ pc'[t] \in {"commitStagedRollback", "commitRollback", "restoreCheck",
                     "commitRolledBack"}
  BY EnterFacts DEF RollbackSession, ResumeRollback
<1> QED BY <1>1 DEF BackupStands

\* The requests only set their thread to work.
LEMMA RequestKept ==
  ASSUME TypeOK, NEW t \in Threads, NothingWithoutDir, BackupIntact,
         RollbackResumable, Request(t)
  PROVE  Kept(t)
<1>1. ASSUME NEW s \in SessionIds, MarkStagedSessionSuccessful(t, s)
      PROVE  Kept(t)
  <2>1. accepted' /\ UNCHANGED disk /\ pc'[t] = "successClean"
    BY <1>1, EnterFacts DEF MarkStagedSessionSuccessful
  <2> QED BY <2>1 DEF Kept, NothingWithoutDir, BackupIntact,
                      RollbackResumable, BackupStands, disk
<1>2. ASSUME \A s \in SessionIds : ~MarkStagedSessionSuccessful(t, s)
      PROVE  FilesKept /\ UNCHANGED sessions
  BY <1>2 DEF Request, SubmitStagedSession, MarkStagedSessionReady,
              StagePackages, RollbackActiveSession, AbortActiveSession,
              ResumeRollbackIfNeeded, UnstagePackages, UpdatableCrashing,
              BootCompleted, FilesKept, disk, outside, history
<1>3. FilesKept /\ UNCHANGED sessions
        => NothingWithoutDir' /\ BackupIntact' /\ RollbackResumable'
  BY RecordsMove
<1>4. ASSUME NEW s \in SessionIds,
             \/ SubmitStagedSession(t, s) \/ MarkStagedSessionReady(t, s)
             \/ StagePackages(t, Staging[s])
      PROVE  BackupStands(t)'
  BY <1>4, GotoFacts, EnterFacts, ElsewhereStands
     DEF SubmitStagedSession, MarkStagedSessionReady, StagePackages, StandsLabels
<1>5. ASSUME \/ BootCompleted(t)
             \/ \E paths \in SUBSET active : UnstagePackages(t, paths)
      PROVE  BackupStands(t)'
  BY <1>5, GotoFacts, ElsewhereStands DEF BootCompleted, UnstagePackages,
                                          StandsLabels
<1>6. ASSUME RollbackActiveSession(t) \/ ResumeRollbackIfNeeded(t)
      PROVE  BackupStands(t)'
  BY <1>6, RollbackStands DEF RollbackActiveSession, ResumeRollbackIfNeeded
<1>7. ASSUME AbortActiveSession(t)
      PROVE  BackupStands(t)'
  <2>1. PICK s \in SessionIds : \/ Enter(t, "abortDelete", s, "service")
                                \/ RollbackSession(t, s, "service")
    BY <1>7 DEF AbortActiveSession
  <2> QED BY <2>1, EnterFacts, RollbackStands, ElsewhereStands DEF StandsLabels
<1>8. ASSUME UpdatableCrashing(t)
      PROVE  BackupStands(t)'
  <2>1. \/ \E s \in SessionIds : RollbackSession(t, s, "watch")
        \/ pc[t] = "idle" /\ UNCHANGED pc
    BY <1>8 DEF UpdatableCrashing
  <2> QED BY <2>1, RollbackStands, ElsewhereStands DEF StandsLabels
<1> QED BY <1>1, <1>2, <1>3, <1>4, <1>5, <1>6, <1>7, <1>8 DEF Request, Kept

\* onStart, outside stagePackages and DoRollback.
LEMMA BootKept ==
  ASSUME TypeOK, NEW t \in Threads, NothingWithoutDir, BackupIntact,
         RollbackResumable,
         \/ OnStart(t) \/ RollbackStagedSessionIfAny(t) \/ CollectApexKeys(t)
         \/ ScanStagedSession(t) \/ BootResumeRollback(t) \/ ScanData(t)
         \/ ActivateData(t) \/ ScanBuiltin(t) \/ ActivateBuiltin(t)
  PROVE  Kept(t)
<1>1. FilesKept /\ UNCHANGED sessions
  BY DEF OnStart, RollbackStagedSessionIfAny, CollectApexKeys,
         ScanStagedSession, BootResumeRollback, ScanData, ActivateData,
         ScanBuiltin, ActivateBuiltin,
         FilesKept, disk, outside, history
<1>2. NothingWithoutDir' /\ BackupIntact' /\ RollbackResumable'
  BY <1>1, RecordsMove
<1>3. CASE OnStart(t) \/ CollectApexKeys(t) \/ ScanStagedSession(t)
           \/ ScanBuiltin(t) \/ ActivateBuiltin(t)
  <2>1. pc'[t] \in {"voldRollback", "collectKeys", "stageScan", "idle",
                    "stageVerify", "commitActivationFailed", "resume",
                    "activateBuiltin"}
    BY <1>3, GotoFacts, LeaveFacts
       DEF OnStart, CollectApexKeys, ScanStagedSession, ScanBuiltin,
           ActivateBuiltin, ActivateOne, Finish
  <2> QED BY <1>2, <2>1, ElsewhereStands DEF Kept, StandsLabels
<1>4. CASE RollbackStagedSessionIfAny(t) \/ BootResumeRollback(t)
  <2>1. \/ pc'[t] \in {"commitStagedRollback", "collectKeys", "scanData"}
        \/ \E s \in SessionIds : ResumeRollback(t, s, "bootResume")
    BY <1>4, GotoFacts, EnterFacts
       DEF RollbackStagedSessionIfAny, BootResumeRollback
  <2> QED BY <1>2, <2>1, RollbackStands, ElsewhereStands DEF Kept, StandsLabels
<1>5. CASE ScanData(t) \/ ActivateData(t)
  <2>1. \/ pc'[t] \in {"activateData", "scanBuiltin"}
        \/ \E s \in SessionIds : RollbackSession(t, s, "bootActivate")
    BY <1>5, GotoFacts, LeaveFacts
       DEF ScanData, ActivateData, ActivateOne, ActivationFailed
  <2> QED BY <1>2, <2>1, RollbackStands, ElsewhereStands DEF Kept, StandsLabels
<1> QED BY <1>3, <1>4, <1>5

\* Crashes and reboots keep the files, since no checkpoint is in force.
LEMMA EnvironmentKept ==
  ASSUME TypeOK, NoCheckpoints, NothingWithoutDir, BackupIntact,
         RollbackResumable,
         VoldCommitChanges \/ ProcessDies \/ RebootDevice
  PROVE  \A t \in Threads : Kept(t)
<1>1. ~VoldCommitChanges
  BY DEF VoldCommitChanges, NoCheckpoints
<1>2. FilesKept /\ UNCHANGED sessions
  BY <1>1 DEF ProcessDies, RebootDevice, StartProcess, NoCheckpoints,
              FilesKept, disk, history
<1>3. NothingWithoutDir' /\ BackupIntact' /\ RollbackResumable'
  BY <1>2, RecordsMove
<1>4. ASSUME NEW t \in Threads PROVE BackupStands(t)'
  <2>1. pc'[t] \in {"onStart", "idle"}
    BY <1>1 DEF ProcessDies, RebootDevice, StartProcess
  <2> QED BY <2>1, ElsewhereStands DEF StandsLabels
<1> QED BY <1>3, <1>4 DEF Kept

LEMMA BackupStep ==
  ASSUME WithoutCheckpoints, TypeOK, SessionInv, AtMostOneActiveSession,
         BackupInv, [Next]_vars
  PROVE  BackupInv'
<1>0. /\ Sequential /\ NoCheckpoints /\ NoCheckpoints' /\ TypeOK'
      /\ NothingWithoutDir /\ BackupIntact /\ RollbackResumable /\ NoTornFiles
  BY NoCheckpointsStep, NextType DEF WithoutCheckpoints, BackupInv, SessionInv
<1>1. CASE UNCHANGED vars
  <2>1. UNCHANGED <<disk, pc, frame, history>>
    BY <1>1 DEF vars
  <2>2. FilesKept /\ UNCHANGED <<sessions, pc, frame>>
    BY <2>1 DEF FilesKept, disk, history
  <2>3. \A t \in Threads : BackupStands(t)'
    BY <2>2 DEF BackupInv, BackupStands, FilesKept
  <2> QED BY <1>0, <2>2, <2>3, RecordsMove DEF BackupInv
<1>2. ASSUME NEW t \in Threads, Request(t) \/ Step(t)
      PROVE  Kept(t)
  <2>1. ReadsHold(t) /\ BackupStands(t)
    BY DEF SessionInv, BackupInv
  <2>2. CASE Request(t)
    BY <1>0, <2>2, RequestKept
  <2>3. CASE Step(t)
    <3>1. ~OpenStateFile(t)
      BY <1>0 DEF OpenStateFile, Sequential
    <3>2. CASE ClearSessions(t) \/ AbortDelete(t)
      BY <1>0, <3>2, DeleteKept
    <3>3. CASE DeleteBackup(t, "successClean", "commitSuccess")
      BY <1>0, <2>1, <3>3, AcceptKept
    <3>4. CASE \/ ProtectActivePackages(t) \/ BackupActivePackages(t)
               \/ DeleteBackup(t, "backupClean", "backupLink")
               \/ LinkBackup(t) \/ UndoBackup(t) \/ VerifySession(t)
      BY <1>0, <2>1, <3>4, SubmitKept
    <3>5. CASE \/ RestoreCheck(t) \/ RestoreDelete(t) \/ RestoreRename(t)
               \/ RestoreChmod(t)
      BY <1>0, <2>1, <3>5, RestoreKept
    <3>6. CASE \/ StageVerify(t) \/ StageLink(t) \/ StageUndo(t)
               \/ StageRemove(t) \/ Unstage(t) \/ UnmountDanglingMounts(t)
      BY <1>0, <2>1, <3>6, StageKept
    <3>7. CASE \/ OnStart(t) \/ RollbackStagedSessionIfAny(t)
               \/ CollectApexKeys(t) \/ ScanStagedSession(t)
               \/ BootResumeRollback(t) \/ ScanData(t)
               \/ ActivateData(t) \/ ScanBuiltin(t) \/ ActivateBuiltin(t)
      BY <1>0, <3>7, BootKept
    <3>8. CASE \/ CommitVerified(t) \/ CommitStaged(t) \/ CommitSuccess(t)
               \/ CommitStagedRollback(t) \/ CommitRollback(t)
               \/ CommitRollbackFailed(t) \/ CommitRolledBack(t)
               \/ CommitActivated(t) \/ CommitActivationFailed(t)
      BY <1>0, <2>1, <3>8, CommitKept
    <3> QED BY <2>3, <3>1, <3>2, <3>3, <3>4, <3>5, <3>6, <3>7, <3>8 DEF Step
  <2> QED BY <1>2, <2>2, <2>3
<1>3. ASSUME NEW t \in Threads, Request(t) \/ Step(t)
      PROVE  BackupInv'
  <2>1. \A u \in Threads : u = t
    BY <1>0, OneThread
  <2> QED BY <1>0, <1>2, <1>3, <2>1 DEF Kept, BackupInv
<1>4. CASE VoldCommitChanges \/ ProcessDies \/ RebootDevice
  BY <1>0, <1>4, EnvironmentKept, ThreadsAssumption DEF Kept, BackupInv
<1> QED BY <1>1, <1>3, <1>4 DEF Next, RestartProcess, AbortProcess

LEMMA InitBackup == Init => BackupInv
<1> SUFFICES ASSUME Init PROVE BackupInv
  OBVIOUS
<1>1. NoCheckpoints /\ NothingWithoutDir /\ BackupIntact /\ RollbackResumable
  BY DEF Init, NoCheckpoints, NothingWithoutDir, BackupIntact, RollbackResumable
<1>2. ASSUME NEW t \in Threads PROVE BackupStands(t)
  BY DEF Init, BackupStands
<1> QED BY <1>1, <1>2 DEF BackupInv

-----------------------------------------------------------------------------
\* Without checkpoints, what a submission or a rollback relies on stays true.
THEOREM BackupInvariant ==
  ASSUME WithoutCheckpoints
  PROVE  Spec => []BackupInv
<1>0. Sequential
  BY DEF WithoutCheckpoints
<1>1. TypeOK /\ SessionInv /\ AtMostOneActiveSession /\ BackupInv /\ [Next]_vars
        => BackupInv'
  BY BackupStep
<1> QED BY <1>0, <1>1, InitBackup, TypeCorrect, SessionInvariant,
           OneActiveSession, PTL DEF Spec

\* From its submission until it is accepted, the backup of a session is
\* complete, whatever crashes and failing calls come in between.
THEOREM BackupIsIntact ==
  ASSUME WithoutCheckpoints
  PROVE  Spec => []BackupIntact
<1>1. BackupInv => BackupIntact
  BY DEF BackupInv
<1> QED BY <1>1, BackupInvariant, PTL

\* A rollback that was interrupted can be resumed.
THEOREM RollbackIsResumable ==
  ASSUME WithoutCheckpoints
  PROVE  Spec => []RollbackResumable
<1>1. BackupInv => RollbackResumable
  BY DEF BackupInv
<1> QED BY <1>1, BackupInvariant, PTL

\* The step of DoRollback that uses up the backup gives back exactly what was
\* active before the session.
THEOREM RollbackRestoresActive ==
  ASSUME WithoutCheckpoints
  PROVE  Spec => RollbackRestores
<1>0. Sequential
  BY DEF WithoutCheckpoints
<1> DEFINE Restores == backupDir /\ ~backupDir' /\ protection = "backup" /\ ~accepted
                         => active' = before
<1>1. TypeOK /\ SessionInv /\ BackupInv /\ [Next]_vars => [Restores]_vars
  <2> SUFFICES ASSUME TypeOK, SessionInv, BackupInv, [Next]_vars,
                      backupDir, ~backupDir', ~accepted
               PROVE  active' = before
    OBVIOUS
  <2>1. \E t \in Threads : RestoreRename(t)
    <3>1. ASSUME NEW t \in Threads, Request(t) PROVE UNCHANGED backupDir
      BY <3>1 DEF Request, SubmitStagedSession, MarkStagedSessionReady,
                  MarkStagedSessionSuccessful, StagePackages,
                  RollbackActiveSession, AbortActiveSession,
                  ResumeRollbackIfNeeded, UnstagePackages, UpdatableCrashing,
                  BootCompleted, disk
    <3>2. ASSUME NEW t \in Threads, Step(t), ~RestoreRename(t)
          PROVE  backupDir'
      <4>1. CASE \/ OpenStateFile(t) \/ ClearSessions(t)
                 \/ ProtectActivePackages(t) \/ BackupActivePackages(t)
                 \/ DeleteBackup(t, "backupClean", "backupLink")
                 \/ LinkBackup(t) \/ UndoBackup(t) \/ VerifySession(t)
                 \/ DeleteBackup(t, "successClean", "commitSuccess")
                 \/ AbortDelete(t)
        BY <4>1 DEF OpenStateFile, ClearSessions, ProtectActivePackages,
                    BackupActivePackages, DeleteBackup, LinkBackup, UndoBackup,
                    VerifySession, AbortDelete, disk
      <4>2. CASE \/ RestoreCheck(t) \/ RestoreDelete(t) \/ RestoreChmod(t)
                 \/ StageVerify(t) \/ StageLink(t) \/ StageUndo(t)
                 \/ StageRemove(t) \/ Unstage(t)
        BY <4>2 DEF RestoreCheck, RestoreDelete, RestoreChmod, StageVerify,
                    StageLink, StageUndo, StageRemove, Unstage, disk
      <4>3. CASE \/ OnStart(t) \/ RollbackStagedSessionIfAny(t)
                 \/ CollectApexKeys(t) \/ ScanStagedSession(t)
                 \/ BootResumeRollback(t) \/ ScanData(t)
                 \/ ActivateData(t) \/ ScanBuiltin(t)
                 \/ ActivateBuiltin(t) \/ UnmountDanglingMounts(t)
        BY <4>3 DEF OnStart, RollbackStagedSessionIfAny, CollectApexKeys,
                    ScanStagedSession, BootResumeRollback, ScanData,
                    ActivateData, ScanBuiltin, ActivateBuiltin,
                    UnmountDanglingMounts, disk
      <4>4. CASE \/ CommitVerified(t) \/ CommitStaged(t) \/ CommitSuccess(t)
                 \/ CommitStagedRollback(t) \/ CommitRollback(t)
                 \/ CommitRollbackFailed(t) \/ CommitRolledBack(t)
                 \/ CommitActivated(t) \/ CommitActivationFailed(t)
        BY <4>4 DEF CommitVerified, CommitStaged, CommitSuccess,
                    CommitStagedRollback, CommitRollback, CommitRollbackFailed,
                    CommitRolledBack, CommitActivated, CommitActivationFailed,
                    CommitFrame
      <4> QED BY <3>2, <4>1, <4>2, <4>3, <4>4 DEF Step
    <3>3. CASE VoldCommitChanges \/ ProcessDies \/ RebootDevice
      BY <3>3 DEF VoldCommitChanges, ProcessDies, RebootDevice,
                  BackupInv, NoCheckpoints, disk
    <3> QED BY <3>1, <3>2, <3>3 DEF Next, RestartProcess, AbortProcess, vars, disk
  <2>2. PICK t \in Threads : RestoreRename(t)
    BY <2>1
  <2>3. frame[t].sid \in SessionIds /\ protection = "backup"
    BY <2>2 DEF RestoreRename, BackupInv, BackupStands, NoCheckpoints
  <2>4. sessions[frame[t].sid] = "ROLLBACK_IN_PROGRESS"
    BY <2>2, <2>3 DEF RestoreRename, SessionInv, ReadsHold, RecordedStates
  <2>5. backup = before
    BY <2>3, <2>4 DEF BackupInv, RollbackResumable
  <2> QED BY <2>2, <2>5 DEF RestoreRename
<1> QED BY <1>0, <1>1, TypeCorrect, SessionInvariant, BackupInvariant, PTL
        DEF Spec, RollbackRestores


-----------------------------------------------------------------------------
(* A rollback that has deleted files is not forgotten.                     *)

\* DoRollback and what precedes its resumption meet no failing call.  Where an
\* unlink or a rename fails, the code records ROLLBACK_FAILED and gives up;
\* where the keys cannot be collected, onStart ends before it resumes.
RestoreCallsWork == Faults \cap {"dir", "unlink", "rename", "keys"} = {}

RestoringLabels == {"onStart", "collectKeys", "stageScan", "resume",
                    "restoreCheck", "restoreDelete", "restoreRename"}

\* No files are missing, and none are about to be deleted.
LEMMA NothingMissing ==
  ASSUME Sequential, NEW t \in Threads, ~restoring',
         pc'[t] \notin {"restoreDelete", "restoreRename"}
  PROVE  RestoreInv'
<1>1. \A u \in Threads : u = t
  BY OneThread
<1> QED BY <1>1 DEF RestoreInv

\* A step that only moves on to another of the labels.
LEMMA StillMissing ==
  ASSUME Sequential, RestoreInv, NEW t \in Threads,
         UNCHANGED <<disk, restoring>>,
         restoring => pc'[t] \in RestoringLabels,
         pc'[t] \notin {"restoreDelete", "restoreRename"}
  PROVE  RestoreInv'
<1>1. \A u \in Threads : u = t
  BY OneThread
<1> QED BY <1>1 DEF RestoreInv, RestoringLabels, disk

\* The session of the missing files is the one that GetActiveSession finds.
LEMMA MissingIsActive ==
  ASSUME TypeOK, AtMostOneActiveSession, NEW s \in SessionIds,
         sessions[s] = "ROLLBACK_IN_PROGRESS"
  PROVE  /\ IsActiveSession(sessions, s)
         /\ \A u \in SessionIds : sessions[u] # "STAGED"
<1>1. s \in Unfinalized(sessions)
  BY DEF Unfinalized, GetSessions, IsFinalized
<1>2. ASSUME NEW u \in SessionIds, sessions[u] = "STAGED" PROVE FALSE
  <2>1. u \in Unfinalized(sessions)
    BY <1>2 DEF Unfinalized, GetSessions, IsFinalized
  <2> QED BY <1>1, <1>2, <2>1 DEF AtMostOneActiveSession
<1> QED BY <1>1, <1>2 DEF AtMostOneActiveSession, IsActiveSession

\* DoRollback.
LEMMA RestoreMissing ==
  ASSUME Sequential, RestoreCallsWork, TypeOK, RestoreInv,
         NEW t \in Threads, ReadsHold(t), BackupStands(t),
         RestoreCheck(t) \/ RestoreDelete(t) \/ RestoreRename(t)
  PROVE  RestoreInv'
<1>0. \A u \in Threads : u = t
  BY OneThread
<1>1. CASE RestoreCheck(t)
  <2>1. pc'[t] = IF backupDir /\ activeDir THEN "restoreDelete"
                                           ELSE "commitRollbackFailed"
    BY <1>1, GotoFacts DEF RestoreCheck, RestoreCallsWork, Fault
  <2>2. UNCHANGED <<disk, restoring>>
    BY <1>1 DEF RestoreCheck, outside, history
  <2> QED BY <1>0, <2>1, <2>2 DEF RestoreInv, disk
<1>2. CASE RestoreDelete(t)
  <2>1. /\ pc[t] = "restoreDelete" /\ activeDir /\ backupDir
        /\ UNCHANGED <<sessions, activeDir, backupDir>>
    BY <1>2 DEF RestoreDelete, RestoreInv, BackupStands
  <2>2. sessions[frame[t].sid] = "ROLLBACK_IN_PROGRESS" /\ frame[t].sid \in SessionIds
    BY <2>1 DEF BackupStands, ReadsHold, RecordedStates
  <2>3. \/ pc'[t] = "restoreDelete"
        \/ pc'[t] = "restoreRename" /\ active' = {}
    BY <1>2, GotoFacts DEF RestoreDelete, RestoreCallsWork, Fault
  <2> QED BY <1>0, <2>1, <2>2, <2>3 DEF RestoreInv
<1>3. CASE RestoreRename(t)
  <2>1. backupDir /\ active = {}
    BY <1>3 DEF RestoreRename, RestoreInv
  <2>2. ~restoring' /\ pc'[t] = "restoreChmod"
    BY <1>3, <2>1, GotoFacts DEF RestoreRename, RestoreCallsWork, Fault
  <2> QED BY <2>2, NothingMissing
<1> QED BY <1>1, <1>2, <1>3

\* onStart, up to where it resumes the rollback.
LEMMA ResumeMissing ==
  ASSUME WithoutCheckpoints, NoCheckpoints, NoCheckpoints', RestoreCallsWork,
         TypeOK, AtMostOneActiveSession, RestoreInv,
         NEW t \in Threads, ReadsHold(t),
         \/ OnStart(t) \/ CollectApexKeys(t) \/ ScanStagedSession(t)
         \/ BootResumeRollback(t)
  PROVE  RestoreInv'
<1>0. UNCHANGED <<disk, restoring>> /\ Sequential
  BY DEF OnStart, CollectApexKeys, ScanStagedSession, BootResumeRollback,
         outside, history, WithoutCheckpoints
<1>1. restoring => \E s \in SessionIds :
                     /\ IsActiveSession(sessions, s)
                     /\ sessions[s] = "ROLLBACK_IN_PROGRESS"
  BY MissingIsActive DEF RestoreInv
<1>2. restoring => \A s \in SessionIds : sessions[s] # "STAGED"
  BY MissingIsActive DEF RestoreInv
<1>3. CASE OnStart(t)
  <2>1. pc'[t] = "collectKeys"
    BY <1>3, GotoFacts DEF OnStart, NoCheckpoints
  <2> QED BY <1>0, <2>1, StillMissing DEF RestoringLabels
<1>4. CASE CollectApexKeys(t)
  <2>1. pc'[t] = "stageScan"
    BY <1>4, GotoFacts DEF CollectApexKeys, RestoreCallsWork, Fault
  <2> QED BY <1>0, <2>1, StillMissing DEF RestoringLabels
<1>5. CASE ScanStagedSession(t)
  <2>1. \A s \in frame[t].listed : s \in SessionIds /\ sessions[s] = "STAGED"
    BY <1>5 DEF ScanStagedSession, ReadsHold, ScanLabels, TypeOK, ThreadsType,
                Frames
  <2>2. restoring => pc'[t] = "resume"
    BY <1>2, <1>5, <2>1, LeaveFacts DEF ScanStagedSession
  <2>3. pc'[t] \in {"stageVerify", "commitActivationFailed", "resume"}
    BY <1>5, GotoFacts, LeaveFacts DEF ScanStagedSession
  <2> QED BY <1>0, <2>2, <2>3, StillMissing DEF RestoringLabels
<1>6. CASE BootResumeRollback(t)
  <2>1. restoring => ActiveSessionIs("ROLLBACK_IN_PROGRESS")
    BY <1>1 DEF ActiveSessionIs
  <2>2. pc'[t] \in {"restoreCheck", "commitRolledBack", "scanData"}
    BY <1>6, GotoFacts, EnterFacts DEF BootResumeRollback, ResumeRollback
  <2>3. restoring => \E s \in SessionIds : ResumeRollback(t, s, "bootResume")
    BY <1>6, <2>1 DEF BootResumeRollback, WithoutCheckpoints, Sequential,
                      RestoreCallsWork, Fault
  <2>4. restoring => pc'[t] = "restoreCheck"
    BY <2>3, EnterFacts DEF ResumeRollback, RestoreInv, NoCheckpoints
  <2> QED BY <1>0, <2>2, <2>4, StillMissing DEF RestoringLabels
<1> QED BY <1>3, <1>4, <1>5, <1>6

\* Nothing else runs while files are missing.
LEMMA NeverMissing ==
  ASSUME Sequential, TypeOK, RestoreInv, NEW t \in Threads,
         pc[t] \notin RestoringLabels, UNCHANGED restoring,
         pc'[t] \notin {"restoreDelete", "restoreRename"}
  PROVE  RestoreInv'
<1>1. ~restoring
  BY DEF RestoreInv, RestoringLabels
<1> QED BY <1>1, NothingMissing

LEMMA RequestMissing ==
  ASSUME Sequential, TypeOK, RestoreInv, NEW t \in Threads, Request(t)
  PROVE  RestoreInv'
<1>1. pc[t] = "idle" /\ UNCHANGED restoring
  BY DEF Request, SubmitStagedSession, MarkStagedSessionReady,
         MarkStagedSessionSuccessful, StagePackages, RollbackActiveSession,
         AbortActiveSession, ResumeRollbackIfNeeded, UnstagePackages,
         UpdatableCrashing, BootCompleted, Serving, outside, history
<1>2. ASSUME NEW s \in SessionIds, NEW c,
             RollbackSession(t, s, c) \/ ResumeRollback(t, s, c)
      PROVE  pc'[t] \notin {"restoreDelete", "restoreRename"}
  BY <1>2, EnterFacts DEF RollbackSession, ResumeRollback
<1>3. CASE \/ RollbackActiveSession(t) \/ ResumeRollbackIfNeeded(t)
           \/ AbortActiveSession(t) \/ UpdatableCrashing(t)
  <2>1. \/ \E s \in SessionIds : \/ RollbackSession(t, s, "service")
                                 \/ RollbackSession(t, s, "watch")
                                 \/ ResumeRollback(t, s, "service")
                                 \/ Enter(t, "abortDelete", s, "service")
        \/ UNCHANGED pc
    BY <1>3 DEF RollbackActiveSession, ResumeRollbackIfNeeded,
                AbortActiveSession, UpdatableCrashing
  <2>2. pc'[t] \notin {"restoreDelete", "restoreRename"}
    BY <1>1, <1>2, <2>1, EnterFacts
  <2> QED BY <1>1, <2>2, NeverMissing DEF RestoringLabels
<1>4. CASE \/ BootCompleted(t)
           \/ \E paths \in SUBSET active : UnstagePackages(t, paths)
           \/ \E s \in SessionIds : \/ SubmitStagedSession(t, s)
                                    \/ MarkStagedSessionReady(t, s)
                                    \/ MarkStagedSessionSuccessful(t, s)
                                    \/ StagePackages(t, Staging[s])
  <2>1. pc'[t] \in {"dangling", "unstage", "clear", "commitStaged",
                    "successClean", "stageVerify"}
    BY <1>4, GotoFacts, EnterFacts
       DEF BootCompleted, UnstagePackages, SubmitStagedSession,
           MarkStagedSessionReady, MarkStagedSessionSuccessful, StagePackages
  <2> QED BY <1>1, <2>1, NeverMissing DEF RestoringLabels
<1> QED BY <1>3, <1>4 DEF Request

LEMMA OtherMissing ==
  ASSUME Sequential, TypeOK, RestoreInv, NEW t \in Threads, Step(t),
         ~RestoreCheck(t), ~RestoreDelete(t), ~RestoreRename(t), ~OnStart(t),
         ~CollectApexKeys(t), ~ScanStagedSession(t), ~BootResumeRollback(t)
  PROVE  RestoreInv'
<1> DEFINE Away == /\ pc[t] \notin RestoringLabels /\ UNCHANGED restoring
                   /\ pc'[t] \notin {"restoreDelete", "restoreRename"}
<1> SUFFICES Away
  BY NeverMissing
<1>1. CASE \/ ClearSessions(t)
           \/ ProtectActivePackages(t) \/ BackupActivePackages(t)
           \/ DeleteBackup(t, "backupClean", "backupLink")
           \/ LinkBackup(t) \/ UndoBackup(t) \/ VerifySession(t)
           \/ DeleteBackup(t, "successClean", "commitSuccess")
           \/ AbortDelete(t) \/ RestoreChmod(t)
  <2>1. /\ UNCHANGED restoring
        /\ pc[t] \in {"clear", "protect", "backup", "backupClean", "backupLink",
                     "backupUndo", "verify", "successClean", "abortDelete",
                     "restoreChmod"}
    BY <1>1 DEF ClearSessions, ProtectActivePackages, BackupActivePackages,
                DeleteBackup, LinkBackup, UndoBackup, VerifySession,
                AbortDelete, RestoreChmod, outside, history
  <2>2. pc'[t] = pc[t] \/ Finish(t) \/ pc'[t] \in {"protect", "backup", "verify",
          "backupClean", "backupLink", "backupUndo", "commitVerified",
          "commitSuccess", "commitRolledBack", "commitRollbackFailed"}
    BY <1>1, GotoFacts
       DEF ClearSessions, ProtectActivePackages, BackupActivePackages,
           DeleteBackup, LinkBackup, UndoBackup, VerifySession, AbortDelete,
           RestoreChmod
  <2> QED BY <2>1, <2>2, LeaveFacts DEF Finish, RestoringLabels
<1>2. CASE \/ StageVerify(t) \/ StageLink(t) \/ StageUndo(t) \/ StageRemove(t)
           \/ Unstage(t) \/ UnmountDanglingMounts(t)
  <2>1. /\ UNCHANGED restoring
        /\ pc[t] \in {"stageVerify", "stageLink", "stageUndo", "stageRemove",
                     "unstage", "dangling"}
    BY <1>2 DEF StageVerify, StageLink, StageUndo, StageRemove, Unstage,
                UnmountDanglingMounts, outside, history
  <2>2. pc'[t] = pc[t] \/ Finish(t) \/ pc'[t] \in {"stageLink", "stageUndo",
          "stageRemove", "commitActivated", "commitActivationFailed"}
    BY <1>2, GotoFacts
       DEF StageVerify, StageLink, StageUndo, StageRemove, Unstage,
           UnmountDanglingMounts, StageSucceeds, StageFails
  <2> QED BY <2>1, <2>2, LeaveFacts DEF Finish, RestoringLabels
<1>3. CASE \/ CommitVerified(t) \/ CommitStaged(t) \/ CommitSuccess(t)
           \/ CommitActivated(t) \/ CommitActivationFailed(t)
  BY <1>3, GotoFacts, LeaveFacts
     DEF CommitVerified, CommitStaged, CommitSuccess, CommitActivated,
         CommitActivationFailed, CommitReportsSuccess, Commits, CommitLost,
         CommitFails, CommitFrame, NextStagedSession, Finish, RestoringLabels,
         history
<1>4. CASE \/ CommitStagedRollback(t) \/ CommitRollback(t)
           \/ CommitRollbackFailed(t) \/ CommitRolledBack(t)
  <2>1. Return(t, TRUE) \/ Return(t, FALSE)
          => pc'[t] \notin {"restoreDelete", "restoreRename"}
    BY LeaveFacts DEF Return, ReturnLabel
  <2> QED BY <1>4, <2>1, GotoFacts
          DEF CommitStagedRollback, CommitRollback, CommitRollbackFailed,
              CommitRolledBack, CommitReportsSuccess, Commits, CommitLost,
              CommitFails, CommitFrame, RestoringLabels, history
<1>5. CASE ScanData(t) \/ ActivateData(t) \/ RollbackStagedSessionIfAny(t)
  <2>1. ActivationFailed(t) => pc'[t] \notin {"restoreDelete", "restoreRename"}
    BY LeaveFacts, EnterFacts DEF ActivationFailed, RollbackSession
  <2>2. pc[t] \in {"scanData", "activateData", "voldRollback"} /\ UNCHANGED restoring
    BY <1>5 DEF ScanData, ActivateData, RollbackStagedSessionIfAny, outside,
                history
  <2> QED BY <1>5, <2>1, <2>2, GotoFacts, LeaveFacts, EnterFacts
          DEF ScanData, ActivateData, RollbackStagedSessionIfAny, ActivateOne,
              RestoringLabels
<1>6. CASE ScanBuiltin(t) \/ ActivateBuiltin(t)
  BY <1>6, GotoFacts, LeaveFacts
     DEF ScanBuiltin, ActivateBuiltin, ActivateOne, Finish, RestoringLabels,
         outside, history
<1>7. ~OpenStateFile(t)
  BY DEF OpenStateFile, Sequential
<1> QED BY <1>1, <1>2, <1>3, <1>4, <1>5, <1>6, <1>7 DEF Step

LEMMA RestoreInvStep ==
  ASSUME WithoutCheckpoints, RestoreCallsWork, TypeOK, SessionInv,
         AtMostOneActiveSession, BackupInv, RestoreInv, [Next]_vars
  PROVE  RestoreInv'
<1>0. Sequential /\ NoCheckpoints /\ NoCheckpoints'
  BY NoCheckpointsStep DEF WithoutCheckpoints, BackupInv
<1>1. CASE UNCHANGED vars
  BY <1>1 DEF vars, disk, history, RestoreInv
<1>2. ASSUME NEW t \in Threads, Request(t) \/ Step(t)
      PROVE  RestoreInv'
  <2>1. ReadsHold(t) /\ BackupStands(t)
    BY DEF SessionInv, BackupInv
  <2> QED BY <1>0, <1>2, <2>1, RequestMissing, RestoreMissing, ResumeMissing,
             OtherMissing
<1>3. CASE VoldCommitChanges
  BY <1>0, <1>3 DEF VoldCommitChanges, NoCheckpoints
<1>4. CASE ProcessDies \/ RebootDevice
  <2>1. UNCHANGED <<disk, restoring>>
    BY <1>0, <1>4 DEF ProcessDies, RebootDevice, StartProcess, NoCheckpoints,
                      history
  <2>2. pc'[Main] = "onStart"
    BY <1>4, ThreadsAssumption DEF ProcessDies, RebootDevice, StartProcess
  <2> QED BY <1>0, <2>1, <2>2, StillMissing, ThreadsAssumption
          DEF RestoringLabels
<1> QED BY <1>1, <1>2, <1>3, <1>4 DEF Next, RestartProcess, AbortProcess

\* Packages that DoRollback has deleted are not forgotten: across crashes,
\* until the backup has taken their place, GetActiveSession finds the session
\* whose rollback is to be resumed.
THEOREM HalfRestoredIsOnRecord ==
  ASSUME WithoutCheckpoints, RestoreCallsWork
  PROVE  Spec => []HalfRestoredIsRecorded
<1>0. Sequential
  BY DEF WithoutCheckpoints
<1>1. Init => RestoreInv
  BY DEF Init, RestoreInv
<1>2. TypeOK /\ SessionInv /\ AtMostOneActiveSession /\ BackupInv /\ RestoreInv
        /\ [Next]_vars => RestoreInv'
  BY RestoreInvStep
<1>3. TypeOK /\ AtMostOneActiveSession /\ RestoreInv => HalfRestoredIsRecorded
  BY MissingIsActive DEF RestoreInv, HalfRestoredIsRecorded, ActiveSessionIs
<1> QED BY <1>0, <1>1, <1>2, <1>3, TypeCorrect, SessionInvariant,
           OneActiveSession, BackupInvariant, PTL DEF Spec

-----------------------------------------------------------------------------
(* A rollback by vold is not undone by onStart.                            *)

\* vold answers, and the state files can be written.
VoldAnswers == ~Fault("vold") /\ ~Fault("commit")

VoldLabels == {"commitRollback", "restoreCheck", "restoreDelete",
               "restoreRename", "restoreChmod", "commitRolledBack",
               "commitRollbackFailed"}

LEMMA ElsewhereVold ==
  ASSUME NEW t \in Threads,
         pc'[t] \notin VoldLabels \cup {"commitStagedRollback", "collectKeys"}
                         \cup ScanLabels
  PROVE  VoldStands(t)'
BY DEF VoldStands, VoldLabels, MayActivate, ScanLabels

\* An assignment to other fields of its frame keeps the caller of a thread.
LEMMA CallerKept ==
  ASSUME TypeOK, NEW t \in Threads, NEW x, NEW y,
         \/ UNCHANGED frame
         \/ frame' = [frame EXCEPT ![t].todo = x]
         \/ frame' = [frame EXCEPT ![t].staged = x]
         \/ frame' = [frame EXCEPT ![t].todo = x, ![t].base = y]
         \/ frame' = [frame EXCEPT ![t].todo = x, ![t].staged = y]
  PROVE  frame'[t].caller = frame[t].caller /\ frame'[t].sid = frame[t].sid
BY DEF TypeOK, ThreadsType, Frames

\* The steps of stagePackages keep the caller and end where it says.
LEMMA StageCaller ==
  ASSUME TypeOK, NEW t \in Threads,
         StageVerify(t) \/ StageLink(t) \/ StageUndo(t) \/ StageRemove(t)
  PROVE  /\ pc[t] \in {"stageVerify", "stageLink", "stageUndo", "stageRemove"}
         /\ \/ Finish(t)
            \/ /\ frame'[t].caller = frame[t].caller
               /\ frame'[t].sid = frame[t].sid
               /\ \/ pc'[t] \in {"stageLink", "stageUndo", "stageRemove"}
                  \/ /\ frame[t].caller = "bootStage"
                     /\ pc'[t] \in {"commitActivated", "commitActivationFailed"}
<1> DEFINE Same == /\ frame'[t].caller = frame[t].caller
                   /\ frame'[t].sid = frame[t].sid
<1>0. UNCHANGED frame => Same
  OBVIOUS
<1>1. ASSUME NEW x, frame' = [frame EXCEPT ![t].todo = x] PROVE Same
  BY <1>1, CallerKept
<1>2. ASSUME NEW x, frame' = [frame EXCEPT ![t].staged = x] PROVE Same
  BY <1>2, CallerKept
<1>3. ASSUME NEW x, NEW y,
             frame' = [frame EXCEPT ![t].todo = x, ![t].base = y]
      PROVE  Same
  BY <1>3, CallerKept
<1>4. ASSUME NEW x, NEW y,
             frame' = [frame EXCEPT ![t].todo = x, ![t].staged = y]
      PROVE  Same
  BY <1>4, CallerKept
<1> HIDE DEF Same
<1>5. Finish(t) \/ Same
  <2>1. CASE StageVerify(t)
    BY <1>0, <1>3, <2>1, Zenon DEF StageVerify, StageSucceeds, StageFails
  <2>2. CASE StageLink(t)
    BY <1>0, <1>1, <1>4, <2>2, Zenon DEF StageLink
  <2>3. CASE StageUndo(t) \/ StageRemove(t)
    BY <1>0, <1>1, <1>2, <2>3, Zenon
       DEF StageUndo, StageRemove, StageSucceeds, StageFails
  <2> QED BY <2>1, <2>2, <2>3
<1>6. pc[t] \in {"stageVerify", "stageLink", "stageUndo", "stageRemove"}
  BY DEF StageVerify, StageLink, StageUndo, StageRemove
<1>7. \/ Finish(t) \/ pc'[t] \in {"stageLink", "stageUndo", "stageRemove"}
      \/ /\ frame[t].caller = "bootStage"
         /\ pc'[t] \in {"commitActivated", "commitActivationFailed"}
  BY GotoFacts DEF StageVerify, StageLink, StageUndo, StageRemove,
                   StageSucceeds, StageFails
<1> QED BY <1>5, <1>6, <1>7 DEF Same

\* A rollback on behalf of another caller.
LEMMA RollbackVold ==
  ASSUME TypeOK, NEW t \in Threads, NEW s \in SessionIds,
         NEW c \in {"service", "watch", "bootResume", "bootActivate"},
         RollbackSession(t, s, c) \/ ResumeRollback(t, s, c)
  PROVE  VoldStands(t)'
<1>1. /\ frame'[t].sid = s
      /\ pc'[t] \in {"commitStagedRollback", "commitRollback", "restoreCheck",
                     "commitRolledBack"}
  BY EnterFacts DEF RollbackSession, ResumeRollback
<1>2. frame'[t].caller = c
  <2>1. frame' = [frame EXCEPT ![t].sid = s, ![t].caller = c]
    BY DEF RollbackSession, ResumeRollback, Enter
  <2> QED BY <2>1 DEF TypeOK, ThreadsType, Frames
<1> QED BY <1>1, <1>2 DEF VoldStands, MayActivate, ScanLabels

LEMMA RequestVold ==
  ASSUME TypeOK, NEW t \in Threads, ReadsHold(t), Request(t)
  PROVE  VoldStands(t)'
<1>1. ASSUME NEW s \in SessionIds, StagePackages(t, Staging[s])
      PROVE  VoldStands(t)'
  <2>1. pc'[t] = "stageVerify"
    BY <1>1, GotoFacts DEF StagePackages
  <2>2. frame[t].caller = "service"
    BY <1>1 DEF StagePackages, Serving, ReadsHold, FreshLabels, EmptyFrame
  <2>3. frame'[t].caller = "service"
    BY <1>1, <2>2, CallerKept DEF StagePackages
  <2> QED BY <2>1, <2>3 DEF VoldStands, MayActivate
<1>2. CASE \/ BootCompleted(t)
           \/ \E paths \in SUBSET active : UnstagePackages(t, paths)
           \/ \E s \in SessionIds : \/ SubmitStagedSession(t, s)
                                    \/ MarkStagedSessionReady(t, s)
                                    \/ MarkStagedSessionSuccessful(t, s)
  <2>1. pc'[t] \in {"dangling", "unstage", "clear", "commitStaged",
                    "successClean"}
    BY <1>2, GotoFacts, EnterFacts
       DEF BootCompleted, UnstagePackages, SubmitStagedSession,
           MarkStagedSessionReady, MarkStagedSessionSuccessful
  <2> QED BY <2>1, ElsewhereVold DEF VoldLabels, ScanLabels
<1>3. CASE \/ RollbackActiveSession(t) \/ ResumeRollbackIfNeeded(t)
           \/ AbortActiveSession(t) \/ UpdatableCrashing(t)
  <2>1. \/ \E s \in SessionIds : \/ RollbackSession(t, s, "service")
                                 \/ RollbackSession(t, s, "watch")
                                 \/ ResumeRollback(t, s, "service")
        \/ \E s \in SessionIds : Enter(t, "abortDelete", s, "service")
        \/ pc[t] = "idle" /\ UNCHANGED pc
    BY <1>3 DEF RollbackActiveSession, ResumeRollbackIfNeeded,
                AbortActiveSession, UpdatableCrashing
  <2>2. pc'[t] \in {"idle", "abortDelete"} => VoldStands(t)'
    BY ElsewhereVold DEF VoldLabels, ScanLabels
  <2> QED BY <2>1, <2>2, RollbackVold, EnterFacts
<1> QED BY <1>1, <1>2, <1>3 DEF Request

\* The commits.
LEMMA CommitVold ==
  ASSUME Sequential, VoldAnswers, TypeOK, NoTornFiles, AtMostOneActiveSession,
         NEW t \in Threads, ReadsHold(t), VoldStands(t),
         \/ CommitVerified(t) \/ CommitStaged(t) \/ CommitSuccess(t)
         \/ CommitStagedRollback(t) \/ CommitRollback(t)
         \/ CommitRollbackFailed(t) \/ CommitRolledBack(t)
         \/ CommitActivated(t) \/ CommitActivationFailed(t)
  PROVE  VoldStands(t)'
<1>1. Finish(t) => VoldStands(t)'
  BY LeaveFacts, ElsewhereVold DEF Finish, VoldLabels, ScanLabels
<1>2. ASSUME NEW ok, Return(t, ok), frame[t].caller # "bootVold"
      PROVE  VoldStands(t)'
  BY <1>2, LeaveFacts, ElsewhereVold DEF Return, ReturnLabel, VoldLabels,
                                         ScanLabels
<1>3. CASE CommitVerified(t) \/ CommitStaged(t) \/ CommitSuccess(t)
  BY <1>1, <1>3 DEF CommitVerified, CommitStaged, CommitSuccess
<1>4. CASE CommitRollbackFailed(t) \/ CommitRolledBack(t)
  <2>1. pc[t] \in {"commitRollbackFailed", "commitRolledBack"}
    BY <1>4 DEF CommitRollbackFailed, CommitRolledBack, CommitReportsSuccess,
                Commits, CommitLost, CommitFails
  <2> QED BY <1>2, <1>4, <2>1 DEF CommitRollbackFailed, CommitRolledBack,
                                  VoldStands
<1>5. CASE CommitRollback(t)
  <2>1. pc[t] = "commitRollback"
    BY <1>5 DEF CommitRollback, CommitReportsSuccess, Commits, CommitLost,
                CommitFails
  <2>2. CASE pc'[t] = "restoreCheck" /\ UNCHANGED frame
    BY <2>1, <2>2 DEF VoldStands, MayActivate, ScanLabels
  <2> QED BY <1>2, <1>5, <2>1, <2>2, GotoFacts DEF CommitRollback, VoldStands
<1>6. CASE CommitStagedRollback(t)
  <2>1. pc[t] = "commitStagedRollback" /\ frame[t].sid \in SessionIds
    BY <1>6 DEF CommitStagedRollback, CommitReportsSuccess, Commits,
                CommitLost, CommitFails, VoldStands
  <2>2. sessions[frame[t].sid] = "STAGED"
    BY <2>1 DEF ReadsHold, RecordedStates
  <2>3. sessions' = [sessions EXCEPT ![frame[t].sid] = "ROLLED_BACK"]
    BY <1>6, <2>2 DEF CommitStagedRollback, CommitReportsSuccess, Commits,
          CommitLost, CommitFails, CanOpen, VoldAnswers, WriteStateFile,
          NoTornFiles
  <2>4. ASSUME NEW s \in SessionIds, s # frame[t].sid, sessions[s] = "STAGED"
        PROVE  FALSE
    BY <2>1, <2>2, <2>4 DEF AtMostOneActiveSession, Unfinalized, GetSessions,
                            IsFinalized
  <2>5. \A s \in SessionIds : sessions'[s] # "STAGED"
    BY <2>1, <2>3, <2>4 DEF TypeOK, DiskType
  <2>6. CASE frame[t].caller = "bootVold"
    <3>1. pc'[t] = "collectKeys"
      BY <1>6, <2>6, LeaveFacts DEF CommitStagedRollback, Return, ReturnLabel
    <3> QED BY <2>5, <3>1 DEF VoldStands
  <2> QED BY <1>2, <1>6, <2>6 DEF CommitStagedRollback
<1>7. CASE CommitActivated(t) \/ CommitActivationFailed(t)
  <2>1. /\ pc[t] \in {"commitActivated", "commitActivationFailed"}
        /\ pc'[t] = "stageScan"
    BY <1>7, GotoFacts DEF CommitActivated, CommitActivationFailed,
          CommitReportsSuccess, Commits, CommitLost, CommitFails,
          NextStagedSession
  <2>2. \/ UNCHANGED sessions
        \/ /\ frame[t].sid \in SessionIds
           /\ \/ sessions' = [sessions EXCEPT ![frame[t].sid] = "ACTIVATED"]
              \/ sessions' =
                   [sessions EXCEPT ![frame[t].sid] = "ACTIVATION_FAILED"]
    BY <1>7, CommitFacts DEF CommitActivated, CommitActivationFailed, States
  <2>3. UNCHANGED checkpoint
    BY <1>7 DEF CommitActivated, CommitActivationFailed
  <2>4. \A s \in SessionIds : sessions[s] # "STAGED" => sessions'[s] # "STAGED"
    BY <2>2 DEF TypeOK, DiskType
  <2> QED BY <2>1, <2>3, <2>4 DEF VoldStands, MayActivate, NeedsRollback
<1> QED BY <1>3, <1>4, <1>5, <1>6, <1>7

\* onStart.
LEMMA BootVold ==
  ASSUME Sequential, SupportsFsCheckpoints, VoldAnswers, TypeOK,
         AtMostOneActiveSession, NEW t \in Threads, VoldStands(t),
         \/ OnStart(t) \/ RollbackStagedSessionIfAny(t) \/ CollectApexKeys(t)
         \/ ScanStagedSession(t) \/ BootResumeRollback(t) \/ ScanData(t)
         \/ ActivateData(t) \/ ScanBuiltin(t) \/ ActivateBuiltin(t)
  PROVE  VoldStands(t)'
<1>1. CASE OnStart(t)
  <2>1. CASE Goto(t, "voldRollback")
    BY <2>1, GotoFacts, ElsewhereVold DEF VoldLabels, ScanLabels
  <2>2. CASE Goto(t, "collectKeys") /\ ~NeedsRollback
    <3>1. ~NeedsRollback'
      BY <1>1, <2>2 DEF OnStart, NeedsRollback, vold
    <3> QED BY <2>2, <3>1, GotoFacts DEF VoldStands
  <2> QED BY <1>1, <2>1, <2>2 DEF OnStart, VoldAnswers
<1>2. CASE RollbackStagedSessionIfAny(t)
  <2>1. ASSUME NEW s \in SessionIds,
               Enter(t, "commitStagedRollback", s, "bootVold")
        PROVE  VoldStands(t)'
    BY <2>1, EnterFacts DEF VoldStands, MayActivate, ScanLabels
  <2>2. ASSUME NEW s \in SessionIds, sessions[s] = "STAGED"
        PROVE  ActiveSessionIs("STAGED")
    <3>1. IsActiveSession(sessions, s)
      BY <2>2 DEF AtMostOneActiveSession, IsActiveSession, Unfinalized,
                  GetSessions, IsFinalized
    <3> QED BY <2>2, <3>1 DEF ActiveSessionIs
  <2>3. CASE Goto(t, "collectKeys") /\ ~ActiveSessionIs("STAGED")
    <3>1. pc'[t] = "collectKeys" /\ UNCHANGED sessions
      BY <1>2, <2>3, GotoFacts DEF RollbackStagedSessionIfAny, disk
    <3> QED BY <2>2, <2>3, <3>1 DEF VoldStands
  <2> QED BY <1>2, <2>1, <2>3 DEF RollbackStagedSessionIfAny, Sequential
<1>3. CASE CollectApexKeys(t) \/ ScanStagedSession(t)
  <2>1. UNCHANGED <<sessions, checkpoint>> /\ MayActivate(t)
    BY <1>3 DEF CollectApexKeys, ScanStagedSession, MayActivate, disk, outside,
                vold
  <2>2. pc'[t] \in {"stageScan", "stageVerify", "commitActivationFailed",
                    "resume", "idle"}
    BY <1>3, GotoFacts, LeaveFacts DEF CollectApexKeys, ScanStagedSession,
                                       Finish
  <2> QED BY <2>1, <2>2 DEF VoldStands, NeedsRollback
<1>4. CASE BootResumeRollback(t)
  <2>1. \/ \E s \in SessionIds : ResumeRollback(t, s, "bootResume")
        \/ pc'[t] = "scanData"
    BY <1>4, GotoFacts DEF BootResumeRollback
  <2> QED BY <2>1, RollbackVold, ElsewhereVold DEF VoldLabels, ScanLabels
<1>5. CASE ScanData(t) \/ ActivateData(t)
  <2>1. \/ \E s \in SessionIds : RollbackSession(t, s, "bootActivate")
        \/ pc'[t] \in {"activateData", "scanBuiltin"}
    BY <1>5, GotoFacts, LeaveFacts
       DEF ScanData, ActivateData, ActivateOne, ActivationFailed
  <2> QED BY <2>1, RollbackVold, ElsewhereVold DEF VoldLabels, ScanLabels
<1>6. CASE ScanBuiltin(t) \/ ActivateBuiltin(t)
  <2>1. pc'[t] \in {"activateBuiltin", "idle"}
    BY <1>6, GotoFacts, LeaveFacts
       DEF ScanBuiltin, ActivateBuiltin, ActivateOne, Finish
  <2> QED BY <2>1, ElsewhereVold DEF VoldLabels, ScanLabels
<1> QED BY <1>1, <1>2, <1>3, <1>4, <1>5, <1>6

\* The other handlers.
LEMMA HandlerVold ==
  ASSUME TypeOK, NEW t \in Threads, VoldStands(t),
         \/ ClearSessions(t) \/ ProtectActivePackages(t)
         \/ BackupActivePackages(t)
         \/ DeleteBackup(t, "backupClean", "backupLink")
         \/ LinkBackup(t) \/ UndoBackup(t) \/ VerifySession(t)
         \/ DeleteBackup(t, "successClean", "commitSuccess")
         \/ AbortDelete(t) \/ Unstage(t) \/ UnmountDanglingMounts(t)
         \/ RestoreCheck(t) \/ RestoreDelete(t) \/ RestoreRename(t)
         \/ RestoreChmod(t)
         \/ StageVerify(t) \/ StageLink(t) \/ StageUndo(t) \/ StageRemove(t)
  PROVE  VoldStands(t)'
<1>1. Finish(t) => VoldStands(t)'
  BY LeaveFacts, ElsewhereVold DEF Finish, VoldLabels, ScanLabels
<1>2. CASE \/ ClearSessions(t) \/ ProtectActivePackages(t)
           \/ BackupActivePackages(t)
           \/ DeleteBackup(t, "backupClean", "backupLink")
           \/ LinkBackup(t) \/ UndoBackup(t) \/ VerifySession(t)
           \/ DeleteBackup(t, "successClean", "commitSuccess")
           \/ AbortDelete(t) \/ Unstage(t) \/ UnmountDanglingMounts(t)
  <2>1. \/ Finish(t)
        \/ pc'[t] \in {"clear", "protect", "backup", "verify", "backupClean",
             "backupLink", "backupUndo", "commitVerified", "successClean",
             "commitSuccess", "unstage", "dangling"}
    BY <1>2, GotoFacts
       DEF ClearSessions, ProtectActivePackages, BackupActivePackages,
           DeleteBackup, LinkBackup, UndoBackup, VerifySession, AbortDelete,
           Unstage, UnmountDanglingMounts
  <2> QED BY <1>1, <2>1, ElsewhereVold DEF VoldLabels, ScanLabels
<1>3. CASE RestoreCheck(t) \/ RestoreDelete(t) \/ RestoreRename(t)
           \/ RestoreChmod(t)
  <2>1. /\ pc[t] \in VoldLabels /\ UNCHANGED frame
        /\ pc'[t] \in VoldLabels
    BY <1>3, GotoFacts
       DEF RestoreCheck, RestoreDelete, RestoreRename, RestoreChmod, VoldLabels
  <2> QED BY <2>1 DEF VoldStands, VoldLabels, MayActivate, ScanLabels
<1>4. CASE StageVerify(t) \/ StageLink(t) \/ StageUndo(t) \/ StageRemove(t)
  <2>1. UNCHANGED <<sessions, checkpoint>>
    BY <1>4 DEF StageVerify, StageLink, StageUndo, StageRemove, outside, vold
  <2>2. Finish(t) \/ (/\ pc'[t] \in ScanLabels
                      /\ MayActivate(t)' => MayActivate(t))
    BY <1>4, StageCaller DEF MayActivate, ScanLabels
  <2> QED BY <1>1, <2>1, <2>2 DEF VoldStands, NeedsRollback, ScanLabels
<1> QED BY <1>2, <1>3, <1>4

LEMMA VoldStep ==
  ASSUME Sequential, SupportsFsCheckpoints, VoldAnswers, TypeOK, SessionInv,
         AtMostOneActiveSession, \A t \in Threads : VoldStands(t), [Next]_vars
  PROVE  \A t \in Threads : VoldStands(t)'
<1>0. NoTornFiles
  BY DEF SessionInv
<1>1. ASSUME UNCHANGED vars, NEW t \in Threads PROVE VoldStands(t)'
  BY <1>1 DEF vars, disk, vold, VoldStands, MayActivate, NeedsRollback
<1>2. ASSUME NEW t \in Threads, Request(t) \/ Step(t)
      PROVE  VoldStands(t)'
  <2>1. ReadsHold(t) /\ VoldStands(t)
    BY DEF SessionInv
  <2>2. ~OpenStateFile(t)
    BY DEF OpenStateFile, Sequential
  <2> QED BY <1>0, <1>2, <2>1, <2>2, RequestVold, CommitVold, BootVold,
             HandlerVold DEF Step
<1>3. ASSUME VoldCommitChanges, NEW t \in Threads PROVE VoldStands(t)'
  BY <1>3 DEF VoldCommitChanges, VoldStands, NeedsRollback
<1>4. ASSUME ProcessDies \/ RebootDevice, NEW t \in Threads
      PROVE  VoldStands(t)'
  <2>1. pc'[t] \in {"onStart", "idle"}
    BY <1>4 DEF ProcessDies, RebootDevice, StartProcess
  <2> QED BY <2>1, ElsewhereVold DEF VoldLabels, ScanLabels
<1> QED BY <1>1, <1>2, <1>3, <1>4, OneThread DEF Next, RestartProcess, AbortProcess

\* Once vold has asked for a rollback, no session is activated until vold has
\* settled: onStart marks the staged session before it scans for them.
THEOREM VoldRollbackIsHeeded ==
  ASSUME Sequential, VoldAnswers
  PROVE  Spec => NoActivationAfterVoldRollback
<1> DEFINE Inv == \A t \in Threads : VoldStands(t)
           Heeds == \A s \in SessionIds : Activates(s) => ~NeedsRollback
<1>1. CASE SupportsFsCheckpoints
  <2>1. Init => Inv
    BY DEF Init, VoldStands, MayActivate, ScanLabels
  <2>2. TypeOK /\ SessionInv /\ AtMostOneActiveSession /\ Inv /\ [Next]_vars
          => Inv'
    BY <1>1, VoldStep
  <2>3. SessionInv /\ Inv => Heeds
    <3> SUFFICES ASSUME SessionInv, Inv, NEW s \in SessionIds, Activates(s)
                 PROVE  ~NeedsRollback
      OBVIOUS
    <3>1. PICK t \in Threads : pc[t] = "commitActivated" /\ frame[t].sid = s
      BY DEF Activates
    <3>2. sessions[s] = "STAGED"
      BY <3>1 DEF SessionInv, ReadsHold, RecordedStates
    <3> QED BY <3>1, <3>2 DEF VoldStands, MayActivate
  <2> HIDE DEF Inv
  <2> QED BY <2>1, <2>2, <2>3, TypeCorrect, SessionInvariant, OneActiveSession,
             PTL DEF Spec, NoActivationAfterVoldRollback
<1>2. CASE ~SupportsFsCheckpoints
  <2>1. WithoutCheckpoints
    BY <1>2 DEF WithoutCheckpoints
  <2>2. BackupInv => Heeds
    BY DEF BackupInv, NoCheckpoints, NeedsRollback
  <2> QED BY <2>1, <2>2, BackupInvariant, PTL DEF NoActivationAfterVoldRollback
<1> QED BY <1>1, <1>2

-----------------------------------------------------------------------------
(* stagePackages and /data/apex/active.                                    *)

StageInv(t) == StageStands(t) /\ (OneVersionEach => SessionStands(t))

LEMMA ElsewhereStage ==
  ASSUME NEW t \in Threads, pc'[t] \notin ScanLabels
  PROVE  StageInv(t)'
BY DEF StageInv, StageStands, SessionStands, ScanLabels

\* stageScan with a frame that has linked nothing.
LEMMA ScanStage ==
  ASSUME NEW t \in Threads, pc'[t] = "stageScan", frame'[t].staged = {}
  PROVE  StageInv(t)'
BY DEF StageInv, StageStands, SessionStands

\* The fields that an assignment to other fields of a frame keeps.
LEMMA TodoOnly ==
  ASSUME TypeOK, NEW t \in Threads, NEW x,
         frame' = [frame EXCEPT ![t].todo = x]
  PROVE  /\ frame'[t].todo = x
         /\ frame'[t].staged = frame[t].staged
         /\ frame'[t].base = frame[t].base
         /\ frame'[t].sid = frame[t].sid
         /\ frame'[t].caller = frame[t].caller
BY DEF TypeOK, ThreadsType, Frames

LEMMA TodoAndStaged ==
  ASSUME TypeOK, NEW t \in Threads, NEW a,
         frame' = [frame EXCEPT ![t].todo = @ \ {a}, ![t].staged = @ \cup {a}]
  PROVE  /\ frame'[t].todo = frame[t].todo \ {a}
         /\ frame'[t].staged = frame[t].staged \cup {a}
         /\ frame'[t].base = frame[t].base
         /\ frame'[t].sid = frame[t].sid
         /\ frame'[t].caller = frame[t].caller
BY DEF TypeOK, ThreadsType, Frames

LEMMA StagedOnly ==
  ASSUME TypeOK, NEW t \in Threads, NEW a,
         frame' = [frame EXCEPT ![t].staged = @ \ {a}]
  PROVE  /\ frame'[t].staged = frame[t].staged \ {a}
         /\ frame'[t].base = frame[t].base
         /\ frame'[t].sid = frame[t].sid
         /\ frame'[t].caller = frame[t].caller
BY DEF TypeOK, ThreadsType, Frames

\* A package stays present where its own file is not removed.
LEMMA PresentKept ==
  ASSUME UNCHANGED latest, NEW a, Present(a), a \in active => a \in active'
  PROVE  Present(a)'
<1>1. CASE a \in active
  BY <1>1 DEF Present
<1>2. CASE a \notin active
  <2>1. PICK m \in latest : HasFile(m) /\ m.apex = a
    BY <1>2 DEF Present, GetActivePackages
  <2>2. m.dir = "builtin"
    BY <1>2, <2>1 DEF HasFile
  <2> QED BY <2>1, <2>2 DEF Present, GetActivePackages, HasFile
<1> QED BY <1>1, <1>2

LEMMA StageEnds ==
  ASSUME TypeOK, NEW t \in Threads, Finish(t)
  PROVE  StageInv(t)'
BY LeaveFacts, ElsewhereStage DEF Finish, ScanLabels

\* stagePackages fails: nothing more is said of the files.
LEMMA StageFailure ==
  ASSUME TypeOK, NEW t \in Threads, StageFails(t)
  PROVE  StageInv(t)'
<1>1. CASE Goto(t, "commitActivationFailed") /\ UNCHANGED frame
  BY <1>1, GotoFacts DEF StageInv, StageStands, SessionStands
<1> QED BY <1>1, StageEnds DEF StageFails

\* stagePackages succeeds, with every package of the session present.
LEMMA StageSuccess ==
  ASSUME TypeOK, NEW t \in Threads, StageSucceeds(t),
         OneVersionEach /\ frame[t].caller = "bootStage" =>
           /\ frame[t].sid \in SessionIds
           /\ \A a \in Staging[frame[t].sid] : Present(a)'
  PROVE  StageInv(t)'
<1>1. CASE /\ Goto(t, "commitActivated") /\ UNCHANGED frame
           /\ frame[t].caller = "bootStage"
  BY <1>1, GotoFacts DEF StageInv, StageStands, SessionStands
<1> QED BY <1>1, StageEnds DEF StageSucceeds

LEMMA VerifyKeeps ==
  ASSUME TypeOK, NEW t \in Threads, StageInv(t), StageVerify(t)
  PROVE  StageInv(t)'
<1> DEFINE files == Staging[frame[t].sid]
           paths == FilterUnnecessaryStagingPaths(frame[t].todo)
<1>0. /\ pc[t] = "stageVerify" /\ frame[t].staged = {}
      /\ UNCHANGED <<active, latest>>
      /\ OneVersionEach /\ frame[t].caller = "bootStage" =>
           frame[t].sid \in SessionIds /\ frame[t].todo = files
  BY DEF StageVerify, StageInv, StageStands, SessionStands, outside, mounts
<1>1. \A a \in frame[t].todo \ paths : Present(a)
  BY DEF FilterUnnecessaryStagingPaths, Present
<1>2. \A a \in frame[t].todo \ paths : Present(a)'
  BY <1>0, <1>1, PresentKept
<1>3. CASE paths = {} /\ StageSucceeds(t)
  BY <1>0, <1>2, <1>3, StageSuccess
<1>4. CASE /\ Goto(t, "stageLink")
           /\ frame' = [frame EXCEPT ![t].todo = paths, ![t].base = active]
  <2>1. pc'[t] = "stageLink"
    BY <1>4, GotoFacts
  <2>2. paths \subseteq frame[t].todo
    BY DEF FilterUnnecessaryStagingPaths
  <2> HIDE DEF paths
  <2>3. /\ frame'[t].todo = paths /\ frame'[t].base = active
        /\ frame'[t].staged = {}
        /\ frame'[t].sid = frame[t].sid /\ frame'[t].caller = frame[t].caller
    <3>1. /\ frame'[t].todo = paths /\ frame'[t].base = active
          /\ frame'[t].staged = frame[t].staged
          /\ frame'[t].sid = frame[t].sid /\ frame'[t].caller = frame[t].caller
      BY <1>4 DEF TypeOK, ThreadsType, Frames
    <3> QED BY <1>0, <3>1
  <2>4. StageStands(t)'
    BY <1>0, <2>1, <2>3 DEF StageStands
  <2>5. OneVersionEach => SessionStands(t)'
    BY <1>0, <1>2, <2>1, <2>2, <2>3 DEF SessionStands
  <2> QED BY <2>4, <2>5 DEF StageInv
<1> QED BY <1>3, <1>4, StageFailure DEF StageVerify

LEMMA LinkKeeps ==
  ASSUME TypeOK, NEW t \in Threads, StageInv(t), StageLink(t)
  PROVE  StageInv(t)'
<1>0. /\ pc[t] = "stageLink" /\ UNCHANGED latest
      /\ active = frame[t].base \cup frame[t].staged
      /\ frame[t].base \cap frame[t].staged = {}
      /\ OneVersionEach /\ frame[t].caller = "bootStage" =>
           /\ frame[t].sid \in SessionIds
           /\ frame[t].staged \cup frame[t].todo \subseteq Staging[frame[t].sid]
           /\ \A a \in Staging[frame[t].sid]
                         \ (frame[t].staged \cup frame[t].todo) : Present(a)
  BY DEF StageLink, StageInv, StageStands, SessionStands, outside, mounts
<1>1. ASSUME NEW a \in frame[t].todo \ active, active' = active \cup {a},
             frame' = [frame EXCEPT ![t].todo = @ \ {a},
                                    ![t].staged = @ \cup {a}],
             UNCHANGED pc
      PROVE  StageInv(t)'
  <2>1. /\ frame'[t].todo = frame[t].todo \ {a}
        /\ frame'[t].staged = frame[t].staged \cup {a}
        /\ frame'[t].base = frame[t].base
        /\ frame'[t].sid = frame[t].sid /\ frame'[t].caller = frame[t].caller
    BY <1>1, TodoAndStaged
  <2>2. StageStands(t)'
    BY <1>0, <1>1, <2>1 DEF StageStands
  <2>3. \A b : Present(b) => Present(b)'
    BY <1>0, <1>1, PresentKept
  <2>4. OneVersionEach => SessionStands(t)'
    BY <1>0, <1>1, <2>1, <2>3 DEF SessionStands
  <2> QED BY <2>2, <2>4 DEF StageInv
<1>2. CASE /\ frame[t].todo = {} /\ Goto(t, "stageRemove") /\ UNCHANGED active
           /\ frame' = [frame EXCEPT ![t].todo =
                                         PreviouslyActive(frame[t].staged)]
  <2>1. pc'[t] = "stageRemove"
    BY <1>2, GotoFacts
  <2>2. /\ frame'[t].todo = PreviouslyActive(frame[t].staged)
        /\ frame'[t].staged = frame[t].staged
        /\ frame'[t].sid = frame[t].sid /\ frame'[t].caller = frame[t].caller
    BY <1>2, TodoOnly
  <2>3. StageStands(t)'
    BY <1>0, <1>2, <2>1, <2>2 DEF StageStands, PreviouslyActive
  <2>4. \A b : Present(b) => Present(b)'
    BY <1>0, <1>2, PresentKept
  <2>5. OneVersionEach => SessionStands(t)'
    BY <1>0, <1>2, <2>1, <2>2, <2>4 DEF SessionStands
  <2> QED BY <2>3, <2>5 DEF StageInv
<1>3. CASE Goto(t, "stageUndo") /\ UNCHANGED <<active, frame>>
  BY <1>0, <1>3, GotoFacts DEF StageInv, StageStands, SessionStands
<1> QED BY <1>1, <1>2, <1>3 DEF StageLink

LEMMA UndoKeeps ==
  ASSUME TypeOK, NEW t \in Threads, StageInv(t), StageUndo(t)
  PROVE  StageInv(t)'
<1>1. ASSUME NEW a \in frame[t].staged,
             active' = active \ {a} \/ Fault("unlink"),
             frame' = [frame EXCEPT ![t].staged = @ \ {a}],
             UNCHANGED pc, pc[t] = "stageUndo"
      PROVE  StageInv(t)'
  <2>1. /\ frame'[t].staged = frame[t].staged \ {a}
        /\ frame'[t].base = frame[t].base
    BY <1>1, StagedOnly
  <2>2. StageStands(t)'
    BY <1>1, <2>1 DEF StageInv, StageStands
  <2>3. OneVersionEach => SessionStands(t)'
    BY <1>1 DEF SessionStands
  <2> QED BY <2>2, <2>3 DEF StageInv
<1> QED BY <1>1, StageFailure DEF StageUndo

LEMMA RemoveKeeps ==
  ASSUME TypeOK, NEW t \in Threads, StageInv(t), StageRemove(t)
  PROVE  StageInv(t)'
<1>0. /\ pc[t] = "stageRemove" /\ UNCHANGED latest
      /\ frame[t].staged \subseteq active
      /\ frame[t].todo \subseteq PreviouslyActive(frame[t].staged)
      /\ OneVersionEach /\ frame[t].caller = "bootStage" =>
           /\ frame[t].sid \in SessionIds
           /\ frame[t].staged \subseteq Staging[frame[t].sid]
           /\ \A a \in Staging[frame[t].sid] \ frame[t].staged : Present(a)
  BY DEF StageRemove, StageInv, StageStands, SessionStands, outside, mounts
<1>1. ASSUME NEW a \in frame[t].todo \cap active, active' = active \ {a},
             frame' = [frame EXCEPT ![t].todo = @ \ {a}], UNCHANGED pc
      PROVE  StageInv(t)'
  <2>1. /\ frame'[t].todo = frame[t].todo \ {a}
        /\ frame'[t].staged = frame[t].staged
        /\ frame'[t].sid = frame[t].sid /\ frame'[t].caller = frame[t].caller
    BY <1>1, TodoOnly
  <2>2. a \notin frame[t].staged /\ \E f \in frame[t].staged : f.name = a.name
    BY <1>0 DEF PreviouslyActive
  <2>3. StageStands(t)'
    BY <1>0, <1>1, <2>1, <2>2 DEF StageStands, PreviouslyActive
  <2>4. \A b : b # a /\ Present(b) => Present(b)'
    BY <1>0, <1>1, PresentKept
  <2>5. OneVersionEach /\ frame[t].caller = "bootStage" => a \notin Staging[frame[t].sid]
    BY <1>0, <2>2 DEF OneVersionEach, OneVersion
  <2>6. OneVersionEach => SessionStands(t)'
    BY <1>0, <1>1, <2>1, <2>4, <2>5 DEF SessionStands
  <2> QED BY <2>3, <2>6 DEF StageInv
<1>2. CASE frame[t].todo = {} /\ StageSucceeds(t) /\ UNCHANGED active
  <2>1. \A b : Present(b) => Present(b)'
    BY <1>0, <1>2, PresentKept
  <2>2. \A a \in active : Present(a)
    BY DEF Present
  <2> QED BY <1>0, <1>2, <2>1, <2>2, StageSuccess
<1> QED BY <1>1, <1>2, StageFailure DEF StageRemove

\* The other requests do not come to it either.
LEMMA RequestAway ==
  ASSUME TypeOK, NEW t \in Threads, Request(t),
         \A s \in SessionIds : ~StagePackages(t, Staging[s])
  PROVE  pc'[t] \notin ScanLabels \cup {"backupLink"}
<1>1. CASE \/ BootCompleted(t)
           \/ \E paths \in SUBSET active : UnstagePackages(t, paths)
           \/ \E s \in SessionIds : \/ SubmitStagedSession(t, s)
                                    \/ MarkStagedSessionReady(t, s)
                                    \/ MarkStagedSessionSuccessful(t, s)
  BY <1>1, GotoFacts, EnterFacts
     DEF BootCompleted, UnstagePackages, SubmitStagedSession,
         MarkStagedSessionReady, MarkStagedSessionSuccessful, ScanLabels
<1>2. ASSUME NEW s \in SessionIds, NEW c,
             \/ RollbackSession(t, s, c) \/ ResumeRollback(t, s, c)
             \/ Enter(t, "abortDelete", s, c)
      PROVE  pc'[t] \notin ScanLabels \cup {"backupLink"}
  BY <1>2, EnterFacts DEF RollbackSession, ResumeRollback, ScanLabels
<1>3. CASE \/ RollbackActiveSession(t) \/ ResumeRollbackIfNeeded(t)
           \/ AbortActiveSession(t) \/ UpdatableCrashing(t)
  <2>1. \/ \E s \in SessionIds : \/ RollbackSession(t, s, "service")
                                 \/ RollbackSession(t, s, "watch")
                                 \/ ResumeRollback(t, s, "service")
                                 \/ Enter(t, "abortDelete", s, "service")
        \/ pc[t] = "idle" /\ UNCHANGED pc
    BY <1>3 DEF RollbackActiveSession, ResumeRollbackIfNeeded,
                AbortActiveSession, UpdatableCrashing
  <2> QED BY <1>2, <2>1 DEF ScanLabels
<1> QED BY <1>1, <1>3 DEF Request

LEMMA RequestKeeps ==
  ASSUME TypeOK, NEW t \in Threads, ReadsHold(t), Request(t)
  PROVE  StageInv(t)'
<1>1. ASSUME NEW s \in SessionIds, StagePackages(t, Staging[s])
      PROVE  StageInv(t)'
  <2>1. pc'[t] = "stageVerify"
    BY <1>1, GotoFacts DEF StagePackages
  <2>2. frame[t].caller = "service" /\ frame[t].staged = {}
    BY <1>1 DEF StagePackages, Serving, ReadsHold, FreshLabels, EmptyFrame
  <2>3. frame'[t].caller = "service" /\ frame'[t].staged = {}
    BY <1>1, <2>2, TodoOnly DEF StagePackages
  <2> QED BY <2>1, <2>3 DEF StageInv, StageStands, SessionStands
<1> QED BY <1>1, RequestAway, ElsewhereStage

\* onStart around its scan for staged sessions.
LEMMA ScanKeeps ==
  ASSUME TypeOK, NEW t \in Threads, ReadsHold(t), StageInv(t),
         \/ CollectApexKeys(t) \/ ScanStagedSession(t)
         \/ CommitActivated(t) \/ CommitActivationFailed(t)
  PROVE  StageInv(t)'
<1>1. CASE CollectApexKeys(t)
  <2>1. ASSUME NEW ids, Goto(t, "stageScan"),
               frame' = [frame EXCEPT ![t].listed = ids]
        PROVE  StageInv(t)'
    <3>1. frame[t].staged = {}
      BY <1>1 DEF CollectApexKeys, ReadsHold, FreshLabels, EmptyFrame
    <3>2. frame'[t].staged = {}
      BY <2>1, <3>1 DEF TypeOK, ThreadsType, Frames
    <3> QED BY <2>1, <3>2, GotoFacts, ScanStage
  <2> QED BY <1>1, <2>1, StageEnds DEF CollectApexKeys
<1>2. CASE ScanStagedSession(t)
  <2>1. CASE Leave(t, "resume")
    BY <2>1, LeaveFacts, ElsewhereStage DEF ScanLabels
  <2>2. ASSUME NEW s \in frame[t].listed,
               Goto(t, "stageVerify") \/ Goto(t, "commitActivationFailed"),
               frame' = [frame EXCEPT ![t].sid = s, ![t].caller = "bootStage",
                                      ![t].listed = @ \ {s},
                                      ![t].todo = Staging[s]]
        PROVE  StageInv(t)'
    <3>1. s \in SessionIds
      BY FrameFields DEF TypeOK, ThreadsType
    <3>2. /\ frame'[t].sid = s /\ frame'[t].todo = Staging[s]
          /\ frame'[t].staged = frame[t].staged
      BY <2>2 DEF TypeOK, ThreadsType, Frames
    <3>3. frame[t].staged = {}
      BY <1>2 DEF ScanStagedSession, StageInv, StageStands
    <3>4. pc'[t] \in {"stageVerify", "commitActivationFailed"}
      BY <2>2, GotoFacts
    <3> QED BY <3>1, <3>2, <3>3, <3>4 DEF StageInv, StageStands, SessionStands
  <2> QED BY <1>2, <2>1, <2>2 DEF ScanStagedSession
<1>3. CASE CommitActivated(t) \/ CommitActivationFailed(t)
  <2>1. NextStagedSession(t)
    BY <1>3 DEF CommitActivated, CommitActivationFailed
  <2>2. frame'[t].staged = {}
    BY <2>1 DEF NextStagedSession, EmptyFrame, TypeOK, ThreadsType
  <2> QED BY <2>1, <2>2, GotoFacts, ScanStage DEF NextStagedSession
<1> QED BY <1>1, <1>2, <1>3

\* The handlers that never come to stagePackages.
LEMMA OtherAway ==
  ASSUME Sequential, TypeOK, NEW t \in Threads, Step(t),
         ~StageVerify(t), ~StageLink(t), ~StageUndo(t), ~StageRemove(t),
         ~CollectApexKeys(t), ~ScanStagedSession(t),
         ~CommitActivated(t), ~CommitActivationFailed(t)
  PROVE  pc'[t] \notin ScanLabels
<1>0. Finish(t) => pc'[t] \notin ScanLabels
  BY LeaveFacts DEF Finish, ScanLabels
<1>1. CASE \/ ClearSessions(t) \/ ProtectActivePackages(t)
           \/ BackupActivePackages(t)
           \/ DeleteBackup(t, "backupClean", "backupLink")
           \/ LinkBackup(t) \/ UndoBackup(t) \/ VerifySession(t)
           \/ DeleteBackup(t, "successClean", "commitSuccess")
           \/ AbortDelete(t) \/ Unstage(t) \/ UnmountDanglingMounts(t)
  <2>1. \/ Finish(t)
        \/ pc'[t] \in {"clear", "protect", "backup", "verify", "backupClean",
             "backupLink", "backupUndo", "commitVerified", "successClean",
             "commitSuccess", "unstage", "dangling"}
    BY <1>1, GotoFacts
       DEF ClearSessions, ProtectActivePackages, BackupActivePackages,
           DeleteBackup, LinkBackup, UndoBackup, VerifySession, AbortDelete,
           Unstage, UnmountDanglingMounts
  <2> QED BY <1>0, <2>1 DEF ScanLabels
<1>2. CASE CommitVerified(t) \/ CommitStaged(t) \/ CommitSuccess(t)
  BY <1>0, <1>2 DEF CommitVerified, CommitStaged, CommitSuccess
<1>3. CASE \/ CommitStagedRollback(t) \/ CommitRollback(t)
           \/ CommitRollbackFailed(t) \/ CommitRolledBack(t)
  <2>1. ASSUME NEW ok, Return(t, ok) PROVE pc'[t] \notin ScanLabels
    BY <2>1, LeaveFacts DEF Return, ReturnLabel, ScanLabels
  <2>2. Goto(t, "restoreCheck") => pc'[t] \notin ScanLabels
    BY GotoFacts DEF ScanLabels
  <2> QED BY <1>3, <2>1, <2>2 DEF CommitStagedRollback, CommitRollback,
                                  CommitRollbackFailed, CommitRolledBack
<1>4. CASE \/ RestoreCheck(t) \/ RestoreDelete(t) \/ RestoreRename(t)
           \/ RestoreChmod(t)
  BY <1>4, GotoFacts DEF RestoreCheck, RestoreDelete, RestoreRename,
                         RestoreChmod, ScanLabels
<1>5. CASE \/ OnStart(t) \/ RollbackStagedSessionIfAny(t)
           \/ BootResumeRollback(t)
  BY <1>5, GotoFacts, EnterFacts
     DEF OnStart, RollbackStagedSessionIfAny, BootResumeRollback,
         ResumeRollback, ScanLabels
<1>6. CASE ScanData(t) \/ ActivateData(t)
  <2>1. \/ \E s \in SessionIds : RollbackSession(t, s, "bootActivate")
        \/ pc'[t] \in {"activateData", "scanBuiltin"}
    BY <1>6, GotoFacts, LeaveFacts
       DEF ScanData, ActivateData, ActivateOne, ActivationFailed
  <2> QED BY <2>1, EnterFacts DEF RollbackSession, ScanLabels
<1>7. CASE ScanBuiltin(t) \/ ActivateBuiltin(t)
  BY <1>0, <1>7, GotoFacts DEF ScanBuiltin, ActivateBuiltin, ActivateOne,
                               ScanLabels
<1>8. ~OpenStateFile(t)
  BY DEF OpenStateFile, Sequential
<1> QED BY <1>1, <1>2, <1>3, <1>4, <1>5, <1>6, <1>7, <1>8 DEF Step

LEMMA StageInvStep ==
  ASSUME Sequential, TypeOK, SessionInv,
         \A t \in Threads : StageInv(t), [Next]_vars
  PROVE  \A t \in Threads : StageInv(t)'
<1>1. ASSUME UNCHANGED vars, NEW t \in Threads PROVE StageInv(t)'
  <2>1. UNCHANGED <<active, latest, pc, frame>>
    BY <1>1 DEF vars, disk, mounts
  <2>2. \A a : Present(a) => Present(a)'
    BY <2>1, PresentKept
  <2> QED BY <2>1, <2>2 DEF StageInv, StageStands, SessionStands,
                            PreviouslyActive
<1>2. ASSUME NEW t \in Threads, Request(t) \/ Step(t)
      PROVE  StageInv(t)'
  <2>1. ReadsHold(t) /\ StageInv(t)
    BY DEF SessionInv
  <2> QED BY <1>2, <2>1, RequestKeeps, VerifyKeeps, LinkKeeps, UndoKeeps,
             RemoveKeeps, ScanKeeps, OtherAway, ElsewhereStage
<1>3. ASSUME VoldCommitChanges, NEW t \in Threads PROVE StageInv(t)'
  <2>1. UNCHANGED <<active, latest, pc, frame>>
    BY <1>3 DEF VoldCommitChanges, disk, mounts
  <2>2. \A a : Present(a) => Present(a)'
    BY <2>1, PresentKept
  <2> QED BY <2>1, <2>2 DEF StageInv, StageStands, SessionStands,
                            PreviouslyActive
<1>4. ASSUME ProcessDies \/ RebootDevice, NEW t \in Threads
      PROVE  StageInv(t)'
  <2>1. pc'[t] \in {"onStart", "idle"}
    BY <1>4 DEF ProcessDies, RebootDevice, StartProcess
  <2> QED BY <2>1, ElsewhereStage DEF ScanLabels
<1> QED BY <1>1, <1>2, <1>3, <1>4, OneThread DEF Next, RestartProcess, AbortProcess

\* stagePackages knows what it has linked and what it has yet to remove.
THEOREM StageInvariant ==
  ASSUME Sequential
  PROVE  Spec => [](\A t \in Threads : StageInv(t))
<1> DEFINE Inv == \A t \in Threads : StageInv(t)
<1>1. Init => Inv
  BY DEF Init, StageInv, StageStands, SessionStands, EmptyFrame
<1>2. TypeOK /\ SessionInv /\ Inv /\ [Next]_vars => Inv'
  BY StageInvStep
<1> HIDE DEF Inv
<1>3. Spec => []Inv
  BY <1>1, <1>2, TypeCorrect, SessionInvariant, PTL DEF Spec
<1> QED BY <1>3 DEF Inv

\* A session is recorded as activated only when each of its packages is in
\* /data/apex/active or is the one running already.
THEOREM ActivatedPackagesAreInstalled ==
  ASSUME Sequential, OneVersionEach
  PROVE  Spec => ActivatedIsInstalled
<1> DEFINE Inv == \A t \in Threads : StageInv(t)
           Installed == \A s \in SessionIds : Activates(s) =>
             \A a \in Staging[s] : a \in active \/ a \in GetActivePackages
<1>1. Inv => Installed
  BY DEF StageInv, SessionStands, Activates, Present
<1> QED BY <1>1, StageInvariant, PTL DEF ActivatedIsInstalled

\* At these labels a thread runs stagePackages and nothing else.
LEMMA AtStage ==
  ASSUME Sequential, NEW t \in Threads, Request(t) \/ Step(t),
         pc[t] \in {"stageLink", "stageUndo", "stageRemove"}
  PROVE  StageLink(t) \/ StageUndo(t) \/ StageRemove(t)
<1>1. ~Request(t)
  BY DEF Request, SubmitStagedSession, MarkStagedSessionReady,
         MarkStagedSessionSuccessful, StagePackages, RollbackActiveSession,
         AbortActiveSession, ResumeRollbackIfNeeded, UnstagePackages,
         UpdatableCrashing, BootCompleted, Serving
<1>2. ~OpenStateFile(t)
  BY DEF OpenStateFile, Sequential
<1>3. /\ ~ClearSessions(t) /\ ~ProtectActivePackages(t)
      /\ ~BackupActivePackages(t)
      /\ ~DeleteBackup(t, "backupClean", "backupLink")
      /\ ~LinkBackup(t) /\ ~UndoBackup(t) /\ ~VerifySession(t)
      /\ ~DeleteBackup(t, "successClean", "commitSuccess")
      /\ ~AbortDelete(t) /\ ~Unstage(t) /\ ~UnmountDanglingMounts(t)
      /\ ~RestoreCheck(t) /\ ~RestoreDelete(t) /\ ~RestoreRename(t)
      /\ ~RestoreChmod(t) /\ ~StageVerify(t)
  BY DEF ClearSessions, ProtectActivePackages, BackupActivePackages,
         DeleteBackup, LinkBackup, UndoBackup, VerifySession, AbortDelete,
         Unstage, UnmountDanglingMounts, RestoreCheck, RestoreDelete,
         RestoreRename, RestoreChmod, StageVerify
<1>4. /\ ~CommitVerified(t) /\ ~CommitStaged(t) /\ ~CommitSuccess(t)
      /\ ~CommitStagedRollback(t) /\ ~CommitRollback(t)
      /\ ~CommitRollbackFailed(t) /\ ~CommitRolledBack(t)
      /\ ~CommitActivated(t) /\ ~CommitActivationFailed(t)
  BY DEF CommitVerified, CommitStaged, CommitSuccess, CommitStagedRollback,
         CommitRollback, CommitRollbackFailed, CommitRolledBack,
         CommitActivated, CommitActivationFailed, CommitReportsSuccess,
         Commits, CommitLost, CommitFails
<1>5. /\ ~OnStart(t) /\ ~RollbackStagedSessionIfAny(t) /\ ~CollectApexKeys(t)
      /\ ~ScanStagedSession(t) /\ ~BootResumeRollback(t) /\ ~ScanData(t)
      /\ ~ActivateData(t) /\ ~ScanBuiltin(t) /\ ~ActivateBuiltin(t)
  BY DEF OnStart, RollbackStagedSessionIfAny, CollectApexKeys,
         ScanStagedSession, BootResumeRollback, ScanData, ActivateData,
         ScanBuiltin, ActivateBuiltin
<1> QED BY <1>1, <1>2, <1>3, <1>4, <1>5 DEF Step

LEMMA AtStageUndo ==
  ASSUME Sequential, NEW t \in Threads, Request(t) \/ Step(t),
         pc[t] = "stageUndo"
  PROVE  StageUndo(t)
BY AtStage DEF StageLink, StageRemove

LEMMA AtStageRemove ==
  ASSUME Sequential, NEW t \in Threads, Request(t) \/ Step(t),
         pc[t] = "stageRemove"
  PROVE  StageRemove(t)
BY AtStage DEF StageLink, StageUndo

\* stagePackages removes a version of a package only when another version of
\* it is in /data/apex/active, so that a crash between two removals leaves
\* every package with some version.
THEOREM ReplacementComesFirst ==
  ASSUME WithoutCheckpoints
  PROVE  Spec => ReplacedBeforeRemoved
<1> DEFINE Inv == \A t \in Threads : StageInv(t)
           Replaced == \A t \in Threads : pc[t] = "stageRemove" =>
             \A a \in active \ active' : \E b \in active' : b.name = a.name
<1>0. Sequential
  BY DEF WithoutCheckpoints
<1>1. TypeOK /\ BackupInv /\ Inv /\ [Next]_vars => [Replaced]_vars
  <2> SUFFICES ASSUME TypeOK, BackupInv, Inv, [Next]_vars, NEW t \in Threads,
                      pc[t] = "stageRemove", NEW a \in active \ active'
               PROVE  \E b \in active' : b.name = a.name
    OBVIOUS
  <2>1. ~UNCHANGED active
    OBVIOUS
  <2>2. \E u \in Threads : Request(u) \/ Step(u)
    <3>1. ~VoldCommitChanges /\ ~ProcessDies /\ ~RebootDevice
      BY <2>1 DEF VoldCommitChanges, ProcessDies, RebootDevice, BackupInv,
                  NoCheckpoints, disk
    <3> QED BY <2>1, <3>1 DEF Next, RestartProcess, AbortProcess, vars, disk
  <2>3. Request(t) \/ Step(t)
    BY <1>0, <2>2, OneThread
  <2>4. StageRemove(t)
    BY <1>0, <2>1, <2>3, AtStageRemove
  <2>5. PICK c \in frame[t].todo \cap active : active' = active \ {c}
    BY <2>1, <2>4 DEF StageRemove
  <2>6. /\ frame[t].staged \subseteq active
        /\ frame[t].todo \subseteq PreviouslyActive(frame[t].staged)
    BY DEF StageInv, StageStands
  <2>7. c \notin frame[t].staged /\ \E f \in frame[t].staged : f.name = c.name
    BY <2>6 DEF PreviouslyActive
  <2> QED BY <2>5, <2>6, <2>7
<1> HIDE DEF Inv
<1>2. Spec => []Inv
  BY <1>0, StageInvariant DEF Inv
<1> QED BY <1>1, <1>2, TypeCorrect, BackupInvariant, PTL
        DEF Spec, ReplacedBeforeRemoved

\* A stagePackages that fails leaves /data/apex/active as it found it, where
\* every unlink of its scope guard and of the removals succeeds.
THEOREM StagesAllOrNothing ==
  ASSUME Sequential, ~Fault("unlink")
  PROVE  Spec => StageAllOrNothing
<1> DEFINE Inv == \A t \in Threads : StageInv(t)
           Undone(t) ==
             (/\ pc[t] = "stageUndo" \/ (pc[t] = "stageRemove" /\ frame[t].todo # {})
              /\ pc'[t] \notin {pc[t], "onStart"})
               => active' = frame[t].base
<1>1. TypeOK /\ Inv /\ [Next]_vars => [\A t \in Threads : Undone(t)]_vars
  <2> SUFFICES ASSUME TypeOK, Inv, [Next]_vars, NEW t \in Threads,
                      pc[t] = "stageUndo"
                        \/ (pc[t] = "stageRemove" /\ frame[t].todo # {}),
                      pc'[t] \notin {pc[t], "onStart"}
               PROVE  active' = frame[t].base
    OBVIOUS
  <2>1. \E u \in Threads : Request(u) \/ Step(u)
    <3>1. ~VoldCommitChanges
      BY DEF VoldCommitChanges
    <3>2. ~ProcessDies /\ ~RebootDevice
      BY OneThread, ThreadsAssumption DEF ProcessDies, RebootDevice,
                                          StartProcess, Sequential
    <3> QED BY <3>1, <3>2 DEF Next, RestartProcess, AbortProcess, vars
  <2>2. Request(t) \/ Step(t)
    BY <2>1, OneThread
  <2>3. CASE pc[t] = "stageUndo"
    <3>1. StageUndo(t)
      BY <2>2, <2>3, AtStageUndo
    <3>2. frame[t].staged = {} /\ UNCHANGED active
      BY <3>1 DEF StageUndo
    <3>3. active = frame[t].base \cup frame[t].staged
      BY <2>3 DEF StageInv, StageStands
    <3> QED BY <3>2, <3>3
  <2>4. CASE pc[t] = "stageRemove" /\ frame[t].todo # {}
    <3>1. StageRemove(t)
      BY <2>2, <2>4, AtStageRemove
    <3>2. frame[t].todo \subseteq active
      BY <2>4 DEF StageInv, StageStands, PreviouslyActive
    <3> QED BY <2>4, <3>1, <3>2 DEF StageRemove
  <2> QED BY <2>3, <2>4
<1> HIDE DEF Inv
<1>2. Spec => []Inv
  BY StageInvariant DEF Inv
<1> QED BY <1>1, <1>2, TypeCorrect, PTL DEF Spec, StageAllOrNothing

-----------------------------------------------------------------------------
(* One version of each package, where stagePackages is not cut short.      *)

OrderlyDevice ==
  /\ ~CrashAnywhere /\ ~Fault("unlink") /\ OneVersionEach
  /\ \A files \in FactoryActive : OneVersion(files)

LEMMA FewerVersions ==
  ASSUME NEW files, OneVersion(files), NEW fewer \in SUBSET files
  PROVE  OneVersion(fewer)
BY DEF OneVersion

AlteringLabels == {"stageLink", "stageUndo", "stageRemove"}

\* Away from stagePackages the files have to speak for themselves.
LEMMA ElsewhereVersions ==
  ASSUME NEW t \in Threads, VersionsStand(t), UNCHANGED snapshot,
         OneVersion(active'), OneVersion(backup'),
         pc'[t] \notin AlteringLabels \cup {"stageVerify"},
         pc'[t] = "backupLink" => backup' \subseteq active'
  PROVE  VersionsStand(t)'
BY DEF VersionsStand, AlteringLabels

\* What the other handlers do to the files.
LEMMA OtherFiles ==
  ASSUME Sequential, TypeOK, NEW t \in Threads, Step(t), VersionsStand(t),
         ~StageVerify(t), ~StageLink(t), ~StageUndo(t), ~StageRemove(t),
         ~ScanStagedSession(t)
  PROVE  VersionsStand(t)'
<1> DEFINE Quiescent == UNCHANGED <<active, backup, snapshot>>
<1>1. pc[t] \notin AlteringLabels
  BY AtStage DEF AlteringLabels
<1>2. OneVersion(active) /\ OneVersion(backup)
  BY <1>1 DEF VersionsStand, AlteringLabels
<1>3. pc'[t] \notin AlteringLabels \cup {"stageVerify"}
  <2>1. CASE \/ CollectApexKeys(t) \/ CommitActivated(t)
             \/ CommitActivationFailed(t)
    BY <2>1, GotoFacts, LeaveFacts
       DEF CollectApexKeys, CommitActivated, CommitActivationFailed,
           NextStagedSession, Finish, AlteringLabels
  <2>2. CASE /\ ~CollectApexKeys(t) /\ ~CommitActivated(t)
             /\ ~CommitActivationFailed(t)
    BY <2>2, OtherAway DEF AlteringLabels, ScanLabels
  <2> QED BY <2>1, <2>2
<1>4. CASE DeleteBackup(t, "backupClean", "backupLink")
           \/ DeleteBackup(t, "successClean", "commitSuccess") \/ UndoBackup(t)
  <2>1. /\ backup' \subseteq backup /\ UNCHANGED <<active, snapshot>>
        /\ pc'[t] = "backupLink" => backup' = {}
    BY <1>4, GotoFacts, LeaveFacts DEF DeleteBackup, UndoBackup, Finish, outside, vold
  <2>2. OneVersion(active') /\ OneVersion(backup')
    BY <1>2, <2>1, FewerVersions
  <2> QED BY <1>3, <2>1, <2>2, ElsewhereVersions
<1>5. CASE LinkBackup(t)
  <2>1. /\ backup' \subseteq backup \cup active /\ UNCHANGED <<active, snapshot>>
        /\ pc[t] = "backupLink"
    BY <1>5 DEF LinkBackup, outside, vold
  <2>2. backup' \subseteq active
    BY <2>1 DEF VersionsStand
  <2>3. OneVersion(active') /\ OneVersion(backup')
    BY <1>2, <2>1, <2>2, FewerVersions
  <2> QED BY <1>3, <2>1, <2>2, <2>3, ElsewhereVersions
<1>6. CASE RestoreRename(t)
  <2>1. /\ \/ active' = backup /\ backup' = {}
           \/ UNCHANGED <<active, backup>>
        /\ UNCHANGED snapshot
        /\ pc'[t] \in {"restoreChmod", "commitRollbackFailed"}
    BY <1>6, GotoFacts DEF RestoreRename, vold
  <2>2. OneVersion({})
    BY DEF OneVersion
  <2>3. OneVersion(active') /\ OneVersion(backup')
    BY <1>2, <2>1, <2>2
  <2> QED BY <1>3, <2>1, <2>3, ElsewhereVersions
<1>7. CASE RestoreDelete(t) \/ Unstage(t) \/ UnmountDanglingMounts(t)
  <2>1. /\ active' \subseteq active /\ UNCHANGED <<backup, snapshot>>
        /\ pc'[t] # "backupLink"
    BY <1>7, GotoFacts, LeaveFacts
       DEF RestoreDelete, Unstage, UnmountDanglingMounts, Finish, outside, vold
  <2>2. OneVersion(active') /\ OneVersion(backup')
    BY <1>2, <2>1, FewerVersions
  <2> QED BY <1>3, <2>1, <2>2, ElsewhereVersions
<1>8. CASE \/ ClearSessions(t) \/ ProtectActivePackages(t)
           \/ BackupActivePackages(t) \/ VerifySession(t) \/ AbortDelete(t)
           \/ RestoreCheck(t) \/ RestoreChmod(t)
           \/ OnStart(t) \/ RollbackStagedSessionIfAny(t) \/ CollectApexKeys(t)
           \/ BootResumeRollback(t) \/ ScanData(t) \/ ActivateData(t)
           \/ ScanBuiltin(t) \/ ActivateBuiltin(t)
  <2>1. Quiescent
    BY <1>8 DEF ClearSessions, ProtectActivePackages, BackupActivePackages,
         VerifySession, AbortDelete, RestoreCheck, RestoreChmod, OnStart,
         RollbackStagedSessionIfAny, CollectApexKeys, BootResumeRollback,
         ScanData, ActivateData, ScanBuiltin, ActivateBuiltin, outside, vold,
         disk
  <2>2. pc'[t] # "backupLink"
    <3>1. CASE \/ ClearSessions(t) \/ ProtectActivePackages(t)
               \/ BackupActivePackages(t) \/ VerifySession(t)
               \/ AbortDelete(t) \/ RestoreCheck(t) \/ RestoreChmod(t)
      <4>1. \/ Finish(t) \/ UNCHANGED pc
            \/ \E label \in {"protect", "verify", "backup", "backupClean",
                             "commitVerified", "restoreDelete",
                             "commitRolledBack", "commitRollbackFailed"} :
                 Goto(t, label)
        <5>1. CASE ClearSessions(t)
          BY <5>1 DEF ClearSessions
        <5>2. CASE ProtectActivePackages(t) \/ VerifySession(t)
          BY <5>2 DEF ProtectActivePackages, VerifySession
        <5>3. CASE BackupActivePackages(t)
          BY <5>3 DEF BackupActivePackages
        <5>4. CASE AbortDelete(t) \/ RestoreCheck(t) \/ RestoreChmod(t)
          BY <5>4 DEF AbortDelete, RestoreCheck, RestoreChmod
        <5> QED BY <3>1, <5>1, <5>2, <5>3, <5>4
      <4>2. pc[t] # "backupLink"
        BY <3>1 DEF ClearSessions, ProtectActivePackages,
             BackupActivePackages, VerifySession, AbortDelete, RestoreCheck,
             RestoreChmod
      <4> QED BY <4>1, <4>2, GotoFacts, LeaveFacts DEF Finish
    <3>2. ASSUME NEW s \in SessionIds, NEW c,
                 RollbackSession(t, s, c) \/ ResumeRollback(t, s, c)
          PROVE  pc'[t] # "backupLink"
      BY <3>2, EnterFacts DEF RollbackSession, ResumeRollback
    <3>3. CASE \/ OnStart(t) \/ RollbackStagedSessionIfAny(t)
               \/ CollectApexKeys(t) \/ BootResumeRollback(t)
      BY <3>2, <3>3, GotoFacts, LeaveFacts, EnterFacts
         DEF OnStart, RollbackStagedSessionIfAny, CollectApexKeys,
             BootResumeRollback, Finish
    <3>4. CASE \/ ScanData(t) \/ ActivateData(t) \/ ScanBuiltin(t)
               \/ ActivateBuiltin(t)
      <4>1. \/ \E s \in SessionIds : RollbackSession(t, s, "bootActivate")
            \/ pc'[t] \in {"activateData", "scanBuiltin", "activateBuiltin",
                           "idle"}
        BY <3>4, GotoFacts, LeaveFacts
           DEF ScanData, ActivateData, ActivateOne, ActivationFailed,
               ScanBuiltin, ActivateBuiltin, Finish
      <4> QED BY <3>2, <4>1
    <3> QED BY <1>8, <3>1, <3>3, <3>4
  <2> QED BY <1>2, <1>3, <2>1, <2>2, ElsewhereVersions
<1>9. CASE \/ CommitVerified(t) \/ CommitStaged(t) \/ CommitSuccess(t)
           \/ CommitStagedRollback(t) \/ CommitRollback(t)
           \/ CommitRollbackFailed(t) \/ CommitRolledBack(t)
           \/ CommitActivated(t) \/ CommitActivationFailed(t)
  <2>1. CommitFrame
    BY <1>9 DEF CommitVerified, CommitStaged, CommitSuccess,
                CommitStagedRollback, CommitRollback, CommitRollbackFailed,
                CommitRolledBack, CommitActivated, CommitActivationFailed
  <2>2. ASSUME NEW ok, Return(t, ok) PROVE pc'[t] # "backupLink"
    BY <2>2, LeaveFacts DEF Return, ReturnLabel
  <2>3. Finish(t) \/ Goto(t, "restoreCheck") \/ NextStagedSession(t)
          => pc'[t] # "backupLink"
    BY GotoFacts, LeaveFacts DEF Finish, NextStagedSession
  <2>4. pc'[t] # "backupLink"
    BY <1>9, <2>2, <2>3
       DEF CommitVerified, CommitStaged, CommitSuccess, CommitStagedRollback,
           CommitRollback, CommitRollbackFailed, CommitRolledBack,
           CommitActivated, CommitActivationFailed
  <2>5. Quiescent
    BY <2>1 DEF CommitFrame
  <2> QED BY <1>2, <1>3, <2>4, <2>5, ElsewhereVersions
<1>10. ~OpenStateFile(t)
  BY DEF OpenStateFile, Sequential
<1> QED BY <1>4, <1>5, <1>6, <1>7, <1>8, <1>9, <1>10 DEF Step

\* stagePackages.
LEMMA StageVersions ==
  ASSUME OrderlyDevice, TypeOK, NEW t \in Threads, StageInv(t),
         VersionsStand(t),
         StageVerify(t) \/ StageLink(t) \/ StageUndo(t) \/ StageRemove(t)
  PROVE  VersionsStand(t)'
<1>0. UNCHANGED <<backup, snapshot>> /\ OneVersion(backup)
  BY DEF StageVerify, StageLink, StageUndo, StageRemove, outside, vold,
         VersionsStand
<1>1. ASSUME OneVersion(active'), StageSucceeds(t) \/ StageFails(t)
      PROVE  VersionsStand(t)'
  <2>1. pc'[t] \in {"idle", "commitActivated", "commitActivationFailed"}
    BY <1>1, GotoFacts, LeaveFacts DEF StageSucceeds, StageFails, Finish
  <2> QED BY <1>0, <1>1, <2>1, ElsewhereVersions DEF AlteringLabels
<1>2. CASE StageVerify(t)
  <2> DEFINE paths == FilterUnnecessaryStagingPaths(frame[t].todo)
  <2>1. /\ UNCHANGED active /\ OneVersion(active) /\ OneVersion(frame[t].todo)
        /\ frame[t].staged = {}
    BY <1>2 DEF StageVerify, VersionsStand, StageInv, StageStands
  <2>2. OneVersion(paths)
    BY <2>1 DEF OneVersion, FilterUnnecessaryStagingPaths
  <2>3. CASE /\ Goto(t, "stageLink")
             /\ frame' = [frame EXCEPT ![t].todo = paths, ![t].base = active]
    <3> HIDE DEF paths
    <3>1. pc'[t] = "stageLink"
      BY <2>3, GotoFacts
    <3>2. /\ frame'[t].todo = paths /\ frame'[t].base = active
          /\ frame'[t].staged = frame[t].staged
      BY <2>3 DEF TypeOK, ThreadsType, Frames
    <3>3. frame'[t].todo \cup frame'[t].staged = paths
      BY <2>1, <3>2
    <3> QED BY <1>0, <2>1, <2>2, <3>1, <3>2, <3>3 DEF VersionsStand
  <2> QED BY <1>1, <1>2, <2>1, <2>3 DEF StageVerify
<1>3. CASE StageLink(t)
  <2>0. /\ pc[t] = "stageLink" /\ active = frame[t].base \cup frame[t].staged
        /\ OneVersion(frame[t].base)
        /\ OneVersion(frame[t].todo \cup frame[t].staged)
    BY <1>3 DEF StageLink, StageInv, StageStands, VersionsStand
  <2>1. ASSUME NEW a \in frame[t].todo \ active, UNCHANGED pc,
               frame' = [frame EXCEPT ![t].todo = @ \ {a},
                                      ![t].staged = @ \cup {a}]
        PROVE  VersionsStand(t)'
    <3>1. /\ frame'[t].todo = frame[t].todo \ {a}
          /\ frame'[t].staged = frame[t].staged \cup {a}
          /\ frame'[t].base = frame[t].base
      BY <2>1, TodoAndStaged
    <3>2. frame'[t].todo \cup frame'[t].staged
            = frame[t].todo \cup frame[t].staged
      BY <3>1
    <3> QED BY <1>0, <2>0, <2>1, <3>1, <3>2 DEF VersionsStand
  <2>2. CASE /\ frame[t].todo = {} /\ Goto(t, "stageRemove")
             /\ frame' = [frame EXCEPT ![t].todo =
                                           PreviouslyActive(frame[t].staged)]
             /\ UNCHANGED active
    <3>1. pc'[t] = "stageRemove"
      BY <2>2, GotoFacts
    <3>2. /\ frame'[t].todo = PreviouslyActive(frame[t].staged)
          /\ frame'[t].staged = frame[t].staged
      BY <2>2, TodoOnly
    <3>3. OneVersion(frame[t].staged)
      BY <2>0, <2>2, FewerVersions
    <3>4. OneVersion(active \ PreviouslyActive(frame[t].staged))
      BY <2>0, <3>3 DEF OneVersion, PreviouslyActive
    <3>5. frame'[t].todo = {a \in active' \ frame'[t].staged :
                              \E f \in frame'[t].staged : f.name = a.name}
      BY <2>2, <3>2 DEF PreviouslyActive
    <3>6. OneVersion(active' \ frame'[t].todo)
      BY <2>2, <3>2, <3>4
    <3> QED BY <1>0, <3>1, <3>5, <3>6 DEF VersionsStand, PreviouslyActive
  <2>3. CASE Goto(t, "stageUndo") /\ UNCHANGED frame
    BY <1>0, <2>0, <2>3, GotoFacts DEF VersionsStand
  <2> QED BY <1>3, <2>1, <2>2, <2>3 DEF StageLink
<1>4. CASE StageUndo(t)
  <2>0. /\ pc[t] = "stageUndo" /\ active = frame[t].base \cup frame[t].staged
        /\ OneVersion(frame[t].base)
    BY <1>4 DEF StageUndo, StageInv, StageStands, VersionsStand, OrderlyDevice
  <2>1. ASSUME NEW a, UNCHANGED pc,
               frame' = [frame EXCEPT ![t].staged = @ \ {a}]
        PROVE  VersionsStand(t)'
    <3>1. frame'[t].base = frame[t].base
      BY <2>1, StagedOnly
    <3> QED BY <1>0, <2>0, <2>1, <3>1 DEF VersionsStand
  <2>2. CASE frame[t].staged = {} /\ StageFails(t) /\ UNCHANGED active
    BY <1>1, <2>0, <2>2
  <2> QED BY <1>4, <2>1, <2>2 DEF StageUndo
<1>5. CASE StageRemove(t)
  <2>0. /\ pc[t] = "stageRemove"
        /\ frame[t].todo = PreviouslyActive(frame[t].staged)
        /\ OneVersion(active \ frame[t].todo)
    BY <1>5 DEF StageRemove, VersionsStand
  <2>1. ASSUME NEW a \in frame[t].todo \cap active, active' = active \ {a},
               UNCHANGED pc, frame' = [frame EXCEPT ![t].todo = @ \ {a}]
        PROVE  VersionsStand(t)'
    <3>1. /\ frame'[t].todo = frame[t].todo \ {a}
          /\ frame'[t].staged = frame[t].staged
      BY <2>1, TodoOnly
    <3>2. active' \ frame'[t].todo = active \ frame[t].todo
      BY <2>1, <3>1
    <3>3. frame'[t].todo = {b \in active' \ frame'[t].staged :
                              \E f \in frame'[t].staged : f.name = b.name}
      BY <2>0, <2>1, <3>1 DEF PreviouslyActive
    <3>4. OneVersion(active' \ frame'[t].todo) /\ pc'[t] = "stageRemove"
      BY <2>0, <2>1, <3>2
    <3> QED BY <1>0, <3>3, <3>4 DEF VersionsStand, PreviouslyActive
  <2>2. CASE frame[t].todo = {} /\ StageSucceeds(t) /\ UNCHANGED active
    <3>1. OneVersion(active')
      BY <2>0, <2>2, active \ {} = active
    <3> QED BY <1>1, <2>2, <3>1
  <2>3. frame[t].todo \subseteq active
    BY <2>0 DEF PreviouslyActive
  <2> QED BY <1>5, <2>1, <2>2, <2>3 DEF StageRemove, OrderlyDevice
<1> QED BY <1>2, <1>3, <1>4, <1>5

\* Requests, and onStart before it stages a session.
LEMMA StartVersions ==
  ASSUME OrderlyDevice, TypeOK, NEW t \in Threads, VersionsStand(t),
         Request(t) \/ ScanStagedSession(t)
  PROVE  VersionsStand(t)'
<1>0. /\ UNCHANGED <<active, backup, snapshot>>
      /\ pc[t] \in {"idle", "stageScan"}
  BY DEF Request, SubmitStagedSession, MarkStagedSessionReady,
         MarkStagedSessionSuccessful, StagePackages, RollbackActiveSession,
         AbortActiveSession, ResumeRollbackIfNeeded, UnstagePackages,
         UpdatableCrashing, BootCompleted, ScanStagedSession, Serving,
         outside, vold, disk
<1>1. OneVersion(active') /\ OneVersion(backup')
  BY <1>0 DEF VersionsStand
<1>2. ASSUME pc'[t] = "stageVerify", OneVersion(frame'[t].todo)
      PROVE  VersionsStand(t)'
  BY <1>0, <1>1, <1>2 DEF VersionsStand
<1>3. ASSUME NEW s \in SessionIds, StagePackages(t, Staging[s])
      PROVE  VersionsStand(t)'
  <2>1. pc'[t] = "stageVerify" /\ frame'[t].todo = Staging[s]
    BY <1>3, GotoFacts, TodoOnly DEF StagePackages
  <2> QED BY <1>2, <2>1 DEF OrderlyDevice, OneVersionEach
<1>4. CASE Request(t) /\ \A s \in SessionIds : ~StagePackages(t, Staging[s])
  <2>1. pc'[t] \notin ScanLabels \cup {"backupLink"}
    BY <1>4, RequestAway
  <2> QED BY <1>0, <1>1, <2>1, ElsewhereVersions DEF AlteringLabels, ScanLabels
<1>5. CASE ScanStagedSession(t)
  <2>1. ASSUME NEW s \in frame[t].listed, Goto(t, "stageVerify"),
               frame' = [frame EXCEPT ![t].sid = s, ![t].caller = "bootStage",
                                      ![t].listed = @ \ {s},
                                      ![t].todo = Staging[s]]
        PROVE  VersionsStand(t)'
    <3>1. s \in SessionIds
      BY FrameFields DEF TypeOK, ThreadsType
    <3>2. frame'[t].todo = Staging[s]
      BY <2>1 DEF TypeOK, ThreadsType, Frames
    <3> QED BY <1>2, <2>1, <3>1, <3>2, GotoFacts DEF OrderlyDevice, OneVersionEach
  <2>2. CASE Goto(t, "commitActivationFailed") \/ Leave(t, "resume")
    <3>1. pc'[t] \in {"commitActivationFailed", "resume"}
      BY <2>2, GotoFacts, LeaveFacts
    <3> QED BY <1>0, <1>1, <3>1, ElsewhereVersions DEF AlteringLabels
  <2> QED BY <1>5, <2>1, <2>2 DEF ScanStagedSession
<1> QED BY <1>3, <1>4, <1>5

LEMMA VersionsStep ==
  ASSUME Sequential, OrderlyDevice, TypeOK, \A t \in Threads : StageInv(t),
         \A t \in Threads : VersionsStand(t), [Next]_vars
  PROVE  \A t \in Threads : VersionsStand(t)'
<1>1. ASSUME UNCHANGED vars, NEW t \in Threads PROVE VersionsStand(t)'
  BY <1>1 DEF vars, disk, vold, VersionsStand, PreviouslyActive
<1>2. ASSUME NEW t \in Threads, Request(t) \/ Step(t)
      PROVE  VersionsStand(t)'
  BY <1>2, StartVersions, StageVersions, OtherFiles
<1>3. ASSUME VoldCommitChanges, NEW t \in Threads PROVE VersionsStand(t)'
  <2>1. OneVersion({})
    BY DEF OneVersion
  <2> QED BY <1>3, <2>1 DEF VoldCommitChanges, NoDisk, disk, VersionsStand,
                            PreviouslyActive
<1>4. ASSUME RestartProcess \/ AbortProcess \/ RebootDevice, NEW t \in Threads
      PROVE  VersionsStand(t)'
  <2>1. pc'[t] \in {"onStart", "idle"}
    BY <1>4 DEF RestartProcess, AbortProcess, ProcessDies, RebootDevice,
                StartProcess
  <2>2. pc[t] \in {"idle", "activateData", "activateBuiltin"}
    <3>1. CASE AbortProcess
      BY <3>1, OneThread DEF AbortProcess
    <3>2. CASE RestartProcess \/ RebootDevice
      BY <3>2 DEF RestartProcess, RebootDevice, MayCrash, OrderlyDevice
    <3> QED BY <1>4, <3>1, <3>2
  <2>3. OneVersion(active) /\ OneVersion(backup)
    BY <2>2 DEF VersionsStand
  <2>4. CASE RestartProcess \/ AbortProcess
    BY <2>1, <2>3, <2>4, ElsewhereVersions
       DEF RestartProcess, AbortProcess, ProcessDies, disk, vold, AlteringLabels
  <2>5. CASE RebootDevice
    <3>1. OneVersion({})
      BY DEF OneVersion
    <3>2. /\ OneVersion(active') /\ OneVersion(backup')
          /\ OneVersion(snapshot'.active) /\ OneVersion(snapshot'.backup)
      <4>1. CASE UNCHANGED <<disk, vold>>
        BY <2>3, <4>1 DEF disk, vold, VersionsStand
      <4>2. CASE snapshot' = CurrentDisk /\ UNCHANGED disk
        BY <2>3, <4>2 DEF CurrentDisk, disk
      <4>3. CASE /\ active' = snapshot.active /\ backup' = snapshot.backup
                 /\ snapshot' \in {snapshot, NoDisk}
        <5>1. OneVersion(active') /\ OneVersion(backup')
          BY <4>3 DEF VersionsStand
        <5>2. CASE snapshot' = snapshot
          BY <5>1, <5>2 DEF VersionsStand
        <5>3. CASE snapshot' = NoDisk
          BY <3>1, <5>1, <5>3 DEF NoDisk
        <5> QED BY <4>3, <5>2, <5>3
      <4> QED BY <2>5, <4>1, <4>2, <4>3 DEF RebootDevice
    <3> QED BY <2>1, <3>2 DEF VersionsStand
  <2> QED BY <1>4, <2>4, <2>5
<1> QED BY <1>1, <1>2, <1>3, <1>4, OneThread DEF Next

\* When a session is recorded as activated, no other version of one of its
\* packages is left beside it, on a device that is not restarted in the middle
\* of a handler and can delete files.
THEOREM ActivatedPackagesAreNewest ==
  ASSUME Sequential, OrderlyDevice
  PROVE  Spec => ActivatedIsNewest
<1> DEFINE Inv == \A t \in Threads : StageInv(t)
           Versions == \A t \in Threads : VersionsStand(t)
           Newest == \A s \in SessionIds : Activates(s) =>
             \A a \in Staging[s] \cap active, b \in active :
               b.name = a.name => b.version <= a.version
<1>1. Init => Versions
  BY DEF Init, VersionsStand, OrderlyDevice, OneVersion, NoDisk
<1>2. TypeOK /\ Inv /\ Versions /\ [Next]_vars => Versions'
  BY VersionsStep
<1>3. TypeOK /\ Versions => Newest
  <2> SUFFICES ASSUME TypeOK, Versions, NEW s \in SessionIds, Activates(s),
                      NEW a \in active, NEW b \in active, b.name = a.name
               PROVE  b.version <= a.version
    OBVIOUS
  <2>1. OneVersion(active)
    BY DEF Activates, VersionsStand
  <2>2. a = b
    BY <2>1 DEF OneVersion
  <2>3. a.version \in Nat
    BY ApexesAssumption DEF TypeOK, DiskType
  <2> QED BY <2>2, <2>3
<1> HIDE DEF Inv, Versions
<1>4. Spec => []Inv
  BY StageInvariant DEF Inv, OrderlyDevice
<1> QED BY <1>1, <1>2, <1>3, <1>4, TypeCorrect, PTL DEF Spec, ActivatedIsNewest

-----------------------------------------------------------------------------
(* A session recorded as rolled back has left nothing behind.              *)

\* Nothing is staged but by onStart, which can read the keys and write the
\* state files.
UndoableDevice ==
  WithoutCheckpoints /\ ~Debuggable /\ ~Fault("commit") /\ ~Fault("keys")

BootLabels == {"onStart", "collectKeys"} \cup ScanLabels

UndoneLabels ==
  BootLabels \cup VoldLabels \cup
  {"backup", "backupClean", "backupLink", "verify", "commitVerified",
   "commitStaged", "commitStagedRollback", "voldRollback"}

\* Past the scan for staged sessions, onStart leaves none.
NoneStaged == phase = "booting" => \A s \in SessionIds : sessions[s] # "STAGED"

UndoneInv(t) == NothingNewOnRecord /\ UndoneStands(t)

LEMMA ElsewhereUndone ==
  ASSUME NEW t \in Threads, pc'[t] \notin UndoneLabels, NoneStaged'
  PROVE  UndoneStands(t)'
BY DEF UndoneStands, UndoneLabels, BootLabels, VoldLabels, ScanLabels,
       NoneStaged

LEMMA AwayFromBoot ==
  ASSUME NEW t \in Threads, UndoneStands(t), pc[t] \notin BootLabels
  PROVE  NoneStaged
BY DEF UndoneStands, BootLabels, NoneStaged

\* Steps that add nothing to the files, nor to what may be rolled back.
LEMMA NothingNewKept ==
  ASSUME NothingNewOnRecord, active' \subseteq active, UNCHANGED before,
         accepted => accepted', backupDir => backupDir',
         phase' # "booting" => phase # "booting" \/ NoneStaged,
         \A s \in SessionIds :
           \/ sessions'[s] = sessions[s]
           \/ sessions'[s] \notin {"VERIFIED", "STAGED", "ROLLBACK_IN_PROGRESS"}
           \/ sessions[s] = "VERIFIED" /\ sessions'[s] = "STAGED"
  PROVE  NothingNewOnRecord'
<1>1. NothingNew => NothingNew'
  BY DEF NothingNew
<1> QED BY <1>1 DEF NothingNewOnRecord, NoneStaged

LEMMA RollbackUndone ==
  ASSUME TypeOK, NoCheckpoints, NEW t \in Threads, NEW s \in SessionIds,
         NEW c \in {"service", "watch", "bootResume", "bootActivate"},
         UNCHANGED <<sessions, backupDir>>, NoneStaged',
         RollbackSession(t, s, c) \/ ResumeRollback(t, s, c)
  PROVE  UndoneStands(t)'
<1>1. frame'[t].sid = s
  BY EnterFacts DEF RollbackSession, ResumeRollback
<1>2. frame'[t].caller = c
  <2>1. frame' = [frame EXCEPT ![t].sid = s, ![t].caller = c]
    BY DEF RollbackSession, ResumeRollback, Enter
  <2> QED BY <2>1 DEF TypeOK, ThreadsType, Frames
<1>3. \/ pc'[t] = "commitStagedRollback" /\ sessions[s] = "STAGED"
      \/ pc'[t] \in {"commitRollback", "restoreCheck"}
      \/ pc'[t] = "commitRolledBack" /\ ~backupDir
  BY EnterFacts DEF RollbackSession, ResumeRollback, NoCheckpoints
<1> QED BY <1>1, <1>2, <1>3 DEF UndoneStands, NoneStaged, ScanLabels

LEMMA RequestUndone ==
  ASSUME UndoableDevice, TypeOK, NoCheckpoints, NEW t \in Threads,
         UndoneInv(t), Request(t)
  PROVE  UndoneInv(t)'
<1>0. /\ UNCHANGED <<sessions, active, backupDir, before>>
      /\ accepted => accepted'
      /\ phase # "booting" /\ phase' # "booting"
  <2>1. CASE UpdatableCrashing(t)
    BY <2>1 DEF UpdatableCrashing, disk, history
  <2>2. ASSUME NEW s \in SessionIds, MarkStagedSessionSuccessful(t, s)
        PROVE  /\ UNCHANGED <<sessions, active, backupDir, before>>
               /\ accepted => accepted'
               /\ phase # "booting" /\ phase' # "booting"
    BY <2>2 DEF MarkStagedSessionSuccessful, Serving, disk, process
  <2>3. CASE BootCompleted(t)
    BY <2>3 DEF BootCompleted, disk, history
  <2>4. CASE \/ \E s \in SessionIds : \/ SubmitStagedSession(t, s)
                                      \/ MarkStagedSessionReady(t, s)
                                      \/ StagePackages(t, Staging[s])
             \/ RollbackActiveSession(t) \/ AbortActiveSession(t)
             \/ ResumeRollbackIfNeeded(t)
             \/ \E paths \in SUBSET active : UnstagePackages(t, paths)
    <3>1. UNCHANGED <<disk, outside>> /\ Serving(t)
      BY <2>4 DEF SubmitStagedSession, MarkStagedSessionReady, StagePackages,
           RollbackActiveSession, AbortActiveSession, ResumeRollbackIfNeeded,
           UnstagePackages
    <3> QED BY <3>1 DEF Serving, disk, outside, process, history
  <2> QED BY <2>1, <2>2, <2>3, <2>4 DEF Request
<1>1. NothingNewOnRecord'
  BY <1>0, NothingNewKept DEF UndoneInv
<1>2. NoneStaged'
  BY <1>0 DEF NoneStaged
<1>3. CASE \/ BootCompleted(t)
           \/ \E paths \in SUBSET active : UnstagePackages(t, paths)
           \/ \E s \in SessionIds : \/ SubmitStagedSession(t, s)
                                    \/ MarkStagedSessionReady(t, s)
                                    \/ MarkStagedSessionSuccessful(t, s)
  <2>1. pc'[t] \in {"dangling", "unstage", "clear", "commitStaged",
                    "successClean"}
    BY <1>3, GotoFacts, EnterFacts
       DEF BootCompleted, UnstagePackages, SubmitStagedSession,
           MarkStagedSessionReady, MarkStagedSessionSuccessful
  <2> QED BY <1>0, <1>1, <2>1 DEF UndoneInv, UndoneStands, ScanLabels
<1>4. CASE \/ RollbackActiveSession(t) \/ ResumeRollbackIfNeeded(t)
           \/ AbortActiveSession(t) \/ UpdatableCrashing(t)
  <2>1. \/ \E s \in SessionIds : \/ RollbackSession(t, s, "service")
                                 \/ RollbackSession(t, s, "watch")
                                 \/ ResumeRollback(t, s, "service")
        \/ \E s \in SessionIds : Enter(t, "abortDelete", s, "service")
        \/ pc[t] = "idle" /\ UNCHANGED pc
    BY <1>4 DEF RollbackActiveSession, ResumeRollbackIfNeeded,
                AbortActiveSession, UpdatableCrashing
  <2>2. pc'[t] \in {"idle", "abortDelete"} => UndoneStands(t)'
    BY <1>2, ElsewhereUndone
       DEF UndoneLabels, BootLabels, VoldLabels, ScanLabels
  <2> QED BY <1>0, <1>1, <1>2, <2>1, <2>2, RollbackUndone, EnterFacts
          DEF UndoneInv
<1>5. ASSUME NEW s \in SessionIds PROVE ~StagePackages(t, Staging[s])
  BY DEF StagePackages, UndoableDevice
<1> QED BY <1>3, <1>4, <1>5 DEF Request

\* The handlers that neither commit nor stage.
LEMMA FilesUndone ==
  ASSUME UndoableDevice, TypeOK, NoTornFiles, NoCheckpoints,
         RollbackResumable, NEW t \in Threads, ReadsHold(t), BackupStands(t),
         UndoneInv(t),
         \/ ClearSessions(t) \/ ProtectActivePackages(t)
         \/ BackupActivePackages(t)
         \/ DeleteBackup(t, "backupClean", "backupLink")
         \/ LinkBackup(t) \/ UndoBackup(t) \/ VerifySession(t)
         \/ DeleteBackup(t, "successClean", "commitSuccess")
         \/ AbortDelete(t) \/ Unstage(t) \/ UnmountDanglingMounts(t)
         \/ RestoreCheck(t) \/ RestoreDelete(t) \/ RestoreRename(t)
         \/ RestoreChmod(t)
  PROVE  UndoneInv(t)'
<1>0. NothingNewOnRecord /\ UndoneStands(t)
  BY DEF UndoneInv
<1>1. UNCHANGED phase /\ NoneStaged
  <2>1. pc[t] \notin BootLabels
    BY DEF ClearSessions, ProtectActivePackages, BackupActivePackages,
           DeleteBackup, LinkBackup, UndoBackup, VerifySession, AbortDelete,
           Unstage, UnmountDanglingMounts, RestoreCheck, RestoreDelete,
           RestoreRename, RestoreChmod, BootLabels, ScanLabels
  <2>2. UNCHANGED process
    BY DEF ClearSessions, ProtectActivePackages, BackupActivePackages,
           DeleteBackup, LinkBackup, UndoBackup, VerifySession, AbortDelete,
           Unstage, UnmountDanglingMounts, RestoreCheck, RestoreDelete,
           RestoreRename, RestoreChmod, outside
  <2> QED BY <1>0, <2>1, <2>2, AwayFromBoot DEF process
<1>2. ASSUME NoneStaged', Finish(t) PROVE UndoneStands(t)'
  BY <1>2, LeaveFacts, ElsewhereUndone
     DEF Finish, UndoneLabels, BootLabels, VoldLabels, ScanLabels
<1>3. CASE ClearSessions(t) \/ AbortDelete(t)
  <2>1. \A s \in SessionIds : sessions'[s] \in {sessions[s], "NONE"}
    BY <1>3 DEF ClearSessions, AbortDelete, DeleteSession, NoTornFiles, TypeOK,
                DiskType
  <2>2. UNCHANGED <<active, backupDir, before, accepted>>
    BY <1>3 DEF ClearSessions, AbortDelete, outside, history
  <2>3. NoneStaged'
    BY <1>1, <2>1 DEF NoneStaged
  <2>4. pc'[t] \in {"clear", "protect", "idle"}
    BY <1>3, GotoFacts, LeaveFacts DEF ClearSessions, AbortDelete, Finish
  <2>5. UndoneStands(t)'
    BY <2>3, <2>4, ElsewhereUndone
       DEF UndoneLabels, BootLabels, VoldLabels, ScanLabels
  <2> QED BY <1>0, <1>1, <2>1, <2>2, <2>5, NothingNewKept DEF UndoneInv
<1>4. CASE ProtectActivePackages(t)
  <2>1. /\ pc'[t] = "backup" /\ before' = active
        /\ UNCHANGED <<sessions, active>>
    BY <1>4, GotoFacts DEF ProtectActivePackages, NoCheckpoints, disk
  <2>2. NoneStaged' /\ NothingNew'
    BY <1>1, <2>1 DEF NoneStaged, NothingNew
  <2> QED BY <2>1, <2>2 DEF UndoneInv, UndoneStands, NothingNewOnRecord,
                            NoneStaged, ScanLabels
<1>5. CASE \/ BackupActivePackages(t)
           \/ DeleteBackup(t, "backupClean", "backupLink")
           \/ LinkBackup(t) \/ UndoBackup(t) \/ VerifySession(t)
           \/ DeleteBackup(t, "successClean", "commitSuccess")
  <2>1. /\ UNCHANGED <<sessions, active, before, accepted>>
        /\ backupDir => backupDir'
    <3>1. CASE BackupActivePackages(t)
      <4>1. backupDir' = TRUE \/ backupDir' = backupDir
        BY <3>1 DEF BackupActivePackages
      <4>2. UNCHANGED <<sessions, active, before, accepted>>
        BY <3>1 DEF BackupActivePackages, outside, history
      <4>3. backupDir => backupDir'
        BY <4>1, Zenon
      <4> QED BY <4>2, <4>3
    <3>2. CASE ~BackupActivePackages(t)
      BY <1>5, <3>2 DEF DeleteBackup, LinkBackup, UndoBackup, VerifySession,
                        outside, history, disk
    <3> QED BY <3>1, <3>2
  <2>2. NoneStaged'
    BY <1>1, <2>1 DEF NoneStaged
  <2>3. NothingNewOnRecord'
    BY <1>0, <1>1, <2>1, NothingNewKept
  <2>4. \/ Finish(t)
        \/ pc'[t] \in {"backupUndo", "successClean", "commitSuccess"}
        \/ /\ pc[t] \in {"backup", "backupClean", "backupLink", "verify"}
           /\ pc'[t] \in {"backupClean", "backupLink", "verify",
                          "commitVerified"}
    BY <1>5, GotoFacts DEF BackupActivePackages, DeleteBackup, LinkBackup,
                           UndoBackup, VerifySession
  <2>5. CASE pc'[t] \in {"backupUndo", "successClean", "commitSuccess"}
    BY <2>2, <2>3, <2>5, ElsewhereUndone
       DEF UndoneInv, UndoneLabels, BootLabels, VoldLabels, ScanLabels
  <2>6. CASE /\ pc[t] \in {"backup", "backupClean", "backupLink", "verify"}
             /\ pc'[t] \in {"backupClean", "backupLink", "verify",
                            "commitVerified"}
    BY <1>0, <2>1, <2>2, <2>3, <2>6
       DEF UndoneInv, UndoneStands, NoneStaged, ScanLabels
  <2> QED BY <1>2, <2>2, <2>3, <2>4, <2>5, <2>6 DEF UndoneInv
<1>6. CASE Unstage(t) \/ UnmountDanglingMounts(t)
  <2>1. /\ active' \subseteq active
        /\ UNCHANGED <<sessions, backupDir, before, accepted>>
        /\ pc[t] \in {"unstage", "dangling"}
    BY <1>6 DEF Unstage, UnmountDanglingMounts, outside, history
  <2>2. NoneStaged'
    BY <1>1, <2>1 DEF NoneStaged
  <2>3. pc'[t] \in {"idle", "unstage", "dangling"}
    BY <1>6, GotoFacts, LeaveFacts DEF Unstage, UnmountDanglingMounts, Finish
  <2>4. UndoneStands(t)'
    BY <2>2, <2>3, ElsewhereUndone
       DEF UndoneLabels, BootLabels, VoldLabels, ScanLabels
  <2> QED BY <1>0, <1>1, <2>1, <2>4, NothingNewKept DEF UndoneInv
<1>7. CASE RestoreCheck(t) \/ RestoreDelete(t) \/ RestoreChmod(t)
  <2>1. /\ active' \subseteq active
        /\ UNCHANGED <<sessions, backupDir, before, accepted, frame>>
    BY <1>7 DEF RestoreCheck, RestoreDelete, RestoreChmod, outside, disk,
                history
  <2>2. NoneStaged'
    BY <1>1, <2>1 DEF NoneStaged
  <2>3. /\ pc[t] \in {"restoreCheck", "restoreDelete", "restoreChmod"}
        /\ \/ pc'[t] \in {"restoreDelete", "restoreRename",
                          "commitRollbackFailed"}
           \/ pc[t] = "restoreChmod" /\ pc'[t] = "commitRolledBack"
    BY <1>7, GotoFacts DEF RestoreCheck, RestoreDelete, RestoreChmod
  <2>4. UndoneStands(t)'
    BY <1>0, <2>1, <2>2, <2>3 DEF UndoneStands, NoneStaged, ScanLabels
  <2> QED BY <1>0, <1>1, <2>1, <2>4, NothingNewKept DEF UndoneInv
<1>8. CASE RestoreRename(t)
  <2>0. /\ pc[t] = "restoreRename"
        /\ UNCHANGED <<sessions, before, accepted, frame>>
    BY <1>8 DEF RestoreRename
  <2>1. NoneStaged'
    BY <1>1, <2>0 DEF NoneStaged
  <2>2. CASE pc'[t] = "commitRollbackFailed" /\ UNCHANGED <<active, backupDir>>
    <3>1. UndoneStands(t)'
      BY <1>0, <2>0, <2>1, <2>2 DEF UndoneStands, NoneStaged, ScanLabels
    <3> QED BY <1>0, <1>1, <2>0, <2>2, <3>1, NothingNewKept DEF UndoneInv
  <2>3. CASE /\ backupDir /\ active' = backup /\ ~backupDir'
             /\ pc'[t] = "restoreChmod"
    <3>1. /\ frame[t].sid \in SessionIds
          /\ sessions[frame[t].sid] = "ROLLBACK_IN_PROGRESS"
      BY <2>0 DEF BackupStands, ReadsHold, RecordedStates
    <3>2. NothingNew'
      BY <2>0, <2>3, <3>1 DEF RollbackResumable, NoCheckpoints, NothingNew
    <3>3. UndoneStands(t)'
      BY <1>0, <2>0, <2>1, <2>3, <3>1 DEF UndoneStands, NoneStaged, ScanLabels
    <3> QED BY <3>2, <3>3 DEF UndoneInv, NothingNewOnRecord
  <2> QED BY <1>8, <2>2, <2>3, GotoFacts DEF RestoreRename
<1> QED BY <1>3, <1>4, <1>5, <1>6, <1>7, <1>8

\* A commit writes the record of the session at hand, or nothing.
LEMMA WritesUndone ==
  ASSUME TypeOK, NoneStaged, NothingNewOnRecord, CommitFrame,
         NEW t \in Threads, NEW state,
         state \notin {"VERIFIED", "STAGED", "ROLLBACK_IN_PROGRESS"},
         \/ UNCHANGED sessions
         \/ /\ frame[t].sid \in SessionIds
            /\ sessions' = [sessions EXCEPT ![frame[t].sid] = state]
  PROVE  NoneStaged' /\ NothingNewOnRecord'
<1>1. \A s \in SessionIds :
        sessions'[s] = sessions[s] \/ sessions'[s] = state
  BY DEF TypeOK, DiskType
<1>2. UNCHANGED <<active, backupDir, phase, before, accepted>>
  BY DEF CommitFrame, history
<1>3. NoneStaged'
  BY <1>1, <1>2 DEF NoneStaged
<1> QED BY <1>1, <1>2, <1>3, NothingNewKept

LEMMA CommitUndone ==
  ASSUME UndoableDevice, TypeOK, NoTornFiles, AtMostOneActiveSession,
         NoCheckpoints, BackupIntact, NEW t \in Threads, ReadsHold(t),
         BackupStands(t), UndoneInv(t),
         \/ CommitVerified(t) \/ CommitStaged(t) \/ CommitSuccess(t)
         \/ CommitStagedRollback(t) \/ CommitRollback(t)
         \/ CommitRollbackFailed(t) \/ CommitRolledBack(t)
         \/ CommitActivated(t) \/ CommitActivationFailed(t)
  PROVE  UndoneInv(t)'
<1> DEFINE Written(state) == /\ frame[t].sid \in SessionIds
                             /\ sessions' = [sessions EXCEPT ![frame[t].sid] = state]
<1>0. NothingNewOnRecord /\ UndoneStands(t) /\ Sequential
  BY DEF UndoneInv, UndoableDevice, WithoutCheckpoints
<1>1. CommitFrame /\ UNCHANGED <<active, backupDir, phase, before, accepted>>
  BY DEF CommitVerified, CommitStaged, CommitSuccess, CommitStagedRollback,
         CommitRollback, CommitRollbackFailed, CommitRolledBack,
         CommitActivated, CommitActivationFailed, CommitFrame, history
<1>2. ASSUME NoneStaged', Finish(t) PROVE UndoneStands(t)'
  BY <1>2, LeaveFacts, ElsewhereUndone
     DEF Finish, UndoneLabels, BootLabels, VoldLabels, ScanLabels
<1>3. ASSUME NoneStaged', NEW ok, Return(t, ok), frame[t].caller # "bootVold"
      PROVE  UndoneStands(t)'
  BY <1>3, LeaveFacts, ElsewhereUndone
     DEF Return, ReturnLabel, UndoneLabels, BootLabels, VoldLabels, ScanLabels
<1>4. CASE CommitVerified(t)
  <2>1. pc[t] = "commitVerified" /\ (UNCHANGED sessions \/ Written("VERIFIED"))
    BY <1>0, <1>1, <1>4, CommitFacts DEF CommitVerified, States
  <2>2. \A s \in SessionIds : sessions'[s] = "STAGED" => sessions[s] = "STAGED"
    BY <2>1 DEF TypeOK, DiskType
  <2>3. NoneStaged
    BY <1>0, <2>1, AwayFromBoot DEF BootLabels, ScanLabels
  <2>4. NoneStaged'
    BY <1>1, <2>2, <2>3 DEF NoneStaged
  <2>5. NothingNewOnRecord'
    BY <1>0, <1>1, <2>1 DEF UndoneStands, NothingNewOnRecord, NothingNew
  <2> QED BY <1>2, <1>4, <2>4, <2>5 DEF CommitVerified, UndoneInv
<1>5. CASE CommitStaged(t)
  <2>1. pc[t] = "commitStaged" /\ (UNCHANGED sessions \/ Written("STAGED"))
    BY <1>0, <1>1, <1>5, CommitFacts DEF CommitStaged, States
  <2>2. phase # "booting"
    BY <1>0, <2>1 DEF UndoneStands
  <2>3. frame[t].sid \in SessionIds => sessions[frame[t].sid] = "VERIFIED"
    BY <2>1 DEF ReadsHold, RecordedStates
  <2>4. \A s \in SessionIds :
          \/ sessions'[s] = sessions[s]
          \/ sessions[s] = "VERIFIED" /\ sessions'[s] = "STAGED"
    BY <2>1, <2>3 DEF TypeOK, DiskType
  <2>5. NoneStaged'
    BY <1>1, <2>2 DEF NoneStaged
  <2>6. NothingNewOnRecord'
    BY <1>0, <1>1, <2>2, <2>4, NothingNewKept
  <2> QED BY <1>2, <1>5, <2>5, <2>6 DEF CommitStaged, UndoneInv
<1>6. CASE CommitSuccess(t)
  <2>1. pc[t] = "commitSuccess" /\ (UNCHANGED sessions \/ Written("SUCCESS"))
    BY <1>0, <1>1, <1>6, CommitFacts DEF CommitSuccess, States
  <2>2. NoneStaged
    BY <1>0, <2>1, AwayFromBoot DEF BootLabels, ScanLabels
  <2>3. NoneStaged' /\ NothingNewOnRecord'
    BY <1>0, <1>1, <2>1, <2>2, WritesUndone
  <2> QED BY <1>2, <1>6, <2>3 DEF CommitSuccess, UndoneInv
<1>7. ASSUME NEW label \in {"commitStagedRollback", "commitRollbackFailed",
                            "commitRolledBack"},
             NEW state \in {"ROLLED_BACK", "ROLLBACK_FAILED"},
             CommitReportsSuccess(t, label, state) \/ CommitFails(t, label),
             NEW ok, Return(t, ok)
      PROVE  UndoneInv(t)'
  <2>1. pc[t] = label /\ (UNCHANGED sessions \/ Written(state))
    BY <1>0, <1>1, <1>7, CommitFacts DEF States
  <2>2. NoneStaged /\ frame[t].caller # "bootVold"
    BY <1>0, <2>1, AwayFromBoot DEF UndoneStands, BootLabels, ScanLabels
  <2>3. NoneStaged' /\ NothingNewOnRecord'
    BY <1>0, <1>1, <2>1, <2>2, WritesUndone
  <2> QED BY <1>3, <1>7, <2>2, <2>3 DEF UndoneInv
<1>8. CASE CommitRollback(t)
  <2>1. /\ pc[t] = "commitRollback"
        /\ UNCHANGED sessions \/ Written("ROLLBACK_IN_PROGRESS")
    BY <1>0, <1>1, <1>8, CommitFacts DEF CommitRollback, States
  <2>2. /\ frame[t].sid \in SessionIds /\ sessions[frame[t].sid] = "ACTIVATED"
        /\ NoneStaged /\ frame[t].caller # "bootVold"
    BY <1>0, <2>1, AwayFromBoot
       DEF BackupStands, ReadsHold, RecordedStates, UndoneStands, BootLabels,
           ScanLabels
  <2>3. \A s \in SessionIds :
          \/ sessions'[s] = sessions[s]
          \/ s = frame[t].sid /\ sessions'[s] = "ROLLBACK_IN_PROGRESS"
    BY <2>1 DEF TypeOK, DiskType
  <2>4. NoneStaged'
    BY <1>1, <2>2, <2>3 DEF NoneStaged
  <2>5. backupDir \/ accepted
    BY <2>2 DEF BackupIntact, NoCheckpoints
  <2>6. NothingNew' = NothingNew
    BY <1>1 DEF NothingNew
  <2>7. NothingNewOnRecord'
    BY <1>0, <1>1, <2>3, <2>5, <2>6 DEF NothingNewOnRecord, NothingNew
  <2>8. CASE pc'[t] = "restoreCheck" /\ UNCHANGED frame
    BY <2>2, <2>4, <2>7, <2>8 DEF UndoneInv, UndoneStands, NoneStaged, ScanLabels
  <2> QED BY <1>3, <1>8, <2>2, <2>4, <2>7, <2>8, GotoFacts
          DEF CommitRollback, UndoneInv
<1>9. ASSUME NEW label \in {"commitActivated", "commitActivationFailed"},
             NEW state \in {"ACTIVATED", "ACTIVATION_FAILED"},
             CommitReportsSuccess(t, label, state) \/ CommitFails(t, label),
             NextStagedSession(t)
      PROVE  UndoneInv(t)'
  <2>1. /\ pc[t] = label /\ pc'[t] = "stageScan" /\ phase = "booting"
        /\ frame[t].sid \in SessionIds
    BY <1>0, <1>9, GotoFacts
       DEF CommitReportsSuccess, Commits, CommitLost, CommitFails,
           NextStagedSession, UndoneStands, ScanLabels
  <2>2. sessions[frame[t].sid] = "STAGED"
    BY <2>1 DEF ReadsHold, RecordedStates
  <2>3. sessions' = [sessions EXCEPT ![frame[t].sid] = state]
    BY <1>9, <2>2 DEF CommitReportsSuccess, Commits, CommitLost, CommitFails,
          CanOpen, UndoableDevice, WriteStateFile, NoTornFiles
  <2>4. ASSUME NEW s \in SessionIds, s # frame[t].sid, sessions[s] = "STAGED"
        PROVE  FALSE
    BY <2>1, <2>2, <2>4 DEF AtMostOneActiveSession, Unfinalized, GetSessions,
                            IsFinalized
  <2>5. \A s \in SessionIds :
          /\ sessions'[s] # "STAGED"
          /\ sessions'[s] = sessions[s] \/ sessions'[s] = state
    BY <2>1, <2>3, <2>4 DEF TypeOK, DiskType
  <2>6. NothingNewOnRecord'
    BY <1>0, <1>1, <2>1, <2>5, NothingNewKept
  <2> QED BY <1>1, <2>1, <2>5, <2>6 DEF UndoneInv, UndoneStands
<1> QED BY <1>4, <1>5, <1>6, <1>7, <1>8, <1>9
        DEF CommitStagedRollback, CommitRollbackFailed, CommitRolledBack,
            CommitActivated, CommitActivationFailed

\* onStart, up to where it has staged the sessions: there is one of them at
\* most, and nothing else on record that could be rolled back.
LEMMA ScanUndone ==
  ASSUME UndoableDevice, TypeOK, AtMostOneActiveSession, NEW t \in Threads,
         ReadsHold(t), UndoneInv(t),
         \/ StageVerify(t) \/ StageLink(t) \/ StageUndo(t) \/ StageRemove(t)
         \/ ScanStagedSession(t) \/ CollectApexKeys(t)
  PROVE  UndoneInv(t)'
<1>0. NothingNewOnRecord /\ UndoneStands(t)
  BY DEF UndoneInv
<1>1. UNCHANGED <<sessions, backupDir, before, accepted, phase>>
  <2>1. CASE CollectApexKeys(t)
    BY <2>1 DEF CollectApexKeys, UndoableDevice, disk, history
  <2>2. CASE ~CollectApexKeys(t)
    BY <2>2 DEF StageVerify, StageLink, StageUndo, StageRemove,
                ScanStagedSession, disk, outside, process, history
  <2> QED BY <2>1, <2>2
<1>2. pc[t] \in {"collectKeys"} \cup ScanLabels /\ phase = "booting"
  <2>1. pc[t] \in {"collectKeys"} \cup ScanLabels
    BY DEF StageVerify, StageLink, StageUndo, StageRemove, ScanStagedSession,
           CollectApexKeys, ScanLabels
  <2> QED BY <1>0, <2>1 DEF UndoneStands
<1>3. CASE StageVerify(t) \/ StageLink(t) \/ StageUndo(t) \/ StageRemove(t)
  <2>1. pc[t] \in {"stageVerify", "stageLink", "stageUndo", "stageRemove"}
    BY <1>3, StageCaller
  <2>2. frame[t].caller = "bootStage" /\ frame[t].sid \in SessionIds
    BY <1>0, <2>1 DEF UndoneStands, ScanLabels
  <2>3. sessions[frame[t].sid] = "STAGED"
    BY <2>1, <2>2 DEF ReadsHold, RecordedStates
  <2>4. ASSUME NEW s \in SessionIds,
               sessions[s] \in {"VERIFIED", "ROLLBACK_IN_PROGRESS"}
        PROVE  FALSE
    BY <2>2, <2>3, <2>4 DEF AtMostOneActiveSession, Unfinalized, GetSessions,
                            IsFinalized
  <2>5. NothingNewOnRecord'
    BY <1>1, <1>2, <2>4 DEF NothingNewOnRecord
  <2>6. /\ frame'[t].caller = "bootStage" /\ frame'[t].sid \in SessionIds
        /\ pc'[t] \in {"stageVerify", "stageLink", "stageUndo", "stageRemove",
                       "commitActivated", "commitActivationFailed"}
    <3>1. ~StageVerify(t) => UNCHANGED pc \/ pc'[t] # "idle"
      BY <1>3, <2>2, GotoFacts
         DEF StageLink, StageUndo, StageRemove, StageSucceeds, StageFails
    <3>2. StageVerify(t) => pc'[t] # "idle"
      BY <2>2, GotoFacts DEF StageVerify, StageSucceeds, StageFails
    <3>3. Finish(t) => pc'[t] = "idle"
      BY LeaveFacts DEF Finish
    <3>4. ~Finish(t)
      BY <2>1, <3>1, <3>2, <3>3
    <3> QED BY <1>3, <2>2, <3>4, StageCaller
  <2> QED BY <1>1, <1>2, <2>5, <2>6 DEF UndoneInv, UndoneStands, ScanLabels
<1>4. CASE ScanStagedSession(t) \/ CollectApexKeys(t)
  <2>1. UNCHANGED active
    BY <1>4 DEF ScanStagedSession, CollectApexKeys, disk
  <2>2. NothingNewOnRecord'
    BY <1>0, <1>1, <2>1, NothingNewKept
  <2>3. ASSUME NEW s \in frame[t].listed,
               Goto(t, "stageVerify") \/ Goto(t, "commitActivationFailed"),
               frame' = [frame EXCEPT ![t].sid = s, ![t].caller = "bootStage",
                                      ![t].listed = @ \ {s},
                                      ![t].todo = Staging[s]]
        PROVE  UndoneStands(t)'
    <3>1. s \in SessionIds
      BY <2>3, FrameFields DEF TypeOK, ThreadsType
    <3>2. frame'[t].sid = s /\ frame'[t].caller = "bootStage"
      BY <2>3 DEF TypeOK, ThreadsType, Frames
    <3>3. pc'[t] \in {"stageVerify", "commitActivationFailed"}
      BY <2>3, GotoFacts
    <3> QED BY <1>1, <1>2, <3>1, <3>2, <3>3 DEF UndoneStands, ScanLabels
  <2>4. CASE pc[t] = "stageScan" /\ frame[t].listed = {} /\ Leave(t, "resume")
    <3>1. NoneStaged'
      BY <1>0, <1>1, <2>4 DEF UndoneStands, NoneStaged
    <3>2. pc'[t] = "resume"
      BY <2>4, LeaveFacts
    <3>3. pc'[t] \notin UndoneLabels
      BY <3>2 DEF UndoneLabels, BootLabels, VoldLabels, ScanLabels
    <3> QED BY <2>2, <3>1, <3>3, ElsewhereUndone DEF UndoneInv
  <2>5. CASE CollectApexKeys(t)
    <3>1. pc'[t] = "stageScan"
      BY <2>5, GotoFacts DEF CollectApexKeys, UndoableDevice
    <3>2. frame' = [frame EXCEPT
                      ![t].listed = GetSessionsInState(sessions, "STAGED")]
      BY <2>5 DEF CollectApexKeys, UndoableDevice, WithoutCheckpoints,
                  Sequential, Listing
    <3>3. frame'[t].listed = GetSessionsInState(sessions, "STAGED")
      BY <3>2 DEF TypeOK, ThreadsType, Frames
    <3>4. \A s \in SessionIds :
            sessions'[s] = "STAGED" => s \in frame'[t].listed
      BY <1>1, <3>3 DEF GetSessionsInState, GetSessions
    <3>5. phase' = "booting"
      BY <1>1, <1>2
    <3> QED BY <2>2, <3>1, <3>4, <3>5 DEF UndoneInv, UndoneStands, ScanLabels
  <2> QED BY <1>4, <2>2, <2>3, <2>4, <2>5 DEF ScanStagedSession, UndoneInv
<1> QED BY <1>3, <1>4

\* The rest of onStart.
LEMMA BootUndone ==
  ASSUME UndoableDevice, TypeOK, NoCheckpoints, NEW t \in Threads,
         UndoneInv(t),
         \/ OnStart(t) \/ RollbackStagedSessionIfAny(t)
         \/ BootResumeRollback(t) \/ ScanData(t) \/ ActivateData(t)
         \/ ScanBuiltin(t) \/ ActivateBuiltin(t)
  PROVE  UndoneInv(t)'
<1>0. NothingNewOnRecord /\ UndoneStands(t)
  BY DEF UndoneInv
<1>1. UNCHANGED <<disk, before, accepted>>
  BY DEF OnStart, RollbackStagedSessionIfAny, BootResumeRollback, ScanData,
         ActivateData, ScanBuiltin, ActivateBuiltin, outside, history
<1>2. UNCHANGED phase \/ phase' = "serving"
  BY DEF OnStart, RollbackStagedSessionIfAny, BootResumeRollback, ScanData,
         ActivateData, ScanBuiltin, ActivateBuiltin, outside, process
<1>3. ~RollbackStagedSessionIfAny(t)
  BY <1>0 DEF RollbackStagedSessionIfAny, UndoneStands
<1>4. CASE OnStart(t)
  <2>1. UNCHANGED phase /\ pc[t] = "onStart"
    BY <1>4 DEF OnStart
  <2>2. ~gSupportsFsCheckpoints'
    BY <1>4 DEF OnStart, UndoableDevice, WithoutCheckpoints
  <2>3. pc'[t] = "collectKeys"
    BY <1>4, <2>2, GotoFacts DEF OnStart
  <2>4. UndoneStands(t)'
    BY <1>0, <2>1, <2>3 DEF UndoneStands, ScanLabels
  <2>5. NothingNewOnRecord'
    BY <1>0, <1>1, <2>1, NothingNewKept DEF disk
  <2> QED BY <2>4, <2>5 DEF UndoneInv
<1>5. CASE ~OnStart(t)
  <2>1. pc[t] \notin BootLabels
    BY <1>3, <1>5 DEF BootResumeRollback, ScanData, ActivateData, ScanBuiltin,
                      ActivateBuiltin, BootLabels, ScanLabels
  <2>2. NoneStaged /\ NoneStaged'
    BY <1>0, <1>1, <1>2, <2>1, AwayFromBoot DEF NoneStaged, disk
  <2>3. NothingNewOnRecord'
    BY <1>0, <1>1, <2>2, NothingNewKept DEF disk
  <2>4. \/ \E s \in SessionIds : \/ ResumeRollback(t, s, "bootResume")
                                 \/ RollbackSession(t, s, "bootActivate")
        \/ pc'[t] \in {"scanData", "activateData", "scanBuiltin",
                       "activateBuiltin", "idle"}
    <3>1. CASE BootResumeRollback(t)
      BY <3>1, GotoFacts DEF BootResumeRollback
    <3>2. CASE ScanData(t) \/ ActivateData(t)
      BY <3>2, GotoFacts, LeaveFacts
         DEF ScanData, ActivateData, ActivateOne, ActivationFailed
    <3>3. CASE ScanBuiltin(t) \/ ActivateBuiltin(t)
      BY <3>3, GotoFacts, LeaveFacts
         DEF ScanBuiltin, ActivateBuiltin, ActivateOne, Finish
    <3> QED BY <1>3, <1>5, <3>1, <3>2, <3>3
  <2>5. pc'[t] \in {"scanData", "activateData", "scanBuiltin",
                    "activateBuiltin", "idle"} => UndoneStands(t)'
    BY <2>2, ElsewhereUndone
       DEF UndoneLabels, BootLabels, VoldLabels, ScanLabels
  <2> QED BY <1>1, <2>2, <2>3, <2>4, <2>5, RollbackUndone DEF UndoneInv, disk
<1> QED BY <1>4, <1>5

LEMMA EnvironmentUndone ==
  ASSUME Sequential, NoCheckpoints, NothingNewOnRecord,
         VoldCommitChanges \/ ProcessDies \/ RebootDevice, NEW t \in Threads
  PROVE  NothingNewOnRecord' /\ UndoneStands(t)'
<1>1. ~VoldCommitChanges
  BY DEF VoldCommitChanges, NoCheckpoints
<1>2. /\ phase' = "booting" /\ UNCHANGED <<disk, history>>
      /\ pc'[t] = "onStart"
  BY <1>1 DEF ProcessDies, RebootDevice, StartProcess, NoCheckpoints,
              Sequential
<1>3. NothingNewOnRecord'
  BY <1>2, NothingNewKept DEF disk, history
<1> QED BY <1>2, <1>3 DEF UndoneStands, ScanLabels

LEMMA UndoneStep ==
  ASSUME UndoableDevice, TypeOK, SessionInv, AtMostOneActiveSession,
         BackupInv, \A t \in Threads : UndoneInv(t), [Next]_vars
  PROVE  \A t \in Threads : UndoneInv(t)'
<1>0. NoTornFiles /\ NoCheckpoints /\ BackupIntact /\ RollbackResumable
  BY DEF SessionInv, BackupInv
<1>1. ASSUME UNCHANGED vars, NEW t \in Threads PROVE UndoneInv(t)'
  <2>1. UNCHANGED <<sessions, active, backupDir, phase, pc, frame, before,
                    accepted>>
    BY <1>1 DEF vars, disk, process, history
  <2> QED BY <2>1 DEF UndoneInv, NothingNewOnRecord, NothingNew, UndoneStands
<1>2. ASSUME NEW t \in Threads, Request(t) \/ Step(t)
      PROVE  UndoneInv(t)'
  <2>1. ReadsHold(t) /\ BackupStands(t) /\ UndoneInv(t)
    BY DEF SessionInv, BackupInv
  <2>2. ~OpenStateFile(t)
    BY DEF OpenStateFile, UndoableDevice, WithoutCheckpoints, Sequential
  <2> QED BY <1>0, <1>2, <2>1, <2>2, RequestUndone, FilesUndone, CommitUndone,
             ScanUndone, BootUndone DEF Step
<1>3. ASSUME VoldCommitChanges \/ ProcessDies \/ RebootDevice,
             NEW t \in Threads
      PROVE  UndoneInv(t)'
  BY <1>0, <1>3, EnvironmentUndone DEF UndoneInv, UndoableDevice,
                                       WithoutCheckpoints
<1> QED BY <1>1, <1>2, <1>3, OneThread
        DEF Next, RestartProcess, AbortProcess, UndoableDevice,
            WithoutCheckpoints

\* A session is recorded as rolled back by a commit only.
LEMMA RollsBack ==
  ASSUME UndoableDevice, TypeOK, SessionInv, BackupInv, NEW t \in Threads,
         UndoneInv(t), [Next]_vars, NEW s \in SessionIds,
         sessions[s] # "ROLLED_BACK", sessions'[s] = "ROLLED_BACK"
  PROVE  NothingNew
<1> SUFFICES ASSUME Next PROVE NothingNew
  BY DEF vars, disk
<1> DEFINE Written(u, state) ==
      /\ frame[u].sid \in SessionIds
      /\ sessions' = [sessions EXCEPT ![frame[u].sid] = state]
<1>0. /\ Sequential /\ NoTornFiles /\ NoCheckpoints /\ TypeOK'
      /\ NothingNewOnRecord /\ UndoneStands(t) /\ ReadsHold(t)
  BY NextType DEF UndoableDevice, WithoutCheckpoints, SessionInv, BackupInv,
                  UndoneInv
<1>1. ~UNCHANGED sessions
  OBVIOUS
<1>2. ASSUME Request(t) PROVE FALSE
  BY <1>0, <1>1, <1>2, RequestReadsHold DEF Quiet
<1>3. ASSUME \/ ProtectActivePackages(t) \/ BackupActivePackages(t)
             \/ DeleteBackup(t, "backupClean", "backupLink")
             \/ LinkBackup(t) \/ UndoBackup(t) \/ VerifySession(t)
             \/ DeleteBackup(t, "successClean", "commitSuccess")
             \/ RestoreCheck(t) \/ RestoreDelete(t) \/ RestoreRename(t)
             \/ RestoreChmod(t)
      PROVE  FALSE
  BY <1>0, <1>1, <1>3, SubmitReadsHold, RestoreReadsHold DEF Quiet
<1>4. ASSUME \/ StageVerify(t) \/ StageLink(t) \/ StageUndo(t)
             \/ StageRemove(t) \/ Unstage(t)
             \/ OnStart(t) \/ RollbackStagedSessionIfAny(t)
             \/ CollectApexKeys(t) \/ ScanStagedSession(t)
             \/ BootResumeRollback(t) \/ ScanData(t) \/ ActivateData(t)
             \/ ScanBuiltin(t) \/ ActivateBuiltin(t)
             \/ UnmountDanglingMounts(t)
      PROVE  FALSE
  BY <1>0, <1>1, <1>4, StageReadsHold, BootReadsHold DEF Quiet
<1>5. ASSUME ClearSessions(t) \/ AbortDelete(t) PROVE FALSE
  <2>1. sessions'[s] \in {sessions[s], "NONE"}
    BY <1>0, <1>5 DEF ClearSessions, AbortDelete, DeleteSession, NoTornFiles,
                      TypeOK, DiskType
  <2> QED BY <2>1
<1>6. ASSUME NEW label, NEW state \in States, CommitFrame,
             CommitReportsSuccess(t, label, state) \/ CommitFails(t, label)
      PROVE  /\ pc[t] = label /\ state = "ROLLED_BACK" /\ s = frame[t].sid
             /\ sessions[s] \in RecordedStates(label)
  <2>1. pc[t] = label /\ (UNCHANGED sessions \/ Written(t, state))
    BY <1>0, <1>6, CommitFacts
  <2>2. s = frame[t].sid /\ state = "ROLLED_BACK"
    BY <1>1, <2>1 DEF TypeOK, DiskType
  <2> QED BY <1>0, <2>1, <2>2 DEF ReadsHold
<1>7. ASSUME \/ CommitVerified(t) \/ CommitStaged(t) \/ CommitSuccess(t)
             \/ CommitRollback(t) \/ CommitRollbackFailed(t)
             \/ CommitActivated(t) \/ CommitActivationFailed(t)
      PROVE  FALSE
  BY <1>6, <1>7 DEF CommitVerified, CommitStaged, CommitSuccess,
       CommitRollback, CommitRollbackFailed, CommitActivated,
       CommitActivationFailed, States
<1>8. CASE CommitStagedRollback(t)
  <2>1. /\ pc[t] = "commitStagedRollback"
        /\ sessions[s] \in RecordedStates("commitStagedRollback")
    BY <1>6, <1>8 DEF CommitStagedRollback, States
  <2>2. sessions[s] = "STAGED"
    BY <2>1 DEF RecordedStates
  <2>3. phase # "booting"
    BY <1>0, <2>1 DEF UndoneStands
  <2> QED BY <1>0, <2>2, <2>3 DEF NothingNewOnRecord
<1>9. CASE CommitRolledBack(t)
  <2>1. /\ pc[t] = "commitRolledBack"
        /\ sessions[s] \in RecordedStates("commitRolledBack")
    BY <1>6, <1>9 DEF CommitRolledBack, States
  <2>2. sessions[s] = "ROLLBACK_IN_PROGRESS"
    BY <2>1 DEF RecordedStates
  <2> QED BY <1>0, <2>1, <2>2 DEF UndoneStands, NothingNewOnRecord
<1>10. ~OpenStateFile(t)
  BY <1>0 DEF OpenStateFile, Sequential
<1>11. Step(t) => NothingNew
  BY <1>3, <1>4, <1>5, <1>7, <1>8, <1>9, <1>10 DEF Step
<1>12. ~VoldCommitChanges /\ ~ProcessDies /\ ~RebootDevice
  BY <1>0, <1>1 DEF VoldCommitChanges, ProcessDies, RebootDevice,
                    NoCheckpoints, disk
<1> QED BY <1>0, <1>2, <1>11, <1>12, OneThread
        DEF Next, RestartProcess, AbortProcess

\* A session recorded as rolled back has left none of its packages in
\* /data/apex/active, on a user build whose state files can be written.
THEOREM RolledBackSessionIsUndone ==
  ASSUME UndoableDevice
  PROVE  Spec => RolledBackIsUndone
<1> DEFINE Inv == \A t \in Threads : UndoneInv(t)
           Undone == \A s \in SessionIds :
             sessions[s] # "ROLLED_BACK" /\ sessions'[s] = "ROLLED_BACK"
               /\ ~accepted => (Staging[s] \ before) \cap active = {}
<1>0. WithoutCheckpoints /\ Sequential
  BY DEF UndoableDevice, WithoutCheckpoints
<1>1. Init => Inv
  BY <1>0 DEF Init, UndoneInv, NothingNewOnRecord, UndoneStands, ScanLabels,
              Sequential
<1>2. TypeOK /\ SessionInv /\ AtMostOneActiveSession /\ BackupInv /\ Inv
        /\ [Next]_vars => Inv'
  BY UndoneStep
<1>3. TypeOK /\ SessionInv /\ BackupInv /\ Inv /\ [Next]_vars => Undone
  BY ThreadsAssumption, RollsBack DEF NothingNew
<1> HIDE DEF Inv
<1> QED BY <1>0, <1>1, <1>2, <1>3, TypeCorrect, SessionInvariant,
           OneActiveSession, BackupInvariant, PTL DEF Spec, RolledBackIsUndone
=============================================================================
