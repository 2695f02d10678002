-------------------------- MODULE Lifecycle_proofs --------------------------
(***************************************************************************)
(* Sequential StagedSessions implements SessionLifecycle, and hence has at *)
(* most one active session.                                                *)
(***************************************************************************)
EXTENDS StagedSessions_proofs

\* There is one thread.
LEMMA OneThread ==
  ASSUME Sequential, NEW t \in Threads, NEW u \in Threads
  PROVE  u = t
BY DEF Sequential

\* What a thread does next, and its frame, after the control operators.
LEMMA GotoFacts ==
  ASSUME TypeOK, NEW t \in Threads, NEW label, Goto(t, label)
  PROVE  pc'[t] = label
BY DEF TypeOK, ThreadsType, Goto

LEMMA LeaveFacts ==
  ASSUME TypeOK, NEW t \in Threads, NEW label, Leave(t, label)
  PROVE  pc'[t] = label /\ frame'[t] = EmptyFrame
BY GotoFacts DEF TypeOK, ThreadsType, Leave

LEMMA EnterFacts ==
  ASSUME TypeOK, NEW t \in Threads, NEW label, NEW s, NEW c,
         Enter(t, label, s, c)
  PROVE  pc'[t] = label /\ frame'[t].sid = s
<1>1. [frame EXCEPT ![t].sid = s, ![t].caller = c][t].sid = s
  BY DEF TypeOK, ThreadsType, Frames
<1> QED BY <1>1, GotoFacts DEF Enter

LEMMA EmptyFrameFacts ==
  EmptyFrame.sid \notin SessionIds /\ EmptyFrame.listed = {}
BY NoSessionAssumption DEF EmptyFrame

\* A thread with a fresh frame knows nothing that a step could falsify,
\* except between the two halves of a submission.
LEMMA FreshReadsHold ==
  ASSUME NEW t \in Threads, frame[t] = EmptyFrame,
         pc[t] \notin ClearedLabels \cup {"clear"}
  PROVE  ReadsHold(t)
BY EmptyFrameFacts DEF ReadsHold

\* Such a step leaves the records of the sessions alone.
Quiet ==
  /\ UNCHANGED <<sessions, opened>>
  /\ snapshot'.sessions = snapshot.sessions
  /\ Rewindable' = Rewindable

LEMMA LeaveReadsHold ==
  ASSUME TypeOK, NEW t \in Threads, NEW label, Leave(t, label),
         label \notin ClearedLabels \cup {"clear"}
  PROVE  ReadsHold(t)'
<1>1. pc'[t] = label /\ frame'[t] = EmptyFrame
  BY LeaveFacts
<1> QED BY <1>1, EmptyFrameFacts DEF ReadsHold

LEMMA EnterReadsHold ==
  ASSUME TypeOK, NEW t \in Threads, NEW label, NEW s \in SessionIds, NEW c,
         Enter(t, label, s, c), UNCHANGED sessions,
         sessions[s] \in RecordedStates(label),
         label \notin FreshLabels \cup ClearedLabels \cup {"clear"} \cup ScanLabels
  PROVE  ReadsHold(t)'
<1>1. pc'[t] = label /\ frame'[t].sid = s
  BY EnterFacts
<1> QED BY <1>1 DEF ReadsHold

LEMMA RollbackReadsHold ==
  ASSUME TypeOK, NEW t \in Threads, NEW s \in SessionIds, NEW c,
         UNCHANGED sessions,
         RollbackSession(t, s, c) \/ ResumeRollback(t, s, c)
  PROVE  ReadsHold(t)'
<1>1. CASE sessions[s] = "STAGED" /\ Enter(t, "commitStagedRollback", s, c)
  <2>1. sessions[s] \in RecordedStates("commitStagedRollback")
    BY <1>1 DEF RecordedStates
  <2> QED BY <1>1, <2>1, EnterReadsHold DEF FreshLabels, ClearedLabels, ScanLabels
<1>2. CASE sessions[s] = "ACTIVATED" /\ Enter(t, "commitRollback", s, c)
  <2>1. sessions[s] \in RecordedStates("commitRollback")
    BY <1>2 DEF RecordedStates
  <2> QED BY <1>2, <2>1, EnterReadsHold DEF FreshLabels, ClearedLabels, ScanLabels
<1>3. ASSUME NEW label \in {"restoreCheck", "commitRolledBack"},
             sessions[s] = "ROLLBACK_IN_PROGRESS", Enter(t, label, s, c)
      PROVE  ReadsHold(t)'
  <2>1. sessions[s] \in RecordedStates(label)
    BY <1>3 DEF RecordedStates
  <2> QED BY <1>3, <2>1, EnterReadsHold DEF FreshLabels, ClearedLabels, ScanLabels
<1> QED BY <1>1, <1>2, <1>3 DEF RollbackSession, ResumeRollback

\* At these labels a thread relies on nothing it has read.
LEMMA PlainReadsHold ==
  ASSUME TypeOK', NEW t \in Threads,
         pc'[t] \in {"unstage", "dangling", "resume", "scanData",
                     "activateData", "scanBuiltin", "activateBuiltin"}
  PROVE  ReadsHold(t)'
BY DEF TypeOK, DiskType, ReadsHold, FreshLabels, ClearedLabels, ScanLabels,
       RecordedStates

LEMMA ClearedReadsHold ==
  ASSUME TypeOK', NEW t \in Threads, pc'[t] \in ClearedLabels,
         GetSessions(sessions') = {}
  PROVE  ReadsHold(t)'
BY DEF TypeOK, DiskType, ReadsHold, FreshLabels, ClearedLabels, ScanLabels,
       RecordedStates

\* A step that goes on with the same session in the same state.
LEMMA SameReadsHold ==
  ASSUME TypeOK, NEW t \in Threads, ReadsHold(t), UNCHANGED sessions,
         frame'[t].sid = frame[t].sid, frame'[t].listed = frame[t].listed,
         RecordedStates(pc[t]) \subseteq RecordedStates(pc'[t]),
         pc'[t] \notin FreshLabels \cup ClearedLabels \cup {"clear"},
         pc'[t] \in ScanLabels => pc[t] \in ScanLabels
  PROVE  ReadsHold(t)'
BY DEF ReadsHold

\* The steps of submitStagedSession that do not touch the sessions.
LEMMA SubmitReadsHold ==
  ASSUME Sequential, TypeOK, TypeOK', NEW t \in Threads, ReadsHold(t),
         \/ ProtectActivePackages(t) \/ BackupActivePackages(t)
         \/ DeleteBackup(t, "backupClean", "backupLink")
         \/ LinkBackup(t) \/ UndoBackup(t) \/ VerifySession(t)
  PROVE  Quiet /\ ReadsHold(t)'
<1>1. Quiet
  <2>1. CASE ProtectActivePackages(t)
    <3>1. Rewindable' = Rewindable
      BY <2>1 DEF ProtectActivePackages, VoldStartCheckpoint, Rewindable
    <3> QED BY <2>1, <3>1 DEF ProtectActivePackages, Quiet, disk
  <2>2. CASE ~ProtectActivePackages(t)
    BY <2>2 DEF BackupActivePackages, DeleteBackup, LinkBackup, UndoBackup,
                VerifySession, Quiet, Rewindable, disk, vold, outside
  <2> QED BY <2>1, <2>2
<1>2. GetSessions(sessions') = {}
  <2>1. pc[t] \in ClearedLabels
    BY DEF ProtectActivePackages, BackupActivePackages, DeleteBackup,
           LinkBackup, UndoBackup, VerifySession, ClearedLabels
  <2> QED BY <1>1, <2>1 DEF ReadsHold, Quiet
<1>3. CASE Finish(t)
  BY <1>1, <1>3, LeaveReadsHold DEF Finish, ClearedLabels
<1>4. CASE ~Finish(t)
  <2>1. pc'[t] \in ClearedLabels
    BY <1>4, GotoFacts
    DEF ProtectActivePackages, BackupActivePackages, DeleteBackup, LinkBackup,
        UndoBackup, VerifySession, ClearedLabels
  <2> QED BY <1>1, <1>2, <2>1, ClearedReadsHold
<1> QED BY <1>1, <1>3, <1>4

\* The steps of DoRollback, and DeleteBackup in markStagedSessionSuccessful.
LEMMA RestoreReadsHold ==
  ASSUME TypeOK, NEW t \in Threads, ReadsHold(t),
         \/ DeleteBackup(t, "successClean", "commitSuccess")
         \/ RestoreCheck(t) \/ RestoreDelete(t) \/ RestoreRename(t)
         \/ RestoreChmod(t)
  PROVE  Quiet /\ ReadsHold(t)'
<1>1. Quiet
  BY DEF DeleteBackup, RestoreCheck, RestoreDelete, RestoreRename,
         RestoreChmod, Quiet, Rewindable, disk, vold, outside
<1>2. CASE Finish(t)
  BY <1>1, <1>2, LeaveReadsHold DEF Finish, ClearedLabels
<1>3. CASE ~Finish(t)
  <2>1. UNCHANGED frame
    BY <1>3 DEF DeleteBackup, RestoreCheck, RestoreDelete, RestoreRename,
                RestoreChmod
  <2>2. \/ /\ pc[t] = "successClean"
           /\ pc'[t] \in {"successClean", "commitSuccess"}
        \/ /\ pc[t] \in {"restoreCheck", "restoreDelete", "restoreRename",
                         "restoreChmod"}
           /\ pc'[t] \in {"restoreDelete", "restoreRename", "restoreChmod",
                          "commitRolledBack", "commitRollbackFailed"}
    BY <1>3, GotoFacts DEF DeleteBackup, RestoreCheck, RestoreDelete,
                RestoreRename, RestoreChmod
  <2>3. RecordedStates(pc[t]) \subseteq RecordedStates(pc'[t])
    BY <2>2 DEF RecordedStates
  <2>4. pc'[t] \notin FreshLabels \cup ClearedLabels \cup {"clear"} \cup ScanLabels
    BY <2>2 DEF FreshLabels, ClearedLabels, ScanLabels
  <2> QED BY <1>1, <2>1, <2>3, <2>4, SameReadsHold DEF Quiet
<1> QED BY <1>1, <1>2, <1>3

\* The steps of stagePackages and unstagePackages.
LEMMA StageReadsHold ==
  ASSUME TypeOK, TypeOK', NEW t \in Threads, ReadsHold(t),
         \/ StageVerify(t) \/ StageLink(t) \/ StageUndo(t) \/ StageRemove(t)
         \/ Unstage(t)
  PROVE  Quiet /\ ReadsHold(t)'
<1>1. Quiet
  BY DEF StageVerify, StageLink, StageUndo, StageRemove, Unstage, Quiet,
         Rewindable, disk, vold, outside
<1>2. CASE Finish(t)
  BY <1>1, <1>2, LeaveReadsHold DEF Finish, ClearedLabels
<1>3. CASE ~Finish(t) /\ ~Unstage(t)
  <2>1. frame'[t].sid = frame[t].sid /\ frame'[t].listed = frame[t].listed
    <3> DEFINE Same == /\ frame'[t].sid = frame[t].sid
                       /\ frame'[t].listed = frame[t].listed
    <3>1. UNCHANGED frame => Same
      OBVIOUS
    <3>2. ASSUME NEW x, frame' = [frame EXCEPT ![t].todo = x]
          PROVE  Same
      BY <3>2 DEF TypeOK, ThreadsType, Frames
    <3>3. ASSUME NEW x, NEW y,
                 frame' = [frame EXCEPT ![t].todo = x, ![t].base = y]
          PROVE  Same
      BY <3>3 DEF TypeOK, ThreadsType, Frames
    <3>4. ASSUME NEW x, NEW y,
                 frame' = [frame EXCEPT ![t].todo = x, ![t].staged = y]
          PROVE  Same
      BY <3>4 DEF TypeOK, ThreadsType, Frames
    <3>5. ASSUME NEW x, frame' = [frame EXCEPT ![t].staged = x]
          PROVE  Same
      BY <3>5 DEF TypeOK, ThreadsType, Frames
    <3> HIDE DEF Same
    <3>6. ASSUME StageVerify(t) PROVE Same
      BY <1>3, <3>1, <3>3, <3>6, Zenon DEF StageVerify, StageSucceeds, StageFails
    <3>7. ASSUME StageLink(t) PROVE Same
      BY <3>1, <3>2, <3>4, <3>7, Zenon DEF StageLink
    <3>8. ASSUME StageUndo(t) \/ StageRemove(t) PROVE Same
      BY <1>3, <3>1, <3>2, <3>5, <3>8, Zenon
      DEF StageUndo, StageRemove, StageSucceeds, StageFails
    <3> QED BY <1>3, <3>6, <3>7, <3>8 DEF Same
  <2>2. /\ pc[t] \in {"stageVerify", "stageLink", "stageUndo", "stageRemove"}
        /\ pc'[t] \in {"stageLink", "stageUndo", "stageRemove",
                       "commitActivated", "commitActivationFailed"}
    BY <1>3, GotoFacts DEF StageVerify, StageLink, StageUndo, StageRemove,
                StageSucceeds, StageFails
  <2>3. RecordedStates(pc[t]) \subseteq RecordedStates(pc'[t])
    BY <2>2 DEF RecordedStates
  <2>4. /\ pc[t] \in ScanLabels
        /\ pc'[t] \notin FreshLabels \cup ClearedLabels \cup {"clear"}
    BY <2>2 DEF FreshLabels, ClearedLabels, ScanLabels
  <2> QED BY <1>1, <2>1, <2>3, <2>4, SameReadsHold DEF Quiet
<1>4. CASE ~Finish(t) /\ Unstage(t)
  <2>1. pc'[t] = "unstage"
    BY <1>4 DEF Unstage
  <2> QED BY <1>1, <2>1, PlainReadsHold
<1> QED BY <1>1, <1>2, <1>3, <1>4

\* The steps of onStart and unmountDanglingMounts.
LEMMA BootReadsHold ==
  ASSUME Sequential, TypeOK, TypeOK', NEW t \in Threads, ReadsHold(t),
         \/ OnStart(t) \/ RollbackStagedSessionIfAny(t) \/ CollectApexKeys(t)
         \/ ScanStagedSession(t) \/ BootResumeRollback(t) \/ ScanData(t)
         \/ ActivateData(t) \/ ScanBuiltin(t) \/ ActivateBuiltin(t)
         \/ UnmountDanglingMounts(t)
  PROVE  Quiet /\ ReadsHold(t)'
<1>1. Quiet
  <2>1. CASE ScanData(t) \/ ActivateData(t)
    <3>1. Rewindable' = Rewindable
      BY <2>1 DEF ScanData, ActivateData, ActivationFailed, AbortAndReboot,
                  VoldAbortChanges, Rewindable
    <3> QED BY <2>1, <3>1 DEF ScanData, ActivateData, Quiet, disk
  <2>2. CASE ~ScanData(t) /\ ~ActivateData(t)
    BY <2>2 DEF OnStart, RollbackStagedSessionIfAny, CollectApexKeys,
                ScanStagedSession, BootResumeRollback, ScanBuiltin,
                ActivateBuiltin, UnmountDanglingMounts, Quiet, Rewindable, disk, vold, outside
  <2> QED BY <2>1, <2>2
<1>a. Finish(t) => ReadsHold(t)'
  BY LeaveReadsHold DEF Finish, ClearedLabels
<1>b. ASSUME NEW s \in SessionIds, NEW c,
             RollbackSession(t, s, c) \/ ResumeRollback(t, s, c)
      PROVE  ReadsHold(t)'
  BY <1>1, <1>b, RollbackReadsHold DEF Quiet
<1>c. ASSUME NEW label \in {"resume", "scanData", "activateData", "scanBuiltin",
                             "activateBuiltin"},
             Goto(t, label)
      PROVE  ReadsHold(t)'
  BY <1>c, GotoFacts, PlainReadsHold
<1>d. frame[t] \in Frames
  BY DEF TypeOK, ThreadsType
<1>2. CASE OnStart(t)
  <2>1. frame'[t] = EmptyFrame
    BY <1>2 DEF OnStart, ReadsHold, FreshLabels
  <2>2. pc'[t] \in {"voldRollback", "collectKeys"}
    BY <1>2, GotoFacts DEF OnStart
  <2> QED BY <1>1, <2>1, <2>2, EmptyFrameFacts DEF ReadsHold, ClearedLabels
<1>3. CASE RollbackStagedSessionIfAny(t)
  <2>1. CASE \E s \in SessionIds :
               /\ IsActiveSession(sessions, s) /\ sessions[s] = "STAGED"
               /\ Enter(t, "commitStagedRollback", s, "bootVold")
    BY <1>1, <1>b, <2>1 DEF RollbackSession
  <2>2. CASE Goto(t, "collectKeys") /\ UNCHANGED frame
    <3>1. frame'[t] = EmptyFrame
      BY <1>3, <2>2 DEF RollbackStagedSessionIfAny, ReadsHold, FreshLabels
    <3> QED BY <1>1, <2>2, <3>1, GotoFacts, EmptyFrameFacts
            DEF ReadsHold, ClearedLabels
  <2> QED BY <1>3, <2>1, <2>2 DEF RollbackStagedSessionIfAny
<1>4. CASE CollectApexKeys(t)
  <2>1. CASE /\ Goto(t, "stageScan")
             /\ \E ids \in Listing(GetSessionsInState(sessions, "STAGED")) :
                  frame' = [frame EXCEPT ![t].listed = ids]
    <3>1. frame[t].sid \notin SessionIds
      BY <1>4, EmptyFrameFacts DEF CollectApexKeys, ReadsHold, FreshLabels
    <3>2. PICK ids \in Listing(GetSessionsInState(sessions, "STAGED")) :
                  frame' = [frame EXCEPT ![t].listed = ids]
      BY <2>1
    <3>3. \A s \in ids : s \in SessionIds /\ sessions[s] = "STAGED"
      BY DEF Listing, GetSessionsInState, GetSessions
    <3>4. frame'[t].sid = frame[t].sid /\ frame'[t].listed = ids
      BY <3>2 DEF TypeOK, ThreadsType, Frames
    <3>5. pc'[t] = "stageScan"
      BY <2>1, GotoFacts
    <3> QED BY <1>1, <3>1, <3>3, <3>4, <3>5
            DEF ReadsHold, FreshLabels, ClearedLabels, Quiet
  <2> QED BY <1>1, <1>4, <1>a, <2>1 DEF CollectApexKeys
<1>5. CASE ScanStagedSession(t)
  <2>1. CASE Leave(t, "resume")
    BY <1>1, <2>1, LeaveFacts, PlainReadsHold
  <2>2. ASSUME NEW s \in frame[t].listed,
               Goto(t, "stageVerify") \/ Goto(t, "commitActivationFailed"),
               frame' = [frame EXCEPT ![t].sid = s, ![t].caller = "bootStage",
                                      ![t].listed = @ \ {s},
                                      ![t].todo = Staging[s]]
        PROVE  ReadsHold(t)'
    <3>1. \A u \in frame[t].listed : sessions[u] = "STAGED"
      BY <1>5 DEF ScanStagedSession, ReadsHold, ScanLabels
    <3>2. frame'[t].sid = s /\ frame'[t].listed = frame[t].listed \ {s}
      BY <2>2 DEF TypeOK, ThreadsType, Frames
    <3>3. pc'[t] \in {"stageVerify", "commitActivationFailed"}
      BY <2>2, GotoFacts
    <3>4. sessions'[s] \in RecordedStates(pc'[t])
      BY <1>1, <3>1, <3>3 DEF RecordedStates, Quiet
    <3>5. pc'[t] \notin FreshLabels \cup ClearedLabels \cup {"clear"}
      BY <3>3 DEF FreshLabels, ClearedLabels
    <3> QED BY <1>1, <3>1, <3>2, <3>4, <3>5 DEF ReadsHold, Quiet
  <2> QED BY <1>1, <1>5, <2>1, <2>2 DEF ScanStagedSession
<1>6. CASE BootResumeRollback(t)
  BY <1>1, <1>6, <1>b, <1>c DEF BootResumeRollback
<1>e. ActivationFailed(t) => ReadsHold(t)'
  BY <1>b, <1>c DEF ActivationFailed, Leave
<1>f. ASSUME pc[t] \in {"activateData", "activateBuiltin"}, UNCHANGED pc
      PROVE  ReadsHold(t)'
  BY <1>f, PlainReadsHold
<1>7. CASE ScanData(t) \/ ActivateData(t)
  BY <1>1, <1>7, <1>c, <1>e, <1>f DEF ScanData, ActivateData, ActivateOne, Leave
<1>8. CASE ScanBuiltin(t) \/ ActivateBuiltin(t)
  BY <1>1, <1>8, <1>a, <1>c, <1>f DEF ScanBuiltin, ActivateBuiltin, ActivateOne
<1>9. CASE UnmountDanglingMounts(t)
  BY <1>1, <1>9, <1>a, PlainReadsHold DEF UnmountDanglingMounts
<1> QED BY <1>2, <1>3, <1>4, <1>5, <1>6, <1>7, <1>8, <1>9

\* The first steps of the handlers.
LEMMA RequestReadsHold ==
  ASSUME Sequential, TypeOK, TypeOK', NEW t \in Threads, ReadsHold(t),
         Request(t)
  PROVE  Quiet /\ ReadsHold(t)'
<1>0. pc[t] = "idle" /\ frame[t] = EmptyFrame
  BY DEF Request, SubmitStagedSession, MarkStagedSessionReady,
         MarkStagedSessionSuccessful, StagePackages, RollbackActiveSession,
         AbortActiveSession, ResumeRollbackIfNeeded, UnstagePackages,
         UpdatableCrashing, BootCompleted, Serving, ReadsHold, FreshLabels
<1>1. Quiet
  <2>1. CASE UpdatableCrashing(t)
    <3>1. Rewindable' = Rewindable
      BY <2>1 DEF UpdatableCrashing, AbortAndReboot, VoldAbortChanges, Rewindable
    <3> QED BY <2>1, <3>1 DEF UpdatableCrashing, Quiet, disk
  <2>2. CASE ~UpdatableCrashing(t)
    BY <2>2 DEF Request, SubmitStagedSession, MarkStagedSessionReady,
                MarkStagedSessionSuccessful, StagePackages,
                RollbackActiveSession, AbortActiveSession,
                ResumeRollbackIfNeeded, UnstagePackages, BootCompleted,
                Quiet, Rewindable, disk, vold, outside
  <2> QED BY <2>1, <2>2
<1>a. ASSUME NEW s \in SessionIds, NEW c,
             RollbackSession(t, s, c) \/ ResumeRollback(t, s, c)
      PROVE  ReadsHold(t)'
  BY <1>1, <1>a, RollbackReadsHold DEF Quiet
<1>2. ASSUME NEW s \in SessionIds, SubmitStagedSession(t, s)
      PROVE  ReadsHold(t)'
  <2>1. frame' = [frame EXCEPT ![t].sid = s, ![t].listed = GetSessions(sessions)]
    BY <1>2 DEF SubmitStagedSession, Listing, Sequential
  <2>2. frame'[t].listed = GetSessions(sessions)
    BY <2>1 DEF TypeOK, ThreadsType, Frames
  <2>3. pc'[t] = "clear"
    BY <1>2, GotoFacts DEF SubmitStagedSession
  <2>4. RecordedStates("clear") = FileStates
    BY DEF RecordedStates
  <2> QED BY <1>1, <2>2, <2>3, <2>4
          DEF ReadsHold, FreshLabels, ClearedLabels, ScanLabels, Quiet, TypeOK,
              DiskType
<1>3. ASSUME NEW s \in SessionIds, NEW label, NEW c, Enter(t, label, s, c),
             \/ label = "commitStaged" /\ sessions[s] = "VERIFIED"
             \/ label = "successClean" /\ sessions[s] = "ACTIVATED"
             \/ label = "abortDelete" /\ sessions[s] \in {"VERIFIED", "STAGED"}
      PROVE  ReadsHold(t)'
  <2>1. sessions[s] \in RecordedStates(label)
    BY <1>3 DEF RecordedStates
  <2> QED BY <1>1, <1>3, <2>1, EnterReadsHold
          DEF FreshLabels, ClearedLabels, ScanLabels, Quiet
<1>4. ASSUME NEW s \in SessionIds,
             MarkStagedSessionReady(t, s) \/ MarkStagedSessionSuccessful(t, s)
      PROVE  ReadsHold(t)'
  BY <1>3, <1>4 DEF MarkStagedSessionReady, MarkStagedSessionSuccessful
<1>5. ASSUME NEW paths, StagePackages(t, paths)
      PROVE  ReadsHold(t)'
  <2>1. frame'[t].sid = EmptyFrame.sid /\ frame'[t].listed = EmptyFrame.listed
    BY <1>0, <1>5 DEF StagePackages, TypeOK, ThreadsType, Frames
  <2>2. pc'[t] = "stageVerify"
    BY <1>5, GotoFacts DEF StagePackages
  <2> QED BY <2>1, <2>2, EmptyFrameFacts DEF ReadsHold, FreshLabels, ClearedLabels
<1>6. ASSUME NEW paths, UnstagePackages(t, paths)
      PROVE  ReadsHold(t)'
  BY <1>6, GotoFacts, PlainReadsHold DEF UnstagePackages
<1>7. CASE \/ RollbackActiveSession(t) \/ AbortActiveSession(t)
           \/ ResumeRollbackIfNeeded(t)
  BY <1>1, <1>3, <1>7, <1>a
  DEF RollbackActiveSession, AbortActiveSession, ResumeRollbackIfNeeded
<1>8. CASE UpdatableCrashing(t)
  <2>1. UNCHANGED <<pc, frame>> => ReadsHold(t)'
    BY <1>0, <1>1, EmptyFrameFacts DEF ReadsHold, ClearedLabels, ScanLabels
  <2> QED BY <1>1, <1>8, <1>a, <2>1 DEF UpdatableCrashing
<1>9. CASE BootCompleted(t)
  BY <1>1, <1>9, GotoFacts, PlainReadsHold DEF BootCompleted
<1> QED BY <1>1, <1>2, <1>4, <1>5, <1>6, <1>7, <1>8, <1>9 DEF Request

-----------------------------------------------------------------------------
(* The steps that change the records of the sessions.                      *)

LifecycleStep == [Lifecycle!Next]_<<sessions, Rewindable, snapshot.sessions>>

LEMMA QuietStep ==
  ASSUME NoTornFiles, Quiet
  PROVE  LifecycleStep /\ NoTornFiles'
BY DEF Quiet, LifecycleStep, NoTornFiles

\* Deleting a session discards its record.
LEMMA DeleteFacts ==
  ASSUME TypeOK, NoTornFiles, NEW s \in SessionIds,
         sessions' = DeleteSession(sessions, s),
         UNCHANGED <<vold, opened>>
  PROVE  /\ sessions' = [sessions EXCEPT ![s] = "NONE"]
         /\ LifecycleStep /\ NoTornFiles'
<1>1. sessions' = [sessions EXCEPT ![s] = "NONE"]
  BY DEF DeleteSession, NoTornFiles, TypeOK, DiskType
<1>2. Lifecycle!Discard(s)
  BY <1>1 DEF Lifecycle!Discard, Rewindable, vold
<1>3. NoTornFiles'
  BY <1>1 DEF NoTornFiles, TypeOK, DiskType, vold
<1> QED BY <1>1, <1>2, <1>3 DEF LifecycleStep, Lifecycle!Next

LEMMA ClearStep ==
  ASSUME TypeOK, TypeOK', NoTornFiles, NEW t \in Threads, ReadsHold(t),
         ClearSessions(t)
  PROVE  LifecycleStep /\ NoTornFiles' /\ ReadsHold(t)'
<1>0. GetSessions(sessions) \subseteq frame[t].listed
  BY DEF ClearSessions, ReadsHold
<1>1. ASSUME NEW s \in frame[t].listed,
             sessions' = DeleteSession(sessions, s),
             frame' = [frame EXCEPT ![t].listed = @ \ {s}], UNCHANGED pc
      PROVE  LifecycleStep /\ NoTornFiles' /\ ReadsHold(t)'
  <2>1. s \in SessionIds
    BY FrameFields DEF TypeOK, ThreadsType
  <2>2. /\ sessions' = [sessions EXCEPT ![s] = "NONE"]
        /\ LifecycleStep /\ NoTornFiles'
    BY <1>1, <2>1, DeleteFacts DEF ClearSessions, outside
  <2>3. frame'[t].listed = frame[t].listed \ {s}
    BY <1>1 DEF TypeOK, ThreadsType, Frames
  <2>4. GetSessions(sessions') \subseteq frame'[t].listed
    BY <1>0, <2>1, <2>2, <2>3 DEF GetSessions, TypeOK, DiskType
  <2>5. pc'[t] = "clear"
    BY <1>1 DEF ClearSessions
  <2>6. RecordedStates("clear") = FileStates
    BY DEF RecordedStates
  <2>7. ReadsHold(t)'
    BY <2>4, <2>5, <2>6 DEF ReadsHold, FreshLabels, ClearedLabels, ScanLabels,
                            TypeOK, DiskType
  <2> QED BY <2>2, <2>7
<1>2. CASE UNCHANGED sessions
  <2>1. LifecycleStep /\ NoTornFiles'
    BY <1>2, QuietStep DEF ClearSessions, Quiet, Rewindable, outside, vold
  <2>2. CASE Finish(t)
    BY <2>1, <2>2, LeaveReadsHold DEF Finish, ClearedLabels
  <2>3. CASE frame[t].listed = {} /\ Goto(t, "protect")
    <3>1. GetSessions(sessions') = {}
      BY <1>0, <1>2, <2>3
    <3> QED BY <2>1, <2>3, <3>1, GotoFacts, ClearedReadsHold DEF ClearedLabels
  <2>4. CASE /\ UNCHANGED pc
             /\ \E s \in frame[t].listed :
                  /\ sessions' = DeleteSession(sessions, s)
                  /\ frame' = [frame EXCEPT ![t].listed = @ \ {s}]
    BY <1>1, <2>4
  <2> QED BY <2>2, <2>3, <2>4 DEF ClearSessions
<1> QED BY <1>1, <1>2 DEF ClearSessions

LEMMA AbortStep ==
  ASSUME TypeOK, NoTornFiles, NEW t \in Threads, ReadsHold(t), AbortDelete(t)
  PROVE  LifecycleStep /\ NoTornFiles' /\ ReadsHold(t)'
<1>1. ReadsHold(t)'
  BY LeaveReadsHold DEF AbortDelete, Finish, ClearedLabels
<1>2. CASE UNCHANGED sessions
  BY <1>1, <1>2, QuietStep DEF AbortDelete, Quiet, Rewindable, outside, vold
<1>3. CASE frame[t].sid \in SessionIds /\ ~UNCHANGED sessions
  BY <1>1, <1>3, DeleteFacts DEF AbortDelete, outside
<1>4. CASE frame[t].sid \notin SessionIds
  <2>1. UNCHANGED sessions
    BY <1>4 DEF AbortDelete, DeleteSession, TypeOK, DiskType
  <2> QED BY <1>2, <2>1
<1> QED BY <1>2, <1>3, <1>4

\* A commit writes the state of the thread's session, or nothing.
LEMMA CommitFacts ==
  ASSUME Sequential, TypeOK, NoTornFiles, NEW t \in Threads, NEW label,
         NEW state \in States, CommitFrame,
         CommitReportsSuccess(t, label, state) \/ CommitFails(t, label)
  PROVE  /\ pc[t] = label
         /\ \/ UNCHANGED sessions
            \/ /\ frame[t].sid \in SessionIds
               /\ sessions' = [sessions EXCEPT ![frame[t].sid] = state]
         /\ NoTornFiles'
<1>0. ~TornWrites /\ ~opened[t]
  BY DEF Sequential, NoTornFiles
<1>1. pc[t] = label
  BY DEF CommitReportsSuccess, Commits, CommitLost, CommitFails
<1>2. \/ UNCHANGED sessions
      \/ sessions' = [sessions EXCEPT ![frame[t].sid] = state]
  BY <1>0 DEF CommitReportsSuccess, Commits, CommitLost, CommitFails,
              WriteStateFile
<1>3. \/ UNCHANGED sessions
      \/ /\ frame[t].sid \in SessionIds
         /\ sessions' = [sessions EXCEPT ![frame[t].sid] = state]
  BY <1>2 DEF TypeOK, DiskType
<1>4. opened' = [opened EXCEPT ![t] = FALSE] /\ snapshot' = snapshot
  BY DEF CommitReportsSuccess, Commits, CommitLost, CommitFails, CommitFrame
<1>5. \A s \in SessionIds : sessions'[s] # "EMPTY"
  BY <1>3 DEF NoTornFiles, TypeOK, DiskType, States
<1>6. \A u \in Threads : ~opened'[u]
  BY <1>4 DEF NoTornFiles, TypeOK
<1>7. NoTornFiles'
  BY <1>4, <1>5, <1>6 DEF NoTornFiles
<1> QED BY <1>1, <1>3, <1>7

\* A commit that moves a session along its life.
LEMMA AdvanceStep ==
  ASSUME TypeOK, NoTornFiles, NoTornFiles', NEW t \in Threads, ReadsHold(t),
         NEW state, \A old \in RecordedStates(pc[t]) :
                      state \in Lifecycle!Successors(old),
         \/ UNCHANGED sessions
         \/ /\ frame[t].sid \in SessionIds
            /\ sessions' = [sessions EXCEPT ![frame[t].sid] = state],
         snapshot' = snapshot, Rewindable' = Rewindable
  PROVE  LifecycleStep
<1>1. CASE UNCHANGED sessions
  BY <1>1 DEF LifecycleStep
<1>2. CASE /\ frame[t].sid \in SessionIds
           /\ sessions' = [sessions EXCEPT ![frame[t].sid] = state]
  <2>1. state \in Lifecycle!Successors(sessions[frame[t].sid])
    BY <1>2 DEF ReadsHold
  <2>2. Lifecycle!Advance(frame[t].sid)
    BY <1>2, <2>1 DEF Lifecycle!Advance
  <2> QED BY <1>2, <2>2 DEF LifecycleStep, Lifecycle!Next
<1> QED BY <1>1, <1>2

\* A rollback's return keeps the checkpoint rewindable or not, and leaves
\* nothing read.
LEMMA ReturnFacts ==
  ASSUME TypeOK, NEW t \in Threads, NEW ok, Return(t, ok)
  PROVE  Rewindable' = Rewindable /\ ReadsHold(t)'
<1>1. Rewindable' = Rewindable
  BY DEF Return, AbortAndReboot, VoldAbortChanges, Rewindable
<1>2. ReturnLabel(frame[t].caller) \notin ClearedLabels \cup {"clear"}
  BY DEF ReturnLabel, ClearedLabels
<1> QED BY <1>1, <1>2, LeaveReadsHold DEF Return

LEMMA CommitStep ==
  ASSUME Sequential, TypeOK, TypeOK', NoTornFiles, NEW t \in Threads,
         ReadsHold(t),
         \/ CommitVerified(t) \/ CommitStaged(t) \/ CommitSuccess(t)
         \/ CommitStagedRollback(t) \/ CommitRollback(t)
         \/ CommitRollbackFailed(t) \/ CommitRolledBack(t)
         \/ CommitActivated(t) \/ CommitActivationFailed(t)
  PROVE  LifecycleStep /\ NoTornFiles' /\ ReadsHold(t)'
<1>0. CommitFrame /\ snapshot' = snapshot
  BY DEF CommitVerified, CommitStaged, CommitSuccess, CommitStagedRollback,
         CommitRollback, CommitRollbackFailed, CommitRolledBack,
         CommitActivated, CommitActivationFailed, CommitFrame
<1>a. UNCHANGED checkpoint => Rewindable' = Rewindable
  BY DEF Rewindable
<1>b. Finish(t) => ReadsHold(t)'
  BY LeaveReadsHold DEF Finish, ClearedLabels
<1>1. CASE CommitVerified(t)
  <2>1. /\ pc[t] = "commitVerified" /\ NoTornFiles'
        /\ \/ UNCHANGED sessions
           \/ /\ frame[t].sid \in SessionIds
              /\ sessions' = [sessions EXCEPT ![frame[t].sid] = "VERIFIED"]
    BY <1>0, <1>1, CommitFacts DEF CommitVerified, States
  <2>2. sessions = Lifecycle!Blank
    BY <2>1 DEF ReadsHold, ClearedLabels, GetSessions, Lifecycle!Blank, TypeOK,
                DiskType
  <2>3. Rewindable' = Rewindable
    BY <1>1, <1>a DEF CommitVerified
  <2>4. LifecycleStep
    <3>1. CASE UNCHANGED sessions
      BY <1>0, <2>3, <3>1 DEF LifecycleStep
    <3>2. CASE /\ frame[t].sid \in SessionIds
               /\ sessions' = [sessions EXCEPT ![frame[t].sid] = "VERIFIED"]
      <4>1. Lifecycle!Submit(frame[t].sid)
        BY <1>0, <2>2, <2>3, <3>2 DEF Lifecycle!Submit
      <4> QED BY <3>2, <4>1 DEF LifecycleStep, Lifecycle!Next
    <3> QED BY <2>1, <3>1, <3>2
  <2> QED BY <1>1, <1>b, <2>1, <2>4 DEF CommitVerified
<1>2. ASSUME NEW label \in CommitLabels, NEW state \in States,
             CommitReportsSuccess(t, label, state) \/ CommitFails(t, label),
             \/ label = "commitStaged" /\ state = "STAGED"
             \/ label = "commitSuccess" /\ state = "SUCCESS"
             \/ label = "commitStagedRollback" /\ state = "ROLLED_BACK"
             \/ label = "commitRollback" /\ state = "ROLLBACK_IN_PROGRESS"
             \/ label = "commitRollbackFailed" /\ state = "ROLLBACK_FAILED"
             \/ label = "commitRolledBack" /\ state = "ROLLED_BACK"
             \/ label = "commitActivated" /\ state = "ACTIVATED"
             \/ label = "commitActivationFailed" /\ state = "ACTIVATION_FAILED",
             Rewindable' = Rewindable
      PROVE  LifecycleStep /\ NoTornFiles'
  <2>1. /\ pc[t] = label /\ NoTornFiles'
        /\ \/ UNCHANGED sessions
           \/ /\ frame[t].sid \in SessionIds
              /\ sessions' = [sessions EXCEPT ![frame[t].sid] = state]
    BY <1>0, <1>2, CommitFacts
  <2>2. \A old \in RecordedStates(label) : state \in Lifecycle!Successors(old)
    BY <1>2 DEF RecordedStates, Lifecycle!Successors
  <2> QED BY <1>0, <1>2, <2>1, <2>2, AdvanceStep
<1>c. /\ {"STAGED", "SUCCESS", "ROLLED_BACK", "ROLLBACK_IN_PROGRESS",
          "ROLLBACK_FAILED", "ACTIVATED", "ACTIVATION_FAILED"} \subseteq States
      /\ {"commitStaged", "commitSuccess", "commitStagedRollback",
          "commitRollback", "commitRollbackFailed", "commitRolledBack",
          "commitActivated", "commitActivationFailed"} \subseteq CommitLabels
  BY DEF States, CommitLabels
<1>3. CASE CommitStaged(t) \/ CommitSuccess(t)
  BY <1>2, <1>3, <1>a, <1>b, <1>c DEF CommitStaged, CommitSuccess
<1>4. CASE \/ CommitStagedRollback(t) \/ CommitRollbackFailed(t)
           \/ CommitRolledBack(t)
  <2>1. Rewindable' = Rewindable /\ ReadsHold(t)'
    BY <1>4, ReturnFacts
    DEF CommitStagedRollback, CommitRollbackFailed, CommitRolledBack
  <2> QED BY <1>2, <1>4, <1>c, <2>1
          DEF CommitStagedRollback, CommitRollbackFailed, CommitRolledBack
<1>5. CASE CommitRollback(t)
  <2>1. CASE CommitFails(t, "commitRollback") /\ Return(t, FALSE)
    BY <1>2, <1>c, <2>1, ReturnFacts
  <2>2. CASE /\ CommitReportsSuccess(t, "commitRollback", "ROLLBACK_IN_PROGRESS")
             /\ Goto(t, "restoreCheck")
             /\ UNCHANGED <<frame, checkpoint, rebooting>>
    <3>1. LifecycleStep /\ NoTornFiles'
      BY <1>2, <1>a, <1>c, <2>2
    <3>2. frame[t].sid \in SessionIds =>
            sessions'[frame[t].sid] = "ROLLBACK_IN_PROGRESS"
      BY <2>2 DEF CommitReportsSuccess, Commits, CommitLost, WriteStateFile,
                  NoTornFiles, TypeOK, DiskType
    <3>3. pc'[t] = "restoreCheck"
      BY <2>2, GotoFacts
    <3>4. RecordedStates("restoreCheck") = {"ROLLBACK_IN_PROGRESS"}
      BY DEF RecordedStates
    <3>5. ReadsHold(t)'
      BY <2>2, <3>2, <3>3, <3>4 DEF ReadsHold, FreshLabels, ClearedLabels,
                                    ScanLabels
    <3> QED BY <3>1, <3>5
  <2> QED BY <1>5, <2>1, <2>2 DEF CommitRollback
<1>6. CASE CommitActivated(t) \/ CommitActivationFailed(t)
  <2>1. LifecycleStep /\ NoTornFiles'
    BY <1>2, <1>6, <1>a, <1>c DEF CommitActivated, CommitActivationFailed
  <2>2. \A s \in frame[t].listed : /\ s \in SessionIds /\ s # frame[t].sid
                                   /\ sessions[s] = "STAGED"
    BY <1>6, FrameFields
    DEF CommitActivated, CommitActivationFailed, CommitReportsSuccess, Commits,
        CommitLost, CommitFails, ReadsHold, ScanLabels, TypeOK, ThreadsType
  <2>3. \A s \in SessionIds : s # frame[t].sid => sessions'[s] = sessions[s]
    BY <1>6 DEF CommitActivated, CommitActivationFailed, CommitReportsSuccess,
                Commits, CommitLost, CommitFails, WriteStateFile, TypeOK, DiskType
  <2>4. frame'[t] = [EmptyFrame EXCEPT !.listed = frame[t].listed]
    BY <1>6 DEF CommitActivated, CommitActivationFailed, NextStagedSession,
                TypeOK, ThreadsType
  <2>5. frame'[t].sid = EmptyFrame.sid /\ frame'[t].listed = frame[t].listed
    BY <2>4 DEF EmptyFrame
  <2>6. pc'[t] = "stageScan"
    BY <1>6, GotoFacts DEF CommitActivated, CommitActivationFailed,
                           NextStagedSession
  <2>7. ReadsHold(t)'
    BY <2>2, <2>3, <2>5, <2>6, EmptyFrameFacts
    DEF ReadsHold, FreshLabels, ClearedLabels
  <2> QED BY <2>1, <2>7
<1> QED BY <1>1, <1>3, <1>4, <1>5, <1>6

\* vold, crashes and reboots.
LEMMA EnvironmentStep ==
  ASSUME TypeOK, SessionInv, VoldCommitChanges \/ ProcessDies \/ RebootDevice
  PROVE  LifecycleStep /\ SessionInv'
<1>0. NoDisk.sessions = Lifecycle!Blank
  BY DEF NoDisk, Lifecycle!Blank
<1>1. CASE VoldCommitChanges
  <2>1. /\ UNCHANGED <<sessions, opened, pc, frame>>
        /\ snapshot'.sessions = Lifecycle!Blank /\ Rewindable' = FALSE
    BY <1>0, <1>1 DEF VoldCommitChanges, disk, Rewindable
  <2>2. Lifecycle!Commit
    BY <2>1 DEF Lifecycle!Commit
  <2>3. SessionInv'
    BY <2>1 DEF SessionInv, NoTornFiles, ReadsHold, Lifecycle!Blank
  <2> QED BY <2>2, <2>3 DEF LifecycleStep, Lifecycle!Next
<1>2. ASSUME StartProcess,
             \A s \in SessionIds : /\ sessions'[s] # "EMPTY"
                                   /\ snapshot'.sessions[s] # "EMPTY"
      PROVE  SessionInv'
  <2>1. ASSUME NEW t \in Threads PROVE ReadsHold(t)'
    BY <1>2, EmptyFrameFacts DEF StartProcess, ReadsHold, ClearedLabels
  <2>2. \A t \in Threads : ~opened'[t]
    BY <1>2 DEF StartProcess
  <2> QED BY <1>2, <2>1, <2>2 DEF SessionInv, NoTornFiles
<1>3. CASE ProcessDies
  <2>1. UNCHANGED <<sessions, checkpoint, snapshot>> /\ StartProcess
    BY <1>3 DEF ProcessDies, disk, vold
  <2> QED BY <1>2, <2>1 DEF SessionInv, NoTornFiles, LifecycleStep, Rewindable
<1>4. CASE RebootDevice
  <2>1. CASE UNCHANGED <<disk, vold>>
    BY <1>2, <1>4, <2>1 DEF RebootDevice, SessionInv, NoTornFiles,
                            LifecycleStep, Rewindable, disk, vold
  <2>2. CASE /\ checkpoint = "requested" /\ checkpoint' = "active"
             /\ snapshot' = CurrentDisk /\ UNCHANGED disk
    <3>1. sessions' = sessions /\ snapshot'.sessions = sessions
      BY <2>2 DEF CurrentDisk, disk
    <3>2. Rewindable = FALSE /\ Rewindable' = TRUE
      BY <2>2 DEF Rewindable
    <3>3. Lifecycle!TakeCheckpoint
      BY <3>1, <3>2 DEF Lifecycle!TakeCheckpoint
    <3> QED BY <1>2, <1>4, <3>1, <3>3 DEF RebootDevice, SessionInv, NoTornFiles,
                                          LifecycleStep, Lifecycle!Next
  <2>3. CASE /\ checkpoint \in {"active", "aborted"}
             /\ checkpoint' \in {"active", "failed"}
             /\ snapshot' = IF checkpoint' = "active" THEN snapshot ELSE NoDisk
             /\ sessions' = snapshot.sessions
    <3>1. Rewindable = TRUE
      BY <2>3 DEF Rewindable
    <3>2. \/ Rewindable' = TRUE /\ snapshot'.sessions = snapshot.sessions
          \/ Rewindable' = FALSE /\ snapshot'.sessions = Lifecycle!Blank
      BY <1>0, <2>3 DEF Rewindable
    <3>3. Lifecycle!Rewind
      BY <2>3, <3>1, <3>2 DEF Lifecycle!Rewind
    <3>4. \A s \in SessionIds : /\ sessions'[s] # "EMPTY"
                                /\ snapshot'.sessions[s] # "EMPTY"
      BY <2>3, <3>2 DEF SessionInv, NoTornFiles, Lifecycle!Blank
    <3> QED BY <1>2, <1>4, <3>3, <3>4 DEF RebootDevice, LifecycleStep,
                                          Lifecycle!Next
  <2> QED BY <1>4, <2>1, <2>2, <2>3 DEF RebootDevice
<1> QED BY <1>1, <1>3, <1>4

\* Every step of a sequential apexd keeps SessionInv and is a step of the life
\* of the sessions.
LEMMA SessionStep ==
  ASSUME Sequential, TypeOK, SessionInv, [Next]_vars
  PROVE  LifecycleStep /\ SessionInv'
<1>0. TypeOK'
  BY NextType
<1>1. CASE UNCHANGED vars
  <2>1. UNCHANGED <<sessions, checkpoint, snapshot, opened, pc, frame>>
    BY <1>1 DEF vars, disk, vold
  <2> QED BY <2>1 DEF SessionInv, NoTornFiles, ReadsHold, LifecycleStep,
                      Rewindable
<1>2. ASSUME NEW t \in Threads, Request(t) \/ Step(t)
      PROVE  LifecycleStep /\ NoTornFiles' /\ ReadsHold(t)'
  <2>1. NoTornFiles /\ ReadsHold(t)
    BY DEF SessionInv
  <2>2. CASE Request(t)
    BY <1>0, <2>1, <2>2, RequestReadsHold, QuietStep
  <2>3. CASE Step(t)
    <3>1. ~OpenStateFile(t)
      BY DEF OpenStateFile, Sequential
    <3>2. CASE ClearSessions(t)
      BY <1>0, <2>1, <3>2, ClearStep
    <3>3. CASE AbortDelete(t)
      BY <2>1, <3>3, AbortStep
    <3>4. CASE \/ ProtectActivePackages(t) \/ BackupActivePackages(t)
               \/ DeleteBackup(t, "backupClean", "backupLink")
               \/ LinkBackup(t) \/ UndoBackup(t) \/ VerifySession(t)
      BY <1>0, <2>1, <3>4, SubmitReadsHold, QuietStep
    <3>5. CASE \/ DeleteBackup(t, "successClean", "commitSuccess")
               \/ RestoreCheck(t) \/ RestoreDelete(t) \/ RestoreRename(t)
               \/ RestoreChmod(t)
      BY <2>1, <3>5, RestoreReadsHold, QuietStep
    <3>6. CASE \/ StageVerify(t) \/ StageLink(t) \/ StageUndo(t)
               \/ StageRemove(t) \/ Unstage(t)
      BY <1>0, <2>1, <3>6, StageReadsHold, QuietStep
    <3>7. CASE \/ OnStart(t) \/ RollbackStagedSessionIfAny(t)
               \/ CollectApexKeys(t) \/ ScanStagedSession(t)
               \/ BootResumeRollback(t) \/ ScanData(t)
               \/ ActivateData(t) \/ ScanBuiltin(t)
               \/ ActivateBuiltin(t) \/ UnmountDanglingMounts(t)
      BY <1>0, <2>1, <3>7, BootReadsHold, QuietStep
    <3>8. CASE \/ CommitVerified(t) \/ CommitStaged(t) \/ CommitSuccess(t)
               \/ CommitStagedRollback(t) \/ CommitRollback(t)
               \/ CommitRollbackFailed(t) \/ CommitRolledBack(t)
               \/ CommitActivated(t) \/ CommitActivationFailed(t)
      BY <1>0, <2>1, <3>8, CommitStep
    <3> QED BY <2>3, <3>1, <3>2, <3>3, <3>4, <3>5, <3>6, <3>7, <3>8 DEF Step
  <2> QED BY <1>2, <2>2, <2>3
<1>3. ASSUME NEW t \in Threads, Request(t) \/ Step(t)
      PROVE  LifecycleStep /\ SessionInv'
  <2>1. \A u \in Threads : u = t
    BY OneThread
  <2> QED BY <1>2, <1>3, <2>1 DEF SessionInv
<1>4. CASE VoldCommitChanges \/ ProcessDies \/ RebootDevice
  BY <1>4, EnvironmentStep
<1> QED BY <1>1, <1>3, <1>4 DEF Next, RestartProcess, AbortProcess

LEMMA InitSession == Init => SessionInv /\ Lifecycle!Init
<1> SUFFICES ASSUME Init PROVE SessionInv /\ Lifecycle!Init
  OBVIOUS
<1>1. NoTornFiles
  BY DEF Init, NoTornFiles, NoDisk
<1>2. ASSUME NEW t \in Threads PROVE ReadsHold(t)
  BY EmptyFrameFacts DEF Init, ReadsHold, ClearedLabels
<1>3. Lifecycle!Init
  BY DEF Init, Lifecycle!Init, Lifecycle!Blank, Rewindable, NoDisk
<1> QED BY <1>1, <1>2, <1>3 DEF SessionInv

-----------------------------------------------------------------------------
\* What the handlers have read of the sessions stays true while they run.
THEOREM SessionInvariant ==
  ASSUME Sequential
  PROVE  Spec => []SessionInv
<1>1. TypeOK /\ SessionInv /\ [Next]_vars => SessionInv'
  BY SessionStep
<1> QED BY <1>1, InitSession, TypeCorrect, PTL DEF Spec

\* A sequential apexd implements SessionLifecycle: whatever crashes, reboots,
\* rewound checkpoints and failing calls do, the records of the sessions only
\* take the steps of the life of a session.
THEOREM ImplementsLifecycle ==
  ASSUME Sequential
  PROVE  Spec => FollowsLifecycle
<1>1. TypeOK /\ SessionInv /\ [Next]_vars => LifecycleStep
  BY SessionStep
<1> QED BY <1>1, InitSession, TypeCorrect, SessionInvariant, PTL
        DEF Spec, FollowsLifecycle, Lifecycle!Spec, LifecycleStep

\* No two records of a store are unfinalized.
OneAlive(store) == \A s, u \in Unfinalized(store) : s = u

\* The life of the sessions keeps at most one of them alive.
LEMMA LifecycleKeepsOneAlive ==
  ASSUME TypeOK, OneAlive(sessions), OneAlive(snapshot.sessions), LifecycleStep
  PROVE  OneAlive(sessions') /\ OneAlive(snapshot'.sessions)
<1> USE DEF OneAlive, Unfinalized, GetSessions
<1>0. /\ sessions \in [SessionIds -> FileStates]
      /\ OneAlive(Lifecycle!Blank)
  BY DEF TypeOK, DiskType, Lifecycle!Blank
<1>1. ASSUME NEW s \in SessionIds, Lifecycle!Submit(s)
      PROVE  OneAlive(sessions') /\ OneAlive(snapshot'.sessions)
  BY <1>0, <1>1 DEF Lifecycle!Submit, Lifecycle!Blank
<1>2. ASSUME NEW s \in SessionIds, Lifecycle!Advance(s)
      PROVE  OneAlive(sessions') /\ OneAlive(snapshot'.sessions)
  <2>1. PICK state \in Lifecycle!Successors(sessions[s]) :
          sessions' = [sessions EXCEPT ![s] = state]
    BY <1>2 DEF Lifecycle!Advance
  <2>2. sessions[s] # "NONE" /\ ~IsFinalized(sessions[s])
    BY <2>1 DEF Lifecycle!Successors, IsFinalized
  <2> QED BY <1>0, <1>2, <2>1, <2>2 DEF Lifecycle!Advance
<1>3. ASSUME NEW s \in SessionIds, Lifecycle!Discard(s)
      PROVE  OneAlive(sessions') /\ OneAlive(snapshot'.sessions)
  BY <1>0, <1>3 DEF Lifecycle!Discard
<1>4. CASE Lifecycle!TakeCheckpoint \/ Lifecycle!Commit \/ Lifecycle!Rewind
  BY <1>0, <1>4 DEF Lifecycle!TakeCheckpoint, Lifecycle!Commit, Lifecycle!Rewind
<1>5. CASE UNCHANGED <<sessions, snapshot.sessions>>
  BY <1>5
<1> QED BY <1>1, <1>2, <1>3, <1>4, <1>5 DEF LifecycleStep, Lifecycle!Next

\* ApexSession::GetActiveSession never finds two sessions, for any number of
\* sessions and packages, whatever crashes and failures a sequential apexd
\* meets.
THEOREM OneActiveSession ==
  ASSUME Sequential
  PROVE  Spec => []AtMostOneActiveSession
<1> DEFINE Inv == OneAlive(sessions) /\ OneAlive(snapshot.sessions)
<1>1. Init => Inv
  BY DEF Init, OneAlive, Unfinalized, GetSessions, NoDisk
<1>2. TypeOK /\ SessionInv /\ Inv /\ [Next]_vars => Inv'
  BY SessionStep, LifecycleKeepsOneAlive
<1>3. Inv => AtMostOneActiveSession
  BY DEF OneAlive, AtMostOneActiveSession
<1> QED BY <1>1, <1>2, <1>3, TypeCorrect, SessionInvariant, PTL DEF Spec

=============================================================================
