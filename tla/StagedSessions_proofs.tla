------------------------ MODULE StagedSessions_proofs ------------------------
(***************************************************************************)
(* Proofs about StagedSessions.                                            *)
(***************************************************************************)
EXTENDS StagedSessions, TLAPS

-----------------------------------------------------------------------------
(* Type correctness.                                                       *)

\* What a step does not change keeps its type.
LEMMA UnchangedType ==
  ASSUME TypeOK
  PROVE  /\ UNCHANGED disk => DiskType'
         /\ UNCHANGED vold => VoldType'
         /\ UNCHANGED mounts => MountsType'
         /\ UNCHANGED process => ProcessType'
         /\ UNCHANGED <<pc, frame>> => ThreadsType'
         /\ UNCHANGED opened => opened' \in [Threads -> BOOLEAN]
         /\ UNCHANGED history => HistoryType'
         /\ UNCHANGED outside => /\ VoldType' /\ MountsType' /\ ProcessType'
                                 /\ opened' \in [Threads -> BOOLEAN]
                                 /\ HistoryType'
<1>1. UNCHANGED disk => DiskType'
  BY DEF TypeOK, disk, DiskType
<1>2. UNCHANGED vold => VoldType'
  BY DEF TypeOK, vold, VoldType
<1>3. UNCHANGED mounts => MountsType'
  BY DEF TypeOK, mounts, MountsType
<1>4. UNCHANGED process => ProcessType'
  BY DEF TypeOK, process, ProcessType
<1>5. UNCHANGED <<pc, frame>> => ThreadsType'
  BY DEF TypeOK, ThreadsType
<1>6. UNCHANGED opened => opened' \in [Threads -> BOOLEAN]
  BY DEF TypeOK
<1>7. UNCHANGED history => HistoryType'
  BY DEF TypeOK, history, HistoryType
<1> QED BY <1>1, <1>2, <1>3, <1>4, <1>5, <1>6, <1>7 DEF outside

\* A fresh frame has the type of a frame.
LEMMA EmptyFrameType == EmptyFrame \in Frames
BY DEF EmptyFrame, Frames, Callers

\* The fields of a frame have the types Frames gives them.
LEMMA FrameFields ==
  ASSUME NEW f \in Frames
  PROVE  /\ f.sid \in SessionIds \cup {NoSession}
         /\ f.caller \in Callers
         /\ f.listed \subseteq SessionIds
         /\ f.todo \subseteq Apexes
         /\ f.staged \subseteq Apexes
         /\ f.failed \subseteq Apexes
BY DEF Frames

\* An assignment to one field of a frame keeps the types.
LEMMA FieldTypes ==
  ASSUME NEW frames \in [Threads -> Frames], NEW t \in Threads
  PROVE  /\ \A x \in SessionIds \cup {NoSession} :
              [frames EXCEPT ![t].sid = x] \in [Threads -> Frames]
         /\ \A x \in Callers :
              [frames EXCEPT ![t].caller = x] \in [Threads -> Frames]
         /\ \A x \in SUBSET SessionIds :
              [frames EXCEPT ![t].listed = x] \in [Threads -> Frames]
         /\ \A x \in SUBSET Apexes :
              /\ [frames EXCEPT ![t].todo = x] \in [Threads -> Frames]
              /\ [frames EXCEPT ![t].staged = x] \in [Threads -> Frames]
              /\ [frames EXCEPT ![t].base = x] \in [Threads -> Frames]
              /\ [frames EXCEPT ![t].failed = x] \in [Threads -> Frames]
BY DEF Frames

\* Goto, Leave and Enter keep the types of pc and frame.
LEMMA GotoType ==
  ASSUME TypeOK, NEW t \in Threads, NEW label \in Labels, Goto(t, label)
  PROVE  pc' \in [Threads -> Labels]
BY DEF TypeOK, ThreadsType, Goto

LEMMA LeaveType ==
  ASSUME TypeOK, NEW t \in Threads, NEW label \in Labels, Leave(t, label)
  PROVE  ThreadsType'
BY EmptyFrameType DEF TypeOK, ThreadsType, Leave, Goto

LEMMA EnterType ==
  ASSUME TypeOK, NEW t \in Threads, NEW label \in Labels,
         NEW s \in SessionIds, NEW c \in Callers, Enter(t, label, s, c)
  PROVE  ThreadsType'
<1>1. pc' \in [Threads -> Labels]
  BY GotoType DEF Enter
<1>2. [frame EXCEPT ![t].sid = s, ![t].caller = c] \in [Threads -> Frames]
  <2> DEFINE first == [frame EXCEPT ![t].sid = s]
  <2>1. first \in [Threads -> Frames]
    BY FieldTypes DEF TypeOK, ThreadsType
  <2>2. [first EXCEPT ![t].caller = c] \in [Threads -> Frames]
    <3> HIDE DEF first
    <3> QED BY <2>1, FieldTypes
  <2> QED BY <2>2
<1> QED BY <1>1, <1>2 DEF Enter, ThreadsType

LEMMA ReturnType ==
  ASSUME TypeOK, NEW t \in Threads, NEW ok \in BOOLEAN, Return(t, ok)
  PROVE  /\ ThreadsType'
         /\ checkpoint' \in {"none", "requested", "active", "aborted", "failed"}
         /\ rebooting' \in BOOLEAN
<1>1. ReturnLabel(frame[t].caller) \in Labels
  BY DEF ReturnLabel, Labels
<1>2. ThreadsType'
  BY <1>1, LeaveType DEF Return
<1> QED BY <1>2 DEF TypeOK, VoldType, ProcessType, Return, AbortAndReboot,
                   VoldAbortChanges

LEMMA RollbackSessionType ==
  ASSUME TypeOK, NEW t \in Threads, NEW s \in SessionIds, NEW c \in Callers,
         RollbackSession(t, s, c)
  PROVE  ThreadsType'
BY EnterType DEF RollbackSession, Labels, CommitLabels

LEMMA ResumeRollbackType ==
  ASSUME TypeOK, NEW t \in Threads, NEW s \in SessionIds, NEW c \in Callers,
         ResumeRollback(t, s, c)
  PROVE  ThreadsType'
BY EnterType DEF ResumeRollback, Labels, CommitLabels

\* A commit keeps the types of what it writes.
LEMMA CommitType ==
  ASSUME TypeOK, NEW t \in Threads, NEW label, NEW state \in States,
         CommitReportsSuccess(t, label, state) \/ CommitFails(t, label),
         CommitFrame
  PROVE  DiskType' /\ MountsType' /\ opened' \in [Threads -> BOOLEAN]
         /\ HistoryType' /\ snapshot' = snapshot
<1>1. /\ sessions' \in [SessionIds -> FileStates]
      /\ opened' \in [Threads -> BOOLEAN]
  BY DEF TypeOK, DiskType, CommitReportsSuccess, Commits, CommitLost,
         CommitFails, WriteStateFile, FileStates
<1> QED BY <1>1, UnchangedType DEF TypeOK, DiskType, CommitFrame

\* A commit after which the thread goes on with a fresh frame.
LEMMA CommitAndLeaveType ==
  ASSUME TypeOK, NEW t \in Threads, NEW label, NEW next \in Labels,
         NEW state \in States,
         CommitReportsSuccess(t, label, state) \/ CommitFails(t, label),
         Leave(t, next), CommitFrame, UNCHANGED <<checkpoint, rebooting>>
  PROVE  TypeOK'
<1>1. ThreadsType'
  BY LeaveType
<1>2. VoldType' /\ ProcessType'
  BY DEF TypeOK, VoldType, ProcessType, CommitFrame
<1> QED BY <1>1, <1>2, CommitType DEF TypeOK

\* A commit that ends a rollback.
LEMMA CommitAndReturnType ==
  ASSUME TypeOK, NEW t \in Threads, NEW label, NEW ok \in BOOLEAN,
         NEW state \in States,
         CommitReportsSuccess(t, label, state) \/ CommitFails(t, label),
         Return(t, ok), CommitFrame
  PROVE  TypeOK'
<1>1. VoldType' /\ ProcessType'
  BY ReturnType DEF TypeOK, VoldType, ProcessType, CommitFrame
<1> QED BY <1>1, ReturnType, CommitType DEF TypeOK

\* The mounts and the frame keep their types when a package is activated.
LEMMA ActivateOneType ==
  ASSUME TypeOK, NEW t \in Threads, NEW dir \in {"data", "builtin"},
         ActivateOne(t, dir)
  PROVE  MountsType' /\ ThreadsType'
<1>0. frame[t] \in Frames /\ frame[t].todo \subseteq Apexes
      /\ frame[t].failed \subseteq Apexes
  BY FrameFields DEF TypeOK, ThreadsType
<1>1. PICK a \in frame[t].todo :
        \/ /\ ActivatePackage(a, dir)
           /\ frame' = [frame EXCEPT ![t].todo = @ \ {a}]
        \/ /\ ActivatePackageFails(a, dir)
           /\ frame' = [frame EXCEPT ![t].todo = @ \ {a},
                                     ![t].failed = @ \cup {a}]
  BY DEF ActivateOne
<1>2. MountPackage(a, dir) => mounted' \in SUBSET Mounts
  BY <1>0 DEF MountPackage, Mounts, TypeOK, MountsType
<1>3. ASSUME ActivatePackage(a, dir) PROVE MountsType'
  BY <1>2, <1>3 DEF ActivatePackage, SetLatest, TypeOK, MountsType, mounts
<1>4. ASSUME ActivatePackageFails(a, dir) PROVE MountsType'
  BY <1>2, <1>4 DEF ActivatePackageFails, TypeOK, MountsType
<1>5. /\ [frame EXCEPT ![t].todo = @ \ {a}] \in [Threads -> Frames]
      /\ [frame EXCEPT ![t].todo = @ \ {a}, ![t].failed = @ \cup {a}]
           \in [Threads -> Frames]
  BY <1>0 DEF TypeOK, ThreadsType, Frames
<1>6. ThreadsType'
  BY <1>1, <1>5 DEF ActivateOne, TypeOK, ThreadsType
<1> QED BY <1>1, <1>3, <1>4, <1>6

\* A failed activation of /data/apex/active.
LEMMA ActivationFailedType ==
  ASSUME TypeOK, NEW t \in Threads, ActivationFailed(t)
  PROVE  /\ ThreadsType'
         /\ checkpoint' \in {"none", "requested", "active", "aborted", "failed"}
         /\ rebooting' \in BOOLEAN
<1>1. Leave(t, "scanBuiltin") => ThreadsType'
  BY LeaveType DEF Labels
<1>2. "bootActivate" \in Callers
  BY DEF Callers
<1>3. ThreadsType'
  BY <1>1, <1>2, RollbackSessionType DEF ActivationFailed
<1> QED BY <1>3 DEF ActivationFailed, AbortAndReboot, VoldAbortChanges, TypeOK,
                   VoldType, ProcessType

\* The steps of submitStagedSession and of DeleteBackup keep the types.
LEMMA SubmitType ==
  ASSUME TypeOK, NEW t \in Threads,
         \/ ClearSessions(t) \/ ProtectActivePackages(t)
         \/ BackupActivePackages(t)
         \/ DeleteBackup(t, "backupClean", "backupLink")
         \/ LinkBackup(t) \/ UndoBackup(t) \/ VerifySession(t)
         \/ DeleteBackup(t, "successClean", "commitSuccess")
  PROVE  TypeOK'
<1>0. /\ frame[t] \in Frames
      /\ frame[t].listed \subseteq SessionIds
      /\ frame[t].todo \subseteq Apexes
  BY FrameFields DEF TypeOK, ThreadsType
<1>a. Finish(t) => ThreadsType'
  BY LeaveType DEF Finish, Labels
<1>b. ASSUME NEW label \in Labels, Goto(t, label), UNCHANGED frame
      PROVE  ThreadsType'
  BY <1>b, GotoType DEF TypeOK, ThreadsType
<1>1. CASE ClearSessions(t)
  <2>1. ASSUME NEW s \in SessionIds
        PROVE  /\ DeleteSession(sessions, s) \in [SessionIds -> FileStates]
               /\ [frame EXCEPT ![t].listed = @ \ {s}] \in [Threads -> Frames]
    BY <1>0 DEF TypeOK, DiskType, ThreadsType, DeleteSession, FileStates, Frames
  <2>2. ThreadsType'
    BY <1>0, <1>1, <1>a, <1>b, <2>1
    DEF ClearSessions, Labels, TypeOK, ThreadsType
  <2>3. DiskType'
    BY <1>0, <1>1, <2>1 DEF ClearSessions, TypeOK, DiskType
  <2> QED BY <1>1, <2>2, <2>3, UnchangedType DEF ClearSessions, TypeOK
<1>2. CASE ProtectActivePackages(t)
  <2>1. ThreadsType'
    BY <1>2, <1>b DEF ProtectActivePackages, Labels
  <2>2. VoldType' /\ HistoryType'
    BY <1>2 DEF ProtectActivePackages, VoldStartCheckpoint, TypeOK, DiskType,
                VoldType, HistoryType
  <2> QED BY <1>2, <2>1, <2>2, UnchangedType DEF ProtectActivePackages, TypeOK
<1>3. CASE BackupActivePackages(t)
  <2>1. [frame EXCEPT ![t].todo = IF activeDir THEN active ELSE {}]
          \in [Threads -> Frames]
    BY DEF TypeOK, DiskType, ThreadsType, Frames
  <2>2. ThreadsType'
    BY <1>3, <1>a, <2>1, GotoType DEF BackupActivePackages, Labels, ThreadsType
  <2>3. DiskType'
    BY <1>3 DEF BackupActivePackages, TypeOK, DiskType
  <2> QED BY <1>3, <2>2, <2>3, UnchangedType DEF BackupActivePackages, TypeOK
<1>4. CASE LinkBackup(t)
  <2>1. ASSUME NEW a
        PROVE  [frame EXCEPT ![t].todo = @ \ {a}] \in [Threads -> Frames]
    BY <1>0 DEF TypeOK, ThreadsType, Frames
  <2>2. ThreadsType'
    BY <1>4, <1>b, <2>1 DEF LinkBackup, Labels, TypeOK, ThreadsType
  <2>3. DiskType'
    BY <1>0, <1>4 DEF LinkBackup, TypeOK, DiskType
  <2> QED BY <1>4, <2>2, <2>3, UnchangedType DEF LinkBackup, TypeOK
<1>5. CASE \/ DeleteBackup(t, "backupClean", "backupLink")
           \/ DeleteBackup(t, "successClean", "commitSuccess")
           \/ UndoBackup(t)
  <2>1. ThreadsType'
    BY <1>5, <1>a, <1>b, UnchangedType
    DEF DeleteBackup, UndoBackup, Labels, CommitLabels
  <2>2. DiskType'
    BY <1>5 DEF DeleteBackup, UndoBackup, TypeOK, DiskType
  <2> QED BY <1>5, <2>1, <2>2, UnchangedType DEF DeleteBackup, UndoBackup, TypeOK
<1>6. CASE VerifySession(t)
  <2>1. ThreadsType'
    BY <1>6, <1>a, <1>b DEF VerifySession, Labels, CommitLabels
  <2> QED BY <1>6, <2>1, UnchangedType DEF VerifySession, TypeOK
<1> QED BY <1>1, <1>2, <1>3, <1>4, <1>5, <1>6

\* The commits, and the opening of the state file, keep the types.
LEMMA CommitsType ==
  ASSUME TypeOK, NEW t \in Threads,
         \/ OpenStateFile(t) \/ CommitVerified(t) \/ CommitStaged(t)
         \/ CommitSuccess(t) \/ CommitStagedRollback(t) \/ CommitRollback(t)
         \/ CommitRollbackFailed(t) \/ CommitRolledBack(t)
         \/ CommitActivated(t) \/ CommitActivationFailed(t)
  PROVE  TypeOK'
<1>1. CASE OpenStateFile(t)
  <2>1. DiskType' /\ opened' \in [Threads -> BOOLEAN]
    BY <1>1 DEF OpenStateFile, TypeOK, DiskType, FileStates
  <2> QED BY <1>1, <2>1, UnchangedType DEF OpenStateFile, TypeOK
<1>2. CASE CommitVerified(t) \/ CommitStaged(t) \/ CommitSuccess(t)
  BY <1>2, CommitAndLeaveType
  DEF CommitVerified, CommitStaged, CommitSuccess, Finish, States, Labels
<1>3. CASE \/ CommitStagedRollback(t) \/ CommitRollbackFailed(t)
           \/ CommitRolledBack(t)
  BY <1>3, CommitAndReturnType
  DEF CommitStagedRollback, CommitRollbackFailed, CommitRolledBack, States
<1>4. CASE CommitRollback(t)
  <2>1. CASE CommitFails(t, "commitRollback") /\ Return(t, FALSE)
    BY <1>4, <2>1, CommitAndReturnType DEF CommitRollback, States
  <2>2. CASE /\ CommitReportsSuccess(t, "commitRollback", "ROLLBACK_IN_PROGRESS")
             /\ Goto(t, "restoreCheck")
             /\ UNCHANGED <<frame, checkpoint, rebooting>>
    <3>1. ThreadsType'
      BY <2>2, GotoType DEF Labels, TypeOK, ThreadsType
    <3>2. VoldType' /\ ProcessType'
      BY <1>4, <2>2 DEF CommitRollback, CommitFrame, TypeOK, VoldType, ProcessType
    <3> QED BY <1>4, <2>2, <3>1, <3>2, CommitType DEF CommitRollback, States, TypeOK
  <2> QED BY <1>4, <2>1, <2>2 DEF CommitRollback
<1>5. CASE CommitActivated(t) \/ CommitActivationFailed(t)
  <2>1. frame[t].listed \subseteq SessionIds
    BY FrameFields DEF TypeOK, ThreadsType
  <2>2. [EmptyFrame EXCEPT !.listed = frame[t].listed] \in Frames
    BY <2>1, EmptyFrameType DEF Frames
  <2>3. ThreadsType'
    BY <1>5, <2>2, GotoType
    DEF CommitActivated, CommitActivationFailed, NextStagedSession, TypeOK,
        ThreadsType, Labels
  <2>4. VoldType' /\ ProcessType'
    BY <1>5 DEF CommitActivated, CommitActivationFailed, CommitFrame, TypeOK,
                VoldType, ProcessType
  <2> QED BY <1>5, <2>3, <2>4, CommitType
          DEF CommitActivated, CommitActivationFailed, States, TypeOK
<1> QED BY <1>1, <1>2, <1>3, <1>4, <1>5

\* The steps of DoRollback and abortActiveSession keep the types.
LEMMA RestoreType ==
  ASSUME TypeOK, NEW t \in Threads,
         \/ AbortDelete(t) \/ RestoreCheck(t) \/ RestoreDelete(t)
         \/ RestoreRename(t) \/ RestoreChmod(t)
  PROVE  TypeOK'
<1>1. CASE AbortDelete(t)
  <2>1. ThreadsType'
    BY <1>1, LeaveType DEF AbortDelete, Finish, Labels
  <2>2. DiskType'
    BY <1>1 DEF AbortDelete, DeleteSession, TypeOK, DiskType, FileStates
  <2> QED BY <1>1, <2>1, <2>2, UnchangedType DEF AbortDelete, TypeOK
<1>2. CASE RestoreCheck(t) \/ RestoreChmod(t)
  <2>1. ThreadsType'
    BY <1>2, GotoType
    DEF RestoreCheck, RestoreChmod, TypeOK, ThreadsType, Labels, CommitLabels
  <2> QED BY <1>2, <2>1, UnchangedType DEF RestoreCheck, RestoreChmod, TypeOK
<1>3. CASE RestoreDelete(t) \/ RestoreRename(t)
  <2>1. ThreadsType'
    BY <1>3, GotoType
    DEF RestoreDelete, RestoreRename, TypeOK, ThreadsType, Labels, CommitLabels
  <2>2. DiskType'
    BY <1>3 DEF RestoreDelete, RestoreRename, TypeOK, DiskType
  <2>3. HistoryType'
    BY <1>3 DEF RestoreDelete, RestoreRename, TypeOK, HistoryType
  <2> QED BY <1>3, <2>1, <2>2, <2>3, UnchangedType
          DEF RestoreDelete, RestoreRename, TypeOK
<1> QED BY <1>1, <1>2, <1>3

\* The steps of stagePackages and unstagePackages keep the types.
LEMMA StageType ==
  ASSUME TypeOK, NEW t \in Threads,
         \/ StageVerify(t) \/ StageLink(t) \/ StageUndo(t) \/ StageRemove(t)
         \/ Unstage(t)
  PROVE  TypeOK'
<1>0. /\ frame[t] \in Frames
      /\ frame[t].todo \subseteq Apexes
      /\ frame[t].staged \subseteq Apexes
  BY FrameFields DEF TypeOK, ThreadsType
<1>a. StageSucceeds(t) \/ StageFails(t) => ThreadsType'
  BY LeaveType, GotoType
  DEF StageSucceeds, StageFails, Finish, Labels, CommitLabels, TypeOK, ThreadsType
<1>b. Finish(t) => ThreadsType'
  BY LeaveType DEF Finish, Labels
<1>c. ASSUME NEW a
      PROVE  [frame EXCEPT ![t].todo = @ \ {a}] \in [Threads -> Frames]
  BY <1>0 DEF TypeOK, ThreadsType, Frames
<1>1. CASE StageVerify(t)
  <2> DEFINE paths == FilterUnnecessaryStagingPaths(frame[t].todo)
  <2>1. paths \in SUBSET Apexes
    BY <1>0 DEF FilterUnnecessaryStagingPaths
  <2>2. [frame EXCEPT ![t].todo = paths, ![t].base = active]
          \in [Threads -> Frames]
    <3> HIDE DEF paths
    <3> DEFINE first == [frame EXCEPT ![t].todo = paths]
    <3>1. first \in [Threads -> Frames]
      BY <2>1, FieldTypes DEF TypeOK, ThreadsType
    <3>2. [first EXCEPT ![t].base = active] \in [Threads -> Frames]
      <4> HIDE DEF first
      <4> QED BY <3>1, FieldTypes DEF TypeOK, DiskType
    <3> QED BY <3>2
  <2>3. ThreadsType'
    <3>1. CASE StageSucceeds(t) \/ StageFails(t)
      BY <1>a, <3>1
    <3>2. CASE /\ Goto(t, "stageLink")
               /\ frame' = [frame EXCEPT ![t].todo = paths, ![t].base = active]
      BY <2>2, <3>2, GotoType DEF Labels, ThreadsType
    <3> QED BY <1>1, <3>1, <3>2 DEF StageVerify
  <2>4. DiskType'
    BY <1>1 DEF StageVerify, TypeOK, DiskType
  <2> QED BY <1>1, <2>3, <2>4, UnchangedType DEF StageVerify, TypeOK
<1>2. CASE StageLink(t)
  <2>1. ASSUME NEW a \in Apexes
        PROVE  [frame EXCEPT ![t].todo = @ \ {a}, ![t].staged = @ \cup {a}]
                 \in [Threads -> Frames]
    BY <1>0 DEF TypeOK, ThreadsType, Frames
  <2>2. [frame EXCEPT ![t].todo = PreviouslyActive(frame[t].staged)]
          \in [Threads -> Frames]
    BY DEF TypeOK, DiskType, ThreadsType, Frames, PreviouslyActive
  <2>3. ThreadsType'
    <3>1. pc' \in [Threads -> Labels]
      BY <1>2, GotoType DEF StageLink, Labels, TypeOK, ThreadsType
    <3>2. frame' \in [Threads -> Frames]
      <4>1. CASE UNCHANGED frame
        BY <4>1 DEF TypeOK, ThreadsType
      <4>2. ASSUME NEW a \in frame[t].todo,
                   frame' = [frame EXCEPT ![t].todo = @ \ {a},
                                          ![t].staged = @ \cup {a}]
            PROVE  frame' \in [Threads -> Frames]
        BY <1>0, <2>1, <4>2
      <4>3. CASE frame' = [frame EXCEPT
                             ![t].todo = PreviouslyActive(frame[t].staged)]
        BY <2>2, <4>3
      <4> QED BY <1>2, <4>1, <4>2, <4>3 DEF StageLink
    <3> QED BY <3>1, <3>2 DEF ThreadsType
  <2>4. DiskType'
    BY <1>0, <1>2 DEF StageLink, TypeOK, DiskType
  <2> QED BY <1>2, <2>3, <2>4, UnchangedType DEF StageLink, TypeOK
<1>3. CASE StageUndo(t)
  <2>1. ASSUME NEW a
        PROVE  [frame EXCEPT ![t].staged = @ \ {a}] \in [Threads -> Frames]
    BY <1>0 DEF TypeOK, ThreadsType, Frames
  <2>2. ThreadsType'
    BY <1>3, <1>a, <2>1 DEF StageUndo, TypeOK, ThreadsType
  <2>3. DiskType'
    BY <1>3 DEF StageUndo, TypeOK, DiskType
  <2> QED BY <1>3, <2>2, <2>3, UnchangedType DEF StageUndo, TypeOK
<1>4. CASE StageRemove(t) \/ Unstage(t)
  <2>1. ThreadsType'
    BY <1>4, <1>a, <1>b, <1>c DEF StageRemove, Unstage, TypeOK, ThreadsType
  <2>2. DiskType'
    BY <1>4 DEF StageRemove, Unstage, TypeOK, DiskType
  <2> QED BY <1>4, <2>1, <2>2, UnchangedType DEF StageRemove, Unstage, TypeOK
<1> QED BY <1>1, <1>2, <1>3, <1>4

\* The steps of onStart and unmountDanglingMounts keep the types.
LEMMA BootType ==
  ASSUME TypeOK, NEW t \in Threads,
         \/ OnStart(t) \/ RollbackStagedSessionIfAny(t) \/ CollectApexKeys(t)
         \/ ScanStagedSession(t) \/ BootResumeRollback(t) \/ ScanData(t)
         \/ ActivateData(t) \/ ScanBuiltin(t) \/ ActivateBuiltin(t)
         \/ UnmountDanglingMounts(t)
  PROVE  TypeOK'
<1>0. frame[t] \in Frames /\ frame[t].listed \subseteq SessionIds
  BY FrameFields DEF TypeOK, ThreadsType
<1>a. Finish(t) => ThreadsType'
  BY LeaveType DEF Finish, Labels
<1>b. ASSUME NEW label \in Labels, Goto(t, label), UNCHANGED frame
      PROVE  ThreadsType'
  BY <1>b, GotoType DEF TypeOK, ThreadsType
<1>1. CASE OnStart(t)
  <2>1. ThreadsType'
    BY <1>1, <1>b DEF OnStart, Labels
  <2>2. gSupportsFsCheckpoints' \in BOOLEAN
    BY <1>1, EnvironmentAssumption DEF OnStart
  <2>3. gInFsCheckpointMode' \in BOOLEAN
    BY <1>1, <2>2 DEF OnStart
  <2>4. ProcessType'
    BY <1>1, <2>2, <2>3 DEF OnStart, TypeOK, ProcessType
  <2> QED BY <1>1, <2>1, <2>4, UnchangedType DEF OnStart, TypeOK
<1>2. CASE RollbackStagedSessionIfAny(t)
  <2>1. ThreadsType'
    BY <1>2, <1>b, EnterType
    DEF RollbackStagedSessionIfAny, Labels, CommitLabels, Callers
  <2> QED BY <1>2, <2>1, UnchangedType DEF RollbackStagedSessionIfAny, TypeOK
<1>3. CASE CollectApexKeys(t)
  <2>1. ASSUME NEW ids \in Listing(GetSessionsInState(sessions, "STAGED"))
        PROVE  [frame EXCEPT ![t].listed = ids] \in [Threads -> Frames]
    <3>1. ids \in SUBSET SessionIds
      BY <2>1 DEF Listing, GetSessionsInState, GetSessions
    <3> QED BY <3>1 DEF TypeOK, ThreadsType, Frames
  <2>2. ThreadsType'
    BY <1>3, <1>a, <2>1, GotoType DEF CollectApexKeys, Labels, ThreadsType
  <2>3. MountsType'
    BY <1>3 DEF CollectApexKeys, Highest, TypeOK, MountsType
  <2>4. ProcessType'
    BY <1>3 DEF CollectApexKeys, TypeOK, ProcessType
  <2> QED BY <1>3, <2>2, <2>3, <2>4, UnchangedType DEF CollectApexKeys, TypeOK
<1>4. CASE ScanStagedSession(t)
  <2>1. ASSUME NEW s \in SessionIds
        PROVE  [frame EXCEPT ![t].sid = s, ![t].caller = "bootStage",
                             ![t].listed = @ \ {s}, ![t].todo = Staging[s]]
                 \in [Threads -> Frames]
    <3>1. Staging[s] \in SUBSET Apexes
      BY StagingAssumption
    <3>2. "bootStage" \in Callers
      BY DEF Callers
    <3> DEFINE one == [frame EXCEPT ![t].sid = s]
               two == [one EXCEPT ![t].caller = "bootStage"]
               three == [two EXCEPT ![t].listed = @ \ {s}]
    <3>3. one \in [Threads -> Frames]
      BY FieldTypes DEF TypeOK, ThreadsType
    <3>4. two \in [Threads -> Frames]
      <4> HIDE DEF one
      <4> QED BY <3>2, <3>3, FieldTypes
    <3>5. three \in [Threads -> Frames]
      <4> HIDE DEF two
      <4>1. two[t].listed \ {s} \in SUBSET SessionIds
        BY <3>4, FrameFields
      <4> QED BY <3>4, <4>1, FieldTypes
    <3>6. [three EXCEPT ![t].todo = Staging[s]] \in [Threads -> Frames]
      <4> HIDE DEF three
      <4> QED BY <3>1, <3>5, FieldTypes
    <3> QED BY <3>6
  <2>2. ThreadsType'
    <3>1. CASE Leave(t, "resume")
      BY <3>1, LeaveType DEF Labels
    <3>2. CASE \E s \in frame[t].listed :
                 /\ Goto(t, "stageVerify") \/ Goto(t, "commitActivationFailed")
                 /\ frame' = [frame EXCEPT ![t].sid = s,
                                           ![t].caller = "bootStage",
                                           ![t].listed = @ \ {s},
                                           ![t].todo = Staging[s]]
      <4>1. PICK s \in frame[t].listed :
                 /\ Goto(t, "stageVerify") \/ Goto(t, "commitActivationFailed")
                 /\ frame' = [frame EXCEPT ![t].sid = s,
                                           ![t].caller = "bootStage",
                                           ![t].listed = @ \ {s},
                                           ![t].todo = Staging[s]]
        BY <3>2
      <4>2. frame' \in [Threads -> Frames]
        BY <1>0, <2>1, <4>1
      <4>3. pc' \in [Threads -> Labels]
        BY <4>1, GotoType DEF Labels, CommitLabels
      <4> QED BY <4>2, <4>3 DEF ThreadsType
    <3> QED BY <1>4, <3>1, <3>2 DEF ScanStagedSession
  <2> QED BY <1>4, <2>2, UnchangedType DEF ScanStagedSession, TypeOK
<1>5. CASE BootResumeRollback(t)
  <2>1. ThreadsType'
    BY <1>5, <1>b, ResumeRollbackType DEF BootResumeRollback, Labels, Callers
  <2> QED BY <1>5, <2>1, UnchangedType DEF BootResumeRollback, TypeOK
<1>c. ASSUME NEW todo \in SUBSET Apexes
      PROVE  [frame EXCEPT ![t].todo = todo] \in [Threads -> Frames]
  BY DEF TypeOK, ThreadsType, Frames
<1>d. Leave(t, "scanBuiltin") => ThreadsType'
  BY LeaveType DEF Labels
<1>e. ToActivate(active) \subseteq Apexes /\ ToActivate(Builtin) \subseteq Apexes
  BY BuiltinAssumption DEF TypeOK, DiskType, ToActivate
<1>f. ASSUME checkpoint' \in {"none", "requested", "active", "aborted", "failed"},
             rebooting' \in BOOLEAN,
             UNCHANGED <<snapshot, phase, populated, gSupportsFsCheckpoints,
                         gInFsCheckpointMode>>
      PROVE  VoldType' /\ ProcessType'
  BY <1>f DEF TypeOK, VoldType, ProcessType
<1>g. UNCHANGED <<checkpoint, rebooting>> =>
        /\ checkpoint' \in {"none", "requested", "active", "aborted", "failed"}
        /\ rebooting' \in BOOLEAN
  BY DEF TypeOK, VoldType, ProcessType
<1>6. CASE ScanData(t)
  <2>1. ThreadsType'
    <3>1. CASE /\ Goto(t, "activateData")
               /\ frame' = [frame EXCEPT ![t].todo = ToActivate(active)]
      BY <1>c, <1>e, <3>1, GotoType DEF ThreadsType, Labels
    <3> QED BY <1>6, <3>1, ActivationFailedType DEF ScanData
  <2>2. VoldType' /\ ProcessType'
    BY <1>6, <1>f, <1>g, ActivationFailedType DEF ScanData
  <2> QED BY <1>6, <2>1, <2>2, UnchangedType DEF ScanData, TypeOK
<1>7. CASE ActivateData(t)
  <2>1. ThreadsType' /\ MountsType'
    BY <1>7, <1>d, ActivateOneType, ActivationFailedType, UnchangedType
       DEF ActivateData
  <2>2. VoldType' /\ ProcessType'
    BY <1>7, <1>f, <1>g, ActivationFailedType DEF ActivateData
  <2> QED BY <1>7, <2>1, <2>2, UnchangedType DEF ActivateData, TypeOK
<1>9. CASE ScanBuiltin(t)
  <2>1. ThreadsType'
    BY <1>9, <1>c, <1>e, GotoType DEF ScanBuiltin, ThreadsType, Labels
  <2> QED BY <1>9, <2>1, UnchangedType DEF ScanBuiltin, TypeOK
<1>10. CASE ActivateBuiltin(t)
  <2>1. ThreadsType' /\ MountsType'
    BY <1>10, <1>a, ActivateOneType, UnchangedType DEF ActivateBuiltin
  <2>2. ProcessType'
    BY <1>10 DEF ActivateBuiltin, TypeOK, ProcessType
  <2> QED BY <1>10, <2>1, <2>2, UnchangedType DEF ActivateBuiltin, TypeOK
<1>8. CASE UnmountDanglingMounts(t)
  <2>1. ThreadsType'
    BY <1>8, <1>a, UnchangedType DEF UnmountDanglingMounts
  <2>2. DiskType' /\ MountsType'
    BY <1>8 DEF UnmountDanglingMounts, TypeOK, DiskType, MountsType
  <2> QED BY <1>8, <2>1, <2>2, UnchangedType DEF UnmountDanglingMounts, TypeOK
<1> QED BY <1>1, <1>2, <1>3, <1>4, <1>5, <1>6, <1>7, <1>8, <1>9, <1>10

\* The first steps of the handlers keep the types.
LEMMA RequestType ==
  ASSUME TypeOK, NEW t \in Threads, Request(t)
  PROVE  TypeOK'
<1>a. ASSUME NEW paths \in SUBSET Apexes
      PROVE  [frame EXCEPT ![t].todo = paths] \in [Threads -> Frames]
  BY DEF TypeOK, ThreadsType, Frames
<1>1. ASSUME NEW s \in SessionIds, SubmitStagedSession(t, s)
      PROVE  TypeOK'
  <2>1. PICK ids \in Listing(GetSessions(sessions)) :
          frame' = [frame EXCEPT ![t].sid = s, ![t].listed = ids]
    BY <1>1 DEF SubmitStagedSession
  <2>2. ids \in SUBSET SessionIds
    BY DEF Listing, GetSessions
  <2>3. [frame EXCEPT ![t].sid = s, ![t].listed = ids] \in [Threads -> Frames]
    <3> DEFINE first == [frame EXCEPT ![t].sid = s]
    <3>1. first \in [Threads -> Frames]
      BY FieldTypes DEF TypeOK, ThreadsType
    <3>2. [first EXCEPT ![t].listed = ids] \in [Threads -> Frames]
      <4> HIDE DEF first
      <4> QED BY <2>2, <3>1, FieldTypes
    <3> QED BY <3>2
  <2>4. ThreadsType'
    BY <1>1, <2>1, <2>3, GotoType DEF SubmitStagedSession, Labels, ThreadsType
  <2> QED BY <1>1, <2>4, UnchangedType DEF SubmitStagedSession, TypeOK
<1>2. ASSUME NEW s \in SessionIds,
             \/ MarkStagedSessionReady(t, s) \/ MarkStagedSessionSuccessful(t, s)
      PROVE  TypeOK'
  <2>1. ThreadsType'
    BY <1>2, EnterType
    DEF MarkStagedSessionReady, MarkStagedSessionSuccessful, Labels,
        CommitLabels, Callers
  <2>2. HistoryType'
    BY <1>2, UnchangedType
    DEF MarkStagedSessionReady, MarkStagedSessionSuccessful, TypeOK, HistoryType
  <2> QED BY <1>2, <2>1, <2>2, UnchangedType
          DEF MarkStagedSessionReady, MarkStagedSessionSuccessful, TypeOK
<1>3. ASSUME NEW paths \in SUBSET Apexes,
             StagePackages(t, paths) \/ UnstagePackages(t, paths)
      PROVE  TypeOK'
  <2>1. ThreadsType'
    BY <1>3, <1>a, GotoType
    DEF StagePackages, UnstagePackages, Labels, ThreadsType
  <2> QED BY <1>3, <2>1, UnchangedType DEF StagePackages, UnstagePackages, TypeOK
<1>4. CASE \/ RollbackActiveSession(t) \/ AbortActiveSession(t)
           \/ ResumeRollbackIfNeeded(t)
  <2>1. "service" \in Callers /\ "abortDelete" \in Labels
    BY DEF Callers, Labels
  <2>2. ThreadsType'
    BY <1>4, <2>1, RollbackSessionType, ResumeRollbackType, EnterType
    DEF RollbackActiveSession, AbortActiveSession, ResumeRollbackIfNeeded
  <2> QED BY <1>4, <2>2, UnchangedType
          DEF RollbackActiveSession, AbortActiveSession, ResumeRollbackIfNeeded,
              TypeOK
<1>5. CASE UpdatableCrashing(t)
  <2>1. "watch" \in Callers
    BY DEF Callers
  <2>2. ThreadsType'
    BY <1>5, <2>1, RollbackSessionType, UnchangedType DEF UpdatableCrashing
  <2>3. VoldType' /\ ProcessType'
    BY <1>5 DEF UpdatableCrashing, AbortAndReboot, VoldAbortChanges, TypeOK,
                VoldType, ProcessType
  <2> QED BY <1>5, <2>2, <2>3, UnchangedType DEF UpdatableCrashing, TypeOK
<1>6. CASE BootCompleted(t)
  <2>1. ThreadsType'
    BY <1>6, GotoType DEF BootCompleted, Labels, TypeOK, ThreadsType
  <2>2. ProcessType'
    BY <1>6 DEF BootCompleted, TypeOK, ProcessType
  <2> QED BY <1>6, <2>1, <2>2, UnchangedType DEF BootCompleted, TypeOK
<1>7. (\A s \in SessionIds : Staging[s] \in SUBSET Apexes) /\ active \in SUBSET Apexes
  BY StagingAssumption DEF TypeOK, DiskType
<1> QED BY <1>1, <1>2, <1>3, <1>4, <1>5, <1>6, <1>7 DEF Request

\* vold, crashes and reboots keep the types.
LEMMA EnvironmentType ==
  ASSUME TypeOK, VoldCommitChanges \/ ProcessDies \/ RebootDevice
  PROVE  TypeOK'
<1>0. NoDisk \in Disks /\ CurrentDisk \in Disks
  BY DEF TypeOK, DiskType, Disks, NoDisk, CurrentDisk, FileStates
<1>1. CASE VoldCommitChanges
  <2>1. VoldType'
    BY <1>0, <1>1 DEF VoldCommitChanges, VoldType
  <2> QED BY <1>1, <2>1, UnchangedType DEF VoldCommitChanges, TypeOK
<1>2. ASSUME StartProcess
      PROVE  ThreadsType' /\ opened' \in [Threads -> BOOLEAN]
  BY <1>2, EmptyFrameType DEF StartProcess, ThreadsType, Labels
<1>3. ASSUME StartProcess, rebooting' \in BOOLEAN, mounted' \in SUBSET Mounts
      PROVE  ProcessType' /\ MountsType' /\ HistoryType'
  BY <1>3, UnchangedType DEF StartProcess, ProcessType, MountsType
<1>4. CASE ProcessDies
  <2>1. rebooting' \in BOOLEAN /\ mounted' \in SUBSET Mounts
    BY <1>4 DEF ProcessDies, TypeOK, ProcessType, MountsType
  <2> QED BY <1>2, <1>3, <1>4, <2>1, UnchangedType DEF ProcessDies, TypeOK
<1>5. CASE RebootDevice
  <2>1. DiskType'
    BY <1>5, UnchangedType
    DEF RebootDevice, TypeOK, DiskType, VoldType, Disks, disk
  <2>2. VoldType'
    BY <1>0, <1>5 DEF RebootDevice, TypeOK, VoldType, vold
  <2>3. rebooting' \in BOOLEAN /\ mounted' \in SUBSET Mounts
    BY <1>5 DEF RebootDevice
  <2> QED BY <1>2, <1>3, <1>5, <2>1, <2>2, <2>3 DEF RebootDevice, TypeOK
<1> QED BY <1>1, <1>4, <1>5

\* Every step keeps the types.
LEMMA NextType == TypeOK /\ [Next]_vars => TypeOK'
<1> SUFFICES ASSUME TypeOK, [Next]_vars PROVE TypeOK'
  OBVIOUS
<1>1. CASE UNCHANGED vars
  BY <1>1, UnchangedType DEF vars, TypeOK
<1>2. ASSUME NEW t \in Threads, Step(t)
      PROVE  TypeOK'
  BY <1>2, SubmitType, CommitsType, RestoreType, StageType, BootType DEF Step
<1>3. CASE Next
  BY <1>2, <1>3, RequestType, EnvironmentType
     DEF Next, RestartProcess, AbortProcess
<1> QED BY <1>1, <1>3

\* The variables of StagedSessions keep their types, with any number of
\* threads, any faults, crashes and torn writes.
THEOREM TypeCorrect == Spec => []TypeOK
<1>1. Init => TypeOK
  <2> SUFFICES ASSUME Init PROVE TypeOK
    OBVIOUS
  <2>1. DiskType
    BY FactoryAssumption DEF Init, DiskType, FileStates
  <2>2. VoldType
    BY DEF Init, VoldType, NoDisk, Disks, FileStates
  <2>3. ThreadsType /\ opened \in [Threads -> BOOLEAN]
    BY EmptyFrameType DEF Init, ThreadsType, Labels
  <2>4. MountsType /\ ProcessType
    BY DEF Init, MountsType, ProcessType
  <2>5. HistoryType
    BY <2>1 DEF Init, HistoryType, DiskType
  <2> QED BY <2>1, <2>2, <2>3, <2>4, <2>5 DEF TypeOK
<1> QED BY <1>1, NextType, PTL DEF Spec

=============================================================================
