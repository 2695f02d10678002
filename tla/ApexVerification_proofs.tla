---------------------- MODULE ApexVerification_proofs ----------------------
(***************************************************************************)
(* That apexd mounts and installs only what it may trust, and the other    *)
(* invariants of ApexVerification, for all APEX files, system images and   *)
(* submissions.                                                            *)
(***************************************************************************)
EXTENDS ApexVerification, TLAPS

-----------------------------------------------------------------------------
(* Types.                                                                  *)

\* The directories of an image hold builtin APEX files.
LEMMA ImageDirs ==
  ASSUME NEW i \in Images
  PROVE  /\ \A d \in {1, 2} : i.dirs[d] \subseteq {f \in ApexFiles : f.builtin}
         /\ Builtins(i) = i.dirs[1] \cup i.dirs[2]
         /\ i.debuggable \in BOOLEAN /\ i.updatable \in BOOLEAN
BY VerificationAssumption DEF IsImage, BuiltinDirs, Builtins

\* The versions and the names of files.
LEMMA FileTypes ==
  ASSUME NEW f \in ApexFiles
  PROVE  /\ f.version \in Nat /\ f.name \in Names
         /\ f.bundled \in Keys /\ f.signer \in Keys
         /\ f.flattened => f.builtin
BY VerificationAssumption DEF IsFile, Names, Keys

\* Files that are submitted are not builtin.
LEMMA SubmissionTypes ==
  ASSUME NEW fs \in Submissions
  PROVE  fs \subseteq DataFiles
BY VerificationAssumption DEF DataFiles

\* TypeOK holds when the device boots.
LEMMA InitType == Init => TypeOK
<1> SUFFICES ASSUME Init PROVE TypeOK
  OBVIOUS
<1>1. image.dirs[1] \subseteq ApexFiles
  BY ImageDirs DEF Init
<1>2. session \in [state : States, files : SUBSET DataFiles,
                   backup : SUBSET DataFiles]
  BY DEF Init, NoSession, States
<1>3. linkedIn \in [active \cup session.backup -> Images]
  BY DEF Init, NoSession
<1>4. DOMAIN keys = {}
  BY DEF Init
<1>5. dir \in 0 .. Len(BuiltinDirs)
  BY DEF Init, BuiltinDirs
<1>6. image \in Images /\ active \subseteq DataFiles /\ bootstrap \in BOOLEAN
      /\ todo \subseteq ApexFiles /\ failed \in BOOLEAN
  BY <1>1 DEF Init
<1>7. mounted \subseteq ApexFiles /\ early \subseteq ApexFiles /\ reboots \in Nat
  BY DEF Init
<1>8. pc \in {"collect", "stage", "scan", "activate", "idle", "broken"}
  BY DEF Init
<1>9. QED
  BY <1>2, <1>3, <1>4, <1>5, <1>6, <1>7, <1>8 DEF TypeOK

\* The types of the process and the mounts, and those of the data.
ProcessType ==
  /\ image \in Images
  /\ bootstrap \in BOOLEAN
  /\ DOMAIN keys \subseteq Names /\ \A n \in DOMAIN keys : keys[n] \in Keys
  /\ pc \in {"collect", "stage", "scan", "activate", "idle", "broken"}
  /\ dir \in {0, 1, 2}
  /\ todo \subseteq ApexFiles /\ failed \in BOOLEAN
  /\ mounted \subseteq ApexFiles /\ early \subseteq ApexFiles
  /\ reboots \in Nat

DataType ==
  /\ active \subseteq DataFiles
  /\ session \in [state : States, files : SUBSET DataFiles,
                  backup : SUBSET DataFiles]
  /\ linkedIn \in [active \cup session.backup -> Images]

\* TypeOK is the two together.
LEMMA TypeParts == TypeOK <=> ProcessType /\ DataType
<1>1. 0 .. Len(BuiltinDirs) = {0, 1, 2}
  BY DEF BuiltinDirs
<1>2. QED
  BY <1>1 DEF TypeOK, ProcessType, DataType

\* RecordLinks gives an image to every file that is installed or backed up.
LEMMA RecordLinksType ==
  ASSUME ProcessType, DataType, NEW fs, RecordLinks(fs),
         (active' \cup session'.backup) \ fs \subseteq active \cup session.backup
  PROVE  linkedIn' \in [active' \cup session'.backup -> Images]
BY DEF ProcessType, DataType, RecordLinks

\* Stage puts files of a session beside files that are installed.
LEMMA StageType ==
  ASSUME DataType, NEW fs \in SUBSET DataFiles, Stage(fs)
  PROVE  /\ active' \subseteq DataFiles
         /\ active' \ ToStage(fs) \subseteq active
         /\ ToStage(fs) \subseteq fs
BY DEF DataType, Stage, ToStage

\* No session is a session.
LEMMA NoSessionType ==
  /\ NoSession \in [state : States, files : SUBSET DataFiles,
                    backup : SUBSET DataFiles]
  /\ NoSession.state = "none" /\ NoSession.files = {} /\ NoSession.backup = {}
BY DEF NoSession, States

\* Booting an image, and starting apexd.
LEMMA BootType ==
  ASSUME NEW i \in Images, Boot(i), reboots' \in Nat
  PROVE  ProcessType'
<1>1. DOMAIN keys' = {}
  BY DEF Boot
<1>2. QED
  BY <1>1, ImageDirs DEF Boot, ProcessType

LEMMA StartApexdType ==
  ASSUME ProcessType, StartApexd, UNCHANGED <<image, namespaces>>, reboots' \in Nat
  PROVE  ProcessType'
<1>1. DOMAIN keys' = {}
  BY DEF StartApexd
<1>2. QED
  BY <1>1, ImageDirs DEF StartApexd, ProcessType, namespaces

\* The steps that collect keys keep the types.
LEMMA CollectType ==
  ASSUME ProcessType, CollectKey \/ CollectFails \/ CollectedDir
  PROVE  ProcessType'
<1>1. CASE CollectKey
  <2>1. PICK f \in todo : UpdateScannedApexKeys(f) /\ todo' = todo \ {f}
    BY <1>1 DEF CollectKey
  <2>2. f.name \in Names /\ f.bundled \in Keys
    BY FileTypes DEF ProcessType
  <2>3. DOMAIN keys' \subseteq Names /\ \A n \in DOMAIN keys' : keys'[n] \in Keys
    BY <2>1, <2>2 DEF UpdateScannedApexKeys, HasKey, ProcessType
  <2>4. QED
    BY <1>1, <2>1, <2>3 DEF CollectKey, ProcessType, namespaces
<1>2. CASE CollectFails
  <2>1. CASE bootstrap
    BY <1>2, <2>1, StartApexdType DEF CollectFails, ProcessType
  <2>2. CASE ~bootstrap
    BY <1>2, <2>2 DEF CollectFails, ProcessType, namespaces
  <2>3. QED
    BY <2>1, <2>2
<1>3. CASE CollectedDir
  <2>1. Len(BuiltinDirs) = 2
    BY DEF BuiltinDirs
  <2>2. CASE dir < 2
    <3>1. dir' = dir + 1 /\ todo' = image.dirs[dir'] /\ dir' \in {1, 2}
      BY <1>3, <2>1, <2>2 DEF CollectedDir, ProcessType
    <3>2. todo' \subseteq ApexFiles
      BY <3>1, ImageDirs DEF ProcessType
    <3>3. QED
      BY <1>3, <2>1, <2>2, <3>1, <3>2 DEF CollectedDir, ProcessType, namespaces
  <2>3. CASE ~(dir < 2)
    <3>1. image.dirs[1] \subseteq ApexFiles
      BY ImageDirs DEF ProcessType
    <3>2. todo' \subseteq ApexFiles
      BY <1>3, <2>1, <2>3, <3>1 DEF CollectedDir, ToActivate
    <3>3. QED
      BY <1>3, <2>1, <2>3, <3>2 DEF CollectedDir, ProcessType, namespaces
  <2>4. QED
    BY <2>2, <2>3
<1>4. QED
  BY <1>1, <1>2, <1>3

\* So do staging and activation.
LEMMA BootStepType ==
  ASSUME ProcessType, DataType,
         StageSession \/ ScanPackagesDir \/ ActivateOne
           \/ RollbackActiveSessionAndReboot \/ ActivatedDir
  PROVE  ProcessType' /\ DataType'
<1>1. CASE StageSession
  <2>1. ProcessType'
    BY <1>1 DEF StageSession, ProcessType, namespaces
  <2>2. CASE UNCHANGED data
    BY <2>1, <2>2 DEF DataType, data
  <2>3. CASE /\ Stage(session.files)
             /\ session' = [session EXCEPT !.state = "activated"]
             /\ RecordLinks(ToStage(session.files))
    <3>1. session.files \in SUBSET DataFiles
      BY DEF DataType
    <3>2. /\ active' \subseteq DataFiles
          /\ active' \ ToStage(session.files) \subseteq active
      BY <2>3, <3>1, StageType
    <3>3. /\ session' \in [state : States, files : SUBSET DataFiles,
                           backup : SUBSET DataFiles]
          /\ session'.backup = session.backup
      BY <2>3 DEF DataType, States
    <3>4. linkedIn' \in [active' \cup session'.backup -> Images]
      BY <2>3, <3>2, <3>3, RecordLinksType
    <3>5. QED
      BY <2>1, <3>2, <3>3, <3>4 DEF DataType
  <2>4. CASE session' = NoSession /\ UNCHANGED active /\ RecordLinks({})
    <3>1. linkedIn' \in [active' \cup session'.backup -> Images]
      BY <2>4, NoSessionType, RecordLinksType
    <3>2. QED
      BY <2>1, <2>4, <3>1, NoSessionType DEF DataType
  <2>5. QED
    BY <1>1, <2>1, <2>2, <2>3, <2>4 DEF StageSession
<1>2. CASE ScanPackagesDir
  <2>1. todo' \subseteq ApexFiles
    <3>1. CASE dir = 0
      BY <1>2, <3>1 DEF ScanPackagesDir, ToActivate, DataType, DataFiles
    <3>2. CASE dir # 0
      <4>1. image.dirs[dir] \subseteq ApexFiles
        BY <3>2, ImageDirs DEF ProcessType
      <4>2. QED
        BY <1>2, <3>2, <4>1 DEF ScanPackagesDir, ToActivate
    <3>3. QED
      BY <3>1, <3>2
  <2>2. QED
    BY <1>2, <2>1 DEF ScanPackagesDir, ProcessType, DataType, namespaces, data
<1>3. CASE ActivateOne
  BY <1>3 DEF ActivateOne, MountPackage, ProcessType, DataType, namespaces, data
<1>4. CASE RollbackActiveSessionAndReboot
  <2>1. ProcessType'
    BY <1>4, BootType DEF RollbackActiveSessionAndReboot, ProcessType
  <2>2. active' = session.backup /\ session' = NoSession /\ RecordLinks({})
    BY <1>4 DEF RollbackActiveSessionAndReboot, RestoreBackup
  <2>3. linkedIn' \in [active' \cup session'.backup -> Images]
    BY <2>2, NoSessionType, RecordLinksType
  <2>4. QED
    BY <2>1, <2>2, <2>3, NoSessionType DEF DataType
<1>5. CASE ActivatedDir
  <2>1. DataType'
    BY <1>5 DEF ActivatedDir, DataType, data
  <2>2. CASE bootstrap
    BY <1>5, <2>1, <2>2, StartApexdType DEF ActivatedDir, ProcessType
  <2>3. CASE ~bootstrap
    <3>1. Len(BuiltinDirs) = 2
      BY DEF BuiltinDirs
    <3>2. dir' \in {0, 1, 2} /\ pc' \in {"scan", "idle"} /\ failed' = FALSE
      BY <1>5, <2>3, <3>1 DEF ActivatedDir, ProcessType
    <3>3. UNCHANGED <<image, bootstrap, keys, todo, mounted, early, reboots>>
      BY <1>5, <2>3 DEF ActivatedDir, namespaces
    <3>4. QED
      BY <2>1, <3>2, <3>3 DEF ProcessType
  <2>4. QED
    BY <2>2, <2>3
<1>6. QED
  BY <1>1, <1>2, <1>3, <1>4, <1>5

\* So do the requests, a restart and a reboot.
LEMMA RequestType ==
  ASSUME ProcessType, DataType,
         Request \/ RestartProcess \/ \E i \in Images : Reboot(i)
  PROVE  ProcessType' /\ DataType'
<1>1. ASSUME NEW fs \in Submissions, SubmitStagedSession(fs)
      PROVE  ProcessType' /\ DataType'
  <2>1. ProcessType'
    BY <1>1 DEF SubmitStagedSession, ProcessType, process, namespaces
  <2>2. /\ session' \in [state : States, files : SUBSET DataFiles,
                         backup : SUBSET DataFiles]
        /\ session'.backup \subseteq active
    BY <1>1, SubmissionTypes, NoSessionType DEF SubmitStagedSession, DataType, States
  <2>3. linkedIn' \in [active' \cup session'.backup -> Images]
    BY <1>1, <2>2, RecordLinksType DEF SubmitStagedSession
  <2>4. QED
    BY <1>1, <2>1, <2>2, <2>3 DEF SubmitStagedSession, DataType
<1>2. ASSUME NEW fs \in Submissions, StagePackages(fs)
      PROVE  ProcessType' /\ DataType'
  <2>1. ProcessType'
    BY <1>2 DEF StagePackages, ProcessType, process, namespaces
  <2>2. active' \subseteq DataFiles /\ active' \ ToStage(fs) \subseteq active
    BY <1>2, SubmissionTypes, StageType DEF StagePackages
  <2>3. linkedIn' \in [active' \cup session'.backup -> Images]
    BY <1>2, <2>2, RecordLinksType DEF StagePackages
  <2>4. QED
    BY <1>2, <2>1, <2>2, <2>3 DEF StagePackages, DataType
<1>3. CASE MarkStagedSession
  <2>1. ProcessType'
    BY <1>3 DEF MarkStagedSession, ProcessType, process, namespaces
  <2>2. /\ session' \in [state : States, files : SUBSET DataFiles,
                         backup : SUBSET DataFiles]
        /\ session'.backup \subseteq session.backup
    BY <1>3, NoSessionType DEF MarkStagedSession, DataType, States
  <2>3. linkedIn' \in [active' \cup session'.backup -> Images]
    BY <1>3, <2>2, RecordLinksType DEF MarkStagedSession
  <2>4. QED
    BY <1>3, <2>1, <2>2, <2>3 DEF MarkStagedSession, DataType
<1>4. CASE AbortActiveSession
  <2>1. ProcessType'
    BY <1>4 DEF AbortActiveSession, ProcessType, process, namespaces
  <2>2. session' = NoSession /\ RecordLinks({}) /\ active' \in {active, session.backup}
    BY <1>4 DEF AbortActiveSession, RestoreBackup
  <2>3. linkedIn' \in [active' \cup session'.backup -> Images]
    BY <2>2, NoSessionType, RecordLinksType
  <2>4. QED
    BY <2>1, <2>2, <2>3, NoSessionType DEF DataType
<1>5. ASSUME NEW f \in Builtins(image) \cup DataFiles, ActivatePackage(f)
      PROVE  ProcessType' /\ DataType'
  <2>1. f \in ApexFiles
    BY ImageDirs DEF ProcessType, DataFiles
  <2>2. QED
    BY <1>5, <2>1 DEF ActivatePackage, MountPackage, ProcessType, DataType, process, data
<1>6. CASE RestartProcess
  <2>1. DataType'
    BY <1>6 DEF RestartProcess, DataType, data
  <2>2. QED
    BY <1>6, <2>1, StartApexdType DEF RestartProcess
<1>7. ASSUME NEW i \in Images, Reboot(i)
      PROVE  ProcessType' /\ DataType'
  <2>1. DataType'
    BY <1>7 DEF Reboot, DataType, data
  <2>2. QED
    BY <1>7, <2>1, BootType DEF Reboot
<1>8. QED
  BY <1>1, <1>2, <1>3, <1>4, <1>5, <1>6, <1>7 DEF Request

\* Every step keeps the types.
LEMMA NextType == TypeOK /\ [Next]_vars => TypeOK'
<1> SUFFICES ASSUME TypeOK, [Next]_vars PROVE ProcessType' /\ DataType'
  BY TypeParts, PTL
<1>1. ProcessType /\ DataType
  BY TypeParts
<1>2. CASE CollectKey \/ CollectFails \/ CollectedDir
  <2>1. UNCHANGED data
    BY <1>2 DEF CollectKey, CollectFails, CollectedDir
  <2>2. QED
    BY <1>1, <1>2, <2>1, CollectType DEF data, DataType
<1>3. CASE UNCHANGED vars
  BY <1>1, <1>3 DEF vars, process, namespaces, data, ProcessType, DataType
<1>4. QED
  BY <1>1, <1>2, <1>3, BootStepType, RequestType DEF Next, Step

\* The types of the variables, in every reachable state.
THEOREM TypeCorrect == Spec => []TypeOK
BY InitType, NextType, PTL DEF Spec

-----------------------------------------------------------------------------
(* The keys.                                                               *)

\* b was read, and its key is the one that is known for its name.
Collected(b) ==
  b.opens /\ b.name \in DOMAIN keys /\ keys[b.name] = b.bundled

\* Where onBootstrap and onStart stand with the keys: each key is that of a
\* builtin package that was read; of the directories up to this one, all
\* packages but those still to be done are collected; and nothing goes on before
\* all are, unless the image is inconsistent.
KeysInv ==
  /\ \A n \in DOMAIN keys :
       \E b \in Builtins(image) : b.name = n /\ b.opens /\ b.bundled = keys[n]
  /\ pc = "collect" =>
       /\ dir \in {1, 2} /\ todo \subseteq image.dirs[dir]
       /\ \A b \in image.dirs[dir] \ todo : Collected(b)
       /\ dir = 2 => \A b \in image.dirs[1] : Collected(b)
  /\ pc \in {"stage", "scan", "activate", "idle"} =>
       \A b \in Builtins(image) : Collected(b)
  /\ pc = "broken" => Inconsistent(image)

\* No keys are known when apexd starts or apexd-bootstrap does.
LEMMA FreshKeys ==
  ASSUME keys' = <<>>, pc' = "collect", dir' = 1, todo' = image'.dirs[1]
  PROVE  KeysInv'
<1>1. DOMAIN keys' = {}
  OBVIOUS
<1>2. QED
  BY <1>1 DEF KeysInv

\* What is collected stays collected while the keys are the same.
LEMMA SameKeys ==
  ASSUME KeysInv, UNCHANGED <<image, keys>>, pc \notin {"collect"},
         pc' = pc \/ (pc # "broken" /\ pc' \in {"stage", "scan", "activate", "idle"}),
         pc \in {"stage", "scan", "activate", "idle", "broken"}
  PROVE  KeysInv'
BY DEF KeysInv, Collected, Inconsistent

\* A conflict or an unreadable package means that the image is inconsistent.
LEMMA FailureIsConflict ==
  ASSUME ProcessType, KeysInv, CollectFails
  PROVE  Inconsistent(image)
<1>1. Builtins(image) = image.dirs[1] \cup image.dirs[2]
  BY ImageDirs DEF ProcessType
<1>2. pc = "collect" /\ dir \in {1, 2} /\ todo \subseteq image.dirs[dir]
  BY DEF CollectFails, KeysInv
<1>3. CASE \E f \in image.dirs[dir] : ~f.opens
  BY <1>1, <1>2, <1>3 DEF Inconsistent
<1>4. CASE \E f \in todo : HasKey(f.name) /\ keys[f.name] # f.bundled
  BY <1>1, <1>2, <1>4 DEF Inconsistent, HasKey, KeysInv
<1>5. QED
  BY <1>3, <1>4 DEF CollectFails

\* Each package adds its key or agrees with the one that is there.
LEMMA CollectKeys ==
  ASSUME ProcessType, KeysInv, CollectKey \/ CollectFails \/ CollectedDir
  PROVE  KeysInv'
<1> USE DEF ProcessType
<1>1. Builtins(image) = image.dirs[1] \cup image.dirs[2]
  BY ImageDirs
<1>2. /\ pc = "collect" /\ dir \in {1, 2} /\ todo \subseteq image.dirs[dir]
      /\ \A b \in image.dirs[dir] \ todo : Collected(b)
      /\ dir = 2 => \A b \in image.dirs[1] : Collected(b)
      /\ \A n \in DOMAIN keys :
           \E b \in Builtins(image) : b.name = n /\ b.opens /\ b.bundled = keys[n]
  BY DEF CollectKey, CollectFails, CollectedDir, KeysInv
<1>3. CASE CollectKey
  <2>1. PICK f \in todo : /\ HasKey(f.name) => keys[f.name] = f.bundled
                          /\ UpdateScannedApexKeys(f)
                          /\ todo' = todo \ {f}
    BY <1>3 DEF CollectKey
  <2>2. f \in Builtins(image) /\ f.opens
    BY <1>1, <1>2, <1>3, <2>1 DEF CollectKey
  <2>3. /\ DOMAIN keys' = DOMAIN keys \cup {f.name}
        /\ \A n \in DOMAIN keys : keys'[n] = keys[n]
        /\ keys'[f.name] = f.bundled
    BY <2>1 DEF UpdateScannedApexKeys, HasKey
  <2>4. UNCHANGED <<image, pc, dir>>
    BY <1>3 DEF CollectKey
  <2>5. \A n \in DOMAIN keys' :
          \E b \in Builtins(image) : b.name = n /\ b.opens /\ b.bundled = keys'[n]
    BY <1>2, <2>2, <2>3
  <2>6. \A b : Collected(b) => Collected(b)'
    BY <2>3 DEF Collected
  <2>7. Collected(f)'
    BY <2>2, <2>3 DEF Collected
  <2>8. /\ \A b \in image.dirs[dir] \ todo' : Collected(b)'
        /\ dir = 2 => \A b \in image.dirs[1] : Collected(b)'
        /\ todo' \subseteq image.dirs[dir]
    BY <1>2, <2>1, <2>6, <2>7
  <2>9. QED
    BY <1>2, <2>4, <2>5, <2>8 DEF KeysInv, Builtins
<1>4. CASE CollectFails
  <2>1. CASE bootstrap
    BY <1>4, <2>1, FreshKeys DEF CollectFails, StartApexd
  <2>2. CASE ~bootstrap
    <3>1. Inconsistent(image)
      BY <1>4, FailureIsConflict
    <3>2. pc' = "broken" /\ UNCHANGED <<image, keys>>
      BY <1>4, <2>2 DEF CollectFails
    <3>3. QED
      BY <1>2, <3>1, <3>2 DEF KeysInv, Builtins, Inconsistent
  <2>3. QED
    BY <2>1, <2>2
<1>5. CASE CollectedDir
  <2>1. Len(BuiltinDirs) = 2
    BY DEF BuiltinDirs
  <2>2. todo = {} /\ UNCHANGED <<image, keys>>
    BY <1>5 DEF CollectedDir
  <2>3. \A b : Collected(b)' <=> Collected(b)
    BY <2>2 DEF Collected
  <2>4. CASE dir = 1
    <3>1. dir' = 2 /\ todo' = image.dirs[2] /\ pc' = pc
      BY <1>5, <2>1, <2>4 DEF CollectedDir
    <3>2. \A b \in image.dirs[1] : Collected(b)
      BY <1>2, <2>2, <2>4
    <3>3. QED
      BY <1>2, <2>2, <2>3, <3>1, <3>2 DEF KeysInv, Builtins
  <2>5. CASE dir = 2
    <3>1. pc' \in {"activate", "stage"}
      BY <1>5, <2>1, <2>5 DEF CollectedDir
    <3>2. \A b \in Builtins(image) : Collected(b)
      BY <1>1, <1>2, <2>2, <2>5
    <3>3. QED
      BY <1>2, <2>2, <2>3, <3>1, <3>2 DEF KeysInv, Builtins
  <2>6. QED
    BY <1>2, <2>4, <2>5
<1>6. QED
  BY <1>3, <1>4, <1>5

\* Every step keeps what is said of the keys.
LEMMA NextKeys ==
  ASSUME TypeOK, KeysInv, [Next]_vars
  PROVE  KeysInv'
<1>1. ProcessType
  BY TypeParts
<1>2. CASE CollectKey \/ CollectFails \/ CollectedDir
  BY <1>1, <1>2, CollectKeys
<1>3. CASE StageSession \/ ScanPackagesDir \/ ActivateOne
  BY <1>3, SameKeys DEF StageSession, ScanPackagesDir, ActivateOne
<1>4. CASE RollbackActiveSessionAndReboot
  BY <1>4, FreshKeys DEF RollbackActiveSessionAndReboot, Boot
<1>5. CASE ActivatedDir
  <2>1. CASE bootstrap
    BY <1>5, <2>1, FreshKeys DEF ActivatedDir, StartApexd
  <2>2. CASE ~bootstrap
    BY <1>5, <2>2, SameKeys DEF ActivatedDir
  <2>3. QED
    BY <2>1, <2>2
<1>6. CASE Request
  <2>1. Serving /\ UNCHANGED <<image, process>>
    BY <1>6 DEF Request, SubmitStagedSession, StagePackages, MarkStagedSession,
                AbortActiveSession, ActivatePackage
  <2>2. QED
    BY <2>1, SameKeys DEF process, Serving
<1>7. CASE RestartProcess
  BY <1>7, FreshKeys DEF RestartProcess, StartApexd
<1>8. CASE \E i \in Images : Reboot(i)
  BY <1>8, FreshKeys DEF Reboot, Boot
<1>9. CASE UNCHANGED vars
  BY <1>9 DEF vars, process, KeysInv, Collected, Inconsistent, Builtins
<1>10. QED
  BY <1>2, <1>3, <1>4, <1>5, <1>6, <1>7, <1>8, <1>9 DEF Next, Step

\* KeysMatchImage says the same without the steps in between.
LEMMA KeysInvMatches ==
  ASSUME KeysInv
  PROVE  KeysMatchImage
<1>1. \A n \in DOMAIN keys :
        \E b \in Builtins(image) : b.name = n /\ b.bundled = keys[n]
  BY DEF KeysInv
<1>2. ASSUME pc \in {"stage", "scan", "activate", "idle"}
      PROVE  ~Inconsistent(image) /\ DOMAIN keys = {b.name : b \in Builtins(image)}
  <2>1. \A b \in Builtins(image) : Collected(b)
    BY <1>2 DEF KeysInv
  <2>2. ~Inconsistent(image)
    BY <2>1 DEF Collected, Inconsistent
  <2>3. \A b \in Builtins(image) : b.name \in DOMAIN keys
    BY <2>1 DEF Collected
  <2>4. QED
    BY <1>1, <2>2, <2>3
<1>3. QED
  BY <1>1, <1>2 DEF KeysInv, KeysMatchImage

\* KeysInv holds when the device boots.
LEMMA InitKeys == Init => KeysInv
<1> SUFFICES ASSUME Init PROVE KeysInv
  OBVIOUS
<1>1. DOMAIN keys = {}
  BY DEF Init
<1>2. QED
  BY <1>1 DEF Init, KeysInv

\* KeysInv, in every reachable state.
LEMMA KeysInvariant == Spec => []KeysInv
BY InitKeys, NextKeys, TypeCorrect, PTL DEF Spec

\* Once collectApexKeys is through, gScannedApexKeys holds the keys of the
\* builtin packages, whatever the order in which they are read; if it failed,
\* the image is inconsistent, and what was found are keys of builtin packages.
THEOREM KeysAlwaysMatch == Spec => []KeysMatchImage
<1>1. KeysInv => KeysMatchImage
  BY KeysInvMatches
<1>2. QED
  BY <1>1, KeysInvariant, PTL

-----------------------------------------------------------------------------
(* What is mounted.                                                        *)

\* What is activated next comes from /data or from the image that runs.
MountInv ==
  /\ MountedIsTrusted
  /\ pc = "activate" => todo \subseteq active \cup Builtins(image)

\* MountedIsTrusted and MountInv hold when the device boots.
LEMMA InitMount == Init => MountInv
BY DEF Init, MountInv, MountedIsTrusted

\* Whenever the keys are used, they are those of the image, or the image is
\* inconsistent and the key that is looked for may be missing: what they verify is
\* trusted.
LEMMA VerityTrusted ==
  ASSUME TypeOK, KeysInv, pc # "collect",
         NEW f \in ApexFiles, VerifyApexVerity(f)
  PROVE  SignatureTrusted(f, image)
<1>1. /\ f.footer /\ f.keyName = f.name /\ f.signer # NoKey
      /\ \E n \in DOMAIN f.descriptors : f.descriptors[n] = "hashtree"
      /\ VerifyPublicKey(f)
  BY DEF VerifyApexVerity, VerifyVbMetaSignature, FindDescriptor
<1>2. CASE HasKey(f.name)
  <2>1. PICK b \in Builtins(image) : /\ b.name = f.name /\ b.opens
                                     /\ b.bundled = keys[f.name]
    BY <1>2 DEF HasKey, KeysInv
  <2>2. f.signer = b.bundled
    BY <1>1, <1>2, <2>1 DEF VerifyPublicKey
  <2>3. QED
    BY <1>1, <2>1, <2>2 DEF SignatureTrusted
<1>3. CASE ~HasKey(f.name)
  <2>1. image.debuggable /\ f.signer = f.bundled
    BY <1>1, <1>3 DEF VerifyPublicKey
  <2>2. (\A b \in Builtins(image) : b.name # f.name) \/ Inconsistent(image)
    <3>1. CASE pc = "broken"
      BY <3>1 DEF KeysInv
    <3>2. CASE pc # "broken"
      <4>1. \A b \in Builtins(image) : b.name \in DOMAIN keys
        BY <3>2 DEF KeysInv, Collected, TypeOK
      <4>2. QED
        BY <1>3, <4>1 DEF HasKey
    <3>3. QED
      BY <3>1, <3>2
  <2>3. QED
    BY <1>1, <2>1, <2>2 DEF SignatureTrusted
<1>4. QED
  BY <1>2, <1>3

\* What ValidateShimApex accepts brings nothing that could run.
LEMMA ShimHarmless ==
  ASSUME NEW f \in ApexFiles, ValidateShimApex(f)
  PROVE  Harmless(f)
<1>1. \A e \in f.contents : e.plain => e.inside = {}
  BY VerificationAssumption DEF IsFile
<1>2. QED
  BY <1>1 DEF ValidateShimApex, IsWhitelistedTopLevelEntry, IsHashTxt, Harmless

\* What a mount checks makes the file trusted.
Trusted(f) ==
  \/ f.flattened /\ f \in Builtins(image)
  \/ SignatureTrusted(f, image) /\ f.matches /\ (f.name = Shim => Harmless(f))

LEMMA MountTrusted ==
  ASSUME TypeOK, KeysInv, pc # "collect",
         NEW f \in DataFiles \cup Builtins(image),
         NEW verifyImage \in BOOLEAN, MountSucceeds(f, verifyImage)
  PROVE  Trusted(f)
<1>1. f \in ApexFiles /\ image \in Images
  BY ImageDirs DEF DataFiles, TypeOK
<1>2. CASE f.flattened
  <2>1. f.builtin
    BY <1>2 DEF MountSucceeds
  <2>2. f \in Builtins(image)
    BY <2>1 DEF DataFiles
  <2>3. QED
    BY <1>2, <2>2 DEF Trusted
<1>3. CASE ~f.flattened
  <2>1. VerifyApexVerity(f) /\ VerifyMountedImage(f)
    BY <1>3 DEF MountSucceeds
  <2>2. SignatureTrusted(f, image)
    BY <1>1, <2>1, VerityTrusted
  <2>3. f.matches /\ (f.name = Shim => Harmless(f))
    BY <1>1, <2>1, ShimHarmless DEF VerifyMountedImage
  <2>4. QED
    BY <2>2, <2>3 DEF Trusted
<1>4. QED
  BY <1>2, <1>3

\* The steps that mount nothing keep MountInv, if they choose what to activate
\* among what may be activated.
LEMMA MountsNothing ==
  ASSUME MountInv, UNCHANGED <<image, mounted, early>>,
         pc' = "activate" => todo' \subseteq active' \cup Builtins(image)
  PROVE  MountInv'
BY DEF MountInv, MountedIsTrusted, SignatureTrusted, Inconsistent, Builtins

\* A step that mounts what is trusted keeps MountInv.
LEMMA MountsTrusted ==
  ASSUME MountInv, UNCHANGED <<image, active, pc>>, todo' \subseteq todo,
         NEW f, Trusted(f), MountPackage(f)
  PROVE  MountInv'
<1>1. mounted' \cup early' = mounted \cup early \cup {f}
  BY DEF MountPackage
<1>2. MountedIsTrusted'
  BY <1>1 DEF MountInv, MountedIsTrusted, Trusted, SignatureTrusted, Inconsistent,
              Builtins
<1>3. QED
  BY <1>2 DEF MountInv, Builtins

\* Every step keeps MountInv.
LEMMA NextMount ==
  ASSUME TypeOK, KeysInv, MountInv, [Next]_vars
  PROVE  MountInv'
<1>1. Builtins(image) = image.dirs[1] \cup image.dirs[2]
  BY ImageDirs DEF TypeOK
<1>2. CASE CollectKey \/ CollectFails \/ CollectedDir
  <2>1. UNCHANGED <<image, mounted, early>>
    BY <1>2 DEF CollectKey, CollectFails, CollectedDir, namespaces
  <2>2. pc' = "activate" => todo' \subseteq Builtins(image)
    BY <1>1, <1>2 DEF CollectKey, CollectFails, CollectedDir, StartApexd, ToActivate
  <2>3. QED
    BY <2>1, <2>2, MountsNothing
<1>3. CASE StageSession
  BY <1>3, MountsNothing DEF StageSession, namespaces
<1>4. CASE ScanPackagesDir
  <2>1. dir # 0 => image.dirs[dir] \subseteq Builtins(image)
    BY <1>1, TypeParts DEF ProcessType
  <2>2. todo' \subseteq active \cup Builtins(image) /\ UNCHANGED active
    BY <1>4, <2>1 DEF ScanPackagesDir, ToActivate, data
  <2>3. QED
    BY <1>4, <2>2, MountsNothing DEF ScanPackagesDir, namespaces
<1>5. CASE ActivateOne
  <2>1. PICK f \in todo :
          /\ todo' = todo \ {f}
          /\ \/ UNCHANGED namespaces
             \/ MountSucceeds(f, FALSE) /\ MountPackage(f)
    BY <1>5 DEF ActivateOne
  <2>2. pc = "activate" /\ UNCHANGED <<image, active, pc>>
    BY <1>5 DEF ActivateOne, data
  <2>3. f \in DataFiles \cup Builtins(image)
    BY <2>2 DEF MountInv, TypeOK
  <2>4. CASE UNCHANGED namespaces
    BY <2>1, <2>2, <2>4, MountsNothing DEF MountInv, namespaces
  <2>5. CASE MountSucceeds(f, FALSE) /\ MountPackage(f)
    <3>1. Trusted(f)
      BY <2>2, <2>3, <2>5, MountTrusted
    <3>2. QED
      BY <2>1, <2>2, <2>5, <3>1, MountsTrusted
  <2>6. QED
    BY <2>1, <2>4, <2>5
<1>6. CASE RollbackActiveSessionAndReboot \/ \E i \in Images : Reboot(i)
  BY <1>6 DEF RollbackActiveSessionAndReboot, Reboot, Boot, MountInv, MountedIsTrusted
<1>7. CASE ActivatedDir \/ RestartProcess
  <2>1. UNCHANGED <<image, mounted, early>> /\ pc' # "activate"
    BY <1>7 DEF ActivatedDir, RestartProcess, StartApexd, namespaces
  <2>2. QED
    BY <2>1, MountsNothing
<1>8. CASE \/ \E fs \in Submissions : SubmitStagedSession(fs) \/ StagePackages(fs)
           \/ MarkStagedSession \/ AbortActiveSession
  <2>1. Serving /\ UNCHANGED <<image, process, namespaces>>
    BY <1>8 DEF SubmitStagedSession, StagePackages, MarkStagedSession,
                AbortActiveSession
  <2>2. QED
    BY <2>1, MountsNothing DEF Serving, process, namespaces
<1>9. ASSUME NEW f \in Builtins(image) \cup DataFiles, ActivatePackage(f)
      PROVE  MountInv'
  <2>1. /\ pc # "collect" /\ MountSucceeds(f, FALSE) /\ MountPackage(f)
        /\ UNCHANGED <<image, data, process>>
    BY <1>9 DEF ActivatePackage, Serving
  <2>2. Trusted(f)
    BY <2>1, MountTrusted
  <2>3. QED
    BY <2>1, <2>2, MountsTrusted DEF data, process
<1>10. CASE UNCHANGED vars
  BY <1>10, MountsNothing DEF vars, namespaces, process, data, MountInv
<1>11. QED
  BY <1>2, <1>3, <1>4, <1>5, <1>6, <1>7, <1>8, <1>9, <1>10 DEF Next, Step, Request

\* Whatever was submitted, staged, restored, left mounted by a process that died or
\* replaced by a system update: what is mounted on /apex is signed with the key
\* that the running system image gives for it, or is part of that image.
THEOREM MountedIsAlwaysTrusted == Spec => []MountedIsTrusted
<1>1. MountInv => MountedIsTrusted
  BY DEF MountInv
<1>2. QED
  BY <1>1, InitMount, NextMount, TypeCorrect, KeysInvariant, PTL DEF Spec

-----------------------------------------------------------------------------
(* What is installed.                                                      *)

\* f was verified under the image by which it was linked.
VerifiedWhenLinked(f) ==
  /\ SignatureTrusted(f, linkedIn[f])
  /\ f.name = Shim => \E s \in linkedIn[f].dirs[1] :
                        s.name = Shim /\ f.digest \in s.allowed

\* The backup can be restored: what is in it was verified too.
InstallInv == \A f \in active \cup session.backup : VerifiedWhenLinked(f)

\* Nothing is installed when the device boots for the first time.
LEMMA InitInstall == Init => InstallInv
BY DEF Init, InstallInv, NoSession

\* A file that passes VerifyPackageBoot was verified under this image.
LEMMA BootVerified ==
  ASSUME TypeOK, KeysInv, pc # "collect",
         NEW f \in DataFiles, VerifyPackageBoot(f)
  PROVE  /\ SignatureTrusted(f, image)
         /\ f.name = Shim => \E s \in image.dirs[1] :
                               s.name = Shim /\ f.digest \in s.allowed
<1>1. SignatureTrusted(f, image)
  BY VerityTrusted DEF VerifyPackageBoot, DataFiles
<1>2. f.name = Shim => \E s \in image.dirs[1] :
                         s.name = Shim /\ f.digest \in s.allowed
  BY DEF VerifyPackageBoot, ValidateStagingShimApex, ValidateUpdate
<1>3. QED
  BY <1>1, <1>2

\* Files that stay keep the image under which they were verified.
LEMMA LinksKept ==
  ASSUME InstallInv, RecordLinks({}),
         active' \cup session'.backup \subseteq active \cup session.backup
  PROVE  InstallInv'
<1>1. ASSUME NEW f \in active' \cup session'.backup
      PROVE  linkedIn'[f] = linkedIn[f] /\ VerifiedWhenLinked(f)
  BY <1>1 DEF InstallInv, RecordLinks
<1>2. QED
  BY <1>1 DEF InstallInv, VerifiedWhenLinked

\* Staged files were verified just before.
LEMMA LinksStaged ==
  ASSUME TypeOK, KeysInv, InstallInv, pc # "collect",
         NEW fs \in SUBSET DataFiles, \A f \in fs : VerifyPackageBoot(f),
         Stage(fs), RecordLinks(ToStage(fs)), session'.backup = session.backup
  PROVE  InstallInv'
<1>1. ASSUME NEW f \in active' \cup session'.backup
      PROVE  VerifiedWhenLinked(f)'
  <2>1. CASE f \in ToStage(fs)
    <3>1. linkedIn'[f] = image
      BY <1>1, <2>1 DEF RecordLinks
    <3>2. f \in fs
      BY <2>1 DEF ToStage
    <3>3. QED
      BY <3>1, <3>2, BootVerified DEF VerifiedWhenLinked
  <2>2. CASE f \notin ToStage(fs)
    <3>1. linkedIn'[f] = linkedIn[f]
      BY <1>1, <2>2 DEF RecordLinks
    <3>2. f \in active \cup session.backup
      BY <1>1, <2>2 DEF Stage
    <3>3. QED
      BY <3>1, <3>2 DEF InstallInv, VerifiedWhenLinked
  <2>3. QED
    BY <2>1, <2>2
<1>2. QED
  BY <1>1 DEF InstallInv

\* Every step keeps InstallInv.
LEMMA NextInstall ==
  ASSUME TypeOK, KeysInv, InstallInv, [Next]_vars
  PROVE  InstallInv'
<1>1. CASE UNCHANGED data
  BY <1>1 DEF data, InstallInv, VerifiedWhenLinked
<1>2. CASE StageSession
  <2>1. pc # "collect" /\ session.files \in SUBSET DataFiles
    BY <1>2 DEF StageSession, TypeOK
  <2>2. CASE /\ \A f \in session.files : VerifyPackageBoot(f)
             /\ Stage(session.files)
             /\ session' = [session EXCEPT !.state = "activated"]
             /\ RecordLinks(ToStage(session.files))
    <3>1. session'.backup = session.backup
      BY <2>2 DEF TypeOK
    <3>2. QED
      BY <2>1, <2>2, <3>1, LinksStaged
  <2>3. CASE session' = NoSession /\ UNCHANGED active /\ RecordLinks({})
    BY <2>3, LinksKept, NoSessionType
  <2>4. QED
    BY <1>1, <1>2, <2>2, <2>3 DEF StageSession
<1>3. CASE RollbackActiveSessionAndReboot \/ AbortActiveSession
  <2>1. RecordLinks({}) /\ session' = NoSession /\ active' \in {active, session.backup}
    BY <1>3 DEF RollbackActiveSessionAndReboot, AbortActiveSession, RestoreBackup
  <2>2. QED
    BY <2>1, LinksKept, NoSessionType
<1>4. ASSUME NEW fs \in Submissions, SubmitStagedSession(fs)
      PROVE  InstallInv'
  <2>1. session'.backup \subseteq active
    BY <1>4, NoSessionType DEF SubmitStagedSession
  <2>2. QED
    BY <1>4, <2>1, LinksKept DEF SubmitStagedSession
<1>5. CASE MarkStagedSession
  <2>1. session'.backup \subseteq session.backup
    BY <1>5, NoSessionType DEF MarkStagedSession, TypeOK
  <2>2. QED
    BY <1>5, <2>1, LinksKept DEF MarkStagedSession
<1>6. ASSUME NEW fs \in Submissions, StagePackages(fs)
      PROVE  InstallInv'
  <2>1. pc # "collect" /\ fs \in SUBSET DataFiles /\ UNCHANGED session
    BY <1>6, SubmissionTypes DEF StagePackages, Serving
  <2>2. QED
    BY <1>6, <2>1, LinksStaged DEF StagePackages
<1>7. CASE \/ CollectKey \/ CollectFails \/ CollectedDir
           \/ ScanPackagesDir \/ ActivateOne \/ ActivatedDir
           \/ \E f \in Builtins(image) \cup DataFiles : ActivatePackage(f)
           \/ RestartProcess \/ \E i \in Images : Reboot(i)
  BY <1>1, <1>7 DEF CollectKey, CollectFails, CollectedDir, ScanPackagesDir,
       ActivateOne, ActivatedDir, ActivatePackage, RestartProcess, Reboot
<1>8. CASE UNCHANGED vars
  BY <1>1, <1>8 DEF vars
<1>9. QED
  BY <1>2, <1>3, <1>4, <1>5, <1>6, <1>7, <1>8 DEF Next, Step, Request

\* Each file of /data/apex/active, and each that a rollback would put back, was
\* verified with the keys and the hash list of the system image under which it was
\* put there.
THEOREM InstalledIsVerified == Spec => []InstalledWasVerified
<1>1. InstallInv => InstalledWasVerified
  BY DEF InstallInv, VerifiedWhenLinked, InstalledWasVerified
<1>2. QED
  BY <1>1, InitInstall, NextInstall, TypeCorrect, KeysInvariant, PTL DEF Spec

-----------------------------------------------------------------------------
(* What is covered at boot.                                                *)

\* b need not or cannot be mounted any more.
Covered(b) ==
  MountSucceeds(b, FALSE) =>
    \E m \in mounted \cup early : m.name = b.name /\ m.version >= b.version

\* The packages that apexd leaves to apexd-bootstrap where there is one
\* namespace only.
LeftToBootstrap(i) ==
  IF i.updatable THEN {}
  ELSE {b \in Builtins(i) : b.flattened /\ b.name \in kBootstrapApexes}

CoveredEarly(b) ==
  \E m \in early : m.name = b.name /\ m.version >= b.version

\* apexd-bootstrap looks into /system only.
BootstrapIsInSystem ==
  \A i \in Images : \A b \in LeftToBootstrap(i) :
    \E c \in i.dirs[1] :
      c \in LeftToBootstrap(i) /\ c.name = b.name /\ c.version >= b.version

\* Where the scans of the builtin directories stand: apexd-bootstrap, which
\* looks into the first, and apexd, which looks into each of them.
CoverInv ==
  /\ bootstrap => pc \in {"collect", "activate"}
  /\ pc = "stage" => dir = 0
  /\ bootstrap /\ pc = "activate" =>
       /\ dir = 1
       /\ \A b \in image.dirs[1] \ todo : b \in LeftToBootstrap(image) => CoveredEarly(b)
  /\ ~bootstrap => \/ Inconsistent(image)
                   \/ \A b \in LeftToBootstrap(image) : CoveredEarly(b)
  /\ ~bootstrap /\ pc \in {"scan", "activate"} /\ dir = 2 =>
       \A b \in image.dirs[1] : Covered(b)
  /\ ~bootstrap /\ pc = "activate" /\ dir # 0 =>
       \A b \in image.dirs[dir] \ todo : Covered(b)
  /\ BootCoversBuiltins

\* CoverInv holds when the device boots.
LEMMA InitCover == Init => CoverInv
BY DEF Init, CoverInv, BootCoversBuiltins

\* What is covered stays covered: mounts stay, keys and image stay.
LEMMA StaysCovered ==
  ASSUME UNCHANGED <<image, keys>>, mounted \subseteq mounted', early \subseteq early',
         NEW b
  PROVE  (Covered(b) => Covered(b)') /\ (CoveredEarly(b) => CoveredEarly(b)')
<1>1. MountSucceeds(b, FALSE)' = MountSucceeds(b, FALSE)
  BY DEF MountSucceeds, VerifyApexVerity, VerifyVbMetaSignature, VerifyPublicKey, HasKey
<1>2. QED
  BY <1>1 DEF Covered, CoveredEarly

\* A builtin package that a scan skips is covered.
LEMMA SkippedIsCovered ==
  ASSUME TypeOK, NEW S \in SUBSET ApexFiles, NEW b \in S \ ToActivate(S)
  PROVE  IF bootstrap THEN b \in LeftToBootstrap(image) => CoveredEarly(b)
                      ELSE Covered(b)
<1>1. (\E m \in Visible : m.name = b.name /\ m.version >= b.version)
      \/ (~image.updatable /\ ~b.flattened)
  <2>1. \A m \in Visible : m.version \in Nat
    BY FileTypes DEF Visible, TypeOK
  <2>2. b.version \in Nat
    BY FileTypes
  <2>3. QED
    BY <2>1, <2>2 DEF ToActivate
<1>2. QED
  BY <1>1 DEF Visible, Covered, CoveredEarly, LeftToBootstrap, MountSucceeds

\* What is mounted covers itself.
LEMMA MountedIsCovered ==
  ASSUME NEW f \in ApexFiles, MountPackage(f)
  PROVE  IF bootstrap THEN CoveredEarly(f)' ELSE Covered(f)'
<1>1. f.version >= f.version
  BY FileTypes
<1>2. QED
  BY <1>1 DEF MountPackage, CoveredEarly, Covered

\* A package for which there is nothing to mount is covered.
LEMMA NothingIsCovered ==
  ASSUME TypeOK, NEW f \in Builtins(image), NothingToMount(f),
         ~bootstrap => \A b \in LeftToBootstrap(image) : CoveredEarly(b)
  PROVE  IF bootstrap THEN f \in LeftToBootstrap(image) => CoveredEarly(f)
                      ELSE Covered(f)
<1>1. f.version >= f.version
  BY FileTypes, ImageDirs DEF TypeOK
<1>2. CASE bootstrap /\ f.name \notin kBootstrapApexes
  BY <1>2 DEF LeftToBootstrap
<1>3. CASE ~bootstrap /\ ~image.updatable /\ f.name \in kBootstrapApexes
  BY <1>3 DEF LeftToBootstrap, Covered, CoveredEarly, MountSucceeds
<1>4. CASE \E m \in Visible : m.name = f.name /\ m.version = f.version
  BY <1>1, <1>4 DEF Visible, Covered, CoveredEarly
<1>5. QED
  BY <1>2, <1>3, <1>4 DEF NothingToMount

\* One package of a directory is covered, or cannot be mounted.
LEMMA ActivateCovers ==
  ASSUME TypeOK, KeysInv, CoverInv, ActivateOne
  PROVE  CoverInv'
<1>1. PICK f \in todo :
        /\ todo' = todo \ {f}
        /\ \/ f.opens /\ NothingToMount(f) /\ UNCHANGED namespaces
           \/ f.opens /\ ~NothingToMount(f) /\ MountSucceeds(f, FALSE) /\ MountPackage(f)
           \/ (~f.opens \/ ~MountSucceeds(f, FALSE)) /\ UNCHANGED namespaces
  BY DEF ActivateOne
<1>2. pc = "activate" /\ UNCHANGED <<image, bootstrap, keys, pc, dir>>
  BY DEF ActivateOne
<1>3. mounted \subseteq mounted' /\ early \subseteq early'
  BY <1>1 DEF MountPackage, namespaces
<1>4. /\ \A b \in Builtins(image) : b.opens
      /\ ~Inconsistent(image)
      /\ Builtins(image) = image.dirs[1] \cup image.dirs[2]
      /\ f \in ApexFiles /\ image \in Images /\ dir \in {0, 1, 2}
  BY <1>2, KeysInvMatches, ImageDirs, TypeParts
     DEF KeysInv, KeysMatchImage, Collected, TypeOK, ProcessType
<1>5. ~bootstrap => \A b \in LeftToBootstrap(image) : CoveredEarly(b)
  BY <1>4 DEF CoverInv
<1>6. ASSUME f \in Builtins(image)
      PROVE  IF bootstrap THEN f \in LeftToBootstrap(image) => CoveredEarly(f)'
                          ELSE Covered(f)'
  <2>1. CASE NothingToMount(f) /\ UNCHANGED namespaces
    BY <1>2, <1>3, <1>5, <1>6, <2>1, NothingIsCovered, StaysCovered
  <2>2. CASE MountPackage(f)
    BY <1>4, <2>2, MountedIsCovered
  <2>3. CASE ~MountSucceeds(f, FALSE) /\ UNCHANGED namespaces
    <3>1. CASE bootstrap
      <4>1. f.flattened => f.builtin
        BY <1>4, FileTypes
      <4>2. QED
        BY <2>3, <3>1, <4>1 DEF LeftToBootstrap, MountSucceeds
    <3>2. CASE ~bootstrap
      BY <1>2, <1>3, <2>3, <3>2, StaysCovered DEF Covered
    <3>3. QED
      BY <3>1, <3>2
  <2>4. QED
    BY <1>1, <1>4, <1>6, <2>1, <2>2, <2>3
<1>7. \A b : (Covered(b) => Covered(b)') /\ (CoveredEarly(b) => CoveredEarly(b)')
  BY <1>2, <1>3, StaysCovered
<1>8. LeftToBootstrap(image)' = LeftToBootstrap(image) /\ Inconsistent(image)' = Inconsistent(image)
  BY <1>2 DEF LeftToBootstrap, Inconsistent, Builtins
<1>9. bootstrap =>
        /\ dir = 1
        /\ \A b \in image.dirs[1] \ todo' : b \in LeftToBootstrap(image) => CoveredEarly(b)'
  BY <1>1, <1>2, <1>4, <1>6, <1>7 DEF CoverInv
<1>10. ~bootstrap /\ dir # 0 => \A b \in image.dirs[dir] \ todo' : Covered(b)'
  BY <1>1, <1>2, <1>4, <1>6, <1>7 DEF CoverInv
<1>11. ~bootstrap /\ dir = 2 => \A b \in image.dirs[1] : Covered(b)'
  BY <1>2, <1>7 DEF CoverInv
<1>12. ~bootstrap => \A b \in LeftToBootstrap(image) : CoveredEarly(b)'
  BY <1>5, <1>7
<1>13. QED
  BY <1>2, <1>8, <1>9, <1>10, <1>11, <1>12 DEF CoverInv, BootCoversBuiltins

\* The steps that leave the mounts, and go on only as far as they have covered.
LEMMA ScanCovers ==
  ASSUME TypeOK, KeysInv, CoverInv,
         ScanPackagesDir \/ StageSession \/ CollectedDir
  PROVE  CoverInv'
<1>1. UNCHANGED <<image, bootstrap, keys, mounted, early>>
  BY DEF ScanPackagesDir, StageSession, CollectedDir, namespaces
<1>2. /\ \A b : Covered(b)' = Covered(b) /\ CoveredEarly(b)' = CoveredEarly(b)
      /\ Inconsistent(image)' = Inconsistent(image)
      /\ LeftToBootstrap(image)' = LeftToBootstrap(image)
  BY <1>1 DEF Covered, CoveredEarly, MountSucceeds, VerifyApexVerity,
       VerifyVbMetaSignature, VerifyPublicKey, HasKey, LeftToBootstrap, Inconsistent, Builtins
<1>3. \A d \in {1, 2} : image.dirs[d] \in SUBSET ApexFiles
  BY ImageDirs DEF TypeOK
<1>4. CASE ScanPackagesDir
  <2>1. /\ pc = "scan" /\ pc' = "activate" /\ dir' = dir /\ dir \in {0, 1, 2}
        /\ dir # 0 => todo' = ToActivate(image.dirs[dir])
    BY <1>4, TypeParts DEF ScanPackagesDir, ProcessType
  <2>2. ~bootstrap
    BY <2>1 DEF CoverInv
  <2>3. dir # 0 => \A b \in image.dirs[dir] \ todo' : Covered(b)
    BY <1>3, <2>1, <2>2, SkippedIsCovered
  <2>4. QED
    BY <1>1, <1>2, <2>1, <2>2, <2>3 DEF CoverInv, BootCoversBuiltins
<1>5. CASE StageSession
  <2>1. pc = "stage" /\ pc' = "scan" /\ dir' = dir
    BY <1>5 DEF StageSession
  <2>2. dir = 0
    BY <2>1 DEF CoverInv
  <2>3. QED
    BY <1>1, <1>2, <2>1, <2>2 DEF CoverInv, BootCoversBuiltins
<1>6. CASE CollectedDir
  <2>1. /\ pc = "collect"
        /\ \/ pc' = "collect"
           \/ bootstrap /\ pc' = "activate" /\ dir' = 1 /\ todo' = ToActivate(image.dirs[1])
           \/ ~bootstrap /\ pc' = "stage" /\ dir' = 0
    BY <1>6 DEF CollectedDir
  <2>2. bootstrap =>
          \A b \in image.dirs[1] \ ToActivate(image.dirs[1]) :
            b \in LeftToBootstrap(image) => CoveredEarly(b)
    BY <1>3, SkippedIsCovered
  <2>3. QED
    BY <1>1, <1>2, <2>1, <2>2 DEF CoverInv, BootCoversBuiltins
<1>7. QED
  BY <1>4, <1>5, <1>6

\* When a directory is done, all of it is covered.
LEMMA DoneCovers ==
  ASSUME TypeOK, KeysInv, CoverInv, BootstrapIsInSystem, ActivatedDir
  PROVE  CoverInv'
<1>1. pc = "activate" /\ todo = {} /\ UNCHANGED <<image, mounted, early>>
      /\ image \in Images /\ dir \in {0, 1, 2}
  BY TypeParts DEF ActivatedDir, namespaces, ProcessType
<1>2. /\ \A b : CoveredEarly(b)' = CoveredEarly(b)
      /\ Inconsistent(image)' = Inconsistent(image)
      /\ LeftToBootstrap(image)' = LeftToBootstrap(image)
  BY <1>1 DEF CoveredEarly, LeftToBootstrap, Inconsistent, Builtins
<1>3. CASE bootstrap
  <2>1. \A b \in image.dirs[1] : b \in LeftToBootstrap(image) => CoveredEarly(b)
    BY <1>1, <1>3 DEF CoverInv
  <2>2. ASSUME NEW b \in LeftToBootstrap(image)
        PROVE  CoveredEarly(b)
    <3>1. PICK c \in image.dirs[1] :
            c \in LeftToBootstrap(image) /\ c.name = b.name /\ c.version >= b.version
      BY <1>1, <2>2 DEF BootstrapIsInSystem
    <3>2. PICK m \in early : m.name = c.name /\ m.version >= c.version
      BY <2>1, <3>1 DEF CoveredEarly
    <3>3. m \in ApexFiles /\ b \in ApexFiles /\ c \in ApexFiles
      BY <1>1, <2>2, <3>1, ImageDirs DEF TypeOK, LeftToBootstrap
    <3>4. m.version >= b.version
      BY <3>1, <3>2, <3>3, FileTypes
    <3>5. QED
      BY <3>1, <3>2, <3>4 DEF CoveredEarly
  <2>3. bootstrap' = FALSE /\ pc' = "collect"
    BY <1>3 DEF ActivatedDir, StartApexd
  <2>4. QED
    BY <1>2, <2>2, <2>3 DEF CoverInv, BootCoversBuiltins
<1>4. CASE ~bootstrap
  <2>1. Len(BuiltinDirs) = 2
    BY DEF BuiltinDirs
  <2>2. UNCHANGED <<bootstrap, keys>>
    BY <1>4 DEF ActivatedDir
  <2>3. \A b : Covered(b) => Covered(b)'
    BY <1>1, <2>2, StaysCovered
  <2>4. /\ dir # 0 => \A b \in image.dirs[dir] : Covered(b)
        /\ dir = 2 => \A b \in image.dirs[1] : Covered(b)
    BY <1>1, <1>4 DEF CoverInv
  <2>5. CASE dir < 2
    <3>1. dir' = dir + 1 /\ pc' = "scan"
      BY <1>4, <2>1, <2>5 DEF ActivatedDir
    <3>2. dir' = 2 => \A b \in image.dirs[1] : Covered(b)'
      BY <1>1, <2>3, <2>4, <3>1
    <3>3. QED
      BY <1>1, <1>2, <1>4, <2>2, <3>1, <3>2 DEF CoverInv, BootCoversBuiltins
  <2>6. CASE ~(dir < 2)
    <3>1. pc' = "idle" /\ dir = 2
      BY <1>1, <1>4, <2>1, <2>6 DEF ActivatedDir
    <3>2. \A b \in Builtins(image) : Covered(b)'
      BY <1>1, <2>3, <2>4, <3>1, ImageDirs
    <3>3. BootCoversBuiltins'
      BY <1>1, <3>2 DEF BootCoversBuiltins, Covered, Builtins
    <3>4. QED
      BY <1>1, <1>2, <1>4, <2>2, <3>1, <3>3 DEF CoverInv
  <2>7. QED
    BY <2>5, <2>6
<1>5. QED
  BY <1>3, <1>4

\* The service adds mounts.
LEMMA RequestCovers ==
  ASSUME CoverInv, Request
  PROVE  CoverInv'
<1>1. Serving /\ UNCHANGED <<image, process>> /\ mounted \subseteq mounted'
      /\ early \subseteq early'
  BY DEF Request, SubmitStagedSession, StagePackages, MarkStagedSession,
         AbortActiveSession, ActivatePackage, MountPackage, namespaces
<1>2. \A b : (Covered(b) => Covered(b)') /\ (CoveredEarly(b) => CoveredEarly(b)')
  BY <1>1, StaysCovered DEF process
<1>3. BootCoversBuiltins'
  <2>1. pc' = pc /\ Builtins(image)' = Builtins(image)
    BY <1>1 DEF process, Builtins
  <2>2. pc = "idle" => \A b \in Builtins(image) : Covered(b)
    BY DEF CoverInv, BootCoversBuiltins, Covered
  <2>3. pc' = "idle" => \A b \in Builtins(image)' : Covered(b)'
    BY <1>2, <2>1, <2>2
  <2>4. QED
    BY <2>3 DEF BootCoversBuiltins, Covered
<1>4. QED
  BY <1>1, <1>2, <1>3 DEF CoverInv, Serving, process, LeftToBootstrap, Inconsistent, Builtins

\* Every step keeps CoverInv.
LEMMA NextCover ==
  ASSUME TypeOK, KeysInv, CoverInv, BootstrapIsInSystem, [Next]_vars
  PROVE  CoverInv'
<1> USE DEF BootCoversBuiltins
<1>1. CASE CollectKey
  BY <1>1 DEF CollectKey, CoverInv, CoveredEarly, LeftToBootstrap, Inconsistent,
              Builtins, namespaces
<1>2. CASE CollectFails
  <2>1. Inconsistent(image)
    BY <1>2, FailureIsConflict, TypeParts
  <2>2. Inconsistent(image)' /\ bootstrap' = FALSE /\ pc' \in {"collect", "broken"}
    BY <1>2, <2>1 DEF CollectFails, StartApexd, Inconsistent, Builtins, CoverInv
  <2>3. QED
    BY <2>2 DEF CoverInv
<1>3. CASE RollbackActiveSessionAndReboot \/ \E i \in Images : Reboot(i)
  BY <1>3 DEF RollbackActiveSessionAndReboot, Reboot, Boot, CoverInv
<1>4. CASE RestartProcess
  BY <1>4 DEF RestartProcess, StartApexd, CoverInv, CoveredEarly, LeftToBootstrap,
              Inconsistent, Builtins, namespaces
<1>5. CASE UNCHANGED vars
  <2>1. UNCHANGED <<image, bootstrap, keys, pc, dir, todo, mounted, early>>
    BY <1>5 DEF vars, process, namespaces
  <2>2. \A b : (Covered(b) => Covered(b)') /\ (CoveredEarly(b) => CoveredEarly(b)')
    BY <2>1, StaysCovered
  <2>3. pc = "idle" => \A b \in Builtins(image) : Covered(b)
    BY DEF CoverInv, Covered
  <2>4. pc' = "idle" => \A b \in Builtins(image)' : Covered(b)'
    BY <2>1, <2>2, <2>3 DEF Builtins
  <2>5. BootCoversBuiltins'
    BY <2>4 DEF Covered
  <2>6. /\ Inconsistent(image)' = Inconsistent(image)
        /\ LeftToBootstrap(image)' = LeftToBootstrap(image)
    BY <2>1 DEF LeftToBootstrap, Inconsistent, Builtins
  <2>7. QED
    BY <2>1, <2>2, <2>5, <2>6 DEF CoverInv
<1>6. QED
  BY <1>1, <1>2, <1>3, <1>4, <1>5, ActivateCovers, ScanCovers, DoneCovers, RequestCovers
     DEF Next, Step

\* If the packages for early processes are in /system, then once onStart is over
\* every builtin package that can be mounted is, or a newer version of it, whatever
\* failed of /data/apex/active.
THEOREM BootAlwaysCovers ==
  ASSUME BootstrapIsInSystem
  PROVE  Spec => []BootCoversBuiltins
<1>1. CoverInv => BootCoversBuiltins
  BY DEF CoverInv
<1>2. TypeOK /\ KeysInv /\ CoverInv /\ [Next]_vars => CoverInv'
  BY NextCover
<1>3. QED
  BY <1>1, <1>2, InitCover, TypeCorrect, KeysInvariant, PTL DEF Spec

-----------------------------------------------------------------------------
(* Reboots.                                                                *)

\* The reboot that apexd asked for has left no session that could ask again.
LoopInv == reboots = 0 \/ (reboots = 1 /\ session.state = "none")

\* A step that asks for a reboot has no session left that could ask again, and
\* everything that makes another session starts counting anew.
LEMMA NextLoop ==
  ASSUME TypeOK, LoopInv, [Next]_vars
  PROVE  LoopInv'
<1>1. CASE reboots' = 0
  BY <1>1 DEF LoopInv
<1>2. CASE UNCHANGED <<session, reboots>>
  BY <1>2 DEF LoopInv
<1>3. CASE CollectKey \/ CollectFails \/ CollectedDir \/ ScanPackagesDir \/ ActivateOne
             \/ ActivatedDir
  BY <1>2, <1>3 DEF CollectKey, CollectFails, CollectedDir, ScanPackagesDir, ActivateOne,
       ActivatedDir, data
<1>4. CASE StageSession
  <2>1. UNCHANGED reboots /\ (session.state = "none" => UNCHANGED session)
    BY <1>4 DEF StageSession, data
  <2>2. QED
    BY <2>1 DEF LoopInv
<1>5. CASE RollbackActiveSessionAndReboot
  <2>1. session.state = "activated" /\ session' = NoSession /\ reboots' = reboots + 1
    BY <1>5 DEF RollbackActiveSessionAndReboot, RestoreBackup
  <2>2. QED
    BY <2>1, NoSessionType DEF LoopInv
<1>6. CASE Request \/ RestartProcess \/ \E i \in Images : Reboot(i)
  BY <1>1, <1>6 DEF Request, SubmitStagedSession, StagePackages, MarkStagedSession,
       AbortActiveSession, ActivatePackage, RestartProcess, Reboot
<1>7. CASE UNCHANGED vars
  BY <1>2, <1>7 DEF vars, data
<1>8. QED
  BY <1>3, <1>4, <1>5, <1>6, <1>7 DEF Next, Step

\* A package of /data that cannot be activated makes onStart ask for one reboot:
\* the rollback leaves no session that could be rolled back again.
THEOREM NeverRebootsAgain == Spec => []NoBootLoop
<1>1. Init => LoopInv
  BY DEF Init, LoopInv
<1>2. LoopInv => NoBootLoop
  BY DEF LoopInv, NoBootLoop
<1>3. QED
  BY <1>1, <1>2, NextLoop, TypeCorrect, PTL DEF Spec
=============================================================================
