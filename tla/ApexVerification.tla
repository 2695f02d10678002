-------------------------- MODULE ApexVerification --------------------------
(***************************************************************************)
(* How apexd decides which APEX files it trusts: the keys it collects from *)
(* the builtin packages of the system image, the checks of a file and of   *)
(* the image inside it, and where they are made: when a session is         *)
(* submitted, when it is staged at the next boot, and whenever a package is *)
(* mounted (apexd/apex_file.cpp, apex_key.cpp, apex_shim.cpp, apexd.cpp).  *)
(*                                                                         *)
(* Between two of these a system update may replace the builtin packages,  *)
(* with other keys.  A session is one record here, and mounting a package  *)
(* one step: StagedSessions and ApexMounts have their steps.               *)
(***************************************************************************)
EXTENDS Integers, Sequences, FiniteSetsExt

CONSTANTS
  ApexFiles,        \* APEX files, see IsFile
  Images,           \* system images, see IsImage
  Submissions,      \* the sets of files that may be submitted or staged
  Shim,             \* kApexCtsShimPackage
  kBootstrapApexes, \* the packages that are activated before /data is there
  NoKey             \* no key: an image that is not signed

VARIABLES
  image,      \* the system image that runs
  active,     \* the files in /data/apex/active
  session,    \* the unfinalized session: its state, its files, the backup
  \* apexd
  bootstrap,  \* gBootstrap: this process is apexd-bootstrap
  keys,       \* gScannedApexKeys: package name -> key
  pc, dir, todo,  \* what onStart does next, in which directory, which files
  failed,     \* is one of failed_pkgs from /data
  \* the mount namespaces
  mounted,    \* the packages mounted on /apex
  early,      \* ... and those that apexd-bootstrap mounted for early processes
  \* history
  linkedIn,   \* the image under which a file was put into /data/apex/active
  reboots     \* reboots that apexd asked for since anybody else did anything

process    == <<bootstrap, keys, pc, dir, todo, failed>>
namespaces == <<mounted, early>>
data       == <<active, session, linkedIn>>
vars       == <<image, data, process, namespaces, reboots>>

-----------------------------------------------------------------------------
(* Files and images.                                                       *)

\* kApexPackageBuiltinDirs.
BuiltinDirs == <<"system", "product">>

\* name, version  the manifest beside the image
\* builtin        is it in a builtin directory
\* flattened      is it a directory
\* opens          can ApexFile::Open read it
\* footer         is there a valid AVB footer, with a vbmeta that fits
\* signer         the key that the vbmeta is rightly signed with, or NoKey
\* keyName        the property apex.key of the vbmeta
\* descriptors    the kinds of the vbmeta's descriptors
\* bundled        the public key beside the image
\* matches        the manifest inside the image equals the one beside it
\* intact         the image agrees with its hash tree
\* hook           does the manifest name a hook
\* contents       the top-level entries of the image: name, plain (a file that
\*                is not executable) and inside, the same of what is in it, which is
\*                nothing for a plain file
\* digest         the SHA512 of the file
\* allowed        the SHA512s in etc/hash.txt inside the image
Names == {f.name : f \in ApexFiles}
Keys  == {f.bundled : f \in ApexFiles} \cup {f.signer : f \in ApexFiles}

IsFile(f) ==
  /\ f.version \in Nat
  /\ f.flattened => f.builtin
  /\ {f.builtin, f.flattened, f.opens, f.footer, f.matches, f.intact,
      f.hook} \subseteq BOOLEAN
  /\ f.descriptors \in Seq({"hashtree", "other", "invalid"})
  /\ \A e \in f.contents : e.plain => e.inside = {}

\* debuggable  kDebugAllowBundledKey, and are debug calls accepted
\* updatable   kUpdatable
IsImage(i) ==
  /\ i.debuggable \in BOOLEAN /\ i.updatable \in BOOLEAN
  /\ DOMAIN i.dirs = DOMAIN BuiltinDirs
  /\ \A n \in DOMAIN i.dirs : i.dirs[n] \subseteq {f \in ApexFiles : f.builtin}

ASSUME VerificationAssumption ==
  /\ \A f \in ApexFiles : IsFile(f)
  /\ \A i \in Images : IsImage(i)
  /\ \A fs \in Submissions :
       /\ fs \subseteq {f \in ApexFiles : ~f.builtin} /\ fs # {}
       /\ \A f, g \in fs : f.name = g.name => f = g
  /\ kBootstrapApexes \subseteq Names

Builtins(i) == UNION {i.dirs[n] : n \in DOMAIN i.dirs}
DataFiles == {f \in ApexFiles : ~f.builtin}

-----------------------------------------------------------------------------
(* The keys.                                                               *)

HasKey(name) == name \in DOMAIN keys

\* updateScannedApexKeys, for one package; a name that is there keeps its key.
UpdateScannedApexKeys(f) ==
  keys' = [n \in DOMAIN keys \cup {f.name} |->
             IF HasKey(n) THEN keys[n] ELSE f.bundled]

-----------------------------------------------------------------------------
(* The checks of one file.                                                 *)

\* findDescriptor: the first hash tree descriptor, when every descriptor
\* before it is valid; those after it are not looked at.
FindDescriptor(ds) ==
  \E n \in DOMAIN ds : /\ ds[n] = "hashtree"
                       /\ \A m \in 1 .. n - 1 : ds[m] = "other"

\* The part of verifyVbMetaSignature that chooses the key: the builtin one, or
\* on a debuggable device the bundled one when no builtin package has that name.
VerifyPublicKey(f) ==
  IF HasKey(f.name) THEN f.signer = keys[f.name]
                    ELSE image.debuggable /\ f.signer = f.bundled

\* verifyVbMetaSignature and getPublicKeyName.
VerifyVbMetaSignature(f) ==
  /\ f.signer # NoKey
  /\ f.keyName = f.name
  /\ VerifyPublicKey(f)

\* ApexFile::VerifyApexVerity.
VerifyApexVerity(f) ==
  /\ ~f.flattened /\ f.footer
  /\ VerifyVbMetaSignature(f)
  /\ FindDescriptor(f.descriptors)

\* IsHashTxt.
IsHashTxt(e) == e.plain /\ e.name = "hash.txt"

\* What a shim may contain.
IsWhitelistedTopLevelEntry(e) ==
  \/ e.name = "lost+found" /\ e.inside = {}
  \/ e.name = "etc" /\ e.inside # {} /\ \A i \in e.inside : IsHashTxt(i)
  \/ e.name = "apex_manifest.json" /\ e.plain

ValidateShimApex(f) ==
  ~f.hook /\ \A e \in f.contents : IsWhitelistedTopLevelEntry(e)

\* VerifyMountedImage: the manifests agree, and a shim contains nothing else.
VerifyMountedImage(f) == f.matches /\ (f.name = Shim => ValidateShimApex(f))

\* Mutant: a package of /data was verified when it was staged.
MountSucceedsUnverified(f, verifyImage) ==
  IF f.flattened
    THEN f.builtin
    ELSE /\ image.updatable
         /\ f.builtin \/ verifyImage => VerifyApexVerity(f)
         /\ verifyImage /\ ~f.builtin => f.intact
         /\ VerifyMountedImage(f)

\* What MountPackageImpl checks.  verifyImage: all blocks are read, through
\* dm-verity; builtin packages are not on dm-verity.
MountSucceeds(f, verifyImage) ==
  IF f.flattened
    THEN f.builtin
    ELSE /\ image.updatable
         /\ VerifyApexVerity(f)
         /\ verifyImage /\ ~f.builtin => f.intact
         /\ VerifyMountedImage(f)

\* The hash list in s has the hash of f.
ValidateUpdate(s, f) == f.digest \in s.allowed

\* ValidateStagingShimApex: the shim in /system is mounted, and lists f.
ValidateStagingShimApex(f) ==
  \E s \in image.dirs[1] : /\ s.name = Shim /\ s.opens
                           /\ MountSucceeds(s, TRUE)
                           /\ ValidateUpdate(s, f)

\* VerifyPackageBoot, when a package is staged.
VerifyPackageBoot(f) ==
  /\ f.opens
  /\ VerifyApexVerity(f)
  /\ f.name = Shim => ValidateStagingShimApex(f)

\* VerifyPackageInstall, when a session is submitted.
VerifyPackageInstall(f) == VerifyPackageBoot(f) /\ MountSucceeds(f, TRUE)

-----------------------------------------------------------------------------
(* Collecting the keys.                                                    *)

\* The packages mounted in the mount namespace of this process; a device that is
\* not updatable has one namespace (external).
Visible == IF bootstrap THEN early
           ELSE IF image.updatable THEN mounted ELSE mounted \cup early

\* What scanPackagesDirAndActivate finds among files and does not skip; the
\* versions of the active packages are read once, before its loop.
ToActivate(files) ==
  {f \in files : f.opens =>
    /\ \A m \in Visible : m.name = f.name => m.version < f.version
    /\ image.updatable \/ f.flattened}

\* onBootstrap is over: apexd starts.
StartApexd ==
  /\ bootstrap' = FALSE
  /\ keys' = <<>> /\ pc' = "collect" /\ dir' = 1
  /\ todo' = image.dirs[1] /\ failed' = FALSE

\* Mutant: a second key for a package is ignored.
CollectKeyAnyway ==
  /\ pc = "collect" /\ todo # {}
  /\ \A f \in image.dirs[dir] : f.opens
  /\ \E f \in todo : UpdateScannedApexKeys(f) /\ todo' = todo \ {f}
  /\ UNCHANGED <<image, data, bootstrap, pc, dir, failed, namespaces, reboots>>

\* collectEmbedddedApexKeysFromDir and updateScannedApexKeys: one package of
\* the directory, in any order.
CollectKey ==
  /\ pc = "collect" /\ todo # {}
  /\ \A f \in image.dirs[dir] : f.opens
  /\ \E f \in todo :
       /\ HasKey(f.name) => keys[f.name] = f.bundled
       /\ UpdateScannedApexKeys(f)
       /\ todo' = todo \ {f}
  /\ UNCHANGED <<image, data, bootstrap, pc, dir, failed, namespaces, reboots>>

\* A package cannot be opened, or two packages of one name have two keys: the
\* keys found so far stay, onBootstrap exits, and onStart returns.
CollectFails ==
  /\ pc = "collect" /\ todo # {}
  /\ \/ \E f \in image.dirs[dir] : ~f.opens
     \/ \E f \in todo : HasKey(f.name) /\ keys[f.name] # f.bundled
  /\ IF bootstrap
       THEN StartApexd
       ELSE /\ pc' = "broken" /\ todo' = {}
            /\ UNCHANGED <<bootstrap, keys, dir, failed>>
  /\ UNCHANGED <<image, data, namespaces, reboots>>

\* Every package of a directory is done: the next directory is next, and then
\* a scan of /system/apex in onBootstrap, the staged session in onStart.
CollectedDir ==
  /\ pc = "collect" /\ todo = {}
  /\ IF dir < Len(BuiltinDirs)
       THEN /\ dir' = dir + 1
            /\ todo' = image.dirs[dir']
            /\ UNCHANGED pc
       ELSE IF bootstrap
              THEN dir' = 1 /\ pc' = "activate" /\ todo' = ToActivate(image.dirs[1])
              ELSE dir' = 0 /\ pc' = "stage" /\ todo' = {}
  /\ UNCHANGED <<image, data, bootstrap, keys, failed, namespaces, reboots>>

-----------------------------------------------------------------------------
(* Staging and activation at boot.                                         *)

\* A session that is finalized is as good as none.
States == {"none", "verified", "staged", "activated"}
NoSession == [state |-> "none", files |-> {}, backup |-> {}]

\* The packages that getActivePackages reports.
ActivePackages ==
  {m \in Visible : \A o \in Visible : o.name = m.name => o.version <= m.version}

\* FilterUnnecessaryStagingPaths: not the files that are in /data/apex/active, or
\* whose version is active.
ToStage(fs) ==
  {f \in fs : \A a \in active \cup ActivePackages :
                a.name = f.name => a.version # f.version}

\* History: fs are put into /data/apex/active now.
RecordLinks(fs) ==
  linkedIn' = [f \in active' \cup session'.backup |->
                 IF f \in fs THEN image ELSE linkedIn[f]]

\* stagePackages, of verified files, in place of the other versions.
Stage(fs) ==
  active' = ToStage(fs)
            \cup {a \in active : \A f \in ToStage(fs) : f.name # a.name}

\* Mutant: what was verified is not verified again.
StageSessionTrusting ==
  /\ pc = "stage"
  /\ IF session.state = "staged"
       THEN /\ Stage(session.files)
            /\ session' = [session EXCEPT !.state = "activated"]
            /\ RecordLinks(ToStage(session.files))
       ELSE UNCHANGED data
  /\ pc' = "scan"
  /\ UNCHANGED <<image, bootstrap, keys, dir, todo, failed, namespaces, reboots>>

\* scanStagedSessionsDirAndStage: all files of the session or none.
StageSession ==
  /\ pc = "stage"
  /\ \/ /\ session.state # "staged"
        /\ UNCHANGED data
     \/ /\ session.state = "staged"
        /\ \A f \in session.files : VerifyPackageBoot(f)
        /\ Stage(session.files)
        /\ session' = [session EXCEPT !.state = "activated"]
        /\ RecordLinks(ToStage(session.files))
     \/ /\ session.state = "staged"
        /\ \E f \in session.files : ~VerifyPackageBoot(f)
        /\ session' = NoSession
        /\ UNCHANGED active
        /\ RecordLinks({})
  /\ pc' = "scan"
  /\ UNCHANGED <<image, bootstrap, keys, dir, todo, failed, namespaces, reboots>>

\* scanPackagesDirAndActivate lists directory dir, 0 for /data/apex/active.
ScanPackagesDir ==
  /\ pc = "scan"
  /\ todo' = ToActivate(IF dir = 0 THEN active ELSE image.dirs[dir])
  /\ pc' = "activate"
  /\ UNCHANGED <<image, data, bootstrap, keys, dir, failed, namespaces, reboots>>

\* activatePackageImpl has nothing to mount: the package was left to the other
\* process, or its version is mounted.
NothingToMount(f) ==
  \/ bootstrap /\ f.name \notin kBootstrapApexes
  \/ ~bootstrap /\ ~image.updatable /\ f.name \in kBootstrapApexes
  \/ \E m \in Visible : m.name = f.name /\ m.version = f.version

MountPackage(f) ==
  IF bootstrap THEN early' = early \cup {f} /\ UNCHANGED mounted
               ELSE mounted' = mounted \cup {f} /\ UNCHANGED early

\* One package of the directory; a failure does not stop the loop.
ActivateOne ==
  /\ pc = "activate"
  /\ \E f \in todo :
       /\ todo' = todo \ {f}
       /\ \/ /\ f.opens /\ NothingToMount(f)
             /\ UNCHANGED <<namespaces, failed>>
          \/ /\ f.opens /\ ~NothingToMount(f) /\ MountSucceeds(f, FALSE)
             /\ MountPackage(f)
             /\ UNCHANGED failed
          \/ /\ ~f.opens \/ (~NothingToMount(f) /\ ~MountSucceeds(f, FALSE))
             /\ failed' = TRUE
             /\ UNCHANGED namespaces
  /\ UNCHANGED <<image, data, bootstrap, keys, pc, dir, reboots>>

\* Image i boots: apexd-bootstrap is started in a namespace without mounts.
Boot(i) ==
  /\ image' = i
  /\ mounted' = {} /\ early' = {}
  /\ bootstrap' = TRUE
  /\ keys' = <<>> /\ pc' = "collect" /\ dir' = 1
  /\ todo' = i.dirs[1] /\ failed' = FALSE

\* Mutant: the session is not told that it was rolled back.
RestoreBackupOnly ==
  /\ active' = session.backup
  /\ session' = [session EXCEPT !.files = {}]
  /\ RecordLinks({})

\* RollbackActivatedSession: the backup replaces /data/apex/active.
RestoreBackup ==
  /\ active' = session.backup
  /\ session' = NoSession
  /\ RecordLinks({})

\* rollbackActiveSessionAndReboot, as a package of /data failed.
RollbackActiveSessionAndReboot ==
  /\ pc = "activate" /\ todo = {}
  /\ dir = 0 /\ failed /\ session.state = "activated"
  /\ RestoreBackup
  /\ Boot(image)
  /\ reboots' = reboots + 1

\* Mutant: onStart gives up when it cannot roll back.
ActivatedDirReturns ==
  /\ pc = "activate" /\ todo = {}
  /\ IF bootstrap
       THEN StartApexd
       ELSE /\ failed /\ dir = 0 => session.state # "activated"
            /\ IF dir < Len(BuiltinDirs) /\ ~(failed /\ dir = 0)
                 THEN dir' = dir + 1 /\ pc' = "scan"
                 ELSE dir' = 0 /\ pc' = "idle"
            /\ failed' = FALSE
            /\ UNCHANGED <<bootstrap, keys, todo>>
  /\ UNCHANGED <<image, data, namespaces, reboots>>

\* Mutant: one directory too many.
ActivatedDirTooMany ==
  /\ pc = "activate" /\ todo = {}
  /\ IF bootstrap
       THEN StartApexd
       ELSE /\ dir' = dir + 1
            /\ pc' = IF dir <= Len(BuiltinDirs) THEN "scan" ELSE "idle"
            /\ UNCHANGED <<bootstrap, keys, todo, failed>>
  /\ UNCHANGED <<image, data, namespaces, reboots>>

\* A directory is done.  When a package of /data failed and there is no session
\* to roll back, the builtin packages stand in for it; the failure of a builtin
\* package is only logged.
ActivatedDir ==
  /\ pc = "activate" /\ todo = {}
  /\ IF bootstrap
       THEN StartApexd
       ELSE /\ failed /\ dir = 0 => session.state # "activated"
            /\ IF dir < Len(BuiltinDirs)
                 THEN dir' = dir + 1 /\ pc' = "scan"
                 ELSE dir' = 0 /\ pc' = "idle"
            /\ failed' = FALSE
            /\ UNCHANGED <<bootstrap, keys, todo>>
  /\ UNCHANGED <<image, data, namespaces, reboots>>

-----------------------------------------------------------------------------
(* The service.  It is registered even when the keys could not be collected. *)

Serving == pc \in {"idle", "broken"}

\* submitStagedSession: older sessions are forgotten, and a session is recorded
\* if all its files pass.  The backup of a refused session is not looked at.
SubmitStagedSession(fs) ==
  /\ Serving
  /\ session' = IF \A f \in fs : VerifyPackageInstall(f)
                  THEN [state |-> "verified", files |-> fs, backup |-> active]
                  ELSE NoSession
  /\ UNCHANGED active
  /\ RecordLinks({})
  /\ reboots' = 0
  /\ UNCHANGED <<image, process, namespaces>>

\* markStagedSessionReady and markStagedSessionSuccessful.
MarkStagedSession ==
  /\ Serving
  /\ \/ /\ session.state = "verified"
        /\ session' = [session EXCEPT !.state = "staged"]
     \/ /\ session.state = "activated"
        /\ session' = NoSession
  /\ UNCHANGED active
  /\ RecordLinks({})
  /\ reboots' = 0
  /\ UNCHANGED <<image, process, namespaces>>

\* abortActiveSession.
AbortActiveSession ==
  /\ Serving
  /\ \/ /\ session.state \in {"verified", "staged"}
        /\ session' = NoSession
        /\ UNCHANGED active
        /\ RecordLinks({})
     \/ /\ session.state = "activated"
        /\ RestoreBackup
  /\ reboots' = 0
  /\ UNCHANGED <<image, process, namespaces>>

\* stagePackages, a debug call.
StagePackages(fs) ==
  /\ Serving /\ image.debuggable
  /\ \A f \in fs : VerifyPackageBoot(f)
  /\ Stage(fs)
  /\ UNCHANGED session
  /\ RecordLinks(ToStage(fs))
  /\ reboots' = 0
  /\ UNCHANGED <<image, process, namespaces>>

\* activatePackage, a debug call: any file, without a look at the session.
ActivatePackage(f) ==
  /\ Serving /\ image.debuggable
  /\ f.opens /\ ~NothingToMount(f) /\ MountSucceeds(f, FALSE)
  /\ MountPackage(f)
  /\ reboots' = 0
  /\ UNCHANGED <<image, data, process>>

-----------------------------------------------------------------------------
(* The process dies and init starts it again, or the device reboots.        *)

RestartProcess ==
  /\ ~bootstrap
  /\ StartApexd
  /\ reboots' = 0
  /\ UNCHANGED <<image, data, namespaces>>

\* ... into image i, after a system update.
Reboot(i) ==
  /\ Boot(i)
  /\ reboots' = 0
  /\ UNCHANGED data

-----------------------------------------------------------------------------
Init ==
  /\ image \in Images
  /\ active = {} /\ session = NoSession /\ linkedIn = <<>>
  /\ bootstrap = TRUE /\ keys = <<>>
  /\ pc = "collect" /\ dir = 1 /\ todo = image.dirs[1] /\ failed = FALSE
  /\ mounted = {} /\ early = {}
  /\ reboots = 0

Step == \/ CollectKey \/ CollectFails \/ CollectedDir
        \/ StageSession \/ ScanPackagesDir \/ ActivateOne
        \/ RollbackActiveSessionAndReboot \/ ActivatedDir

Request == \/ \E fs \in Submissions : SubmitStagedSession(fs) \/ StagePackages(fs)
           \/ MarkStagedSession
           \/ AbortActiveSession
           \/ \E f \in Builtins(image) \cup DataFiles : ActivatePackage(f)

Next == Step \/ Request \/ RestartProcess \/ \E i \in Images : Reboot(i)

Spec == Init /\ [][Next]_vars

-----------------------------------------------------------------------------
(* Properties.                                                             *)

\* The types of the variables.
TypeOK ==
  /\ image \in Images
  /\ active \subseteq DataFiles
  /\ session \in [state : States, files : SUBSET DataFiles,
                  backup : SUBSET DataFiles]
  /\ bootstrap \in BOOLEAN
  /\ DOMAIN keys \subseteq Names /\ \A n \in DOMAIN keys : keys[n] \in Keys
  /\ pc \in {"collect", "stage", "scan", "activate", "idle", "broken"}
  /\ dir \in 0 .. Len(BuiltinDirs)
  /\ todo \subseteq ApexFiles /\ failed \in BOOLEAN
  /\ mounted \subseteq ApexFiles /\ early \subseteq ApexFiles
  /\ linkedIn \in [active \cup session.backup -> Images]
  /\ reboots \in Nat

\* The builtin packages of image i do not agree on their keys.
Inconsistent(i) ==
  \/ \E b \in Builtins(i) : ~b.opens
  \/ \E b, c \in Builtins(i) : b.name = c.name /\ b.bundled # c.bundled

\* What a signature must be like under image i.  The fallback to the bundled
\* key is for debuggable devices and for packages that are not preinstalled.
SignatureTrusted(f, i) ==
  /\ f.footer /\ \E n \in DOMAIN f.descriptors : f.descriptors[n] = "hashtree"
  /\ f.keyName = f.name /\ f.signer # NoKey
  /\ \/ \E b \in Builtins(i) : b.name = f.name /\ b.opens /\ f.signer = b.bundled
     \/ /\ i.debuggable /\ f.signer = f.bundled
        /\ (\A b \in Builtins(i) : b.name # f.name) \/ Inconsistent(i)

\* A shim brings nothing that could run, and nothing but its hash list.
Harmless(f) ==
  /\ ~f.hook
  /\ \A e \in f.contents : /\ e.name \in {"lost+found", "etc", "apex_manifest.json"}
                            /\ \A i \in e.inside : i.name = "hash.txt" /\ i.plain

\* Whatever is mounted is a flattened package of the system image, or its image
\* is signed with the key of the builtin package of that name, of the system
\* image that runs now: whenever the file was submitted, staged, restored from
\* the backup or left mounted by a process that died.
MountedIsTrusted ==
  \A f \in mounted \cup early :
    \/ f.flattened /\ f \in Builtins(image)
    \/ SignatureTrusted(f, image) /\ f.matches /\ (f.name = Shim => Harmless(f))

\* Once the keys are collected, they are the keys of the builtin packages, in
\* whatever order the directories were read; if that failed, the image is
\* inconsistent, and the keys that were found are still keys of builtin packages.
KeysMatchImage ==
  /\ \A n \in DOMAIN keys : \E b \in Builtins(image) :
       b.name = n /\ b.bundled = keys[n]
  /\ pc \in {"stage", "scan", "activate", "idle"} =>
       /\ ~Inconsistent(image)
       /\ DOMAIN keys = {b.name : b \in Builtins(image)}
  /\ pc = "broken" => Inconsistent(image)

\* Each file in /data/apex/active was verified against the keys, and a shim
\* against the list, of the system image under which it was put there, though
\* its session may have been submitted under another one; a rollback brings
\* back files of which that holds.
InstalledWasVerified ==
  \A f \in active :
    /\ SignatureTrusted(f, linkedIn[f])
    /\ f.name = Shim => \E s \in linkedIn[f].dirs[1] :
                          s.name = Shim /\ f.digest \in s.allowed

\* Once onStart is over, every builtin package that can be mounted is mounted
\* in its own version or a newer one, even when the package in /data that was
\* to replace it failed.
BootCoversBuiltins ==
  pc = "idle" =>
    \A b \in Builtins(image) :
      MountSucceeds(b, FALSE) =>
        \E m \in mounted \cup early : m.name = b.name /\ m.version >= b.version

\* A package that cannot be activated makes apexd reboot the device once, not
\* again and again.
NoBootLoop == reboots <= 1
=============================================================================
