----------------------------- MODULE ApexMounts -----------------------------
(***************************************************************************)
(* How apexd mounts, activates and unmounts APEX packages: the loop and    *)
(* dm-verity devices, the mounts on /apex and the database of them that    *)
(* apexd keeps in memory (apexd/apexd.cpp, apex_database.h and .cpp,       *)
(* apexd_loop.cpp, apexd_private.cpp, apexd_prepostinstall.cpp).           *)
(*                                                                         *)
(* One handler runs at a time: the database has no locks.  The kernel's    *)
(* state outlives the process; the database does not, and is rebuilt from  *)
(* /proc/mounts when init starts apexd again.  A label of pc is named for  *)
(* what the next step does.                                                *)
(***************************************************************************)
EXTENDS Integers, FiniteSetsExt

CONSTANTS
  ApexFiles,      \* APEX files: records with fields name, version and dir
  NumLoops,       \* loop devices; device 0 stands for none
  IntMax,         \* the largest version that ParseInt accepts
  Debuggable,     \* ro.debuggable: are the debug-only calls accepted
  MayRestart,     \* may the process die and be started again
  NoFile,         \* no file
  Faults          \* the calls that may fail, members of FaultKinds

\* Where an APEX file is: /data/apex/active, a builtin directory, the same but
\* flattened, or the staging directory of a session.
Dirs == {"data", "builtin", "flattened", "staging"}

\* "loop"    setting up a loop device         "verity"  verifying the image
\* "mount"   mounting or checking the image   "bind"    the bind mount
\* "umount"  umount2                          "dm"      deleting a dm device
FaultKinds == {"loop", "verity", "mount", "bind", "umount", "dm"}

ASSUME MountsAssumption ==
  /\ \A f \in ApexFiles : f.version \in Nat /\ f.dir \in Dirs
  /\ NumLoops \in Nat /\ IntMax \in Nat /\ NoFile \notin ApexFiles
  /\ Debuggable \in BOOLEAN /\ MayRestart \in BOOLEAN
  /\ Faults \subseteq FaultKinds

VARIABLES
  \* the file systems and the kernel
  files,          \* the APEX files that can be opened
  loop,           \* loop device -> its backing file, or NoFile
  autoclear,      \* loop devices that go with their last user
  dm,             \* dm-verity device -> the loop device under it, or 0
  mounts,         \* what is mounted on /apex/<package>@<version>[.tmp]
  bound,          \* ... and what of it is bind-mounted on /apex/<package>
  \* the apexd process
  db,             \* gMountedApexes
  latest,         \* its entries that are flagged latest
  phase,          \* "booting", "serving" or "completed"
  pc, frame,      \* what the handler does next, its local variables
  \* history
  spoiled         \* what went wrong since the device booted

kernel   == <<loop, autoclear, dm, mounts, bound>>
devices  == <<loop, autoclear, dm>>
database == <<db, latest>>
vars     == <<files, kernel, database, phase, pc, frame, spoiled>>

Loops == 1 .. NumLoops
Names == {f.name : f \in ApexFiles}
Versions == {f.version : f \in ApexFiles}

\* /apex/<name>@<version> and /apex/<name>@<version>.tmp.  A dm device has the
\* name of the mount point it is made for.
Points == [name : Names, version : Versions, tmp : BOOLEAN]

\* GetPackageMountPoint and GetPackageTempMountPoint.
PointOf(f, tmp) == [name |-> f.name, version |-> f.version, tmp |-> tmp]

\* MountedApexData.  Of a mount, verity says that it is of a dm device; of an
\* entry of the database, that its device_name is not empty.
Entries == [file : ApexFiles, loop : 0 .. NumLoops, point : Points,
            verity : BOOLEAN]

Fault(kind) == kind \in Faults

Labels == {"idle", "populate", "scan", "visit", "mountPackage", "verity",
           "mount", "unbind", "bind", "hook", "unmount", "dangling", "unlink"}

\* op     what the handler is: a scan of onStart over "data" or "builtin"
\*        files, a call of the service, or unmountDanglingMounts
\* file   the APEX file at hand
\* loop   the loop device taken for it
\* tries  how often a loop device was tried
\* newest is_newest_version
\* entry  the database entry being unmounted, if any
\* todo   the files or entries a loop has yet to visit
Ops == {"none", "data", "builtin", "activate", "preinstall", "verify",
        "dangling"}

Frames == [op : Ops, file : ApexFiles \cup {NoFile}, loop : 0 .. NumLoops,
           tries : 0 .. 2, newest : BOOLEAN, entry : SUBSET Entries,
           todo : SUBSET (ApexFiles \cup Entries)]

EmptyFrame == [op |-> "none", file |-> NoFile, loop |-> 0, tries |-> 0,
               newest |-> FALSE, entry |-> {}, todo |-> {}]

kLoopDeviceSetupAttempts == 3

-----------------------------------------------------------------------------
(* Control flow.                                                           *)

Scanning == frame.op \in {"data", "builtin"}

Serving == phase # "booting" /\ pc = "idle"

\* The mount point, and the dm device, of the package at hand.
Point == PointOf(frame.file, frame.op = "verify")

\* Builtin packages are not mounted through dm-verity (mountOnVerity).
MountOnVerity == frame.file.dir \in {"data", "staging"}

-----------------------------------------------------------------------------
(* The kernel (external).                                                  *)

\* Loop device l is under a dm device of d or a mount of ms.
InUse(l, d, ms) == \/ \E p \in Points : d[p] = l
                   \/ \E m \in ms : m.loop = l

\* Loop devices that are marked go with their last user: d and ms are left.
FreeUnused(marked, d, ms) ==
  LET gone == {l \in marked : ~InUse(l, d, ms)}
  IN /\ loop' = [l \in Loops |-> IF l \in gone THEN NoFile ELSE loop[l]]
     /\ autoclear' = marked \ gone

\* LOOP_CLR_FD frees device l, or marks it to go with its last user.
ClearLoop(l, d, ms) == FreeUnused(autoclear \cup {l}, d, ms)

\* The mounts and bind mounts that keep a dm device busy.
DmBusy(p, ms) == \E m \in ms : m.verity /\ m.point = p

\* DeleteVerityDevice: a device that is mounted stays, and so does one that an
\* unmounted image is still read through.
DeleteDm(p, ms) ==
  \/ ~DmBusy(p, ms) /\ dm' = [dm EXCEPT ![p] = 0]
  \/ (DmBusy(p, ms) \/ Fault("dm")) /\ UNCHANGED dm

\* A bind mount on /apex/<name> goes.
Unbind(name) ==
  /\ bound' = {b \in bound : b.file.name # name}
  /\ FreeUnused(autoclear, dm, mounts \cup bound')
  /\ UNCHANGED <<dm, mounts>>

-----------------------------------------------------------------------------
(* MountedApexDatabase.                                                    *)

\* The entry with path f that a loop over the database meets first.  Entries
\* are ordered by the name of their loop device.
FirstOf(es) == CHOOSE e \in es : \A o \in es : e.loop <= o.loop
LastOf(es)  == CHOOSE e \in es : \A o \in es : e.loop >= o.loop

EntriesOf(f) == {e \in db : e.file = f}

\* CheckAtMostOneLatest and CheckUniqueLoopDm, run after es was added.
ChecksPass(es) ==
  /\ \A e, o \in latest : e.file.name = o.file.name => e = o
  /\ \A e, o \in es : e # o => /\ e.loop # o.loop \/ e.loop = 0
                               /\ ~(e.verity /\ o.verity /\ e.point = o.point)

\* Mutant: the entry stays in the database.
RemoveMountedApexKeeps(f) == UNCHANGED database

\* RemoveMountedApex.
RemoveMountedApex(f) ==
  LET gone == IF EntriesOf(f) = {} THEN {} ELSE {FirstOf(EntriesOf(f))}
  IN db' = db \ gone /\ latest' = latest \ gone

\* Mutant: the flag of the other versions is not reset.
SetLatestOnly(f) == latest' = latest \cup {FirstOf(EntriesOf(f))}

\* SetLatest, for a file the database has an entry of.
SetLatest(f) ==
  latest' = {FirstOf(EntriesOf(f))} \cup {e \in latest : e.file.name # f.name}

\* IsMounted.
IsMounted(f) == EntriesOf(f) # {}

\* The version that parseMountPoint reads: -1 for "<version>.tmp" and for a
\* number that is not an int.
ParsedVersion(p) == IF p.tmp \/ p.version > IntMax THEN -1 ELSE p.version

\* PopulateFromMounts: an entry for every mount with a version, temporary ones
\* too, and the highest version above 0 of each package flagged by its path.
PopulateFromMounts ==
  /\ db' = mounts
  /\ latest' = {FirstOf({o \in mounts : o.file = m.file}) :
       m \in {m \in mounts :
         /\ ParsedVersion(m.point) > 0
         /\ \A o \in mounts : o.file.name = m.file.name
              => ParsedVersion(o.point) <= ParsedVersion(m.point)}}

\* getActivePackages: those flagged latest whose file can be opened.
GetActivePackages == {e.file : e \in {l \in latest : l.file \in files}}

-----------------------------------------------------------------------------
(* activatePackageImpl and MountPackageImpl.                               *)

\* The call op is over, with todo left for its loop.
Return(op, todo) ==
  LET next == CASE op \in {"data", "builtin"} -> "visit"
                [] op = "dangling"            -> "dangling"
                [] OTHER                      -> "idle"
  IN /\ pc' = next
     /\ frame' = IF next = "idle" THEN EmptyFrame
                 ELSE [EmptyFrame EXCEPT !.op = op, !.todo = todo]

Done == Return(frame.op, frame.todo)

\* A call of the service on file f.
Call(op, f, label) ==
  /\ pc' = label
  /\ frame' = [EmptyFrame EXCEPT !.op = op, !.file = f]

\* ... fails to activate a package.
Fails ==
  /\ Done
  /\ spoiled' = IF frame.op \in {"data", "builtin"}
                  THEN spoiled \cup {"activate"} ELSE spoiled

\* The entries of the package of f that activatePackageImpl can look into.
Others(f) == {e \in db : e.file.name = f.name /\ e.file \in files}

\* Mutant: the bind mount follows the order of activation.
IsNewestVersionAlways(f) == TRUE

\* is_newest_version.
IsNewestVersion(f) == \A e \in Others(f) : e.file.version <= f.version

\* activatePackageImpl up to the mount: is the version active or mounted?
ActivatePackageImpl(op, f, todo) ==
  LET same == {e \in Others(f) : e.file.version = f.version}
      newest == IsNewestVersion(f)
  IN IF \/ same # {} /\ LastOf(same) \in latest
        \/ same # {} /\ ~newest
       THEN Return(op, todo)
       ELSE /\ pc' = IF same = {} THEN "mountPackage" ELSE "unbind"
            /\ frame' = [EmptyFrame EXCEPT !.op = op, !.file = f,
                                           !.newest = newest, !.todo = todo]

\* The process has died, and init has started it again.
ProcessDies ==
  /\ db' = {} /\ latest' = {}
  /\ phase' = "booting" /\ pc' = "populate" /\ frame' = EmptyFrame

\* What comes after the mount: the entry is added to the database unless the
\* mount is temporary; entry is what MountPackageImpl returns.
Mounted(entry) ==
  /\ entry.point.tmp \/ ChecksPass(db \cup {entry})
  /\ db' = IF entry.point.tmp THEN db ELSE db \cup {entry}
  /\ UNCHANGED <<latest, phase, spoiled>>
  /\ CASE frame.op = "verify"     -> /\ pc' = "unmount"
                                     /\ frame' = [frame EXCEPT !.entry = {entry}]
       [] frame.op = "preinstall" -> pc' = "hook" /\ UNCHANGED frame
       [] OTHER -> IF frame.newest THEN pc' = "unbind" /\ UNCHANGED frame
                                   ELSE Done

\* A CHECK of AddMountedApex fails: the process aborts.
CheckFails(entry) ==
  /\ ~entry.point.tmp /\ ~ChecksPass(db \cup {entry})
  /\ ProcessDies
  /\ spoiled' = (spoiled \ {"umount"}) \cup {"restart", "check"}

PointTaken == \E m \in mounts : m.point = Point

\* The mount point is not empty.
MountPointTaken ==
  /\ pc = "mountPackage"
  /\ PointTaken
  /\ Fails
  /\ UNCHANGED <<files, kernel, database, phase>>

\* mountFlattened: a bind mount of the package's directory.
MountFlattened ==
  /\ pc = "mountPackage"
  /\ ~PointTaken /\ frame.file.dir = "flattened"
  /\ LET m == [file |-> frame.file, loop |-> 0, point |-> Point,
               verity |-> FALSE]
     IN \/ mounts' = mounts \cup {m} /\ (Mounted(m) \/ CheckFails(m))
        \/ Fault("mount") /\ Fails /\ UNCHANGED <<mounts, database, phase>>
  /\ UNCHANGED <<files, devices, bound>>

\* Mutant: one attempt too many.
CreateLoopDeviceOnceMore ==
  /\ pc = "mountPackage"
  /\ ~PointTaken /\ frame.file.dir # "flattened"
  /\ IF frame.tries < kLoopDeviceSetupAttempts
       THEN /\ frame' = [frame EXCEPT !.tries = @ + 1]
            /\ UNCHANGED <<pc, spoiled>>
       ELSE Fails
  /\ UNCHANGED <<files, kernel, database, phase>>

\* createLoopDevice, tried kLoopDeviceSetupAttempts times.  An attempt that
\* fails half-way gives the device back.
CreateLoopDevice ==
  /\ pc = "mountPackage"
  /\ ~PointTaken /\ frame.file.dir # "flattened"
  /\ LET free == {l \in Loops : loop[l] = NoFile}
     IN \/ /\ free # {}
           /\ loop' = [loop EXCEPT ![Min(free)] = frame.file]
           /\ pc' = "verity"
           /\ frame' = [frame EXCEPT !.loop = Min(free)]
           /\ UNCHANGED spoiled
        \/ /\ free = {} \/ Fault("loop")
           /\ IF frame.tries + 1 < kLoopDeviceSetupAttempts
                THEN /\ frame' = [frame EXCEPT !.tries = @ + 1]
                     /\ UNCHANGED <<pc, spoiled>>
                ELSE Fails
           /\ UNCHANGED loop
  /\ UNCHANGED <<files, autoclear, dm, mounts, bound, database, phase>>

\* VerifyApexVerity fails, or a dm device of that name is there and stays.
VerityFails ==
  /\ pc = "verity"
  /\ \/ Fault("verity")
     \/ MountOnVerity /\ dm[Point] # 0
        /\ (Fault("dm") \/ DmBusy(Point, mounts \cup bound))
  /\ ClearLoop(frame.loop, dm, mounts \cup bound)
  /\ Fails
  /\ UNCHANGED <<files, dm, mounts, bound, database, phase>>

\* createVerityDevice, which replaces a device of the same name.
CreateVerityDevice ==
  /\ pc = "verity"
  /\ IF MountOnVerity
       THEN /\ ~DmBusy(Point, mounts \cup bound)
            /\ dm' = [dm EXCEPT ![Point] = frame.loop]
            /\ FreeUnused(autoclear, dm', mounts \cup bound)
       ELSE UNCHANGED devices
  /\ pc' = "mount"
  /\ UNCHANGED <<files, mounts, bound, database, phase, frame, spoiled>>

\* mount(2) and VerifyMountedImage.
Mount ==
  /\ pc = "mount"
  /\ LET m == [file |-> frame.file, loop |-> frame.loop, point |-> Point,
               verity |-> MountOnVerity]
         entry == [m EXCEPT !.verity = TRUE]
     IN mounts' = mounts \cup {m} /\ (Mounted(entry) \/ CheckFails(entry))
  /\ UNCHANGED <<files, devices, bound>>

\* Mutant: the loop device is not given back.
MountFailsKeepsLoop ==
  /\ pc = "mount"
  /\ Fault("mount")
  /\ dm' = [dm EXCEPT ![Point] = 0]
  /\ Fails
  /\ UNCHANGED <<files, loop, autoclear, mounts, bound, database, phase>>

\* The destructors of verityDev and then of loopbackDevice clean up.
MountFails ==
  /\ pc = "mount"
  /\ Fault("mount")
  /\ IF MountOnVerity
       THEN DeleteDm(Point, mounts \cup bound)
       ELSE UNCHANGED dm
  /\ ClearLoop(frame.loop, dm', mounts \cup bound)
  /\ Done
  /\ spoiled' = spoiled \cup (IF dm'[Point] = 0 THEN {} ELSE {"dm"})
                        \cup (IF Scanning THEN {"activate"} ELSE {})
  /\ UNCHANGED <<files, mounts, bound, database, phase>>

-----------------------------------------------------------------------------
(* BindMount and SetLatest.                                                *)

UnbindOld ==
  /\ pc = "unbind"
  /\ Unbind(frame.file.name)
  /\ pc' = "bind"
  /\ UNCHANGED <<files, database, phase, frame, spoiled>>

\* Mutant: the database is not told.
BindNewUnrecorded ==
  /\ pc = "bind"
  /\ \E m \in mounts : m.point = Point /\ bound' = bound \cup {m}
  /\ Done
  /\ UNCHANGED <<files, devices, mounts, database, phase, spoiled>>

BindNew ==
  /\ pc = "bind"
  /\ \E m \in mounts : m.point = Point /\ bound' = bound \cup {m}
  /\ EntriesOf(frame.file) # {}
  /\ SetLatest(frame.file)
  /\ Done
  /\ UNCHANGED <<files, devices, mounts, db, phase, spoiled>>

\* mount(2) fails; the old bind mount is gone by now.
BindFails ==
  /\ pc = "bind"
  /\ Fault("bind") \/ ~PointTaken
  /\ Done
  /\ spoiled' = spoiled \cup {"bind"} \cup (IF Scanning THEN {"activate"} ELSE {})
  /\ UNCHANGED <<files, kernel, database, phase>>

-----------------------------------------------------------------------------
(* Unmount and UnmountPackage.                                             *)

AfterUnmount(e) ==
  IF frame.op = "dangling" /\ e.file.dir = "data"
    THEN pc' = "unlink" /\ UNCHANGED frame
    ELSE Done

\* Mutant: a temporary mount is left for a later clean-up.
UnmountSkipsTemporary ==
  /\ pc = "unmount"
  /\ \E e \in frame.entry :
       /\ mounts' = {m \in mounts : m.point # e.point \/ m.point.tmp}
       /\ dm' = IF e.point.tmp THEN dm ELSE [dm EXCEPT ![e.point] = 0]
       /\ FreeUnused(autoclear \cup ({e.loop} \ {0}), dm', mounts' \cup bound)
       /\ AfterUnmount(e)
  /\ UNCHANGED <<files, bound, database, phase, spoiled>>

\* umount2, then the dm device, then the loop device; a device that cannot be
\* deleted stays.
Unmount ==
  /\ pc = "unmount"
  /\ \E e \in frame.entry :
       /\ mounts' = {m \in mounts : m.point # e.point}
       /\ IF e.verity
            THEN DeleteDm(e.point, mounts' \cup bound)
            ELSE UNCHANGED dm
       /\ FreeUnused(autoclear \cup ({e.loop} \ {0}), dm', mounts' \cup bound)
       /\ spoiled' = IF dm'[e.point] = 0 THEN spoiled ELSE spoiled \cup {"dm"}
       /\ AfterUnmount(e)
  /\ UNCHANGED <<files, bound, database, phase>>

\* umount2 fails, and nothing more is cleaned up.
UnmountFails ==
  /\ pc = "unmount"
  /\ Fault("umount")
  /\ \E e \in frame.entry :
       /\ \E m \in mounts : m.point = e.point
       /\ AfterUnmount(e)
  /\ spoiled' = spoiled \cup {"umount"}
  /\ UNCHANGED <<files, kernel, database, phase>>

\* Mutant: an active package stays bound.
UnmountPackageStaysBound(f, allow_latest) ==
  /\ EntriesOf(f) # {}
  /\ LastOf(EntriesOf(f)) \in latest => allow_latest
  /\ RemoveMountedApex(f)
  /\ pc' = "unmount"
  /\ frame' = [frame EXCEPT !.file = f, !.entry = {LastOf(EntriesOf(f))}]
  /\ UNCHANGED kernel

\* UnmountPackage up to Unmount: an active package is unbound first, where
\* that is allowed.
UnmountPackage(f, allow_latest) ==
  /\ EntriesOf(f) # {}
  /\ LET e == LastOf(EntriesOf(f))
     IN /\ IF e \in latest
             THEN /\ allow_latest
                  /\ \E b \in bound : b.file.name = f.name
                  /\ Unbind(f.name)
             ELSE UNCHANGED kernel
        /\ RemoveMountedApex(f)
        /\ pc' = "unmount"
        /\ frame' = [frame EXCEPT !.file = f, !.entry = {e}]

-----------------------------------------------------------------------------
(* onStart: the packages in /data/apex/active, then the builtin ones.      *)

Populate ==
  /\ pc = "populate"
  /\ PopulateFromMounts
  /\ pc' = "scan"
  /\ frame' = [EmptyFrame EXCEPT !.op = "data"]
  /\ spoiled' = IF \E m, o \in mounts : m # o /\ m.file = o.file
                  THEN spoiled \cup {"twice"} ELSE spoiled
  /\ UNCHANGED <<files, kernel, phase>>

ScannedDirs == IF frame.op = "data" THEN {"data"} ELSE {"builtin", "flattened"}

\* The files that scanPackagesDirAndActivate does not skip; the versions of the
\* active packages are read once, before its loop.
ToActivate(fs) ==
  {f \in fs : ~\E a \in GetActivePackages : /\ a.name = f.name
                                              /\ a.version >= f.version}

ScanPackagesDir ==
  /\ pc = "scan"
  /\ pc' = "visit"
  /\ frame' = [frame EXCEPT !.todo =
                 ToActivate({f \in files : f.dir \in ScannedDirs})]
  /\ UNCHANGED <<files, kernel, database, phase, spoiled>>

VisitPackage ==
  /\ pc = "visit"
  /\ \E f \in frame.todo : ActivatePackageImpl(frame.op, f, frame.todo \ {f})
  /\ UNCHANGED <<files, kernel, database, phase, spoiled>>

ScanEnds ==
  /\ pc = "visit" /\ frame.todo = {}
  /\ IF frame.op = "data"
       THEN /\ pc' = "scan"
            /\ frame' = [EmptyFrame EXCEPT !.op = "builtin"]
            /\ UNCHANGED phase
       ELSE /\ pc' = "idle"
            /\ frame' = EmptyFrame
            /\ phase' = "serving"
  /\ UNCHANGED <<files, kernel, database, spoiled>>

-----------------------------------------------------------------------------
(* The calls of the service, and unmountDanglingMounts.                    *)

\* activatePackage, a debug call.
ActivatePackage(f) ==
  /\ Serving /\ Debuggable
  /\ ActivatePackageImpl("activate", f, {})
  /\ UNCHANGED <<files, kernel, database, phase, spoiled>>

\* deactivatePackage, a debug call.
DeactivatePackage(f) ==
  /\ Serving /\ Debuggable
  /\ UnmountPackage(f, TRUE)
  /\ UNCHANGED <<files, phase, spoiled>>

\* preinstallPackages, a debug call, for one package: one that is mounted
\* already is not mounted, and not unmounted after the hook.
PreinstallPackage(f) ==
  /\ Serving /\ Debuggable
  /\ ~IsMounted(f)
  /\ Call("preinstall", f, "mountPackage")
  /\ UNCHANGED <<files, kernel, database, phase, spoiled>>

\* The hook has run.
UnmountAfterHook ==
  /\ pc = "hook"
  /\ IF EntriesOf(frame.file) # {} /\ LastOf(EntriesOf(frame.file)) \notin latest
       THEN UnmountPackage(frame.file, FALSE)
       ELSE Done /\ UNCHANGED <<kernel, database>>
  /\ UNCHANGED <<files, phase, spoiled>>

\* verifyPackages, for one package of a session: RunVerifyFnInsideTempMount.
VerifyPackage(f) ==
  /\ Serving
  /\ f.dir = "staging"
  /\ Call("verify", f, "mountPackage")
  /\ UNCHANGED <<files, kernel, database, phase, spoiled>>

\* unstagePackages, for one package.
UnstagePackage(f) ==
  /\ Serving
  /\ f.dir = "data"
  /\ files' = files \ {f}
  /\ UNCHANGED <<kernel, database, phase, pc, frame, spoiled>>

\* waitForBootStatus sees boot_completed.
BootCompleted ==
  /\ phase = "serving" /\ pc = "idle"
  /\ phase' = "completed"
  /\ pc' = "dangling"
  /\ frame' = [EmptyFrame EXCEPT !.op = "dangling", !.todo = db \ latest]
  /\ UNCHANGED <<files, kernel, database, spoiled>>

UnmountDanglingMounts ==
  /\ pc = "dangling"
  /\ \/ \E e \in frame.todo :
          /\ RemoveMountedApex(e.file)
          /\ pc' = "unmount"
          /\ frame' = [frame EXCEPT !.entry = {e}, !.todo = @ \ {e}]
     \/ /\ frame.todo = {}
        /\ pc' = "idle" /\ frame' = EmptyFrame
        /\ UNCHANGED database
  /\ UNCHANGED <<files, kernel, phase, spoiled>>

\* A package of /data/apex/active is deleted once it is unmounted.
UnlinkDangling ==
  /\ pc = "unlink"
  /\ files' = files \ {e.file : e \in frame.entry}
  /\ Done
  /\ UNCHANGED <<kernel, database, phase, spoiled>>

-----------------------------------------------------------------------------
(* The process dies, or the device reboots.                                *)

\* PopulateFromMounts finds again what could not be unmounted.
RestartProcess ==
  /\ MayRestart
  /\ ProcessDies
  /\ spoiled' = (spoiled \ {"umount"}) \cup {"restart"}
  /\ UNCHANGED <<files, kernel>>

\* SetLatest finds no entry with that path: the version is mounted from
\* another file.  LOG(FATAL) aborts.
SetLatestAborts ==
  /\ pc = "bind"
  /\ \E m \in mounts : m.point = Point /\ bound' = bound \cup {m}
  /\ EntriesOf(frame.file) = {}
  /\ ProcessDies
  /\ spoiled' = (spoiled \ {"umount"}) \cup {"restart"}
  /\ UNCHANGED <<files, devices, mounts>>

RebootDevice ==
  /\ loop' = [l \in Loops |-> NoFile] /\ autoclear' = {}
  /\ dm' = [p \in Points |-> 0]
  /\ mounts' = {} /\ bound' = {}
  /\ ProcessDies
  /\ spoiled' = {}
  /\ UNCHANGED files

-----------------------------------------------------------------------------
\* Some of the packages in /data may not be installed.
Init ==
  /\ files \in {fs \in SUBSET ApexFiles :
                 \A f \in ApexFiles \ fs : f.dir = "data"}
  /\ loop = [l \in Loops |-> NoFile] /\ autoclear = {}
  /\ dm = [p \in Points |-> 0]
  /\ mounts = {} /\ bound = {}
  /\ db = {} /\ latest = {}
  /\ phase = "booting" /\ pc = "populate" /\ frame = EmptyFrame
  /\ spoiled = {}

Request ==
  \/ \E f \in files : \/ ActivatePackage(f)
                      \/ DeactivatePackage(f)
                      \/ PreinstallPackage(f)
                      \/ VerifyPackage(f)
                      \/ UnstagePackage(f)
  \/ BootCompleted

Step ==
  \/ MountPointTaken
  \/ MountFlattened
  \/ CreateLoopDevice
  \/ VerityFails
  \/ CreateVerityDevice
  \/ Mount
  \/ MountFails
  \/ UnbindOld
  \/ BindNew
  \/ BindFails
  \/ SetLatestAborts
  \/ Unmount
  \/ UnmountFails
  \/ UnmountAfterHook
  \/ Populate
  \/ ScanPackagesDir
  \/ VisitPackage
  \/ ScanEnds
  \/ UnmountDanglingMounts
  \/ UnlinkDangling

Next == Request \/ Step \/ RestartProcess \/ RebootDevice

Spec == Init /\ [][Next]_vars

-----------------------------------------------------------------------------
(* Properties.                                                             *)

\* The types of the variables.
TypeOK ==
  /\ files \subseteq ApexFiles
  /\ loop \in [Loops -> ApexFiles \cup {NoFile}] /\ autoclear \subseteq Loops
  /\ dm \in [Points -> 0 .. NumLoops]
  /\ mounts \subseteq Entries /\ bound \subseteq Entries
  /\ db \subseteq Entries /\ latest \subseteq Entries
  /\ phase \in {"booting", "serving", "completed"}
  /\ pc \in Labels /\ frame \in Frames
  /\ spoiled \subseteq {"activate", "bind", "umount", "dm", "restart",
                      "twice", "check"}

\* gMountedApexes never names a package that is not mounted, not even while a
\* package is being mounted or unmounted, after a failure or after a restart:
\* activatePackageImpl skips the mount of a version it finds there.  (A restart
\* may find a file mounted twice, on its temporary mount point too; then
\* RemoveMountedApex, which looks for the path, may take the wrong entry.)
DatabaseIsMounted ==
  "twice" \notin spoiled =>
    \A e \in db : \E m \in mounts :
      m.file = e.file /\ m.loop = e.loop /\ m.point = e.point

\* The checks of AddMountedApex never stop the process, unless a restart found
\* a file mounted twice; and the database flags no two versions of a package.
DatabaseChecksPass ==
  /\ "check" \in spoiled => "twice" \in spoiled
  /\ latest \subseteq db
  /\ \A e, o \in latest : e.file.name = o.file.name => e = o

\* When no handler runs, every mount is in the database, unless umount2 failed
\* in this process or a file was found mounted twice: a package that was
\* mounted only to verify it or to run its hook is gone, and what a process
\* that died left mounted was found again.
MountsAreKnown ==
  Serving /\ spoiled \cap {"umount", "twice"} = {} =>
    \A m \in mounts : \E e \in db : e.point = m.point

\* When no handler runs, every loop and dm device belongs to a mount, whatever
\* mount, verification or loop set-up failed half-way, unless the process died
\* or a device could not be deleted.
DevicesAreFreed ==
  Serving /\ spoiled \cap {"restart", "dm"} = {} =>
    /\ \A l \in Loops : loop[l] # NoFile => \E m \in mounts \cup bound : m.loop = l
    /\ \A p \in Points : dm[p] # 0 => \E m \in mounts : m.point = p /\ m.loop = dm[p]

\* When no handler runs, the versions that getActivePackages reports are those
\* that are bound to /apex/<package>, unless a bind mount failed or the process
\* died.
ReportedIsBound ==
  Serving /\ spoiled \cap {"restart", "bind"} = {} =>
    {e.point : e \in latest} = {b.point : b \in bound}

\* onStart activates the newest version of each package, whether it comes from
\* /data/apex/active or from a builtin directory, when all packages could be
\* mounted and the device has just booted.
BootActivatesNewest ==
  [][phase = "booting" /\ phase' = "serving" /\ spoiled = {} =>
       \A f \in files : f.dir # "staging" =>
         \E e \in latest : /\ e.file.name = f.name
                           /\ e.file.version >= f.version]_vars

\* ... also when the process was started again, as the comment on
\* PopulateFromMounts says.
RestoredIsBound ==
  Serving /\ "bind" \notin spoiled =>
    \A e \in latest : \E b \in bound : b.point = e.point

\* MountedPackages, of the packages on /apex; its known and active files are
\* those of the entries in the database.
Packages == INSTANCE MountedPackages WITH
  Files   <- ApexFiles,
  Nothing <- NoFile,
  present <- files,
  mounted <- {m.file : m \in mounts},
  known   <- {e.file : e \in db},
  active  <- {e.file : e \in latest},
  visible <- [n \in Names |-> IF \E b \in bound : b.file.name = n
                THEN (CHOOSE b \in bound : b.file.name = n).file ELSE NoFile],
  fresh   <- "restart" \notin spoiled

\* Whatever of a mount, a bind mount or an unmount fails half-way, apexd keeps
\* the promises of MountedPackages: /apex/<name> passes from one version to
\* another only by way of empty, once the next one is mounted and no newer one
\* is known; and a version is unmounted only when it is no longer shown and the
\* database has no entry of it.
KeepsPromises == Packages!Spec
=============================================================================
