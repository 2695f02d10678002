---------------------------- MODULE InstallHooks ----------------------------
(***************************************************************************)
(* How apexd runs the pre- and post-install hooks of packages: the calls   *)
(* mount the packages on /apex for everybody, and a child process binds    *)
(* them to their active points in a mount namespace of its own             *)
(* (apexd/apexd_prepostinstall.cpp, apexd_private.cpp, apexd_utils.h).     *)
(*                                                                         *)
(* Several calls may run, and the main thread in unmountDanglingMounts     *)
(* meanwhile; no lock keeps them apart.  An access to the database and a   *)
(* mount or unmount of a package are one step each: ApexMounts has their   *)
(* steps, and what becomes of mounts when the process dies.                *)
(***************************************************************************)
EXTENDS Integers, Sequences, SequencesExt

CONSTANTS
  Calls,       \* the calls that are made, each once; they may overlap
  ApexFiles,   \* APEX files: records with fields name, version, hook and data
  Sessions,    \* call -> the sequences of files that it may be for
  Installed,   \* the files that are mounted when the service starts
  Active,      \* ... and those of them that are bound to /apex/<name>
  Host,        \* the mount namespace of apexd and everybody else
  NoFile,      \* no file: an empty directory is bound
  Faults       \* what may fail, members of FaultKinds

\* "mount"  mounting a package    "mkdir"  making a directory
\* "fork"   the fork              "child"  the child exits at any point
FaultKinds == {"mount", "mkdir", "fork", "child"}

\* hook  the manifest names a hook    data  it is in /data/apex/active
ASSUME HooksAssumption ==
  /\ \A f \in ApexFiles : /\ f.version \in Nat \ {0}
                          /\ f.hook \in BOOLEAN /\ f.data \in BOOLEAN
  /\ \A c \in Calls : \A fs \in Sessions[c] : fs \in Seq(ApexFiles)
  /\ Active \subseteq Installed /\ Installed \subseteq ApexFiles
  \* a mount point has one package, an active point one version of it
  /\ \A f, g \in Installed :
       f.name = g.name /\ f.version = g.version => f = g
  /\ \A f, g \in Active : f.name = g.name => f = g
  /\ Host \notin Calls /\ NoFile \notin ApexFiles
  /\ Faults \subseteq FaultKinds

VARIABLES
  \* the kernel
  dirs,       \* the directories in /apex, the same in every namespace
  mounts,     \* mount namespace -> what is mounted there on /apex
  shared,     \* the calls whose child's namespace is not private yet
  devices,    \* the files with a dm-verity device
  files,      \* the files that exist
  \* apexd
  db, latest, \* gMountedApexes
  pc, frame,  \* what a call does next, its local variables
  child,      \* what its child process does next
  main,       \* what unmountDanglingMounts does next
  \* history
  disturbed,  \* calls of whose packages another thread unmounted something,
              \* or had, when the database still told of the mount
  remade      \* active points that a child had to make again

kernel == <<dirs, mounts, shared, devices, files>>
vars   == <<kernel, db, latest, pc, frame, child, main, disturbed, remade>>

Names == {f.name : f \in ApexFiles}
Namespaces == Calls \cup {Host}

\* /apex/<name>@<version>, and /apex/<name> as version 0.
PointOf(f) == [name |-> f.name, version |-> f.version]
ActivePoint(f) == [name |-> f.name, version |-> 0]
Points == {PointOf(f) : f \in ApexFiles} \cup {ActivePoint(f) : f \in ApexFiles}

Mounts == [at : Points, file : ApexFiles \cup {NoFile}]

\* apexes   the packages of the call
\* todo     those its loop has yet to visit; the child's arguments yet to bind
\* file     the package at hand
\* mounted  mounted_apexes
\* dirs     activation_dirs
Frames == [apexes : Seq(ApexFiles), todo : Seq(ApexFiles),
           file : ApexFiles \cup {NoFile},
           mounted : Seq(ApexFiles), dirs : Seq(Points)]

EmptyFrame == [apexes |-> <<>>, todo |-> <<>>, file |-> NoFile,
               mounted |-> <<>>, dirs |-> <<>>]

Fault(kind) == kind \in Faults

HookFiles(fs) == {f \in ToSet(fs) : f.hook}

-----------------------------------------------------------------------------
(* The kernel (external).                                                  *)

\* A mount or unmount in namespace ns is seen in its peers.
Peers(ns) == IF ns \in shared \cup {Host} THEN shared \cup {Host} ELSE {ns}

MountIn(ns, p, f) ==
  mounts' = [n \in Namespaces |->
    IF n \in Peers(ns) THEN mounts[n] \cup {[at |-> p, file |-> f]} ELSE mounts[n]]

UmountIn(ns, p) ==
  mounts' = [n \in Namespaces |->
    IF n \in Peers(ns) THEN {m \in mounts[n] : m.at # p} ELSE mounts[n]]

\* Directory p goes; what other namespaces had mounted there goes with it.
Detach(p) ==
  /\ dirs' = dirs \ {p}
  /\ mounts' = [n \in Namespaces |-> {m \in mounts[n] : m.at # p}]

\* rmdir in the host: a mount point is busy.
RemoveDir(p) ==
  IF \E m \in mounts[Host] : m.at = p THEN UNCHANGED <<dirs, mounts>> ELSE Detach(p)

\* File f is mounted on its mount point in namespace ns.
Mounted(ns, f) == [at |-> PointOf(f), file |-> f] \in mounts[ns]

\* The dm device of f is mounted, with mounts ms, or a hook runs from it.
Busy(f, ms) ==
  \/ \E n \in Namespaces : \E m \in ms[n] : m.file = f
  \/ \E c \in Calls : child[c] = "hook" /\ f \in HookFiles(frame[c].apexes)

\* History: thread t, a call or the main thread, unmounted a package that other
\* calls have mounted, or think they have; t itself does not need it any more.
Disturb(t, name) ==
  disturbed' = {c \in Calls \ {t} :
    c \in disturbed \/ \E f \in ToSet(frame[c].apexes) : f.name = name}

-----------------------------------------------------------------------------
(* StageFnInstall.                                                         *)

Goto(c, label, f) ==
  /\ pc' = [pc EXCEPT ![c] = label]
  /\ frame' = [frame EXCEPT ![c] = f]

\* The scope guard takes over.
CleanUp(c) == Goto(c, "unmountPackage", [EmptyFrame EXCEPT
                !.mounted = frame[c].mounted, !.dirs = frame[c].dirs])

\* submitStagedSession, scanStagedSessionsDirAndStage or a debug call has
\* packages with one hook; with none or two nothing is done.
StageFnInstall(c, fs) ==
  /\ pc[c] = "idle"
  /\ Cardinality(HookFiles(fs)) = 1
  /\ ToSet(fs) \subseteq files
  /\ Goto(c, "isMounted", [EmptyFrame EXCEPT !.apexes = fs, !.todo = fs])
  /\ UNCHANGED <<kernel, db, latest, child, main, disturbed, remade>>

\* The next package of the loop: is it mounted?  The database is asked, which
\* may have a package that unmountDanglingMounts unmounted before it was added.
IsMounted(c) ==
  /\ pc[c] = "isMounted"
  /\ \/ /\ frame[c].todo = <<>>
        /\ Goto(c, "fork", [frame[c] EXCEPT !.file = NoFile])
        /\ UNCHANGED disturbed
     \/ /\ frame[c].todo # <<>>
        /\ LET f == Head(frame[c].todo)
           IN /\ Goto(c, IF f \in db THEN "mkdir" ELSE "mount",
                      [frame[c] EXCEPT !.file = f, !.todo = Tail(@)])
              /\ disturbed' = IF f \in db /\ ~Mounted(Host, f)
                               THEN disturbed \cup {c} ELSE disturbed
  /\ UNCHANGED <<kernel, db, latest, child, main, remade>>

\* MountPackageImpl.
MountPackage(c) ==
  /\ pc[c] = "mount"
  /\ LET f == frame[c].file  p == PointOf(f)
     IN /\ \A m \in mounts[Host] : m.at # p
        /\ ~(f \in devices /\ Busy(f, mounts))
        /\ dirs' = dirs \cup {p}
        /\ MountIn(Host, p, f)
        /\ devices' = devices \cup {f}
        /\ Goto(c, "add", frame[c])
  /\ UNCHANGED <<shared, files, db, latest, child, main, disturbed, remade>>

\* The mount point is not empty, the old dm device is busy, or a step of the
\* mount fails; its scope guard removes the mount point.
MountPackageFails(c) ==
  /\ pc[c] = "mount"
  /\ LET f == frame[c].file  p == PointOf(f)
     IN /\ \/ \E m \in mounts[Host] : m.at = p
           \/ f \in devices /\ Busy(f, mounts)
           \/ Fault("mount")
        /\ RemoveDir(p)
        /\ \/ UNCHANGED devices
           \/ ~Busy(f, mounts') /\ devices' = devices \ {f}
        /\ Disturb(c, p.name)
  /\ CleanUp(c)
  /\ UNCHANGED <<shared, files, db, latest, child, main, remade>>

\* Mutant: mounted_apexes has the mount point, not the package.
AddMountedApexPoint(c) ==
  /\ pc[c] = "add"
  /\ db' = db \cup {frame[c].file}
  /\ Goto(c, "mkdir", [frame[c] EXCEPT !.mounted = Append(@, PointOf(frame[c].file))])
  /\ UNCHANGED <<kernel, latest, child, main, disturbed, remade>>

\* AddMountedApex.
AddMountedApex(c) ==
  /\ pc[c] = "add"
  /\ db' = db \cup {frame[c].file}
  /\ Goto(c, "mkdir", [frame[c] EXCEPT !.mounted = Append(@, frame[c].file)])
  /\ UNCHANGED <<kernel, latest, child, main, disturbed, remade>>

\* Mutant: the active point is not remembered.
MakeActivePointForgets(c) ==
  /\ pc[c] = "mkdir"
  /\ dirs' = dirs \cup {ActivePoint(frame[c].file)}
  /\ Goto(c, "isMounted", frame[c])
  /\ UNCHANGED <<mounts, shared, devices, files, db, latest, child, main,
                 disturbed, remade>>

\* An active point that is not there is made, and cleaned up afterwards.
MakeActivePoint(c) ==
  /\ pc[c] = "mkdir"
  /\ LET p == ActivePoint(frame[c].file)
     IN \/ /\ p \in dirs
           /\ Goto(c, "isMounted", frame[c])
           /\ UNCHANGED <<dirs, disturbed>>
        \/ /\ p \notin dirs
           /\ dirs' = dirs \cup {p}
           /\ UNCHANGED disturbed
           /\ Goto(c, "isMounted", [frame[c] EXCEPT !.dirs = Append(@, p)])
        \/ /\ p \notin dirs /\ Fault("mkdir")
           /\ CleanUp(c)
           /\ disturbed' = disturbed \ {c}
           /\ UNCHANGED dirs
  /\ UNCHANGED <<mounts, shared, devices, files, db, latest, child, main, remade>>

\* The child's arguments: the package with the hook, then the others.
Args(fs) ==
  LET hook == CHOOSE i \in DOMAIN fs : fs[i].hook
  IN <<fs[hook]>> \o RemoveAt(fs, hook)

\* ForkAndRun.
Fork(c) ==
  /\ pc[c] = "fork"
  /\ \/ /\ Goto(c, "wait", [frame[c] EXCEPT !.todo = Args(frame[c].apexes)])
        /\ child' = [child EXCEPT ![c] = "unshare"]
        /\ UNCHANGED disturbed
     \/ /\ Fault("fork")
        /\ CleanUp(c)
        /\ disturbed' = disturbed \ {c}
        /\ UNCHANGED child
  /\ UNCHANGED <<kernel, db, latest, main, remade>>

\* Mutant: a signal ends the wait.
WaitChildInterrupted(c) ==
  /\ pc[c] = "wait" /\ child[c] \in {"none", "hook"}
  /\ CleanUp(c)
  /\ disturbed' = disturbed \ {c}
  /\ UNCHANGED <<kernel, db, latest, child, main, remade>>

\* WaitChild, for as long as it takes.
WaitChild(c) ==
  /\ pc[c] = "wait" /\ child[c] = "none"
  /\ CleanUp(c)
  /\ disturbed' = disturbed \ {c}
  /\ UNCHANGED <<kernel, db, latest, child, main, remade>>

\* Mutant: the clean-up does not get past a package that is refused.
UnmountPackageRepeats(c) ==
  /\ pc[c] = "unmountPackage"
  /\ \/ /\ frame[c].mounted = <<>>
        /\ Goto(c, "rmdir", frame[c])
        /\ UNCHANGED db
     \/ /\ frame[c].mounted # <<>>
        /\ Head(frame[c].mounted) \in db \ latest
        /\ db' = db \ {Head(frame[c].mounted)}
        /\ Goto(c, "unmount", [frame[c] EXCEPT !.file = Head(frame[c].mounted),
                                               !.mounted = Tail(@)])
  /\ UNCHANGED <<kernel, latest, child, main, disturbed, remade>>

\* The scope guard: UnmountPackage of each of mounted_apexes, up to Unmount.
\* One that is active, or not in the database, is refused.
UnmountPackage(c) ==
  /\ pc[c] = "unmountPackage"
  /\ \/ /\ frame[c].mounted = <<>>
        /\ Goto(c, "rmdir", frame[c])
        /\ UNCHANGED db
     \/ /\ frame[c].mounted # <<>>
        /\ Head(frame[c].mounted) \in db \ latest
        /\ db' = db \ {Head(frame[c].mounted)}
        /\ Goto(c, "unmount", [frame[c] EXCEPT !.file = Head(frame[c].mounted),
                                               !.mounted = Tail(@)])
     \/ /\ frame[c].mounted # <<>>
        /\ Head(frame[c].mounted) \notin db \ latest
        /\ Goto(c, "unmountPackage", [frame[c] EXCEPT !.mounted = Tail(@)])
        /\ UNCHANGED db
  /\ UNCHANGED <<kernel, latest, child, main, disturbed, remade>>

\* Unmount of f: umount2 in the host, rmdir of the mount point, which takes it
\* from the other namespaces too, and the dm device, unless it is busy.
UnmountFile(f) ==
  /\ Detach(PointOf(f))
  /\ devices' = IF Busy(f, mounts') THEN devices ELSE devices \ {f}
  /\ UNCHANGED shared

Unmount(c) ==
  /\ pc[c] = "unmount"
  /\ UnmountFile(frame[c].file)
  /\ Disturb(c, frame[c].file.name)
  /\ CleanUp(c)
  /\ UNCHANGED <<files, db, latest, child, main, remade>>

\* ... and then rmdir of each of activation_dirs.
RemoveActivePoint(c) ==
  /\ pc[c] = "rmdir"
  /\ \/ /\ frame[c].dirs = <<>>
        /\ Goto(c, "done", EmptyFrame)
        /\ UNCHANGED <<dirs, mounts, disturbed>>
     \/ /\ frame[c].dirs # <<>>
        /\ RemoveDir(Head(frame[c].dirs))
        /\ Disturb(c, Head(frame[c].dirs).name)
        /\ Goto(c, "rmdir", [frame[c] EXCEPT !.dirs = Tail(@)])
  /\ UNCHANGED <<shared, devices, files, db, latest, child, main, remade>>

-----------------------------------------------------------------------------
(* RunFnInstall, in the child process.                                     *)

ChildGoto(c, label) == child' = [child EXCEPT ![c] = label]

\* unshare: the mounts are copied, and still have the host's as peers.
Unshare(c) ==
  /\ child[c] = "unshare"
  /\ mounts' = [mounts EXCEPT ![c] = mounts[Host]]
  /\ shared' = shared \cup {c}
  /\ ChildGoto(c, "private")
  /\ UNCHANGED <<dirs, devices, files, db, latest, pc, frame, main, disturbed, remade>>

\* Mutant: everything stays shared.
MakePrivateNot(c) ==
  /\ child[c] = "private"
  /\ ChildGoto(c, "unbind")
  /\ UNCHANGED <<kernel, db, latest, pc, frame, main, disturbed, remade>>

\* MS_PRIVATE on everything.
MakePrivate(c) ==
  /\ child[c] = "private"
  /\ shared' = shared \ {c}
  /\ ChildGoto(c, "unbind")
  /\ UNCHANGED <<dirs, mounts, devices, files, db, latest, pc, frame, main,
                 disturbed, remade>>

\* BindMount up to the bind mount: the active point is made if it is not there,
\* and what is mounted on it is unmounted.
Unbind(c) ==
  /\ child[c] = "unbind"
  /\ LET f == Head(frame[c].todo)  p == ActivePoint(f)
     IN /\ f \in files
        /\ dirs' = dirs \cup {p}
        /\ remade' = IF p \in dirs THEN remade ELSE remade \cup {p}
        /\ UmountIn(c, p)
        /\ frame' = [frame EXCEPT ![c].file = f, ![c].todo = Tail(@)]
  /\ ChildGoto(c, "bind")
  /\ UNCHANGED <<shared, devices, files, db, latest, pc, main, disturbed>>

\* Mutant: only the package with the hook is bound.
BindHookOnly(c) ==
  /\ child[c] = "bind"
  /\ LET f == frame[c].file
     IN /\ {PointOf(f), ActivePoint(f)} \subseteq dirs
        /\ MountIn(c, ActivePoint(f), f)
  /\ ChildGoto(c, "hook")
  /\ UNCHANGED <<dirs, shared, devices, files, db, latest, pc, frame, main,
                 disturbed, remade>>

\* mount(2) binds what is on the mount point, be it an empty directory; when
\* all packages are bound, the hook is executed.
Bind(c) ==
  /\ child[c] = "bind"
  /\ LET f == frame[c].file
         there == {m.file : m \in {m \in mounts[c] : m.at = PointOf(f)}}
     IN /\ {PointOf(f), ActivePoint(f)} \subseteq dirs
        /\ \E source \in IF there = {} THEN {NoFile} ELSE there :
             MountIn(c, ActivePoint(f), source)
  /\ ChildGoto(c, IF frame[c].todo = <<>> THEN "exec" ELSE "unbind")
  /\ UNCHANGED <<dirs, shared, devices, files, db, latest, pc, frame, main,
                 disturbed, remade>>

\* execv of <active point>/<hook>, if it is there.
ExecHook(c) ==
  /\ child[c] = "exec"
  /\ \A f \in HookFiles(frame[c].apexes) :
       \E m \in mounts[c] : m.at = ActivePoint(f) /\ m.file # NoFile
  /\ ChildGoto(c, "hook")
  /\ UNCHANGED <<kernel, db, latest, pc, frame, main, disturbed, remade>>

\* The child's mount namespace goes with it.
Exit(c) ==
  /\ ChildGoto(c, "none")
  /\ mounts' = [mounts EXCEPT ![c] = {}]
  /\ shared' = shared \ {c}
  /\ UNCHANGED <<dirs, devices, files, db, latest, pc, frame, main, disturbed, remade>>

\* A package cannot be opened or bound, or the hook cannot be executed.
ChildFails(c) ==
  /\ \/ child[c] = "unbind" /\ Head(frame[c].todo) \notin files
     \/ child[c] = "bind" /\ ~({PointOf(frame[c].file), ActivePoint(frame[c].file)}
                                 \subseteq dirs)
     \/ child[c] = "exec" /\ \E f \in HookFiles(frame[c].apexes) :
          \A m \in mounts[c] : m.at = ActivePoint(f) => m.file = NoFile
     \/ child[c] \notin {"none", "hook"} /\ Fault("child")
  /\ Exit(c)

\* The hook ends, whenever it likes and with whatever status.
HookEnds(c) == child[c] = "hook" /\ Exit(c)

-----------------------------------------------------------------------------
(* unmountDanglingMounts, in the main thread, once.                        *)

\* The mounts that are not active now.
FindDanglings ==
  /\ main.pc = "booting"
  /\ main' = [pc |-> "remove", todo |-> db \ latest, file |-> NoFile]
  /\ UNCHANGED <<kernel, db, latest, pc, frame, child, disturbed, remade>>

RemoveDangling ==
  /\ main.pc = "remove"
  /\ \/ /\ main.todo = {}
        /\ main' = [main EXCEPT !.pc = "done", !.file = NoFile]
        /\ UNCHANGED db
     \/ \E f \in main.todo :
          /\ db' = db \ {f}
          /\ main' = [pc |-> "unmount", todo |-> main.todo \ {f}, file |-> f]
  /\ UNCHANGED <<kernel, latest, pc, frame, child, disturbed, remade>>

\* A file in /data/apex/active is deleted once it is unmounted.
UnmountDangling ==
  /\ main.pc = "unmount"
  /\ UnmountFile(main.file)
  /\ Disturb(Host, main.file.name)
  /\ files' = IF main.file.data THEN files \ {main.file} ELSE files
  /\ main' = [main EXCEPT !.pc = "remove"]
  /\ UNCHANGED <<db, latest, pc, frame, child, remade>>

-----------------------------------------------------------------------------
Init ==
  /\ dirs = {PointOf(f) : f \in Installed} \cup {ActivePoint(f) : f \in Active}
  /\ mounts = [n \in Namespaces |-> IF n # Host THEN {} ELSE
                 {[at |-> PointOf(f), file |-> f] : f \in Installed}
                 \cup {[at |-> ActivePoint(f), file |-> f] : f \in Active}]
  /\ shared = {}
  /\ devices = {f \in Installed : f.data}
  /\ files = ApexFiles
  /\ db = Installed /\ latest = Active
  /\ pc = [c \in Calls |-> "idle"]
  /\ frame = [c \in Calls |-> EmptyFrame]
  /\ child = [c \in Calls |-> "none"]
  /\ main = [pc |-> "booting", todo |-> {}, file |-> NoFile]
  /\ disturbed = {} /\ remade = {}

ParentStep(c) ==
  \/ IsMounted(c) \/ MountPackage(c) \/ MountPackageFails(c)
  \/ AddMountedApex(c) \/ MakeActivePoint(c) \/ Fork(c) \/ WaitChild(c)
  \/ UnmountPackage(c) \/ Unmount(c) \/ RemoveActivePoint(c)

ChildStep(c) ==
  \/ Unshare(c) \/ MakePrivate(c) \/ Unbind(c) \/ Bind(c) \/ ExecHook(c)
  \/ ChildFails(c)

MainStep == FindDanglings \/ RemoveDangling \/ UnmountDangling

Next ==
  \/ \E c \in Calls : \/ \E fs \in Sessions[c] : StageFnInstall(c, fs)
                      \/ ParentStep(c) \/ ChildStep(c) \/ HookEnds(c)
  \/ MainStep

Spec == Init /\ [][Next]_vars

\* A call and its child, which take turns, go on; nothing makes a hook end.
FairSpec == Spec /\ \A c \in Calls : WF_vars(ParentStep(c) \/ ChildStep(c))

-----------------------------------------------------------------------------
(* Properties.                                                             *)

\* The types of the variables.
TypeOK ==
  /\ dirs \subseteq Points /\ mounts \in [Namespaces -> SUBSET Mounts]
  /\ shared \subseteq Calls
  /\ devices \subseteq ApexFiles /\ files \subseteq ApexFiles
  /\ db \subseteq ApexFiles /\ latest \subseteq ApexFiles
  /\ pc \in [Calls -> {"idle", "isMounted", "mount", "add", "mkdir", "fork",
                       "wait", "unmountPackage", "unmount", "rmdir", "done"}]
  /\ frame \in [Calls -> Frames]
  /\ child \in [Calls -> {"none", "unshare", "private", "unbind", "bind",
                          "exec", "hook"}]
  /\ main \in [pc : {"booting", "remove", "unmount", "done"},
               todo : SUBSET ApexFiles, file : ApexFiles \cup {NoFile}]
  /\ disturbed \subseteq Calls /\ remade \subseteq Points

\* Whatever hooks run in their namespaces, and whoever cleans up after them,
\* outside of them /apex/<name> is the active version, is there, and nothing
\* else is bound.
HostKeepsActive ==
  /\ {m \in mounts[Host] : m.at.version = 0}
       = {[at |-> ActivePoint(f), file |-> f] : f \in latest}
  /\ \A f \in latest : Mounted(Host, f)
  /\ \A m \in mounts[Host] : m.at \in dirs

\* A hook runs with each package of its call, and nothing else, on the active
\* points, unless another thread unmounted one of these packages meanwhile.
HookSeesPackages ==
  \A c \in Calls \ disturbed : child[c] = "hook" =>
    \A f \in ToSet(frame[c].apexes) :
      {m.file : m \in {m \in mounts[c] : m.at = ActivePoint(f)}} = {f}

Idle == /\ \A c \in Calls : pc[c] \in {"idle", "done"}
        /\ main.pc \in {"booting", "done"}

\* When all calls are over, the packages that they mounted are neither mounted
\* nor in the database, however the calls, a failure of any of their steps and
\* unmountDanglingMounts came together; what is left in /apex are the mount
\* points of packages, and active points that a child had to make again.
NothingIsLeft ==
  Idle =>
    /\ db \subseteq Installed
    /\ {m.file : m \in mounts[Host]} = db
    /\ dirs \subseteq {m.at : m \in mounts[Host]} \cup remade

\* A dm-verity device that could not be deleted, as the namespace of another
\* hook held it, is free when the calls are over: the next mount of the package
\* can replace it.
LeftoverIsReplaceable ==
  Idle => \A f \in devices \ db : ~Busy(f, mounts)

\* In the end every call is over, or waits for a hook that does not end: none
\* gets stuck in its loop, its child or its clean-up.
CallsEnd ==
  <>[](\A c \in Calls : pc[c] \in {"idle", "done"} \/ child[c] = "hook")
=============================================================================
