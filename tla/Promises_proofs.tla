--------------------------- MODULE Promises_proofs ---------------------------
(***************************************************************************)
(* That ApexMounts implements MountedPackages, for any set of packages and *)
(* any number of loop devices.                                             *)
(***************************************************************************)
EXTENDS ApexMounts_proofs

-----------------------------------------------------------------------------
(* As many mounts as entries, also when a file was found mounted twice.    *)

\* Point p is of the version of entry e, and so is entry o.
OfVersion(p, e) == p.name = e.file.name /\ p.version = e.file.version

SameVersionAs(e, o) == e.file.name = o.file.name /\ e.file.version = o.file.version

\* The version of e is mounted, and mounted on both of its points.
VersionMounted(e) == \E m \in mounts : OfVersion(m.point, e)

BothMounted(e) == \A tmp \in BOOLEAN : \E m \in mounts : m.point = PointOf(e.file, tmp)

\* The entry that is being unmounted, and those that unmountDanglingMounts has
\* yet to visit.
Leaving == IF pc = "unmount" THEN frame.entry ELSE {}

Dangling == IF frame.op = "dangling" THEN frame.todo ELSE {}

\* A version has no more entries than mounts, counting the entry that is being
\* unmounted.
EnoughInv ==
  /\ \A e \in db \cup Leaving : OfVersion(e.point, e)
  /\ \A e \in db : VersionMounted(e)
  /\ \A e, o \in db : SameVersionAs(e, o) /\ e # o => BothMounted(e)
  /\ \A e, o, d \in db : SameVersionAs(e, o) /\ SameVersionAs(e, d)
       => e = o \/ e = d \/ o = d
  /\ \A e \in Leaving : \A o, d \in db : SameVersionAs(e, o) /\ SameVersionAs(e, d)
       => BothMounted(e) /\ o = d

\* A file has an entry for each time that unmountDanglingMounts will visit it.
DanglingInv ==
  /\ \A e \in Dangling : OfVersion(e.point, e) /\ EntriesOf(e.file) # {}
  /\ \A e, o \in Dangling : e.file = o.file /\ e # o
       => \E c, d \in EntriesOf(e.file) : c # d
  /\ \A e, o, d \in Dangling : e.file = o.file /\ e.file = d.file
       => e = o \/ e = d \/ o = d

\* A version has two mount points.
LEMMA TwoPoints ==
  ASSUME NEW e \in Entries, NEW p \in Points, OfVersion(p, e)
  PROVE  p.tmp \in BOOLEAN /\ p = PointOf(e.file, p.tmp)
BY DEF OfVersion, Points, PointOf

LEMMA PointsOfMounts ==
  ASSUME TypeOK, KernelInv, NEW m \in mounts
  PROVE  m \in Entries /\ m.point \in Points /\ OfVersion(m.point, m)
<1>1. m \in Entries /\ m.point \in Points
  BY DEF TypeOK, Entries
<1>2. m.point = PointOf(m.file, m.point.tmp)
  BY DEF KernelInv, MountSound
<1>3. \A f, t : PointOf(f, t).name = f.name /\ PointOf(f, t).version = f.version
  BY DEF PointOf
<1>4. QED
  BY <1>1, <1>2, <1>3 DEF OfVersion

\* Two mounts of one version take both of its points.
LEMMA TwoMounts ==
  ASSUME TypeOK, KernelInv, NEW m \in mounts, NEW n \in mounts, m # n, NEW e \in Entries,
         OfVersion(m.point, e), OfVersion(n.point, e)
  PROVE  BothMounted(e)
<1>1. m.point # n.point
  BY DEF KernelInv
<1>2. /\ m.point.tmp \in BOOLEAN /\ m.point = PointOf(e.file, m.point.tmp)
      /\ n.point.tmp \in BOOLEAN /\ n.point = PointOf(e.file, n.point.tmp)
  BY PointsOfMounts, TwoPoints
<1>3. m.point.tmp # n.point.tmp
  BY <1>1, <1>2
<1>4. ASSUME NEW tmp \in BOOLEAN PROVE tmp = m.point.tmp \/ tmp = n.point.tmp
  BY <1>2, <1>3
<1>5. QED
  BY <1>2, <1>4 DEF BothMounted

LEMMA EnoughStays ==
  ASSUME EnoughInv, UNCHANGED db, mounts \subseteq mounts', pc' # "unmount"
  PROVE  EnoughInv'
<1>1. /\ \A e : VersionMounted(e) => VersionMounted(e)'
      /\ \A e : BothMounted(e) => BothMounted(e)'
  BY DEF VersionMounted, BothMounted
<1>2. Leaving' = {}
  BY DEF Leaving
<1>3. QED
  BY <1>1, <1>2 DEF EnoughInv

\* An entry leaves the database to be unmounted, or its file's first one.
LEMMA EnoughRemoves ==
  ASSUME TypeOK, EnoughInv, NEW e \in Entries, OfVersion(e.point, e),
         RemoveMountedApex(e.file), EntriesOf(e.file) # {}, UNCHANGED mounts,
         pc' = "unmount", frame'.entry = {e}
  PROVE  EnoughInv'
<1> DEFINE r == FirstOf(EntriesOf(e.file))
<1>1. EntriesOf(e.file) \subseteq Entries
  BY DEF EntriesOf, TypeOK
<1>2. r \in EntriesOf(e.file)
  BY <1>1, FirstOfFacts
<1>3. db' = db \ {r}
  BY DEF RemoveMountedApex
<1> HIDE DEF r
<1>4. r \in db /\ r.file = e.file
  BY <1>2 DEF EntriesOf
<1>5. Leaving' = {e} /\ db' \subseteq db
  BY <1>3 DEF Leaving
<1>6. \A o : /\ VersionMounted(o)' <=> VersionMounted(o)
             /\ BothMounted(o)' <=> BothMounted(o)
  BY DEF VersionMounted, BothMounted
<1>7. ASSUME NEW o \in db', NEW d \in db', SameVersionAs(e, o), SameVersionAs(e, d)
      PROVE  BothMounted(e) /\ o = d
  <2>1. SameVersionAs(r, o) /\ SameVersionAs(r, d) /\ r # o /\ r # d
    BY <1>3, <1>4, <1>7 DEF SameVersionAs
  <2>2. BothMounted(r) /\ o = d
    BY <1>4, <1>5, <2>1 DEF EnoughInv
  <2>3. QED
    BY <1>4, <2>2 DEF BothMounted
<1>8. \A o \in db' \cup Leaving' : OfVersion(o.point, o)
  BY <1>5 DEF EnoughInv
<1>9. /\ \A o \in db' : VersionMounted(o)'
      /\ \A o, d \in db' : SameVersionAs(o, d) /\ o # d => BothMounted(o)'
      /\ \A o, c, d \in db' : SameVersionAs(o, c) /\ SameVersionAs(o, d)
           => o = c \/ o = d \/ c = d
  BY <1>5, <1>6 DEF EnoughInv
<1>10. QED
  BY <1>5, <1>6, <1>7, <1>8, <1>9 DEF EnoughInv

LEMMA EnoughUnmounts ==
  ASSUME TypeOK, KernelInv, EnoughInv, UNCHANGED db, NEW e \in Entries,
         pc = "unmount", frame.entry = {e}, pc' # "unmount",
         mounts' = {m \in mounts : m.point # e.point}
  PROVE  EnoughInv'
<1>1. OfVersion(e.point, e) /\ e \in Leaving /\ Leaving' = {} /\ e.point \in Points
  BY DEF EnoughInv, Leaving, Entries
<1>2. ASSUME NEW o \in db, ~SameVersionAs(e, o), NEW m \in mounts, OfVersion(m.point, o)
      PROVE  m \in mounts'
  BY <1>1, <1>2 DEF OfVersion, SameVersionAs
<1>3. ASSUME NEW o \in db, SameVersionAs(e, o) PROVE VersionMounted(o)'
  <2>1. BothMounted(e)
    BY <1>1, <1>3 DEF EnoughInv
  <2>2. PICK tmp \in BOOLEAN : tmp # e.point.tmp
    OBVIOUS
  <2>3. PICK m \in mounts : m.point = PointOf(e.file, tmp)
    BY <2>1 DEF BothMounted
  <2>4. /\ m.point.tmp = tmp
        /\ m.point.name = e.file.name /\ m.point.version = e.file.version
    BY <2>3 DEF PointOf
  <2>5. m \in mounts'
    BY <2>2, <2>4
  <2>6. QED
    BY <1>3, <2>4, <2>5 DEF VersionMounted, OfVersion, SameVersionAs
<1>4. ASSUME NEW o \in db PROVE VersionMounted(o)'
  BY <1>2, <1>3 DEF EnoughInv, VersionMounted
<1>5. ASSUME NEW o \in db, NEW d \in db, SameVersionAs(o, d), o # d
      PROVE  BothMounted(o)'
  <2>1. ~SameVersionAs(e, o)
    BY <1>1, <1>5 DEF EnoughInv, SameVersionAs
  <2>2. BothMounted(o)
    BY <1>5 DEF EnoughInv
  <2>3. \A f, t : PointOf(f, t).name = f.name /\ PointOf(f, t).version = f.version
    BY DEF PointOf
  <2>4. \A m \in mounts, tmp \in BOOLEAN : m.point = PointOf(o.file, tmp) => m \in mounts'
    BY <1>2, <2>1, <2>3 DEF OfVersion
  <2>5. QED
    BY <2>2, <2>4 DEF BothMounted
<1>6. QED
  BY <1>1, <1>4, <1>5 DEF EnoughInv

\* A package is mounted, and entered or unmounted next.
LEMMA EnoughMounted ==
  ASSUME MountsInv, EnoughInv, pc \in MountLabels, NEW entry \in Entries,
         Mounted(entry), ~PointTaken, entry.point = Point, entry.file = frame.file,
         NEW m, m.point = Point, mounts' = mounts \cup {m}
  PROVE  EnoughInv'
<1>0. TypeOK /\ HandlerInv /\ KernelInv /\ frame.file \in ApexFiles
  BY DEF MountsInv, HandlerInv
<1>1. /\ Point = PointOf(frame.file, Point.tmp) /\ Point.tmp \in BOOLEAN
      /\ Point.tmp <=> frame.op = "verify"
      /\ \A f, t : PointOf(f, t).name = f.name /\ PointOf(f, t).version = f.version
  <2>1. \A f, t : /\ PointOf(f, t).name = f.name /\ PointOf(f, t).version = f.version
                  /\ PointOf(f, t).tmp = t
    BY DEF PointOf
  <2>2. Point = PointOf(frame.file, TRUE) \/ Point = PointOf(frame.file, FALSE)
    BY <1>0, PointIsOfFile
  <2>3. Point = PointOf(frame.file, Point.tmp) /\ Point.tmp \in BOOLEAN
    <3>1. ASSUME NEW t \in BOOLEAN, Point = PointOf(frame.file, t)
          PROVE  Point.tmp = t
      BY <2>1, <3>1
    <3>2. QED
      BY <2>2, <3>1
  <2>4. Point.tmp <=> frame.op = "verify"
    BY <1>0, PointIsOfFile
  <2>5. QED
    BY <2>1, <2>3, <2>4
<1>2. OfVersion(entry.point, entry)
  BY <1>1 DEF OfVersion
<1>3. \A n \in mounts : n.point # Point
  BY DEF PointTaken
<1>4. ASSUME NEW o \in db, NEW d \in db, SameVersionAs(entry, o), SameVersionAs(entry, d)
      PROVE  o = d
  <2>1. ASSUME o # d PROVE FALSE
    <3>1. BothMounted(o)
      BY <1>4, <2>1 DEF EnoughInv, SameVersionAs
    <3>2. PointOf(o.file, Point.tmp) = Point
      BY <1>1, <1>4 DEF PointOf, SameVersionAs
    <3>3. QED
      BY <1>1, <1>3, <3>1, <3>2 DEF BothMounted
  <2>2. QED
    BY <2>1
<1>5. ASSUME NEW o \in db, SameVersionAs(entry, o)
      PROVE  BothMounted(entry)' /\ BothMounted(o)'
  <2>1. PICK n \in mounts : OfVersion(n.point, o)
    BY DEF EnoughInv, VersionMounted
  <2>2. n.point \in Points /\ OfVersion(n.point, entry)
    BY <1>0, <1>5, <2>1 DEF TypeOK, Entries, OfVersion, SameVersionAs
  <2>3. n.point = PointOf(frame.file, n.point.tmp) /\ n.point.tmp \in BOOLEAN
    BY <2>2, TwoPoints
  <2>4. n.point.tmp # Point.tmp
    BY <1>1, <1>3, <2>3
  <2>5. ASSUME NEW tmp \in BOOLEAN
        PROVE  \E k \in mounts' : k.point = PointOf(frame.file, tmp)
    <3>1. tmp = n.point.tmp \/ tmp = Point.tmp
      BY <1>1, <2>3, <2>4
    <3>2. QED
      BY <1>1, <2>3, <3>1
  <2>6. \A tmp : PointOf(o.file, tmp) = PointOf(frame.file, tmp)
    BY <1>5 DEF SameVersionAs, PointOf
  <2>7. QED
    BY <2>5, <2>6 DEF BothMounted
<1>6. VersionMounted(entry)'
  BY <1>2 DEF VersionMounted
<1>7. /\ \A e : VersionMounted(e) => VersionMounted(e)'
      /\ \A e : BothMounted(e) => BothMounted(e)'
  BY DEF VersionMounted, BothMounted
<1>8. CASE frame.op = "verify"
  <2>1. db' = db /\ Leaving' = {entry}
    BY <1>0, <1>1, <1>8, MountedMoves DEF Mounted, Has, Activations, Leaving
  <2>2. QED
    BY <1>2, <1>4, <1>5, <1>7, <2>1 DEF EnoughInv
<1>9. CASE frame.op # "verify"
  <2>1. db' = db \cup {entry} /\ Leaving' = {}
    <3>1. pc' # "unmount"
      BY <1>0, <1>9, MountedMoves, OverKeeps DEF Stays, Resting
    <3>2. QED
      BY <1>1, <1>9, <3>1 DEF Mounted, Leaving
  <2>2. /\ \A o \in db' : OfVersion(o.point, o) /\ VersionMounted(o)'
    BY <1>2, <1>6, <1>7, <2>1 DEF EnoughInv
  <2>3. \A o, d \in db' : SameVersionAs(o, d) /\ o # d => BothMounted(o)'
    BY <1>5, <1>7, <2>1 DEF EnoughInv, SameVersionAs
  <2>4. ASSUME NEW o \in db', NEW c \in db', NEW d \in db',
               SameVersionAs(o, c), SameVersionAs(o, d)
        PROVE  o = c \/ o = d \/ c = d
    <3>1. \A x, y \in db : SameVersionAs(entry, x) /\ SameVersionAs(entry, y) => x = y
      BY <1>4
    <3>2. SameVersionAs(c, o) /\ SameVersionAs(c, d) /\ SameVersionAs(d, o) /\ SameVersionAs(d, c)
      BY <2>4 DEF SameVersionAs
    <3>3. o \in db /\ c \in db /\ d \in db => o = c \/ o = d \/ c = d
      BY <2>4 DEF EnoughInv
    <3>4. QED
      BY <2>1, <2>4, <3>1, <3>2, <3>3
  <2>5. QED
    BY <2>1, <2>2, <2>3, <2>4 DEF EnoughInv
<1>10. QED
  BY <1>8, <1>9

\* The database is what is mounted.
LEMMA EnoughPopulates ==
  ASSUME TypeOK, KernelInv, Populate
  PROVE  EnoughInv'
<1>1. db' = mounts /\ mounts' = mounts /\ Leaving' = {}
  BY DEF Populate, PopulateFromMounts, kernel, Leaving
<1>2. \A m \in mounts : OfVersion(m.point, m) /\ m \in Entries
  BY PointsOfMounts
<1>3. \A m \in mounts : VersionMounted(m)'
  BY <1>1, <1>2 DEF VersionMounted
<1>4. ASSUME NEW m \in mounts, NEW n \in mounts, SameVersionAs(m, n), m # n
      PROVE  BothMounted(m)'
  <2>1. OfVersion(n.point, m)
    BY <1>2, <1>4 DEF OfVersion, SameVersionAs
  <2>2. QED
    BY <1>1, <1>2, <1>4, <2>1, TwoMounts DEF BothMounted
<1>5. ASSUME NEW m \in mounts, NEW n \in mounts, NEW k \in mounts,
             SameVersionAs(m, n), SameVersionAs(m, k)
      PROVE  m = n \/ m = k \/ n = k
  <2>1. OfVersion(m.point, m) /\ OfVersion(n.point, m) /\ OfVersion(k.point, m)
    BY <1>2, <1>5 DEF OfVersion, SameVersionAs
  <2>2. /\ m.point.tmp \in BOOLEAN /\ m.point = PointOf(m.file, m.point.tmp)
        /\ n.point.tmp \in BOOLEAN /\ n.point = PointOf(m.file, n.point.tmp)
        /\ k.point.tmp \in BOOLEAN /\ k.point = PointOf(m.file, k.point.tmp)
    BY <1>2, <2>1, PointsOfMounts, TwoPoints
  <2>3. m.point = n.point \/ m.point = k.point \/ n.point = k.point
    BY <2>2
  <2>4. QED
    BY <2>3 DEF KernelInv
<1>6. QED
  BY <1>1, <1>2, <1>3, <1>4, <1>5 DEF EnoughInv

\* A handler other than unmountDanglingMounts neither is nor becomes it.
LEMMA OtherHandlers ==
  ASSUME MountsInv, [Next]_vars, frame'.op = "dangling"
  PROVE  \/ UNCHANGED <<db, frame>> \/ BootCompleted \/ UnmountDanglingMounts
         \/ /\ frame.op = "dangling" /\ frame'.todo = frame.todo /\ UNCHANGED db
<1>0. TypeOK /\ HandlerInv /\ files \subseteq ApexFiles /\ EmptyFrame.op = "none"
  BY DEF MountsInv, TypeOK, EmptyFrame
<1>1. pc' \in {"dangling", "unlink", "unmount"} \/ UNCHANGED vars
  <2>1. HandlerInv' /\ pc' \in Labels
    BY <1>0, NextHandler DEF HandlerNext
  <2>2. QED
    BY <1>0, <2>1 DEF HandlerInv, Labels, MountLabels, Activations, Scanning
<1>2. CASE UNCHANGED vars
  BY <1>2 DEF vars, database
<1>3. ASSUME Done, UNCHANGED db
      PROVE  frame.op = "dangling" /\ frame'.todo = frame.todo /\ UNCHANGED db
  BY <1>0, <1>3, DoneOver, OverKeeps
<1>4. CASE \/ MountPointTaken \/ VerityFails \/ MountFails \/ BindFails \/ UnlinkDangling
           \/ BindNew
  BY <1>3, <1>4 DEF MountPointTaken, VerityFails, MountFails, BindFails, UnlinkDangling,
     BindNew, Fails, database
<1>5. CASE CreateLoopDevice
  <2>1. CASE pc' \in {"dangling", "unlink", "unmount"}
    <3>1. Fails
      BY <1>0, <1>5, <2>1, CreateLoopDeviceMoves
    <3>2. QED
      BY <1>3, <1>5, <3>1 DEF Fails, CreateLoopDevice, database
  <2>2. QED
    BY <1>1, <1>2, <2>1
<1>6. ASSUME NEW entry \in Entries, Mounted(entry), pc \in MountLabels PROVE FALSE
  <2>1. frame.op # "dangling"
    BY <1>0, <1>6 DEF HandlerInv, Activations
  <2>2. QED
    BY <1>0, <1>6, <2>1, MountedMoves, OverKeeps DEF Has, Stays
<1>7. CASE Mount \/ MountFlattened
  <2>1. pc \in MountLabels
    BY <1>7, MountIs DEF MountLabels
  <2>2. LoopEntry \in Entries /\ FlatMount \in Entries
    BY <1>0, <2>1, MountTypes
  <2>3. \A entry : ~CheckFails(entry)
    BY <1>0 DEF CheckFails, ProcessDies
  <2>4. QED
    BY <1>3, <1>6, <1>7, <2>1, <2>2, <2>3, MountIs DEF Fails, database
<1>8. CASE Unmount \/ UnmountFails
  <2>1. PICK e \in frame.entry : AfterUnmount(e)
    BY <1>8 DEF Unmount, UnmountFails
  <2>2. UNCHANGED db
    BY <1>8 DEF Unmount, UnmountFails, database
  <2>3. QED
    BY <1>0, <2>1, <2>2, AfterUnmountMoves, OverKeeps DEF Stays
<1>9. ASSUME NEW f \in ApexFiles, NEW allow, UnmountPackage(f, allow)
      PROVE  frame'.op = frame.op
  BY <1>0, <1>9, UnmountPackageMoves DEF Has
<1>10. CASE UnmountAfterHook
  BY <1>0, <1>3, <1>9, <1>10 DEF UnmountAfterHook, HandlerInv, database
<1>11. CASE \E f \in files : DeactivatePackage(f)
  BY <1>0, <1>9, <1>11 DEF DeactivatePackage, Serving, HandlerInv
<1>12. ASSUME NEW op \in Activations, NEW f \in ApexFiles,
              NEW todo \in SUBSET (ApexFiles \cup Entries),
              ActivatePackageImpl(op, f, todo)
       PROVE  FALSE
  <2>1. op # "dangling"
    BY DEF Activations
  <2>2. QED
    BY <1>0, <1>12, <2>1, ActivateMoves, OverKeeps DEF Has
<1>13. CASE VisitPackage
  <2>1. PICK f \in frame.todo : ActivatePackageImpl(frame.op, f, frame.todo \ {f})
    BY <1>13 DEF VisitPackage
  <2>2. frame.op \in Activations /\ frame.todo \subseteq files
    BY <1>0, <1>13 DEF VisitPackage, HandlerInv, Scanning, Activations
  <2>3. QED
    BY <1>0, <1>12, <2>1, <2>2
<1>14. CASE \E f \in files : ActivatePackage(f)
  <2>1. "activate" \in Activations /\ {} \in SUBSET (ApexFiles \cup Entries)
    BY DEF Activations
  <2>2. QED
    BY <1>0, <1>12, <1>14, <2>1 DEF ActivatePackage
<1>15. CASE \/ CreateVerityDevice \/ UnbindOld \/ Populate \/ ScanPackagesDir \/ ScanEnds
            \/ SetLatestAborts \/ RestartProcess \/ RebootDevice
            \/ \E f \in files : PreinstallPackage(f) \/ VerifyPackage(f) \/ UnstagePackage(f)
  BY <1>0, <1>1, <1>2, <1>15, Reaches
<1>16. CASE BootCompleted \/ UnmountDanglingMounts
  BY <1>16
<1>17. QED
  BY <1>2, <1>4, <1>5, <1>7, <1>8, <1>10, <1>11, <1>13, <1>14, <1>15, <1>16
     DEF Next, Step, Request

\* The frames of unmountDanglingMounts.
LEMMA DanglingFrames ==
  ASSUME MountsInv
  PROVE  /\ BootCompleted => frame'.todo = db \ latest
         /\ UnmountDanglingMounts =>
              \/ UNCHANGED <<db, latest>> /\ frame' = EmptyFrame /\ pc' = "idle"
              \/ \E e \in frame.todo :
                   /\ e \in Entries /\ RemoveMountedApex(e.file) /\ pc' = "unmount"
                   /\ Has(frame', "dangling", frame.file, frame.loop, frame.tries,
                          frame.newest, {e}, frame.todo \ {e})
<1>0. TypeOK /\ HandlerInv /\ frame \in Frames
  BY DEF MountsInv, TypeOK
<1>1. ASSUME BootCompleted PROVE frame'.todo = db \ latest
  <2>1. "dangling" \in Ops /\ db \ latest \in SUBSET (ApexFiles \cup Entries)
    BY <1>0 DEF Ops, TypeOK
  <2>2. frame' = [EmptyFrame EXCEPT !.op = "dangling", !.todo = db \ latest]
    BY <1>1 DEF BootCompleted
  <2>3. Has([EmptyFrame EXCEPT !.op = "dangling", !.todo = db \ latest],
            "dangling", NoFile, 0, 0, FALSE, {}, db \ latest)
    <3> DEFINE a == [EmptyFrame EXCEPT !.op = "dangling"]
    <3>1. Has(a, "dangling", NoFile, 0, 0, FALSE, {}, {})
      BY <2>1, EmptyFrameFields, FrameUpdates
    <3> HIDE DEF a
    <3>2. Has([a EXCEPT !.todo = db \ latest], "dangling", NoFile, 0, 0, FALSE, {},
              db \ latest)
      BY <2>1, <3>1, FrameUpdates
    <3>3. QED
      BY <3>2 DEF a
  <2>4. QED
    BY <2>2, <2>3 DEF Has
<1>2. ASSUME NEW e \in frame.todo, frame.op = "dangling",
             frame' = [frame EXCEPT !.entry = {e}, !.todo = @ \ {e}]
      PROVE  /\ e \in Entries
             /\ Has(frame', "dangling", frame.file, frame.loop, frame.tries,
                    frame.newest, {e}, frame.todo \ {e})
  <2>1. /\ e \in Entries /\ {e} \in SUBSET Entries
        /\ frame.todo \ {e} \in SUBSET (ApexFiles \cup Entries)
    BY <1>0, <1>2 DEF HandlerInv
  <2>2. Has([frame EXCEPT !.entry = {e}, !.todo = frame.todo \ {e}], frame.op,
            frame.file, frame.loop, frame.tries, frame.newest, {e}, frame.todo \ {e})
    BY <1>0, <2>1, EntryTodo
  <2>3. frame' = [frame EXCEPT !.entry = {e}, !.todo = frame.todo \ {e}]
    BY <1>0, <1>2 DEF Frames
  <2>4. QED
    BY <1>2, <2>1, <2>2, <2>3
<1>3. UnmountDanglingMounts => frame.op = "dangling"
  BY <1>0 DEF UnmountDanglingMounts, HandlerInv
<1>4. QED
  BY <1>1, <1>2, <1>3 DEF UnmountDanglingMounts, database

LEMMA StepDangling ==
  ASSUME MountsInv, EnoughInv, DanglingInv, [Next]_vars
  PROVE  DanglingInv'
<1>1. CASE frame'.op # "dangling"
  BY <1>1 DEF DanglingInv, Dangling
<1>2. CASE frame'.op = "dangling" /\ UNCHANGED db /\ Dangling' \subseteq Dangling
  <2>1. \A f : EntriesOf(f)' = EntriesOf(f)
    BY <1>2 DEF EntriesOf
  <2>2. QED
    BY <1>2, <2>1 DEF DanglingInv
<1>3. CASE frame'.op = "dangling" /\ BootCompleted
  <2>1. UNCHANGED db /\ Dangling' = db \ latest
    BY <1>3, DanglingFrames DEF BootCompleted, database, Dangling
  <2>2. \A f : EntriesOf(f)' = EntriesOf(f)
    BY <2>1 DEF EntriesOf
  <2>3. \A e \in Dangling' : e \in EntriesOf(e.file)' /\ OfVersion(e.point, e)
    BY <2>1 DEF EntriesOf, EnoughInv
  <2>4. ASSUME NEW e \in Dangling', NEW o \in Dangling', NEW d \in Dangling',
               e.file = o.file, e.file = d.file
        PROVE  e = o \/ e = d \/ o = d
    <3>1. SameVersionAs(e, o) /\ SameVersionAs(e, d) /\ e \in db /\ o \in db /\ d \in db
      BY <2>1, <2>4 DEF SameVersionAs
    <3>2. QED
      BY <3>1 DEF EnoughInv
  <2>5. \A e, o \in Dangling' : e.file = o.file => o \in EntriesOf(e.file)'
    BY <2>1 DEF EntriesOf
  <2>6. QED
    BY <2>3, <2>4, <2>5 DEF DanglingInv
<1>4. ASSUME NEW e \in frame.todo, RemoveMountedApex(e.file), frame.op = "dangling",
             frame'.op = "dangling", frame'.todo = frame.todo \ {e}
      PROVE  DanglingInv'
  <2> DEFINE r == FirstOf(EntriesOf(e.file))
  <2>1. e \in Dangling /\ Dangling = frame.todo /\ Dangling' = Dangling \ {e}
    BY <1>4 DEF Dangling
  <2>2. EntriesOf(e.file) # {} /\ EntriesOf(e.file) \subseteq Entries
    BY <2>1 DEF DanglingInv, EntriesOf, MountsInv, TypeOK
  <2>3. r \in EntriesOf(e.file)
    BY <2>2, FirstOfFacts
  <2>4. db' = db \ {r}
    BY <1>4, <2>2 DEF RemoveMountedApex
  <2> HIDE DEF r
  <2>5. /\ \A f : f # e.file => EntriesOf(f)' = EntriesOf(f)
        /\ EntriesOf(e.file)' = EntriesOf(e.file) \ {r}
    BY <2>3, <2>4 DEF EntriesOf
  <2>6. ASSUME NEW o \in Dangling' PROVE OfVersion(o.point, o) /\ EntriesOf(o.file)' # {}
    <3>1. CASE o.file = e.file
      <4>1. PICK c, d \in EntriesOf(e.file) : c # d
        BY <2>1, <2>6, <3>1 DEF DanglingInv
      <4>2. QED
        BY <2>1, <2>5, <2>6, <3>1, <4>1 DEF DanglingInv
    <3>2. CASE o.file # e.file
      BY <2>1, <2>5, <2>6, <3>2 DEF DanglingInv
    <3>3. QED
      BY <3>1, <3>2
  <2>7. ASSUME NEW o \in Dangling', NEW c \in Dangling', o.file = c.file, o # c
        PROVE  \E x, y \in EntriesOf(o.file)' : x # y
    <3>1. o.file # e.file
      BY <2>1, <2>7 DEF DanglingInv
    <3>2. QED
      BY <2>1, <2>5, <2>7, <3>1 DEF DanglingInv
  <2>8. ASSUME NEW o \in Dangling', NEW c \in Dangling', NEW d \in Dangling',
               o.file = c.file, o.file = d.file
        PROVE  o = c \/ o = d \/ c = d
    <3>1. o \in Dangling /\ c \in Dangling /\ d \in Dangling
      BY <2>1, <2>8
    <3>2. QED
      BY <2>8, <3>1 DEF DanglingInv
  <2>9. QED
    BY <2>6, <2>7, <2>8 DEF DanglingInv
<1>5. CASE frame'.op = "dangling" /\ UnmountDanglingMounts
  <2>1. frame.op = "dangling" /\ EmptyFrame.op = "none"
    BY <1>5 DEF UnmountDanglingMounts, MountsInv, HandlerInv, EmptyFrame
  <2>2. QED
    BY <1>4, <1>5, <2>1, DanglingFrames DEF Has
<1>6. QED
  BY <1>1, <1>2, <1>3, <1>5, OtherHandlers DEF Dangling

LEMMA StepEnough ==
  ASSUME MountsInv, EnoughInv, DanglingInv, [Next]_vars
  PROVE  EnoughInv'
<1>0. /\ TypeOK /\ HandlerInv /\ KernelInv /\ HeldInv /\ files \subseteq ApexFiles
      /\ \A x \in Resting : x # "unmount"
  BY DEF MountsInv, TypeOK, Resting
<1>1. CASE UNCHANGED vars
  BY <1>1 DEF vars, kernel, database, EnoughInv, Leaving, VersionMounted, BothMounted
<1>2. CASE ProcessDies
  BY <1>2 DEF ProcessDies, EnoughInv, Leaving
<1>3. CASE \/ MountPointTaken \/ CreateLoopDevice \/ VerityFails \/ CreateVerityDevice
           \/ MountFails \/ UnbindOld
  <2>1. pc' # "unmount"
    BY <1>0, <1>3, Reaches
  <2>2. UNCHANGED <<db, mounts>>
    BY <1>3 DEF MountPointTaken, CreateLoopDevice, VerityFails, CreateVerityDevice,
       MountFails, UnbindOld, Unbind, kernel, database
  <2>3. QED
    BY <2>1, <2>2, EnoughStays
<1>4. CASE \/ BindNew \/ BindFails \/ UnmountFails \/ ScanPackagesDir \/ VisitPackage
           \/ ScanEnds \/ UnlinkDangling
  <2>1. pc' # "unmount"
    BY <1>0, <1>4, Reaches
  <2>2. UNCHANGED <<db, mounts>>
    BY <1>4 DEF BindNew, BindFails, UnmountFails, ScanPackagesDir, VisitPackage,
       ScanEnds, UnlinkDangling, kernel, database
  <2>3. QED
    BY <2>1, <2>2, EnoughStays
<1>5. CASE BootCompleted \/ \E f \in files : \/ ActivatePackage(f) \/ PreinstallPackage(f)
                                            \/ VerifyPackage(f) \/ UnstagePackage(f)
  <2>1. pc' # "unmount"
    BY <1>0, <1>5, Reaches DEF MountLabels
  <2>2. UNCHANGED <<db, mounts>>
    BY <1>5 DEF BootCompleted, ActivatePackage, PreinstallPackage, VerifyPackage,
       UnstagePackage, kernel, database
  <2>3. QED
    BY <2>1, <2>2, EnoughStays
<1>6. ASSUME Fails, UNCHANGED <<db, mounts>> PROVE EnoughInv'
  <2>1. pc' # "unmount"
    BY <1>0, <1>6, DoneRests DEF Fails
  <2>2. QED
    BY <1>6, <2>1, EnoughStays
<1>7. CASE Mount
  <2>1. pc \in MountLabels /\ ~PointTaken /\ mounts' = mounts \cup {LoopMount}
    BY <1>0, <1>7, MountIs DEF HeldInv, MountLabels
  <2>2. /\ LoopEntry \in Entries /\ LoopEntry.point = Point
        /\ LoopEntry.file = frame.file /\ LoopMount.point = Point
    BY <1>0, <2>1, MountTypes DEF LoopMount
  <2>3. CASE Mounted(LoopEntry)
    BY <2>1, <2>2, <2>3, EnoughMounted
  <2>4. QED
    BY <1>2, <1>7, <2>3, MountIs DEF CheckFails
<1>8. CASE MountFlattened
  <2>1. pc \in MountLabels /\ ~PointTaken
    BY <1>8, MountIs DEF MountLabels
  <2>2. FlatMount \in Entries /\ FlatMount.point = Point /\ FlatMount.file = frame.file
    BY <1>0, <2>1, MountTypes DEF FlatMount
  <2>3. CASE Mounted(FlatMount) /\ mounts' = mounts \cup {FlatMount}
    BY <2>1, <2>2, <2>3, EnoughMounted
  <2>4. QED
    BY <1>2, <1>6, <1>8, <2>3, MountIs DEF CheckFails, database
<1>9. CASE Unmount
  <2>1. PICK e \in frame.entry : mounts' = {m \in mounts : m.point # e.point}
    BY <1>9 DEF Unmount
  <2>2. pc = "unmount" /\ UNCHANGED db /\ pc' # "unmount"
    BY <1>0, <1>9, Reaches DEF Unmount, database
  <2>3. frame.entry = {e} /\ e \in Entries
    BY <1>0, <2>1, <2>2 DEF HandlerInv
  <2>4. QED
    BY <1>0, <2>1, <2>2, <2>3, EnoughUnmounts
<1>10. ASSUME NEW f \in ApexFiles, NEW allow, UnmountPackage(f, allow) PROVE EnoughInv'
  <2> DEFINE e == LastOf(EntriesOf(f))
  <2>1. /\ e \in EntriesOf(f) /\ e \in Entries /\ pc' = "unmount" /\ frame'.entry = {e}
    BY <1>0, <1>10, UnmountPackageMoves DEF Has
  <2>2. RemoveMountedApex(f) /\ UNCHANGED mounts
    BY <1>10 DEF UnmountPackage, kernel, Unbind
  <2> HIDE DEF e
  <2>3. e \in db /\ e.file = f /\ EntriesOf(f) # {}
    BY <2>1 DEF EntriesOf
  <2>4. OfVersion(e.point, e)
    BY <2>3 DEF EnoughInv
  <2>5. QED
    BY <1>0, <2>1, <2>2, <2>3, <2>4, EnoughRemoves
<1>11. CASE UnmountAfterHook
  <2>1. frame.file \in ApexFiles
    BY <1>0, <1>11 DEF UnmountAfterHook, HandlerInv
  <2>2. CASE Done /\ UNCHANGED <<kernel, database>>
    <3>1. pc' # "unmount" /\ UNCHANGED <<db, mounts>>
      BY <1>0, <2>2, DoneRests DEF kernel, database
    <3>2. QED
      BY <3>1, EnoughStays
  <2>3. QED
    BY <1>10, <1>11, <2>1, <2>2 DEF UnmountAfterHook
<1>12. CASE \E f \in files : DeactivatePackage(f)
  BY <1>0, <1>10, <1>12 DEF DeactivatePackage
<1>13. CASE UnmountDanglingMounts
  <2>1. frame.op = "dangling" /\ UNCHANGED mounts
    BY <1>0, <1>13 DEF UnmountDanglingMounts, HandlerInv, kernel
  <2>2. CASE UNCHANGED db /\ pc' = "idle"
    BY <2>1, <2>2, EnoughStays
  <2>3. ASSUME NEW e \in frame.todo, e \in Entries, RemoveMountedApex(e.file),
               pc' = "unmount", frame'.entry = {e}
        PROVE  EnoughInv'
    <3>1. OfVersion(e.point, e) /\ EntriesOf(e.file) # {}
      BY <2>1 DEF DanglingInv, Dangling
    <3>2. QED
      BY <1>0, <2>1, <2>3, <3>1, EnoughRemoves
  <2>4. QED
    BY <1>13, <2>2, <2>3, DanglingFrames DEF Has
<1>14. CASE Populate
  BY <1>0, <1>14, EnoughPopulates
<1>15. CASE SetLatestAborts \/ RestartProcess \/ RebootDevice
  BY <1>2, <1>15 DEF SetLatestAborts, RestartProcess, RebootDevice
<1>16. QED
  BY <1>1, <1>3, <1>4, <1>5, <1>7, <1>8, <1>9, <1>11, <1>12, <1>13, <1>14, <1>15
     DEF Next, Step, Request

-----------------------------------------------------------------------------
(* What a handler knows of the file that it mounts and binds.              *)

\* What is bound is of the newest version, and mounted; a file that is about to
\* be entered has no entry.
AtHandInv ==
  /\ pc \in {"unbind", "bind"} => NewestAtHand
  /\ pc = "unbind" => \E m \in mounts : /\ m.point.name = frame.file.name
                                        /\ m.point.version = frame.file.version
  /\ pc \in MountLabels /\ frame.op \in Activations => frame.newest = NewestAtHand
  /\ pc \in MountLabels /\ frame.op # "verify" => \A e \in db : e.file # frame.file

LEMMA ActivateAtHand ==
  ASSUME TypeOK, EnoughInv, NEW op \in Activations, NEW f \in files,
         NEW todo \in SUBSET (ApexFiles \cup Entries),
         ActivatePackageImpl(op, f, todo), UNCHANGED <<files, db, mounts>>
  PROVE  AtHandInv'
<1>0. f \in ApexFiles /\ op # "verify"
  BY DEF TypeOK, Activations
<1>1. CASE Over(op, todo)
  BY <1>1, OverKeeps DEF Resting, AtHandInv, MountLabels
<1>2. ASSUME Has(frame', op, f, 0, 0, IsNewestVersion(f), {}, todo)
      PROVE  /\ NewestAtHand' <=> IsNewestVersion(f)
             /\ frame'.newest = IsNewestVersion(f) /\ frame'.file = f
  <2>1. frame'.newest = IsNewestVersion(f) /\ frame'.file = f
    BY <1>2 DEF Has
  <2>2. QED
    BY <2>1 DEF NewestAtHand, IsNewestVersion, Others
<1>3. CASE /\ SameVersion(f) = {} /\ pc' = "mountPackage"
           /\ Has(frame', op, f, 0, 0, IsNewestVersion(f), {}, todo)
  <2>1. \A e \in db : e.file # f
    BY <1>3 DEF SameVersion, Others
  <2>2. NewestAtHand' \in BOOLEAN /\ IsNewestVersion(f) \in BOOLEAN
    BY DEF NewestAtHand, IsNewestVersion
  <2>3. frame'.newest = NewestAtHand'
    BY <1>2, <1>3, <2>2
  <2>4. QED
    BY <1>2, <1>3, <2>1, <2>3 DEF AtHandInv, MountLabels
<1>4. CASE /\ SameVersion(f) # {} /\ IsNewestVersion(f) /\ pc' = "unbind"
           /\ Has(frame', op, f, 0, 0, IsNewestVersion(f), {}, todo)
  <2>1. PICK e \in db : e.file.name = f.name /\ e.file.version = f.version
    BY <1>4 DEF SameVersion, Others
  <2>2. PICK m \in mounts : OfVersion(m.point, e)
    BY DEF EnoughInv, VersionMounted
  <2>3. QED
    BY <1>2, <1>4, <2>1, <2>2 DEF AtHandInv, MountLabels, OfVersion
<1>5. QED
  BY <1>0, <1>1, <1>3, <1>4, ActivateMoves

\* The handler goes on with the file at hand.
LEMMA AtHandStays ==
  ASSUME AtHandInv, UNCHANGED <<files, db>>,
         frame'.op = frame.op, frame'.file = frame.file, frame'.newest = frame.newest,
         \/ pc \in MountLabels /\ pc' \in MountLabels
         \/ pc = "unbind" /\ pc' = "bind"
  PROVE  AtHandInv'
<1>1. NewestAtHand' <=> NewestAtHand
  BY DEF NewestAtHand
<1>2. QED
  BY <1>1 DEF AtHandInv, MountLabels, Activations

LEMMA MountedAtHand ==
  ASSUME MountsInv, AtHandInv, pc \in MountLabels, NEW entry \in Entries,
         Mounted(entry), UNCHANGED files, entry.point = Point, entry.file = frame.file,
         NEW m, m.point = Point, mounts' = mounts \cup {m}
  PROVE  AtHandInv'
<1>0. TypeOK /\ HandlerInv /\ frame.file \in ApexFiles
  BY DEF MountsInv, HandlerInv
<1>1. CASE frame.op \in Activations /\ frame.newest /\ Stays("unbind")
  <2>1. /\ pc' = "unbind" /\ frame' = frame /\ NewestAtHand /\ frame.file.version \in Nat
        /\ db' \subseteq db \cup {entry}
    BY <1>0, <1>1, MountsAssumption DEF Stays, AtHandInv, Mounted
  <2>2. NewestAtHand'
    BY <2>1 DEF NewestAtHand
  <2>3. m.point.name = frame.file.name /\ m.point.version = frame.file.version
    BY DEF Point, PointOf
  <2>4. QED
    BY <2>1, <2>2, <2>3 DEF AtHandInv, MountLabels
<1>2. CASE pc' \notin MountLabels \cup {"unbind", "bind"}
  BY <1>2 DEF AtHandInv
<1>3. QED
  BY <1>0, <1>1, <1>2, MountedMoves, OverKeeps DEF Stays, Resting, MountLabels

LEMMA StepAtHand ==
  ASSUME MountsInv, EnoughInv, AtHandInv, [Next]_vars
  PROVE  AtHandInv'
<1>0. /\ TypeOK /\ HandlerInv /\ files \subseteq ApexFiles
      /\ \A x \in Resting : x \notin MountLabels \cup {"unbind", "bind"}
  BY DEF MountsInv, TypeOK, Resting, MountLabels
<1>1. CASE UNCHANGED vars
  BY <1>1 DEF vars, kernel, database, AtHandInv, NewestAtHand
<1>2. CASE pc' \notin MountLabels \cup {"unbind", "bind"}
  BY <1>2 DEF AtHandInv
<1>3. CASE \/ MountPointTaken \/ VerityFails \/ MountFails \/ BindNew \/ BindFails
           \/ UnlinkDangling
  BY <1>0, <1>2, <1>3, Reaches
<1>4. CASE \/ SetLatestAborts \/ RestartProcess \/ RebootDevice \/ Unmount \/ UnmountFails
           \/ UnmountAfterHook \/ Populate \/ ScanPackagesDir
  <2>1. pc' \in Resting \cup {"populate", "unlink", "unmount", "scan", "visit"}
    BY <1>0, <1>4, Reaches
  <2>2. QED
    BY <1>0, <1>2, <2>1 DEF MountLabels
<1>5. CASE \/ ScanEnds \/ UnmountDanglingMounts \/ BootCompleted
           \/ \E f \in files : DeactivatePackage(f) \/ UnstagePackage(f)
  <2>1. pc' \in {"scan", "idle", "unmount", "dangling"}
    BY <1>0, <1>5, Reaches
  <2>2. QED
    BY <1>2, <2>1 DEF MountLabels
<1>6. CASE VisitPackage
  <2>1. PICK f \in frame.todo : ActivatePackageImpl(frame.op, f, frame.todo \ {f})
    BY <1>6 DEF VisitPackage
  <2>2. frame.op \in Activations /\ frame.todo \subseteq files
    BY <1>0, <1>6 DEF VisitPackage, HandlerInv, Scanning, Activations
  <2>3. UNCHANGED <<files, db, mounts>>
    BY <1>6 DEF VisitPackage, kernel, database
  <2>4. frame.todo \ {f} \in SUBSET (ApexFiles \cup Entries) /\ f \in files
    BY <1>0, <2>2
  <2>5. QED
    BY <1>0, <2>1, <2>2, <2>3, <2>4, ActivateAtHand
<1>7. ASSUME NEW f \in files, ActivatePackage(f) PROVE AtHandInv'
  <2>1. /\ ActivatePackageImpl("activate", f, {}) /\ UNCHANGED <<files, db, mounts>>
        /\ "activate" \in Activations /\ {} \in SUBSET (ApexFiles \cup Entries)
    BY <1>7 DEF ActivatePackage, Activations, kernel, database
  <2>2. QED
    BY <1>0, <2>1, ActivateAtHand
<1>8. ASSUME NEW f \in files, PreinstallPackage(f) \/ VerifyPackage(f)
      PROVE  AtHandInv'
  <2>1. PICK op \in {"preinstall", "verify"} :
          /\ Call(op, f, "mountPackage")
          /\ op = "preinstall" => ~IsMounted(f)
    BY <1>8 DEF PreinstallPackage, VerifyPackage
  <2>2. UNCHANGED db /\ pc' = "mountPackage"
    BY <1>8, <2>1 DEF PreinstallPackage, VerifyPackage, Call, database
  <2>3. frame'.op = op /\ frame'.file = f
    <3>1. op \in Ops /\ f \in ApexFiles
      BY <1>0, <2>1 DEF Ops
    <3>2. {} \in SUBSET (ApexFiles \cup Entries) /\ FALSE \in BOOLEAN
      OBVIOUS
    <3>3. Has([EmptyFrame EXCEPT !.op = op, !.file = f], op, f, 0, 0, FALSE, {}, {})
      BY <3>1, <3>2, NewFrames
    <3>4. QED
      BY <2>1, <3>3 DEF Has, Call
  <2>4. op = "preinstall" => \A e \in db : e.file # f
    BY <2>1 DEF IsMounted, EntriesOf
  <2>5. QED
    BY <2>1, <2>2, <2>3, <2>4 DEF AtHandInv, MountLabels, Activations
<1>9. CASE CreateLoopDevice \/ CreateVerityDevice
  <2>1. UNCHANGED <<files, db>> /\ pc \in MountLabels
    BY <1>9 DEF CreateLoopDevice, CreateVerityDevice, MountLabels, database
  <2>2. CASE /\ pc' \in MountLabels /\ frame'.op = frame.op /\ frame'.file = frame.file
             /\ frame'.newest = frame.newest
    BY <2>1, <2>2, AtHandStays
  <2>3. CASE Fails
    BY <1>0, <1>2, <2>3, DoneRests DEF Fails
  <2>4. QED
    BY <1>0, <1>9, <2>2, <2>3, CreateLoopDeviceMoves DEF CreateVerityDevice, Has, MountLabels
<1>10. CASE UnbindOld
  BY <1>10, AtHandStays DEF UnbindOld, database
<1>11. CASE Mount
  <2>1. pc \in MountLabels /\ mounts' = mounts \cup {LoopMount} /\ UNCHANGED files
    BY <1>11, MountIs DEF MountLabels
  <2>2. /\ LoopEntry \in Entries /\ LoopEntry.point = Point
        /\ LoopEntry.file = frame.file /\ LoopMount.point = Point
    BY <1>0, <2>1, MountTypes DEF LoopMount
  <2>3. CASE Mounted(LoopEntry)
    BY <2>1, <2>2, <2>3, MountedAtHand
  <2>4. CASE CheckFails(LoopEntry)
    BY <1>2, <2>4 DEF CheckFails, ProcessDies, MountLabels
  <2>5. QED
    BY <1>11, <2>3, <2>4, MountIs
<1>12. CASE MountFlattened
  <2>1. pc \in MountLabels /\ UNCHANGED files
    BY <1>12, MountIs DEF MountLabels
  <2>2. FlatMount \in Entries /\ FlatMount.point = Point /\ FlatMount.file = frame.file
    BY <1>0, <2>1, MountTypes DEF FlatMount
  <2>3. CASE Mounted(FlatMount) /\ mounts' = mounts \cup {FlatMount}
    BY <2>1, <2>2, <2>3, MountedAtHand
  <2>4. CASE CheckFails(FlatMount)
    BY <1>2, <2>4 DEF CheckFails, ProcessDies, MountLabels
  <2>5. CASE Fails
    BY <1>0, <1>2, <2>5, DoneRests DEF Fails
  <2>6. QED
    BY <1>12, <2>3, <2>4, <2>5, MountIs
<1>13. QED
  BY <1>1, <1>3, <1>4, <1>5, <1>6, <1>7, <1>8, <1>9, <1>10, <1>11, <1>12
     DEF Next, Step, Request

-----------------------------------------------------------------------------
(* Which entry of a file is flagged, and which is bound.                   *)

\* The entry that is flagged is the first of its file, and the loop devices of
\* a file's entries differ; until a process dies, what is bound is flagged.
FirstInv ==
  /\ \A e \in latest : e = FirstOf(EntriesOf(e.file))
  /\ \A e, o \in db : e.file = o.file /\ e.loop = o.loop => e = o
  /\ "restart" \notin spoiled => \A b \in bound : \E e \in latest : IsOf(e, b)

\* If the last entry of a file is flagged it is the only one.
LEMMA LastIsFirst ==
  ASSUME TypeOK, LatestInv, FirstInv, NEW f, EntriesOf(f) # {},
         LastOf(EntriesOf(f)) \in latest
  PROVE  EntriesOf(f) = {LastOf(EntriesOf(f))}
<1> DEFINE e == LastOf(EntriesOf(f))
<1>1. EntriesOf(f) \subseteq Entries
  BY DEF EntriesOf, TypeOK
<1>2. e \in EntriesOf(f) /\ \A o \in EntriesOf(f) : e.loop >= o.loop
  BY <1>1, LastOfFacts
<1>3. e = FirstOf(EntriesOf(f))
  BY <1>2 DEF FirstInv, EntriesOf
<1> HIDE DEF e
<1>4. \A o \in EntriesOf(f) : e.loop <= o.loop
  BY <1>1, <1>3, FirstOfFacts
<1>5. \A o \in EntriesOf(f) : o.loop \in Nat
  BY <1>1, MountsAssumption DEF Entries
<1>6. ASSUME NEW o \in EntriesOf(f) PROVE o = e
  <2>1. o.loop = e.loop
    BY <1>2, <1>4, <1>5
  <2>2. o \in db /\ e \in db /\ o.file = e.file
    BY <1>2 DEF EntriesOf
  <2>3. QED
    BY <2>1, <2>2 DEF FirstInv
<1>7. QED
  BY <1>2, <1>6 DEF e

\* A file's first entry goes.
LEMMA FirstRemoves ==
  ASSUME TypeOK, LatestInv, FirstInv, NEW f, RemoveMountedApex(f)
  PROVE  /\ \A e \in latest' : e = FirstOf(EntriesOf(e.file)')
         /\ \A e, o \in db' : e.file = o.file /\ e.loop = o.loop => e = o
         /\ \A e \in latest \ latest' : EntriesOf(f) # {} /\ e = FirstOf(EntriesOf(f))
         /\ db' \subseteq db /\ latest' \subseteq latest
<1> DEFINE r == FirstOf(EntriesOf(f))
<1>1. EntriesOf(f) \subseteq Entries
  BY DEF EntriesOf, TypeOK
<1>2. db' \subseteq db /\ latest' \subseteq latest
  BY DEF RemoveMountedApex
<1>3. \A e, o \in db' : e.file = o.file /\ e.loop = o.loop => e = o
  BY <1>2 DEF FirstInv
<1>4. \A e \in latest \ latest' : EntriesOf(f) # {} /\ e = FirstOf(EntriesOf(f))
  BY DEF RemoveMountedApex
<1>5. EntriesOf(f) # {} => r \in EntriesOf(f) /\ db' = db \ {r} /\ latest' = latest \ {r}
  BY <1>1, FirstOfFacts DEF RemoveMountedApex
<1>6. EntriesOf(f) = {} => db' = db
  BY DEF RemoveMountedApex
<1> HIDE DEF r
<1>7. ASSUME NEW g, g # f PROVE EntriesOf(g)' = EntriesOf(g)
  BY <1>5, <1>6, <1>7 DEF EntriesOf
<1>8. ASSUME NEW e \in latest' PROVE e = FirstOf(EntriesOf(e.file)')
  <2>1. e \in latest /\ e \in db /\ e = FirstOf(EntriesOf(e.file))
    BY <1>2 DEF FirstInv, LatestInv
  <2>2. e.file # f
    <3>1. SUFFICES ASSUME e.file = f PROVE FALSE
      OBVIOUS
    <3>2. e \in EntriesOf(f) /\ e = r
      BY <2>1, <3>1 DEF EntriesOf, r
    <3>3. QED
      BY <1>5, <3>2
  <2>3. EntriesOf(e.file)' = EntriesOf(e.file)
    BY <1>7, <2>2
  <2>4. QED
    BY <2>1, <2>3
<1>9. QED
  BY <1>2, <1>3, <1>4, <1>8

\* An entry of a new file is added.
LEMMA FirstAdds ==
  ASSUME LatestInv, FirstInv, NEW entry, db' = db \cup {entry}, UNCHANGED latest,
         \A e \in db : e.file # entry.file
  PROVE  /\ \A e \in latest' : e = FirstOf(EntriesOf(e.file)')
         /\ \A e, o \in db' : e.file = o.file /\ e.loop = o.loop => e = o
<1>1. \A g : g # entry.file => EntriesOf(g)' = EntriesOf(g)
  BY DEF EntriesOf
<1>2. \A e \in latest : e.file # entry.file
  BY DEF LatestInv
<1>3. \A e \in latest' : e = FirstOf(EntriesOf(e.file)')
  BY <1>1, <1>2 DEF FirstInv
<1>4. \A e, o \in db' : e.file = o.file /\ e.loop = o.loop => e = o
  BY DEF FirstInv
<1>5. QED
  BY <1>3, <1>4

LEMMA FirstPopulates ==
  ASSUME TypeOK, KernelInv, Populate
  PROVE  /\ \A e \in latest' : e = FirstOf(EntriesOf(e.file)')
         /\ \A e, o \in db' : e.file = o.file /\ e.loop = o.loop => e = o
<1> DEFINE of(f) == {o \in mounts : o.file = f}
<1>1. db' = mounts /\ \A e \in latest' : \E m \in mounts : e = FirstOf(of(m.file))
  BY DEF Populate, PopulateFromMounts
<1>2. \A f : EntriesOf(f)' = of(f)
  BY <1>1 DEF EntriesOf
<1>3. ASSUME NEW m \in mounts PROVE FirstOf(of(m.file)).file = m.file
  <2>1. of(m.file) \subseteq Entries /\ of(m.file) # {}
    BY DEF TypeOK
  <2>2. FirstOf(of(m.file)) \in of(m.file)
    BY <2>1, FirstOfFacts
  <2>3. QED
    BY <2>2
<1>4. ASSUME NEW e \in latest' PROVE e = FirstOf(EntriesOf(e.file)')
  <2>1. PICK m \in mounts : e = FirstOf(of(m.file))
    BY <1>1
  <2>2. e.file = m.file
    BY <1>3, <2>1
  <2>3. EntriesOf(e.file)' = of(m.file)
    BY <1>2, <2>2
  <2>4. QED
    BY <2>1, <2>3
<1>5. ASSUME NEW m \in mounts, NEW n \in mounts, m.file = n.file, m.loop = n.loop
      PROVE  m = n
  <2>1. MountSound(m) /\ MountSound(n)
    BY DEF KernelInv
  <2>2. CASE m.loop # 0
    BY <1>5, <2>2 DEF KernelInv
  <2>3. CASE m.loop = 0
    <3>1. ~m.point.tmp /\ ~n.point.tmp /\ m.point \in Points /\ n.point \in Points
      BY <1>5, <2>1, <2>3 DEF MountSound, TypeOK, Entries
    <3>2. m.point.tmp = FALSE /\ n.point.tmp = FALSE
      BY <3>1 DEF Points
    <3>3. m.point = n.point
      BY <1>5, <2>1, <3>2 DEF MountSound
    <3>4. QED
      BY <3>3 DEF KernelInv
  <2>4. QED
    BY <2>2, <2>3
<1>6. QED
  BY <1>1, <1>4, <1>5

\* What is bound to a name, while no process has died, is of the file at hand.
LEMMA BindsEntry ==
  ASSUME MountsInv, ReportInv, "restart" \notin spoiled, Once, pc = "bind",
         NEW m \in mounts, m.point = Point, NEW e \in db, e.file = frame.file
  PROVE  IsOf(e, m)
<1>1. e.point = PointOf(e.file, e.point.tmp) /\ ~e.point.tmp /\ e.point \in Points
  BY PointsHaveNames DEF ReportInv, MountsInv, TypeOK, Entries
<1>2. Point = PointOf(frame.file, FALSE)
  BY DEF MountsInv, HandlerInv, Activations, Point
<1>3. e.point = Point
  BY <1>1, <1>2 DEF Points
<1>4. PICK n \in mounts : IsOf(e, n)
  BY DEF MountsInv, DatabaseInv, EntriesInv
<1>5. n = m
  BY <1>3, <1>4 DEF MountsInv, KernelInv, IsOf
<1>6. QED
  BY <1>4, <1>5

LEMMA StepFirst ==
  ASSUME MountsInv, FreedInv, ReportInv, AtHandInv, FirstInv, [Next]_vars
  PROVE  FirstInv'
<1> DEFINE First == \A e \in latest' : e = FirstOf(EntriesOf(e.file)')
           Apart == \A e, o \in db' : e.file = o.file /\ e.loop = o.loop => e = o
           Shows == \A b \in bound' : \E e \in latest' : IsOf(e, b)
<1>0. /\ TypeOK /\ HandlerInv /\ KernelInv /\ LatestInv /\ files \subseteq ApexFiles
      /\ "restart" \notin spoiled => Once
      /\ "restart" \notin spoiled => \A b \in bound : \E e \in latest : IsOf(e, b)
  BY DEF MountsInv, DatabaseInv, FreedInv, Once, TypeOK, FirstInv
<1>1. SUFFICES /\ First /\ Apart
               /\ "restart" \notin spoiled' => Shows
  BY DEF FirstInv
<1>2. ASSUME UNCHANGED db PROVE Apart /\ \A f : EntriesOf(f)' = EntriesOf(f)
  BY <1>2 DEF FirstInv, EntriesOf
<1>3. ASSUME UNCHANGED <<db, latest>>, bound' \subseteq bound,
             "restart" \notin spoiled' => "restart" \notin spoiled
      PROVE  /\ First /\ Apart
             /\ "restart" \notin spoiled' => Shows
  <2>1. First
    BY <1>2, <1>3 DEF FirstInv
  <2>2. QED
    BY <1>0, <1>2, <1>3, <2>1
<1>4. CASE UNCHANGED vars
  BY <1>3, <1>4 DEF vars, kernel, database
<1>5. CASE ProcessDies /\ ~UNCHANGED vars
  <2>1. db' = {} /\ latest' = {} /\ pc' = "populate"
    BY <1>5 DEF ProcessDies
  <2>2. "restart" \in spoiled' \/ RebootDevice
    BY <1>0, <1>5, <2>1, SpoiledSteps
  <2>3. RebootDevice => bound' = {}
    BY DEF RebootDevice
  <2>4. QED
    BY <2>1, <2>2, <2>3
<1>6. CASE ~ProcessDies /\ ~UNCHANGED vars
  <2>1. ~RebootDevice /\ ~RestartProcess /\ ~SetLatestAborts
    BY <1>6 DEF RebootDevice, RestartProcess, SetLatestAborts
  <2>2. "restart" \notin spoiled' => "restart" \notin spoiled
    BY <1>0, <2>1, SpoiledSteps
  <2>3. ASSUME NEW entry, Mounted(entry), UNCHANGED bound, entry.file = frame.file,
               entry.point = Point, pc \in MountLabels
        PROVE  /\ First /\ Apart
               /\ "restart" \notin spoiled' => Shows
    <3>1. UNCHANGED latest
      BY <2>3 DEF Mounted
    <3>2. CASE UNCHANGED db
      BY <1>3, <2>2, <2>3, <3>1, <3>2
    <3>3. CASE db' = db \cup {entry} /\ ~entry.point.tmp
      <4>1. frame.op # "verify"
        BY <1>0, <2>3, <3>3, PointIsOfFile DEF HandlerInv
      <4>2. \A e \in db : e.file # entry.file
        BY <2>3, <4>1 DEF AtHandInv
      <4>3. First /\ Apart
        BY <1>0, <3>1, <3>3, <4>2, FirstAdds
      <4>4. QED
        BY <1>0, <2>2, <2>3, <3>1, <4>3
    <3>4. QED
      BY <2>3, <3>2, <3>3 DEF Mounted
  <2>4. CASE Mount \/ MountFlattened
    <3>1. pc \in MountLabels /\ UNCHANGED bound /\ \A entry : ~CheckFails(entry)
      BY <1>6, <2>4, MountIs DEF MountLabels, CheckFails
    <3>2. /\ LoopEntry.point = Point /\ LoopEntry.file = frame.file
          /\ FlatMount.point = Point /\ FlatMount.file = frame.file
      BY <1>0, <3>1, MountTypes DEF FlatMount
    <3>3. \/ Mounted(LoopEntry) \/ Mounted(FlatMount)
          \/ UNCHANGED <<db, latest>>
      BY <2>4, <3>1, MountIs DEF database
    <3>4. QED
      BY <1>3, <2>2, <2>3, <3>1, <3>2, <3>3
  <2>5. CASE BindNew
    <3> DEFINE f == frame.file
    <3>0. PICK e : e = FirstOf(EntriesOf(f))
      OBVIOUS
    <3>1. PICK m \in mounts : m.point = Point /\ bound' = bound \cup {m}
      BY <2>5 DEF BindNew
    <3>2. /\ pc = "bind" /\ UNCHANGED db /\ EntriesOf(f) # {} /\ EntriesOf(f) \subseteq Entries
          /\ latest' = {e} \cup {o \in latest : o.file.name # f.name}
      BY <1>0, <2>5, <3>0 DEF BindNew, SetLatest, EntriesOf, TypeOK
    <3>3. e \in EntriesOf(f)
      BY <3>0, <3>2, FirstOfFacts
    <3>4. e \in db /\ e.file = f
      BY <3>3 DEF EntriesOf
    <3>5. e = FirstOf(EntriesOf(e.file)')
      BY <1>2, <3>0, <3>2, <3>4
    <3>6. \A o \in latest : o = FirstOf(EntriesOf(o.file)')
      BY <1>2, <3>2 DEF FirstInv
    <3>7. First
      BY <3>2, <3>5, <3>6
    <3>8. ASSUME "restart" \notin spoiled' PROVE Shows
      <4>1. IsOf(e, m)
        BY <1>0, <2>2, <3>1, <3>2, <3>4, <3>8, BindsEntry
      <4>2. ASSUME NEW b \in bound PROVE \E o \in latest' : IsOf(o, b)
        <5>1. PICK o \in latest : IsOf(o, b)
          BY <1>0, <2>2, <3>8
        <5>2. b.file.name # f.name
          BY <3>2 DEF MountsInv, HeldInv
        <5>3. QED
          BY <3>2, <5>1, <5>2 DEF IsOf
      <4>3. QED
        BY <3>1, <3>2, <4>1, <4>2
    <3>9. QED
      BY <1>2, <3>2, <3>7, <3>8
  <2>6. ASSUME NEW f \in ApexFiles, NEW allow, UnmountPackage(f, allow)
        PROVE  /\ First /\ Apart
               /\ "restart" \notin spoiled' => Shows
    <3> DEFINE e == LastOf(EntriesOf(f))
    <3>1. /\ EntriesOf(f) # {} /\ RemoveMountedApex(f) /\ e \in EntriesOf(f)
          /\ IF e \in latest THEN bound' = {b \in bound : b.file.name # f.name}
                             ELSE UNCHANGED bound
      BY <1>0, <2>6, UnmountPackageMoves DEF UnmountPackage, Unbind, kernel
    <3>2. /\ First /\ Apart /\ latest' \subseteq latest
          /\ \A o \in latest \ latest' : o \in EntriesOf(f) /\ o \in latest
      <4>1. EntriesOf(f) \subseteq Entries
        BY <1>0 DEF EntriesOf, TypeOK
      <4>2. FirstOf(EntriesOf(f)) \in EntriesOf(f)
        BY <3>1, <4>1, FirstOfFacts
      <4>3. QED
        BY <1>0, <3>1, <4>2, FirstRemoves
    <3>3. ASSUME "restart" \notin spoiled', NEW b \in bound' PROVE \E o \in latest' : IsOf(o, b)
      <4>1. b \in bound
        BY <3>1
      <4>2. PICK o \in latest : IsOf(o, b)
        BY <1>0, <2>2, <3>3, <4>1
      <4>3. o \in latest'
        <5>1. SUFFICES ASSUME o \notin latest' PROVE FALSE
          OBVIOUS
        <5>2. o \in EntriesOf(f) /\ o.file = f
          BY <3>2, <5>1 DEF EntriesOf
        <5>3. EntriesOf(f) = {o}
          BY <1>0, <2>2, <3>3, <5>2 DEF MountsInv, DatabaseInv, EntriesInv, EntriesOf
        <5>4. e = o
          BY <3>1, <5>3
        <5>5. b.file.name # f.name
          BY <3>1, <5>4, <3>3
        <5>6. QED
          BY <4>2, <5>2, <5>5 DEF IsOf
      <4>4. QED
        BY <4>2, <4>3
    <3>4. QED
      BY <3>2, <3>3
  <2>7. CASE UnmountAfterHook
    <3>1. frame.file \in ApexFiles
      BY <1>0, <2>7 DEF UnmountAfterHook, HandlerInv
    <3>2. QED
      BY <1>3, <2>2, <2>6, <2>7, <3>1 DEF UnmountAfterHook, kernel, database
  <2>8. CASE \E f \in files : DeactivatePackage(f)
    BY <1>0, <2>6, <2>8 DEF DeactivatePackage
  <2>9. CASE UnmountDanglingMounts
    <3>1. frame.op = "dangling" /\ UNCHANGED bound
      BY <1>0, <2>9 DEF UnmountDanglingMounts, HandlerInv, kernel
    <3>2. CASE UNCHANGED <<db, latest>>
      BY <1>3, <2>2, <3>1, <3>2
    <3>3. ASSUME NEW e \in frame.todo, RemoveMountedApex(e.file)
          PROVE  /\ First /\ Apart
                 /\ "restart" \notin spoiled' => Shows
      <4>1. First /\ Apart
        BY <1>0, <3>3, FirstRemoves
      <4>2. ASSUME "restart" \notin spoiled' PROVE UNCHANGED latest
        <5>1. EntriesInv
          BY <1>0, <2>2, <4>2 DEF MountsInv, DatabaseInv
        <5>2. e \in db /\ e \notin latest
          BY <3>1, <3>3, <5>1 DEF EntriesInv
        <5>3. latest' = latest \ {e}
          BY <1>0, <3>3, <5>1, <5>2, RemovesOne
        <5>4. QED
          BY <5>2, <5>3
      <4>3. QED
        BY <1>0, <2>2, <3>1, <4>1, <4>2
    <3>4. QED
      BY <2>9, <3>2, <3>3, DanglingFrames
  <2>10. CASE Populate
    <3>1. First /\ Apart
      BY <1>0, <2>10, FirstPopulates
    <3>2. "restart" \notin spoiled' => bound' = {}
      BY <2>2, <2>10 DEF Populate, FreedInv, kernel
    <3>3. QED
      BY <3>1, <3>2
  <2>11. CASE \/ MountPointTaken \/ CreateLoopDevice \/ VerityFails \/ CreateVerityDevice
              \/ MountFails \/ UnbindOld \/ BindFails
    <3>1. UNCHANGED <<db, latest>> /\ bound' \subseteq bound
      BY <2>11 DEF MountPointTaken, CreateLoopDevice, VerityFails, CreateVerityDevice,
         MountFails, UnbindOld, BindFails, Unbind, kernel, database
    <3>2. QED
      BY <1>3, <2>2, <3>1
  <2>12. CASE \/ Unmount \/ UnmountFails \/ ScanPackagesDir \/ VisitPackage \/ ScanEnds
              \/ UnlinkDangling \/ BootCompleted
    <3>1. UNCHANGED <<db, latest, bound>>
      BY <2>12 DEF Unmount, UnmountFails, ScanPackagesDir, VisitPackage, ScanEnds,
         UnlinkDangling, BootCompleted, kernel, database
    <3>2. QED
      BY <1>3, <2>2, <3>1
  <2>13. CASE \E f \in files : \/ ActivatePackage(f) \/ PreinstallPackage(f)
                               \/ VerifyPackage(f) \/ UnstagePackage(f)
    <3>1. UNCHANGED <<db, latest, bound>>
      BY <2>13 DEF ActivatePackage, PreinstallPackage, VerifyPackage, UnstagePackage,
         kernel, database
    <3>2. QED
      BY <1>3, <2>2, <3>1
  <2>14. QED
    BY <1>6, <2>1, <2>4, <2>5, <2>7, <2>8, <2>9, <2>10, <2>11, <2>12, <2>13
       DEF Next, Step, Request
<1>7. QED
  BY <1>4, <1>5, <1>6

-----------------------------------------------------------------------------
(* The steps of MountedPackages.                                           *)

PromisesInv ==
  /\ MountsInv /\ FreedInv /\ ReportInv
  /\ EnoughInv /\ DanglingInv /\ AtHandInv /\ FirstInv

LEMMA PromisesAlways == Spec => []PromisesInv
<1>1. Init => PromisesInv
  <2>1. SUFFICES ASSUME Init PROVE PromisesInv
    OBVIOUS
  <2>2. /\ mounts = {} /\ bound = {} /\ db = {} /\ latest = {} /\ pc = "populate"
        /\ spoiled = {} /\ loop = [l \in Loops |-> NoFile] /\ dm = [p \in Points |-> 0]
        /\ frame.op = "none" /\ MountsInv
    BY <2>1, InitMounts DEF Init, EmptyFrame
  <2>3. FreedInv /\ ReportInv
    BY <2>2 DEF FreedInv, ReportInv
  <2>4. EnoughInv /\ DanglingInv
    BY <2>2 DEF EnoughInv, DanglingInv, Leaving, Dangling
  <2>5. AtHandInv /\ FirstInv
    BY <2>2 DEF AtHandInv, FirstInv, MountLabels
  <2>6. QED
    BY <2>2, <2>3, <2>4, <2>5 DEF PromisesInv
<1>2. PromisesInv /\ [Next]_vars => PromisesInv'
  BY NextMounts, StepFreed, StepReport, StepEnough, StepDangling, StepAtHand, StepFirst
     DEF PromisesInv
<1>3. QED
  BY <1>1, <1>2, PTL DEF Spec

\* What MountedPackages sees of the variables.
MountedFiles == {m.file : m \in mounts}
KnownFiles   == {e.file : e \in db}
ActiveFiles  == {e.file : e \in latest}
VisibleOf(bs) ==
  [n \in Names |-> IF \E b \in bs : b.file.name = n
     THEN (CHOOSE b \in bs : b.file.name = n).file ELSE NoFile]

LEMMA VisibleFacts ==
  ASSUME NEW bs, \A b, c \in bs : b.file.name = c.file.name => b = c
  PROVE  /\ \A n \in Names : /\ \A b \in bs : b.file.name = n => VisibleOf(bs)[n] = b.file
                             /\ (\A b \in bs : b.file.name # n) => VisibleOf(bs)[n] = NoFile
         /\ VisibleOf(bs) = [n \in Names |-> VisibleOf(bs)[n]]
<1>1. ASSUME NEW n \in Names, NEW b \in bs, b.file.name = n
      PROVE  VisibleOf(bs)[n] = b.file
  <2>1. (CHOOSE c \in bs : c.file.name = n) = b
    BY <1>1
  <2>2. QED
    BY <1>1, <2>1 DEF VisibleOf
<1>2. QED
  BY <1>1 DEF VisibleOf

\* A name is vacated, and a vacant name is bound.
LEMMA VisibleUnbinds ==
  ASSUME NEW bs, \A b, c \in bs : b.file.name = c.file.name => b = c, NEW name \in Names
  PROVE  VisibleOf({b \in bs : b.file.name # name})
           = [VisibleOf(bs) EXCEPT ![name] = NoFile]
<1> DEFINE rest == {b \in bs : b.file.name # name}
           left == [VisibleOf(bs) EXCEPT ![name] = NoFile]
<1>1. left = [n \in Names |-> IF n = name THEN NoFile ELSE VisibleOf(bs)[n]]
  BY VisibleFacts
<1>2. ASSUME NEW n \in Names
      PROVE  VisibleOf(rest)[n] = IF n = name THEN NoFile ELSE VisibleOf(bs)[n]
  <2>1. \A b, c \in rest : b.file.name = c.file.name => b = c
    OBVIOUS
  <2>2. CASE n = name
    BY <2>1, <2>2, VisibleFacts
  <2>3. CASE n # name /\ \E b \in bs : b.file.name = n
    BY <2>1, <2>3, VisibleFacts
  <2>4. CASE n # name /\ \A b \in bs : b.file.name # n
    BY <2>1, <2>4, VisibleFacts
  <2>5. QED
    BY <2>2, <2>3, <2>4
<1>3. VisibleOf(rest) = [n \in Names |-> VisibleOf(rest)[n]]
  BY VisibleFacts
<1>4. QED
  BY <1>1, <1>2, <1>3

LEMMA VisibleBinds ==
  ASSUME NEW bs, \A b, c \in bs : b.file.name = c.file.name => b = c,
         NEW m, m.file.name \in Names, \A b \in bs : b.file.name # m.file.name
  PROVE  /\ VisibleOf(bs \cup {m}) = [VisibleOf(bs) EXCEPT ![m.file.name] = m.file]
         /\ VisibleOf(bs)[m.file.name] = NoFile
<1> DEFINE more == bs \cup {m}
           new == [VisibleOf(bs) EXCEPT ![m.file.name] = m.file]
<1>1. new = [n \in Names |-> IF n = m.file.name THEN m.file ELSE VisibleOf(bs)[n]]
  BY VisibleFacts
<1>2. ASSUME NEW n \in Names
      PROVE  VisibleOf(more)[n] = IF n = m.file.name THEN m.file ELSE VisibleOf(bs)[n]
  <2>1. \A b, c \in more : b.file.name = c.file.name => b = c
    OBVIOUS
  <2>2. CASE n = m.file.name
    BY <2>1, <2>2, VisibleFacts
  <2>3. CASE n # m.file.name /\ \E b \in bs : b.file.name = n
    BY <2>1, <2>3, VisibleFacts
  <2>4. CASE n # m.file.name /\ \A b \in bs : b.file.name # n
    BY <2>1, <2>4, VisibleFacts
  <2>5. QED
    BY <2>2, <2>3, <2>4
<1>3. VisibleOf(more) = [n \in Names |-> VisibleOf(more)[n]]
  BY VisibleFacts
<1>4. VisibleOf(bs)[m.file.name] = NoFile
  BY VisibleFacts
<1>5. QED
  BY <1>1, <1>2, <1>3, <1>4

\* Only a process that dies or a reboot changes whether one has died.
LEMMA FreshStays ==
  ASSUME TypeOK, HandlerInv, [Next]_vars, ~ProcessDies
  PROVE  "restart" \in spoiled' <=> "restart" \in spoiled
<1>1. "restart" \in spoiled => "restart" \in spoiled'
  BY SpoiledSteps DEF RebootDevice
<1>2. \A entry : ~CheckFails(entry)
  BY DEF CheckFails
<1>3. CASE \/ MountPointTaken \/ VerityFails \/ MountFails \/ BindNew \/ BindFails
           \/ UnlinkDangling \/ CreateLoopDevice \/ CreateVerityDevice \/ UnbindOld
  BY <1>1, <1>3 DEF MountPointTaken, VerityFails, MountFails, BindNew, BindFails,
     UnlinkDangling, CreateLoopDevice, CreateVerityDevice, UnbindOld, Fails
<1>4. CASE Unmount \/ UnmountFails \/ Populate
  <2>1. spoiled' \subseteq spoiled \cup {"dm", "umount", "twice"}
    BY <1>4 DEF Unmount, UnmountFails, Populate
  <2>2. QED
    BY <1>1, <2>1
<1>8. CASE \/ UnmountAfterHook \/ VisitPackage \/ ScanEnds
           \/ UnmountDanglingMounts \/ BootCompleted \/ ScanPackagesDir
  <2>1. UNCHANGED spoiled
    BY <1>8 DEF UnmountAfterHook, VisitPackage, ScanEnds,
     UnmountDanglingMounts, BootCompleted, ScanPackagesDir
  <2>2. QED
    BY <2>1
<1>5. CASE \E f \in files : \/ ActivatePackage(f) \/ DeactivatePackage(f)
                            \/ PreinstallPackage(f) \/ VerifyPackage(f) \/ UnstagePackage(f)
  BY <1>5 DEF ActivatePackage, DeactivatePackage, PreinstallPackage, VerifyPackage,
     UnstagePackage
<1>6. CASE Mount \/ MountFlattened
  BY <1>1, <1>2, <1>6, MountIs DEF Mounted, Fails
<1>7. CASE UNCHANGED vars
  BY <1>7 DEF vars
<1>9. QED
  BY <1>3, <1>4, <1>5, <1>6, <1>7, <1>8 DEF Next, Step, Request, SetLatestAborts,
     RestartProcess, RebootDevice

\* A step of MountedPackages, or none.
PackagesStep == [Packages!Next]_Packages!state

LEMMA Stutters ==
  ASSUME UNCHANGED <<files, bound>>, UNCHANGED <<MountedFiles, KnownFiles, ActiveFiles>>,
         "restart" \in spoiled' <=> "restart" \in spoiled
  PROVE  PackagesStep
BY DEF PackagesStep, Packages!state, MountedFiles, KnownFiles, ActiveFiles

LEMMA FreshIsOnce ==
  ASSUME PromisesInv, "restart" \notin spoiled PROVE Once /\ EntriesInv
BY DEF PromisesInv, FreedInv, Once, MountsInv, DatabaseInv

\* What a name shows is bound there.
LEMMA VisibleIsBound ==
  ASSUME PromisesInv, NEW f \in ApexFiles, VisibleOf(bound)[f.name] = f
  PROVE  \E b \in bound : b.file = f
<1>1. f.name \in Names /\ f # NoFile
  BY MountsAssumption DEF Names
<1>2. \A b, c \in bound : b.file.name = c.file.name => b = c
  BY DEF PromisesInv, MountsInv, KernelInv
<1>3. PICK b \in bound : b.file.name = f.name
  BY <1>1, <1>2, VisibleFacts
<1>4. QED
  BY <1>1, <1>2, <1>3, VisibleFacts

\* Unmount: the last mount of a file goes when it has no entry and is not shown.
LEMMA UnmountMaps ==
  ASSUME PromisesInv, [Next]_vars, Unmount
  PROVE  PackagesStep
<1>0. /\ TypeOK /\ HandlerInv /\ KernelInv /\ pc = "unmount"
      /\ UNCHANGED <<files, bound, db, latest>>
  BY DEF PromisesInv, MountsInv, Unmount, database
<1>1. "restart" \in spoiled' <=> "restart" \in spoiled
  BY <1>0, Reaches, FreshStays DEF ProcessDies, Resting
<1>2. UNCHANGED <<KnownFiles, ActiveFiles>>
  BY <1>0 DEF KnownFiles, ActiveFiles
<1>3. PICK e \in frame.entry : mounts' = {m \in mounts : m.point # e.point}
  BY DEF Unmount
<1>4. CASE \A m \in mounts : m.point # e.point
  <2>1. UNCHANGED MountedFiles
    BY <1>3, <1>4 DEF MountedFiles
  <2>2. QED
    BY <1>0, <1>1, <1>2, <2>1, Stutters
<1>5. ASSUME NEW m \in mounts, m.point = e.point
      PROVE  PackagesStep
  <2>1. mounts' = mounts \ {m} /\ m.file \in ApexFiles
    BY <1>0, <1>3, <1>5 DEF KernelInv, TypeOK, Entries
  <2>2. CASE \E n \in mounts' : n.file = m.file
    <3>1. UNCHANGED MountedFiles
      BY <2>1, <2>2 DEF MountedFiles
    <3>2. QED
      BY <1>0, <1>1, <1>2, <3>1, Stutters
  <2>3. CASE \A n \in mounts' : n.file # m.file
    <3>1. MountedFiles' = MountedFiles \ {m.file}
      BY <2>1, <2>3 DEF MountedFiles
    <3>2. ASSUME "restart" \notin spoiled PROVE m.file \notin KnownFiles
      <4>1. SUFFICES ASSUME NEW o \in db, o.file = m.file PROVE FALSE
        BY DEF KnownFiles
      <4>2. EntriesInv
        BY <3>2, FreshIsOnce
      <4>3. o.point # e.point /\ \E n \in mounts : IsOf(o, n)
        BY <1>0, <4>2 DEF EntriesInv
      <4>4. PICK n \in mounts : n.point # e.point /\ n.file = m.file
        BY <4>1, <4>3 DEF IsOf
      <4>5. QED
        BY <1>3, <2>3, <4>4
    <3>3. ASSUME "restart" \notin spoiled PROVE VisibleOf(bound)[m.file.name] # m.file
      <4>1. SUFFICES ASSUME VisibleOf(bound)[m.file.name] = m.file PROVE FALSE
        OBVIOUS
      <4>2. PICK b \in bound : b.file = m.file
        BY <2>1, <4>1, VisibleIsBound
      <4>3. PICK o \in latest : IsOf(o, b)
        BY <3>3 DEF PromisesInv, FirstInv
      <4>4. o \in db /\ o.file = m.file
        BY <4>2, <4>3 DEF IsOf, PromisesInv, MountsInv, DatabaseInv, LatestInv
      <4>5. QED
        BY <3>2, <3>3, <4>4 DEF KnownFiles
    <3>4. Packages!Unmount(m.file)
      BY <1>0, <1>1, <1>2, <3>1, <3>2, <3>3
         DEF Packages!Unmount, MountedFiles, KnownFiles, ActiveFiles, VisibleOf
    <3>5. QED
      BY <2>1, <3>4 DEF PackagesStep, Packages!Next
  <2>4. QED
    BY <2>2, <2>3
<1>6. QED
  BY <1>4, <1>5


\* RemoveMountedApex: the file is forgotten, and what is active is unbound; a
\* successor may take a wrong entry.
LEMMA RemovesMap ==
  ASSUME PromisesInv, NEW f \in ApexFiles, RemoveMountedApex(f), EntriesOf(f) # {},
         UNCHANGED <<files, mounts>>, "restart" \in spoiled' <=> "restart" \in spoiled,
         \/ /\ UNCHANGED bound
            /\ "restart" \notin spoiled => LastOf(EntriesOf(f)) \notin latest
         \/ /\ bound' = {b \in bound : b.file.name # f.name}
            /\ LastOf(EntriesOf(f)) \in latest
  PROVE  PackagesStep
<1>0. TypeOK /\ KernelInv /\ LatestInv /\ FirstInv /\ f.name \in Names
  BY DEF PromisesInv, MountsInv, DatabaseInv, Names
<1>1. UNCHANGED MountedFiles
  BY DEF MountedFiles
<1>2. CASE UNCHANGED bound /\ "restart" \in spoiled
  <2>1. db' \subseteq db /\ latest' \subseteq latest
    BY <1>0, FirstRemoves
  <2>2. KnownFiles' \subseteq KnownFiles /\ ActiveFiles' \subseteq ActiveFiles
    BY <2>1 DEF KnownFiles, ActiveFiles
  <2>3. Packages!Misremember
    BY <1>1, <1>2, <2>2 DEF Packages!Misremember, MountedFiles, KnownFiles, ActiveFiles
  <2>4. QED
    BY <2>3 DEF PackagesStep, Packages!Next
<1>3. ASSUME EntriesOf(f) = {LastOf(EntriesOf(f))}
      PROVE  /\ KnownFiles' = KnownFiles \ {f} /\ ActiveFiles' = ActiveFiles \ {f}
             /\ f \in ActiveFiles <=> LastOf(EntriesOf(f)) \in latest
  <2>1. PICK e : EntriesOf(f) = {e} /\ e = LastOf(EntriesOf(f))
    BY <1>3
  <2>2. e \in Entries /\ e.file = f /\ \A o \in db : o.file = f <=> o = e
    BY <1>0, <2>1 DEF EntriesOf, TypeOK
  <2>3. FirstOf(EntriesOf(f)) = e
    BY <1>0, <2>1, <2>2, FirstOfFacts
  <2>4. db' = db \ {e} /\ latest' = latest \ {e}
    BY <2>1, <2>3 DEF RemoveMountedApex
  <2>5. \A o \in latest : o.file = f <=> o = e
    BY <1>0, <2>2 DEF LatestInv
  <2>6. KnownFiles' = KnownFiles \ {f}
    BY <2>2, <2>4 DEF KnownFiles
  <2>7. ActiveFiles' = ActiveFiles \ {f}
    BY <2>4, <2>5 DEF ActiveFiles
  <2>8. f \in ActiveFiles <=> e \in latest
    BY <2>2, <2>5 DEF ActiveFiles
  <2>9. QED
    BY <2>1, <2>6, <2>7, <2>8
<1>4. CASE /\ UNCHANGED bound /\ "restart" \notin spoiled
           /\ LastOf(EntriesOf(f)) \notin latest
  <2>1. EntriesOf(f) = {LastOf(EntriesOf(f))}
    <3>1. EntriesInv
      BY <1>4, FreshIsOnce
    <3>2. LastOf(EntriesOf(f)) \in EntriesOf(f)
      BY <1>0, LastOfFacts DEF EntriesOf, TypeOK
    <3>3. \A o, e \in EntriesOf(f) : o = e
      BY <3>1 DEF EntriesInv, EntriesOf
    <3>4. QED
      BY <3>2, <3>3
  <2>2. f \notin ActiveFiles
    BY <1>3, <1>4, <2>1
  <2>3. Packages!Forget(f)
    BY <1>1, <1>3, <1>4, <2>1, <2>2
       DEF Packages!Forget, MountedFiles, KnownFiles, ActiveFiles
  <2>4. QED
    BY <2>3 DEF PackagesStep, Packages!Next
<1>5. CASE /\ bound' = {b \in bound : b.file.name # f.name}
           /\ LastOf(EntriesOf(f)) \in latest
  <2>1. EntriesOf(f) = {LastOf(EntriesOf(f))}
    BY <1>0, <1>5, LastIsFirst
  <2>2. f \in ActiveFiles
    BY <1>3, <1>5, <2>1
  <2>3. VisibleOf(bound') = [VisibleOf(bound) EXCEPT ![f.name] = NoFile]
    <3>1. \A b, c \in bound : b.file.name = c.file.name => b = c
      BY <1>0 DEF KernelInv
    <3>2. QED
      BY <1>0, <1>5, <3>1, VisibleUnbinds
  <2>4. Packages!Forget(f)
    BY <1>1, <1>3, <2>1, <2>2, <2>3
       DEF Packages!Forget, MountedFiles, KnownFiles, ActiveFiles, VisibleOf
  <2>5. QED
    BY <2>4 DEF PackagesStep, Packages!Next
<1>6. QED
  BY <1>2, <1>4, <1>5

LEMMA UnmountPackageMaps ==
  ASSUME PromisesInv, NEW f \in ApexFiles, NEW allow, UnmountPackage(f, allow),
         UNCHANGED files, "restart" \in spoiled' <=> "restart" \in spoiled
  PROVE  PackagesStep
<1>1. EntriesOf(f) # {} /\ RemoveMountedApex(f) /\ UNCHANGED mounts
  BY DEF UnmountPackage, Unbind, kernel
<1>2. \/ UNCHANGED bound /\ LastOf(EntriesOf(f)) \notin latest
      \/ /\ bound' = {b \in bound : b.file.name # f.name}
         /\ LastOf(EntriesOf(f)) \in latest
  BY DEF UnmountPackage, Unbind, kernel
<1>3. QED
  BY <1>1, <1>2, RemovesMap

LEMMA DanglingMaps ==
  ASSUME PromisesInv, [Next]_vars, UnmountDanglingMounts
  PROVE  PackagesStep
<1>0. TypeOK /\ HandlerInv /\ KernelInv /\ LatestInv /\ MountsInv /\ DanglingInv
  BY DEF PromisesInv, MountsInv, DatabaseInv
<1>1. /\ UNCHANGED <<files, mounts, bound>> /\ frame.op = "dangling"
      /\ "restart" \in spoiled' <=> "restart" \in spoiled
  BY <1>0 DEF UnmountDanglingMounts, HandlerInv, kernel
<1>2. CASE UNCHANGED <<db, latest>>
  BY <1>1, <1>2, Stutters DEF MountedFiles, KnownFiles, ActiveFiles
<1>3. ASSUME NEW e \in frame.todo, e \in Entries, RemoveMountedApex(e.file)
      PROVE  PackagesStep
  <2>1. e.file \in ApexFiles /\ EntriesOf(e.file) # {}
    BY <1>0, <1>1, <1>3 DEF DanglingInv, Dangling, Entries
  <2>2. ASSUME "restart" \notin spoiled PROVE LastOf(EntriesOf(e.file)) \notin latest
    <3>1. EntriesInv
      BY <2>2, FreshIsOnce
    <3>2. e \in db /\ e \notin latest
      BY <1>1, <1>3, <3>1 DEF EntriesInv
    <3>3. QED
      BY <1>0, <1>3, <3>1, <3>2, RemovesOne
  <2>3. QED
    BY <1>1, <1>3, <2>1, <2>2, RemovesMap
<1>4. QED
  BY <1>0, <1>2, <1>3, DanglingFrames

\* What is mounted is entered, or only looked into.
LEMMA MountedMaps ==
  ASSUME PromisesInv, frame.file \in ApexFiles, NEW entry, entry.file = frame.file,
         Mounted(entry), NEW m, m.file = frame.file, mounts' = mounts \cup {m},
         UNCHANGED <<files, bound>>
  PROVE  PackagesStep
<1>1. /\ db' = db \/ db' = db \cup {entry}
      /\ UNCHANGED <<latest, spoiled>>
  BY DEF Mounted
<1>2. MountedFiles' = MountedFiles \cup {frame.file}
  BY DEF MountedFiles
<1>3. KnownFiles' = KnownFiles \/ KnownFiles' = KnownFiles \cup {frame.file}
  BY <1>1 DEF KnownFiles
<1>4. PICK f \in ApexFiles : f = frame.file
  OBVIOUS
<1>5. Packages!Mount(f)
  BY <1>1, <1>2, <1>3, <1>4 DEF Packages!Mount, MountedFiles, KnownFiles
<1>6. QED
  BY <1>5 DEF PackagesStep, Packages!Next

\* A process dies, right after a mount if a check stops it.
LEMMA DiesMaps ==
  ASSUME PromisesInv, ProcessDies, "restart" \in spoiled', UNCHANGED <<files, bound>>,
         \/ UNCHANGED mounts
         \/ \E m : m.file \in ApexFiles /\ mounts' = mounts \cup {m}
  PROVE  PackagesStep
<1>1. KnownFiles' = {} /\ ActiveFiles' = {}
  BY DEF ProcessDies, KnownFiles, ActiveFiles
<1>2. \/ UNCHANGED MountedFiles
      \/ \E f \in ApexFiles : MountedFiles' = MountedFiles \cup {f}
  BY DEF MountedFiles
<1>3. Packages!Die
  BY <1>1, <1>2 DEF Packages!Die, MountedFiles, KnownFiles, ActiveFiles
<1>4. QED
  BY <1>3 DEF PackagesStep, Packages!Next

\* ... or right after a bind mount.
LEMMA AbortMaps ==
  ASSUME PromisesInv, SetLatestAborts
  PROVE  PackagesStep
<1>0. TypeOK /\ HandlerInv /\ KernelInv /\ HeldInv /\ pc = "bind"
  BY DEF PromisesInv, MountsInv, SetLatestAborts
<1>1. /\ KnownFiles' = {} /\ ActiveFiles' = {} /\ UNCHANGED <<files, mounts>>
      /\ "restart" \in spoiled'
  BY DEF SetLatestAborts, ProcessDies, KnownFiles, ActiveFiles
<1>2. PICK m \in mounts : m.point = Point /\ bound' = bound \cup {m}
  BY DEF SetLatestAborts
<1>3. m.file.name = frame.file.name /\ m.file \in ApexFiles /\ m.file \in MountedFiles
  BY <1>0, <1>2, MountAtPoint DEF HandlerInv, TypeOK, Entries, MountedFiles
<1>4. /\ \A b \in bound : b.file.name # m.file.name
      /\ \A b, c \in bound : b.file.name = c.file.name => b = c
      /\ m.file.name \in Names
  BY <1>0, <1>3 DEF HeldInv, KernelInv, Names
<1>5. /\ VisibleOf(bound') = [VisibleOf(bound) EXCEPT ![m.file.name] = m.file]
      /\ VisibleOf(bound)[m.file.name] = NoFile
  BY <1>2, <1>4, VisibleBinds
<1>6. PICK f : f = m.file
  OBVIOUS
<1>7. Packages!Die
  BY <1>1, <1>3, <1>5, <1>6
     DEF Packages!Die, MountedFiles, KnownFiles, ActiveFiles, VisibleOf
<1>8. QED
  BY <1>7 DEF PackagesStep, Packages!Next

\* No known newer version can be opened, so it may take its name.
LEMMA AtHandIsNewest ==
  ASSUME PromisesInv, pc \in {"unbind", "bind"}, NEW f,
         f.name = frame.file.name, f.version = frame.file.version
  PROVE  Packages!Newest(f)
BY DEF PromisesInv, AtHandInv, NewestAtHand, Packages!Newest, Packages!Named

LEMMA UnbindOldMaps ==
  ASSUME PromisesInv, UnbindOld
  PROVE  PackagesStep
<1>0. /\ TypeOK /\ KernelInv /\ HandlerInv /\ pc = "unbind"
      /\ UNCHANGED <<files, mounts, db, latest, spoiled>>
      /\ bound' = {b \in bound : b.file.name # frame.file.name}
  BY DEF PromisesInv, MountsInv, UnbindOld, Unbind, database
<1>1. PICK m \in mounts : /\ m.point.name = frame.file.name
                          /\ m.point.version = frame.file.version
  BY <1>0 DEF PromisesInv, AtHandInv
<1>2. /\ m.file.name = frame.file.name /\ m.file.version = frame.file.version
      /\ m.file \in ApexFiles
  BY <1>0, <1>1, PointsOfMounts DEF OfVersion, Entries
<1>3. PICK n \in Names : n = frame.file.name
  BY <1>2 DEF Names
<1>4. PICK f \in MountedFiles : f = m.file
  BY DEF MountedFiles
<1>5. Packages!Newest(f)
  BY <1>0, <1>2, <1>4, AtHandIsNewest
<1>6. VisibleOf(bound') = [VisibleOf(bound) EXCEPT ![n] = NoFile]
  BY <1>0, <1>3, VisibleUnbinds DEF KernelInv
<1>7. Packages!Hide(n)
  <2>1. UNCHANGED <<MountedFiles, KnownFiles, ActiveFiles>>
    BY <1>0 DEF MountedFiles, KnownFiles, ActiveFiles
  <2>2. f \in Packages!Named(n, MountedFiles)
    BY <1>2, <1>3, <1>4 DEF Packages!Named
  <2>3. QED
    BY <1>0, <1>5, <1>6, <2>1, <2>2
       DEF Packages!Hide, MountedFiles, KnownFiles, ActiveFiles, VisibleOf
<1>8. n \in Packages!PackageNames
  BY DEF Packages!PackageNames, Names
<1>9. QED
  BY <1>7, <1>8 DEF PackagesStep, Packages!Next

LEMMA BindNewMaps ==
  ASSUME PromisesInv, BindNew
  PROVE  PackagesStep
<1>0. /\ MountsInv /\ TypeOK /\ KernelInv /\ HandlerInv /\ HeldInv /\ pc = "bind"
      /\ UNCHANGED <<files, mounts, db, spoiled>> /\ EntriesOf(frame.file) # {}
      /\ SetLatest(frame.file)
  BY DEF PromisesInv, MountsInv, BindNew
<1>1. PICK m \in mounts : m.point = Point /\ bound' = bound \cup {m}
  BY DEF BindNew
<1>2. PICK f \in ApexFiles : f = frame.file
  BY <1>0 DEF HandlerInv
<1>3. PICK shown \in ApexFiles : shown = m.file
  BY <1>0 DEF TypeOK, Entries
<1>4. /\ shown.name = f.name /\ shown.version = f.version
      /\ shown \in MountedFiles /\ f.name \in Names
  BY <1>0, <1>1, <1>2, <1>3, MountAtPoint DEF MountedFiles, Names
<1>5. PICK e : e = FirstOf(EntriesOf(f))
  OBVIOUS
<1>6. e \in db /\ e.file = f
  <2>1. EntriesOf(f) \subseteq Entries /\ EntriesOf(f) # {}
    BY <1>0, <1>2 DEF EntriesOf, TypeOK
  <2>2. e \in EntriesOf(f)
    BY <1>5, <2>1, FirstOfFacts
  <2>3. QED
    BY <2>2 DEF EntriesOf
<1>7. "restart" \notin spoiled => shown = f
  <2>1. SUFFICES ASSUME "restart" \notin spoiled PROVE shown = f
    OBVIOUS
  <2>2. IsOf(e, m)
    BY <1>0, <1>1, <1>2, <1>6, <2>1, FreshIsOnce, BindsEntry DEF PromisesInv
  <2>3. QED
    BY <1>3, <1>6, <2>2 DEF IsOf
<1>8. Packages!Newest(f)
  BY <1>0, <1>2, AtHandIsNewest
<1>9. /\ VisibleOf(bound') = [VisibleOf(bound) EXCEPT ![f.name] = shown]
      /\ VisibleOf(bound)[f.name] = NoFile
  <2>1. /\ \A b \in bound : b.file.name # m.file.name
        /\ \A b, c \in bound : b.file.name = c.file.name => b = c
        /\ m.file.name \in Names
    BY <1>0, <1>2, <1>3, <1>4 DEF HeldInv, KernelInv
  <2>2. /\ VisibleOf(bound') = [VisibleOf(bound) EXCEPT ![m.file.name] = m.file]
        /\ VisibleOf(bound)[m.file.name] = NoFile
    BY <1>1, <2>1, VisibleBinds
  <2>3. QED
    BY <1>3, <1>4, <2>2
<1>10. f \in KnownFiles /\ UNCHANGED <<MountedFiles, KnownFiles>>
  BY <1>0, <1>6 DEF KnownFiles, MountedFiles
<1>11. ActiveFiles' = (ActiveFiles \ Packages!Named(f.name, ActiveFiles)) \cup {f}
  <2>1. latest' = {e} \cup {o \in latest : o.file.name # f.name}
    BY <1>0, <1>2, <1>5 DEF SetLatest
  <2>2. QED
    BY <1>6, <2>1 DEF ActiveFiles, Packages!Named
<1>12. shown \in Packages!Named(f.name, MountedFiles)
  BY <1>4 DEF Packages!Named
<1>13. Packages!Show(f, shown)
  BY <1>0, <1>4, <1>7, <1>8, <1>9, <1>10, <1>11, <1>12
     DEF Packages!Show, MountedFiles, KnownFiles, ActiveFiles, VisibleOf
<1>14. QED
  BY <1>13 DEF PackagesStep, Packages!Next

LEMMA PopulateMaps ==
  ASSUME PromisesInv, [Next]_vars, Populate
  PROVE  PackagesStep
<1>1. /\ db = {} /\ db' = mounts /\ UNCHANGED <<files, mounts, bound>>
      /\ "restart" \in spoiled' <=> "restart" \in spoiled
  BY DEF PromisesInv, MountsInv, DatabaseInv, LatestInv, Populate, PopulateFromMounts, kernel
<1>2. /\ latest' \subseteq db'
      /\ \A e, o \in latest' : e.file.name = o.file.name => e = o
  BY NextMounts DEF PromisesInv, MountsInv, DatabaseInv, LatestInv
<1>3. /\ KnownFiles = {} /\ KnownFiles' = MountedFiles /\ UNCHANGED MountedFiles
      /\ ActiveFiles' \subseteq MountedFiles
      /\ \A f, g \in ActiveFiles' : f.name = g.name => f = g
  BY <1>1, <1>2 DEF KnownFiles, MountedFiles, ActiveFiles
<1>4. Packages!Recover
  BY <1>1, <1>3 DEF Packages!Recover, KnownFiles, MountedFiles, ActiveFiles
<1>5. QED
  BY <1>4 DEF PackagesStep, Packages!Next

LEMMA NothingVisible == VisibleOf({}) = Packages!Nowhere
BY DEF VisibleOf, Packages!Nowhere, Packages!PackageNames, Names

LEMMA RebootMaps ==
  ASSUME RebootDevice
  PROVE  PackagesStep
<1>1. /\ mounts' = {} /\ bound' = {} /\ db' = {} /\ latest' = {} /\ spoiled' = {}
      /\ UNCHANGED files
  BY DEF RebootDevice, ProcessDies
<1>2. /\ MountedFiles' = {} /\ KnownFiles' = {} /\ ActiveFiles' = {}
      /\ VisibleOf(bound') = Packages!Nowhere
  BY <1>1, NothingVisible DEF MountedFiles, KnownFiles, ActiveFiles
<1>3. Packages!Reboot
  BY <1>1, <1>2 DEF Packages!Reboot, MountedFiles, KnownFiles, ActiveFiles, VisibleOf
<1>4. QED
  BY <1>3 DEF PackagesStep, Packages!Next

LEMMA DeleteMaps ==
  ASSUME NEW f \in ApexFiles, files' = files \ {f},
         UNCHANGED <<mounts, bound, db, latest, spoiled>>
  PROVE  PackagesStep
<1>1. Packages!Delete(f)
  BY DEF Packages!Delete
<1>2. QED
  BY <1>1 DEF PackagesStep, Packages!Next

\* Nothing that MountedPackages sees moves.
LEMMA SameMaps ==
  ASSUME PromisesInv, [Next]_vars,
         UNCHANGED <<files, mounts, bound, db, latest>>,
         UNCHANGED spoiled \/ pc' # "populate"
  PROVE  PackagesStep
<1>1. "restart" \in spoiled' <=> "restart" \in spoiled
  BY FreshStays DEF PromisesInv, MountsInv, ProcessDies
<1>2. QED
  BY <1>1, Stutters DEF MountedFiles, KnownFiles, ActiveFiles

LEMMA StepMaps ==
  ASSUME PromisesInv, [Next]_vars
  PROVE  PackagesStep
<1>0. /\ MountsInv /\ TypeOK /\ HandlerInv /\ files \subseteq ApexFiles
      /\ "populate" \notin Resting
  BY DEF PromisesInv, MountsInv, TypeOK, Resting
<1>1. CASE UNCHANGED vars
  BY <1>1, SameMaps DEF vars, kernel, database
<1>2. CASE \/ MountPointTaken \/ CreateLoopDevice \/ VerityFails \/ CreateVerityDevice
           \/ MountFails \/ BindFails
  <2>1. pc' # "populate"
    BY <1>0, <1>2, Reaches
  <2>2. UNCHANGED <<files, mounts, bound, db, latest>>
    BY <1>2 DEF MountPointTaken, CreateLoopDevice, VerityFails, CreateVerityDevice,
       MountFails, BindFails, kernel, database
  <2>3. QED
    BY <2>1, <2>2, SameMaps
<1>3. CASE UnmountFails \/ ScanPackagesDir \/ VisitPackage \/ ScanEnds \/ BootCompleted
  <2>1. pc' # "populate"
    BY <1>0, <1>3, Reaches
  <2>2. UNCHANGED <<files, mounts, bound, db, latest>>
    BY <1>3 DEF UnmountFails, ScanPackagesDir, VisitPackage, ScanEnds, BootCompleted,
       kernel, database
  <2>3. QED
    BY <2>1, <2>2, SameMaps
<1>4. CASE \E f \in files : ActivatePackage(f) \/ PreinstallPackage(f) \/ VerifyPackage(f)
  BY <1>4, SameMaps DEF ActivatePackage, PreinstallPackage, VerifyPackage, kernel, database
<1>5. CASE Mount
  <2>1. pc \in MountLabels /\ frame.file \in ApexFiles
    BY <1>0, <1>5, MountIs DEF MountLabels, HandlerInv
  <2>2. /\ LoopEntry.file = frame.file /\ LoopMount.file = frame.file
        /\ mounts' = mounts \cup {LoopMount} /\ UNCHANGED <<files, bound>>
        /\ Mounted(LoopEntry) \/ CheckFails(LoopEntry)
    BY <1>0, <1>5, <2>1, MountIs, MountTypes DEF LoopMount
  <2>3. CASE Mounted(LoopEntry)
    BY <2>1, <2>2, <2>3, MountedMaps
  <2>4. CASE CheckFails(LoopEntry)
    BY <2>1, <2>2, <2>4, DiesMaps DEF CheckFails
  <2>5. QED
    BY <2>2, <2>3, <2>4
<1>6. CASE MountFlattened
  <2>1. /\ pc \in MountLabels /\ frame.file \in ApexFiles /\ FlatMount.file = frame.file
        /\ UNCHANGED <<files, bound>>
    BY <1>0, <1>6, MountIs DEF MountLabels, HandlerInv, FlatMount
  <2>2. CASE Mounted(FlatMount) /\ mounts' = mounts \cup {FlatMount}
    BY <2>1, <2>2, MountedMaps
  <2>3. CASE CheckFails(FlatMount) /\ mounts' = mounts \cup {FlatMount}
    BY <2>1, <2>3, DiesMaps DEF CheckFails
  <2>4. CASE Fails /\ UNCHANGED <<mounts, database, phase>>
    <3>1. pc' # "populate"
      BY <1>0, <2>4, DoneRests DEF Fails
    <3>2. QED
      BY <2>1, <2>4, <3>1, SameMaps DEF database
  <2>5. QED
    BY <1>6, <2>2, <2>3, <2>4, MountIs
<1>7. CASE UnmountAfterHook
  <2>1. frame.file \in ApexFiles /\ UNCHANGED <<files, spoiled>>
    BY <1>0, <1>7 DEF UnmountAfterHook, HandlerInv
  <2>2. CASE UNCHANGED <<kernel, database>>
    BY <2>1, <2>2, SameMaps DEF kernel, database
  <2>3. CASE UnmountPackage(frame.file, FALSE)
    BY <2>1, <2>3, UnmountPackageMaps
  <2>4. QED
    BY <1>7, <2>2, <2>3 DEF UnmountAfterHook
<1>8. CASE \E f \in files : DeactivatePackage(f)
  <2>1. PICK f \in ApexFiles : UnmountPackage(f, TRUE) /\ UNCHANGED <<files, spoiled>>
    BY <1>0, <1>8 DEF DeactivatePackage
  <2>2. QED
    BY <2>1, UnmountPackageMaps
<1>9. CASE \E f \in files : UnstagePackage(f)
  BY <1>0, <1>9, DeleteMaps DEF UnstagePackage, kernel, database
<1>10. CASE UnlinkDangling
  <2>1. PICK e \in Entries : frame.entry = {e}
    BY <1>0, <1>10 DEF UnlinkDangling, HandlerInv
  <2>2. files' = files \ {e.file} /\ e.file \in ApexFiles
    BY <1>10, <2>1 DEF UnlinkDangling, Entries
  <2>3. UNCHANGED <<mounts, bound, db, latest, spoiled>>
    BY <1>10 DEF UnlinkDangling, kernel, database
  <2>4. QED
    BY <2>2, <2>3, DeleteMaps
<1>11. CASE RestartProcess
  BY <1>11, DiesMaps DEF RestartProcess, kernel
<1>12. CASE \/ UnbindOld \/ BindNew \/ SetLatestAborts \/ Unmount \/ UnmountDanglingMounts
            \/ Populate \/ RebootDevice
  BY <1>12, UnbindOldMaps, BindNewMaps, AbortMaps, UnmountMaps, DanglingMaps,
     PopulateMaps, RebootMaps
<1>13. QED
  BY <1>1, <1>2, <1>3, <1>4, <1>5, <1>6, <1>7, <1>8, <1>9, <1>10, <1>11, <1>12
     DEF Next, Step, Request

\* ApexMounts implements MountedPackages: whatever apexd mounts, binds and
\* unmounts, for any packages and devices, whatever calls fail and wherever the
\* process dies, /apex/<name> passes from one version to another only by way of
\* empty, once the next one is mounted and no newer one is known, and what is
\* unmounted is neither shown nor in the database.
THEOREM PromisesAreKept == Spec => KeepsPromises
<1>1. Init => Packages!Init
  <2>1. SUFFICES ASSUME Init PROVE Packages!Init
    OBVIOUS
  <2>2. /\ mounts = {} /\ bound = {} /\ db = {} /\ latest = {} /\ spoiled = {}
        /\ files \subseteq ApexFiles
    BY <2>1 DEF Init
  <2>3. /\ MountedFiles = {} /\ KnownFiles = {} /\ ActiveFiles = {}
        /\ VisibleOf(bound) = Packages!Nowhere
    BY <2>2, NothingVisible DEF MountedFiles, KnownFiles, ActiveFiles
  <2>4. QED
    BY <2>2, <2>3 DEF Packages!Init, MountedFiles, KnownFiles, ActiveFiles, VisibleOf
<1>2. PromisesInv /\ [Next]_vars => [Packages!Next]_Packages!state
  BY StepMaps DEF PackagesStep
<1>3. QED
  BY <1>1, <1>2, PromisesAlways, PTL DEF Spec, KeepsPromises, Packages!Spec

\* ... and so, until a process has died, what /apex/<name> shows is mounted and
\* flagged latest, and the database names only mounted files, at every step of
\* every handler.
THEOREM ShownIsReported == Spec => []Packages!ShownIsActive
<1>1. PromisesInv => Packages!ShownIsActive
  <2>1. SUFFICES ASSUME PromisesInv, "restart" \notin spoiled
                 PROVE  /\ ActiveFiles \subseteq KnownFiles /\ KnownFiles \subseteq MountedFiles
                        /\ \A n \in Packages!PackageNames : VisibleOf(bound)[n] # NoFile
                             => VisibleOf(bound)[n] \in Packages!Named(n, ActiveFiles)
    BY DEF Packages!ShownIsActive, ActiveFiles, KnownFiles, MountedFiles, VisibleOf
  <2>2. ActiveFiles \subseteq KnownFiles
    BY <2>1 DEF PromisesInv, MountsInv, DatabaseInv, LatestInv, ActiveFiles, KnownFiles
  <2>3. KnownFiles \subseteq MountedFiles
    BY <2>1, FreshIsOnce DEF EntriesInv, IsOf, KnownFiles, MountedFiles
  <2>4. ASSUME NEW n \in Names, VisibleOf(bound)[n] # NoFile
        PROVE  VisibleOf(bound)[n] \in Packages!Named(n, ActiveFiles)
    <3>1. \A b, c \in bound : b.file.name = c.file.name => b = c
      BY <2>1 DEF PromisesInv, MountsInv, KernelInv
    <3>2. PICK b \in bound : b.file.name = n
      BY <2>4, <3>1, VisibleFacts
    <3>3. VisibleOf(bound)[n] = b.file
      BY <3>1, <3>2, VisibleFacts
    <3>4. b.file \in ActiveFiles
      BY <2>1 DEF PromisesInv, FirstInv, IsOf, ActiveFiles
    <3>5. QED
      BY <3>2, <3>3, <3>4 DEF Packages!Named
  <2>5. QED
    BY <2>2, <2>3, <2>4 DEF Packages!PackageNames, Names
<1>2. QED
  BY <1>1, PromisesAlways, PTL
=============================================================================
