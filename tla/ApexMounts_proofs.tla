------------------------- MODULE ApexMounts_proofs -------------------------
(***************************************************************************)
(* That the database tells what is mounted, that what is reported is bound *)
(* and that devices are given back, for any set of packages and any number *)
(* of loop devices.                                                        *)
(***************************************************************************)
EXTENDS ApexMounts, WellFoundedInduction, TLAPS

-----------------------------------------------------------------------------
(* Entries in the order of their loop devices.                             *)

\* A set of natural numbers has a least element.
LEMMA LeastNumber ==
  ASSUME NEW S, S \subseteq Nat, S # {}
  PROVE  \E x \in S : \A y \in S : x <= y
<1>1. PICK x \in S : \A y \in S : ~(<<y, x>> \in OpToRel(<, Nat))
  BY NatLessThanWellFounded, WFMin
<1>2. \A y \in S : ~(y < x)
  BY <1>1 DEF OpToRel
<1>3. QED
  BY <1>2

LEMMA FirstOfFacts ==
  ASSUME NEW es, es \subseteq Entries, es # {}
  PROVE  FirstOf(es) \in es /\ \A o \in es : FirstOf(es).loop <= o.loop
<1> DEFINE S == {e.loop : e \in es}
<1>1. S \subseteq Nat /\ S # {}
  BY MountsAssumption DEF Entries
<1>2. PICK x \in S : \A y \in S : x <= y
  BY <1>1, LeastNumber
<1>3. \E e \in es : \A o \in es : e.loop <= o.loop
  BY <1>2
<1>4. QED
  BY <1>3 DEF FirstOf

LEMMA LastOfFacts ==
  ASSUME NEW es, es \subseteq Entries, es # {}
  PROVE  LastOf(es) \in es /\ \A o \in es : LastOf(es).loop >= o.loop
<1> DEFINE S == {NumLoops - e.loop : e \in es}
<1>0. NumLoops \in Nat /\ \A e \in es : e.loop \in 0 .. NumLoops
  BY MountsAssumption DEF Entries
<1>1. S \subseteq Nat /\ S # {}
  BY <1>0
<1>2. PICK x \in S : \A y \in S : x <= y
  BY <1>1, LeastNumber
<1>3. PICK e \in es : x = NumLoops - e.loop
  BY <1>2
<1>4. \A o \in es : NumLoops - e.loop <= NumLoops - o.loop
  BY <1>2, <1>3
<1>5. \A o \in es : e.loop >= o.loop
  BY <1>0, <1>4
<1>6. QED
  BY <1>5 DEF LastOf

\* A package with one entry has the same first and last.
LEMMA OneEntry ==
  ASSUME NEW e
  PROVE  e.loop \in Nat => FirstOf({e}) = e /\ LastOf({e}) = e
BY DEF FirstOf, LastOf

-----------------------------------------------------------------------------
(* Frames.                                                                 *)

\* Frame g has these fields.
Has(g, op, file, l, tries, newest, entry, todo) ==
  /\ g \in Frames
  /\ g.op = op /\ g.file = file /\ g.loop = l /\ g.tries = tries
  /\ g.newest = newest /\ g.entry = entry /\ g.todo = todo

LEMMA EmptyFrameFields == Has(EmptyFrame, "none", NoFile, 0, 0, FALSE, {}, {})
BY MountsAssumption DEF Has, Frames, EmptyFrame, Ops

\* One field of a frame is set.
LEMMA FrameUpdates ==
  ASSUME NEW g, NEW op, NEW f, NEW l, NEW t, NEW n, NEW es, NEW todo,
         Has(g, op, f, l, t, n, es, todo)
  PROVE  /\ \A x \in Ops :
              Has([g EXCEPT !.op = x], x, f, l, t, n, es, todo)
         /\ \A x \in ApexFiles \cup {NoFile} :
              Has([g EXCEPT !.file = x], op, x, l, t, n, es, todo)
         /\ \A x \in 0 .. NumLoops :
              Has([g EXCEPT !.loop = x], op, f, x, t, n, es, todo)
         /\ \A x \in 0 .. 2 :
              Has([g EXCEPT !.tries = x], op, f, l, x, n, es, todo)
         /\ \A x \in BOOLEAN :
              Has([g EXCEPT !.newest = x], op, f, l, t, x, es, todo)
         /\ \A x \in SUBSET Entries :
              Has([g EXCEPT !.entry = x], op, f, l, t, n, x, todo)
         /\ \A x \in SUBSET (ApexFiles \cup Entries) :
              Has([g EXCEPT !.todo = x], op, f, l, t, n, es, x)
BY DEF Has, Frames

LEMMA FrameFields ==
  ASSUME NEW g \in Frames
  PROVE  /\ g.op \in Ops /\ g.file \in ApexFiles \cup {NoFile}
         /\ g.loop \in 0 .. NumLoops /\ g.tries \in 0 .. 2 /\ g.newest \in BOOLEAN
         /\ g.entry \subseteq Entries /\ g.todo \subseteq ApexFiles \cup Entries
         /\ Has(g, g.op, g.file, g.loop, g.tries, g.newest, g.entry, g.todo)
BY DEF Frames, Has

\* The frames that the handlers start with.
LEMMA NewFrames ==
  ASSUME NEW op \in Ops, NEW f \in ApexFiles, NEW n \in BOOLEAN,
         NEW todo \in SUBSET (ApexFiles \cup Entries)
  PROVE  /\ Has([EmptyFrame EXCEPT !.op = op], op, NoFile, 0, 0, FALSE, {}, {})
         /\ Has([EmptyFrame EXCEPT !.op = op, !.todo = todo],
                op, NoFile, 0, 0, FALSE, {}, todo)
         /\ Has([EmptyFrame EXCEPT !.op = op, !.file = f], op, f, 0, 0, FALSE, {}, {})
         /\ Has([EmptyFrame EXCEPT !.op = op, !.file = f, !.newest = n, !.todo = todo],
                op, f, 0, 0, n, {}, todo)
<1> DEFINE a == [EmptyFrame EXCEPT !.op = op]
           b == [a EXCEPT !.file = f]
           d == [b EXCEPT !.newest = n]
<1>1. Has(a, op, NoFile, 0, 0, FALSE, {}, {})
  BY EmptyFrameFields, FrameUpdates
<1> HIDE DEF a
<1>2. Has([a EXCEPT !.todo = todo], op, NoFile, 0, 0, FALSE, {}, todo)
  BY <1>1, FrameUpdates
<1>3. Has(b, op, f, 0, 0, FALSE, {}, {})
  BY <1>1, FrameUpdates
<1> HIDE DEF b
<1>4. Has(d, op, f, 0, 0, n, {}, {})
  BY <1>3 DEF Has, Frames
<1> HIDE DEF d
<1>5. Has([d EXCEPT !.todo = todo], op, f, 0, 0, n, {}, todo)
  BY <1>4, FrameUpdates
<1>6. QED
  BY <1>1, <1>2, <1>3, <1>5 DEF a, b, d

\* Two fields of a frame are set.
LEMMA FileEntry ==
  ASSUME NEW g \in Frames, NEW f \in ApexFiles, NEW es \in SUBSET Entries
  PROVE  Has([g EXCEPT !.file = f, !.entry = es],
             g.op, f, g.loop, g.tries, g.newest, es, g.todo)
<1> DEFINE a == [g EXCEPT !.file = f]
<1>1. Has(a, g.op, f, g.loop, g.tries, g.newest, g.entry, g.todo)
  BY FrameFields, FrameUpdates
<1> HIDE DEF a
<1>2. Has([a EXCEPT !.entry = es], g.op, f, g.loop, g.tries, g.newest, es, g.todo)
  BY <1>1, FrameUpdates
<1>3. QED
  BY <1>2 DEF a

LEMMA EntryTodo ==
  ASSUME NEW g \in Frames, NEW es \in SUBSET Entries,
         NEW todo \in SUBSET (ApexFiles \cup Entries)
  PROVE  Has([g EXCEPT !.entry = es, !.todo = todo],
             g.op, g.file, g.loop, g.tries, g.newest, es, todo)
<1> DEFINE a == [g EXCEPT !.entry = es]
<1>1. Has(a, g.op, g.file, g.loop, g.tries, g.newest, es, g.todo)
  BY FrameFields, FrameUpdates
<1> HIDE DEF a
<1>2. Has([a EXCEPT !.todo = todo], g.op, g.file, g.loop, g.tries, g.newest, es, todo)
  BY <1>1, FrameUpdates
<1>3. QED
  BY <1>2 DEF a

-----------------------------------------------------------------------------
(* What the handlers hold, and where each step goes.                       *)

MountLabels == {"mountPackage", "verity", "mount"}

Activations == {"data", "builtin", "activate"}

\* What a handler holds at its labels; the service answers only when onStart
\* is over.
HandlerInv ==
  /\ pc \in MountLabels \cup {"unbind", "bind", "hook"} => frame.file \in ApexFiles
  /\ pc \in MountLabels \cup {"unbind", "bind"} => frame.file \in files
  /\ pc \in MountLabels => frame.op \in Activations \cup {"preinstall", "verify"}
  /\ pc \in {"unbind", "bind"} => frame.op \in Activations
  /\ pc \in {"verity", "mount"} => frame.loop \in Loops
  /\ pc \in {"scan", "visit"} => Scanning
  /\ pc = "hook" => frame.op = "preinstall"
  /\ pc \in {"dangling", "unlink"} => frame.op = "dangling"
  /\ pc = "unmount" => frame.op \in {"none", "preinstall", "verify", "dangling"}
  /\ pc \in {"unmount", "unlink"} => \E e \in Entries : frame.entry = {e}
  /\ pc \in {"idle", "populate"} => frame = EmptyFrame
  /\ frame.op = "dangling" => frame.todo \subseteq Entries
  /\ Scanning => frame.todo \subseteq files
  /\ frame.op = "verify" => frame.file.dir = "staging"
  /\ phase = "booting" <=> pc = "populate" \/ Scanning

\* The call op is over.
Over(op, todo) ==
  \/ /\ op \in {"data", "builtin"} /\ pc' = "visit"
     /\ Has(frame', op, NoFile, 0, 0, FALSE, {}, todo)
  \/ /\ op = "dangling" /\ pc' = "dangling"
     /\ Has(frame', op, NoFile, 0, 0, FALSE, {}, todo)
  \/ /\ op \notin {"data", "builtin", "dangling"} /\ pc' = "idle"
     /\ frame' = EmptyFrame /\ EmptyFrame \in Frames

Stays(label) == pc' = label /\ frame' = frame /\ frame' \in Frames

LEMMA ReturnOver ==
  ASSUME NEW op \in Ops, NEW todo \in SUBSET (ApexFiles \cup Entries),
         Return(op, todo)
  PROVE  Over(op, todo)
<1>1. Has([EmptyFrame EXCEPT !.op = op, !.todo = todo],
          op, NoFile, 0, 0, FALSE, {}, todo)
  <2> DEFINE a == [EmptyFrame EXCEPT !.op = op]
  <2>1. Has(a, op, NoFile, 0, 0, FALSE, {}, {})
    BY EmptyFrameFields, FrameUpdates
  <2> HIDE DEF a
  <2>2. Has([a EXCEPT !.todo = todo], op, NoFile, 0, 0, FALSE, {}, todo)
    BY <2>1, FrameUpdates
  <2>3. QED
    BY <2>2 DEF a
<1>2. EmptyFrame \in Frames
  BY EmptyFrameFields DEF Has
<1>3. CASE op \in {"data", "builtin"}
  BY <1>1, <1>3 DEF Return, Over
<1>4. CASE op = "dangling"
  BY <1>1, <1>4 DEF Return, Over
<1>5. CASE op \notin {"data", "builtin", "dangling"}
  BY <1>2, <1>5 DEF Return, Over
<1>6. QED
  BY <1>3, <1>4, <1>5

LEMMA DoneOver ==
  ASSUME TypeOK, Done
  PROVE  Over(frame.op, frame.todo)
BY FrameFields, ReturnOver DEF TypeOK, Done

LEMMA PointTypes ==
  ASSUME NEW f \in ApexFiles, NEW tmp \in BOOLEAN
  PROVE  /\ PointOf(f, tmp) \in Points /\ PointOf(f, tmp).name = f.name
         /\ PointOf(f, tmp).version = f.version /\ PointOf(f, tmp).tmp = tmp
BY DEF PointOf, Points, Names, Versions

LEMMA PointIsOfFile ==
  ASSUME frame.file \in ApexFiles
  PROVE  /\ Point \in Points /\ Point.name = frame.file.name
         /\ Point = PointOf(frame.file, TRUE) \/ Point = PointOf(frame.file, FALSE)
         /\ Point.tmp <=> frame.op = "verify"
<1>1. CASE frame.op = "verify"
  BY <1>1, PointTypes DEF Point
<1>2. CASE frame.op # "verify"
  BY <1>2, PointTypes DEF Point
<1>3. QED
  BY <1>1, <1>2

\* The versions that activatePackageImpl finds of the same package.
SameVersion(f) == {e \in Others(f) : e.file.version = f.version}

LEMMA ActivateMoves ==
  ASSUME TypeOK, NEW op \in Activations, NEW f \in ApexFiles,
         NEW todo \in SUBSET (ApexFiles \cup Entries),
         ActivatePackageImpl(op, f, todo)
  PROVE  \/ /\ SameVersion(f) # {}
            /\ LastOf(SameVersion(f)) \in latest \/ ~IsNewestVersion(f)
            /\ Over(op, todo)
         \/ /\ SameVersion(f) = {} /\ pc' = "mountPackage"
            /\ Has(frame', op, f, 0, 0, IsNewestVersion(f), {}, todo)
         \/ /\ SameVersion(f) # {} /\ IsNewestVersion(f) /\ pc' = "unbind"
            /\ Has(frame', op, f, 0, 0, IsNewestVersion(f), {}, todo)
<1>0. op \in Ops /\ IsNewestVersion(f) \in BOOLEAN
  BY DEF Activations, Ops, IsNewestVersion
<1> DEFINE over == \/ SameVersion(f) # {} /\ LastOf(SameVersion(f)) \in latest
                   \/ SameVersion(f) # {} /\ ~IsNewestVersion(f)
<1>1. CASE over
  <2>1. Return(op, todo)
    BY <1>1 DEF ActivatePackageImpl, SameVersion
  <2>2. QED
    BY <1>0, <1>1, <2>1, ReturnOver
<1>2. CASE ~over
  <2>1. /\ pc' = IF SameVersion(f) = {} THEN "mountPackage" ELSE "unbind"
        /\ frame' = [EmptyFrame EXCEPT !.op = op, !.file = f,
                       !.newest = IsNewestVersion(f), !.todo = todo]
    BY <1>2 DEF ActivatePackageImpl, SameVersion
  <2>2. Has(frame', op, f, 0, 0, IsNewestVersion(f), {}, todo)
    BY <1>0, <2>1, NewFrames
  <2>3. QED
    BY <1>2, <2>1, <2>2
<1>3. QED
  BY <1>1, <1>2

LEMMA MountedMoves ==
  ASSUME TypeOK, HandlerInv, pc \in MountLabels, NEW entry \in Entries,
         Mounted(entry)
  PROVE  LET g == frame
         IN \/ /\ g.op = "verify" /\ pc' = "unmount"
               /\ Has(frame', g.op, g.file, g.loop, g.tries, g.newest, {entry}, g.todo)
            \/ g.op = "preinstall" /\ Stays("hook")
            \/ g.op \in Activations /\ g.newest /\ Stays("unbind")
            \/ g.op \in Activations /\ ~g.newest /\ Over(g.op, g.todo)
<1>0. frame \in Frames /\ frame.op \in Activations \cup {"preinstall", "verify"}
  BY DEF TypeOK, HandlerInv
<1>1. CASE frame.op = "verify"
  <2>1. pc' = "unmount" /\ frame' = [frame EXCEPT !.entry = {entry}]
    BY <1>1 DEF Mounted
  <2>2. QED
    BY <1>0, <1>1, <2>1, FrameFields, FrameUpdates
<1>2. CASE frame.op = "preinstall"
  BY <1>0, <1>2 DEF Mounted, Stays
<1>3. CASE frame.op \in Activations
  <2>1. frame.op \notin {"verify", "preinstall"}
    BY <1>3 DEF Activations
  <2>2. IF frame.newest THEN pc' = "unbind" /\ UNCHANGED frame ELSE Done
    BY <2>1 DEF Mounted
  <2>3. QED
    BY <1>0, <1>3, <2>2, DoneOver DEF Stays
<1>4. QED
  BY <1>0, <1>1, <1>2, <1>3

LEMMA AfterUnmountMoves ==
  ASSUME TypeOK, NEW e, AfterUnmount(e)
  PROVE  \/ frame.op = "dangling" /\ Stays("unlink")
         \/ Over(frame.op, frame.todo)
BY DoneOver DEF AfterUnmount, Stays, TypeOK

LEMMA UnmountPackageMoves ==
  ASSUME TypeOK, NEW f \in ApexFiles, NEW allow, UnmountPackage(f, allow)
  PROVE  LET g == frame  e == LastOf(EntriesOf(f))
         IN /\ e \in EntriesOf(f) /\ e \in Entries /\ EntriesOf(f) \subseteq Entries
            /\ pc' = "unmount"
            /\ Has(frame', g.op, f, g.loop, g.tries, g.newest, {e}, g.todo)
<1> DEFINE e == LastOf(EntriesOf(f))
<1>1. EntriesOf(f) \subseteq Entries /\ EntriesOf(f) # {} /\ frame \in Frames
  BY DEF EntriesOf, TypeOK, UnmountPackage
<1>2. e \in EntriesOf(f)
  BY <1>1, LastOfFacts
<1>3. pc' = "unmount" /\ frame' = [frame EXCEPT !.file = f, !.entry = {e}]
  BY DEF UnmountPackage
<1> HIDE DEF e
<1>4. QED
  BY <1>1, <1>2, <1>3, FileEntry DEF e

\* What HandlerInv' needs of a step, which also types pc and frame.
HandlerNext == HandlerInv' /\ pc' \in Labels /\ frame' \in Frames

LEMMA OverHandler ==
  ASSUME NEW op \in Ops, NEW todo, Over(op, todo),
         op \in {"data", "builtin"} => todo \subseteq files',
         op = "dangling" => todo \subseteq Entries,
         phase' = "booting" <=> op \in {"data", "builtin"}
  PROVE  HandlerNext
<1>0. Has(EmptyFrame, "none", NoFile, 0, 0, FALSE, {}, {})
  BY EmptyFrameFields
<1>1. CASE op \in {"data", "builtin"}
  BY <1>1 DEF Over, Has, HandlerNext, HandlerInv, Labels, MountLabels, Scanning
<1>2. CASE op = "dangling"
  BY <1>2 DEF Over, Has, HandlerNext, HandlerInv, Labels, MountLabels, Scanning
<1>3. CASE op \notin {"data", "builtin", "dangling"}
  BY <1>0, <1>3 DEF Over, Has, HandlerNext, HandlerInv, Labels, MountLabels, Scanning
<1>4. QED
  BY <1>1, <1>2, <1>3

LEMMA DoneHandler ==
  ASSUME TypeOK, HandlerInv, Done, pc # "populate", UNCHANGED phase,
         Scanning => UNCHANGED files
  PROVE  HandlerNext
<1>1. frame.op \in Ops /\ Over(frame.op, frame.todo)
  BY DoneOver, FrameFields DEF TypeOK
<1>2. phase' = "booting" <=> frame.op \in {"data", "builtin"}
  BY DEF HandlerInv, Scanning
<1>3. /\ frame.op \in {"data", "builtin"} => frame.todo \subseteq files'
      /\ frame.op = "dangling" => frame.todo \subseteq Entries
  BY DEF HandlerInv, Scanning
<1>4. QED
  BY <1>1, <1>2, <1>3, OverHandler

LEMMA DiesHandler ==
  ASSUME ProcessDies
  PROVE  HandlerNext
<1>1. pc' = "populate" /\ frame' = EmptyFrame /\ phase' = "booting"
  BY DEF ProcessDies
<1>2. QED
  BY <1>1, EmptyFrameFields DEF Has, HandlerNext, HandlerInv, Labels, MountLabels, Scanning

\* A step of the handler at hand that goes on with the same file.
LEMMA GoesOnHandler ==
  ASSUME TypeOK, HandlerInv, pc \in MountLabels \cup {"unbind", "bind"},
         NEW l, pc' = l, frame' \in Frames,
         frame'.op = frame.op, frame'.file = frame.file, frame'.todo = frame.todo,
         UNCHANGED <<files, phase>>,
         \/ /\ l \in MountLabels /\ pc \in MountLabels
            /\ l # "mountPackage" => frame'.loop \in Loops
         \/ l \in {"unbind", "bind"} /\ frame.op \in Activations
         \/ l = "hook" /\ frame.op = "preinstall"
         \/ /\ l = "unmount" /\ frame.op = "verify"
            /\ \E e \in Entries : frame'.entry = {e}
  PROVE  HandlerNext
<1>1. pc' \in Labels
  BY DEF Labels, MountLabels
<1>2. /\ frame.file \in ApexFiles /\ frame.file \in files
      /\ frame.op \in Activations \cup {"preinstall", "verify"}
      /\ phase = "booting" <=> Scanning
      /\ frame.op = "verify" => frame.file.dir = "staging"
      /\ Scanning => frame.todo \subseteq files
  BY DEF HandlerInv, MountLabels, Activations
<1>3. HandlerInv'
  BY <1>2 DEF HandlerInv, MountLabels, Activations, Scanning
<1>4. QED
  BY <1>1, <1>3 DEF HandlerNext

LEMMA MountedHandler ==
  ASSUME TypeOK, HandlerInv, pc \in MountLabels, NEW entry \in Entries,
         Mounted(entry), UNCHANGED files
  PROVE  HandlerNext
<1>1. frame \in Frames /\ phase' = phase /\ pc # "populate"
  BY DEF TypeOK, Mounted, MountLabels
<1>2. CASE frame.op \in Activations /\ ~frame.newest /\ Over(frame.op, frame.todo)
  <2>1. frame.op \in Ops
    BY <1>1, FrameFields
  <2>2. phase' = "booting" <=> frame.op \in {"data", "builtin"}
    BY <1>1 DEF HandlerInv, Scanning
  <2>3. /\ frame.op \in {"data", "builtin"} => frame.todo \subseteq files'
        /\ frame.op = "dangling" => frame.todo \subseteq Entries
    BY DEF HandlerInv, Scanning
  <2>4. QED
    BY <1>2, <2>1, <2>2, <2>3, OverHandler
<1>3. CASE \/ frame.op = "preinstall" /\ Stays("hook")
           \/ frame.op \in Activations /\ frame.newest /\ Stays("unbind")
  BY <1>1, <1>3, GoesOnHandler DEF Stays
<1>4. CASE /\ frame.op = "verify" /\ pc' = "unmount"
           /\ Has(frame', frame.op, frame.file, frame.loop, frame.tries,
                  frame.newest, {entry}, frame.todo)
  BY <1>1, <1>4, GoesOnHandler DEF Has
<1>5. QED
  BY <1>2, <1>3, <1>4, MountedMoves

LEMMA CreateLoopDeviceMoves ==
  ASSUME TypeOK, HandlerInv, CreateLoopDevice
  PROVE  LET g == frame  free == {l \in Loops : loop[l] = NoFile}
         IN \/ /\ free # {} /\ Min(free) \in free /\ pc' = "verity"
               /\ loop' = [loop EXCEPT ![Min(free)] = g.file]
               /\ Has(frame', g.op, g.file, Min(free), g.tries, g.newest, g.entry, g.todo)
               /\ UNCHANGED spoiled
            \/ /\ pc' = "mountPackage" /\ UNCHANGED <<loop, spoiled>>
               /\ Has(frame', g.op, g.file, g.loop, g.tries + 1, g.newest, g.entry, g.todo)
            \/ Fails /\ UNCHANGED loop
<1> DEFINE g == frame  free == {l \in Loops : loop[l] = NoFile}
<1>1. g \in Frames /\ g.tries \in 0 .. 2
  BY FrameFields DEF TypeOK
<1>2. ASSUME free # {} PROVE Min(free) \in free /\ Min(free) \in 0 .. NumLoops
  <2>1. free \subseteq Nat
    BY MountsAssumption DEF Loops
  <2>2. \E x \in free : \A y \in free : x <= y
    BY <1>2, <2>1, LeastNumber
  <2>3. Min(free) \in free
    BY <2>2 DEF Min
  <2>4. QED
    BY <2>3, MountsAssumption DEF Loops
<1>3. CASE /\ free # {} /\ loop' = [loop EXCEPT ![Min(free)] = frame.file]
           /\ pc' = "verity" /\ frame' = [frame EXCEPT !.loop = Min(free)]
           /\ UNCHANGED spoiled
  BY <1>1, <1>2, <1>3, FrameFields, FrameUpdates
<1>4. CASE /\ frame.tries + 1 < kLoopDeviceSetupAttempts
           /\ frame' = [frame EXCEPT !.tries = @ + 1]
           /\ UNCHANGED <<pc, spoiled, loop>>
  <2>1. g.tries + 1 \in 0 .. 2 /\ frame' = [frame EXCEPT !.tries = g.tries + 1]
    BY <1>1, <1>4 DEF kLoopDeviceSetupAttempts
  <2>2. Has(frame', g.op, g.file, g.loop, g.tries + 1, g.newest, g.entry, g.todo)
    BY <1>1, <2>1, FrameFields, FrameUpdates
  <2>3. QED
    BY <1>4, <2>2 DEF CreateLoopDevice
<1>5. QED
  BY <1>3, <1>4 DEF CreateLoopDevice

\* What MountPackageImpl mounts, and the entry that it returns for it.
FlatMount == [file |-> frame.file, loop |-> 0, point |-> Point, verity |-> FALSE]

LoopMount == [file |-> frame.file, loop |-> frame.loop, point |-> Point,
              verity |-> MountOnVerity]

LoopEntry == [LoopMount EXCEPT !.verity = TRUE]

LEMMA MountTypes ==
  ASSUME TypeOK, HandlerInv, pc \in MountLabels
  PROVE  /\ FlatMount \in Entries /\ LoopMount \in Entries /\ LoopEntry \in Entries
         /\ LoopEntry.file = frame.file /\ LoopEntry.loop = frame.loop
         /\ LoopEntry.point = Point /\ LoopEntry.verity = TRUE
<1>1. /\ frame.file \in ApexFiles /\ Point \in Points
      /\ frame.loop \in 0 .. NumLoops /\ 0 \in 0 .. NumLoops
  <2>1. frame.file \in ApexFiles /\ frame \in Frames
    BY DEF TypeOK, HandlerInv
  <2>2. frame.loop \in 0 .. NumLoops
    BY <2>1, FrameFields
  <2>3. Point \in Points
    BY <2>1, PointIsOfFile
  <2>4. 0 \in 0 .. NumLoops
    BY MountsAssumption
  <2>5. QED
    BY <2>1, <2>2, <2>3, <2>4
<1>2. MountOnVerity \in BOOLEAN
  BY DEF MountOnVerity
<1>3. QED
  BY <1>1, <1>2 DEF FlatMount, LoopMount, LoopEntry, Entries

\* Mount and MountFlattened in these terms.
LEMMA MountIs ==
  /\ Mount => /\ pc = "mount" /\ mounts' = mounts \cup {LoopMount}
              /\ Mounted(LoopEntry) \/ CheckFails(LoopEntry)
              /\ UNCHANGED <<files, devices, bound>>
  /\ MountFlattened =>
       /\ pc = "mountPackage" /\ ~PointTaken /\ frame.file.dir = "flattened"
       /\ \/ /\ mounts' = mounts \cup {FlatMount}
             /\ Mounted(FlatMount) \/ CheckFails(FlatMount)
          \/ Fails /\ UNCHANGED <<mounts, database, phase>>
       /\ UNCHANGED <<files, devices, bound>>
BY DEF Mount, MountFlattened, LoopMount, LoopEntry, FlatMount

\* The steps of the handler at hand.
LEMMA StepHandler ==
  ASSUME TypeOK, HandlerInv, Step
  PROVE  HandlerNext
<1>0. frame \in Frames /\ db \subseteq Entries
  BY DEF TypeOK
<1>1. CASE MountPointTaken \/ VerityFails \/ MountFails \/ BindNew \/ BindFails
  BY <1>1, DoneHandler DEF MountPointTaken, VerityFails, MountFails, BindNew,
     BindFails, Fails
<1>2. CASE MountFlattened
  <2>1. CASE Fails /\ UNCHANGED <<mounts, database, phase>>
    BY <1>2, <2>1, DoneHandler DEF Fails, MountFlattened
  <2>2. CASE Mounted(FlatMount)
    BY <1>2, <2>2, MountIs, MountTypes, MountedHandler DEF MountLabels
  <2>3. CASE CheckFails(FlatMount)
    BY <2>3, DiesHandler DEF CheckFails
  <2>4. QED
    BY <1>2, <2>1, <2>2, <2>3, MountIs
<1>3. CASE CreateLoopDevice
  <2>1. pc = "mountPackage" /\ UNCHANGED <<files, phase>>
    BY <1>3 DEF CreateLoopDevice
  <2>2. CASE Fails
    BY <2>1, <2>2, DoneHandler DEF Fails
  <2>3. CASE ~Fails
    <3>1. /\ pc' \in {"verity", "mountPackage"} /\ frame' \in Frames
          /\ frame'.op = frame.op /\ frame'.file = frame.file
          /\ frame'.todo = frame.todo
          /\ pc' = "verity" => frame'.loop \in Loops
      BY <1>3, <2>3, CreateLoopDeviceMoves DEF Has
    <3>2. QED
      BY <2>1, <3>1, GoesOnHandler DEF MountLabels
  <2>4. QED
    BY <2>2, <2>3
<1>4. CASE CreateVerityDevice
  <2>1. frame.loop \in Loops
    BY <1>4 DEF CreateVerityDevice, HandlerInv
  <2>2. QED
    BY <1>0, <1>4, <2>1, GoesOnHandler DEF CreateVerityDevice, MountLabels
<1>5. CASE Mount
  <2>1. pc \in MountLabels
    BY <1>5, MountIs DEF MountLabels
  <2>2. CASE Mounted(LoopEntry)
    BY <1>5, <2>1, <2>2, MountIs, MountTypes, MountedHandler
  <2>3. CASE CheckFails(LoopEntry)
    BY <2>3, DiesHandler DEF CheckFails
  <2>4. QED
    BY <1>5, <2>2, <2>3, MountIs
<1>6. CASE UnbindOld
  <2>1. frame.op \in Activations
    BY <1>6 DEF UnbindOld, HandlerInv
  <2>2. QED
    BY <1>0, <1>6, <2>1, GoesOnHandler DEF UnbindOld, MountLabels
<1>7. CASE SetLatestAborts
  BY <1>7, DiesHandler DEF SetLatestAborts
<1>8. CASE Unmount \/ UnmountFails
  <2>1. /\ pc = "unmount" /\ \E e \in frame.entry : AfterUnmount(e)
        /\ UNCHANGED <<files, phase>>
    BY <1>8 DEF Unmount, UnmountFails
  <2>2. CASE Done
    BY <2>1, <2>2, DoneHandler
  <2>3. CASE frame.op = "dangling" /\ pc' = "unlink" /\ UNCHANGED frame
    <3>1. \E e \in Entries : frame.entry = {e}
      BY <2>1 DEF HandlerInv
    <3>2. QED
      BY <1>0, <2>1, <2>3, <3>1 DEF HandlerNext, HandlerInv, Labels, MountLabels, Scanning
  <2>4. QED
    BY <2>1, <2>2, <2>3 DEF AfterUnmount
<1>9. CASE UnmountAfterHook
  <2>0. /\ pc = "hook" /\ frame.op = "preinstall" /\ frame.file \in ApexFiles
        /\ UNCHANGED <<files, phase>> /\ phase # "booting"
    BY <1>9 DEF UnmountAfterHook, HandlerInv, Scanning
  <2>1. CASE Done
    BY <2>0, <2>1, DoneHandler
  <2>2. CASE UnmountPackage(frame.file, FALSE)
    <3>1. /\ pc' = "unmount" /\ frame' \in Frames /\ frame'.op = "preinstall"
          /\ \E e \in Entries : frame'.entry = {e}
      BY <2>0, <2>2, UnmountPackageMoves DEF Has
    <3>2. QED
      BY <2>0, <3>1 DEF HandlerNext, HandlerInv, Labels, MountLabels, Scanning
  <2>3. QED
    BY <1>9, <2>1, <2>2 DEF UnmountAfterHook
<1>10. CASE Populate
  <2>1. /\ pc' = "scan" /\ frame' = [EmptyFrame EXCEPT !.op = "data"]
        /\ phase = "booting" /\ phase' = phase
    BY <1>10 DEF Populate, HandlerInv
  <2>2. Has(frame', "data", NoFile, 0, 0, FALSE, {}, {})
    BY <2>1, EmptyFrameFields, FrameUpdates DEF Ops
  <2>3. QED
    BY <2>1, <2>2 DEF Has, HandlerNext, HandlerInv, Labels, MountLabels, Scanning
<1>11. CASE ScanPackagesDir
  <2> DEFINE todo == ToActivate({f \in files : f.dir \in ScannedDirs})
  <2>1. todo \subseteq files /\ files \subseteq ApexFiles
    BY DEF ToActivate, TypeOK
  <2>2. pc = "scan" /\ pc' = "visit" /\ frame' = [frame EXCEPT !.todo = todo]
    BY <1>11 DEF ScanPackagesDir
  <2> HIDE DEF todo
  <2>3. frame'.op = frame.op /\ frame'.todo = todo /\ frame' \in Frames
    <3>1. todo \in SUBSET (ApexFiles \cup Entries)
      BY <2>1
    <3>2. Has(frame', frame.op, frame.file, frame.loop, frame.tries, frame.newest,
              frame.entry, todo)
      BY <1>0, <2>2, <3>1, FrameFields, FrameUpdates
    <3>3. QED
      BY <3>2 DEF Has
  <2>4. phase = "booting" /\ UNCHANGED <<files, phase>> /\ Scanning
    BY <1>11, <2>2 DEF ScanPackagesDir, HandlerInv
  <2>5. QED
    BY <2>1, <2>2, <2>3, <2>4 DEF HandlerNext, HandlerInv, Labels, MountLabels, Scanning
<1>12. CASE VisitPackage
  <2>1. PICK f \in frame.todo : ActivatePackageImpl(frame.op, f, frame.todo \ {f})
    BY <1>12 DEF VisitPackage
  <2>2. /\ Scanning /\ frame.todo \subseteq files /\ files \subseteq ApexFiles
        /\ phase = "booting" /\ UNCHANGED <<files, phase>>
    BY <1>12 DEF VisitPackage, HandlerInv, TypeOK
  <2>3. /\ frame.op \in Activations /\ frame.op \in Ops /\ f \in ApexFiles /\ f \in files
        /\ frame.todo \ {f} \in SUBSET (ApexFiles \cup Entries)
    BY <2>2 DEF Scanning, Activations, Ops
  <2>4. CASE Over(frame.op, frame.todo \ {f})
    BY <2>2, <2>3, <2>4, OverHandler DEF Scanning
  <2>5. CASE /\ pc' \in {"mountPackage", "unbind"}
             /\ Has(frame', frame.op, f, 0, 0, IsNewestVersion(f), {}, frame.todo \ {f})
    BY <2>2, <2>3, <2>5 DEF Has, HandlerNext, HandlerInv, Labels, MountLabels,
       Scanning, Activations
  <2>6. QED
    BY <2>1, <2>3, <2>4, <2>5, ActivateMoves
<1>13. CASE ScanEnds
  <2>1. CASE pc' = "scan" /\ frame' = [EmptyFrame EXCEPT !.op = "builtin"] /\ UNCHANGED phase
    <3>1. Has(frame', "builtin", NoFile, 0, 0, FALSE, {}, {})
      BY <2>1, EmptyFrameFields, FrameUpdates DEF Ops
    <3>2. phase' = "booting" /\ UNCHANGED files
      BY <1>13, <2>1 DEF ScanEnds, HandlerInv
    <3>3. QED
      BY <2>1, <3>1, <3>2 DEF Has, HandlerNext, HandlerInv, Labels, MountLabels, Scanning
  <2>2. CASE pc' = "idle" /\ frame' = EmptyFrame /\ phase' = "serving"
    BY <2>2, EmptyFrameFields DEF Has, HandlerNext, HandlerInv, Labels, MountLabels, Scanning
  <2>3. QED
    BY <1>13, <2>1, <2>2 DEF ScanEnds
<1>14. CASE UnmountDanglingMounts
  <2>0. /\ pc = "dangling" /\ frame.op = "dangling" /\ frame.todo \subseteq Entries
        /\ phase # "booting" /\ UNCHANGED <<files, phase>>
    BY <1>14 DEF UnmountDanglingMounts, HandlerInv, Scanning
  <2>1. ASSUME NEW e \in frame.todo, pc' = "unmount",
               frame' = [frame EXCEPT !.entry = {e}, !.todo = @ \ {e}]
        PROVE  HandlerNext
    <3>1. frame' = [frame EXCEPT !.entry = {e}, !.todo = frame.todo \ {e}]
      BY <1>0, <2>1 DEF Frames
    <3>2. Has(frame', frame.op, frame.file, frame.loop, frame.tries, frame.newest,
              {e}, frame.todo \ {e})
      <4>1. {e} \in SUBSET Entries /\ frame.todo \ {e} \in SUBSET (ApexFiles \cup Entries)
        BY <2>0, <2>1
      <4>2. QED
        BY <1>0, <3>1, <4>1, EntryTodo
    <3>3. QED
      BY <2>0, <2>1, <3>2 DEF Has, HandlerNext, HandlerInv, Labels, MountLabels, Scanning
  <2>2. CASE pc' = "idle" /\ frame' = EmptyFrame
    BY <2>0, <2>2, EmptyFrameFields DEF Has, HandlerNext, HandlerInv, Labels,
       MountLabels, Scanning
  <2>3. QED
    BY <1>14, <2>1, <2>2 DEF UnmountDanglingMounts
<1>15. CASE UnlinkDangling
  <2>1. pc = "unlink" /\ frame.op = "dangling" /\ Done /\ UNCHANGED phase
    BY <1>15 DEF UnlinkDangling, HandlerInv
  <2>2. QED
    BY <2>1, DoneHandler DEF Scanning
<1>16. QED
  BY <1>1, <1>2, <1>3, <1>4, <1>5, <1>6, <1>7, <1>8, <1>9, <1>10, <1>11, <1>12,
     <1>13, <1>14, <1>15 DEF Step

\* The calls of the service.
LEMMA RequestHandler ==
  ASSUME TypeOK, HandlerInv, Request
  PROVE  HandlerNext
<1>0. /\ files \subseteq ApexFiles /\ frame \in Frames
      /\ pc = "idle" /\ frame = EmptyFrame /\ phase # "booting"
  BY DEF Request, ActivatePackage, DeactivatePackage, PreinstallPackage,
     VerifyPackage, UnstagePackage, BootCompleted, Serving, TypeOK, HandlerInv
<1>e. Has(EmptyFrame, "none", NoFile, 0, 0, FALSE, {}, {})
  BY EmptyFrameFields
<1>1. ASSUME NEW f \in files, ActivatePackage(f) PROVE HandlerNext
  <2>1. /\ ActivatePackageImpl("activate", f, {}) /\ UNCHANGED <<files, phase>>
        /\ "activate" \in Activations /\ {} \in SUBSET (ApexFiles \cup Entries)
        /\ f \in ApexFiles /\ "activate" \in Ops
    BY <1>0, <1>1 DEF ActivatePackage, Activations, Ops
  <2>2. CASE Over("activate", {})
    BY <1>0, <2>1, <2>2, OverHandler
  <2>3. CASE /\ pc' \in {"mountPackage", "unbind"}
             /\ Has(frame', "activate", f, 0, 0, IsNewestVersion(f), {}, {})
    BY <1>0, <1>1, <2>1, <2>3 DEF Has, HandlerNext, HandlerInv, Labels, MountLabels,
       Scanning, Activations
  <2>4. QED
    BY <2>1, <2>2, <2>3, ActivateMoves
<1>2. ASSUME NEW f \in files, DeactivatePackage(f) PROVE HandlerNext
  <2>1. UnmountPackage(f, TRUE) /\ UNCHANGED <<files, phase>> /\ f \in ApexFiles
    BY <1>0, <1>2 DEF DeactivatePackage
  <2>2. /\ pc' = "unmount" /\ frame' \in Frames /\ frame'.op = "none"
        /\ \E e \in Entries : frame'.entry = {e}
    BY <1>0, <1>e, <2>1, UnmountPackageMoves DEF Has
  <2>3. QED
    BY <1>0, <2>1, <2>2 DEF HandlerNext, HandlerInv, Labels, MountLabels, Scanning
<1>3. ASSUME NEW f \in files, PreinstallPackage(f) \/ VerifyPackage(f)
      PROVE  HandlerNext
  <2>1. PICK op \in {"preinstall", "verify"} :
          /\ Call(op, f, "mountPackage") /\ UNCHANGED <<files, phase>>
          /\ op = "verify" => f.dir = "staging"
    BY <1>3 DEF PreinstallPackage, VerifyPackage
  <2>2. Has(frame', op, f, 0, 0, FALSE, {}, {})
    BY <1>0, <2>1, NewFrames DEF Call, Ops
  <2>3. pc' = "mountPackage"
    BY <2>1 DEF Call
  <2>4. QED
    BY <1>0, <1>3, <2>1, <2>2, <2>3 DEF Has, HandlerNext, HandlerInv, Labels,
       MountLabels, Scanning, Activations
<1>4. ASSUME NEW f \in files, UnstagePackage(f) PROVE HandlerNext
  BY <1>0, <1>e, <1>4 DEF UnstagePackage, Has, HandlerNext, HandlerInv, Labels,
     MountLabels, Scanning
<1>5. CASE BootCompleted
  <2> DEFINE todo == db \ latest
  <2>1. todo \subseteq Entries /\ todo \in SUBSET (ApexFiles \cup Entries)
    BY DEF TypeOK
  <2>2. /\ pc' = "dangling" /\ phase' = "completed"
        /\ frame' = [EmptyFrame EXCEPT !.op = "dangling", !.todo = todo]
    BY <1>5 DEF BootCompleted
  <2> HIDE DEF todo
  <2>3. Has(frame', "dangling", NoFile, 0, 0, FALSE, {}, todo)
    <3> DEFINE a == [EmptyFrame EXCEPT !.op = "dangling"]
    <3>1. Has(a, "dangling", NoFile, 0, 0, FALSE, {}, {})
      BY EmptyFrameFields, FrameUpdates DEF Ops
    <3> HIDE DEF a
    <3>2. Has([a EXCEPT !.todo = todo], "dangling", NoFile, 0, 0, FALSE, {}, todo)
      BY <2>1, <3>1, FrameUpdates
    <3>3. QED
      BY <2>2, <3>2 DEF a
  <2>4. QED
    BY <2>1, <2>2, <2>3 DEF Has, HandlerNext, HandlerInv, Labels, MountLabels, Scanning
<1>6. QED
  BY <1>1, <1>2, <1>3, <1>4, <1>5 DEF Request

LEMMA NextHandler ==
  TypeOK /\ HandlerInv /\ [Next]_vars => HandlerNext
<1> SUFFICES ASSUME TypeOK, HandlerInv, [Next]_vars PROVE HandlerNext
  OBVIOUS
<1>1. CASE RestartProcess \/ RebootDevice
  BY <1>1, DiesHandler DEF RestartProcess, RebootDevice
<1>2. CASE UNCHANGED vars
  BY <1>2 DEF vars, HandlerNext, HandlerInv, TypeOK, Scanning
<1>3. QED
  BY <1>1, <1>2, StepHandler, RequestHandler DEF Next

-----------------------------------------------------------------------------
(* The types of the variables.                                             *)

LEMMA InitType == Init => TypeOK /\ HandlerInv
<1> SUFFICES ASSUME Init PROVE TypeOK /\ HandlerInv
  OBVIOUS
<1>1. frame = EmptyFrame /\ pc = "populate" /\ phase = "booting" /\ files \subseteq ApexFiles
  BY DEF Init
<1>2. Has(EmptyFrame, "none", NoFile, 0, 0, FALSE, {}, {})
  BY EmptyFrameFields
<1>3. TypeOK
  BY <1>1, <1>2, MountsAssumption DEF Init, TypeOK, Has, Labels
<1>4. HandlerInv
  BY <1>1, <1>2 DEF HandlerInv, Has, MountLabels, Scanning
<1>5. QED
  BY <1>3, <1>4

\* The kernel keeps the types of the devices.
LEMMA DeviceTypes ==
  ASSUME TypeOK
  PROVE  /\ \A marked \in SUBSET Loops : \A d, ms : FreeUnused(marked, d, ms) =>
              /\ loop' \in [Loops -> ApexFiles \cup {NoFile}] /\ autoclear' \subseteq Loops
         /\ \A l \in Loops : \A d, ms : ClearLoop(l, d, ms) =>
              /\ loop' \in [Loops -> ApexFiles \cup {NoFile}] /\ autoclear' \subseteq Loops
         /\ \A p, ms : DeleteDm(p, ms) => dm' \in [Points -> 0 .. NumLoops]
<1>1. ASSUME NEW marked \in SUBSET Loops, NEW d, NEW ms, FreeUnused(marked, d, ms)
      PROVE  loop' \in [Loops -> ApexFiles \cup {NoFile}] /\ autoclear' \subseteq Loops
  BY <1>1 DEF FreeUnused, TypeOK
<1>2. ASSUME NEW p, NEW ms, DeleteDm(p, ms) PROVE dm' \in [Points -> 0 .. NumLoops]
  BY <1>2, MountsAssumption DEF DeleteDm, TypeOK
<1>3. ASSUME NEW l \in Loops, NEW d, NEW ms, ClearLoop(l, d, ms)
      PROVE  loop' \in [Loops -> ApexFiles \cup {NoFile}] /\ autoclear' \subseteq Loops
  <2>1. autoclear \cup {l} \in SUBSET Loops
    BY DEF TypeOK
  <2>2. QED
    BY <1>1, <1>3, <2>1 DEF ClearLoop
<1>4. QED
  BY <1>1, <1>2, <1>3

LEMMA StepType ==
  TypeOK /\ HandlerInv /\ [Next]_vars => TypeOK'
<1> SUFFICES ASSUME TypeOK, HandlerInv, [Next]_vars PROVE TypeOK'
  OBVIOUS
<1>0. pc' \in Labels /\ frame' \in Frames
  BY NextHandler DEF HandlerNext
<1> DEFINE KernelType ==
             /\ loop' \in [Loops -> ApexFiles \cup {NoFile}] /\ autoclear' \subseteq Loops
             /\ dm' \in [Points -> 0 .. NumLoops]
             /\ mounts' \subseteq Entries /\ bound' \subseteq Entries
           RestType ==
             /\ files' \subseteq ApexFiles
             /\ db' \subseteq Entries /\ latest' \subseteq Entries
             /\ phase' \in {"booting", "serving", "completed"}
             /\ spoiled' \subseteq {"activate", "bind", "umount", "dm", "restart",
                                    "twice", "check"}
<1>1. KernelType /\ RestType => TypeOK'
  BY <1>0 DEF TypeOK
<1>k. UNCHANGED kernel => KernelType
  BY DEF kernel, TypeOK
<1>d. ASSUME UNCHANGED <<files, database, phase>>,
             spoiled' \in {spoiled} \cup {spoiled \cup s : s \in
               SUBSET {"activate", "bind", "umount", "dm", "restart", "twice", "check"}}
      PROVE  RestType
  BY <1>d DEF database, TypeOK
<1>f. Fails => spoiled' \in {spoiled, spoiled \cup {"activate"}}
  BY DEF Fails
<1>u. \A name : Unbind(name) => KernelType
  <2>1. ASSUME NEW name, Unbind(name) PROVE KernelType
    <3>1. /\ FreeUnused(autoclear, dm, mounts \cup bound') /\ autoclear \in SUBSET Loops
          /\ UNCHANGED <<dm, mounts>> /\ bound' \subseteq bound
      BY <2>1 DEF Unbind, TypeOK
    <3>2. QED
      BY <3>1, DeviceTypes DEF TypeOK
  <2>2. QED
    BY <2>1
<1>r. \A f : RemoveMountedApex(f) => db' \subseteq Entries /\ latest' \subseteq Entries
  BY DEF RemoveMountedApex, TypeOK
<1>p. \A f, allow : UnmountPackage(f, allow)
        => KernelType /\ db' \subseteq Entries /\ latest' \subseteq Entries
  BY <1>k, <1>u, <1>r DEF UnmountPackage
<1>m. ASSUME NEW entry \in Entries, Mounted(entry) \/ CheckFails(entry), UNCHANGED files
      PROVE  RestType
  <2>1. CASE Mounted(entry)
    BY <1>m, <2>1 DEF Mounted, TypeOK
  <2>2. CASE CheckFails(entry)
    BY <1>m, <2>2 DEF CheckFails, ProcessDies, TypeOK
  <2>3. QED
    BY <1>m, <2>1, <2>2
<1>2. CASE Step
  <2>1. CASE MountPointTaken
    <3>1. KernelType
      BY <1>k, <2>1 DEF MountPointTaken
    <3>2. RestType
      BY <1>d, <1>f, <2>1 DEF MountPointTaken
    <3>3. QED
      BY <1>1, <3>1, <3>2
  <2>2. CASE MountFlattened
    <3>1. /\ FlatMount \in Entries /\ UNCHANGED <<files, devices, bound>>
          /\ \/ /\ mounts' = mounts \cup {FlatMount}
                /\ Mounted(FlatMount) \/ CheckFails(FlatMount)
             \/ Fails /\ UNCHANGED <<mounts, database, phase>>
      BY <2>2, MountIs, MountTypes DEF MountLabels
    <3>2. KernelType
      BY <3>1 DEF devices, TypeOK
    <3>3. RestType
      BY <1>d, <1>f, <1>m, <3>1
    <3>4. QED
      BY <1>1, <3>2, <3>3
  <2>3. CASE CreateLoopDevice
    <3>1. loop' \in [Loops -> ApexFiles \cup {NoFile}]
      <4>1. frame.file \in ApexFiles
        BY <2>3 DEF CreateLoopDevice, HandlerInv, MountLabels
      <4>2. QED
        BY <2>3, <4>1, CreateLoopDeviceMoves DEF Fails, TypeOK
    <3>2. KernelType
      BY <2>3, <3>1 DEF CreateLoopDevice, TypeOK
    <3>3. RestType
      <4>1. spoiled' = spoiled \/ Fails
        BY <2>3 DEF CreateLoopDevice
      <4>2. QED
        BY <1>d, <1>f, <2>3, <4>1 DEF CreateLoopDevice
    <3>4. QED
      BY <1>1, <3>2, <3>3
  <2>4. CASE VerityFails
    <3>1. frame.loop \in Loops
      BY <2>4 DEF VerityFails, HandlerInv
    <3>2. KernelType
      BY <2>4, <3>1, DeviceTypes DEF VerityFails, TypeOK
    <3>3. RestType
      BY <1>d, <1>f, <2>4 DEF VerityFails
    <3>4. QED
      BY <1>1, <3>2, <3>3
  <2>5. CASE CreateVerityDevice
    <3>1. /\ frame.loop \in Loops /\ Loops \subseteq 0 .. NumLoops
          /\ autoclear \in SUBSET Loops
      BY <2>5, MountsAssumption DEF CreateVerityDevice, HandlerInv, Loops, TypeOK
    <3>2. KernelType
      BY <2>5, <3>1, DeviceTypes DEF CreateVerityDevice, devices, TypeOK
    <3>3. RestType
      BY <1>d, <2>5 DEF CreateVerityDevice
    <3>4. QED
      BY <1>1, <3>2, <3>3
  <2>6. CASE Mount
    <3>1. /\ LoopMount \in Entries /\ LoopEntry \in Entries
          /\ UNCHANGED <<files, devices, bound>>
          /\ mounts' = mounts \cup {LoopMount}
          /\ Mounted(LoopEntry) \/ CheckFails(LoopEntry)
      BY <2>6, MountIs, MountTypes DEF MountLabels
    <3>2. KernelType
      BY <3>1 DEF devices, TypeOK
    <3>3. RestType
      BY <1>m, <3>1
    <3>4. QED
      BY <1>1, <3>2, <3>3
  <2>7. CASE MountFails
    <3>1. frame.loop \in Loops
      BY <2>7 DEF MountFails, HandlerInv
    <3>2. KernelType
      BY <2>7, <3>1, DeviceTypes DEF MountFails, TypeOK
    <3>3. RestType
      BY <2>7 DEF MountFails, database, TypeOK
    <3>4. QED
      BY <1>1, <3>2, <3>3
  <2>8. CASE UnbindOld
    BY <1>1, <1>d, <1>u, <2>8 DEF UnbindOld
  <2>9. CASE BindNew
    <3>1. KernelType
      BY <2>9 DEF BindNew, devices, TypeOK
    <3>2. RestType
      <4>1. EntriesOf(frame.file) # {} /\ EntriesOf(frame.file) \subseteq Entries
        BY <2>9 DEF BindNew, EntriesOf, TypeOK
      <4>2. FirstOf(EntriesOf(frame.file)) \in Entries
        BY <4>1, FirstOfFacts
      <4>3. QED
        BY <2>9, <4>2 DEF BindNew, SetLatest, TypeOK
    <3>3. QED
      BY <1>1, <3>1, <3>2
  <2>10. CASE BindFails
    BY <1>1, <1>k, <2>10 DEF BindFails, database, TypeOK
  <2>11. CASE SetLatestAborts
    <3>1. KernelType
      BY <2>11 DEF SetLatestAborts, devices, TypeOK
    <3>2. RestType
      BY <2>11 DEF SetLatestAborts, ProcessDies, TypeOK
    <3>3. QED
      BY <1>1, <3>1, <3>2
  <2>12. CASE Unmount
    <3>1. PICK e \in frame.entry :
            /\ mounts' = {m \in mounts : m.point # e.point}
            /\ IF e.verity THEN DeleteDm(e.point, mounts' \cup bound) ELSE UNCHANGED dm
            /\ FreeUnused(autoclear \cup ({e.loop} \ {0}), dm', mounts' \cup bound)
            /\ spoiled' = IF dm'[e.point] = 0 THEN spoiled ELSE spoiled \cup {"dm"}
      BY <2>12 DEF Unmount
    <3>2. e \in Entries
      BY <2>12 DEF Unmount, HandlerInv
    <3>3. autoclear \cup ({e.loop} \ {0}) \in SUBSET Loops
      <4>1. e.loop \in 0 .. NumLoops
        BY <3>2 DEF Entries
      <4>2. e.loop = 0 \/ e.loop \in Loops
        BY <4>1, MountsAssumption DEF Loops
      <4>3. autoclear \subseteq Loops
        BY DEF TypeOK
      <4>4. QED
        BY <4>2, <4>3
    <3>4. KernelType
      BY <2>12, <3>1, <3>3, DeviceTypes DEF Unmount, TypeOK
    <3>5. RestType
      BY <1>d, <2>12, <3>1 DEF Unmount
    <3>6. QED
      BY <1>1, <3>4, <3>5
  <2>13. CASE UnmountFails
    BY <1>1, <1>k, <1>d, <2>13 DEF UnmountFails
  <2>14. CASE UnmountAfterHook
    <3>1. KernelType /\ db' \subseteq Entries /\ latest' \subseteq Entries
      BY <1>k, <1>p, <2>14 DEF UnmountAfterHook, database, TypeOK
    <3>2. QED
      BY <1>1, <2>14, <3>1 DEF UnmountAfterHook, TypeOK
  <2>15. CASE Populate
    <3>1. db' \subseteq Entries /\ latest' \subseteq Entries
      <4>1. \A m \in mounts : FirstOf({o \in mounts : o.file = m.file}) \in Entries
        <5>1. ASSUME NEW m \in mounts
              PROVE  FirstOf({o \in mounts : o.file = m.file}) \in Entries
          <6> DEFINE es == {o \in mounts : o.file = m.file}
          <6>1. es \subseteq Entries /\ es # {}
            BY DEF TypeOK
          <6>2. QED
            BY <6>1, FirstOfFacts
        <5>2. QED
          BY <5>1
      <4>2. QED
        BY <2>15, <4>1 DEF Populate, PopulateFromMounts, TypeOK
    <3>2. QED
      BY <1>1, <1>k, <2>15, <3>1 DEF Populate, TypeOK
  <2>16. CASE ScanPackagesDir \/ VisitPackage
    BY <1>1, <1>k, <1>d, <2>16 DEF ScanPackagesDir, VisitPackage
  <2>17. CASE ScanEnds
    BY <1>1, <1>k, <2>17 DEF ScanEnds, database, TypeOK
  <2>18. CASE UnmountDanglingMounts
    BY <1>1, <1>k, <1>r, <2>18 DEF UnmountDanglingMounts, database, TypeOK
  <2>19. CASE UnlinkDangling
    BY <1>1, <1>k, <2>19 DEF UnlinkDangling, database, TypeOK
  <2>20. QED
    BY <1>2, <2>1, <2>2, <2>3, <2>4, <2>5, <2>6, <2>7, <2>8, <2>9, <2>10, <2>11,
       <2>12, <2>13, <2>14, <2>15, <2>16, <2>17, <2>18, <2>19 DEF Step
<1>3. CASE Request
  <2>1. CASE \E f \in files : DeactivatePackage(f)
    BY <1>1, <1>p, <2>1 DEF DeactivatePackage, TypeOK
  <2>2. CASE \E f \in files : ActivatePackage(f) \/ PreinstallPackage(f) \/ VerifyPackage(f)
    BY <1>1, <1>k, <1>d, <2>2 DEF ActivatePackage, PreinstallPackage, VerifyPackage
  <2>3. CASE (\E f \in files : UnstagePackage(f)) \/ BootCompleted
    BY <1>1, <1>k, <2>3 DEF UnstagePackage, BootCompleted, database, TypeOK
  <2>4. QED
    BY <1>3, <2>1, <2>2, <2>3 DEF Request
<1>4. CASE RestartProcess
  BY <1>1, <1>k, <1>4 DEF RestartProcess, ProcessDies, TypeOK
<1>5. CASE RebootDevice
  BY <1>1, <1>5, MountsAssumption DEF RebootDevice, ProcessDies, TypeOK
<1>6. CASE UNCHANGED vars
  BY <1>1, <1>k, <1>d, <1>6 DEF vars, database
<1>7. QED
  BY <1>2, <1>3, <1>4, <1>5, <1>6 DEF Next

\* TypeOK of ApexMounts: in particular, no handler works without the file, the
\* loop device or the entry that its next step needs.
THEOREM MountsTypeCorrect == Spec => []TypeOK
<1>1. TypeOK /\ HandlerInv /\ [Next]_vars => TypeOK' /\ HandlerInv'
  BY StepType, NextHandler DEF HandlerNext
<1>2. QED
  BY InitType, <1>1, PTL DEF Spec

-----------------------------------------------------------------------------
(* The kernel's devices and mounts.                                        *)

\* What mount m is like: only a staged package is mounted temporarily, only a
\* flattened one without a loop device.
MountSound(m) ==
  /\ m.point = PointOf(m.file, m.point.tmp)
  /\ m.point.tmp => m.file.dir = "staging"
  /\ m.loop = 0 <=> m.file.dir = "flattened"
  /\ m.loop # 0 => loop[m.loop] = m.file

\* A mount point has one mount, a loop device one user; a device in use is set
\* up, and one that is marked to go is in use.
KernelInv ==
  /\ \A m, n \in mounts : m.point = n.point => m = n
  /\ \A m \in mounts \cup bound : MountSound(m)
  /\ \A m, n \in mounts \cup bound : m.loop = n.loop /\ m.loop # 0 => m = n
  /\ \A l \in autoclear : InUse(l, dm, mounts \cup bound)
  /\ \A p \in Points : dm[p] # 0 => loop[dm[p]] # NoFile
  /\ \A b, c \in bound : b.file.name = c.file.name => b = c

\* The loop device that a mount has set up has no user yet but the dm device
\* that was made on it; the name of a package is vacant before it is bound.
HeldInv ==
  /\ pc \in {"verity", "mount"} =>
       /\ loop[frame.loop] = frame.file
       /\ ~PointTaken /\ frame.file.dir # "flattened"
       /\ \A m \in mounts \cup bound : m.loop # frame.loop
  /\ pc = "verity" => \A p \in Points : dm[p] # frame.loop
  /\ pc = "mount" => \A p \in Points : dm[p] = frame.loop <=> MountOnVerity /\ p = Point
  /\ pc = "bind" => \A b \in bound : b.file.name # frame.file.name

LEMMA FreeUnusedFacts ==
  ASSUME TypeOK, NEW marked \in SUBSET Loops, NEW d, NEW ms, FreeUnused(marked, d, ms)
  PROVE  /\ \A l \in Loops : /\ InUse(l, d, ms) \/ l \notin marked => loop'[l] = loop[l]
                             /\ ~InUse(l, d, ms) /\ l \in marked => loop'[l] = NoFile
         /\ autoclear' \subseteq marked /\ \A l \in autoclear' : InUse(l, d, ms)
         /\ \A l \in marked : InUse(l, d, ms) => l \in autoclear'
BY DEF FreeUnused

\* Loop devices are freed that mounts' and dm' do not use.
LEMMA FreesKernel ==
  ASSUME TypeOK, TypeOK', KernelInv, mounts' \subseteq mounts, bound' \subseteq bound,
         NEW marked \in SUBSET Loops, FreeUnused(marked, dm', mounts' \cup bound'),
         \A p \in Points : dm'[p] # 0 => loop[dm'[p]] # NoFile
  PROVE  KernelInv'
<1> DEFINE ms == mounts' \cup bound'
<1>0. \A m \in ms : m \in Entries /\ m \in mounts \cup bound
  BY DEF TypeOK
<1>1. /\ \A l \in Loops : InUse(l, dm', ms) => loop'[l] = loop[l]
      /\ \A l \in autoclear' : InUse(l, dm', ms)
  BY FreeUnusedFacts
<1>2. ASSUME NEW m \in ms PROVE MountSound(m)'
  <2>1. MountSound(m) /\ m.loop \in 0 .. NumLoops
    BY <1>0, <1>2 DEF KernelInv, Entries
  <2>2. ASSUME m.loop # 0 PROVE loop'[m.loop] = loop[m.loop]
    <3>1. m.loop \in Loops
      BY <2>1, <2>2, MountsAssumption DEF Loops
    <3>2. InUse(m.loop, dm', ms)
      BY <1>2 DEF InUse
    <3>3. QED
      BY <1>1, <3>1, <3>2
  <2>3. QED
    BY <2>1, <2>2 DEF MountSound
<1>3. ASSUME NEW p \in Points, dm'[p] # 0 PROVE loop'[dm'[p]] # NoFile
  <2>1. dm'[p] \in 0 .. NumLoops
    BY DEF TypeOK
  <2>2. dm'[p] \in Loops
    BY <1>3, <2>1, MountsAssumption DEF Loops
  <2>3. InUse(dm'[p], dm', ms)
    BY DEF InUse
  <2>4. QED
    BY <1>1, <1>3, <2>2, <2>3
<1>4. \A m, n \in ms : m.loop = n.loop /\ m.loop # 0 => m = n
  BY <1>0 DEF KernelInv
<1>5. \A m, n \in mounts' : m.point = n.point => m = n
  BY DEF KernelInv
<1>6. \A b, c \in bound' : b.file.name = c.file.name => b = c
  BY DEF KernelInv
<1>7. \A l \in autoclear' : InUse(l, dm, mounts \cup bound)'
  BY <1>1 DEF InUse
<1>8. QED
  BY <1>2, <1>3, <1>4, <1>5, <1>6, <1>7 DEF KernelInv

\* A mount or a bind mount is added.
LEMMA MountKernel ==
  ASSUME TypeOK, TypeOK', KernelInv, UNCHANGED devices, NEW m,
         \/ /\ mounts' = mounts \cup {m} /\ UNCHANGED bound
            /\ \A n \in mounts : n.point # m.point
            /\ m.loop # 0 => \A n \in mounts \cup bound : n.loop # m.loop
            /\ MountSound(m)
         \/ /\ bound' = bound \cup {m} /\ UNCHANGED mounts /\ m \in mounts
            /\ \A b \in bound : b.file.name # m.file.name
  PROVE  KernelInv'
<1>1. /\ mounts \subseteq mounts' /\ bound \subseteq bound'
      /\ mounts' \cup bound' = mounts \cup bound \cup {m}
      /\ UNCHANGED <<loop, autoclear, dm>>
  BY DEF devices
<1>2. \A n \in mounts' \cup bound' : MountSound(n)'
  BY <1>1 DEF KernelInv, MountSound
<1>3. \A n, k \in mounts' \cup bound' : n.loop = k.loop /\ n.loop # 0 => n = k
  BY <1>1 DEF KernelInv
<1>4. \A l \in autoclear' : InUse(l, dm, mounts \cup bound)'
  BY <1>1 DEF KernelInv, InUse
<1>5. \A n, k \in mounts' : n.point = k.point => n = k
  BY DEF KernelInv
<1>6. \A b, c \in bound' : b.file.name = c.file.name => b = c
  BY DEF KernelInv
<1>7. QED
  BY <1>1, <1>2, <1>3, <1>4, <1>5, <1>6 DEF KernelInv

\* What is on a mount point is of the package.
LEMMA MountAtPoint ==
  ASSUME TypeOK, KernelInv, frame.file \in ApexFiles, NEW m \in mounts, m.point = Point
  PROVE  m.file.name = frame.file.name /\ m.file.version = frame.file.version
<1>1. m.point.name = m.file.name /\ m.point.version = m.file.version
  <2>1. MountSound(m)
    BY DEF KernelInv
  <2>2. QED
    BY <2>1 DEF MountSound, PointOf
<1>2. m.point.name = frame.file.name /\ m.point.version = frame.file.version
  BY DEF Point, PointOf
<1>3. QED
  BY <1>1, <1>2

LEMMA MountsAreSound ==
  ASSUME TypeOK, HandlerInv, HeldInv
  PROVE  /\ pc = "mount" => MountSound(LoopMount)
         /\ pc = "mountPackage" /\ frame.file.dir = "flattened" => MountSound(FlatMount)
<1>1. ASSUME pc \in MountLabels
      PROVE  /\ frame.file \in ApexFiles /\ Point = PointOf(frame.file, Point.tmp)
             /\ Point.tmp => frame.file.dir = "staging"
  <2>1. frame.file \in ApexFiles
    BY <1>1 DEF HandlerInv
  <2>2. Point.tmp = (frame.op = "verify")
    BY DEF Point, PointOf
  <2>3. QED
    BY <2>1, <2>2 DEF Point, HandlerInv
<1>2. ASSUME pc = "mount" PROVE MountSound(LoopMount)
  <2>1. /\ LoopMount.file = frame.file /\ LoopMount.loop = frame.loop
        /\ LoopMount.point = Point
    BY DEF LoopMount
  <2>2. frame.loop # 0 /\ loop[frame.loop] = frame.file /\ frame.file.dir # "flattened"
    BY <1>2, MountsAssumption DEF HandlerInv, HeldInv, Loops
  <2>3. QED
    BY <1>1, <1>2, <2>1, <2>2 DEF MountSound, MountLabels
<1>3. ASSUME pc = "mountPackage", frame.file.dir = "flattened"
      PROVE  MountSound(FlatMount)
  <2>1. FlatMount.file = frame.file /\ FlatMount.loop = 0 /\ FlatMount.point = Point
    BY DEF FlatMount
  <2>2. QED
    BY <1>1, <1>3, <2>1 DEF MountSound, MountLabels
<1>4. QED
  BY <1>2, <1>3

LEMMA KernelStays ==
  ASSUME KernelInv, UNCHANGED kernel PROVE KernelInv'
<1>1. UNCHANGED <<loop, autoclear, dm, mounts, bound>>
  BY DEF kernel
<1>2. \A m \in mounts \cup bound : MountSound(m) => MountSound(m)'
  BY <1>1 DEF MountSound
<1>3. \A l \in autoclear : InUse(l, dm, mounts \cup bound)'
  BY <1>1 DEF KernelInv, InUse
<1>4. QED
  BY <1>1, <1>2, <1>3 DEF KernelInv

LEMMA UnbindKernel ==
  ASSUME TypeOK, TypeOK', KernelInv, NEW name, Unbind(name)
  PROVE  KernelInv'
<1>1. /\ bound' \subseteq bound /\ UNCHANGED <<dm, mounts>>
      /\ FreeUnused(autoclear, dm, mounts \cup bound') /\ autoclear \in SUBSET Loops
  BY DEF Unbind, TypeOK
<1>2. \A p \in Points : dm'[p] # 0 => loop[dm'[p]] # NoFile
  BY <1>1 DEF KernelInv
<1>3. QED
  BY <1>1, <1>2, FreesKernel

LEMMA UnmountPackageKernel ==
  ASSUME TypeOK, TypeOK', KernelInv, NEW f, NEW allow, UnmountPackage(f, allow)
  PROVE  KernelInv'
BY KernelStays, UnbindKernel DEF UnmountPackage

LEMMA StepKernel ==
  ASSUME TypeOK, HandlerInv, KernelInv, HeldInv, [Next]_vars
  PROVE  KernelInv'
<1>0. TypeOK'
  BY StepType
<1>1. CASE MountFlattened
  <2>1. /\ pc = "mountPackage" /\ ~PointTaken /\ frame.file.dir = "flattened"
        /\ UNCHANGED <<devices, bound>>
        /\ mounts' = mounts \cup {FlatMount} \/ UNCHANGED mounts
    BY <1>1, MountIs
  <2>2. CASE UNCHANGED mounts
    BY <2>1, <2>2, KernelStays DEF kernel, devices
  <2>3. CASE mounts' = mounts \cup {FlatMount}
    <3>1. MountSound(FlatMount) /\ FlatMount.loop = 0 /\ FlatMount.point = Point
      BY <2>1, MountsAreSound DEF FlatMount
    <3>2. \A n \in mounts : n.point # FlatMount.point
      BY <2>1, <3>1 DEF PointTaken
    <3>3. QED
      BY <1>0, <2>1, <2>3, <3>1, <3>2, MountKernel
  <2>4. QED
    BY <2>1, <2>2, <2>3
<1>2. CASE CreateLoopDevice
  <2>1. UNCHANGED <<autoclear, dm, mounts, bound>>
    BY <1>2 DEF CreateLoopDevice
  <2>2. CASE UNCHANGED loop
    BY <2>1, <2>2, KernelStays DEF kernel
  <2>3. CASE \E l \in Loops : loop[l] = NoFile /\ loop' = [loop EXCEPT ![l] = frame.file]
    <3>1. PICK l \in Loops : loop[l] = NoFile /\ loop' = [loop EXCEPT ![l] = frame.file]
      BY <2>3
    <3>2. frame.file \in ApexFiles /\ \A k \in Loops : k # l => loop'[k] = loop[k]
      BY <1>2, <3>1 DEF CreateLoopDevice, HandlerInv, MountLabels, TypeOK
    <3>3. ASSUME NEW m \in mounts \cup bound PROVE MountSound(m)'
      <4>1. MountSound(m) /\ m.file \in ApexFiles /\ m.loop \in 0 .. NumLoops
        BY DEF KernelInv, TypeOK, Entries
      <4>2. ASSUME m.loop # 0 PROVE loop'[m.loop] = m.file
        <5>1. m.loop \in Loops /\ loop[m.loop] = m.file
          BY <4>1, <4>2, MountsAssumption DEF Loops, MountSound
        <5>2. m.loop # l
          BY <3>1, <4>1, <5>1, MountsAssumption
        <5>3. QED
          BY <3>2, <5>1, <5>2
      <4>3. QED
        BY <4>1, <4>2 DEF MountSound
    <3>4. ASSUME NEW p \in Points, dm[p] # 0 PROVE loop'[dm[p]] # NoFile
      <4>1. dm[p] \in 0 .. NumLoops /\ loop[dm[p]] # NoFile
        BY <3>4 DEF KernelInv, TypeOK
      <4>2. dm[p] \in Loops
        BY <3>4, <4>1, MountsAssumption DEF Loops
      <4>3. QED
        BY <3>1, <3>2, <4>1, <4>2
    <3>5. \A k \in autoclear : InUse(k, dm, mounts \cup bound)'
      BY <2>1 DEF KernelInv, InUse
    <3>6. QED
      BY <2>1, <3>3, <3>4, <3>5 DEF KernelInv
  <2>4. QED
    <3> DEFINE free == {l \in Loops : loop[l] = NoFile}
    <3>1. \/ UNCHANGED loop
          \/ Min(free) \in free /\ loop' = [loop EXCEPT ![Min(free)] = frame.file]
      BY <1>2, CreateLoopDeviceMoves
    <3>2. QED
      BY <2>2, <2>3, <3>1
<1>3. CASE VerityFails \/ MountFails
  <2>1. /\ frame.loop \in Loops
        /\ ClearLoop(frame.loop, dm', mounts \cup bound) /\ UNCHANGED <<mounts, bound>>
        /\ \A p \in Points : dm'[p] # 0 => dm'[p] = dm[p]
    <3>1. CASE VerityFails
      BY <3>1 DEF VerityFails, HandlerInv
    <3>2. CASE MountFails
      <4>1. dm' = dm \/ dm' = [dm EXCEPT ![Point] = 0]
        BY <3>2 DEF MountFails, DeleteDm
      <4>2. QED
        BY <3>2, <4>1 DEF MountFails, HandlerInv, TypeOK
    <3>3. QED
      BY <1>3, <3>1, <3>2
  <2>2. autoclear \cup {frame.loop} \in SUBSET Loops
    BY <2>1 DEF TypeOK
  <2>3. \A p \in Points : dm'[p] # 0 => loop[dm'[p]] # NoFile
    BY <2>1 DEF KernelInv
  <2>4. QED
    BY <1>0, <2>1, <2>2, <2>3, FreesKernel DEF ClearLoop
<1>4. CASE CreateVerityDevice
  <2>1. CASE UNCHANGED devices
    BY <1>4, <2>1, KernelStays DEF CreateVerityDevice, kernel, devices
  <2>2. CASE /\ dm' = [dm EXCEPT ![Point] = frame.loop]
             /\ FreeUnused(autoclear, dm', mounts \cup bound)
    <3>1. /\ loop[frame.loop] # NoFile /\ UNCHANGED <<mounts, bound>>
          /\ autoclear \in SUBSET Loops
      BY <1>4, MountsAssumption DEF CreateVerityDevice, HeldInv, HandlerInv,
         MountLabels, TypeOK
    <3>2. \A p \in Points : dm'[p] = dm[p] \/ dm'[p] = frame.loop
      BY <2>2 DEF TypeOK
    <3>3. \A p \in Points : dm'[p] # 0 => loop[dm'[p]] # NoFile
      BY <3>1, <3>2 DEF KernelInv
    <3>4. QED
      BY <1>0, <2>2, <3>1, <3>3, FreesKernel
  <2>3. QED
    BY <1>4, <2>1, <2>2 DEF CreateVerityDevice
<1>5. CASE Mount
  <2>1. /\ pc = "mount" /\ mounts' = mounts \cup {LoopMount}
        /\ UNCHANGED <<devices, bound>>
    BY <1>5, MountIs
  <2>2. /\ MountSound(LoopMount) /\ LoopMount.loop = frame.loop
        /\ LoopMount.point = Point
    BY <2>1, MountsAreSound DEF LoopMount
  <2>3. /\ \A n \in mounts : n.point # LoopMount.point
        /\ \A n \in mounts \cup bound : n.loop # LoopMount.loop
    BY <2>1, <2>2 DEF HeldInv, PointTaken
  <2>4. QED
    BY <1>0, <2>1, <2>2, <2>3, MountKernel
<1>6. CASE UnbindOld
  BY <1>0, <1>6, UnbindKernel DEF UnbindOld
<1>7. CASE BindNew \/ SetLatestAborts
  <2>1. PICK m \in mounts : m.point = Point /\ bound' = bound \cup {m}
    BY <1>7 DEF BindNew, SetLatestAborts
  <2>2. pc = "bind" /\ frame.file \in ApexFiles /\ UNCHANGED <<devices, mounts>>
    BY <1>7 DEF BindNew, SetLatestAborts, HandlerInv
  <2>3. \A b \in bound : b.file.name # m.file.name
    BY <2>1, <2>2, MountAtPoint DEF HeldInv
  <2>4. QED
    BY <1>0, <2>1, <2>2, <2>3, MountKernel
<1>8. CASE Unmount
  <2>1. PICK e \in frame.entry :
          /\ mounts' = {m \in mounts : m.point # e.point}
          /\ IF e.verity THEN DeleteDm(e.point, mounts' \cup bound) ELSE UNCHANGED dm
          /\ FreeUnused(autoclear \cup ({e.loop} \ {0}), dm', mounts' \cup bound)
    BY <1>8 DEF Unmount
  <2>2. e \in Entries /\ UNCHANGED bound
    BY <1>8 DEF Unmount, HandlerInv
  <2>3. autoclear \cup ({e.loop} \ {0}) \in SUBSET Loops
    <3>1. e.loop \in 0 .. NumLoops /\ autoclear \subseteq Loops
      BY <2>2 DEF Entries, TypeOK
    <3>2. e.loop = 0 \/ e.loop \in Loops
      BY <3>1, MountsAssumption DEF Loops
    <3>3. QED
      BY <3>1, <3>2
  <2>4. dm' = dm \/ dm' = [dm EXCEPT ![e.point] = 0]
    BY <2>1 DEF DeleteDm
  <2>5. \A p \in Points : dm'[p] # 0 => loop[dm'[p]] # NoFile
    BY <2>4 DEF KernelInv, TypeOK
  <2>6. QED
    BY <1>0, <2>1, <2>2, <2>3, <2>5, FreesKernel
<1>9. CASE UnmountAfterHook \/ \E f \in files : DeactivatePackage(f)
  BY <1>0, <1>9, KernelStays, UnmountPackageKernel DEF UnmountAfterHook, DeactivatePackage
<1>10. CASE RebootDevice
  <2>1. /\ mounts' = {} /\ bound' = {} /\ autoclear' = {}
        /\ \A p \in Points : dm'[p] = 0
    BY <1>10 DEF RebootDevice
  <2>2. QED
    BY <2>1 DEF KernelInv
<1>11. ASSUME UNCHANGED kernel PROVE KernelInv'
  BY <1>11, KernelStays
<1>12. CASE \/ MountPointTaken \/ BindFails \/ UnmountFails \/ Populate
            \/ ScanPackagesDir \/ VisitPackage \/ ScanEnds \/ UnmountDanglingMounts
            \/ UnlinkDangling \/ RestartProcess \/ BootCompleted \/ UNCHANGED vars
  BY <1>11, <1>12 DEF MountPointTaken, BindFails, UnmountFails, Populate,
     ScanPackagesDir, VisitPackage, ScanEnds, UnmountDanglingMounts, UnlinkDangling,
     RestartProcess, BootCompleted, vars
<1>13. CASE \E f \in files : \/ ActivatePackage(f) \/ PreinstallPackage(f)
                             \/ VerifyPackage(f) \/ UnstagePackage(f)
  BY <1>11, <1>13 DEF ActivatePackage, PreinstallPackage, VerifyPackage, UnstagePackage
<1>14. QED
  BY <1>1, <1>2, <1>3, <1>4, <1>5, <1>6, <1>7, <1>8, <1>9, <1>10, <1>12, <1>13
     DEF Next, Step, Request

\* The labels that a step can lead to.
Resting == {"idle", "visit", "dangling"}

LEMMA DoneRests ==
  ASSUME TypeOK, Done PROVE pc' \in Resting
BY DoneOver DEF Over, Resting

LEMMA MountedReaches ==
  ASSUME TypeOK, HandlerInv, pc \in MountLabels, NEW entry \in Entries,
         Mounted(entry) \/ CheckFails(entry)
  PROVE  pc' \in Resting \cup {"unmount", "hook", "unbind", "populate"}
<1>1. CASE Mounted(entry)
  BY <1>1, MountedMoves DEF Stays, Over, Resting
<1>2. CASE CheckFails(entry)
  BY <1>2 DEF CheckFails, ProcessDies
<1>3. QED
  BY <1>1, <1>2

LEMMA Reaches ==
  ASSUME TypeOK, HandlerInv
  PROVE  /\ (\/ MountPointTaken \/ VerityFails \/ MountFails \/ BindNew \/ BindFails
             \/ UnlinkDangling)
              => pc' \in Resting
         /\ MountFlattened \/ Mount
              => pc' \in Resting \cup {"unmount", "hook", "unbind", "populate"}
         /\ CreateLoopDevice => pc' \in Resting \cup {"verity", "mountPackage"}
         /\ CreateVerityDevice => pc' = "mount"
         /\ UnbindOld => pc' = "bind"
         /\ SetLatestAborts \/ RestartProcess \/ RebootDevice => pc' = "populate"
         /\ Unmount \/ UnmountFails => pc' \in Resting \cup {"unlink"}
         /\ UnmountAfterHook => pc' \in Resting \cup {"unmount"}
         /\ Populate => pc' = "scan"
         /\ ScanPackagesDir => pc' = "visit"
         /\ VisitPackage \/ (\E f \in files : ActivatePackage(f))
              => pc' \in Resting \cup {"mountPackage", "unbind"}
         /\ ScanEnds => pc' \in {"scan", "idle"}
         /\ UnmountDanglingMounts => pc' \in {"unmount", "idle"}
         /\ (\E f \in files : DeactivatePackage(f)) => pc' = "unmount"
         /\ (\E f \in files : PreinstallPackage(f) \/ VerifyPackage(f))
              => pc' = "mountPackage"
         /\ (\E f \in files : UnstagePackage(f)) => pc' = "idle"
         /\ BootCompleted => pc' = "dangling"
<1>1. (\/ MountPointTaken \/ VerityFails \/ MountFails \/ BindNew \/ BindFails
       \/ UnlinkDangling)
        => pc' \in Resting
  BY DoneRests DEF MountPointTaken, VerityFails, MountFails, BindNew, BindFails,
     UnlinkDangling, Fails
<1>2. MountFlattened \/ Mount
        => pc' \in Resting \cup {"unmount", "hook", "unbind", "populate"}
  BY MountIs, MountTypes, MountedReaches, DoneRests DEF Fails, MountLabels
<1>3. CreateLoopDevice => pc' \in Resting \cup {"verity", "mountPackage"}
  BY CreateLoopDeviceMoves, DoneRests DEF Fails
<1>4. Unmount \/ UnmountFails => pc' \in Resting \cup {"unlink"}
  BY DoneRests DEF Unmount, UnmountFails, AfterUnmount
<1>5. UnmountAfterHook => pc' \in Resting \cup {"unmount"}
  BY DoneRests DEF UnmountAfterHook, UnmountPackage
<1>6. ASSUME NEW op \in Activations, NEW f \in ApexFiles,
             NEW todo \in SUBSET (ApexFiles \cup Entries),
             ActivatePackageImpl(op, f, todo)
      PROVE  pc' \in Resting \cup {"mountPackage", "unbind"}
  BY <1>6, ActivateMoves DEF Over, Resting
<1>7. VisitPackage => pc' \in Resting \cup {"mountPackage", "unbind"}
  <2>1. ASSUME VisitPackage PROVE pc' \in Resting \cup {"mountPackage", "unbind"}
    <3>1. PICK f \in frame.todo : ActivatePackageImpl(frame.op, f, frame.todo \ {f})
      BY <2>1 DEF VisitPackage
    <3>2. /\ frame.op \in Activations /\ f \in ApexFiles
          /\ frame.todo \ {f} \in SUBSET (ApexFiles \cup Entries)
      BY <2>1 DEF VisitPackage, HandlerInv, Scanning, Activations, TypeOK
    <3>3. QED
      BY <1>6, <3>1, <3>2
  <2>2. QED
    BY <2>1
<1>8. (\E f \in files : ActivatePackage(f)) => pc' \in Resting \cup {"mountPackage", "unbind"}
  <2>1. ASSUME NEW f \in files, ActivatePackage(f)
        PROVE  pc' \in Resting \cup {"mountPackage", "unbind"}
    <3>1. /\ ActivatePackageImpl("activate", f, {}) /\ f \in ApexFiles
          /\ "activate" \in Activations /\ {} \in SUBSET (ApexFiles \cup Entries)
      BY <2>1 DEF ActivatePackage, Activations, TypeOK
    <3>2. QED
      BY <1>6, <3>1
  <2>2. QED
    BY <2>1
<1>9. /\ CreateVerityDevice => pc' = "mount"
      /\ UnbindOld => pc' = "bind"
      /\ SetLatestAborts \/ RestartProcess \/ RebootDevice => pc' = "populate"
      /\ Populate => pc' = "scan"
      /\ ScanPackagesDir => pc' = "visit"
      /\ ScanEnds => pc' \in {"scan", "idle"}
      /\ UnmountDanglingMounts => pc' \in {"unmount", "idle"}
  BY DEF CreateVerityDevice, UnbindOld, SetLatestAborts, RestartProcess, RebootDevice,
     ProcessDies, Populate, ScanPackagesDir, ScanEnds, UnmountDanglingMounts
<1>10. /\ (\E f \in files : DeactivatePackage(f)) => pc' = "unmount"
       /\ (\E f \in files : PreinstallPackage(f) \/ VerifyPackage(f))
            => pc' = "mountPackage"
       /\ (\E f \in files : UnstagePackage(f)) => pc' = "idle"
       /\ BootCompleted => pc' = "dangling"
  BY DEF DeactivatePackage, UnmountPackage, PreinstallPackage, VerifyPackage, Call,
     UnstagePackage, Serving, BootCompleted
<1>11. QED
  BY <1>1, <1>2, <1>3, <1>4, <1>5, <1>7, <1>8, <1>9, <1>10

\* Few steps lead to a label where a device or a name is held.
LEMMA HoldingSteps ==
  ASSUME TypeOK, HandlerInv, [Next]_vars
  PROVE  /\ pc' = "verity" => CreateLoopDevice \/ UNCHANGED vars
         /\ pc' = "mount" => CreateVerityDevice \/ UNCHANGED vars
         /\ pc' = "bind" => UnbindOld \/ UNCHANGED vars
<1>1. CASE Request
  <2>1. pc' \notin {"verity", "mount", "bind"}
    BY <1>1, Reaches DEF Request, Resting
  <2>2. QED
    BY <2>1
<1>2. CASE Step
  <2>1. CASE CreateLoopDevice \/ CreateVerityDevice \/ UnbindOld
    BY <2>1, Reaches DEF Resting
  <2>2. CASE ~(CreateLoopDevice \/ CreateVerityDevice \/ UnbindOld)
    <3>1. pc' \notin {"verity", "mount", "bind"}
      <4>1. CASE \/ MountPointTaken \/ VerityFails \/ MountFails \/ BindNew
                 \/ BindFails \/ UnlinkDangling
        <5>1. pc' \in Resting
          BY <4>1, Reaches
        <5>2. QED
          BY <5>1 DEF Resting
      <4>m. CASE MountFlattened \/ Mount
        BY <4>m, Reaches DEF Resting
      <4>2. CASE \/ SetLatestAborts \/ Unmount \/ UnmountFails \/ UnmountAfterHook
                 \/ Populate \/ ScanPackagesDir
        BY <4>2, Reaches DEF Resting
      <4>3. CASE VisitPackage \/ ScanEnds \/ UnmountDanglingMounts
        BY <4>3, Reaches DEF Resting
      <4>4. QED
        BY <1>2, <2>2, <4>1, <4>m, <4>2, <4>3 DEF Step
    <3>2. QED
      BY <3>1
  <2>3. QED
    BY <2>1, <2>2
<1>3. CASE RestartProcess \/ RebootDevice
  BY <1>3, Reaches
<1>4. QED
  BY <1>1, <1>2, <1>3 DEF Next

LEMMA StepHeld ==
  ASSUME TypeOK, HandlerInv, KernelInv, HeldInv, [Next]_vars
  PROVE  HeldInv'
<1>1. CASE UNCHANGED vars
  <2>1. UNCHANGED <<pc, frame, loop, dm, mounts, bound>>
    BY <1>1 DEF vars, kernel
  <2>2. UNCHANGED <<PointTaken, Point, MountOnVerity>>
    BY <2>1 DEF PointTaken, Point, MountOnVerity
  <2>3. QED
    BY <2>1, <2>2 DEF HeldInv
<1>2. CASE CreateLoopDevice /\ pc' = "verity"
  <2> DEFINE free == {l \in Loops : loop[l] = NoFile}  l == Min(free)
  <2>1. /\ l \in free /\ loop' = [loop EXCEPT ![l] = frame.file]
        /\ frame'.loop = l /\ frame'.file = frame.file /\ frame'.op = frame.op
    BY <1>2, CreateLoopDeviceMoves, DoneRests DEF Fails, Has, Resting
  <2> HIDE DEF l
  <2>2. /\ UNCHANGED <<dm, mounts, bound>> /\ ~PointTaken
        /\ frame.file.dir # "flattened"
    BY <1>2 DEF CreateLoopDevice
  <2>3. UNCHANGED Point
    BY <2>1 DEF Point
  <2>4. l \in Loops /\ loop[l] = NoFile /\ loop'[l] = frame.file /\ l # 0
    BY <2>1, MountsAssumption DEF TypeOK, Loops
  <2>5. \A m \in mounts \cup bound : m.loop # l
    <3>1. ASSUME NEW m \in mounts \cup bound, m.loop = l PROVE FALSE
      <4>1. loop[l] = m.file /\ m.file \in ApexFiles
        BY <2>4, <3>1 DEF KernelInv, MountSound, TypeOK, Entries
      <4>2. QED
        BY <2>4, <4>1, MountsAssumption
    <3>2. QED
      BY <3>1
  <2>6. \A p \in Points : dm[p] # l
    BY <2>4 DEF KernelInv
  <2>7. ~PointTaken'
    BY <2>2, <2>3 DEF PointTaken
  <2>8. QED
    BY <1>2, <2>1, <2>2, <2>4, <2>5, <2>6, <2>7 DEF HeldInv
<1>3. CASE CreateVerityDevice /\ pc' = "mount"
  <2>1. /\ pc = "verity" /\ UNCHANGED <<mounts, bound, frame>>
        /\ loop[frame.loop] = frame.file /\ frame.loop \in Loops
        /\ ~PointTaken /\ frame.file.dir # "flattened"
        /\ \A m \in mounts \cup bound : m.loop # frame.loop
        /\ \A p \in Points : dm[p] # frame.loop
        /\ frame.file \in ApexFiles /\ frame.file # NoFile
    BY <1>3, MountsAssumption DEF CreateVerityDevice, HeldInv, HandlerInv, MountLabels
  <2>2. UNCHANGED <<Point, PointTaken, MountOnVerity>>
    BY <2>1 DEF Point, PointTaken, MountOnVerity
  <2>3. CASE ~MountOnVerity
    <3>1. UNCHANGED <<loop, dm>>
      BY <1>3, <2>3 DEF CreateVerityDevice, devices
    <3>2. QED
      BY <1>3, <2>1, <2>2, <2>3, <3>1 DEF HeldInv
  <2>4. CASE MountOnVerity
    <3>1. /\ dm' = [dm EXCEPT ![Point] = frame.loop] /\ Point \in Points
          /\ FreeUnused(autoclear, dm', mounts \cup bound)
          /\ autoclear \in SUBSET Loops
      BY <1>3, <2>1, <2>4, PointIsOfFile DEF CreateVerityDevice, TypeOK
    <3>2. \A p \in Points : dm'[p] = frame.loop <=> p = Point
      BY <2>1, <3>1 DEF TypeOK
    <3>3. loop'[frame.loop] = frame.file
      <4>1. InUse(frame.loop, dm', mounts \cup bound)
        BY <3>1, <3>2 DEF InUse
      <4>2. QED
        BY <2>1, <3>1, <4>1, FreeUnusedFacts
    <3>4. QED
      BY <1>3, <2>1, <2>2, <2>4, <3>2, <3>3 DEF HeldInv
  <2>5. QED
    BY <2>3, <2>4
<1>4. CASE UnbindOld /\ pc' = "bind"
  <2>1. \A b \in bound' : b.file.name # frame'.file.name
    BY <1>4 DEF UnbindOld, Unbind
  <2>2. QED
    BY <1>4, <2>1 DEF HeldInv
<1>5. CASE pc' \notin {"verity", "mount", "bind"}
  BY <1>5 DEF HeldInv
<1>6. QED
  BY <1>1, <1>2, <1>3, <1>4, <1>5, HoldingSteps

-----------------------------------------------------------------------------
(* The database and the mounts.                                            *)

\* Entry e of the database is of mount m.
IsOf(e, m) == m.file = e.file /\ m.loop = e.loop /\ m.point = e.point

\* No restart has found a file mounted twice.
Once == "twice" \notin spoiled

\* The flags of the database.
LatestInv ==
  /\ latest \subseteq db
  /\ \A e, o \in latest : e.file.name = o.file.name => e = o
  /\ pc = "populate" => db = {}

\* The entries are of different files; a file that is being mounted has none,
\* and one that is being unmounted none any more.
EntriesInv ==
  /\ \A e \in db : \E m \in mounts : IsOf(e, m)
  /\ \A e, o \in db : e.file = o.file => e = o
  /\ pc \in MountLabels /\ frame.op # "verify" => \A e \in db : e.file # frame.file
  /\ pc = "unmount" => \A e \in frame.entry :
       /\ \A o \in db : o.point # e.point
       /\ \A m \in mounts : m.point = e.point => IsOf(e, m)
  /\ frame.op = "dangling" => frame.todo \subseteq db \ latest

DatabaseInv ==
  /\ LatestInv
  /\ Once => EntriesInv /\ "check" \notin spoiled

\* RemoveMountedApex takes the only entry.
LEMMA RemovesOne ==
  ASSUME TypeOK, KernelInv, LatestInv, EntriesInv, NEW e \in db,
         RemoveMountedApex(e.file)
  PROVE  /\ EntriesOf(e.file) = {e} /\ db' = db \ {e} /\ latest' = latest \ {e}
         /\ LastOf(EntriesOf(e.file)) = e
         /\ \A o \in db' : o.point # e.point
         /\ \A m \in mounts : m.point = e.point => IsOf(e, m)
<1>1. EntriesOf(e.file) = {e} /\ e \in Entries /\ e.loop \in Nat
  BY MountsAssumption DEF EntriesInv, EntriesOf, TypeOK, Entries
<1>2. FirstOf(EntriesOf(e.file)) = e /\ LastOf(EntriesOf(e.file)) = e
  BY <1>1, OneEntry
<1>3. db' = db \ {e} /\ latest' = latest \ {e}
  BY <1>1, <1>2 DEF RemoveMountedApex
<1>4. ASSUME NEW m \in mounts, m.point = e.point PROVE IsOf(e, m)
  <2>1. PICK n \in mounts : IsOf(e, n)
    BY DEF EntriesInv
  <2>2. n = m
    BY <1>4, <2>1 DEF KernelInv, IsOf
  <2>3. QED
    BY <2>1, <2>2
<1>5. ASSUME NEW o \in db', o.point = e.point PROVE FALSE
  <2>1. PICK n \in mounts : IsOf(o, n)
    BY <1>3 DEF EntriesInv
  <2>2. IsOf(e, n)
    BY <1>4, <1>5, <2>1 DEF IsOf
  <2>3. o.file = e.file /\ o \in db
    BY <1>3, <2>1, <2>2 DEF IsOf
  <2>5. o = e
    BY <2>3 DEF EntriesInv
  <2>4. QED
    BY <1>3, <2>5
<1>6. QED
  BY <1>1, <1>2, <1>3, <1>4, <1>5

\* The checks of AddMountedApex pass.
LEMMA ChecksAlwaysPass ==
  ASSUME TypeOK, KernelInv, LatestInv, EntriesInv, NEW entry,
         \A m \in mounts : m.point # entry.point,
         entry.loop # 0 => \A m \in mounts : m.loop # entry.loop
  PROVE  ChecksPass(db \cup {entry})
<1>1. \A e \in db : /\ e.point # entry.point
                    /\ e.loop # entry.loop \/ e.loop = 0
  BY DEF EntriesInv, IsOf
<1>2. ASSUME NEW e \in db, NEW o \in db, e # o
      PROVE  /\ e.loop # o.loop \/ e.loop = 0
             /\ e.point # o.point
  <2>1. PICK m \in mounts : IsOf(e, m)
    BY DEF EntriesInv
  <2>2. PICK n \in mounts : IsOf(o, n)
    BY DEF EntriesInv
  <2>3. m # n
    BY <1>2, <2>1, <2>2 DEF EntriesInv, IsOf
  <2>4. QED
    BY <2>1, <2>2, <2>3 DEF KernelInv, IsOf
<1>3. ASSUME NEW e \in db \cup {entry}, NEW o \in db \cup {entry}, e # o
      PROVE  /\ e.loop # o.loop \/ e.loop = 0
             /\ ~(e.verity /\ o.verity /\ e.point = o.point)
  BY <1>1, <1>2, <1>3
<1>4. QED
  BY <1>3 DEF ChecksPass, LatestInv

\* ... so they stop the process only when a file was mounted twice.
LEMMA ChecksHold ==
  ASSUME TypeOK, HandlerInv, KernelInv, HeldInv, DatabaseInv, Once
  PROVE  /\ Mount => ~CheckFails(LoopEntry)
         /\ MountFlattened => ~CheckFails(FlatMount)
<1>1. ASSUME Mount PROVE ~CheckFails(LoopEntry)
  <2>1. /\ LoopEntry.point = Point /\ LoopEntry.loop = frame.loop
        /\ pc = "mount"
    BY <1>1, MountIs, MountTypes DEF MountLabels
  <2>2. ChecksPass(db \cup {LoopEntry})
    BY <2>1, ChecksAlwaysPass DEF HeldInv, PointTaken, DatabaseInv
  <2>3. QED
    BY <2>2 DEF CheckFails
<1>2. ASSUME MountFlattened PROVE ~CheckFails(FlatMount)
  <2>1. FlatMount.point = Point /\ FlatMount.loop = 0 /\ ~PointTaken
    BY <1>2, MountIs DEF FlatMount
  <2>2. ChecksPass(db \cup {FlatMount})
    BY <2>1, ChecksAlwaysPass DEF PointTaken, DatabaseInv
  <2>3. QED
    BY <2>2 DEF CheckFails
<1>3. QED
  BY <1>1, <1>2

\* The steps that change the database, or forget it.
LEMMA DatabaseSteps ==
  ASSUME TypeOK, HandlerInv, [Next]_vars
  PROVE  \/ ProcessDies /\ ~UNCHANGED vars
         \/ UNCHANGED database /\ (pc' = "populate" => pc = "populate")
         \/ Mount /\ Mounted(LoopEntry)
         \/ /\ MountFlattened /\ Mounted(FlatMount)
            /\ mounts' = mounts \cup {FlatMount}
         \/ BindNew \/ Populate
         \/ \E f \in ApexFiles : RemoveMountedApex(f) /\ pc' = "unmount"
<1>0. files \subseteq ApexFiles /\ Resting \cap {"populate"} = {}
  BY DEF TypeOK, Resting
<1>1. CASE UNCHANGED vars
  BY <1>1 DEF vars, database
<1>2. CASE ~UNCHANGED vars /\ ProcessDies
  BY <1>2
<1>3. CASE Mount \/ MountFlattened
  <2>1. pc \in MountLabels /\ pc # "populate"
    BY <1>3, MountIs DEF MountLabels
  <2>2. ASSUME NEW entry, CheckFails(entry) PROVE ProcessDies /\ ~UNCHANGED vars
    BY <2>1, <2>2 DEF CheckFails, ProcessDies, vars
  <2>3. ASSUME Fails, UNCHANGED database
        PROVE  UNCHANGED database /\ (pc' = "populate" => pc = "populate")
    BY <2>3, DoneRests DEF Fails, Resting
  <2>4. CASE Mount
    BY <2>2, <2>4, MountIs
  <2>5. CASE MountFlattened
    BY <2>2, <2>3, <2>5, MountIs
  <2>6. QED
    BY <1>3, <2>4, <2>5
<1>4. CASE BindNew \/ Populate
  BY <1>4
<1>5. CASE \/ MountPointTaken \/ CreateLoopDevice \/ VerityFails \/ CreateVerityDevice
           \/ MountFails \/ UnbindOld
  <2>1. pc' # "populate"
    BY <1>5, Reaches DEF Resting
  <2>2. UNCHANGED database
    BY <1>5 DEF MountPointTaken, CreateLoopDevice, VerityFails, CreateVerityDevice,
       MountFails, UnbindOld
  <2>3. QED
    BY <2>1, <2>2
<1>6. CASE \/ BindFails \/ Unmount \/ UnmountFails \/ ScanPackagesDir \/ VisitPackage
           \/ ScanEnds \/ UnlinkDangling
  <2>1. pc' # "populate"
    BY <1>6, Reaches DEF Resting
  <2>2. UNCHANGED database
    BY <1>6 DEF BindFails, Unmount, UnmountFails, ScanPackagesDir, VisitPackage,
       ScanEnds, UnlinkDangling
  <2>3. QED
    BY <2>1, <2>2
<1>7. CASE BootCompleted \/ \E f \in files : \/ ActivatePackage(f) \/ PreinstallPackage(f)
                                            \/ VerifyPackage(f) \/ UnstagePackage(f)
  <2>1. pc' # "populate"
    BY <1>7, Reaches DEF Resting, MountLabels
  <2>2. UNCHANGED database
    BY <1>7 DEF BootCompleted, ActivatePackage, PreinstallPackage, VerifyPackage,
       UnstagePackage
  <2>3. QED
    BY <2>1, <2>2
<1>8. CASE UnmountAfterHook
  <2>1. CASE Done /\ UNCHANGED database
    BY <2>1, DoneRests DEF Resting
  <2>2. CASE UnmountPackage(frame.file, FALSE)
    BY <1>8, <2>2 DEF UnmountPackage, UnmountAfterHook, HandlerInv
  <2>3. QED
    BY <1>8, <2>1, <2>2 DEF UnmountAfterHook
<1>9. CASE \E f \in files : DeactivatePackage(f)
  BY <1>0, <1>9 DEF DeactivatePackage, UnmountPackage
<1>10. CASE UnmountDanglingMounts
  <2>1. CASE pc' = "idle" /\ UNCHANGED database
    BY <2>1
  <2>2. ASSUME NEW e \in frame.todo, RemoveMountedApex(e.file), pc' = "unmount"
        PROVE  \E f \in ApexFiles : RemoveMountedApex(f) /\ pc' = "unmount"
    <3>1. e.file \in ApexFiles
      BY <1>10, <2>2 DEF UnmountDanglingMounts, HandlerInv, Entries
    <3>2. QED
      BY <2>2, <3>1
  <2>3. QED
    BY <1>10, <2>1, <2>2 DEF UnmountDanglingMounts
<1>11. CASE SetLatestAborts \/ RestartProcess \/ RebootDevice
  BY <1>1, <1>2, <1>11 DEF SetLatestAborts, RestartProcess, RebootDevice
<1>12. QED
  BY <1>1, <1>3, <1>4, <1>5, <1>6, <1>7, <1>8, <1>9, <1>10, <1>11 DEF Next, Step, Request

LEMMA StepLatest ==
  ASSUME TypeOK, HandlerInv, KernelInv, LatestInv, [Next]_vars
  PROVE  LatestInv'
<1>1. CASE ProcessDies
  BY <1>1 DEF ProcessDies, LatestInv
<1>2. CASE UNCHANGED database /\ (pc' = "populate" => pc = "populate")
  BY <1>2 DEF database, LatestInv
<1>3. CASE \E entry : Mounted(entry) /\ (Mount \/ MountFlattened)
  <2>1. UNCHANGED latest /\ db \subseteq db'
    BY <1>3 DEF Mounted
  <2>2. pc' # "populate" \/ ProcessDies
    BY <1>3, MountIs, MountedMoves, MountTypes, DoneRests
    DEF CheckFails, Fails, Resting, Stays, Over, MountLabels
  <2>3. QED
    BY <1>1, <2>1, <2>2 DEF LatestInv
<1>4. CASE BindNew
  <2> DEFINE f == frame.file  e == FirstOf(EntriesOf(f))
  <2>1. EntriesOf(f) # {} /\ EntriesOf(f) \subseteq Entries /\ UNCHANGED db
    BY <1>4 DEF BindNew, EntriesOf, TypeOK
  <2>2. e \in EntriesOf(f)
    BY <2>1, FirstOfFacts
  <2> HIDE DEF e
  <2>3. e \in db /\ e.file = f
    BY <2>2 DEF EntriesOf
  <2>4. latest' = {e} \cup {o \in latest : o.file.name # f.name}
    BY <1>4 DEF BindNew, SetLatest, e
  <2>5. pc' # "populate"
    BY <1>4, Reaches DEF Resting
  <2>6. QED
    BY <2>1, <2>3, <2>4, <2>5 DEF LatestInv
<1>5. CASE Populate
  <2> DEFINE top == {m \in mounts :
         /\ ParsedVersion(m.point) > 0
         /\ \A o \in mounts : o.file.name = m.file.name
              => ParsedVersion(o.point) <= ParsedVersion(m.point)}
             first(m) == FirstOf({o \in mounts : o.file = m.file})
  <2>1. db' = mounts /\ latest' = {first(m) : m \in top} /\ pc' = "scan"
    BY <1>5 DEF Populate, PopulateFromMounts
  <2>2. ASSUME NEW m \in mounts PROVE first(m) \in mounts /\ first(m).file = m.file
    <3>1. /\ {o \in mounts : o.file = m.file} \subseteq Entries
          /\ {o \in mounts : o.file = m.file} # {}
      BY DEF TypeOK
    <3>2. first(m) \in {o \in mounts : o.file = m.file}
      BY <3>1, FirstOfFacts
    <3>3. QED
      BY <3>2
  <2>3. ASSUME NEW m \in top, NEW n \in top, m.file.name = n.file.name
        PROVE  m = n
    <3>1. /\ ParsedVersion(m.point) <= ParsedVersion(n.point)
          /\ ParsedVersion(n.point) <= ParsedVersion(m.point)
          /\ ParsedVersion(m.point) > 0 /\ ParsedVersion(n.point) > 0
      BY <2>3
    <3>2. m.point \in Points /\ n.point \in Points
      BY DEF TypeOK, Entries
    <3>3. m.point.version \in Nat /\ n.point.version \in Nat /\ IntMax \in Nat
      BY <3>2, MountsAssumption DEF Points, Versions
    <3>4. /\ ~m.point.tmp /\ ~n.point.tmp
          /\ m.point.version = n.point.version
      BY <3>1, <3>3 DEF ParsedVersion
    <3>5. /\ m.point.name = m.file.name /\ n.point.name = n.file.name
          /\ m.point.tmp = FALSE /\ n.point.tmp = FALSE
      <4>1. MountSound(m) /\ MountSound(n)
        BY DEF KernelInv
      <4>2. m.point.name = m.file.name /\ n.point.name = n.file.name
        BY <4>1 DEF MountSound, PointOf
      <4>3. QED
        BY <3>2, <3>4, <4>2 DEF Points
    <3>6. m.point = n.point
      BY <2>3, <3>2, <3>4, <3>5 DEF Points
    <3>7. QED
      BY <3>6 DEF KernelInv
  <2> HIDE DEF top, first
  <2>4. top \subseteq mounts
    BY DEF top
  <2>5. \A e, o \in latest' : e.file.name = o.file.name => e = o
    BY <2>1, <2>2, <2>3, <2>4
  <2>6. latest' \subseteq db'
    BY <2>1, <2>2, <2>4
  <2>7. QED
    BY <2>1, <2>5, <2>6 DEF LatestInv
<1>6. ASSUME NEW f, RemoveMountedApex(f), pc' = "unmount" PROVE LatestInv'
  BY <1>6 DEF RemoveMountedApex, LatestInv
<1>7. QED
  BY <1>1, <1>2, <1>3, <1>4, <1>5, <1>6, DatabaseSteps

LEMMA OverKeeps ==
  ASSUME NEW op, NEW todo, Over(op, todo)
  PROVE  pc' \in Resting /\ (frame'.op = "dangling" => op = "dangling" /\ frame'.todo = todo)
BY EmptyFrameFields DEF Over, Has, Resting

\* A handler that neither mounts nor unmounts next keeps EntriesInv, as long as
\* nothing is unmounted that has an entry.
LEMMA EntriesRest ==
  ASSUME EntriesInv, HandlerInv', UNCHANGED db,
         \A e \in db : \A m \in mounts : IsOf(e, m) => m \in mounts',
         pc' \in Labels, pc' \notin MountLabels \cup {"unmount"},
         pc' \in {"dangling", "unlink"} =>
           frame.op = "dangling" /\ frame'.todo = frame.todo /\ UNCHANGED latest
  PROVE  EntriesInv'
<1>1. \A e \in db' : \E m \in mounts' : IsOf(e, m)
  BY DEF EntriesInv
<1>2. frame'.op = "dangling" => pc' \in {"dangling", "unlink"}
  <2>1. EmptyFrame.op = "none"
    BY DEF EmptyFrame
  <2>2. QED
    BY <2>1 DEF HandlerInv, Labels, MountLabels, Activations, Scanning
<1>3. QED
  BY <1>1, <1>2 DEF EntriesInv

\* The handler goes on to mount a file of which there is no entry.
LEMMA EntriesMount ==
  ASSUME EntriesInv, UNCHANGED <<database, mounts>>, pc' \in MountLabels,
         frame'.op # "dangling",
         frame'.op # "verify" => \A e \in db : e.file # frame'.file
  PROVE  EntriesInv'
<1>1. UNCHANGED <<db, latest>>
  BY DEF database
<1>2. QED
  BY <1>1 DEF EntriesInv, MountLabels

LEMMA ActivateEntries ==
  ASSUME TypeOK, HandlerInv', EntriesInv, UNCHANGED <<database, mounts>>,
         NEW op \in Activations, NEW f \in ApexFiles, f \in files,
         NEW todo \in SUBSET (ApexFiles \cup Entries), pc' \in Labels,
         ActivatePackageImpl(op, f, todo)
  PROVE  EntriesInv'
<1>0. op # "dangling" /\ UNCHANGED <<db, latest>>
  BY DEF Activations, database
<1>1. CASE Over(op, todo)
  <2>1. pc' \in Resting /\ frame'.op # "dangling"
    BY <1>0, <1>1, OverKeeps
  <2>2. pc' \notin {"dangling", "unlink", "unmount"} \cup MountLabels
    BY <2>1 DEF HandlerInv, Resting, MountLabels
  <2>3. QED
    BY <1>0, <2>2, EntriesRest
<1>2. CASE /\ SameVersion(f) = {} /\ pc' = "mountPackage"
           /\ Has(frame', op, f, 0, 0, IsNewestVersion(f), {}, todo)
  <2>1. \A e \in db : e.file # f
    BY <1>2 DEF SameVersion, Others
  <2>2. frame'.op = op /\ frame'.file = f
    BY <1>2 DEF Has
  <2>3. QED
    BY <1>0, <1>2, <2>1, <2>2, EntriesMount DEF MountLabels
<1>3. CASE pc' = "unbind"
  BY <1>0, <1>3, EntriesRest DEF MountLabels
<1>4. QED
  BY <1>1, <1>2, <1>3, ActivateMoves

\* An entry leaves the database, and then its mount goes.
LEMMA EntriesUnmount ==
  ASSUME TypeOK, KernelInv, LatestInv, EntriesInv, UNCHANGED mounts, NEW e \in db,
         RemoveMountedApex(e.file), pc' = "unmount", frame'.entry = {e},
         frame'.op = "dangling" => frame'.todo \subseteq db' \ latest'
  PROVE  EntriesInv'
<1>1. /\ db' = db \ {e} /\ \A o \in db' : o.point # e.point
      /\ \A m \in mounts : m.point = e.point => IsOf(e, m)
  BY RemovesOne
<1>2. /\ \A o \in db' : \E m \in mounts' : IsOf(o, m)
      /\ \A d, o \in db' : d.file = o.file => d = o
  BY <1>1 DEF EntriesInv
<1>3. QED
  BY <1>1, <1>2 DEF EntriesInv, MountLabels

LEMMA UnmountPackageEntries ==
  ASSUME TypeOK, KernelInv, LatestInv, EntriesInv, NEW f \in ApexFiles, NEW allow,
         UnmountPackage(f, allow), frame.op # "dangling"
  PROVE  EntriesInv'
<1> DEFINE e == LastOf(EntriesOf(f))
<1>1. /\ e \in EntriesOf(f) /\ pc' = "unmount"
      /\ frame'.op = frame.op /\ frame'.entry = {e}
  BY UnmountPackageMoves DEF Has
<1>2. RemoveMountedApex(f) /\ UNCHANGED mounts
  BY DEF UnmountPackage, kernel, Unbind
<1> HIDE DEF e
<1>3. e \in db /\ e.file = f
  BY <1>1 DEF EntriesOf
<1>4. QED
  BY <1>1, <1>2, <1>3, EntriesUnmount

\* What MountPackageImpl has mounted is entered, unless it is temporary.
LEMMA MountedEntries ==
  ASSUME TypeOK, HandlerInv, HandlerInv', KernelInv, LatestInv, EntriesInv,
         pc \in MountLabels, NEW entry \in Entries, Mounted(entry), ~PointTaken,
         entry.point = Point, entry.file = frame.file,
         NEW m, mounts' = mounts \cup {m}, IsOf(entry, m), pc' \in Labels
  PROVE  EntriesInv'
<1>1. /\ \A n \in mounts : n.point # Point
      /\ m.point = Point
  BY DEF PointTaken, IsOf
<1>2. \A e \in db : e.point # Point /\ \E n \in mounts' : IsOf(e, n)
  BY <1>1 DEF EntriesInv, IsOf
<1>3. Point.tmp <=> frame.op = "verify"
  BY PointIsOfFile DEF HandlerInv
<1>4. CASE frame.op = "verify"
  <2>1. pc' = "unmount" /\ frame'.op = "verify" /\ frame'.entry = {entry} /\ db' = db
    BY <1>3, <1>4, MountedMoves DEF Mounted, Has, Activations
  <2>2. QED
    BY <1>1, <1>2, <2>1 DEF EntriesInv, MountLabels
<1>5. CASE frame.op # "verify"
  <2>1. /\ db' = db \cup {entry} /\ frame.op # "dangling"
        /\ \A e \in db : e.file # frame.file
    BY <1>3, <1>5 DEF Mounted, EntriesInv, HandlerInv, Activations
  <2>2. /\ \A e \in db' : \E n \in mounts' : IsOf(e, n)
        /\ \A e, o \in db' : e.file = o.file => e = o
    BY <1>2, <2>1 DEF EntriesInv
  <2>3. pc' \notin MountLabels \cup {"unmount"} /\ frame'.op # "dangling"
    BY <1>5, <2>1, MountedMoves, OverKeeps DEF Stays, MountLabels, Resting
  <2>4. QED
    BY <2>2, <2>3 DEF EntriesInv
<1>6. QED
  BY <1>4, <1>5

LEMMA StepEntries ==
  ASSUME TypeOK, HandlerInv, KernelInv, HeldInv, LatestInv, EntriesInv, Once',
         [Next]_vars
  PROVE  EntriesInv'
<1>0. TypeOK' /\ HandlerInv' /\ pc' \in Labels /\ files \subseteq ApexFiles
  BY StepType, NextHandler DEF HandlerNext, TypeOK
<1>1. CASE UNCHANGED vars
  BY <1>1 DEF vars, kernel, database, EntriesInv
<1>2. CASE ProcessDies
  BY <1>2 DEF ProcessDies, EntriesInv, EmptyFrame, MountLabels
<1>3. CASE \/ MountPointTaken \/ VerityFails \/ MountFails \/ BindFails \/ UnlinkDangling
           \/ MountFlattened /\ Fails /\ UNCHANGED <<mounts, database, phase>>
           \/ CreateLoopDevice /\ Fails
  <2>1. UNCHANGED <<db, latest, mounts>> /\ Done
    BY <1>3 DEF MountPointTaken, VerityFails, MountFails, BindFails, UnlinkDangling,
       CreateLoopDevice, Fails, kernel, database
  <2>2. pc' \in Resting /\ (frame'.op = "dangling" => frame.op = "dangling" /\ frame'.todo = frame.todo)
    BY <2>1, DoneOver, OverKeeps
  <2>3. QED
    BY <1>0, <2>1, <2>2, EntriesRest DEF Resting, MountLabels, HandlerInv
<1>4. CASE BindNew
  <2>1. UNCHANGED <<db, mounts>> /\ Done /\ frame.op \in Activations
    BY <1>4 DEF BindNew, HandlerInv
  <2>2. pc' \in Resting /\ frame'.op # "dangling"
    BY <2>1, DoneOver, OverKeeps DEF Activations
  <2>3. QED
    BY <1>0, <2>1, <2>2, EntriesRest DEF Resting, MountLabels, HandlerInv
<1>5. CASE Unmount \/ UnmountFails
  <2>1. PICK e \in frame.entry : /\ AfterUnmount(e)
                                 /\ \A m \in mounts : m.point # e.point => m \in mounts'
    BY <1>5 DEF Unmount, UnmountFails, kernel
  <2>2. pc = "unmount" /\ UNCHANGED <<db, latest>>
    BY <1>5 DEF Unmount, UnmountFails, database
  <2>3. \A o \in db : o.point # e.point
    BY <2>1, <2>2 DEF EntriesInv
  <2>4. \A o \in db : \A m \in mounts : IsOf(o, m) => m \in mounts'
    BY <2>1, <2>3 DEF IsOf
  <2>5. /\ pc' \in Resting \cup {"unlink"}
        /\ frame'.op = "dangling" => frame.op = "dangling" /\ frame'.todo = frame.todo
    BY <2>1, AfterUnmountMoves, OverKeeps DEF Stays
  <2>6. QED
    BY <1>0, <2>2, <2>4, <2>5, EntriesRest DEF Resting, MountLabels, HandlerInv
<1>6. CASE UnbindOld \/ ScanPackagesDir \/ ScanEnds \/ \E f \in files : UnstagePackage(f)
  <2>1. UNCHANGED <<db, mounts>>
    BY <1>6 DEF UnbindOld, Unbind, ScanPackagesDir, ScanEnds, UnstagePackage, kernel,
       database
  <2>2. pc' \in {"bind", "visit", "scan", "idle"}
    BY <1>0, <1>6, Reaches
  <2>3. QED
    BY <1>0, <2>1, <2>2, EntriesRest DEF MountLabels
<1>7. CASE (CreateLoopDevice /\ ~Fails) \/ CreateVerityDevice
  <2>1. UNCHANGED <<database, mounts>> /\ pc \in MountLabels
    BY <1>7 DEF CreateLoopDevice, CreateVerityDevice, MountLabels
  <2>2. pc' \in MountLabels /\ frame'.op = frame.op /\ frame'.file = frame.file
    BY <1>7, CreateLoopDeviceMoves DEF CreateVerityDevice, Has, MountLabels
  <2>3. QED
    BY <2>1, <2>2, EntriesMount DEF HandlerInv, EntriesInv, Activations
<1>8. CASE Mount /\ Mounted(LoopEntry)
  <2>1. /\ pc = "mount" /\ mounts' = mounts \cup {LoopMount} /\ pc \in MountLabels
        /\ ~PointTaken
    BY <1>8, MountIs DEF HeldInv, MountLabels
  <2>2. /\ LoopEntry \in Entries /\ LoopEntry.point = Point
        /\ LoopEntry.file = frame.file /\ LoopEntry.loop = frame.loop
    BY <2>1, MountTypes
  <2>3. IsOf(LoopEntry, LoopMount)
    BY <2>2 DEF IsOf, LoopMount
  <2>4. QED
    BY <1>0, <1>8, <2>1, <2>2, <2>3, MountedEntries
<1>9. CASE MountFlattened /\ Mounted(FlatMount) /\ mounts' = mounts \cup {FlatMount}
  <2>1. pc \in MountLabels /\ ~PointTaken
    BY <1>9, MountIs DEF MountLabels
  <2>2. FlatMount \in Entries /\ FlatMount.point = Point /\ FlatMount.file = frame.file
    BY <2>1, MountTypes DEF FlatMount
  <2>3. IsOf(FlatMount, FlatMount)
    BY DEF IsOf
  <2>4. QED
    BY <1>0, <1>9, <2>1, <2>2, <2>3, MountedEntries
<1>10. CASE UnmountAfterHook
  <2>0. frame.op = "preinstall" /\ frame.file \in ApexFiles
    BY <1>10 DEF UnmountAfterHook, HandlerInv
  <2>1. CASE Done /\ UNCHANGED <<kernel, database>>
    <3>1. pc' \in Resting /\ frame'.op # "dangling"
      BY <2>0, <2>1, DoneOver, OverKeeps
    <3>2. UNCHANGED <<db, mounts>>
      BY <2>1 DEF kernel, database
    <3>3. QED
      BY <1>0, <3>1, <3>2, EntriesRest DEF Resting, MountLabels, HandlerInv
  <2>2. CASE UnmountPackage(frame.file, FALSE)
    BY <2>0, <2>2, UnmountPackageEntries
  <2>3. QED
    BY <1>10, <2>1, <2>2 DEF UnmountAfterHook
<1>11. ASSUME NEW f \in files, DeactivatePackage(f) PROVE EntriesInv'
  <2>1. frame = EmptyFrame /\ UnmountPackage(f, TRUE) /\ f \in ApexFiles
    BY <1>0, <1>11 DEF DeactivatePackage, Serving, HandlerInv
  <2>2. QED
    BY <2>1, UnmountPackageEntries DEF EmptyFrame
<1>12. CASE Populate
  <2>1. db' = mounts /\ pc' = "scan" /\ UNCHANGED mounts
    BY <1>12 DEF Populate, PopulateFromMounts, kernel
  <2>2. \A m, n \in mounts : m.file = n.file => m = n
    BY <1>12 DEF Populate, Once
  <2>3. frame'.op # "dangling"
    BY <1>0, <2>1 DEF HandlerInv, Scanning
  <2>4. \A e \in db' : IsOf(e, e) /\ e \in mounts'
    BY <2>1 DEF IsOf
  <2>5. QED
    BY <2>1, <2>2, <2>3, <2>4 DEF EntriesInv, MountLabels
<1>13. CASE VisitPackage
  <2>1. PICK f \in frame.todo : ActivatePackageImpl(frame.op, f, frame.todo \ {f})
    BY <1>13 DEF VisitPackage
  <2>2. frame.op \in Activations /\ frame.todo \subseteq files
    BY <1>13 DEF VisitPackage, HandlerInv, Scanning, Activations
  <2>3. UNCHANGED <<database, mounts>>
    BY <1>13 DEF VisitPackage, kernel
  <2>4. frame.todo \ {f} \in SUBSET (ApexFiles \cup Entries) /\ f \in files
    BY <1>0, <2>2
  <2>5. QED
    BY <1>0, <2>1, <2>2, <2>3, <2>4, ActivateEntries
<1>14. ASSUME NEW f \in files, ActivatePackage(f) PROVE EntriesInv'
  <2>1. /\ ActivatePackageImpl("activate", f, {}) /\ UNCHANGED <<database, mounts>>
        /\ "activate" \in Activations /\ {} \in SUBSET (ApexFiles \cup Entries)
    BY <1>14 DEF ActivatePackage, Activations, kernel
  <2>2. QED
    BY <1>0, <2>1, ActivateEntries
<1>15. ASSUME NEW f \in files, PreinstallPackage(f) \/ VerifyPackage(f)
       PROVE  EntriesInv'
  <2>1. PICK op \in {"preinstall", "verify"} :
          /\ Call(op, f, "mountPackage")
          /\ op = "preinstall" => ~IsMounted(f)
    BY <1>15 DEF PreinstallPackage, VerifyPackage
  <2>2. UNCHANGED <<database, mounts>> /\ pc' = "mountPackage"
    BY <1>15, <2>1 DEF PreinstallPackage, VerifyPackage, Call, kernel
  <2>3. frame'.op = op /\ frame'.file = f
    <3>1. op \in Ops /\ f \in ApexFiles
      BY <1>0, <2>1 DEF Ops
    <3>2. Has([EmptyFrame EXCEPT !.op = op, !.file = f], op, f, 0, 0, FALSE, {}, {})
      <4>1. {} \in SUBSET (ApexFiles \cup Entries) /\ FALSE \in BOOLEAN
        OBVIOUS
      <4>2. QED
        BY <3>1, <4>1, NewFrames
    <3>3. QED
      BY <2>1, <3>2 DEF Has, Call
  <2>4. op = "preinstall" => \A e \in db : e.file # f
    BY <2>1 DEF IsMounted, EntriesOf
  <2>5. QED
    BY <2>1, <2>2, <2>3, <2>4, EntriesMount DEF MountLabels
<1>16. CASE BootCompleted
  <2>1. /\ UNCHANGED <<db, latest, mounts>> /\ pc' = "dangling"
        /\ frame' = [EmptyFrame EXCEPT !.op = "dangling", !.todo = db \ latest]
    BY <1>16 DEF BootCompleted, kernel, database
  <2>2. frame'.todo = db \ latest
    <3>1. "dangling" \in Ops /\ db \ latest \in SUBSET (ApexFiles \cup Entries)
      BY DEF Ops, TypeOK
    <3>2. Has([EmptyFrame EXCEPT !.op = "dangling", !.todo = db \ latest],
              "dangling", NoFile, 0, 0, FALSE, {}, db \ latest)
      <4> DEFINE a == [EmptyFrame EXCEPT !.op = "dangling"]
      <4>1. Has(a, "dangling", NoFile, 0, 0, FALSE, {}, {})
        BY <3>1, EmptyFrameFields, FrameUpdates
      <4> HIDE DEF a
      <4>2. Has([a EXCEPT !.todo = db \ latest],
                "dangling", NoFile, 0, 0, FALSE, {}, db \ latest)
        BY <3>1, <4>1, FrameUpdates
      <4>3. QED
        BY <4>2 DEF a
    <3>3. QED
      BY <2>1, <3>2 DEF Has
  <2>3. QED
    BY <2>1, <2>2 DEF EntriesInv, MountLabels
<1>17. CASE UnmountDanglingMounts
  <2>0. /\ pc = "dangling" /\ frame.op = "dangling" /\ frame.todo \subseteq db \ latest
        /\ frame \in Frames /\ UNCHANGED mounts
    BY <1>17 DEF UnmountDanglingMounts, HandlerInv, EntriesInv, TypeOK, kernel
  <2>1. CASE pc' = "idle" /\ UNCHANGED database
    BY <1>0, <2>0, <2>1, EntriesRest DEF MountLabels, database
  <2>2. ASSUME NEW e \in frame.todo, RemoveMountedApex(e.file), pc' = "unmount",
               frame' = [frame EXCEPT !.entry = {e}, !.todo = @ \ {e}]
        PROVE  EntriesInv'
    <3>1. e \in db /\ e \in Entries /\ frame.todo \ {e} \in SUBSET (ApexFiles \cup Entries)
      BY <2>0 DEF TypeOK
    <3>2. Has([frame EXCEPT !.entry = {e}, !.todo = frame.todo \ {e}], frame.op,
              frame.file, frame.loop, frame.tries, frame.newest, {e}, frame.todo \ {e})
      <4>1. {e} \in SUBSET Entries
        BY <3>1
      <4>2. QED
        BY <2>0, <3>1, <4>1, EntryTodo
    <3>3. frame' = [frame EXCEPT !.entry = {e}, !.todo = frame.todo \ {e}]
      BY <2>0, <2>2 DEF Frames
    <3>4. frame'.entry = {e} /\ frame'.todo = frame.todo \ {e}
      BY <3>2, <3>3 DEF Has
    <3>5. db' = db \ {e} /\ latest' = latest \ {e}
      BY <2>2, <3>1, RemovesOne
    <3>6. frame'.todo \subseteq db' \ latest'
      BY <2>0, <3>4, <3>5
    <3>7. QED
      BY <2>0, <2>2, <3>1, <3>4, <3>6, EntriesUnmount
  <2>3. QED
    BY <1>17, <2>1, <2>2 DEF UnmountDanglingMounts
<1>18. CASE SetLatestAborts \/ RestartProcess \/ RebootDevice
  BY <1>2, <1>18 DEF SetLatestAborts, RestartProcess, RebootDevice
<1>19. CASE Mount \/ MountFlattened
  BY <1>2, <1>3, <1>8, <1>9, <1>19, MountIs DEF CheckFails
<1>20. QED
  BY <1>1, <1>3, <1>4, <1>5, <1>6, <1>7, <1>10, <1>11, <1>12, <1>13, <1>14, <1>15,
     <1>16, <1>17, <1>18, <1>19 DEF Next, Step, Request

\* What went wrong is remembered until the device reboots; a process that is
\* started again forgets only which umount2 failed.
LEMMA SpoiledSteps ==
  ASSUME TypeOK, HandlerInv, [Next]_vars
  PROVE  /\ \/ RebootDevice
            \/ \A k \in {"activate", "bind", "dm", "restart", "twice", "check"} :
                 k \in spoiled => k \in spoiled'
         /\ "umount" \in spoiled => "umount" \in spoiled' \/ ProcessDies
         /\ "twice" \in spoiled' => "twice" \in spoiled \/ Populate
         /\ "check" \in spoiled' => \/ "check" \in spoiled
                                    \/ Mount /\ CheckFails(LoopEntry)
                                    \/ MountFlattened /\ CheckFails(FlatMount)
         /\ pc' = "populate" => \/ UNCHANGED vars \/ RebootDevice
                                \/ ProcessDies /\ "restart" \in spoiled'
<1> DEFINE Kept == /\ spoiled \subseteq spoiled'
                   /\ "twice" \in spoiled' => "twice" \in spoiled
                   /\ "check" \in spoiled' => "check" \in spoiled
                   /\ pc' # "populate"
<1>1. CASE UNCHANGED vars
  BY <1>1 DEF vars
<1>2. ASSUME NEW entry, CheckFails(entry)
      PROVE  /\ spoiled' = (spoiled \ {"umount"}) \cup {"restart", "check"}
             /\ ProcessDies
  BY <1>2 DEF CheckFails
<1>3. CASE \/ MountPointTaken \/ VerityFails \/ MountFails \/ BindNew \/ BindFails
           \/ UnlinkDangling
  <2>1. pc' # "populate"
    BY <1>3, Reaches DEF Resting
  <2>2. /\ spoiled \subseteq spoiled'
        /\ spoiled' \subseteq spoiled \cup {"activate", "dm", "bind"}
    BY <1>3 DEF MountPointTaken, VerityFails, MountFails, BindNew, BindFails,
       UnlinkDangling, Fails
  <2>3. QED
    BY <2>1, <2>2
<1>4. CASE CreateLoopDevice \/ CreateVerityDevice \/ UnbindOld \/ ScanPackagesDir
  <2>1. pc' # "populate"
    BY <1>4, Reaches DEF Resting
  <2>2. spoiled \subseteq spoiled' /\ spoiled' \subseteq spoiled \cup {"activate"}
    BY <1>4 DEF CreateLoopDevice, CreateVerityDevice, UnbindOld, ScanPackagesDir, Fails
  <2>3. QED
    BY <2>1, <2>2
<1>5. CASE Unmount \/ UnmountFails
  <2>1. pc' # "populate"
    BY <1>5, Reaches DEF Resting
  <2>2. spoiled \subseteq spoiled' /\ spoiled' \subseteq spoiled \cup {"dm", "umount"}
    BY <1>5 DEF Unmount, UnmountFails
  <2>3. QED
    BY <2>1, <2>2
<1>6. CASE \/ UnmountAfterHook \/ VisitPackage \/ ScanEnds \/ UnmountDanglingMounts
           \/ BootCompleted
           \/ \E f \in files : \/ ActivatePackage(f) \/ DeactivatePackage(f)
                               \/ PreinstallPackage(f) \/ VerifyPackage(f)
                               \/ UnstagePackage(f)
  <2>1. pc' # "populate"
    BY <1>6, Reaches DEF Resting
  <2>2. UNCHANGED spoiled
    BY <1>6 DEF UnmountAfterHook, VisitPackage, ScanEnds, UnmountDanglingMounts,
       BootCompleted, ActivatePackage, DeactivatePackage, PreinstallPackage,
       VerifyPackage, UnstagePackage
  <2>3. QED
    BY <2>1, <2>2
<1>7. CASE Populate
  BY <1>7, Reaches DEF Populate
<1>8. CASE Mount \/ MountFlattened
  <2>1. pc \in MountLabels
    BY <1>8, MountIs DEF MountLabels
  <2>2. ASSUME NEW entry \in Entries, Mounted(entry)
        PROVE  UNCHANGED spoiled /\ pc' # "populate"
    BY <2>1, <2>2, MountedMoves DEF Mounted, Stays, Over
  <2>3. ASSUME Fails
        PROVE  /\ spoiled \subseteq spoiled' /\ spoiled' \subseteq spoiled \cup {"activate"}
               /\ pc' # "populate"
    BY <2>3, DoneRests DEF Fails, Resting
  <2>4. /\ LoopEntry \in Entries /\ FlatMount \in Entries
    BY <2>1, MountTypes
  <2>5. QED
    BY <1>2, <1>8, <2>2, <2>3, <2>4, MountIs
<1>9. CASE SetLatestAborts \/ RestartProcess
  BY <1>9 DEF SetLatestAborts, RestartProcess
<1>10. CASE RebootDevice
  BY <1>10 DEF RebootDevice
<1>11. QED
  BY <1>1, <1>3, <1>4, <1>5, <1>6, <1>7, <1>8, <1>9, <1>10 DEF Next, Step, Request

LEMMA StepDatabase ==
  ASSUME TypeOK, HandlerInv, KernelInv, HeldInv, DatabaseInv, [Next]_vars
  PROVE  DatabaseInv'
<1>1. LatestInv'
  BY StepLatest DEF DatabaseInv
<1>2. CASE RebootDevice
  <2>1. ProcessDies /\ spoiled' = {}
    BY <1>2 DEF RebootDevice
  <2>2. EntriesInv'
    BY <2>1 DEF ProcessDies, EntriesInv, EmptyFrame, MountLabels
  <2>3. QED
    BY <1>1, <2>1, <2>2 DEF DatabaseInv
<1>3. CASE ~RebootDevice
  <2>1. SUFFICES ASSUME Once' PROVE EntriesInv' /\ "check" \notin spoiled'
    BY <1>1 DEF DatabaseInv
  <2>2. Once
    BY <1>3, <2>1, SpoiledSteps DEF Once
  <2>3. EntriesInv /\ "check" \notin spoiled /\ LatestInv
    BY <2>2 DEF DatabaseInv
  <2>4. EntriesInv'
    BY <2>1, <2>3, StepEntries
  <2>5. "check" \notin spoiled'
    BY <2>2, <2>3, SpoiledSteps, ChecksHold
  <2>6. QED
    BY <2>4, <2>5
<1>4. QED
  BY <1>2, <1>3

\* All of the above.
MountsInv == TypeOK /\ HandlerInv /\ KernelInv /\ HeldInv /\ DatabaseInv

LEMMA InitMounts == Init => MountsInv
<1> SUFFICES ASSUME Init PROVE MountsInv
  OBVIOUS
<1>1. TypeOK /\ HandlerInv
  BY InitType
<1>2. /\ mounts = {} /\ bound = {} /\ autoclear = {} /\ \A p \in Points : dm[p] = 0
      /\ pc = "populate" /\ db = {} /\ latest = {} /\ spoiled = {}
      /\ frame.op = "none"
  BY DEF Init, EmptyFrame
<1>3. KernelInv /\ HeldInv
  BY <1>2 DEF KernelInv, HeldInv
<1>4. DatabaseInv
  BY <1>2 DEF DatabaseInv, LatestInv, EntriesInv, Once, MountLabels
<1>5. QED
  BY <1>1, <1>3, <1>4 DEF MountsInv

LEMMA NextMounts ==
  ASSUME MountsInv, [Next]_vars PROVE MountsInv'
<1>1. TypeOK' /\ HandlerInv'
  BY StepType, NextHandler DEF MountsInv, HandlerNext
<1>2. KernelInv'
  BY StepKernel DEF MountsInv
<1>3. HeldInv'
  BY StepHeld DEF MountsInv
<1>4. DatabaseInv'
  BY StepDatabase DEF MountsInv
<1>5. QED
  BY <1>1, <1>2, <1>3, <1>4 DEF MountsInv

LEMMA MountsAlways == Spec => []MountsInv
<1>1. MountsInv /\ [Next]_vars => MountsInv'
  BY NextMounts
<1>2. QED
  BY InitMounts, <1>1, PTL DEF Spec

\* DatabaseIsMounted: gMountedApexes never names a package that is not mounted,
\* whatever mount, unmount or bind mount failed half-way.
THEOREM DatabaseIsAlwaysMounted == Spec => []DatabaseIsMounted
<1>1. MountsInv => DatabaseIsMounted
  BY DEF MountsInv, DatabaseInv, EntriesInv, Once, IsOf, DatabaseIsMounted
<1>2. QED
  BY MountsAlways, <1>1, PTL

\* DatabaseChecksPass: the CHECKs of AddMountedApex stop the process only when
\* a restart found a file mounted twice, and no package has two latest versions.
THEOREM DatabaseChecksAlwaysPass == Spec => []DatabaseChecksPass
<1>1. MountsInv => DatabaseChecksPass
  BY DEF MountsInv, DatabaseInv, LatestInv, Once, DatabaseChecksPass
<1>2. QED
  BY MountsAlways, <1>1, PTL

-----------------------------------------------------------------------------
(* What is mounted is known.                                               *)

\* Mount m has an entry, or is the one that is being unmounted.
Known(m) == \/ \E e \in db : e.point = m.point
            \/ pc = "unmount" /\ \E e \in frame.entry : e.point = m.point

KnownInv ==
  pc # "populate" /\ spoiled \cap {"umount", "twice"} = {} => \A m \in mounts : Known(m)

\* The entry of one package goes, and its mount is unmounted next.
LEMMA RemovesKnown ==
  ASSUME MountsInv, Once, \A m \in mounts : Known(m), pc # "unmount", UNCHANGED mounts,
         NEW e \in db, RemoveMountedApex(e.file), pc' = "unmount", frame'.entry = {e}
  PROVE  \A m \in mounts' : Known(m)'
<1>1. db' = db \ {e}
  BY RemovesOne DEF MountsInv, DatabaseInv
<1>2. QED
  BY <1>1 DEF Known

LEMMA UnmountPackageKnown ==
  ASSUME MountsInv, Once, \A m \in mounts : Known(m), pc # "unmount",
         NEW f \in ApexFiles, NEW allow, UnmountPackage(f, allow)
  PROVE  \A m \in mounts' : Known(m)'
<1> DEFINE e == LastOf(EntriesOf(f))
<1>1. e \in EntriesOf(f) /\ pc' = "unmount" /\ frame'.entry = {e}
  BY UnmountPackageMoves DEF Has, MountsInv
<1>2. RemoveMountedApex(f) /\ UNCHANGED mounts
  BY DEF UnmountPackage, kernel, Unbind
<1> HIDE DEF e
<1>3. e \in db /\ e.file = f
  BY <1>1 DEF EntriesOf
<1>4. QED
  BY <1>1, <1>2, <1>3, RemovesKnown

LEMMA MountedKnown ==
  ASSUME MountsInv, \A m \in mounts : Known(m), pc \in MountLabels,
         NEW entry \in Entries, Mounted(entry), entry.point = Point,
         NEW m, m.point = Point, mounts' = mounts \cup {m}
  PROVE  \A n \in mounts' : Known(n)'
<1>1. \A n \in mounts : \E e \in db : e.point = n.point
  BY DEF Known, MountLabels
<1>2. db \subseteq db' /\ (~Point.tmp => entry \in db')
  BY DEF Mounted
<1>3. Point.tmp => pc' = "unmount" /\ frame'.entry = {entry}
  <2>1. Point.tmp => frame.op = "verify"
    BY PointIsOfFile DEF MountsInv, HandlerInv
  <2>2. QED
    BY <2>1, MountedMoves DEF Has, MountsInv, Activations
<1>4. QED
  BY <1>1, <1>2, <1>3 DEF Known

LEMMA StepKnown ==
  ASSUME MountsInv, KnownInv, [Next]_vars PROVE KnownInv'
<1>0. /\ TypeOK /\ HandlerInv /\ files \subseteq ApexFiles
  BY DEF MountsInv, TypeOK
<1>1. SUFFICES ASSUME pc' # "populate", spoiled' \cap {"umount", "twice"} = {}
               PROVE  \A m \in mounts' : Known(m)'
  BY DEF KnownInv
<1>2. ~ProcessDies /\ ~RebootDevice
  BY <1>1 DEF ProcessDies, RebootDevice
<1>3. Once /\ spoiled \cap {"umount", "twice"} = {}
  BY <1>0, <1>1, <1>2, SpoiledSteps DEF Once
<1>4. CASE Populate
  BY <1>4 DEF Populate, PopulateFromMounts, kernel, Known
<1>5. ASSUME pc # "populate" PROVE \A m \in mounts : Known(m)
  BY <1>3, <1>5 DEF KnownInv
<1>6. CASE UNCHANGED vars
  BY <1>1, <1>5, <1>6 DEF vars, kernel, database, Known
<1>7. ASSUME pc # "populate", pc # "unmount", UNCHANGED <<db, mounts>>
      PROVE  \A m \in mounts' : Known(m)'
  BY <1>5, <1>7 DEF Known
<1>8. CASE \/ MountPointTaken \/ CreateLoopDevice \/ VerityFails \/ CreateVerityDevice
           \/ MountFails \/ UnbindOld
  <2>1. pc # "populate" /\ pc # "unmount" /\ UNCHANGED <<db, mounts>>
    BY <1>8 DEF MountPointTaken, CreateLoopDevice, VerityFails, CreateVerityDevice,
       MountFails, UnbindOld, Unbind, kernel, database
  <2>2. QED
    BY <1>7, <2>1
<1>9. CASE \/ BindNew \/ BindFails \/ ScanPackagesDir \/ VisitPackage \/ ScanEnds
           \/ UnlinkDangling
  <2>1. pc # "populate" /\ pc # "unmount" /\ UNCHANGED <<db, mounts>>
    BY <1>9 DEF BindNew, BindFails, ScanPackagesDir, VisitPackage, ScanEnds,
       UnlinkDangling, kernel, database
  <2>2. QED
    BY <1>7, <2>1
<1>10. CASE \/ BootCompleted
            \/ \E f \in files : \/ ActivatePackage(f) \/ PreinstallPackage(f)
                                \/ VerifyPackage(f) \/ UnstagePackage(f)
  <2>1. pc # "populate" /\ pc # "unmount" /\ UNCHANGED <<db, mounts>>
    BY <1>10 DEF BootCompleted, ActivatePackage, PreinstallPackage, VerifyPackage,
       UnstagePackage, Serving, kernel, database
  <2>2. QED
    BY <1>7, <2>1
<1>11. CASE Mount \/ MountFlattened
  <2>1. pc \in MountLabels /\ pc # "populate" /\ pc # "unmount"
    BY <1>11, MountIs DEF MountLabels
  <2>2. /\ LoopEntry \in Entries /\ LoopEntry.point = Point /\ LoopMount.point = Point
        /\ FlatMount \in Entries /\ FlatMount.point = Point
    BY <1>0, <2>1, MountTypes DEF LoopMount, FlatMount
  <2>3. CASE Mount
    BY <1>2, <1>5, <2>1, <2>2, <2>3, MountIs, MountedKnown DEF CheckFails
  <2>4. CASE MountFlattened /\ Mounted(FlatMount) /\ mounts' = mounts \cup {FlatMount}
    BY <1>5, <2>1, <2>2, <2>4, MountedKnown
  <2>5. CASE UNCHANGED <<mounts, database, phase>>
    BY <1>7, <2>1, <2>5 DEF database
  <2>6. QED
    BY <1>2, <1>11, <2>3, <2>4, <2>5, MountIs DEF CheckFails
<1>12. CASE Unmount
  <2>1. PICK e \in frame.entry : mounts' = {m \in mounts : m.point # e.point}
    BY <1>12 DEF Unmount
  <2>2. pc = "unmount" /\ frame.entry = {e} /\ UNCHANGED db
    BY <1>0, <1>12, <2>1 DEF Unmount, HandlerInv, database
  <2>3. QED
    BY <1>5, <2>1, <2>2 DEF Known
<1>13. CASE UnmountFails
  BY <1>1, <1>13 DEF UnmountFails
<1>14. CASE UnmountAfterHook
  <2>1. pc = "hook" /\ frame.file \in ApexFiles
    BY <1>0, <1>14 DEF UnmountAfterHook, HandlerInv
  <2>2. CASE Done /\ UNCHANGED <<kernel, database>>
    BY <1>7, <2>1, <2>2 DEF kernel, database
  <2>3. QED
    BY <1>3, <1>5, <1>14, <2>1, <2>2, UnmountPackageKnown DEF UnmountAfterHook
<1>15. ASSUME NEW f \in files, DeactivatePackage(f) PROVE \A m \in mounts' : Known(m)'
  <2>1. UnmountPackage(f, TRUE) /\ pc = "idle" /\ f \in ApexFiles
    BY <1>0, <1>15 DEF DeactivatePackage, Serving
  <2>2. QED
    BY <1>3, <1>5, <2>1, UnmountPackageKnown
<1>16. CASE UnmountDanglingMounts
  <2>0. /\ pc = "dangling" /\ frame.todo \subseteq db /\ frame \in Frames
        /\ UNCHANGED mounts
    BY <1>0, <1>3, <1>16 DEF UnmountDanglingMounts, HandlerInv, MountsInv, DatabaseInv,
       EntriesInv, TypeOK, kernel
  <2>1. CASE UNCHANGED database
    BY <1>7, <2>0, <2>1 DEF database
  <2>2. ASSUME NEW e \in frame.todo, RemoveMountedApex(e.file), pc' = "unmount",
               frame' = [frame EXCEPT !.entry = {e}, !.todo = @ \ {e}]
        PROVE  \A m \in mounts' : Known(m)'
    <3>1. frame'.entry = {e}
      BY <2>0, <2>2 DEF Frames
    <3>2. QED
      BY <1>3, <1>5, <2>0, <2>2, <3>1, RemovesKnown
  <2>3. QED
    BY <1>16, <2>1, <2>2 DEF UnmountDanglingMounts
<1>17. CASE SetLatestAborts \/ RestartProcess \/ RebootDevice
  BY <1>2, <1>17 DEF SetLatestAborts, RestartProcess
<1>18. QED
  BY <1>4, <1>6, <1>8, <1>9, <1>10, <1>11, <1>12, <1>13, <1>14, <1>15, <1>16, <1>17
     DEF Next, Step, Request

\* MountsAreKnown: when no handler runs, a mount without an entry is one that
\* umount2 left or that a restart found twice: what was mounted to verify it or
\* to run its hook is gone, and a process that is started again finds the rest.
THEOREM MountsAreAlwaysKnown == Spec => []MountsAreKnown
<1>1. Init => KnownInv
  BY DEF Init, KnownInv
<1>2. MountsInv /\ KnownInv /\ [Next]_vars => KnownInv'
  BY StepKnown
<1>3. KnownInv => MountsAreKnown
  BY DEF KnownInv, Known, MountsAreKnown, Serving
<1>4. QED
  BY MountsAlways, <1>1, <1>2, <1>3, PTL DEF Spec

-----------------------------------------------------------------------------
(* The devices that are in use.                                            *)

\* Loop device l is mounted, marked to go, or held by the handler.
LoopKept(l) == \/ \E m \in mounts : m.loop = l
               \/ l \in autoclear
               \/ pc \in {"verity", "mount"} /\ l = frame.loop

\* So is the dm device of point p.
DmKept(p) == \/ \E m \in mounts : m.point = p /\ m.loop = dm[p]
             \/ pc = "mount" /\ dm[p] = frame.loop

\* Only a process that was started again finds mounts that it did not make.
FreedInv ==
  /\ "twice" \in spoiled => "restart" \in spoiled
  /\ pc = "populate" /\ "restart" \notin spoiled => mounts = {} /\ bound = {}
  /\ spoiled \cap {"restart", "dm"} = {} =>
       /\ \A l \in Loops : loop[l] # NoFile => LoopKept(l)
       /\ \A p \in Points : dm[p] # 0 => DmKept(p)

\* A device that is set up after some were freed is marked, or was left alone.
LEMMA Remains ==
  ASSUME TypeOK, NEW marked \in SUBSET Loops, NEW d, NEW ms, FreeUnused(marked, d, ms)
  PROVE  \A l \in Loops : loop'[l] # NoFile =>
           l \in autoclear' \/ (l \notin marked /\ loop[l] # NoFile)
BY FreeUnusedFacts

LEMMA StepFreed ==
  ASSUME MountsInv, FreedInv, [Next]_vars PROVE FreedInv'
<1>0. /\ TypeOK /\ HandlerInv /\ KernelInv /\ HeldInv /\ files \subseteq ApexFiles
      /\ autoclear \in SUBSET Loops
  BY DEF MountsInv, TypeOK
<1>1. CASE RebootDevice
  BY <1>1 DEF RebootDevice, ProcessDies, FreedInv, KernelInv
<1>2. CASE UNCHANGED vars
  BY <1>2 DEF vars, kernel, FreedInv, LoopKept, DmKept
<1>3. CASE ~RebootDevice /\ ~UNCHANGED vars
  <2>1. \A k \in {"dm", "restart", "twice"} : k \in spoiled => k \in spoiled'
    BY <1>0, <1>3, SpoiledSteps
  <2>2. ("twice" \in spoiled' => "restart" \in spoiled')
    <3>1. CASE Populate /\ "restart" \notin spoiled
      <4>1. mounts = {}
        BY <3>1 DEF Populate, FreedInv
      <4>2. UNCHANGED spoiled
        BY <3>1, <4>1 DEF Populate
      <4>3. QED
        BY <4>2 DEF FreedInv
    <3>2. QED
      BY <1>0, <2>1, <3>1, SpoiledSteps DEF FreedInv
  <2>3. pc' = "populate" => "restart" \in spoiled'
    BY <1>0, <1>3, SpoiledSteps
  <2>4. ASSUME spoiled' \cap {"restart", "dm"} = {}
        PROVE  /\ \A l \in Loops : loop'[l] # NoFile => LoopKept(l)'
               /\ \A p \in Points : dm'[p] # 0 => DmKept(p)'
    <3> DEFINE Goal == /\ \A l \in Loops : loop'[l] # NoFile => LoopKept(l)'
                       /\ \A p \in Points : dm'[p] # 0 => DmKept(p)'
    <3>1. /\ spoiled \cap {"restart", "dm"} = {} /\ Once
          /\ \A l \in Loops : loop[l] # NoFile => LoopKept(l)
          /\ \A p \in Points : dm[p] # 0 => DmKept(p)
      BY <2>1, <2>4 DEF FreedInv, Once
    <3>2. ~ProcessDies
      BY <2>3, <2>4 DEF ProcessDies
    <3>3. ASSUME UNCHANGED <<devices, mounts>>, pc \notin {"verity", "mount"} PROVE Goal
      BY <3>1, <3>3 DEF devices, LoopKept, DmKept
    <3>4. ASSUME NEW name, Unbind(name), pc \notin {"verity", "mount"} PROVE Goal
      <4>1. /\ FreeUnused(autoclear, dm, mounts \cup bound') /\ UNCHANGED <<dm, mounts>>
        BY <3>4 DEF Unbind
      <4>2. \A l \in Loops : loop'[l] # NoFile =>
              l \in autoclear' \/ (l \notin autoclear /\ loop[l] # NoFile)
        BY <1>0, <4>1, Remains
      <4>3. QED
        BY <3>1, <3>4, <4>1, <4>2 DEF LoopKept, DmKept
    <3>5. CASE CreateLoopDevice
      <4>1. /\ pc = "mountPackage" /\ UNCHANGED <<autoclear, dm, mounts>>
        BY <3>5 DEF CreateLoopDevice
      <4>2. CASE UNCHANGED loop
        BY <3>3, <4>1, <4>2 DEF devices
      <4>3. ASSUME NEW l \in Loops, loop' = [loop EXCEPT ![l] = frame.file],
                   pc' = "verity", frame'.loop = l
            PROVE  Goal
        <5>1. \A k \in Loops : k # l => loop'[k] = loop[k]
          BY <1>0, <4>3 DEF TypeOK
        <5>2. QED
          BY <3>1, <4>1, <4>3, <5>1 DEF LoopKept, DmKept
      <4>4. QED
        BY <1>0, <3>5, <4>2, <4>3, CreateLoopDeviceMoves DEF Has
    <3>6. CASE VerityFails
      <4>1. /\ FreeUnused(autoclear \cup {frame.loop}, dm, mounts \cup bound)
            /\ UNCHANGED <<dm, mounts>> /\ pc = "verity" /\ frame.loop \in Loops
        BY <1>0, <3>6 DEF VerityFails, ClearLoop, HandlerInv
      <4>2. \A l \in Loops : loop'[l] # NoFile => l \in autoclear'
              \/ (l \notin autoclear \cup {frame.loop} /\ loop[l] # NoFile)
        BY <1>0, <4>1, Remains
      <4>3. QED
        BY <3>1, <4>1, <4>2 DEF LoopKept, DmKept
    <3>7. CASE CreateVerityDevice
      <4>1. pc = "verity" /\ pc' = "mount" /\ UNCHANGED <<mounts, frame>>
            /\ frame.file \in ApexFiles
        BY <1>0, <3>7 DEF CreateVerityDevice, HandlerInv, MountLabels
      <4>2. CASE MountOnVerity
        <5>1. /\ dm' = [dm EXCEPT ![Point] = frame.loop] /\ Point \in Points
              /\ FreeUnused(autoclear, dm', mounts \cup bound)
          BY <3>7, <4>1, <4>2, PointIsOfFile DEF CreateVerityDevice
        <5>2. \A l \in Loops : loop'[l] # NoFile =>
                l \in autoclear' \/ (l \notin autoclear /\ loop[l] # NoFile)
          BY <1>0, <5>1, Remains
        <5>3. \A p \in Points : (p = Point /\ dm'[p] = frame.loop) \/ dm'[p] = dm[p]
          BY <1>0, <5>1 DEF TypeOK
        <5>4. QED
          BY <3>1, <4>1, <5>2, <5>3 DEF LoopKept, DmKept
      <4>3. CASE ~MountOnVerity
        BY <3>1, <3>7, <4>1, <4>3 DEF CreateVerityDevice, devices, LoopKept, DmKept
      <4>4. QED
        BY <4>2, <4>3
    <3>8. CASE Mount
      <4>1. /\ pc = "mount" /\ mounts' = mounts \cup {LoopMount} /\ UNCHANGED devices
            /\ LoopMount.loop = frame.loop /\ LoopMount.point = Point
        BY <3>8, MountIs DEF LoopMount
      <4>2. \A p \in Points : dm[p] = frame.loop => p = Point
        BY <1>0, <4>1 DEF HeldInv
      <4>3. QED
        BY <3>1, <4>1, <4>2 DEF devices, LoopKept, DmKept
    <3>9. CASE MountFlattened
      <4>1. /\ pc = "mountPackage" /\ mounts \subseteq mounts' /\ UNCHANGED devices
        BY <3>9, MountIs
      <4>2. QED
        BY <3>1, <4>1 DEF devices, LoopKept, DmKept
    <3>10. CASE MountFails
      <4>1. /\ FreeUnused(autoclear \cup {frame.loop}, dm', mounts \cup bound)
            /\ pc = "mount" /\ frame.loop \in Loops /\ UNCHANGED mounts
            /\ frame.file \in ApexFiles
        BY <1>0, <3>10 DEF MountFails, ClearLoop, HandlerInv, MountLabels
      <4>2. \A l \in Loops : loop'[l] # NoFile => l \in autoclear'
              \/ (l \notin autoclear \cup {frame.loop} /\ loop[l] # NoFile)
        BY <1>0, <4>1, Remains
      <4>3. \A p \in Points : dm'[p] # 0 => dm'[p] = dm[p] /\ dm[p] # frame.loop
        <5>1. Point \in Points
          BY <4>1, PointIsOfFile
        <5>2. dm'[Point] = 0
          BY <2>4, <3>10 DEF MountFails
        <5>3. dm' = dm \/ dm' = [dm EXCEPT ![Point] = 0]
          BY <3>10 DEF MountFails, DeleteDm
        <5>4. \A p \in Points : p # Point => dm'[p] = dm[p] /\ dm[p] # frame.loop
          BY <1>0, <4>1, <5>1, <5>3 DEF HeldInv, TypeOK
        <5>5. QED
          BY <5>2, <5>4
      <4>4. QED
        BY <3>1, <4>1, <4>2, <4>3 DEF LoopKept, DmKept
    <3>11. CASE Unmount
      <4>1. PICK e \in frame.entry :
              /\ mounts' = {m \in mounts : m.point # e.point}
              /\ dm' = dm \/ dm' = [dm EXCEPT ![e.point] = 0]
              /\ FreeUnused(autoclear \cup ({e.loop} \ {0}), dm', mounts' \cup bound)
              /\ spoiled' = IF dm'[e.point] = 0 THEN spoiled ELSE spoiled \cup {"dm"}
        BY <3>11 DEF Unmount, DeleteDm
      <4>2. pc = "unmount" /\ e \in Entries
        BY <1>0, <3>11, <4>1 DEF Unmount, HandlerInv
      <4>3. \A m \in mounts : m.point = e.point => m.loop = e.loop
        BY <3>1, <4>1, <4>2 DEF MountsInv, DatabaseInv, EntriesInv, IsOf
      <4>4. dm'[e.point] = 0 /\ e.point \in Points /\ e.loop \in 0 .. NumLoops
        BY <2>4, <4>1, <4>2 DEF Entries
      <4>5. autoclear \cup ({e.loop} \ {0}) \in SUBSET Loops
        BY <1>0, <4>4, MountsAssumption DEF Loops
      <4>6. \A l \in Loops : loop'[l] # NoFile => l \in autoclear'
              \/ (l \notin autoclear \cup ({e.loop} \ {0}) /\ loop[l] # NoFile)
        BY <1>0, <4>1, <4>5, Remains
      <4>7. ASSUME NEW l \in Loops, loop'[l] # NoFile PROVE LoopKept(l)'
        <5>1. l # 0
          BY MountsAssumption DEF Loops
        <5>2. QED
          BY <3>1, <4>1, <4>2, <4>3, <4>6, <4>7, <5>1 DEF LoopKept
      <4>8. ASSUME NEW p \in Points, dm'[p] # 0 PROVE DmKept(p)'
        <5>1. p # e.point /\ dm'[p] = dm[p]
          BY <1>0, <4>1, <4>4, <4>8 DEF TypeOK
        <5>2. QED
          BY <3>1, <4>1, <4>2, <4>8, <5>1 DEF DmKept
      <4>9. QED
        BY <4>7, <4>8
    <3>12. CASE UnbindOld
      BY <3>4, <3>12 DEF UnbindOld
    <3>13. ASSUME NEW f, NEW allow, UnmountPackage(f, allow), pc \notin {"verity", "mount"}
           PROVE  Goal
      BY <3>3, <3>4, <3>13 DEF UnmountPackage, kernel, devices
    <3>14. CASE UnmountAfterHook
      BY <3>3, <3>13, <3>14 DEF UnmountAfterHook, kernel, devices
    <3>15. ASSUME NEW f \in files, DeactivatePackage(f) PROVE Goal
      BY <3>13, <3>15 DEF DeactivatePackage, Serving
    <3>16. CASE MountPointTaken \/ BindNew \/ BindFails \/ UnmountFails \/ Populate
      BY <3>3, <3>16 DEF MountPointTaken, BindNew, BindFails, UnmountFails, Populate,
         kernel, devices
    <3>17. CASE ScanPackagesDir \/ VisitPackage \/ ScanEnds \/ UnmountDanglingMounts \/ UnlinkDangling
      BY <3>3, <3>17 DEF ScanPackagesDir, VisitPackage, ScanEnds, UnmountDanglingMounts,
         UnlinkDangling, kernel, devices
    <3>18. CASE BootCompleted \/ \E f \in files : \/ ActivatePackage(f) \/ PreinstallPackage(f)
                                                 \/ VerifyPackage(f) \/ UnstagePackage(f)
      BY <3>3, <3>18 DEF BootCompleted, ActivatePackage, PreinstallPackage, VerifyPackage,
         UnstagePackage, Serving, kernel, devices
    <3>19. CASE SetLatestAborts \/ RestartProcess
      BY <3>2, <3>19 DEF SetLatestAborts, RestartProcess
    <3>20. QED
      BY <1>3, <3>5, <3>6, <3>7, <3>8, <3>9, <3>10, <3>11, <3>12, <3>14, <3>15, <3>16,
         <3>17, <3>18, <3>19 DEF Next, Step, Request
  <2>5. QED
    BY <2>2, <2>3, <2>4 DEF FreedInv
<1>4. QED
  BY <1>1, <1>2, <1>3

\* DevicesAreFreed: when no handler runs, every loop and dm device is that of a
\* mount, whatever loop set-up, verification or mount failed half-way.
THEOREM DevicesAreAlwaysFreed == Spec => []DevicesAreFreed
<1>1. Init => FreedInv
  BY DEF Init, FreedInv
<1>2. MountsInv /\ FreedInv /\ [Next]_vars => FreedInv'
  BY StepFreed
<1>3. MountsInv /\ FreedInv => DevicesAreFreed
  <2>1. SUFFICES ASSUME MountsInv, FreedInv, Serving, spoiled \cap {"restart", "dm"} = {}
                 PROVE  /\ \A l \in Loops : loop[l] # NoFile
                             => \E m \in mounts \cup bound : m.loop = l
                        /\ \A p \in Points : dm[p] # 0
                             => \E m \in mounts : m.point = p /\ m.loop = dm[p]
    BY DEF DevicesAreFreed
  <2>2. ASSUME NEW p \in Points, dm[p] # 0
        PROVE  \E m \in mounts : m.point = p /\ m.loop = dm[p]
    BY <2>1, <2>2 DEF FreedInv, DmKept, Serving
  <2>3. ASSUME NEW l \in Loops, loop[l] # NoFile
        PROVE  \E m \in mounts \cup bound : m.loop = l
    <3>1. (\E m \in mounts : m.loop = l) \/ l \in autoclear
      BY <2>1, <2>3 DEF FreedInv, LoopKept, Serving
    <3>2. CASE l \in autoclear
      <4>1. InUse(l, dm, mounts \cup bound)
        BY <2>1, <3>2 DEF MountsInv, KernelInv
      <4>2. l # 0
        BY MountsAssumption DEF Loops
      <4>3. QED
        BY <2>2, <4>1, <4>2 DEF InUse
    <3>3. QED
      BY <3>1, <3>2
  <2>4. QED
    BY <2>2, <2>3
<1>4. QED
  BY MountsAlways, <1>1, <1>2, <1>3, PTL DEF Spec

-----------------------------------------------------------------------------
(* What is reported is bound.                                              *)

\* Entry e is bound, or its name has been vacated for the bind mount to come.
Shown(e) == \/ \E b \in bound : e.point = b.point
            \/ pc = "bind" /\ e.file.name = frame.file.name

ReportInv ==
  /\ "restart" \notin spoiled => \A e \in db : ~e.point.tmp
  /\ spoiled \cap {"restart", "bind"} = {} =>
       /\ \A b \in bound : \E e \in latest : e.point = b.point
       /\ \A e \in latest : Shown(e)

\* A mount point has the name of its package.
LEMMA PointsHaveNames ==
  ASSUME MountsInv
  PROVE  /\ \A b \in bound : b.point.name = b.file.name
         /\ Once => \A e \in db : /\ e.point.name = e.file.name
                                  /\ e.point = PointOf(e.file, e.point.tmp)
<1>1. \A m \in mounts \cup bound :
        m.point.name = m.file.name /\ m.point = PointOf(m.file, m.point.tmp)
  <2>1. \A m \in mounts \cup bound : MountSound(m)
    BY DEF MountsInv, KernelInv
  <2>2. \A f, t : PointOf(f, t).name = f.name
    BY DEF PointOf
  <2>3. QED
    BY <2>1, <2>2 DEF MountSound
<1>2. ASSUME Once, NEW e \in db
      PROVE  e.point.name = e.file.name /\ e.point = PointOf(e.file, e.point.tmp)
  <2>1. PICK m \in mounts : IsOf(e, m)
    BY <1>2 DEF MountsInv, DatabaseInv, EntriesInv
  <2>2. m.file = e.file /\ m.point = e.point
    BY <2>1 DEF IsOf
  <2>3. QED
    BY <1>1, <2>2
<1>3. QED
  BY <1>1, <1>2

\* A package is forgotten; it is unbound if it was active.
LEMMA UnmountPackageReports ==
  ASSUME MountsInv, Once, pc # "bind", NEW f \in ApexFiles, NEW allow,
         UnmountPackage(f, allow),
         \A b \in bound : \E e \in latest : e.point = b.point,
         \A e \in latest : Shown(e)
  PROVE  /\ \A b \in bound' : \E e \in latest' : e.point = b.point
         /\ \A e \in latest' : Shown(e)'
         /\ db' \subseteq db
<1> DEFINE e == LastOf(EntriesOf(f))
<1>0. IF e \in latest THEN Unbind(f.name) ELSE UNCHANGED bound
  BY DEF UnmountPackage, kernel
<1>1. e \in EntriesOf(f) /\ RemoveMountedApex(f)
  BY UnmountPackageMoves DEF MountsInv, UnmountPackage
<1> HIDE DEF e
<1>2. e \in db /\ e.file = f
  BY <1>1 DEF EntriesOf
<1>3. latest' = latest \ {e} /\ db' = db \ {e}
  BY <1>1, <1>2, RemovesOne DEF MountsInv, DatabaseInv
<1>4. /\ latest \subseteq db /\ \A o \in latest : o.file.name = e.file.name /\ e \in latest => o = e
  BY DEF MountsInv, DatabaseInv, LatestInv
<1>5. CASE e \in latest /\ Unbind(f.name)
  <2>1. bound' = {b \in bound : b.file.name # f.name}
    BY <1>5 DEF Unbind
  <2>2. ASSUME NEW b \in bound, NEW o \in latest, o.point = b.point
        PROVE  b \in bound' <=> o \in latest'
    <3>1. o.file.name = b.file.name
      BY <1>4, <2>2, PointsHaveNames
    <3>2. QED
      BY <1>2, <1>3, <1>4, <1>5, <2>1, <3>1
  <2>3. QED
    BY <1>3, <2>1, <2>2 DEF Shown
<1>6. CASE e \notin latest /\ UNCHANGED bound
  BY <1>3, <1>6 DEF Shown
<1>7. QED
  BY <1>0, <1>3, <1>5, <1>6

LEMMA StepReport ==
  ASSUME MountsInv, FreedInv, ReportInv, [Next]_vars PROVE ReportInv'
<1>0. TypeOK /\ HandlerInv /\ files \subseteq ApexFiles
  BY DEF MountsInv, TypeOK
<1>1. CASE ProcessDies /\ ~UNCHANGED vars
  <2>1. db' = {} /\ latest' = {} /\ pc' = "populate"
    BY <1>1 DEF ProcessDies
  <2>2. "restart" \in spoiled' \/ RebootDevice
    BY <1>0, <1>1, <2>1, SpoiledSteps
  <2>3. RebootDevice => bound' = {}
    BY DEF RebootDevice
  <2>4. QED
    BY <2>1, <2>2, <2>3 DEF ReportInv
<1>2. CASE UNCHANGED vars
  BY <1>2 DEF vars, kernel, database, ReportInv, Shown
<1>3. CASE ~ProcessDies /\ ~UNCHANGED vars
  <2> DEFINE Goal == /\ \A b \in bound' : \E e \in latest' : e.point = b.point
                     /\ \A e \in latest' : Shown(e)'
             Tidy == \A e \in db' : ~e.point.tmp
             Whole == spoiled' \cap {"restart", "bind"} = {}
  <2>1. ~RebootDevice /\ \A k \in {"restart", "bind"} : k \in spoiled => k \in spoiled'
    BY <1>0, <1>3, SpoiledSteps DEF RebootDevice
  <2>2. SUFFICES ASSUME "restart" \notin spoiled' PROVE Tidy /\ (Whole => Goal)
    BY DEF ReportInv
  <2>3. /\ Once /\ \A e \in db : ~e.point.tmp
        /\ pc = "populate" => mounts = {} /\ bound = {}
    BY <2>1, <2>2 DEF FreedInv, ReportInv, Once
  <2>4. ASSUME Whole PROVE /\ \A b \in bound : \E e \in latest : e.point = b.point
                           /\ \A e \in latest : Shown(e)
    BY <2>1, <2>4 DEF ReportInv
  <2>5. ASSUME UNCHANGED <<bound, latest>>, pc # "bind" PROVE Whole => Goal
    BY <2>4, <2>5 DEF Shown
  <2>6. CASE Mount \/ MountFlattened
    <3>1. UNCHANGED <<bound, latest>> /\ pc # "bind"
      BY <1>3, <2>6, MountIs DEF Mounted, CheckFails, database
    <3>2. Tidy
      BY <1>3, <2>3, <2>6, MountIs DEF Mounted, CheckFails, database
    <3>3. QED
      BY <2>5, <3>1, <3>2
  <2>7. CASE UnbindOld
    <3>1. /\ bound' = {b \in bound : b.file.name # frame.file.name}
          /\ UNCHANGED <<db, latest, frame>> /\ pc = "unbind" /\ pc' = "bind"
      BY <2>7 DEF UnbindOld, Unbind, database
    <3>2. ASSUME NEW b \in bound, NEW o \in latest, o.point = b.point
          PROVE  o.file.name = b.file.name
      BY <2>3, <3>2, PointsHaveNames DEF MountsInv, DatabaseInv, LatestInv
    <3>3. Whole => Goal
      BY <2>4, <3>1, <3>2 DEF Shown
    <3>4. QED
      BY <2>3, <3>1, <3>3
  <2>8. CASE BindNew
    <3> DEFINE f == frame.file  e == FirstOf(EntriesOf(f))
    <3>1. PICK m \in mounts : m.point = Point /\ bound' = bound \cup {m}
      BY <2>8 DEF BindNew
    <3>2. /\ pc = "bind" /\ UNCHANGED db /\ EntriesOf(f) # {} /\ EntriesOf(f) \subseteq Entries
          /\ latest' = {e} \cup {o \in latest : o.file.name # f.name}
      BY <1>0, <2>8 DEF BindNew, SetLatest, EntriesOf, TypeOK
    <3>3. e \in EntriesOf(f)
      BY <3>2, FirstOfFacts
    <3> HIDE DEF e
    <3>4. e \in db /\ e.file = f
      BY <3>3 DEF EntriesOf
    <3>5. e.point = m.point
      <4>1. e.point = PointOf(f, e.point.tmp) /\ ~e.point.tmp /\ e.point \in Points
        BY <1>0, <2>3, <3>4, PointsHaveNames DEF TypeOK, Entries
      <4>2. Point = PointOf(f, FALSE)
        BY <1>0, <3>2 DEF HandlerInv, Activations, Point
      <4>3. e.point.tmp = FALSE
        BY <4>1 DEF Points
      <4>4. QED
        BY <3>1, <4>1, <4>2, <4>3
    <3>6. \A b \in bound : b.file.name # f.name
      BY <3>2 DEF MountsInv, HeldInv
    <3>7. \A b \in bound, o \in latest : o.point = b.point => o.file.name # f.name
      BY <2>3, <3>6, PointsHaveNames DEF MountsInv, DatabaseInv, LatestInv
    <3>8. Whole => Goal
      BY <2>4, <3>1, <3>2, <3>5, <3>7 DEF Shown
    <3>9. QED
      BY <2>3, <3>2, <3>8
  <2>9. CASE BindFails
    <3>1. "bind" \in spoiled' /\ UNCHANGED db
      BY <2>9 DEF BindFails, database
    <3>2. QED
      BY <2>3, <3>1
  <2>10. ASSUME NEW f \in ApexFiles, NEW allow, UnmountPackage(f, allow), pc # "bind"
         PROVE  Tidy /\ (Whole => Goal)
    <3>1. db' \subseteq db
      BY <2>10 DEF UnmountPackage, RemoveMountedApex
    <3>2. QED
      BY <2>3, <2>4, <2>10, <3>1, UnmountPackageReports
  <2>11. CASE UnmountAfterHook
    <3>1. pc = "hook" /\ frame.file \in ApexFiles
      BY <1>0, <2>11 DEF UnmountAfterHook, HandlerInv
    <3>2. QED
      BY <2>3, <2>5, <2>10, <2>11, <3>1 DEF UnmountAfterHook, kernel, database
  <2>12. ASSUME NEW f \in files, DeactivatePackage(f) PROVE Tidy /\ (Whole => Goal)
    <3>1. UnmountPackage(f, TRUE) /\ pc = "idle" /\ f \in ApexFiles
      BY <1>0, <2>12 DEF DeactivatePackage, Serving
    <3>2. QED
      BY <2>10, <3>1
  <2>13. CASE UnmountDanglingMounts
    <3>1. /\ pc = "dangling" /\ UNCHANGED bound /\ frame.todo \subseteq db \ latest
      BY <1>0, <2>3, <2>13 DEF UnmountDanglingMounts, HandlerInv, MountsInv, DatabaseInv,
         EntriesInv, kernel
    <3>2. db' \subseteq db /\ UNCHANGED latest
      <4>1. CASE UNCHANGED database
        BY <4>1 DEF database
      <4>2. ASSUME NEW e \in frame.todo, RemoveMountedApex(e.file)
            PROVE  db' \subseteq db /\ UNCHANGED latest
        <5>1. e \in db /\ e \notin latest
          BY <3>1, <4>2
        <5>2. db' = db \ {e} /\ latest' = latest \ {e}
          BY <2>3, <4>2, <5>1, RemovesOne DEF MountsInv, DatabaseInv
        <5>3. QED
          BY <5>1, <5>2
      <4>3. QED
        BY <2>13, <4>1, <4>2 DEF UnmountDanglingMounts
    <3>3. QED
      BY <2>3, <2>5, <3>1, <3>2
  <2>14. CASE Populate
    <3>1. db' = {} /\ latest' = {} /\ bound' = {}
      BY <2>3, <2>14 DEF Populate, PopulateFromMounts, kernel
    <3>2. QED
      BY <3>1
  <2>15. ASSUME UNCHANGED <<bound, db, latest>>, pc # "bind" PROVE Tidy /\ (Whole => Goal)
    BY <2>3, <2>5, <2>15
  <2>16. CASE \/ MountPointTaken \/ CreateLoopDevice \/ VerityFails \/ CreateVerityDevice
              \/ MountFails \/ Unmount \/ UnmountFails
    BY <2>15, <2>16 DEF MountPointTaken, CreateLoopDevice, VerityFails,
       CreateVerityDevice, MountFails, Unmount, UnmountFails, kernel, database
  <2>17. CASE ScanPackagesDir \/ VisitPackage \/ ScanEnds \/ UnlinkDangling \/ BootCompleted
    BY <2>15, <2>17 DEF ScanPackagesDir, VisitPackage, ScanEnds, UnlinkDangling,
       BootCompleted, kernel, database
  <2>18. CASE \E f \in files : \/ ActivatePackage(f) \/ PreinstallPackage(f)
                               \/ VerifyPackage(f) \/ UnstagePackage(f)
    BY <2>15, <2>18 DEF ActivatePackage, PreinstallPackage, VerifyPackage,
       UnstagePackage, Serving, kernel, database
  <2>19. ~SetLatestAborts /\ ~RestartProcess /\ ~RebootDevice
    BY <1>3 DEF SetLatestAborts, RestartProcess, RebootDevice
  <2>20. QED
    BY <1>3, <2>6, <2>7, <2>8, <2>9, <2>11, <2>12, <2>13, <2>14, <2>16, <2>17, <2>18,
       <2>19 DEF Next, Step, Request
<1>4. QED
  BY <1>1, <1>2, <1>3

\* ReportedIsBound: when no handler runs, the versions that getActivePackages
\* reports are those that are bound to /apex/<package>, whatever else failed.
THEOREM ReportedIsAlwaysBound == Spec => []ReportedIsBound
<1>1. Init => FreedInv /\ ReportInv
  BY DEF Init, FreedInv, ReportInv
<1>2. MountsInv /\ FreedInv /\ ReportInv /\ [Next]_vars => FreedInv' /\ ReportInv'
  BY StepFreed, StepReport
<1>3. ReportInv => ReportedIsBound
  BY DEF ReportInv, Shown, ReportedIsBound, Serving
<1>4. QED
  BY MountsAlways, <1>1, <1>2, <1>3, PTL DEF Spec

-----------------------------------------------------------------------------
(* The newest versions are active once onStart is over.                    *)

\* A version of the package of f that is not older is active.
Covered(f) ==
  \E e \in latest : e.file.name = f.name /\ e.file.version >= f.version

\* The handler is about to mount or to bind f.
AtHand(f) == pc \notin {"scan", "visit"} /\ f = frame.file

\* The files that the scans have come to, and those that they are done with
\* between two scans.
BootFiles == {f \in files : f.dir = "data" \/ (frame.op = "builtin" /\ f.dir # "staging")}
DoneFiles == {f \in files : f.dir = "data" /\ frame.op = "builtin"}

\* No newer version is known than the one at hand.
NewestAtHand ==
  \A e \in db : e.file.name = frame.file.name /\ e.file \in files
    => e.file.version <= frame.file.version

BootInv ==
  phase = "booting" /\ spoiled = {} =>
    /\ \A e \in db : e.file \in files /\ (Covered(e.file) \/ AtHand(e.file))
    /\ pc = "scan" => \A f \in DoneFiles : Covered(f)
    /\ pc \notin {"populate", "scan"} =>
         \A f \in BootFiles \ frame.todo : Covered(f) \/ AtHand(f)
    /\ pc \in {"unbind", "bind"} => NewestAtHand
    /\ pc \in MountLabels => frame.newest = NewestAtHand

\* While nothing has gone wrong, a newer version in the database covers f.
LEMMA CoveredByNewer ==
  ASSUME TypeOK, NEW f \in ApexFiles, ~IsNewestVersion(f),
         \A e \in db : Covered(e.file) \/ AtHand(e.file), AtHand(f) \/ pc = "visit"
  PROVE  Covered(f)
<1>1. PICK e \in Others(f) : ~(e.file.version <= f.version)
  BY DEF IsNewestVersion
<1>2. /\ e \in db /\ e \in Entries /\ e.file.name = f.name /\ e.file \in ApexFiles
      /\ e.file # f
  <2>1. e \in db /\ e.file.name = f.name
    BY <1>1 DEF Others
  <2>2. e \in Entries
    BY <2>1 DEF TypeOK
  <2>3. e.file \in ApexFiles
    BY <2>2 DEF Entries
  <2>4. e.file # f
    BY <1>1, MountsAssumption
  <2>5. QED
    BY <2>1, <2>2, <2>3, <2>4
<1>3. Covered(e.file)
  BY <1>2 DEF AtHand
<1>4. PICK o \in latest : o.file.name = f.name /\ o.file.version >= e.file.version
  BY <1>2, <1>3 DEF Covered
<1>5. /\ o.file.version \in Nat /\ e.file.version \in Nat /\ f.version \in Nat
  BY <1>2, MountsAssumption DEF TypeOK, Entries
<1>6. o.file.version >= f.version
  BY <1>1, <1>4, <1>5
<1>7. QED
  BY <1>4, <1>6 DEF Covered

LEMMA VisitBoots ==
  ASSUME MountsInv, phase = "booting", VisitPackage,
         \A e \in db : e.file \in files /\ (Covered(e.file) \/ AtHand(e.file)),
         \A f \in BootFiles \ frame.todo : Covered(f) \/ AtHand(f)
  PROVE  BootInv'
<1>1. PICK f \in frame.todo : ActivatePackageImpl(frame.op, f, frame.todo \ {f})
  BY DEF VisitPackage
<1>2. /\ pc = "visit" /\ UNCHANGED <<files, db, latest, phase, spoiled>>
      /\ Scanning /\ frame.op \in Activations /\ frame.todo \subseteq files
  BY DEF VisitPackage, database, MountsInv, HandlerInv, Scanning, Activations
<1>3. f \in ApexFiles /\ frame.todo \ {f} \in SUBSET (ApexFiles \cup Entries) /\ TypeOK
  BY <1>2 DEF MountsInv, TypeOK
<1>4. /\ \A e \in db : Covered(e.file)
      /\ \A g \in BootFiles \ frame.todo : Covered(g)
  BY <1>2 DEF AtHand
<1>5. \A g : Covered(g)' <=> Covered(g)
  BY <1>2 DEF Covered
<1>6. CASE /\ SameVersion(f) # {}
           /\ LastOf(SameVersion(f)) \in latest \/ ~IsNewestVersion(f)
           /\ Over(frame.op, frame.todo \ {f})
  <2>1. /\ pc' = "visit" /\ frame'.op = frame.op /\ frame'.todo = frame.todo \ {f}
    BY <1>2, <1>6 DEF Over, Has, Scanning
  <2>2. Covered(f)
    <3>1. CASE ~IsNewestVersion(f)
      BY <1>2, <1>3, <1>4, <3>1, CoveredByNewer
    <3>2. CASE LastOf(SameVersion(f)) \in latest
      <4>1. SameVersion(f) \subseteq Entries
        BY <1>3 DEF SameVersion, Others, TypeOK
      <4>2. LastOf(SameVersion(f)) \in SameVersion(f)
        BY <1>6, <4>1, LastOfFacts
      <4>3. /\ LastOf(SameVersion(f)).file.name = f.name
            /\ LastOf(SameVersion(f)).file.version = f.version
        BY <4>2 DEF SameVersion, Others
      <4>4. QED
        BY <1>3, <3>2, <4>3, MountsAssumption DEF Covered
    <3>3. QED
      BY <1>6, <3>1, <3>2
  <2>3. BootFiles' = BootFiles
    BY <1>2, <2>1 DEF BootFiles
  <2>4. \A g \in BootFiles' \ frame'.todo : Covered(g)
    BY <1>4, <2>1, <2>2, <2>3
  <2>5. \A e \in db' : e.file \in files' /\ Covered(e.file)'
    BY <1>2, <1>4, <1>5
  <2>6. QED
    BY <1>5, <2>1, <2>4, <2>5 DEF BootInv, MountLabels
<1>7. CASE /\ \/ SameVersion(f) = {} /\ pc' = "mountPackage"
              \/ IsNewestVersion(f) /\ pc' = "unbind"
           /\ Has(frame', frame.op, f, 0, 0, IsNewestVersion(f), {}, frame.todo \ {f})
  <2>1. /\ frame'.op = frame.op /\ frame'.file = f /\ frame'.todo = frame.todo \ {f}
        /\ frame'.newest = IsNewestVersion(f)
    BY <1>7 DEF Has
  <2>2. BootFiles' = BootFiles
    BY <1>2, <2>1 DEF BootFiles
  <2>3. NewestAtHand' <=> IsNewestVersion(f)
    BY <1>2, <2>1 DEF NewestAtHand, IsNewestVersion, Others
  <2>4. \A g \in BootFiles' \ frame'.todo : Covered(g) \/ g = frame'.file
    BY <1>4, <2>1, <2>2
  <2>5. \A e \in db' : e.file \in files' /\ Covered(e.file)'
    BY <1>2, <1>4, <1>5
  <2>6. NewestAtHand' \in BOOLEAN /\ IsNewestVersion(f) \in BOOLEAN
    BY DEF NewestAtHand, IsNewestVersion
  <2>7. pc' \in MountLabels \cup {"unbind"} /\ (pc' = "unbind" => IsNewestVersion(f))
    BY <1>7 DEF MountLabels
  <2>8. QED
    BY <1>5, <2>1, <2>3, <2>4, <2>5, <2>6, <2>7 DEF BootInv, MountLabels, AtHand
<1>8. QED
  BY <1>1, <1>2, <1>3, <1>6, <1>7, ActivateMoves

\* The version at hand is mounted and entered.
LEMMA MountBoots ==
  ASSUME MountsInv, BootInv, phase = "booting", spoiled = {}, pc \in MountLabels,
         NEW entry \in Entries, entry.file = frame.file, entry.point = Point,
         Mounted(entry), UNCHANGED files
  PROVE  BootInv'
<1>0. /\ TypeOK /\ HandlerInv /\ frame.file \in ApexFiles /\ frame.file \in files
      /\ Scanning /\ frame.op \in Activations /\ frame.op # "verify"
  BY DEF MountsInv, HandlerInv, MountLabels, Scanning, Activations
<1>1. /\ db' = db \cup {entry} /\ UNCHANGED <<latest, phase, spoiled>>
  <2>1. ~entry.point.tmp
    BY <1>0, PointIsOfFile
  <2>2. QED
    BY <2>1 DEF Mounted
<1>2. /\ \A e \in db : e.file \in files /\ (Covered(e.file) \/ AtHand(e.file))
      /\ \A f \in BootFiles \ frame.todo : Covered(f) \/ AtHand(f)
      /\ frame.newest = NewestAtHand
  BY DEF BootInv, MountLabels
<1>3. \A f : Covered(f)' <=> Covered(f)
  BY <1>1 DEF Covered
<1>4. frame.file.version \in Nat
  BY <1>0, MountsAssumption
<1>5. NewestAtHand <=> IsNewestVersion(frame.file)
  BY DEF NewestAtHand, IsNewestVersion, Others
<1>6. CASE frame.newest /\ Stays("unbind")
  <2>1. UNCHANGED frame /\ pc' = "unbind"
    BY <1>6 DEF Stays
  <2>2. BootFiles' = BootFiles
    BY <2>1 DEF BootFiles
  <2>9. NewestAtHand
    BY <1>2, <1>6
  <2>3. NewestAtHand'
    BY <1>1, <1>4, <2>1, <2>9 DEF NewestAtHand
  <2>4. \A f : AtHand(f) => AtHand(f)'
    BY <2>1 DEF AtHand
  <2>5. AtHand(entry.file)' /\ entry.file \in files'
    BY <1>0, <2>1 DEF AtHand
  <2>6. \A e \in db' : e.file \in files' /\ (Covered(e.file)' \/ AtHand(e.file)')
    BY <1>1, <1>2, <1>3, <2>4, <2>5
  <2>7. \A f \in BootFiles' \ frame'.todo : Covered(f)' \/ AtHand(f)'
    BY <1>2, <1>3, <2>1, <2>2, <2>4
  <2>8. QED
    BY <2>1, <2>3, <2>6, <2>7 DEF BootInv, MountLabels
<1>7. CASE ~frame.newest /\ Over(frame.op, frame.todo)
  <2>1. pc' = "visit" /\ frame'.op = frame.op /\ frame'.todo = frame.todo
    BY <1>0, <1>7 DEF Over, Has, Scanning
  <2>2. Covered(frame.file)
    BY <1>0, <1>2, <1>5, <1>7, CoveredByNewer DEF AtHand, MountLabels
  <2>3. BootFiles' = BootFiles
    BY <2>1 DEF BootFiles
  <2>4. \A f : AtHand(f) => Covered(f)
    BY <2>2 DEF AtHand
  <2>5. \A e \in db' : e.file \in files' /\ Covered(e.file)'
    BY <1>0, <1>1, <1>2, <1>3, <2>2, <2>4
  <2>6. \A f \in BootFiles' \ frame'.todo : Covered(f)'
    BY <1>2, <1>3, <2>1, <2>3, <2>4
  <2>7. QED
    BY <2>1, <2>5, <2>6 DEF BootInv, MountLabels
<1>8. QED
  BY <1>0, <1>6, <1>7, MountedMoves DEF Activations

\* The version at hand is bound and becomes the latest.
LEMMA BindBoots ==
  ASSUME MountsInv, BootInv, phase = "booting", spoiled = {}, BindNew
  PROVE  BootInv'
<1> DEFINE f == frame.file  e == FirstOf(EntriesOf(f))
<1>0. /\ TypeOK /\ HandlerInv /\ f \in ApexFiles /\ pc = "bind" /\ Scanning
      /\ UNCHANGED <<files, db, phase, spoiled>>
  BY DEF BindNew, MountsInv, HandlerInv, Scanning
<1>1. /\ EntriesOf(f) # {} /\ EntriesOf(f) \subseteq Entries
      /\ latest' = {e} \cup {o \in latest : o.file.name # f.name}
  BY <1>0 DEF BindNew, SetLatest, EntriesOf, TypeOK
<1>2. e.file = f /\ e \in latest'
  <2>1. e \in EntriesOf(f)
    BY <1>1, FirstOfFacts
  <2>2. QED
    BY <1>1, <2>1 DEF EntriesOf
<1>3. /\ \A o \in db : o.file \in files /\ (Covered(o.file) \/ AtHand(o.file))
      /\ \A g \in BootFiles \ frame.todo : Covered(g) \/ AtHand(g)
      /\ NewestAtHand
  BY <1>0 DEF BootInv
<1>4. f.version \in Nat
  BY <1>0, MountsAssumption
<1> HIDE DEF e
<1>5. ASSUME NEW g \in ApexFiles, Covered(g) \/ AtHand(g)
      PROVE  Covered(g)'
  <2>1. CASE g = f
    BY <1>2, <1>4, <2>1 DEF Covered
  <2>2. CASE g # f
    <3>1. PICK o \in latest : o.file.name = g.name /\ o.file.version >= g.version
      BY <1>5, <2>2 DEF Covered, AtHand
    <3>2. CASE o.file.name # f.name
      BY <1>1, <3>1, <3>2 DEF Covered
    <3>3. CASE o.file.name = f.name
      <4>1. o \in db /\ o \in Entries
        BY <1>0, <3>1 DEF MountsInv, DatabaseInv, LatestInv, TypeOK
      <4>2. o.file.version <= f.version
        BY <1>3, <3>3, <4>1 DEF NewestAtHand
      <4>3. o.file.version \in Nat /\ g.version \in Nat
        BY <1>5, <4>1, MountsAssumption DEF Entries
      <4>4. f.version >= g.version /\ f.name = g.name
        BY <1>4, <3>1, <3>3, <4>2, <4>3
      <4>5. QED
        BY <1>2, <4>4 DEF Covered
    <3>4. QED
      BY <3>2, <3>3
  <2>3. QED
    BY <2>1, <2>2
<1>6. /\ pc' = "visit" /\ frame'.op = frame.op /\ frame'.todo = frame.todo
  <2>1. Over(frame.op, frame.todo)
    BY <1>0, DoneOver DEF BindNew
  <2>2. QED
    BY <1>0, <2>1 DEF Over, Has, Scanning
<1>7. BootFiles' = BootFiles /\ BootFiles \subseteq ApexFiles
  BY <1>0, <1>6 DEF BootFiles, TypeOK
<1>8. \A o \in db' : o.file \in files' /\ Covered(o.file)'
  BY <1>0, <1>3, <1>5 DEF TypeOK, Entries
<1>9. \A g \in BootFiles' \ frame'.todo : Covered(g)'
  BY <1>3, <1>5, <1>6, <1>7
<1>10. QED
  BY <1>6, <1>8, <1>9 DEF BootInv, MountLabels

\* The handler goes on with the file at hand.
LEMMA GoesOnBoots ==
  ASSUME BootInv, phase = "booting", spoiled = {}, UNCHANGED <<files, database>>,
         frame'.op = frame.op, frame'.file = frame.file, frame'.todo = frame.todo,
         frame'.newest = frame.newest,
         \/ pc \in MountLabels /\ pc' \in MountLabels
         \/ pc = "unbind" /\ pc' = "bind"
  PROVE  BootInv'
<1>1. UNCHANGED <<db, latest>>
  BY DEF database
<1>2. \A f : Covered(f)' <=> Covered(f)
  BY <1>1 DEF Covered
<1>3. \A f : AtHand(f) => AtHand(f)'
  BY DEF AtHand, MountLabels
<1>4. BootFiles' = BootFiles /\ NewestAtHand' = NewestAtHand
  BY <1>1 DEF BootFiles, NewestAtHand
<1>5. /\ \A e \in db : e.file \in files /\ (Covered(e.file) \/ AtHand(e.file))
      /\ \A f \in BootFiles \ frame.todo : Covered(f) \/ AtHand(f)
      /\ pc \in {"unbind", "bind"} => NewestAtHand
      /\ pc \in MountLabels => frame.newest = NewestAtHand
  BY DEF BootInv, MountLabels
<1>6. \A e \in db' : e.file \in files' /\ (Covered(e.file)' \/ AtHand(e.file)')
  BY <1>1, <1>2, <1>3, <1>5
<1>7. \A f \in BootFiles' \ frame'.todo : Covered(f)' \/ AtHand(f)'
  BY <1>2, <1>3, <1>4, <1>5
<1>8. QED
  BY <1>4, <1>5, <1>6, <1>7 DEF BootInv, MountLabels

LEMMA StepBoot ==
  ASSUME MountsInv, FreedInv, BootInv, [Next]_vars PROVE BootInv'
<1>0. /\ TypeOK /\ HandlerInv /\ HandlerInv' /\ TypeOK' /\ files \subseteq ApexFiles
  BY StepType, NextHandler DEF MountsInv, HandlerNext, TypeOK
<1>1. CASE UNCHANGED vars
  <2>1. UNCHANGED <<files, db, latest, pc, frame, phase, spoiled>>
    BY <1>1 DEF vars, database
  <2>2. QED
    BY <2>1 DEF BootInv, Covered, AtHand, BootFiles, DoneFiles, NewestAtHand
<1>2. CASE RebootDevice
  BY <1>2 DEF RebootDevice, ProcessDies, BootInv, MountLabels
<1>3. CASE ~RebootDevice /\ ~UNCHANGED vars
  <2>1. SUFFICES ASSUME phase' = "booting", spoiled' = {} PROVE BootInv'
    BY DEF BootInv
  <2>2. ~ProcessDies
    BY <1>0, <1>3, <2>1, SpoiledSteps DEF ProcessDies
  <2>3. spoiled = {}
    <3>1. /\ \A k \in {"activate", "bind", "dm", "restart", "twice", "check"} : k \notin spoiled
          /\ "umount" \notin spoiled
      BY <1>0, <1>3, <2>1, <2>2, SpoiledSteps
    <3>2. QED
      BY <1>0, <3>1 DEF TypeOK
  <2>4. CASE phase # "booting"
    <3>1. pc' = "populate" \/ Scanning'
      BY <1>0, <2>1 DEF HandlerInv
    <3>2. pc # "populate" /\ ~Scanning
      BY <1>0, <2>4 DEF HandlerInv
    <3>3. UNCHANGED phase \/ phase' # "booting" \/ ProcessDies
      BY DEF Next, Request, Step, ActivatePackage, DeactivatePackage, PreinstallPackage,
         VerifyPackage, UnstagePackage, BootCompleted, MountPointTaken, MountFlattened,
         CreateLoopDevice, VerityFails, CreateVerityDevice, Mount, Mounted, CheckFails,
         MountFails, UnbindOld, BindNew, BindFails, SetLatestAborts, Unmount, UnmountFails,
         UnmountAfterHook, Populate, ScanPackagesDir, VisitPackage, ScanEnds,
         UnmountDanglingMounts, UnlinkDangling, RestartProcess, RebootDevice, vars
    <3>4. QED
      BY <2>1, <2>2, <2>4, <3>3
  <2>5. CASE phase = "booting"
    <3>1. /\ pc = "populate" \/ Scanning
          /\ pc \notin {"idle", "hook", "unmount", "unlink", "dangling"}
      BY <1>0, <2>5 DEF HandlerInv, Scanning, EmptyFrame
    <3>2. ~Request
      BY <2>5, <3>1 DEF Request, ActivatePackage, DeactivatePackage, PreinstallPackage,
         VerifyPackage, UnstagePackage, BootCompleted, Serving
    <3>3. /\ ~Unmount /\ ~UnmountFails /\ ~UnmountAfterHook /\ ~UnmountDanglingMounts
          /\ ~UnlinkDangling /\ ~SetLatestAborts /\ ~RestartProcess /\ ~RebootDevice
      BY <1>3, <2>2, <3>1 DEF Unmount, UnmountFails, UnmountAfterHook,
         UnmountDanglingMounts, UnlinkDangling, SetLatestAborts, RestartProcess
    <3>4. ~Fails /\ ~MountPointTaken /\ ~VerityFails /\ ~MountFails /\ ~BindFails
      <4>1. ~Fails \/ pc = "populate"
        BY <2>1, <3>1 DEF Fails, Scanning
      <4>2. pc = "populate" =>
              /\ ~MountPointTaken /\ ~VerityFails /\ ~MountFails /\ ~BindFails
        BY DEF MountPointTaken, VerityFails, MountFails, BindFails
      <4>3. pc = "populate" \/ (~MountFails /\ ~BindFails)
        BY <2>1, <3>1 DEF MountFails, BindFails
      <4>4. ~Fails
        <5>1. CASE pc = "populate"
          <6>1. frame.op = "none"
            BY <1>0, <5>1 DEF HandlerInv, EmptyFrame
          <6>2. Fails => pc' = "idle" /\ frame'.op = "none"
            BY <1>0, <6>1, DoneOver DEF Fails, Over, EmptyFrame
          <6>3. QED
            BY <1>0, <2>1, <6>2 DEF HandlerInv, Scanning
        <5>2. QED
          BY <4>1, <5>1
      <4>5. QED
        BY <4>2, <4>3, <4>4 DEF MountPointTaken, VerityFails
    <3>5. CASE Mount \/ MountFlattened
      <4>1. pc \in MountLabels /\ UNCHANGED files
        BY <3>5, MountIs DEF MountLabels
      <4>2. /\ LoopEntry \in Entries /\ FlatMount \in Entries
            /\ LoopEntry.file = frame.file /\ LoopEntry.point = Point
            /\ FlatMount.file = frame.file /\ FlatMount.point = Point
        BY <1>0, <4>1, MountTypes DEF FlatMount
      <4>3. Mounted(LoopEntry) \/ Mounted(FlatMount)
        BY <2>2, <3>4, <3>5, MountIs DEF CheckFails
      <4>4. QED
        BY <2>3, <2>5, <4>1, <4>2, <4>3, MountBoots
    <3>6. CASE BindNew
      BY <2>3, <2>5, <3>6, BindBoots
    <3>7. CASE VisitPackage
      BY <2>3, <2>5, <3>7, VisitBoots DEF BootInv, VisitPackage, MountLabels
    <3>8. CASE CreateLoopDevice
      <4>1. /\ pc \in MountLabels /\ UNCHANGED <<files, database>>
            /\ pc' \in {"verity", "mountPackage"}
        BY <1>0, <3>4, <3>8, CreateLoopDeviceMoves DEF CreateLoopDevice, MountLabels
      <4>2. /\ frame'.op = frame.op /\ frame'.file = frame.file
            /\ frame'.todo = frame.todo /\ frame'.newest = frame.newest
        BY <1>0, <3>4, <3>8, CreateLoopDeviceMoves DEF Has
      <4>3. QED
        BY <2>3, <2>5, <4>1, <4>2, GoesOnBoots DEF MountLabels
    <3>9. CASE CreateVerityDevice \/ UnbindOld
      BY <2>3, <2>5, <3>9, GoesOnBoots DEF CreateVerityDevice, UnbindOld, MountLabels
    <3>10. CASE Populate
      <4>1. mounts = {}
        BY <2>3, <3>10 DEF Populate, FreedInv
      <4>2. db' = {} /\ pc' = "scan" /\ frame'.op = "data"
        <5>1. Has([EmptyFrame EXCEPT !.op = "data"], "data", NoFile, 0, 0, FALSE, {}, {})
          BY EmptyFrameFields, FrameUpdates DEF Ops
        <5>2. QED
          BY <3>10, <4>1, <5>1 DEF Populate, PopulateFromMounts, Has
      <4>3. QED
        BY <4>2 DEF BootInv, DoneFiles, MountLabels
    <3>11. CASE ScanPackagesDir
      <4> DEFINE todo == ToActivate({f \in files : f.dir \in ScannedDirs})
      <4>1. /\ pc = "scan" /\ pc' = "visit" /\ UNCHANGED <<files, db, latest>>
            /\ frame' = [frame EXCEPT !.todo = todo] /\ Scanning
        BY <1>0, <3>11 DEF ScanPackagesDir, database, HandlerInv
      <4>2. todo \in SUBSET (ApexFiles \cup Entries) /\ frame \in Frames
        BY <1>0 DEF ToActivate, TypeOK
      <4>3. frame'.todo = todo /\ frame'.op = frame.op
        <5> HIDE DEF todo
        <5>1. Has(frame', frame.op, frame.file, frame.loop, frame.tries, frame.newest,
                  frame.entry, todo)
          BY <4>1, <4>2, FrameFields, FrameUpdates
        <5>2. QED
          BY <5>1 DEF Has
      <4>4. \A f : Covered(f)' <=> Covered(f)
        BY <4>1 DEF Covered
      <4>5. /\ \A e \in db : e.file \in files /\ Covered(e.file)
            /\ \A f \in DoneFiles : Covered(f)
        BY <2>3, <2>5, <4>1 DEF BootInv, AtHand
      <4>6. BootFiles' = BootFiles
        BY <4>1, <4>3 DEF BootFiles
      <4>7. ASSUME NEW f \in BootFiles, f \notin todo PROVE Covered(f)
        <5>1. CASE f \in DoneFiles
          BY <4>5, <5>1
        <5>2. CASE f \notin DoneFiles
          <6>1. f \in files /\ f.dir \in ScannedDirs
            <7>1. f \in files /\ f.dir \in Dirs
              BY <1>0, <4>7, MountsAssumption DEF BootFiles
            <7>2. QED
              BY <4>1, <4>7, <5>2, <7>1
              DEF BootFiles, DoneFiles, ScannedDirs, Dirs, Scanning
          <6>2. PICK a \in GetActivePackages : a.name = f.name /\ a.version >= f.version
            BY <4>7, <6>1 DEF ToActivate
          <6>3. QED
            BY <6>2 DEF GetActivePackages, Covered
        <5>3. QED
          BY <5>1, <5>2
      <4> HIDE DEF todo
      <4>8. \A e \in db' : e.file \in files' /\ Covered(e.file)'
        BY <4>1, <4>4, <4>5
      <4>9. \A f \in BootFiles' \ frame'.todo : Covered(f)'
        BY <4>3, <4>4, <4>6, <4>7
      <4>10. QED
        BY <4>1, <4>8, <4>9 DEF BootInv, MountLabels
    <3>12. CASE ScanEnds
      <4>1. /\ pc = "visit" /\ frame.todo = {} /\ frame.op = "data" /\ pc' = "scan"
            /\ frame' = [EmptyFrame EXCEPT !.op = "builtin"]
            /\ UNCHANGED <<files, db, latest>>
        BY <2>1, <3>12 DEF ScanEnds, database
      <4>2. \A f : Covered(f)' <=> Covered(f)
        BY <4>1 DEF Covered
      <4>3. /\ \A e \in db : e.file \in files /\ Covered(e.file)
            /\ \A f \in BootFiles : Covered(f)
        BY <2>3, <2>5, <4>1 DEF BootInv, AtHand
      <4>4. DoneFiles' \subseteq BootFiles
        BY <4>1 DEF DoneFiles, BootFiles
      <4>5. /\ \A e \in db' : e.file \in files' /\ Covered(e.file)'
            /\ \A f \in DoneFiles' : Covered(f)'
        BY <4>1, <4>2, <4>3, <4>4
      <4>6. QED
        BY <4>1, <4>5 DEF BootInv, MountLabels
    <3>13. QED
      BY <1>3, <3>2, <3>3, <3>4, <3>5, <3>6, <3>7, <3>8, <3>9, <3>10, <3>11, <3>12
         DEF Next, Step
  <2>6. QED
    BY <2>4, <2>5
<1>4. QED
  BY <1>1, <1>2, <1>3

\* onStart is over.
LEMMA BootEnds ==
  ASSUME MountsInv, BootInv, [Next]_vars, phase = "booting", phase' = "serving",
         spoiled = {}
  PROVE  \A f \in files : f.dir # "staging" => Covered(f)
<1>0. TypeOK /\ HandlerInv
  BY DEF MountsInv
<1>1. ScanEnds
  BY DEF Next, Request, Step, ActivatePackage, DeactivatePackage, PreinstallPackage,
     VerifyPackage, UnstagePackage, BootCompleted, MountPointTaken, MountFlattened,
     CreateLoopDevice, VerityFails, CreateVerityDevice, Mount, Mounted, CheckFails,
     MountFails, UnbindOld, BindNew, BindFails, SetLatestAborts, Unmount, UnmountFails,
     UnmountAfterHook, Populate, ScanPackagesDir, VisitPackage, UnmountDanglingMounts,
     UnlinkDangling, RestartProcess, RebootDevice, ProcessDies, vars
<1>2. pc = "visit" /\ frame.todo = {} /\ frame.op = "builtin" /\ UNCHANGED latest
  BY <1>0, <1>1 DEF ScanEnds, database, HandlerInv, Scanning
<1>3. \A f \in BootFiles : Covered(f)
  BY <1>2 DEF BootInv, AtHand
<1>4. QED
  BY <1>2, <1>3 DEF BootFiles, Covered

\* BootActivatesNewest: onStart ends with the newest version of every package
\* active, whether it is in /data or builtin, when nothing went wrong.
THEOREM BootAlwaysActivatesNewest == Spec => BootActivatesNewest
<1>1. Init => FreedInv /\ BootInv
  BY DEF Init, FreedInv, BootInv, MountLabels
<1>2. MountsInv /\ FreedInv /\ BootInv /\ [Next]_vars => FreedInv' /\ BootInv'
  BY StepFreed, StepBoot
<1>3. MountsInv /\ BootInv /\ [Next]_vars
        => [phase = "booting" /\ phase' = "serving" /\ spoiled = {} =>
              \A f \in files : f.dir # "staging" =>
                \E e \in latest : /\ e.file.name = f.name
                                  /\ e.file.version >= f.version]_vars
  BY BootEnds DEF Covered
<1>4. QED
  BY MountsAlways, <1>1, <1>2, <1>3, PTL DEF Spec, BootActivatesNewest
=============================================================================
