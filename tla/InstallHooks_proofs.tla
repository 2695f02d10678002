------------------------ MODULE InstallHooks_proofs ------------------------
(***************************************************************************)
(* That hooks and the calls that run them leave the host's mounts alone,   *)
(* clean up after themselves and see their packages, for any number of     *)
(* calls and packages.                                                     *)
(***************************************************************************)
EXTENDS InstallHooks, FiniteSetTheorems, SequenceTheorems, TLAPS

-----------------------------------------------------------------------------
(* Sequences of packages.                                                  *)

\* The elements of a sequence.
LEMMA ToSetFacts ==
  ASSUME NEW S, NEW s \in Seq(S)
  PROVE  /\ ToSet(s) \subseteq S
         /\ \A x \in S : ToSet(Append(s, x)) = ToSet(s) \cup {x}
         /\ s # <<>> => /\ Head(s) \in S /\ Tail(s) \in Seq(S)
                        /\ ToSet(s) = {Head(s)} \cup ToSet(Tail(s))
<1>1. ToSet(s) \subseteq S
  BY DEF ToSet
<1>2. ASSUME NEW x \in S
      PROVE  ToSet(Append(s, x)) = ToSet(s) \cup {x}
  <2>1. /\ DOMAIN Append(s, x) = 1 .. Len(s) + 1
        /\ Append(s, x)[Len(s) + 1] = x
        /\ \A i \in 1 .. Len(s) : Append(s, x)[i] = s[i]
    OBVIOUS
  <2>2. DOMAIN s = 1 .. Len(s) /\ Len(s) \in Nat
    OBVIOUS
  <2>3. \A i \in 1 .. Len(s) + 1 : Append(s, x)[i] \in ToSet(s) \cup {x}
    BY <2>1, <2>2 DEF ToSet
  <2>4. \A i \in 1 .. Len(s) : s[i] \in ToSet(Append(s, x))
    BY <2>1, <2>2 DEF ToSet
  <2>5. x \in ToSet(Append(s, x))
    <3>1. Len(s) + 1 \in DOMAIN Append(s, x)
      BY <2>1, <2>2
    <3>2. QED
      BY <2>1, <3>1 DEF ToSet
  <2>6. ToSet(Append(s, x)) \subseteq ToSet(s) \cup {x}
    BY <2>1, <2>3 DEF ToSet
  <2>7. ToSet(s) \subseteq ToSet(Append(s, x))
    BY <2>2, <2>4 DEF ToSet
  <2>8. QED
    BY <2>5, <2>6, <2>7
<1>3. ASSUME s # <<>>
      PROVE  /\ Head(s) \in S /\ Tail(s) \in Seq(S)
             /\ ToSet(s) = {Head(s)} \cup ToSet(Tail(s))
  <2>1. /\ Len(s) \in Nat \ {0} /\ DOMAIN s = 1 .. Len(s)
        /\ Head(s) = s[1] /\ Tail(s) \in Seq(S)
        /\ DOMAIN Tail(s) = 1 .. Len(s) - 1
        /\ \A i \in 1 .. Len(s) - 1 : Tail(s)[i] = s[i + 1]
    BY <1>3
  <2>2. ToSet(s) \subseteq {Head(s)} \cup ToSet(Tail(s))
    <3> SUFFICES ASSUME NEW i \in 1 .. Len(s), i # 1
                 PROVE  s[i] \in ToSet(Tail(s))
      BY <2>1 DEF ToSet
    <3>1. i - 1 \in 1 .. Len(s) - 1 /\ s[i] = Tail(s)[i - 1]
      BY <2>1
    <3>2. QED
      BY <3>1, <2>1 DEF ToSet
  <2>3. Head(s) \in ToSet(s)
    <3>1. 1 \in DOMAIN s
      BY <2>1
    <3>2. QED
      BY <2>1, <3>1 DEF ToSet
  <2>4. ToSet(Tail(s)) \subseteq ToSet(s)
    <3>1. \A i \in 1 .. Len(s) - 1 : i + 1 \in DOMAIN s
      BY <2>1
    <3>2. QED
      BY <2>1, <3>1 DEF ToSet
  <2>5. QED
    BY <2>1, <2>2, <2>3, <2>4
<1>4. QED
  BY <1>1, <1>2, <1>3

LEMMA ToSetEmpty == ToSet(<<>>) = {}
BY DEF ToSet

LEMMA ToSetConcat ==
  ASSUME NEW S, NEW s \in Seq(S), NEW t \in Seq(S)
  PROVE  s \o t \in Seq(S) /\ ToSet(s \o t) = ToSet(s) \cup ToSet(t)
<1>1. /\ s \o t \in Seq(S) /\ Len(s \o t) = Len(s) + Len(t)
      /\ \A i \in 1 .. Len(s) + Len(t) : (s \o t)[i] =
           IF i <= Len(s) THEN s[i] ELSE t[i - Len(s)]
  BY ConcatProperties
<1>2. /\ Len(s) \in Nat /\ DOMAIN s = 1 .. Len(s)
      /\ Len(t) \in Nat /\ DOMAIN t = 1 .. Len(t)
      /\ DOMAIN (s \o t) = 1 .. Len(s) + Len(t)
  BY <1>1
<1> DEFINE st == s \o t
<1> HIDE DEF st
<1>3. ToSet(st) \subseteq ToSet(s) \cup ToSet(t)
  <2> SUFFICES ASSUME NEW i \in 1 .. Len(s) + Len(t)
               PROVE  st[i] \in ToSet(s) \cup ToSet(t)
    BY <1>2 DEF ToSet, st
  <2>1. CASE i <= Len(s)
    <3>1. st[i] = s[i] /\ i \in DOMAIN s
      BY <2>1, <1>1, <1>2 DEF st
    <3>2. QED
      BY <3>1 DEF ToSet
  <2>2. CASE ~(i <= Len(s))
    <3>1. st[i] = t[i - Len(s)] /\ i - Len(s) \in DOMAIN t
      BY <2>2, <1>1, <1>2 DEF st
    <3>2. QED
      BY <3>1 DEF ToSet
  <2>3. QED
    BY <2>1, <2>2
<1>4. ToSet(s) \subseteq ToSet(st)
  <2> SUFFICES ASSUME NEW i \in 1 .. Len(s) PROVE s[i] \in ToSet(st)
    BY <1>2 DEF ToSet
  <2>1. i \in DOMAIN st /\ st[i] = s[i]
    BY <1>1, <1>2 DEF st
  <2>2. QED
    BY <2>1 DEF ToSet
<1>5. ToSet(t) \subseteq ToSet(st)
  <2> SUFFICES ASSUME NEW i \in 1 .. Len(t) PROVE t[i] \in ToSet(st)
    BY <1>2 DEF ToSet
  <2>1. i + Len(s) \in DOMAIN st /\ st[i + Len(s)] = t[i]
    BY <1>1, <1>2 DEF st
  <2>2. QED
    BY <2>1 DEF ToSet
<1>6. QED
  BY <1>1, <1>3, <1>4, <1>5 DEF st

\* The child's arguments are the packages of the call.
LEMMA ArgsFacts ==
  ASSUME NEW S, NEW fs \in Seq(S), \E f \in ToSet(fs) : f.hook
  PROVE  Args(fs) \in Seq(S) /\ Args(fs) # <<>> /\ ToSet(Args(fs)) = ToSet(fs)
<1> DEFINE k == CHOOSE i \in DOMAIN fs : fs[i].hook
           l == SubSeq(fs, 1, k - 1)
           r == SubSeq(fs, k + 1, Len(fs))
<1>1. k \in 1 .. Len(fs) /\ Len(fs) \in Nat /\ DOMAIN fs = 1 .. Len(fs)
  BY DEF ToSet
<1> HIDE DEF k
<1>2. /\ l \in Seq(S) /\ DOMAIN l = 1 .. k - 1
      /\ \A i \in 1 .. k - 1 : l[i] = fs[i]
  BY <1>1
<1>3. /\ r \in Seq(S) /\ DOMAIN r = 1 .. Len(fs) - k
      /\ \A i \in 1 .. Len(fs) - k : r[i] = fs[i + k]
  BY <1>1
<1>4. Args(fs) = <<fs[k]>> \o (l \o r)
  BY DEF Args, RemoveAt, k
<1> HIDE DEF l, r
<1>5. l \o r \in Seq(S) /\ ToSet(l \o r) = ToSet(l) \cup ToSet(r)
  BY <1>2, <1>3, ToSetConcat
<1>6. <<fs[k]>> \in Seq(S) /\ ToSet(<<fs[k]>>) = {fs[k]}
  BY <1>1 DEF ToSet
<1>7. Args(fs) \in Seq(S) /\ ToSet(Args(fs)) = {fs[k]} \cup ToSet(l) \cup ToSet(r)
  <2> DEFINE lr == l \o r
             h == <<fs[k]>>
  <2>1. lr \in Seq(S) /\ h \in Seq(S)
    BY <1>5, <1>6
  <2> HIDE DEF lr, h
  <2>2. h \o lr \in Seq(S) /\ ToSet(h \o lr) = ToSet(h) \cup ToSet(lr)
    BY <2>1, ToSetConcat
  <2>3. QED
    BY <2>2, <1>4, <1>5, <1>6 DEF lr, h
<1>8. ToSet(l) \cup ToSet(r) \cup {fs[k]} \subseteq ToSet(fs)
  <2>1. \A i \in 1 .. Len(fs) - k : i + k \in 1 .. Len(fs)
    BY <1>1
  <2>2. \A i \in 1 .. k - 1 : i \in 1 .. Len(fs)
    BY <1>1
  <2>3. ToSet(l) \subseteq ToSet(fs)
    BY <1>1, <1>2, <2>2 DEF ToSet
  <2>4. ToSet(r) \subseteq ToSet(fs)
    BY <1>1, <1>3, <2>1 DEF ToSet
  <2>5. QED
    BY <1>1, <2>3, <2>4 DEF ToSet
<1>9. ASSUME NEW i \in 1 .. Len(fs)
      PROVE  fs[i] \in {fs[k]} \cup ToSet(l) \cup ToSet(r)
  <2>1. CASE i < k
    <3>1. i \in DOMAIN l /\ l[i] = fs[i]
      BY <2>1, <1>1, <1>2
    <3>2. QED
      BY <3>1 DEF ToSet
  <2>2. CASE i > k
    <3>1. i - k \in DOMAIN r /\ r[i - k] = fs[(i - k) + k] /\ (i - k) + k = i
      BY <2>2, <1>1, <1>3
    <3>2. QED
      BY <3>1 DEF ToSet
  <2>3. QED
    BY <2>1, <2>2, <1>1
<1>10. ToSet(Args(fs)) = ToSet(fs)
  BY <1>1, <1>7, <1>8, <1>9 DEF ToSet
<1>11. Args(fs) # <<>>
  <2>1. fs[k] \in ToSet(Args(fs))
    BY <1>7
  <2>2. QED
    BY <2>1, ToSetEmpty
<1>12. QED
  BY <1>7, <1>10, <1>11

-----------------------------------------------------------------------------
(* Types, and where the calls stand.                                       *)

Labels == {"idle", "isMounted", "mount", "add", "mkdir", "fork", "wait",
           "unmountPackage", "unmount", "rmdir", "done"}

ChildLabels == {"none", "unshare", "private", "unbind", "bind", "exec", "hook"}

\* What a call and its child hold at their labels.
CallStands(c) ==
  /\ pc[c] \in {"idle", "done"} => frame[c] = EmptyFrame
  /\ pc[c] \in {"unmountPackage", "unmount", "rmdir"} => frame[c].apexes = <<>>
  /\ pc[c] = "rmdir" => frame[c].mounted = <<>>
  /\ pc[c] \in {"mount", "add", "mkdir", "unmount"} => frame[c].file \in ApexFiles
  /\ pc[c] \in {"isMounted", "mount", "add", "mkdir", "fork"} =>
       \E f \in ToSet(frame[c].apexes) : f.hook
  /\ child[c] # "none" => pc[c] = "wait"
  /\ child[c] \in {"unshare", "private", "unbind"} => frame[c].todo # <<>>
  /\ child[c] = "bind" => frame[c].file \in ApexFiles

ControlInv ==
  /\ main.pc = "unmount" => main.file \in ApexFiles
  /\ \A c \in Calls : CallStands(c)

\* The mount points of a file.
LEMMA PointTypes ==
  ASSUME NEW f \in ApexFiles
  PROVE  /\ PointOf(f) \in Points /\ ActivePoint(f) \in Points
         /\ [at |-> PointOf(f), file |-> f] \in Mounts
         /\ \A g \in ApexFiles \cup {NoFile} :
              [at |-> ActivePoint(f), file |-> g] \in Mounts
         /\ PointOf(f).name = f.name /\ PointOf(f).version \in Nat \ {0}
         /\ ActivePoint(f).name = f.name /\ ActivePoint(f).version = 0
BY HooksAssumption DEF Points, Mounts, PointOf, ActivePoint

\* A step of a call within its own frame.
LEMMA GotoFacts ==
  ASSUME TypeOK, NEW c \in Calls, NEW l \in Labels, NEW fr \in Frames,
         Goto(c, l, fr)
  PROVE  /\ pc' \in [Calls -> Labels] /\ frame' \in [Calls -> Frames]
         /\ pc'[c] = l /\ frame'[c] = fr
         /\ \A d \in Calls \ {c} : pc'[d] = pc[d] /\ frame'[d] = frame[d]
BY DEF TypeOK, Goto, Labels

LEMMA FrameFields ==
  ASSUME NEW fr \in Frames
  PROVE  /\ fr.apexes \in Seq(ApexFiles) /\ fr.todo \in Seq(ApexFiles)
         /\ fr.file \in ApexFiles \cup {NoFile}
         /\ fr.mounted \in Seq(ApexFiles) /\ fr.dirs \in Seq(Points)
BY DEF Frames

LEMMA EmptyFrameType == EmptyFrame \in Frames
BY DEF EmptyFrame, Frames

LEMMA CleanFrame ==
  ASSUME NEW m, NEW d
  PROVE  [EmptyFrame EXCEPT !.mounted = m, !.dirs = d]
           = [apexes |-> <<>>, todo |-> <<>>, file |-> NoFile,
              mounted |-> m, dirs |-> d]
<1> DEFINE fr == [EmptyFrame EXCEPT !.mounted = m]
<1>1. fr = [apexes |-> <<>>, todo |-> <<>>, file |-> NoFile,
            mounted |-> m, dirs |-> <<>>]
  BY DEF EmptyFrame
<1> HIDE DEF fr
<1>2. [fr EXCEPT !.dirs = d]
        = [apexes |-> <<>>, todo |-> <<>>, file |-> NoFile,
           mounted |-> m, dirs |-> d]
  BY <1>1
<1>3. QED
  BY <1>2 DEF fr

LEMMA CleanUpFacts ==
  ASSUME TypeOK, NEW c \in Calls, CleanUp(c)
  PROVE  /\ pc' \in [Calls -> Labels] /\ frame' \in [Calls -> Frames]
         /\ pc'[c] = "unmountPackage" /\ frame'[c].apexes = <<>>
         /\ frame'[c].mounted = frame[c].mounted
         /\ frame'[c].dirs = frame[c].dirs
         /\ \A d \in Calls \ {c} : pc'[d] = pc[d] /\ frame'[d] = frame[d]
<1> DEFINE fr == [EmptyFrame EXCEPT !.mounted = frame[c].mounted,
                                    !.dirs = frame[c].dirs]
<1>1. frame[c] \in Frames
  BY DEF TypeOK
<1>2. /\ fr \in Frames /\ fr.apexes = <<>>
      /\ fr.mounted = frame[c].mounted /\ fr.dirs = frame[c].dirs
  <2>1. fr = [apexes |-> <<>>, todo |-> <<>>, file |-> NoFile,
              mounted |-> frame[c].mounted, dirs |-> frame[c].dirs]
    BY CleanFrame
  <2>2. frame[c].mounted \in Seq(ApexFiles) /\ frame[c].dirs \in Seq(Points)
    BY <1>1, FrameFields
  <2>3. <<>> \in Seq(ApexFiles)
    OBVIOUS
  <2> HIDE DEF fr
  <2>4. fr \in Frames
    BY <2>1, <2>2, <2>3 DEF Frames
  <2>5. QED
    BY <2>1, <2>4
<1>3. Goto(c, "unmountPackage", fr)
  BY DEF CleanUp
<1> HIDE DEF fr
<1>4. QED
  BY <1>2, <1>3, GotoFacts DEF Labels

\* The mounts stay of their type whatever the kernel is asked.
LEMMA MountTypes ==
  ASSUME TypeOK
  PROVE  /\ \A ns \in Namespaces, p \in Points, f \in ApexFiles \cup {NoFile} :
              [at |-> p, file |-> f] \in Mounts /\ MountIn(ns, p, f)
                => mounts' \in [Namespaces -> SUBSET Mounts]
         /\ \A ns, p : UmountIn(ns, p) => mounts' \in [Namespaces -> SUBSET Mounts]
         /\ \A p : Detach(p) => /\ mounts' \in [Namespaces -> SUBSET Mounts]
                                /\ dirs' \subseteq Points
         /\ \A p : RemoveDir(p) => /\ mounts' \in [Namespaces -> SUBSET Mounts]
                                   /\ dirs' \subseteq Points
BY DEF TypeOK, MountIn, UmountIn, Detach, RemoveDir

LEMMA InitType == Init => TypeOK /\ ControlInv
<1> SUFFICES ASSUME Init PROVE TypeOK /\ ControlInv
  OBVIOUS
<1>1. Installed \subseteq ApexFiles /\ Active \subseteq ApexFiles
  BY HooksAssumption
<1>2. dirs \subseteq Points
  BY <1>1, PointTypes DEF Init
<1>3. mounts \in [Namespaces -> SUBSET Mounts]
  <2>1. {[at |-> PointOf(f), file |-> f] : f \in Installed} \subseteq Mounts
    BY <1>1, PointTypes
  <2>2. {[at |-> ActivePoint(f), file |-> f] : f \in Active} \subseteq Mounts
    BY <1>1, PointTypes
  <2>3. QED
    BY <2>1, <2>2 DEF Init
<1>4. frame \in [Calls -> Frames]
  BY EmptyFrameType DEF Init
<1>5. TypeOK
  BY <1>1, <1>2, <1>3, <1>4 DEF Init, TypeOK
<1>6. ControlInv
  BY DEF Init, ControlInv, CallStands
<1>7. QED
  BY <1>5, <1>6

-----------------------------------------------------------------------------
(* What each step of a call makes of its frame.                            *)

\* Frame g has these fields.
Has(g, apexes, todo, file, mounted, dirlist) ==
  /\ g \in Frames
  /\ g.apexes = apexes /\ g.todo = todo /\ g.file = file
  /\ g.mounted = mounted /\ g.dirs = dirlist

LEMMA FrameUpdates ==
  ASSUME NEW g \in Frames
  PROVE  /\ \A f \in ApexFiles \cup {NoFile} :
              Has([g EXCEPT !.file = f], g.apexes, g.todo, f, g.mounted, g.dirs)
         /\ \A s \in Seq(ApexFiles) :
              Has([g EXCEPT !.todo = s], g.apexes, s, g.file, g.mounted, g.dirs)
         /\ \A s \in Seq(ApexFiles) :
              Has([g EXCEPT !.mounted = s], g.apexes, g.todo, g.file, s, g.dirs)
         /\ \A s \in Seq(ApexFiles) :
              Has([g EXCEPT !.apexes = s], s, g.todo, g.file, g.mounted, g.dirs)
         /\ \A s \in Seq(Points) :
              Has([g EXCEPT !.dirs = s], g.apexes, g.todo, g.file, g.mounted, s)
BY DEF Frames, Has

LEMMA FrameUpdates2 ==
  ASSUME NEW g \in Frames
  PROVE  /\ \A f \in ApexFiles \cup {NoFile}, s \in Seq(ApexFiles) :
              /\ Has([g EXCEPT !.file = f, !.todo = s],
                     g.apexes, s, f, g.mounted, g.dirs)
              /\ Has([g EXCEPT !.file = f, !.mounted = s],
                     g.apexes, g.todo, f, s, g.dirs)
         /\ \A s, t \in Seq(ApexFiles) :
              Has([g EXCEPT !.apexes = s, !.todo = t],
                  s, t, g.file, g.mounted, g.dirs)
<1>1. ASSUME NEW f \in ApexFiles \cup {NoFile}, NEW s \in Seq(ApexFiles)
      PROVE  /\ Has([g EXCEPT !.file = f, !.todo = s],
                    g.apexes, s, f, g.mounted, g.dirs)
             /\ Has([g EXCEPT !.file = f, !.mounted = s],
                    g.apexes, g.todo, f, s, g.dirs)
  <2> DEFINE h == [g EXCEPT !.file = f]
  <2>1. Has(h, g.apexes, g.todo, f, g.mounted, g.dirs)
    BY FrameUpdates
  <2> HIDE DEF h
  <2>2. /\ Has([h EXCEPT !.todo = s], g.apexes, s, f, g.mounted, g.dirs)
        /\ Has([h EXCEPT !.mounted = s], g.apexes, g.todo, f, s, g.dirs)
    BY <2>1, FrameUpdates DEF Has
  <2>3. QED
    BY <2>2 DEF h
<1>2. ASSUME NEW s \in Seq(ApexFiles), NEW t \in Seq(ApexFiles)
      PROVE  Has([g EXCEPT !.apexes = s, !.todo = t],
                 s, t, g.file, g.mounted, g.dirs)
  <2> DEFINE h == [g EXCEPT !.apexes = s]
  <2>1. Has(h, s, g.todo, g.file, g.mounted, g.dirs)
    BY FrameUpdates
  <2> HIDE DEF h
  <2>2. Has([h EXCEPT !.todo = t], s, t, g.file, g.mounted, g.dirs)
    BY <2>1, FrameUpdates DEF Has
  <2>3. QED
    BY <2>2 DEF h
<1>3. QED
  BY <1>1, <1>2

\* Call c goes to label l with these fields; the other calls stay.
Moves(c, l, apexes, todo, file, mounted, dirlist) ==
  /\ pc' \in [Calls -> Labels] /\ frame' \in [Calls -> Frames]
  /\ pc'[c] = l
  /\ Has(frame'[c], apexes, todo, file, mounted, dirlist)
  /\ \A d \in Calls \ {c} : pc'[d] = pc[d] /\ frame'[d] = frame[d]

LEMMA GotoMoves ==
  ASSUME TypeOK, NEW c \in Calls, NEW l \in Labels, NEW fr,
         NEW a, NEW t, NEW f, NEW m, NEW d, Has(fr, a, t, f, m, d),
         Goto(c, l, fr)
  PROVE  Moves(c, l, a, t, f, m, d)
<1>1. fr \in Frames
  BY DEF Has
<1>2. QED
  BY <1>1, GotoFacts DEF Moves

LEMMA StageMoves ==
  ASSUME TypeOK, ControlInv, NEW c \in Calls, NEW fs \in Sessions[c],
         StageFnInstall(c, fs)
  PROVE  /\ fs \in Seq(ApexFiles) /\ \E f \in ToSet(fs) : f.hook
         /\ Moves(c, "isMounted", fs, fs, NoFile, <<>>, <<>>)
<1>1. fs \in Seq(ApexFiles)
  BY HooksAssumption
<1>2. HookFiles(fs) # {}
  BY FS_EmptySet DEF StageFnInstall
<1>3. EmptyFrame \in Frames
  BY EmptyFrameType
<1>4. Has([EmptyFrame EXCEPT !.apexes = fs, !.todo = fs],
          fs, fs, EmptyFrame.file, EmptyFrame.mounted, EmptyFrame.dirs)
  BY <1>1, <1>3, FrameUpdates2
<1>5. Goto(c, "isMounted", [EmptyFrame EXCEPT !.apexes = fs, !.todo = fs])
  BY DEF StageFnInstall
<1>6. EmptyFrame.file = NoFile /\ EmptyFrame.mounted = <<>> /\ EmptyFrame.dirs = <<>>
  BY DEF EmptyFrame
<1>7. Moves(c, "isMounted", fs, fs, NoFile, <<>>, <<>>)
  BY <1>4, <1>5, <1>6, GotoMoves DEF Labels
<1>8. QED
  BY <1>1, <1>2, <1>7 DEF HookFiles

LEMMA IsMountedMoves ==
  ASSUME TypeOK, NEW c \in Calls, IsMounted(c)
  PROVE  LET g == frame[c]
         IN \/ /\ g.todo = <<>> /\ disturbed' = disturbed
               /\ Moves(c, "fork", g.apexes, g.todo, NoFile, g.mounted, g.dirs)
            \/ /\ g.todo # <<>>
               /\ disturbed' = IF Head(g.todo) \in db /\ ~Mounted(Host, Head(g.todo))
                               THEN disturbed \cup {c} ELSE disturbed
               /\ Moves(c, IF Head(g.todo) \in db THEN "mkdir" ELSE "mount",
                        g.apexes, Tail(g.todo), Head(g.todo), g.mounted, g.dirs)
<1> DEFINE g == frame[c]
<1>1. g \in Frames
  BY DEF TypeOK
<1> HIDE DEF g
<1>2. CASE g.todo = <<>>
  <2>1. Goto(c, "fork", [g EXCEPT !.file = NoFile]) /\ disturbed' = disturbed
    BY <1>2 DEF IsMounted, g
  <2>2. Has([g EXCEPT !.file = NoFile], g.apexes, g.todo, NoFile, g.mounted, g.dirs)
    BY <1>1, FrameUpdates
  <2>3. QED
    BY <1>2, <2>1, <2>2, GotoMoves DEF Labels, g
<1>3. CASE g.todo # <<>>
  <2> DEFINE f == Head(g.todo)
             l == IF f \in db THEN "mkdir" ELSE "mount"
             s == Tail(g.todo)
  <2>1. /\ Goto(c, l, [g EXCEPT !.file = f, !.todo = s])
        /\ disturbed' = IF f \in db /\ ~Mounted(Host, f)
                        THEN disturbed \cup {c} ELSE disturbed
    BY <1>3 DEF IsMounted, g
  <2>2. g.todo \in Seq(ApexFiles)
    BY <1>1, FrameFields
  <2>3. f \in ApexFiles /\ s \in Seq(ApexFiles)
    BY <1>3, <2>2, ToSetFacts
  <2>4. l \in Labels
    BY DEF Labels
  <2> HIDE DEF f, s, l
  <2>5. Has([g EXCEPT !.file = f, !.todo = s], g.apexes, s, f, g.mounted, g.dirs)
    BY <1>1, <2>3, FrameUpdates2
  <2>6. Moves(c, l, g.apexes, s, f, g.mounted, g.dirs)
    BY <2>1, <2>4, <2>5, GotoMoves
  <2>7. QED
    BY <1>3, <2>1, <2>6 DEF f, s, l, g
<1>4. QED
  BY <1>2, <1>3

\* Call c goes to label l with its frame as it is.
LEMMA SameFrame ==
  ASSUME TypeOK, NEW c \in Calls, NEW l \in Labels, Goto(c, l, frame[c])
  PROVE  LET g == frame[c]
         IN Moves(c, l, g.apexes, g.todo, g.file, g.mounted, g.dirs)
<1>1. frame[c] \in Frames
  BY DEF TypeOK
<1>2. QED
  BY <1>1, GotoMoves DEF Has

LEMMA AddMountedApexMoves ==
  ASSUME TypeOK, ControlInv, NEW c \in Calls, AddMountedApex(c)
  PROVE  LET g == frame[c]
         IN /\ g.file \in ApexFiles
            /\ Moves(c, "mkdir", g.apexes, g.todo, g.file,
                     Append(g.mounted, g.file), g.dirs)
<1> DEFINE g == frame[c]
           s == Append(g.mounted, g.file)
<1>1. g \in Frames /\ g.file \in ApexFiles
  BY DEF TypeOK, AddMountedApex, ControlInv, CallStands
<1>2. s \in Seq(ApexFiles)
  BY <1>1, FrameFields
<1>3. Goto(c, "mkdir", [g EXCEPT !.mounted = s])
  BY DEF AddMountedApex
<1> HIDE DEF g, s
<1>4. Has([g EXCEPT !.mounted = s], g.apexes, g.todo, g.file, s, g.dirs)
  BY <1>1, <1>2, FrameUpdates
<1>5. QED
  BY <1>1, <1>3, <1>4, GotoMoves DEF Labels, g, s

LEMMA MakeActivePointMoves ==
  ASSUME TypeOK, ControlInv, NEW c \in Calls, MakeActivePoint(c)
  PROVE  LET g == frame[c]  p == ActivePoint(g.file)
         IN /\ g.file \in ApexFiles
            /\ \/ /\ p \in dirs /\ UNCHANGED <<dirs, disturbed>>
                  /\ Moves(c, "isMounted", g.apexes, g.todo, g.file, g.mounted, g.dirs)
               \/ /\ p \notin dirs /\ dirs' = dirs \cup {p} /\ UNCHANGED disturbed
                  /\ Moves(c, "isMounted", g.apexes, g.todo, g.file, g.mounted,
                           Append(g.dirs, p))
               \/ CleanUp(c) /\ disturbed' = disturbed \ {c} /\ UNCHANGED dirs
<1> DEFINE g == frame[c]
           p == ActivePoint(g.file)
           s == Append(g.dirs, p)
<1>1. g \in Frames /\ g.file \in ApexFiles
  BY DEF TypeOK, MakeActivePoint, ControlInv, CallStands
<1>2. s \in Seq(Points)
  <2>1. g.dirs \in Seq(Points) /\ p \in Points
    BY <1>1, FrameFields, PointTypes
  <2>2. QED
    BY <2>1
<1>3. Has([g EXCEPT !.dirs = s], g.apexes, g.todo, g.file, g.mounted, s)
  BY <1>1, <1>2, FrameUpdates
<1>4. CASE p \in dirs /\ Goto(c, "isMounted", g) /\ UNCHANGED <<dirs, disturbed>>
  BY <1>1, <1>4, SameFrame DEF Labels
<1>5. CASE /\ p \notin dirs /\ dirs' = dirs \cup {p} /\ UNCHANGED disturbed
           /\ Goto(c, "isMounted", [g EXCEPT !.dirs = s])
  <2>1. Moves(c, "isMounted", g.apexes, g.todo, g.file, g.mounted, s)
    BY <1>3, <1>5, GotoMoves DEF Labels
  <2>2. QED
    BY <1>1, <1>5, <2>1
<1>6. CASE CleanUp(c) /\ disturbed' = disturbed \ {c} /\ UNCHANGED dirs
  BY <1>1, <1>6
<1>7. QED
  BY <1>4, <1>5, <1>6 DEF MakeActivePoint

LEMMA ForkMoves ==
  ASSUME TypeOK, ControlInv, NEW c \in Calls, Fork(c)
  PROVE  LET g == frame[c]
         IN \/ /\ child' = [child EXCEPT ![c] = "unshare"] /\ UNCHANGED disturbed
               /\ \E s \in Seq(ApexFiles) :
                    /\ s # <<>> /\ ToSet(s) = ToSet(g.apexes)
                    /\ Moves(c, "wait", g.apexes, s, g.file, g.mounted, g.dirs)
            \/ CleanUp(c) /\ disturbed' = disturbed \ {c} /\ UNCHANGED child
<1> DEFINE g == frame[c]
           s == Args(g.apexes)
<1>1. g \in Frames /\ \E f \in ToSet(g.apexes) : f.hook
  BY DEF TypeOK, Fork, ControlInv, CallStands
<1>2. g.apexes \in Seq(ApexFiles)
  BY <1>1, FrameFields
<1>3. s \in Seq(ApexFiles) /\ s # <<>> /\ ToSet(s) = ToSet(g.apexes)
  BY <1>1, <1>2, ArgsFacts
<1>4. Has([g EXCEPT !.todo = s], g.apexes, s, g.file, g.mounted, g.dirs)
  BY <1>1, <1>3, FrameUpdates
<1>5. ASSUME Goto(c, "wait", [g EXCEPT !.todo = s])
      PROVE  Moves(c, "wait", g.apexes, s, g.file, g.mounted, g.dirs)
  BY <1>4, <1>5, GotoMoves DEF Labels
<1>6. CASE /\ Goto(c, "wait", [g EXCEPT !.todo = s])
           /\ child' = [child EXCEPT ![c] = "unshare"] /\ UNCHANGED disturbed
  BY <1>3, <1>5, <1>6
<1>7. QED
  BY <1>6 DEF Fork

LEMMA UnmountPackageMoves ==
  ASSUME TypeOK, NEW c \in Calls, UnmountPackage(c)
  PROVE  LET g == frame[c]
         IN \/ /\ g.mounted = <<>> /\ db' = db
               /\ Moves(c, "rmdir", g.apexes, g.todo, g.file, g.mounted, g.dirs)
            \/ /\ g.mounted # <<>> /\ Head(g.mounted) \in db \ latest
               /\ db' = db \ {Head(g.mounted)}
               /\ Moves(c, "unmount", g.apexes, g.todo, Head(g.mounted),
                        Tail(g.mounted), g.dirs)
            \/ /\ g.mounted # <<>> /\ Head(g.mounted) \notin db \ latest
               /\ db' = db
               /\ Moves(c, "unmountPackage", g.apexes, g.todo, g.file,
                        Tail(g.mounted), g.dirs)
<1> DEFINE g == frame[c]
           f == Head(g.mounted)
           s == Tail(g.mounted)
<1>1. g \in Frames
  BY DEF TypeOK
<1>2. CASE g.mounted = <<>>
  BY <1>2, SameFrame DEF UnmountPackage, Labels
<1>3. CASE g.mounted # <<>>
  <2>1. f \in ApexFiles /\ s \in Seq(ApexFiles)
    BY <1>1, <1>3, FrameFields, ToSetFacts
  <2>2. CASE f \in db \ latest
    <3>1. Goto(c, "unmount", [g EXCEPT !.file = f, !.mounted = s]) /\ db' = db \ {f}
      BY <1>3, <2>2 DEF UnmountPackage
    <3> HIDE DEF f, s, g
    <3>2. Has([g EXCEPT !.file = f, !.mounted = s], g.apexes, g.todo, f, s, g.dirs)
      BY <1>1, <2>1, FrameUpdates2
    <3>3. Moves(c, "unmount", g.apexes, g.todo, f, s, g.dirs)
      BY <3>1, <3>2, GotoMoves DEF Labels
    <3>4. QED
      BY <1>3, <2>2, <3>1, <3>3 DEF f, s, g
  <2>3. CASE f \notin db \ latest
    <3>1. Goto(c, "unmountPackage", [g EXCEPT !.mounted = s]) /\ db' = db
      BY <1>3, <2>3 DEF UnmountPackage
    <3> HIDE DEF f, s, g
    <3>2. Has([g EXCEPT !.mounted = s], g.apexes, g.todo, g.file, s, g.dirs)
      BY <1>1, <2>1, FrameUpdates
    <3>3. Moves(c, "unmountPackage", g.apexes, g.todo, g.file, s, g.dirs)
      BY <3>1, <3>2, GotoMoves DEF Labels
    <3>4. QED
      BY <1>3, <2>3, <3>1, <3>3 DEF f, s, g
  <2>4. QED
    BY <2>2, <2>3
<1>4. QED
  BY <1>2, <1>3

LEMMA RemoveActivePointMoves ==
  ASSUME TypeOK, NEW c \in Calls, RemoveActivePoint(c)
  PROVE  LET g == frame[c]
         IN \/ /\ g.dirs = <<>> /\ UNCHANGED <<dirs, mounts, disturbed>>
               /\ Goto(c, "done", EmptyFrame)
               /\ Moves(c, "done", <<>>, <<>>, NoFile, <<>>, <<>>)
            \/ /\ g.dirs # <<>> /\ Head(g.dirs) \in Points
               /\ RemoveDir(Head(g.dirs)) /\ Disturb(c, Head(g.dirs).name)
               /\ ToSet(g.dirs) = {Head(g.dirs)} \cup ToSet(Tail(g.dirs))
               /\ Moves(c, "rmdir", g.apexes, g.todo, g.file, g.mounted,
                        Tail(g.dirs))
<1> DEFINE g == frame[c]
           s == Tail(g.dirs)
<1>1. g \in Frames
  BY DEF TypeOK
<1>2. CASE g.dirs = <<>>
  <2>1. Has(EmptyFrame, <<>>, <<>>, NoFile, <<>>, <<>>)
    BY EmptyFrameType DEF Has, EmptyFrame
  <2>2. QED
    BY <1>2, <2>1, GotoMoves DEF RemoveActivePoint, Labels
<1>3. CASE g.dirs # <<>>
  <2>1. /\ Head(g.dirs) \in Points /\ s \in Seq(Points)
        /\ ToSet(g.dirs) = {Head(g.dirs)} \cup ToSet(s)
    BY <1>1, <1>3, FrameFields, ToSetFacts
  <2>2. Has([g EXCEPT !.dirs = s], g.apexes, g.todo, g.file, g.mounted, s)
    BY <1>1, <2>1, FrameUpdates
  <2>3. /\ Goto(c, "rmdir", [g EXCEPT !.dirs = s])
        /\ RemoveDir(Head(g.dirs)) /\ Disturb(c, Head(g.dirs).name)
    BY <1>3 DEF RemoveActivePoint
  <2>4. Moves(c, "rmdir", g.apexes, g.todo, g.file, g.mounted, s)
    BY <2>2, <2>3, GotoMoves DEF Labels
  <2>5. QED
    BY <1>3, <2>1, <2>3, <2>4
<1>4. QED
  BY <1>2, <1>3

\* The child takes the next package.
LEMMA UnbindMoves ==
  ASSUME TypeOK, ControlInv, NEW c \in Calls, Unbind(c)
  PROVE  LET g == frame[c]
         IN /\ g.todo # <<>> /\ Head(g.todo) \in ApexFiles
            /\ ToSet(g.todo) = {Head(g.todo)} \cup ToSet(Tail(g.todo))
            /\ frame' \in [Calls -> Frames]
            /\ Has(frame'[c], g.apexes, Tail(g.todo), Head(g.todo), g.mounted, g.dirs)
            /\ \A d \in Calls \ {c} : frame'[d] = frame[d]
<1> DEFINE g == frame[c]
           f == Head(g.todo)
           s == Tail(g.todo)
           h == [g EXCEPT !.file = f]
<1>1. g \in Frames /\ g.todo # <<>>
  BY DEF TypeOK, Unbind, ControlInv, CallStands
<1>2. /\ f \in ApexFiles /\ s \in Seq(ApexFiles)
      /\ ToSet(g.todo) = {f} \cup ToSet(s)
  BY <1>1, FrameFields, ToSetFacts
<1>3. Has(h, g.apexes, g.todo, f, g.mounted, g.dirs)
  BY <1>1, <1>2, FrameUpdates
<1>4. Has([h EXCEPT !.todo = s], g.apexes, s, f, g.mounted, g.dirs)
  <2> HIDE DEF h
  <2>1. h \in Frames /\ h.todo = g.todo
    BY <1>3 DEF Has
  <2>2. Has([h EXCEPT !.todo = s], h.apexes, s, h.file, h.mounted, h.dirs)
    BY <1>2, <2>1, FrameUpdates
  <2>3. QED
    BY <1>3, <2>2 DEF Has
<1>5. frame' = [frame EXCEPT ![c] = [h EXCEPT !.todo = s]]
  <2>1. frame \in [Calls -> Frames]
    BY DEF TypeOK
  <2>2. frame' = [frame EXCEPT ![c].file = f, ![c].todo = Tail(@)]
    BY DEF Unbind
  <2>3. [frame EXCEPT ![c].file = f][c] = h
    BY <2>1
  <2>4. h.todo = g.todo
    BY <1>3 DEF Has
  <2> HIDE DEF h
  <2>5. [frame EXCEPT ![c].file = f] = [frame EXCEPT ![c] = h]
    BY <2>1 DEF h
  <2>6. QED
    BY <2>1, <2>2, <2>4, <2>5
<1> HIDE DEF h
<1>6. QED
  BY <1>1, <1>2, <1>4, <1>5 DEF TypeOK, Has

-----------------------------------------------------------------------------
(* TypeOK is inductive, with where the calls stand.                        *)

LEMMA ParentType ==
  ASSUME TypeOK, ControlInv, NEW c \in Calls, ParentStep(c)
  PROVE  TypeOK'
<1> USE DEF kernel
<1>0. disturbed \subseteq Calls /\ \A t, name : Disturb(t, name) => disturbed' \subseteq Calls
  BY DEF TypeOK, Disturb
<1>1. CASE IsMounted(c)
  BY <1>1, IsMountedMoves DEF TypeOK, IsMounted, Moves, Labels
<1>2. CASE MountPackage(c)
  <2> DEFINE f == frame[c].file
  <2>1. f \in ApexFiles /\ PointOf(f) \in Points
        /\ [at |-> PointOf(f), file |-> f] \in Mounts
    BY <1>2, PointTypes DEF ControlInv, CallStands, MountPackage
  <2>2. mounts' \in [Namespaces -> SUBSET Mounts]
    BY <1>2, <2>1, MountTypes DEF MountPackage, Namespaces
  <2>3. pc' \in [Calls -> Labels] /\ frame' \in [Calls -> Frames]
    BY <1>2, SameFrame DEF MountPackage, Moves, Labels
  <2>4. QED
    BY <1>2, <2>1, <2>2, <2>3 DEF TypeOK, MountPackage, Labels
<1>3. CASE MountPackageFails(c)
  <2>1. mounts' \in [Namespaces -> SUBSET Mounts] /\ dirs' \subseteq Points
    BY <1>3, MountTypes DEF MountPackageFails
  <2>2. disturbed' \subseteq Calls
    BY <1>0, <1>3 DEF MountPackageFails
  <2>3. devices' \subseteq ApexFiles
    BY <1>3 DEF TypeOK, MountPackageFails
  <2>4. pc' \in [Calls -> Labels] /\ frame' \in [Calls -> Frames]
    BY <1>3, CleanUpFacts DEF MountPackageFails
  <2>5. QED
    BY <1>3, <2>1, <2>2, <2>3, <2>4 DEF TypeOK, MountPackageFails, Labels
<1>4. CASE AddMountedApex(c)
  <2>1. /\ frame[c].file \in ApexFiles
        /\ pc' \in [Calls -> Labels] /\ frame' \in [Calls -> Frames]
    BY <1>4, AddMountedApexMoves DEF Moves
  <2>2. QED
    BY <1>4, <2>1 DEF TypeOK, AddMountedApex, Labels
<1>5. CASE MakeActivePoint(c)
  <2>1. dirs' \subseteq Points
    <3> DEFINE p == ActivePoint(frame[c].file)
    <3>1. dirs' = dirs \/ dirs' = dirs \cup {p}
      BY <1>5, MakeActivePointMoves
    <3>2. p \in Points
      BY <1>5, MakeActivePointMoves, PointTypes
    <3>3. QED
      BY <3>1, <3>2 DEF TypeOK
  <2>2. pc' \in [Calls -> Labels] /\ frame' \in [Calls -> Frames]
    BY <1>5, MakeActivePointMoves, CleanUpFacts DEF Moves
  <2>3. disturbed' \subseteq Calls
    BY <1>0, <1>5, MakeActivePointMoves
  <2>4. QED
    BY <1>5, <2>1, <2>2, <2>3 DEF TypeOK, MakeActivePoint, Labels
<1>6. CASE Fork(c)
  <2>1. pc' \in [Calls -> Labels] /\ frame' \in [Calls -> Frames]
    BY <1>6, ForkMoves, CleanUpFacts DEF Moves
  <2>2. disturbed' \subseteq Calls
    BY <1>0, <1>6, ForkMoves
  <2>3. child' \in [Calls -> ChildLabels]
    BY <1>6, ForkMoves DEF TypeOK, ChildLabels
  <2>4. QED
    BY <1>6, <2>1, <2>2, <2>3 DEF TypeOK, Fork, Labels, ChildLabels
<1>7. CASE WaitChild(c)
  <2>1. pc' \in [Calls -> Labels] /\ frame' \in [Calls -> Frames]
    BY <1>7, CleanUpFacts DEF WaitChild
  <2>2. disturbed' \subseteq Calls
    BY <1>0, <1>7 DEF WaitChild
  <2>3. QED
    BY <1>7, <2>1, <2>2 DEF TypeOK, WaitChild, Labels
<1>8. CASE UnmountPackage(c)
  <2>1. pc' \in [Calls -> Labels] /\ frame' \in [Calls -> Frames]
    BY <1>8, UnmountPackageMoves DEF Moves
  <2>2. db' \subseteq ApexFiles
    BY <1>8, UnmountPackageMoves DEF TypeOK
  <2>3. QED
    BY <1>8, <2>1, <2>2 DEF TypeOK, UnmountPackage, Labels
<1>9. CASE Unmount(c)
  <2>1. mounts' \in [Namespaces -> SUBSET Mounts] /\ dirs' \subseteq Points
    BY <1>9, MountTypes DEF Unmount, UnmountFile
  <2>2. disturbed' \subseteq Calls
    BY <1>0, <1>9 DEF Unmount
  <2>3. devices' \subseteq ApexFiles
    BY <1>9 DEF TypeOK, Unmount, UnmountFile
  <2>4. pc' \in [Calls -> Labels] /\ frame' \in [Calls -> Frames]
    BY <1>9, CleanUpFacts DEF Unmount
  <2>5. QED
    BY <1>9, <2>1, <2>2, <2>3, <2>4 DEF TypeOK, Unmount, UnmountFile, Labels
<1>10. CASE RemoveActivePoint(c)
  <2>1. pc' \in [Calls -> Labels] /\ frame' \in [Calls -> Frames]
    BY <1>10, RemoveActivePointMoves DEF Moves
  <2>2. mounts' \in [Namespaces -> SUBSET Mounts] /\ dirs' \subseteq Points
    BY <1>10, RemoveActivePointMoves, MountTypes DEF TypeOK
  <2>3. disturbed' \subseteq Calls
    BY <1>0, <1>10, RemoveActivePointMoves
  <2>4. QED
    BY <1>10, <2>1, <2>2, <2>3 DEF TypeOK, RemoveActivePoint, Labels
<1>11. QED
  BY <1>1, <1>2, <1>3, <1>4, <1>5, <1>6, <1>7, <1>8, <1>9, <1>10 DEF ParentStep

LEMMA ChildType ==
  ASSUME TypeOK, ControlInv, NEW c \in Calls, ChildStep(c) \/ HookEnds(c)
  PROVE  TypeOK'
<1> USE DEF kernel
<1>1. CASE Unshare(c)
  BY <1>1 DEF TypeOK, Unshare, ChildGoto, Namespaces
<1>2. CASE MakePrivate(c)
  BY <1>2 DEF TypeOK, MakePrivate, ChildGoto
<1>3. CASE Unbind(c)
  <2>1. Head(frame[c].todo) \in ApexFiles /\ frame' \in [Calls -> Frames]
    BY <1>3, UnbindMoves
  <2>2. mounts' \in [Namespaces -> SUBSET Mounts]
    BY <1>3, MountTypes DEF Unbind
  <2>3. dirs' \subseteq Points /\ remade' \subseteq Points
    BY <1>3, <2>1, PointTypes DEF TypeOK, Unbind
  <2>4. QED
    BY <1>3, <2>1, <2>2, <2>3 DEF TypeOK, Unbind, ChildGoto
<1>4. CASE Bind(c)
  <2> DEFINE f == frame[c].file
             there == {m.file : m \in {m \in mounts[c] : m.at = PointOf(f)}}
  <2>1. f \in ApexFiles
    BY <1>4 DEF ControlInv, CallStands, Bind
  <2>2. there \subseteq ApexFiles \cup {NoFile}
    BY DEF TypeOK, Namespaces, Mounts
  <2>3. PICK g \in ApexFiles \cup {NoFile} : MountIn(c, ActivePoint(f), g)
    BY <1>4, <2>2 DEF Bind
  <2>4. mounts' \in [Namespaces -> SUBSET Mounts]
    BY <2>1, <2>3, PointTypes, MountTypes DEF Namespaces
  <2>5. QED
    BY <1>4, <2>4 DEF TypeOK, Bind, ChildGoto
<1>5. CASE ExecHook(c)
  BY <1>5 DEF TypeOK, ExecHook, ChildGoto
<1>6. CASE Exit(c)
  BY <1>6 DEF TypeOK, Exit, ChildGoto
<1>7. QED
  BY <1>1, <1>2, <1>3, <1>4, <1>5, <1>6 DEF ChildStep, ChildFails, HookEnds

LEMMA MainType ==
  ASSUME TypeOK, ControlInv, MainStep
  PROVE  TypeOK'
<1> USE DEF kernel
<1>1. CASE FindDanglings
  BY <1>1 DEF TypeOK, FindDanglings
<1>2. CASE RemoveDangling
  <2>1. CASE main' = [main EXCEPT !.pc = "done", !.file = NoFile] /\ UNCHANGED db
    <3> DEFINE m == [main EXCEPT !.pc = "done"]
    <3>1. m \in [pc : {"booting", "remove", "unmount", "done"},
                 todo : SUBSET ApexFiles, file : ApexFiles \cup {NoFile}]
      BY DEF TypeOK
    <3> HIDE DEF m
    <3>2. [m EXCEPT !.file = NoFile]
            \in [pc : {"booting", "remove", "unmount", "done"},
                todo : SUBSET ApexFiles, file : ApexFiles \cup {NoFile}]
      BY <3>1
    <3>3. QED
      BY <1>2, <2>1, <3>2 DEF TypeOK, RemoveDangling, m
  <2>2. CASE \E f \in main.todo :
               /\ db' = db \ {f}
               /\ main' = [pc |-> "unmount", todo |-> main.todo \ {f}, file |-> f]
    BY <1>2, <2>2 DEF TypeOK, RemoveDangling
  <2>3. QED
    BY <1>2, <2>1, <2>2 DEF RemoveDangling
<1>3. CASE UnmountDangling
  <2>1. mounts' \in [Namespaces -> SUBSET Mounts] /\ dirs' \subseteq Points
    BY <1>3, MountTypes DEF UnmountDangling, UnmountFile
  <2>2. disturbed' \subseteq Calls
    BY <1>3 DEF UnmountDangling, Disturb
  <2>3. QED
    BY <1>3, <2>1, <2>2 DEF TypeOK, UnmountDangling, UnmountFile
<1>4. QED
  BY <1>1, <1>2, <1>3 DEF MainStep

LEMMA StepType == TypeOK /\ ControlInv /\ [Next]_vars => TypeOK'
<1> SUFFICES ASSUME TypeOK, ControlInv, [Next]_vars
             PROVE  TypeOK'
  OBVIOUS
<1>1. ASSUME NEW c \in Calls, NEW fs \in Sessions[c], StageFnInstall(c, fs)
      PROVE  TypeOK'
  <2>1. pc' \in [Calls -> Labels] /\ frame' \in [Calls -> Frames]
    BY <1>1, StageMoves DEF Moves
  <2>2. QED
    BY <1>1, <2>1 DEF TypeOK, StageFnInstall, Labels, kernel
<1>2. CASE UNCHANGED vars
  BY <1>2 DEF TypeOK, vars, kernel
<1>3. QED
  BY <1>1, <1>2, ParentType, ChildType, MainType DEF Next

\* The main thread: what it has to unmount, and what it unmounts now.
LEMMA MainMoves ==
  ASSUME TypeOK, MainStep
  PROVE  \/ /\ FindDanglings
            /\ main'.pc = "remove" /\ main'.todo = db \ latest
            /\ db' = db /\ mounts' = mounts /\ dirs' = dirs
         \/ /\ RemoveDangling
            /\ main'.pc = "done" /\ main'.todo = main.todo /\ main.todo = {}
            /\ db' = db /\ mounts' = mounts /\ dirs' = dirs
         \/ /\ RemoveDangling
            /\ main'.pc = "unmount" /\ main'.file \in main.todo
            /\ main'.todo = main.todo \ {main'.file} /\ main'.file \in ApexFiles
            /\ db' = db \ {main'.file} /\ mounts' = mounts /\ dirs' = dirs
         \/ /\ UnmountDangling /\ main.pc = "unmount"
            /\ main'.pc = "remove" /\ main'.todo = main.todo
            /\ db' = db
<1> USE DEF kernel
<1>1. CASE FindDanglings
  BY <1>1 DEF FindDanglings
<1>2. CASE RemoveDangling
  <2>1. CASE /\ main.todo = {} /\ UNCHANGED db
             /\ main' = [main EXCEPT !.pc = "done", !.file = NoFile]
    <3> DEFINE m == [main EXCEPT !.pc = "done"]
    <3>1. m \in [pc : {"booting", "remove", "unmount", "done"},
                 todo : SUBSET ApexFiles, file : ApexFiles \cup {NoFile}]
          /\ m.pc = "done" /\ m.todo = main.todo
      BY DEF TypeOK
    <3> HIDE DEF m
    <3>2. [m EXCEPT !.file = NoFile].pc = "done"
          /\ [m EXCEPT !.file = NoFile].todo = main.todo
      BY <3>1
    <3>3. QED
      BY <1>2, <2>1, <3>2 DEF RemoveDangling, m
  <2>2. CASE \E f \in main.todo :
               /\ db' = db \ {f}
               /\ main' = [pc |-> "unmount", todo |-> main.todo \ {f}, file |-> f]
    <3>1. PICK f \in main.todo :
            /\ db' = db \ {f}
            /\ main' = [pc |-> "unmount", todo |-> main.todo \ {f}, file |-> f]
      BY <2>2
    <3>2. f \in ApexFiles
      BY DEF TypeOK
    <3>3. mounts' = mounts /\ dirs' = dirs
      BY <1>2 DEF RemoveDangling
    <3>4. /\ main'.pc = "unmount" /\ main'.todo = main.todo \ {f} /\ main'.file = f
      BY <3>1
    <3>5. QED
      BY <1>2, <3>1, <3>2, <3>3, <3>4
  <2>3. QED
    BY <1>2, <2>1, <2>2 DEF RemoveDangling
<1>3. CASE UnmountDangling
  BY <1>3 DEF TypeOK, UnmountDangling
<1>4. QED
  BY <1>1, <1>2, <1>3 DEF MainStep

\* A step of call c, or of its child, leaves the others where they stand.
LEMMA OthersStand ==
  ASSUME ControlInv, NEW c \in Calls, UNCHANGED main, CallStands(c)',
         \A d \in Calls \ {c} : /\ pc'[d] = pc[d] /\ frame'[d] = frame[d]
                                /\ child'[d] = child[d]
  PROVE  ControlInv'
<1>1. ASSUME NEW d \in Calls \ {c} PROVE CallStands(d)'
  BY <1>1 DEF ControlInv, CallStands
<1>2. QED
  BY <1>1 DEF ControlInv

LEMMA CleanUpStands ==
  ASSUME TypeOK, ControlInv, NEW c \in Calls, CleanUp(c), UNCHANGED <<child, main>>,
         child[c] = "none"
  PROVE  ControlInv'
<1>1. CallStands(c)'
  BY CleanUpFacts DEF CallStands
<1>2. QED
  BY <1>1, CleanUpFacts, OthersStand

LEMMA ParentControl ==
  ASSUME TypeOK, ControlInv, NEW c \in Calls, ParentStep(c)
  PROVE  ControlInv'
<1>0. CallStands(c) /\ frame[c] \in Frames
  BY DEF ControlInv, TypeOK
<1>1. CASE IsMounted(c)
  <2>1. child[c] = "none" /\ \E f \in ToSet(frame[c].apexes) : f.hook
    BY <1>0, <1>1 DEF CallStands, IsMounted
  <2>2. frame[c].todo # <<>> => Head(frame[c].todo) \in ApexFiles
    BY <1>0, FrameFields, ToSetFacts
  <2>3. CallStands(c)'
    BY <1>1, <2>1, <2>2, IsMountedMoves DEF CallStands, Moves, Has, IsMounted
  <2>4. QED
    BY <1>1, <2>3, IsMountedMoves, OthersStand DEF Moves, IsMounted
<1>2. CASE MountPackage(c)
  <2>1. CallStands(c)'
    BY <1>0, <1>2, SameFrame DEF CallStands, Moves, Has, MountPackage, Labels
  <2>2. QED
    BY <1>2, <2>1, SameFrame, OthersStand DEF Moves, MountPackage, Labels
<1>3. CASE MountPackageFails(c)
  BY <1>0, <1>3, CleanUpStands DEF CallStands, MountPackageFails
<1>4. CASE AddMountedApex(c)
  <2>1. CallStands(c)'
    BY <1>0, <1>4, AddMountedApexMoves DEF CallStands, Moves, Has, AddMountedApex
  <2>2. QED
    BY <1>4, <2>1, AddMountedApexMoves, OthersStand DEF Moves, AddMountedApex
<1>5. CASE MakeActivePoint(c)
  <2>1. child[c] = "none" /\ UNCHANGED <<child, main>>
    BY <1>0, <1>5 DEF CallStands, MakeActivePoint
  <2>2. CASE CleanUp(c)
    BY <2>1, <2>2, CleanUpStands
  <2>3. CASE \E s : Moves(c, "isMounted", frame[c].apexes, frame[c].todo,
                          frame[c].file, frame[c].mounted, s)
    <3>1. CallStands(c)'
      BY <1>0, <1>5, <2>1, <2>3 DEF CallStands, Moves, Has, MakeActivePoint
    <3>2. QED
      BY <2>1, <2>3, <3>1, OthersStand DEF Moves
  <2>4. QED
    BY <1>5, <2>2, <2>3, MakeActivePointMoves
<1>6. CASE Fork(c)
  <2>1. child[c] = "none" /\ UNCHANGED main
    BY <1>0, <1>6 DEF CallStands, Fork
  <2>2. CASE CleanUp(c) /\ UNCHANGED child
    BY <2>1, <2>2, CleanUpStands
  <2>3. CASE /\ child' = [child EXCEPT ![c] = "unshare"]
             /\ \E s \in Seq(ApexFiles) :
                  /\ s # <<>>
                  /\ Moves(c, "wait", frame[c].apexes, s, frame[c].file,
                           frame[c].mounted, frame[c].dirs)
    <3>1. child'[c] = "unshare" /\ \A d \in Calls \ {c} : child'[d] = child[d]
      BY <2>3 DEF TypeOK
    <3>2. CallStands(c)'
      BY <2>3, <3>1 DEF CallStands, Moves, Has
    <3>3. QED
      BY <2>1, <2>3, <3>1, <3>2, OthersStand DEF Moves
  <2>4. QED
    BY <1>6, <2>2, <2>3, ForkMoves
<1>7. CASE WaitChild(c)
  BY <1>7, CleanUpStands DEF WaitChild
<1>8. CASE UnmountPackage(c)
  <2>1. child[c] = "none" /\ frame[c].apexes = <<>> /\ UNCHANGED <<child, main>>
    BY <1>0, <1>8 DEF CallStands, UnmountPackage
  <2>2. frame[c].mounted # <<>> => Head(frame[c].mounted) \in ApexFiles
    BY <1>0, FrameFields, ToSetFacts
  <2>3. CallStands(c)'
    BY <1>8, <2>1, <2>2, UnmountPackageMoves DEF CallStands, Moves, Has
  <2>4. QED
    BY <1>8, <2>1, <2>3, UnmountPackageMoves, OthersStand DEF Moves
<1>9. CASE Unmount(c)
  BY <1>0, <1>9, CleanUpStands DEF CallStands, Unmount
<1>10. CASE RemoveActivePoint(c)
  <2>1. /\ child[c] = "none" /\ frame[c].apexes = <<>> /\ frame[c].mounted = <<>>
        /\ UNCHANGED <<child, main>>
    BY <1>0, <1>10 DEF CallStands, RemoveActivePoint
  <2>2. CASE Goto(c, "done", EmptyFrame)
    <3>1. pc'[c] = "done" /\ frame'[c] = EmptyFrame
      BY <2>2, GotoFacts, EmptyFrameType DEF Labels
    <3>2. CallStands(c)'
      BY <2>1, <3>1 DEF CallStands
    <3>3. QED
      BY <2>1, <2>2, <3>2, GotoFacts, EmptyFrameType, OthersStand DEF Labels
  <2>3. CASE Moves(c, "rmdir", frame[c].apexes, frame[c].todo, frame[c].file,
                   frame[c].mounted, Tail(frame[c].dirs))
    <3>1. CallStands(c)'
      BY <2>1, <2>3 DEF CallStands, Moves, Has
    <3>2. QED
      BY <2>1, <2>3, <3>1, OthersStand DEF Moves
  <2>4. QED
    BY <1>10, <2>2, <2>3, RemoveActivePointMoves
<1>11. QED
  BY <1>1, <1>2, <1>3, <1>4, <1>5, <1>6, <1>7, <1>8, <1>9, <1>10 DEF ParentStep

LEMMA ChildControl ==
  ASSUME TypeOK, ControlInv, NEW c \in Calls, ChildStep(c) \/ HookEnds(c)
  PROVE  ControlInv'
<1>0. CallStands(c) /\ child \in [Calls -> ChildLabels]
  BY DEF ControlInv, TypeOK, ChildLabels
<1>1. CASE Unshare(c) \/ MakePrivate(c) \/ Bind(c) \/ ExecHook(c) \/ Exit(c)
  <2>1. /\ UNCHANGED <<pc, frame, main>>
        /\ \A d \in Calls \ {c} : child'[d] = child[d]
    BY <1>0, <1>1 DEF Unshare, MakePrivate, Bind, ExecHook, Exit, ChildGoto
  <2>2. \/ child'[c] = "private" /\ child[c] = "unshare"
        \/ child'[c] = "unbind" /\ child[c] = "private"
        \/ child'[c] = "unbind" /\ child[c] = "bind" /\ frame[c].todo # <<>>
        \/ child'[c] = "exec" /\ child[c] = "bind"
        \/ child'[c] = "hook" /\ child[c] = "exec"
        \/ child'[c] = "none"
    BY <1>0, <1>1 DEF Unshare, MakePrivate, Bind, ExecHook, Exit, ChildGoto
  <2>3. CallStands(c)'
    BY <1>0, <2>1, <2>2 DEF CallStands
  <2>4. QED
    BY <2>1, <2>3, OthersStand
<1>2. CASE Unbind(c)
  <2>1. /\ child[c] = "unbind" /\ child'[c] = "bind" /\ UNCHANGED <<pc, main>>
        /\ \A d \in Calls \ {c} : child'[d] = child[d] /\ frame'[d] = frame[d]
    BY <1>0, <1>2, UnbindMoves DEF Unbind, ChildGoto
  <2>2. CallStands(c)'
    BY <1>0, <1>2, <2>1, UnbindMoves DEF CallStands, Has
  <2>3. QED
    BY <2>1, <2>2, OthersStand
<1>3. QED
  BY <1>1, <1>2 DEF ChildStep, ChildFails, HookEnds

LEMMA StepControl == TypeOK /\ ControlInv /\ [Next]_vars => ControlInv'
<1> SUFFICES ASSUME TypeOK, ControlInv, [Next]_vars
             PROVE  ControlInv'
  OBVIOUS
<1>1. ASSUME NEW c \in Calls, NEW fs \in Sessions[c], StageFnInstall(c, fs)
      PROVE  ControlInv'
  <2>1. child[c] = "none"
    BY <1>1 DEF ControlInv, CallStands, StageFnInstall
  <2>2. CallStands(c)'
    BY <1>1, <2>1, StageMoves DEF CallStands, Moves, Has, StageFnInstall
  <2>3. QED
    BY <1>1, <2>2, StageMoves, OthersStand DEF Moves, StageFnInstall
<1>2. CASE MainStep
  <2>1. UNCHANGED <<pc, frame, child>>
    BY <1>2 DEF MainStep, FindDanglings, RemoveDangling, UnmountDangling
  <2>2. main'.pc = "unmount" => main'.file \in ApexFiles
    BY <1>2, MainMoves
  <2>3. QED
    BY <2>1, <2>2 DEF ControlInv, CallStands
<1>3. CASE UNCHANGED vars
  BY <1>3 DEF ControlInv, CallStands, vars
<1>4. QED
  BY <1>1, <1>2, <1>3, ParentControl, ChildControl DEF Next

\* The variables keep their types: TypeOK, whatever calls are made of whatever
\* packages, and whichever of their steps fail (apexd_prepostinstall.cpp).
THEOREM HooksTypeCorrect == Spec => []TypeOK
<1>1. TypeOK /\ ControlInv /\ [Next]_vars => (TypeOK /\ ControlInv)'
  BY StepType, StepControl
<1>2. QED
  BY <1>1, InitType, PTL DEF Spec

-----------------------------------------------------------------------------
(* In whose hands a package is.                                            *)

\* Call c is about to add file f to the database, or to unmount it.
Handles(c, f) == pc[c] \in {"add", "unmount"} /\ frame[c].file = f

\* ... or the main thread is about to unmount it.
Holding(f) == \/ \E c \in Calls : Handles(c, f)
              \/ main.pc = "unmount" /\ main.file = f

\* The database has f, or some thread may add or unmount it.
Owned(f) == f \in db \/ f \in main.todo \/ Holding(f)

\* A call has mounted f, and not cleaned up yet.
Pending(f) == \E c \in Calls : f \in ToSet(frame[c].mounted)

\* A call is about to mount f.
AtMount(f) == \E c \in Calls : pc[c] = "mount" /\ frame[c].file = f

\* The step mounts or unmounts f.
MountsNow(f) == \E c \in Calls : MountPackage(c) /\ frame[c].file = f
UnmountsNow(f) == \/ \E c \in Calls : Unmount(c) /\ frame[c].file = f
                  \/ UnmountDangling /\ main.file = f

\* How a step passes the packages on.
Flow ==
  /\ latest' = latest
  /\ \A f \in ApexFiles :
       /\ Holding(f)' => \/ Holding(f)
                         \/ MountsNow(f) /\ AtMount(f)
                         \/ f \notin db' /\ f \in (db \ latest) \cup main.todo
       /\ Holding(f) => Holding(f)' \/ f \in db' \/ UnmountsNow(f)
       /\ Pending(f)' => Pending(f) \/ Holding(f)
       /\ Pending(f) => Pending(f)' \/ f \notin db' \/ f \in latest
       /\ f \in main'.todo => f \in main.todo \/ f \in db \ latest
       /\ AtMount(f)' => AtMount(f) \/ f \notin db
       /\ f \in db' => f \in db \/ (Holding(f) /\ Pending(f)')
       /\ f \in db => f \in db' \/ (Holding(f)' /\ (f \in latest => f \in main.todo))

\* ... when it is a step of call c.
CallFlow(c) ==
  /\ UNCHANGED <<main, latest>>
  /\ \A d \in Calls \ {c} : pc'[d] = pc[d] /\ frame'[d] = frame[d]
  /\ \A f \in ApexFiles :
       /\ Handles(c, f)' => \/ Handles(c, f)
                            \/ f \notin db' /\ f \in db \ latest
                            \/ MountPackage(c) /\ pc[c] = "mount" /\ frame[c].file = f
       /\ Handles(c, f) => \/ Handles(c, f)' \/ f \in db'
                           \/ Unmount(c) /\ frame[c].file = f
       /\ f \in ToSet(frame'[c].mounted) =>
            f \in ToSet(frame[c].mounted) \/ Handles(c, f)
       /\ f \in ToSet(frame[c].mounted) =>
            f \in ToSet(frame'[c].mounted) \/ f \notin db' \/ f \in latest
       /\ pc'[c] = "mount" /\ frame'[c].file = f =>
            (pc[c] = "mount" /\ frame[c].file = f) \/ f \notin db
       /\ f \in db' => f \in db \/ (Handles(c, f) /\ f \in ToSet(frame'[c].mounted))
       /\ f \in db => f \in db' \/ (Handles(c, f)' /\ f \notin latest)

LEMMA CallFlowIsFlow ==
  ASSUME NEW c \in Calls, CallFlow(c)
  PROVE  Flow
<1> SUFFICES ASSUME NEW f \in ApexFiles
             PROVE  /\ Holding(f)' => \/ Holding(f)
                                      \/ MountsNow(f) /\ AtMount(f)
                                      \/ f \notin db' /\ f \in (db \ latest) \cup main.todo
                    /\ Holding(f) => Holding(f)' \/ f \in db' \/ UnmountsNow(f)
                    /\ Pending(f)' => Pending(f) \/ Holding(f)
                    /\ Pending(f) => Pending(f)' \/ f \notin db' \/ f \in latest
                    /\ AtMount(f)' => AtMount(f) \/ f \notin db
                    /\ f \in db' => f \in db \/ (Holding(f) /\ Pending(f)')
                    /\ f \in db => \/ f \in db'
                                   \/ Holding(f)' /\ (f \in latest => f \in main.todo)
  BY DEF Flow, CallFlow
<1>0. \A d \in Calls \ {c} : /\ pc'[d] = pc[d] /\ frame'[d] = frame[d]
                             /\ Handles(d, f)' = Handles(d, f)
  BY DEF CallFlow, Handles
<1>1. Holding(f)' => \/ Holding(f)
                     \/ MountsNow(f) /\ AtMount(f)
                     \/ f \notin db' /\ f \in (db \ latest) \cup main.todo
  BY <1>0 DEF CallFlow, Holding, MountsNow, AtMount
<1>2. Holding(f) => Holding(f)' \/ f \in db' \/ UnmountsNow(f)
  BY <1>0 DEF CallFlow, Holding, UnmountsNow
<1>3. Pending(f)' => Pending(f) \/ Holding(f)
  BY <1>0 DEF CallFlow, Holding, Pending
<1>4. Pending(f) => Pending(f)' \/ f \notin db' \/ f \in latest
  BY <1>0 DEF CallFlow, Pending
<1>5. AtMount(f)' => AtMount(f) \/ f \notin db
  BY <1>0 DEF CallFlow, AtMount
<1>6. f \in db' => f \in db \/ (Holding(f) /\ Pending(f)')
  BY DEF CallFlow, Holding, Pending
<1>7. f \in db => f \in db' \/ (Holding(f)' /\ (f \in latest => f \in main.todo))
  BY DEF CallFlow, Holding
<1>8. QED
  BY <1>1, <1>2, <1>3, <1>4, <1>5, <1>6, <1>7 DEF CallFlow

\* Every step passes the packages on that way.
LEMMA ParentFlow ==
  ASSUME TypeOK, ControlInv, NEW c \in Calls, ParentStep(c)
  PROVE  Flow
<1>0. CallStands(c) /\ frame[c] \in Frames
  BY DEF ControlInv, TypeOK
<1>a. ASSUME CleanUp(c), pc[c] \notin {"add", "unmount"}, UNCHANGED <<main, latest, db>>
      PROVE  CallFlow(c)
  BY <1>a, CleanUpFacts DEF CallFlow, Handles
<1>1. CASE IsMounted(c)
  <2> DEFINE g == frame[c]
  <2>1. /\ pc[c] = "isMounted" /\ UNCHANGED <<main, latest, db>>
        /\ pc'[c] \in {"fork", "mkdir", "mount"} /\ frame'[c].mounted = g.mounted
        /\ pc'[c] = "mount" => frame'[c].file \notin db
        /\ \A d \in Calls \ {c} : pc'[d] = pc[d] /\ frame'[d] = frame[d]
    BY <1>1, IsMountedMoves DEF IsMounted, Moves, Has
  <2>2. CallFlow(c)
    BY <2>1 DEF CallFlow, Handles
  <2>3. QED
    BY <2>2, CallFlowIsFlow
<1>2. CASE MountPackage(c)
  <2>1. CallFlow(c)
    BY <1>2, SameFrame DEF CallFlow, Handles, MountPackage, Moves, Has, Labels
  <2>2. QED
    BY <2>1, CallFlowIsFlow
<1>3. CASE MountPackageFails(c)
  BY <1>3, <1>a, CallFlowIsFlow DEF MountPackageFails
<1>4. CASE AddMountedApex(c)
  <2> DEFINE g == frame[c]
  <2>1. ToSet(Append(g.mounted, g.file)) = ToSet(g.mounted) \cup {g.file}
    BY <1>0, <1>4, AddMountedApexMoves, FrameFields, ToSetFacts
  <2>2. /\ pc[c] = "add" /\ pc'[c] = "mkdir" /\ UNCHANGED <<main, latest>>
        /\ db' = db \cup {g.file}
        /\ frame'[c].mounted = Append(g.mounted, g.file)
        /\ \A d \in Calls \ {c} : pc'[d] = pc[d] /\ frame'[d] = frame[d]
    BY <1>4, AddMountedApexMoves DEF AddMountedApex, Moves, Has
  <2>3. CallFlow(c)
    BY <2>1, <2>2 DEF CallFlow, Handles
  <2>4. QED
    BY <2>3, CallFlowIsFlow
<1>5. CASE MakeActivePoint(c)
  <2>1. pc[c] = "mkdir" /\ UNCHANGED <<main, latest, db>>
    BY <1>5 DEF MakeActivePoint
  <2>2. CASE CleanUp(c)
    BY <2>1, <2>2, <1>a, CallFlowIsFlow
  <2>3. CASE \E s : Moves(c, "isMounted", frame[c].apexes, frame[c].todo,
                          frame[c].file, frame[c].mounted, s)
    <3>1. CallFlow(c)
      BY <2>1, <2>3 DEF CallFlow, Handles, Moves, Has
    <3>2. QED
      BY <3>1, CallFlowIsFlow
  <2>4. QED
    BY <1>5, <2>2, <2>3, MakeActivePointMoves
<1>6. CASE Fork(c)
  <2>1. pc[c] = "fork" /\ UNCHANGED <<main, latest, db>>
    BY <1>6 DEF Fork
  <2>2. CASE CleanUp(c)
    BY <2>1, <2>2, <1>a, CallFlowIsFlow
  <2>3. CASE \E s : Moves(c, "wait", frame[c].apexes, s, frame[c].file,
                          frame[c].mounted, frame[c].dirs)
    <3>1. CallFlow(c)
      BY <2>1, <2>3 DEF CallFlow, Handles, Moves, Has
    <3>2. QED
      BY <3>1, CallFlowIsFlow
  <2>4. QED
    BY <1>6, <2>2, <2>3, ForkMoves
<1>7. CASE WaitChild(c)
  BY <1>7, <1>a, CallFlowIsFlow DEF WaitChild
<1>8. CASE UnmountPackage(c)
  <2> DEFINE g == frame[c]
  <2>0. pc[c] = "unmountPackage" /\ UNCHANGED <<main, latest>>
    BY <1>8 DEF UnmountPackage
  <2>1. CASE /\ g.mounted = <<>> /\ db' = db
             /\ Moves(c, "rmdir", g.apexes, g.todo, g.file, g.mounted, g.dirs)
    <3>1. CallFlow(c)
      BY <2>0, <2>1 DEF CallFlow, Handles, Moves, Has
    <3>2. QED
      BY <3>1, CallFlowIsFlow
  <2>2. g.mounted # <<>> =>
          ToSet(g.mounted) = {Head(g.mounted)} \cup ToSet(Tail(g.mounted))
    BY <1>0, FrameFields, ToSetFacts
  <2>3. CASE /\ g.mounted # <<>> /\ Head(g.mounted) \in db \ latest
             /\ db' = db \ {Head(g.mounted)}
             /\ Moves(c, "unmount", g.apexes, g.todo, Head(g.mounted),
                      Tail(g.mounted), g.dirs)
    <3>1. CallFlow(c)
      BY <2>0, <2>2, <2>3 DEF CallFlow, Handles, Moves, Has
    <3>2. QED
      BY <3>1, CallFlowIsFlow
  <2>4. CASE /\ g.mounted # <<>> /\ Head(g.mounted) \notin db \ latest
             /\ db' = db
             /\ Moves(c, "unmountPackage", g.apexes, g.todo, g.file,
                      Tail(g.mounted), g.dirs)
    <3>1. CallFlow(c)
      BY <2>0, <2>2, <2>4 DEF CallFlow, Handles, Moves, Has
    <3>2. QED
      BY <3>1, CallFlowIsFlow
  <2>5. QED
    BY <1>8, <2>1, <2>3, <2>4, UnmountPackageMoves
<1>9. CASE Unmount(c)
  <2>1. CallFlow(c)
    BY <1>9, CleanUpFacts DEF CallFlow, Handles, Unmount
  <2>2. QED
    BY <2>1, CallFlowIsFlow
<1>10. CASE RemoveActivePoint(c)
  <2>1. /\ pc[c] = "rmdir" /\ UNCHANGED <<main, latest, db>>
        /\ frame[c].mounted = <<>>
    BY <1>0, <1>10 DEF RemoveActivePoint, CallStands
  <2>2. /\ frame'[c].mounted = <<>> /\ pc'[c] \in {"done", "rmdir"}
        /\ \A d \in Calls \ {c} : pc'[d] = pc[d] /\ frame'[d] = frame[d]
    BY <1>10, <2>1, RemoveActivePointMoves DEF Moves, Has
  <2>3. CallFlow(c)
    BY <2>1, <2>2, ToSetEmpty DEF CallFlow, Handles
  <2>4. QED
    BY <2>3, CallFlowIsFlow
<1>11. QED
  BY <1>1, <1>2, <1>3, <1>4, <1>5, <1>6, <1>7, <1>8, <1>9, <1>10 DEF ParentStep

LEMMA ChildFlow ==
  ASSUME TypeOK, ControlInv, NEW c \in Calls, ChildStep(c) \/ HookEnds(c)
  PROVE  Flow
<1>0. CallStands(c)
  BY DEF ControlInv
<1>1. CASE Unbind(c)
  <2>1. /\ pc[c] = "wait" /\ UNCHANGED <<pc, main, latest, db>>
        /\ frame'[c].mounted = frame[c].mounted
        /\ \A d \in Calls \ {c} : frame'[d] = frame[d]
    BY <1>0, <1>1, UnbindMoves DEF Unbind, CallStands, Has
  <2>2. CallFlow(c)
    BY <2>1 DEF CallFlow, Handles
  <2>3. QED
    BY <2>2, CallFlowIsFlow
<1>2. CASE UNCHANGED <<pc, frame, main, latest, db>>
  <2>1. CallFlow(c)
    BY <1>2 DEF CallFlow, Handles
  <2>2. QED
    BY <2>1, CallFlowIsFlow
<1>3. QED
  BY <1>1, <1>2 DEF ChildStep, HookEnds, Unshare, MakePrivate, Bind, ExecHook,
     ChildFails, Exit, kernel

LEMMA StepFlow ==
  ASSUME TypeOK, ControlInv, [Next]_vars
  PROVE  Flow
<1>1. ASSUME NEW c \in Calls, NEW fs \in Sessions[c], StageFnInstall(c, fs)
      PROVE  Flow
  <2>1. /\ pc[c] = "idle" /\ UNCHANGED <<main, latest, db>>
        /\ frame[c].mounted = <<>>
    BY <1>1 DEF StageFnInstall, ControlInv, CallStands, EmptyFrame
  <2>2. /\ pc'[c] = "isMounted" /\ frame'[c].mounted = <<>>
        /\ \A d \in Calls \ {c} : pc'[d] = pc[d] /\ frame'[d] = frame[d]
    BY <1>1, StageMoves DEF Moves, Has
  <2>3. CallFlow(c)
    BY <2>1, <2>2, ToSetEmpty DEF CallFlow, Handles
  <2>4. QED
    BY <2>3, CallFlowIsFlow
<1>2. CASE MainStep
  <2>1. /\ UNCHANGED <<pc, frame, latest>>
        /\ \A f : /\ Pending(f)' <=> Pending(f)
                  /\ AtMount(f)' <=> AtMount(f)
                  /\ \A c \in Calls : Handles(c, f)' <=> Handles(c, f)
    BY <1>2 DEF MainStep, FindDanglings, RemoveDangling, UnmountDangling,
       Pending, AtMount, Handles
  <2>2. main.pc = "unmount" => UnmountDangling
    BY <1>2 DEF MainStep, FindDanglings, RemoveDangling
  <2>3. QED
    BY <1>2, <2>1, <2>2, MainMoves DEF Flow, Holding, UnmountsNow
<1>3. CASE UNCHANGED vars
  BY <1>3 DEF vars, Flow, Holding, Pending, AtMount, Handles
<1>4. QED
  BY <1>1, <1>2, <1>3, ParentFlow, ChildFlow DEF Next

-----------------------------------------------------------------------------
(* The host's mounts.                                                      *)

\* A child's namespace is a peer of the host's between unshare and MS_PRIVATE
\* only, and then it has the same mounts.
NamespaceInv ==
  \A c \in Calls :
    /\ c \in shared => child[c] = "private" /\ mounts[c] = mounts[Host]
    /\ child[c] \in {"none", "unshare"} => mounts[c] = {}

\* What a step does to the mounts that the host sees, and to the directories.
HostStays == /\ mounts'[Host] = mounts[Host]
             /\ \A m \in mounts[Host] : m.at \in dirs => m.at \in dirs'

HostMounts(f) ==
  /\ MountsNow(f) /\ AtMount(f) /\ \A m \in mounts[Host] : m.at # PointOf(f)
  /\ mounts'[Host] = mounts[Host] \cup {[at |-> PointOf(f), file |-> f]}
  /\ dirs' = dirs \cup {PointOf(f)}

HostUnmounts(f) ==
  /\ UnmountsNow(f) /\ Holding(f)
  /\ mounts'[Host] = {m \in mounts[Host] : m.at # PointOf(f)}
  /\ dirs' = dirs \ {PointOf(f)}

HostStep == \/ HostStays
            \/ \E f \in ApexFiles : HostMounts(f) \/ HostUnmounts(f)

LEMMA HostNamespace == Host \in Namespaces /\ Host \notin Calls /\ Calls \subseteq Namespaces
BY HooksAssumption DEF Namespaces

\* rmdir in the host does not unmount there.
LEMMA RemoveDirStays ==
  ASSUME TypeOK, NEW p, RemoveDir(p)
  PROVE  HostStays
<1>1. CASE \E m \in mounts[Host] : m.at = p
  BY <1>1 DEF RemoveDir, HostStays
<1>2. CASE \A m \in mounts[Host] : m.at # p
  <2>1. /\ dirs' = dirs \ {p}
        /\ mounts'[Host] = {m \in mounts[Host] : m.at # p}
    BY <1>2, HostNamespace DEF RemoveDir, Detach
  <2>2. {m \in mounts[Host] : m.at # p} = mounts[Host]
    BY <1>2
  <2>3. QED
    BY <1>2, <2>1, <2>2 DEF HostStays
<1>3. QED
  BY <1>1, <1>2

LEMMA StepHost ==
  ASSUME TypeOK, ControlInv, NamespaceInv, [Next]_vars
  PROVE  HostStep
<1> USE DEF HostStep
<1>1. ASSUME UNCHANGED <<dirs, mounts>> PROVE HostStays
  BY <1>1 DEF HostStays
<1>2. ASSUME NEW c \in Calls, ParentStep(c)
      PROVE  HostStep
  <2>0. CallStands(c)
    BY DEF ControlInv
  <2>1. CASE MountPackage(c)
    <3> DEFINE f == frame[c].file
    <3>1. f \in ApexFiles /\ MountsNow(f) /\ AtMount(f)
      BY <2>0, <2>1 DEF CallStands, MountPackage, MountsNow, AtMount
    <3>2. mounts'[Host] = mounts[Host] \cup {[at |-> PointOf(f), file |-> f]}
      BY <2>1, HostNamespace DEF MountPackage, MountIn, Peers
    <3>3. HostMounts(f)
      BY <2>1, <3>1, <3>2 DEF MountPackage, HostMounts
    <3>4. QED
      BY <3>1, <3>3
  <2>2. CASE Unmount(c)
    <3> DEFINE f == frame[c].file
    <3>1. f \in ApexFiles /\ UnmountsNow(f) /\ Holding(f)
      BY <2>0, <2>2 DEF CallStands, Unmount, UnmountsNow, Holding, Handles
    <3>2. Detach(PointOf(f))
      BY <2>2 DEF Unmount, UnmountFile
    <3>3. HostUnmounts(f)
      BY <3>1, <3>2, HostNamespace DEF HostUnmounts, Detach
    <3>4. QED
      BY <3>1, <3>3
  <2>3. CASE MountPackageFails(c)
    BY <2>3, RemoveDirStays DEF MountPackageFails
  <2>4. CASE RemoveActivePoint(c)
    BY <1>1, <2>4, RemoveActivePointMoves, RemoveDirStays
  <2>5. CASE MakeActivePoint(c)
    <3>1. mounts' = mounts /\ dirs \subseteq dirs'
      BY <2>5 DEF MakeActivePoint
    <3>2. QED
      BY <3>1 DEF HostStays
  <2>6. CASE \/ IsMounted(c) \/ AddMountedApex(c) \/ Fork(c) \/ WaitChild(c)
             \/ UnmountPackage(c)
    <3>1. UNCHANGED <<dirs, mounts>>
      BY <2>6 DEF IsMounted, AddMountedApex, Fork, WaitChild, UnmountPackage, kernel
    <3>2. QED
      BY <1>1, <3>1
  <2>7. QED
    BY <1>2, <2>1, <2>2, <2>3, <2>4, <2>5, <2>6 DEF ParentStep
<1>3. ASSUME NEW c \in Calls, ChildStep(c) \/ HookEnds(c)
      PROVE  HostStep
  <2>0. c # Host /\ c \in Namespaces
    BY HostNamespace
  <2>1. CASE Unshare(c)
    <3>1. mounts'[Host] = mounts[Host] /\ dirs' = dirs
      BY <2>0, <2>1, HostNamespace DEF Unshare, TypeOK
    <3>2. QED
      BY <3>1 DEF HostStays
  <2>2. CASE Unbind(c)
    <3>1. Peers(c) = {c}
      BY <2>0, <2>2 DEF NamespaceInv, Unbind, Peers
    <3>2. mounts'[Host] = mounts[Host] /\ dirs \subseteq dirs'
      BY <2>0, <2>2, <3>1, HostNamespace DEF Unbind, UmountIn
    <3>3. QED
      BY <3>2 DEF HostStays
  <2>3. CASE Bind(c)
    <3>1. Peers(c) = {c}
      BY <2>0, <2>3 DEF NamespaceInv, Bind, Peers
    <3>2. mounts'[Host] = mounts[Host] /\ dirs' = dirs
      BY <2>0, <2>3, <3>1, HostNamespace DEF Bind, MountIn
    <3>3. QED
      BY <3>2 DEF HostStays
  <2>4. CASE Exit(c)
    <3>1. mounts'[Host] = mounts[Host] /\ dirs' = dirs
      BY <2>0, <2>4, HostNamespace DEF Exit, TypeOK
    <3>2. QED
      BY <3>1 DEF HostStays
  <2>5. CASE MakePrivate(c) \/ ExecHook(c)
    BY <1>1, <2>5 DEF MakePrivate, ExecHook, kernel
  <2>6. QED
    BY <1>3, <2>1, <2>2, <2>3, <2>4, <2>5 DEF ChildStep, ChildFails, HookEnds
<1>4. ASSUME MainStep
      PROVE  HostStep
  <2>1. CASE UnmountDangling
    <3> DEFINE f == main.file
    <3>1. f \in ApexFiles /\ UnmountsNow(f) /\ Holding(f)
      BY <2>1 DEF ControlInv, UnmountDangling, UnmountsNow, Holding
    <3>2. Detach(PointOf(f))
      BY <2>1 DEF UnmountDangling, UnmountFile
    <3>3. HostUnmounts(f)
      BY <3>1, <3>2, HostNamespace DEF HostUnmounts, Detach
    <3>4. QED
      BY <3>1, <3>3
  <2>2. QED
    BY <1>1, <1>4, <2>1, MainMoves
<1>5. ASSUME NEW c \in Calls, NEW fs \in Sessions[c], StageFnInstall(c, fs)
      PROVE  HostStep
  BY <1>1, <1>5 DEF StageFnInstall, kernel
<1>6. CASE UNCHANGED vars
  BY <1>1, <1>6 DEF vars, kernel
<1>7. QED
  BY <1>2, <1>3, <1>4, <1>5, <1>6 DEF Next

\* Mounts and unmounts in the host reach exactly its peers.
LEMMA NamespaceKernel ==
  ASSUME TypeOK, NamespaceInv, UNCHANGED <<shared, child>>,
         \/ UNCHANGED mounts
         \/ \E p : Detach(p) \/ RemoveDir(p)
         \/ \E p, f : MountIn(Host, p, f)
  PROVE  NamespaceInv'
<1>1. CASE UNCHANGED mounts
  BY <1>1 DEF NamespaceInv
<1>2. ASSUME NEW p, Detach(p) PROVE NamespaceInv'
  <2>1. \A n \in Namespaces : mounts'[n] = {m \in mounts[n] : m.at # p}
    BY <1>2 DEF Detach
  <2>2. QED
    BY <2>1, HostNamespace DEF NamespaceInv
<1>3. ASSUME NEW p, NEW f, MountIn(Host, p, f) PROVE NamespaceInv'
  <2>1. \A n \in Namespaces : mounts'[n] =
          IF n \in shared \cup {Host} THEN mounts[n] \cup {[at |-> p, file |-> f]}
                                     ELSE mounts[n]
    BY <1>3 DEF MountIn, Peers
  <2>2. QED
    BY <2>1, HostNamespace DEF NamespaceInv
<1>4. QED
  BY <1>1, <1>2, <1>3 DEF RemoveDir

LEMMA StepNamespace ==
  TypeOK /\ ControlInv /\ NamespaceInv /\ [Next]_vars => NamespaceInv'
<1> SUFFICES ASSUME TypeOK, ControlInv, NamespaceInv, [Next]_vars
             PROVE  NamespaceInv'
  OBVIOUS
<1>1. ASSUME UNCHANGED <<shared, child, mounts>> PROVE NamespaceInv'
  BY <1>1 DEF NamespaceInv
<1>2. ASSUME NEW c \in Calls, ParentStep(c)
      PROVE  NamespaceInv'
  <2>1. CASE Fork(c)
    <3>1. child[c] = "none"
      BY <2>1 DEF ControlInv, CallStands, Fork
    <3>2. /\ UNCHANGED <<shared, mounts>>
          /\ child' = child \/ child' = [child EXCEPT ![c] = "unshare"]
      BY <2>1 DEF Fork, kernel
    <3>3. QED
      BY <3>1, <3>2 DEF NamespaceInv, TypeOK
  <2>2. CASE MountPackage(c) \/ MountPackageFails(c) \/ Unmount(c)
    BY <2>2, NamespaceKernel DEF MountPackage, MountPackageFails, Unmount, UnmountFile
  <2>3. CASE RemoveActivePoint(c)
    <3>1. UNCHANGED <<shared, child>>
      BY <2>3 DEF RemoveActivePoint
    <3>2. QED
      BY <2>3, <3>1, RemoveActivePointMoves, NamespaceKernel
  <2>4. CASE \/ IsMounted(c) \/ AddMountedApex(c) \/ MakeActivePoint(c)
             \/ WaitChild(c) \/ UnmountPackage(c)
    BY <1>1, <2>4 DEF IsMounted, AddMountedApex, MakeActivePoint, WaitChild,
       UnmountPackage, kernel
  <2>5. QED
    BY <1>2, <2>1, <2>2, <2>3, <2>4 DEF ParentStep
<1>3. ASSUME NEW c \in Calls, ChildStep(c) \/ HookEnds(c)
      PROVE  NamespaceInv'
  <2>0. c # Host /\ c \in Namespaces /\ Host \in Namespaces
    BY HostNamespace
  <2>a. /\ child \in [Calls -> ChildLabels] /\ shared \subseteq Calls
        /\ mounts \in [Namespaces -> SUBSET Mounts]
    BY DEF TypeOK, ChildLabels
  <2>1. CASE Unshare(c)
    BY <2>0, <2>a, <2>1, HostNamespace DEF NamespaceInv, Unshare, ChildGoto
  <2>2. CASE MakePrivate(c)
    BY <2>0, <2>a, <2>2 DEF NamespaceInv, MakePrivate, ChildGoto
  <2>3. CASE Unbind(c) \/ Bind(c)
    <3>1. c \notin shared /\ Peers(c) = {c}
      BY <2>0, <2>3 DEF NamespaceInv, Unbind, Bind, Peers
    <3>2. \A n \in Namespaces \ {c} : mounts'[n] = mounts[n]
      BY <2>3, <3>1 DEF Unbind, Bind, UmountIn, MountIn
    <3>3. /\ shared' = shared /\ child'[c] \in {"bind", "exec", "unbind"}
          /\ \A d \in Calls \ {c} : child'[d] = child[d]
      BY <2>a, <2>3 DEF Unbind, Bind, ChildGoto
    <3>4. QED
      BY <2>0, <3>1, <3>2, <3>3, HostNamespace DEF NamespaceInv
  <2>4. CASE Exit(c)
    BY <2>0, <2>a, <2>4, HostNamespace DEF NamespaceInv, Exit, ChildGoto
  <2>5. CASE ExecHook(c)
    <3>1. /\ UNCHANGED <<shared, mounts>> /\ child[c] = "exec"
          /\ child' = [child EXCEPT ![c] = "hook"]
      BY <2>5 DEF ExecHook, ChildGoto, kernel
    <3>2. QED
      BY <2>a, <3>1 DEF NamespaceInv
  <2>6. QED
    BY <1>3, <2>1, <2>2, <2>3, <2>4, <2>5 DEF ChildStep, ChildFails, HookEnds
<1>4. CASE MainStep
  <2>1. UNCHANGED <<shared, child>>
    BY <1>4 DEF MainStep, FindDanglings, RemoveDangling, UnmountDangling,
       UnmountFile, kernel
  <2>2. mounts' = mounts \/ \E p : Detach(p)
    BY <1>4, MainMoves DEF UnmountDangling, UnmountFile
  <2>3. QED
    BY <2>1, <2>2, NamespaceKernel
<1>5. ASSUME NEW c \in Calls, NEW fs \in Sessions[c], StageFnInstall(c, fs)
      PROVE  NamespaceInv'
  BY <1>1, <1>5 DEF StageFnInstall, kernel
<1>6. CASE UNCHANGED vars
  BY <1>1, <1>6 DEF vars, kernel
<1>7. QED
  BY <1>2, <1>3, <1>4, <1>5, <1>6 DEF Next

\* HostKeepsActive and what it rests on: each point of the host has one mount,
\* and nobody has a file at hand that shares its mount point with an active one.
ActiveInv ==
  /\ HostKeepsActive
  /\ \A m \in mounts[Host] : /\ m.file \in ApexFiles
                             /\ m.at \in {PointOf(m.file), ActivePoint(m.file)}
  /\ \A m, n \in mounts[Host] : m.at = n.at => m = n
  /\ latest \subseteq db
  /\ \A f \in latest, g \in ApexFiles :
       Owned(g) /\ PointOf(g) = PointOf(f) => g = f
  /\ \A f \in latest :
       ~Holding(f) /\ ~Pending(f) /\ ~AtMount(f) /\ f \notin main.todo

LEMMA InitActive == Init => ActiveInv /\ NamespaceInv
<1> SUFFICES ASSUME Init PROVE ActiveInv /\ NamespaceInv
  OBVIOUS
<1>1. NamespaceInv
  BY HooksAssumption DEF Init, NamespaceInv, Namespaces
<1>2. mounts[Host] = {[at |-> PointOf(f), file |-> f] : f \in Installed}
                     \cup {[at |-> ActivePoint(f), file |-> f] : f \in Active}
  BY HostNamespace DEF Init
<1>3. Active \subseteq Installed /\ Installed \subseteq ApexFiles
  BY HooksAssumption
<1>4. \A f : ~Holding(f) /\ ~Pending(f) /\ ~AtMount(f) /\ (Owned(f) => f \in Installed)
  BY ToSetEmpty DEF Init, Holding, Handles, Pending, AtMount, Owned, EmptyFrame
<1>5. \A f, g \in ApexFiles : PointOf(f) # ActivePoint(g)
  BY HooksAssumption DEF PointOf, ActivePoint
<1>6. \A f, g \in Installed : PointOf(f) = PointOf(g) => f = g
  BY HooksAssumption DEF PointOf
<1>7. \A f, g \in Active : ActivePoint(f) = ActivePoint(g) => f = g
  BY HooksAssumption DEF ActivePoint
<1>8. \A m, n \in mounts[Host] : m.at = n.at => m = n
  BY <1>2, <1>3, <1>5, <1>6, <1>7
<1>9. HostKeepsActive
  <2>1. {m \in mounts[Host] : m.at.version = 0}
          = {[at |-> ActivePoint(f), file |-> f] : f \in latest}
    <3>1. latest = Active
      BY DEF Init
    <3>2. \A f \in Installed : /\ PointOf(f).version # 0
                              /\ ActivePoint(f).version = 0
      BY <1>3, PointTypes
    <3>3. QED
      BY <1>2, <1>3, <3>1, <3>2
  <2>2. \A f \in latest : Mounted(Host, f)
    BY <1>2, <1>3 DEF Init, Mounted
  <2>3. \A m \in mounts[Host] : m.at \in dirs
    BY <1>2 DEF Init
  <2>4. QED
    BY <2>1, <2>2, <2>3 DEF HostKeepsActive
<1>10. latest \subseteq db /\ main.todo = {} /\ latest \subseteq Installed
  BY <1>3 DEF Init
<1>11. QED
  BY <1>1, <1>2, <1>3, <1>4, <1>6, <1>8, <1>9, <1>10 DEF ActiveInv

LEMMA StepActive ==
  TypeOK /\ ControlInv /\ NamespaceInv /\ ActiveInv /\ [Next]_vars => ActiveInv'
<1> SUFFICES ASSUME TypeOK, ControlInv, NamespaceInv, ActiveInv, [Next]_vars
             PROVE  ActiveInv'
  OBVIOUS
<1>1. Flow /\ HostStep
  BY StepFlow, StepHost
<1>2. latest \subseteq ApexFiles /\ latest' = latest
  BY <1>1 DEF TypeOK, Flow
<1>3. \A g \in ApexFiles : MountsNow(g) => \A m \in mounts[Host] : m.at # PointOf(g)
  BY DEF MountsNow, MountPackage
<1>4. \A f \in latest : [at |-> PointOf(f), file |-> f] \in mounts[Host]
  BY DEF ActiveInv, HostKeepsActive, Mounted
<1>5. \A g \in ApexFiles : Owned(g)' => Owned(g) \/ MountsNow(g)
  BY <1>1 DEF Flow, Owned
<1>6. \A f \in latest, g \in ApexFiles :
        Owned(g)' /\ PointOf(g) = PointOf(f) => g = f
  BY <1>3, <1>4, <1>5 DEF ActiveInv
<1>7. \A f \in latest :
        /\ ~Holding(f)' /\ ~Pending(f)' /\ ~AtMount(f)' /\ f \notin main'.todo
        /\ f \in db'
  BY <1>1, <1>2 DEF ActiveInv, Flow
<1>8. ASSUME HostStays
      PROVE  ActiveInv'
  <2>1. HostKeepsActive'
    BY <1>2, <1>8 DEF ActiveInv, HostKeepsActive, HostStays, Mounted
  <2>2. QED
    BY <1>2, <1>6, <1>7, <1>8, <2>1 DEF ActiveInv, HostStays
<1>9. ASSUME NEW f \in ApexFiles, HostMounts(f)
      PROVE  ActiveInv'
  <2> DEFINE n == [at |-> PointOf(f), file |-> f]
  <2>1. mounts'[Host] = mounts[Host] \cup {n} /\ dirs' = dirs \cup {PointOf(f)}
        /\ \A m \in mounts[Host] : m.at # PointOf(f)
    BY <1>9 DEF HostMounts
  <2>2. n.at = PointOf(f) /\ n.file = f /\ n.at.version # 0
    BY PointTypes
  <2> HIDE DEF n
  <2>3. HostKeepsActive'
    <3>1. {m \in mounts'[Host] : m.at.version = 0}
            = {m \in mounts[Host] : m.at.version = 0}
      BY <2>1, <2>2
    <3>2. \A m \in mounts'[Host] : m.at \in dirs'
      BY <2>1, <2>2 DEF ActiveInv, HostKeepsActive
    <3>3. \A g \in latest : Mounted(Host, g)'
      BY <1>4, <2>1 DEF Mounted
    <3>4. QED
      BY <1>2, <3>1, <3>2, <3>3 DEF ActiveInv, HostKeepsActive
  <2>4. \A m \in mounts'[Host] : /\ m.file \in ApexFiles
                                 /\ m.at \in {PointOf(m.file), ActivePoint(m.file)}
    BY <2>1, <2>2 DEF ActiveInv
  <2>5. \A m, k \in mounts'[Host] : m.at = k.at => m = k
    BY <2>1, <2>2 DEF ActiveInv
  <2>6. QED
    BY <1>2, <1>6, <1>7, <2>3, <2>4, <2>5 DEF ActiveInv
<1>10. ASSUME NEW f \in ApexFiles, HostUnmounts(f)
       PROVE  ActiveInv'
  <2>1. /\ mounts'[Host] = {m \in mounts[Host] : m.at # PointOf(f)}
        /\ dirs' = dirs \ {PointOf(f)} /\ Owned(f)
    BY <1>10 DEF HostUnmounts, Owned
  <2>2. f \notin latest
    BY <1>10 DEF ActiveInv, HostUnmounts
  <2>3. \A g \in latest : PointOf(g) # PointOf(f)
    BY <2>1, <2>2 DEF ActiveInv
  <2>4. PointOf(f).version # 0
    BY PointTypes
  <2>5. HostKeepsActive'
    <3>1. {m \in mounts'[Host] : m.at.version = 0}
            = {m \in mounts[Host] : m.at.version = 0}
      BY <2>1, <2>4
    <3>2. \A m \in mounts'[Host] : m.at \in dirs'
      BY <2>1 DEF ActiveInv, HostKeepsActive
    <3>3. \A g \in latest : Mounted(Host, g)'
      BY <1>4, <2>1, <2>3 DEF Mounted
    <3>4. QED
      BY <1>2, <3>1, <3>2, <3>3 DEF ActiveInv, HostKeepsActive
  <2>6. \A m \in mounts'[Host] : m \in mounts[Host]
    BY <2>1
  <2>7. QED
    BY <1>2, <1>6, <1>7, <2>5, <2>6 DEF ActiveInv
<1>11. QED
  BY <1>1, <1>8, <1>9, <1>10 DEF HostStep

\* HostKeepsActive: hooks and the calls that run them never change what the
\* rest of the system finds on /apex/<name>, nor unmount an active package
\* (MS_PRIVATE in RunFnInstall, the latest flag in UnmountPackage).
THEOREM HostAlwaysKeepsActive == Spec => []HostKeepsActive
<1> DEFINE Inv == TypeOK /\ ControlInv /\ NamespaceInv /\ ActiveInv
<1>1. Init => Inv
  BY InitType, InitActive
<1>2. Inv /\ [Next]_vars => Inv'
  BY StepType, StepControl, StepNamespace, StepActive
<1>3. Inv => HostKeepsActive
  BY DEF ActiveInv
<1>4. QED
  BY <1>1, <1>2, <1>3, PTL DEF Spec

-----------------------------------------------------------------------------
(* What the calls leave behind.                                            *)

HasMount(p) == \E m \in mounts[Host] : m.at = p

\* A call will remove the active point p.
Tracked(p) == \E c \in Calls : p \in ToSet(frame[c].dirs)

\* File f was mounted before the calls, and no other file can take its place.
Untouched(f) ==
  /\ f \in Installed /\ Mounted(Host, f) /\ ~Holding(f)
  /\ \A g \in ApexFiles :
       (Owned(g) \/ Pending(g)) /\ PointOf(g) = PointOf(f) => g = f

\* What is mounted is in the database or in somebody's hands; what is in the
\* database is mounted since before or will be cleaned up; so is each directory.
CleanInv ==
  /\ \A m \in mounts[Host] : m.file \in db \/ Holding(m.file)
  /\ \A f \in db : Pending(f) \/ Untouched(f)
  /\ \A p \in dirs : HasMount(p) \/ p \in remade \/ Tracked(p)

\* Every directory that a step makes is known to somebody.
DirsFlow ==
  /\ remade \subseteq remade'
  /\ \A p \in dirs' : p \in dirs \/ p \in remade' \/ Tracked(p)' \/ HasMount(p)'
  /\ \A p \in dirs' : Tracked(p) => Tracked(p)' \/ HasMount(p)'

LEMMA SameDirs ==
  ASSUME dirs' \subseteq dirs, remade' = remade,
         \A c \in Calls : ToSet(frame[c].dirs) \subseteq ToSet(frame'[c].dirs)
  PROVE  DirsFlow
BY DEF DirsFlow, Tracked

LEMMA CleanUpDirs ==
  ASSUME TypeOK, NEW c \in Calls, CleanUp(c)
  PROVE  \A d \in Calls : ToSet(frame[d].dirs) \subseteq ToSet(frame'[d].dirs)
BY CleanUpFacts

LEMMA ParentDirs ==
  ASSUME TypeOK, ControlInv, NamespaceInv, NEW c \in Calls, ParentStep(c)
  PROVE  DirsFlow
<1>0. CallStands(c) /\ frame[c] \in Frames
  BY DEF ControlInv, TypeOK
<1>1. CASE IsMounted(c) \/ AddMountedApex(c) \/ UnmountPackage(c)
  <2>1. frame'[c].dirs = frame[c].dirs
        /\ \A d \in Calls \ {c} : frame'[d] = frame[d]
    BY <1>1, IsMountedMoves, AddMountedApexMoves, UnmountPackageMoves DEF Moves, Has
  <2>2. UNCHANGED <<dirs, remade>>
    BY <1>1 DEF IsMounted, AddMountedApex, UnmountPackage, kernel
  <2>3. QED
    BY <2>1, <2>2, SameDirs
<1>2. CASE MountPackage(c)
  <2> DEFINE f == frame[c].file
  <2>1. /\ dirs' = dirs \cup {PointOf(f)} /\ remade' = remade
        /\ MountIn(Host, PointOf(f), f) /\ UNCHANGED frame
    BY <1>2, SameFrame DEF MountPackage, Goto, TypeOK
  <2>2. \A q : q = PointOf(f) => HasMount(q)'
    <3>1. [at |-> PointOf(f), file |-> f] \in mounts'[Host]
      BY <2>1, HostNamespace DEF MountIn, Peers
    <3>2. QED
      BY <3>1 DEF HasMount
  <2>3. QED
    BY <2>1, <2>2 DEF DirsFlow, Tracked
<1>3. CASE MountPackageFails(c) \/ Unmount(c)
  <2>1. dirs' \subseteq dirs /\ remade' = remade
    BY <1>3 DEF MountPackageFails, Unmount, UnmountFile, RemoveDir, Detach
  <2>2. CleanUp(c)
    BY <1>3 DEF MountPackageFails, Unmount
  <2>3. QED
    BY <2>1, <2>2, CleanUpDirs, SameDirs
<1>4. CASE MakeActivePoint(c)
  <2> DEFINE g == frame[c]  p == ActivePoint(g.file)
  <2>0. remade' = remade /\ mounts' = mounts
    BY <1>4 DEF MakeActivePoint
  <2>1. CASE CleanUp(c) /\ UNCHANGED dirs
    BY <2>0, <2>1, CleanUpDirs, SameDirs
  <2>2. CASE /\ UNCHANGED dirs
             /\ Moves(c, "isMounted", g.apexes, g.todo, g.file, g.mounted, g.dirs)
    BY <2>0, <2>2, SameDirs DEF Moves, Has
  <2>3. CASE /\ dirs' = dirs \cup {p} /\ g.file \in ApexFiles
             /\ Moves(c, "isMounted", g.apexes, g.todo, g.file, g.mounted,
                      Append(g.dirs, p))
    <3>1. ToSet(Append(g.dirs, p)) = ToSet(g.dirs) \cup {p}
      <4>1. g.dirs \in Seq(Points) /\ p \in Points
        BY <1>0, <2>3, FrameFields, PointTypes
      <4>2. QED
        BY <4>1, ToSetFacts
    <3>2. /\ ToSet(frame'[c].dirs) = ToSet(g.dirs) \cup {p}
          /\ \A d \in Calls \ {c} : frame'[d] = frame[d]
      BY <2>3, <3>1 DEF Moves, Has
    <3>3. QED
      BY <2>0, <2>3, <3>2 DEF DirsFlow, Tracked
  <2>4. QED
    BY <1>4, <2>1, <2>2, <2>3, MakeActivePointMoves
<1>5. CASE Fork(c) \/ WaitChild(c)
  <2>1. UNCHANGED <<dirs, remade>>
    BY <1>5 DEF Fork, WaitChild, kernel
  <2>2. CASE CleanUp(c)
    BY <2>1, <2>2, CleanUpDirs, SameDirs
  <2>3. CASE \E s : Moves(c, "wait", frame[c].apexes, s, frame[c].file,
                          frame[c].mounted, frame[c].dirs)
    <3>1. \A d \in Calls : frame'[d].dirs = frame[d].dirs
      BY <2>3 DEF Moves, Has
    <3>2. QED
      BY <2>1, <3>1, SameDirs
  <2>4. QED
    BY <1>5, <2>2, <2>3, ForkMoves DEF WaitChild
<1>6. CASE RemoveActivePoint(c)
  <2> DEFINE g == frame[c]
  <2>0. remade' = remade
    BY <1>6 DEF RemoveActivePoint
  <2>1. CASE g.dirs = <<>> /\ UNCHANGED dirs /\ Goto(c, "done", EmptyFrame)
    <3>1. \A d \in Calls \ {c} : frame'[d] = frame[d]
      BY <2>1, GotoFacts, EmptyFrameType DEF Labels
    <3>2. \A d \in Calls : ToSet(frame[d].dirs) \subseteq ToSet(frame'[d].dirs)
      BY <2>1, <3>1, ToSetEmpty
    <3>3. QED
      BY <2>0, <2>1, <3>2, SameDirs
  <2>2. CASE /\ RemoveDir(Head(g.dirs))
             /\ ToSet(g.dirs) = {Head(g.dirs)} \cup ToSet(Tail(g.dirs))
             /\ Moves(c, "rmdir", g.apexes, g.todo, g.file, g.mounted, Tail(g.dirs))
    <3> DEFINE p == Head(g.dirs)
    <3>1. /\ frame'[c].dirs = Tail(g.dirs)
          /\ \A d \in Calls \ {c} : frame'[d] = frame[d]
      BY <2>2 DEF Moves, Has
    <3>2. dirs' \subseteq dirs /\ \A q \in dirs' : q = p => HasMount(q)'
      <4>1. CASE HasMount(p)
        <5>1. UNCHANGED <<dirs, mounts>>
          BY <2>2, <4>1 DEF RemoveDir, HasMount
        <5>2. QED
          BY <4>1, <5>1 DEF HasMount
      <4>2. CASE ~HasMount(p)
        BY <2>2, <4>2 DEF RemoveDir, Detach, HasMount
      <4>3. QED
        BY <4>1, <4>2
    <3> HIDE DEF p
    <3>3. \A q : Tracked(q) => Tracked(q)' \/ q = p
      BY <2>2, <3>1 DEF Tracked, p
    <3>4. QED
      BY <2>0, <3>2, <3>3 DEF DirsFlow
  <2>3. QED
    BY <1>6, <2>1, <2>2, RemoveActivePointMoves
<1>7. QED
  BY <1>1, <1>2, <1>3, <1>4, <1>5, <1>6 DEF ParentStep

LEMMA StepDirs ==
  ASSUME TypeOK, ControlInv, NamespaceInv, [Next]_vars
  PROVE  DirsFlow
<1>1. ASSUME NEW c \in Calls, NEW fs \in Sessions[c], StageFnInstall(c, fs)
      PROVE  DirsFlow
  <2>1. frame[c].dirs = <<>> /\ UNCHANGED <<dirs, remade>>
    BY <1>1 DEF StageFnInstall, ControlInv, CallStands, EmptyFrame, kernel
  <2>2. \A d \in Calls : ToSet(frame[d].dirs) \subseteq ToSet(frame'[d].dirs)
    BY <1>1, <2>1, ToSetEmpty, StageMoves DEF Moves, Has
  <2>3. QED
    BY <2>1, <2>2, SameDirs
<1>2. ASSUME NEW c \in Calls, ChildStep(c) \/ HookEnds(c)
      PROVE  DirsFlow
  <2>1. CASE Unbind(c)
    <3>1. \A d \in Calls : frame'[d].dirs = frame[d].dirs
      BY <2>1, UnbindMoves DEF Has
    <3>2. remade \subseteq remade' /\ \A p \in dirs' : p \in dirs \/ p \in remade'
      BY <2>1 DEF Unbind
    <3>3. QED
      BY <3>1, <3>2 DEF DirsFlow, Tracked
  <2>2. CASE UNCHANGED <<dirs, remade, frame>>
    BY <2>2, SameDirs
  <2>3. QED
    BY <1>2, <2>1, <2>2 DEF ChildStep, HookEnds, Unshare, MakePrivate, Bind,
       ExecHook, ChildFails, Exit, kernel
<1>3. CASE MainStep
  <2>1. UNCHANGED <<remade, frame>> /\ dirs' \subseteq dirs
    BY <1>3 DEF MainStep, FindDanglings, RemoveDangling, UnmountDangling,
       UnmountFile, Detach, kernel
  <2>2. QED
    BY <2>1, SameDirs
<1>4. CASE UNCHANGED vars
  BY <1>4, SameDirs DEF vars, kernel
<1>5. QED
  BY <1>1, <1>2, <1>3, <1>4, ParentDirs DEF Next

\* What a step mounts, its call holds; what it unmounts is mounted no more.
LEMMA MountsAreHeld ==
  ASSUME TypeOK, NEW f \in ApexFiles
  PROVE  /\ MountsNow(f) => Holding(f)' /\ \A m \in mounts[Host] : m.at # PointOf(f)
         /\ UnmountsNow(f) => \A m \in mounts'[Host] : m.at # PointOf(f)
<1>1. ASSUME NEW c \in Calls, MountPackage(c), frame[c].file = f
      PROVE  Holding(f)' /\ \A m \in mounts[Host] : m.at # PointOf(f)
  <2>1. pc'[c] = "add" /\ frame'[c].file = f
    BY <1>1, SameFrame DEF MountPackage, Moves, Has, Labels
  <2>2. QED
    BY <1>1, <2>1 DEF MountPackage, Holding, Handles
<1>2. ASSUME Detach(PointOf(f))
      PROVE  \A m \in mounts'[Host] : m.at # PointOf(f)
  BY <1>2, HostNamespace DEF Detach
<1>3. QED
  BY <1>1, <1>2 DEF MountsNow, UnmountsNow, Unmount, UnmountDangling, UnmountFile

LEMMA InitClean == Init => CleanInv
<1> SUFFICES ASSUME Init PROVE CleanInv
  OBVIOUS
<1>1. /\ mounts[Host] = {[at |-> PointOf(f), file |-> f] : f \in Installed}
                        \cup {[at |-> ActivePoint(f), file |-> f] : f \in Active}
      /\ db = Installed /\ Active \subseteq Installed /\ Installed \subseteq ApexFiles
  BY HostNamespace, HooksAssumption DEF Init
<1>2. \A f : ~Holding(f) /\ ~Pending(f) /\ (Owned(f) => f \in Installed)
  BY ToSetEmpty DEF Init, Holding, Handles, Pending, Owned, EmptyFrame
<1>3. \A f \in db : Untouched(f)
  BY <1>1, <1>2, HooksAssumption DEF Untouched, Mounted, PointOf
<1>4. \A p \in dirs : HasMount(p)
  <2>1. \A f \in Installed : [at |-> PointOf(f), file |-> f] \in mounts[Host]
    BY <1>1
  <2>2. \A f \in Active : [at |-> ActivePoint(f), file |-> f] \in mounts[Host]
    BY <1>1
  <2>3. \A f \in Installed : HasMount(PointOf(f))
    BY <2>1 DEF HasMount
  <2>4. \A f \in Active : HasMount(ActivePoint(f))
    BY <2>2 DEF HasMount
  <2>5. QED
    BY <2>3, <2>4 DEF Init
<1>5. \A m \in mounts[Host] : m.file \in db
  BY <1>1
<1>6. QED
  BY <1>3, <1>4, <1>5 DEF CleanInv

LEMMA StepClean ==
  /\ TypeOK /\ ControlInv /\ NamespaceInv /\ ActiveInv /\ CleanInv /\ [Next]_vars
  /\ ActiveInv'
  => CleanInv'
<1> SUFFICES ASSUME TypeOK, ControlInv, NamespaceInv, ActiveInv, CleanInv,
                    [Next]_vars, ActiveInv'
             PROVE  CleanInv'
  OBVIOUS
<1>1. Flow /\ HostStep /\ DirsFlow
  BY StepFlow, StepHost, StepDirs
<1>2. ASSUME NEW m \in mounts'[Host]
      PROVE  m.file \in db' \/ Holding(m.file)'
  <2> DEFINE f == m.file
  <2>1. /\ f \in ApexFiles /\ m.at \in {PointOf(f), ActivePoint(f)}
    BY DEF ActiveInv
  <2> HIDE DEF f
  <2>2. CASE m \in mounts[Host]
    <3>1. f \in db \/ Holding(f)
      BY <2>2 DEF CleanInv, f
    <3>2. f \in db' \/ Holding(f)' \/ UnmountsNow(f)
      BY <1>1, <2>1, <3>1 DEF Flow
    <3>3. ASSUME UnmountsNow(f) PROVE f \in db'
      <4>1. m.at.version = 0
        BY <2>1, <3>3, MountsAreHeld, PointTypes
      <4>2. f \in latest' /\ latest' \subseteq db'
        BY <4>1 DEF ActiveInv, HostKeepsActive, f
      <4>3. QED
        BY <4>2
    <3>4. QED
      BY <3>2, <3>3 DEF f
  <2>3. CASE m \notin mounts[Host]
    <3>1. PICK g \in ApexFiles : HostMounts(g)
      BY <1>1, <2>3 DEF HostStep, HostStays, HostUnmounts
    <3>2. m.file = g /\ MountsNow(g)
      BY <2>3, <3>1 DEF HostMounts
    <3>3. QED
      BY <3>2, MountsAreHeld
  <2>4. QED
    BY <2>2, <2>3
<1>3. ASSUME NEW f \in ApexFiles, f \in db'
      PROVE  Pending(f)' \/ Untouched(f)'
  <2>1. CASE f \notin db
    BY <1>1, <1>3, <2>1 DEF Flow
  <2>2. CASE f \in db /\ Pending(f)
    <3>1. f \notin latest
      BY <2>2 DEF ActiveInv
    <3>2. QED
      BY <1>1, <1>3, <2>2, <3>1 DEF Flow
  <2>3. CASE f \in db /\ Untouched(f)
    <3>1. [at |-> PointOf(f), file |-> f] \in mounts[Host] /\ ~Holding(f)
      BY <2>3 DEF Untouched, Mounted
    <3>2. \A g \in ApexFiles : MountsNow(g) => PointOf(g) # PointOf(f)
      BY <3>1, MountsAreHeld
    <3>3. ~Holding(f)'
      BY <1>1, <1>3, <3>1, <3>2 DEF Flow
    <3>4. \A g \in ApexFiles :
            (Owned(g)' \/ Pending(g)') /\ PointOf(g) = PointOf(f) => g = f
      BY <1>1, <2>3, <3>2 DEF Flow, Owned, Untouched
    <3>5. \A g \in ApexFiles : Holding(g) => PointOf(g) # PointOf(f)
      BY <2>3, <3>1 DEF Untouched, Owned
    <3>6. [at |-> PointOf(f), file |-> f] \in mounts'[Host]
      BY <1>1, <3>1, <3>5 DEF HostStep, HostStays, HostMounts, HostUnmounts
    <3>7. QED
      BY <2>3, <3>3, <3>4, <3>6 DEF Untouched, Mounted
  <2>4. QED
    BY <2>1, <2>2, <2>3 DEF CleanInv
<1>4. ASSUME NEW p \in dirs'
      PROVE  HasMount(p)' \/ p \in remade' \/ Tracked(p)'
  <2>1. ASSUME p \in dirs, HasMount(p) PROVE HasMount(p)'
    <3>1. PICK m \in mounts[Host] : m.at = p
      BY <2>1 DEF HasMount
    <3>2. m \in mounts'[Host]
      BY <1>1, <1>4, <3>1 DEF HostStep, HostStays, HostMounts, HostUnmounts
    <3>3. QED
      BY <3>1, <3>2 DEF HasMount
  <2>2. QED
    BY <1>1, <1>4, <2>1 DEF CleanInv, DirsFlow
<1>5. db' \subseteq ApexFiles
  BY StepType DEF TypeOK
<1>6. QED
  BY <1>2, <1>3, <1>4, <1>5 DEF CleanInv

\* The whole invariant.
HooksInv ==
  TypeOK /\ ControlInv /\ NamespaceInv /\ ActiveInv /\ CleanInv

LEMMA HooksInvariant == Spec => []HooksInv
<1>1. Init => HooksInv
  BY InitType, InitActive, InitClean DEF HooksInv
<1>2. HooksInv /\ [Next]_vars => HooksInv'
  BY StepType, StepControl, StepNamespace, StepActive, StepClean DEF HooksInv
<1>3. QED
  BY <1>1, <1>2, PTL DEF Spec

\* When all calls are over, nothing is at hand.
LEMMA IdleFacts ==
  ASSUME HooksInv, Idle
  PROVE  /\ \A f : ~Holding(f) /\ ~Pending(f)
         /\ \A p : ~Tracked(p)
         /\ \A c \in Calls : child[c] = "none" /\ mounts[c] = {}
<1>1. \A c \in Calls : frame[c] = EmptyFrame
  BY DEF HooksInv, ControlInv, CallStands, Idle
<1>2. \A c \in Calls : child[c] = "none"
  BY DEF HooksInv, ControlInv, CallStands, Idle
<1>3. QED
  BY <1>1, <1>2, ToSetEmpty DEF Idle, Holding, Handles, Pending, Tracked,
     EmptyFrame, HooksInv, NamespaceInv

\* NothingIsLeft: whatever the calls mounted and made is gone when they are
\* over (the scope guard of StageFnInstall), although unmountDanglingMounts may
\* take packages away from under them.
THEOREM NothingIsEverLeft == Spec => []NothingIsLeft
<1>1. HooksInv => NothingIsLeft
  <2> SUFFICES ASSUME HooksInv, Idle
               PROVE  /\ db \subseteq Installed
                      /\ {m.file : m \in mounts[Host]} = db
                      /\ dirs \subseteq {m.at : m \in mounts[Host]} \cup remade
    BY DEF NothingIsLeft
  <2>1. \A f \in db : f \in Installed /\ Mounted(Host, f)
    BY IdleFacts DEF HooksInv, CleanInv, Untouched
  <2>2. \A m \in mounts[Host] : m.file \in db
    BY IdleFacts DEF HooksInv, CleanInv
  <2>3. \A p \in dirs : HasMount(p) \/ p \in remade
    BY IdleFacts DEF HooksInv, CleanInv
  <2>4. \A f \in db : \E m \in mounts[Host] : m.file = f
    <3> TAKE f \in db
    <3>1. [at |-> PointOf(f), file |-> f] \in mounts[Host]
      BY <2>1 DEF Mounted
    <3>2. QED
      BY <3>1
  <2>5. {m.file : m \in mounts[Host]} = db
    BY <2>2, <2>4
  <2>6. QED
    BY <2>1, <2>3, <2>5 DEF HasMount
<1>2. QED
  BY <1>1, HooksInvariant, PTL

\* LeftoverIsReplaceable: no dm-verity device that the calls left behind is
\* held by a namespace or a hook when they are over (WaitChild in ForkAndRun).
THEOREM LeftoverIsAlwaysReplaceable == Spec => []LeftoverIsReplaceable
<1>1. HooksInv => LeftoverIsReplaceable
  <2> SUFFICES ASSUME HooksInv, Idle, NEW f \in devices \ db
               PROVE  ~Busy(f, mounts)
    BY DEF LeftoverIsReplaceable
  <2>1. \A m \in mounts[Host] : m.file # f
    BY IdleFacts DEF HooksInv, CleanInv
  <2>2. \A n \in Namespaces : \A m \in mounts[n] : m.file # f
    BY <2>1, IdleFacts DEF Namespaces
  <2>3. QED
    BY <2>2, IdleFacts DEF Busy
<1>2. QED
  BY <1>1, HooksInvariant, PTL

-----------------------------------------------------------------------------
(* What a hook sees.                                                       *)

\* The packages of a call are of different names, as those of the sessions
\* that the package installer submits.
DistinctNames ==
  \A c \in Calls : \A fs \in Sessions[c] :
    \A f, g \in ToSet(fs) : f.name = g.name => f = g

\* Namespace ns has f mounted at p and nothing else; it has nothing there.
Only(ns, p, f) == /\ [at |-> p, file |-> f] \in mounts[ns]
                  /\ \A m \in mounts[ns] : m.at = p => m.file = f
Nothing(ns, p) == \A m \in mounts[ns] : m.at # p

\* As long as nobody disturbs call c: the packages that it has passed are
\* mounted in the host, then in its child's namespace, and those that the child
\* has passed are on their active points.
Sees(c) ==
  \A f \in ToSet(frame[c].apexes) :
    /\ pc[c] \in {"isMounted", "add", "mkdir"} =>
         Mounted(Host, f) \/ f \in ToSet(frame[c].todo)
    /\ pc[c] = "mount" =>
         Mounted(Host, f) \/ f \in ToSet(frame[c].todo) \/ f = frame[c].file
    /\ pc[c] = "fork" \/ child[c] = "unshare" => Mounted(Host, f)
    /\ child[c] \in {"unshare", "private"} => f \in ToSet(frame[c].todo)
    /\ child[c] \in {"private", "unbind", "bind", "exec"} => Only(c, PointOf(f), f)
    /\ child[c] = "unbind" =>
         f \in ToSet(frame[c].todo) \/ Only(c, ActivePoint(f), f)
    /\ child[c] = "bind" =>
         \/ f \in ToSet(frame[c].todo)
         \/ f # frame[c].file /\ Only(c, ActivePoint(f), f)
         \/ f = frame[c].file /\ Nothing(c, ActivePoint(f))
    /\ child[c] \in {"exec", "hook"} => Only(c, ActivePoint(f), f)

SeenInv(c) ==
  /\ \A f, g \in ToSet(frame[c].apexes) : f.name = g.name => f = g
  /\ child[c] \in {"unshare", "private", "unbind", "bind"} =>
       ToSet(frame[c].todo) \subseteq ToSet(frame[c].apexes)
  /\ child[c] = "bind" => frame[c].file \in ToSet(frame[c].apexes)
  /\ c \notin disturbed => Sees(c)

\* The step leaves the mounts of call c's packages alone.
Keeps(c) ==
  \A f \in ToSet(frame[c].apexes) :
    /\ Mounted(Host, f) => Mounted(Host, f)'
    /\ \A p \in {PointOf(f), ActivePoint(f)} : Only(c, p, f) => Only(c, p, f)'
    /\ Nothing(c, ActivePoint(f)) => Nothing(c, ActivePoint(f))'

LEMMA OthersSeen ==
  ASSUME NEW c \in Calls, SeenInv(c),
         pc'[c] = pc[c], frame'[c] = frame[c], child'[c] = child[c],
         c \notin disturbed' => c \notin disturbed /\ Keeps(c)
  PROVE  SeenInv(c)'
<1>1. ASSUME c \notin disturbed' PROVE Sees(c)'
  <2>1. Sees(c) /\ Keeps(c)
    BY <1>1 DEF SeenInv
  <2>2. QED
    BY <2>1 DEF Sees, Keeps
<1>2. QED
  BY <1>1 DEF SeenInv

\* A call that cleans up has no packages left to see.
LEMMA NothingSeen ==
  ASSUME NEW c, frame'[c].apexes = <<>>, child'[c] = "none"
  PROVE  SeenInv(c)'
BY ToSetEmpty DEF SeenInv, Sees

\* A mount in the host and a mount point that goes: what they mean for others.
LEMMA HostMountKeeps ==
  ASSUME TypeOK, NamespaceInv, NEW c \in Calls, NEW g \in ApexFiles,
         \A m \in mounts[Host] : m.at # PointOf(g), MountIn(Host, PointOf(g), g)
  PROVE  Keeps(c)
<1>1. \A n \in Namespaces : mounts'[n] =
        IF n \in shared \cup {Host} THEN mounts[n] \cup {[at |-> PointOf(g), file |-> g]}
                                   ELSE mounts[n]
  BY DEF MountIn, Peers
<1>2. mounts[Host] \subseteq mounts'[Host]
  BY <1>1, HostNamespace
<1>3. CASE c \notin shared
  <2>1. mounts'[c] = mounts[c]
    BY <1>1, <1>3, HostNamespace
  <2>2. QED
    BY <1>2, <2>1 DEF Keeps, Mounted, Only, Nothing
<1>4. CASE c \in shared
  <2>1. /\ mounts'[c] = mounts[c] \cup {[at |-> PointOf(g), file |-> g]}
        /\ mounts[c] = mounts[Host]
    BY <1>1, <1>4, HostNamespace DEF NamespaceInv
  <2>2. PointOf(g).version # 0
    BY PointTypes
  <2>3. \A p, f : Only(c, p, f) => Only(c, p, f)'
    BY <2>1 DEF Only
  <2>4. \A p : p.version = 0 /\ Nothing(c, p) => Nothing(c, p)'
    BY <2>1, <2>2 DEF Nothing
  <2>5. \A f \in ToSet(frame[c].apexes) : ActivePoint(f).version = 0
    BY DEF ActivePoint
  <2>6. QED
    BY <1>2, <2>3, <2>4, <2>5 DEF Keeps, Mounted
<1>5. QED
  BY <1>3, <1>4

LEMMA DetachKeeps ==
  ASSUME TypeOK, NEW c \in Calls, NEW p, NEW t, t # c, Detach(p) \/ RemoveDir(p),
         Disturb(t, p.name), c \notin disturbed'
  PROVE  c \notin disturbed /\ Keeps(c)
<1>1. c \notin disturbed /\ \A f \in ToSet(frame[c].apexes) : f.name # p.name
  BY DEF Disturb
<1>2. \A f \in ToSet(frame[c].apexes) : PointOf(f) # p /\ ActivePoint(f) # p
  BY <1>1 DEF PointOf, ActivePoint
<1>3. CASE UNCHANGED mounts
  BY <1>1, <1>3 DEF Keeps, Mounted, Only, Nothing
<1>4. CASE Detach(p)
  <2>1. /\ mounts'[Host] = {m \in mounts[Host] : m.at # p}
        /\ mounts'[c] = {m \in mounts[c] : m.at # p}
    BY <1>4, HostNamespace DEF Detach
  <2>2. QED
    BY <1>1, <1>2, <2>1 DEF Keeps, Mounted, Only, Nothing
<1>5. QED
  BY <1>3, <1>4 DEF RemoveDir

\* The steps of the other calls, their children and the main thread.
LEMMA OtherParentSeen ==
  ASSUME TypeOK, ControlInv, NamespaceInv, NEW c \in Calls, NEW d \in Calls,
         d # c, SeenInv(c), ParentStep(d)
  PROVE  SeenInv(c)'
<1>0. CallStands(d)
  BY DEF ControlInv
<1>1. pc'[c] = pc[c] /\ frame'[c] = frame[c] /\ child'[c] = child[c]
  <2>1. CASE Fork(d)
    BY <2>1, ForkMoves, CleanUpFacts DEF Moves, TypeOK
  <2>2. UNCHANGED child \/ Fork(d)
    BY DEF ParentStep, IsMounted, MountPackage, MountPackageFails, AddMountedApex,
       MakeActivePoint, WaitChild, UnmountPackage, Unmount, RemoveActivePoint
  <2>3. \E l, fr : Goto(d, l, fr) \/ CleanUp(d)
    BY DEF ParentStep, IsMounted, MountPackage, MountPackageFails, AddMountedApex,
       MakeActivePoint, Fork, WaitChild, UnmountPackage, Unmount, RemoveActivePoint
  <2>4. QED
    BY <2>1, <2>2, <2>3 DEF Goto, CleanUp, TypeOK
<1>2. ASSUME UNCHANGED mounts, c \notin disturbed' => c \notin disturbed
      PROVE  SeenInv(c)'
  <2>1. Keeps(c)
    BY <1>2 DEF Keeps, Mounted, Only, Nothing
  <2>2. QED
    BY <1>1, <1>2, <2>1, OthersSeen
<1>3. CASE MountPackage(d)
  <2> DEFINE g == frame[d].file
  <2>1. /\ g \in ApexFiles /\ MountIn(Host, PointOf(g), g)
        /\ \A m \in mounts[Host] : m.at # PointOf(g) /\ UNCHANGED disturbed
    BY <1>0, <1>3 DEF CallStands, MountPackage
  <2>2. Keeps(c) /\ UNCHANGED disturbed
    BY <1>3, <2>1, HostMountKeeps DEF MountPackage
  <2>3. QED
    BY <1>1, <2>2, OthersSeen
<1>4. CASE MountPackageFails(d)
  <2> DEFINE p == PointOf(frame[d].file)
  <2>1. RemoveDir(p) /\ Disturb(d, p.name)
    BY <1>4 DEF MountPackageFails
  <2>2. QED
    BY <1>1, <2>1, DetachKeeps, OthersSeen
<1>5. CASE Unmount(d)
  <2> DEFINE p == PointOf(frame[d].file)
  <2>1. Detach(p) /\ Disturb(d, p.name)
    BY <1>5 DEF Unmount, UnmountFile, PointOf
  <2>2. QED
    BY <1>1, <2>1, DetachKeeps, OthersSeen
<1>6. CASE RemoveActivePoint(d)
  <2>1. CASE UNCHANGED <<mounts, disturbed>>
    BY <1>2, <2>1
  <2>2. CASE RemoveDir(Head(frame[d].dirs)) /\ Disturb(d, Head(frame[d].dirs).name)
    BY <1>1, <2>2, DetachKeeps, OthersSeen
  <2>3. QED
    BY <1>6, <2>1, <2>2, RemoveActivePointMoves
<1>7. CASE IsMounted(d)
  BY <1>2, <1>7, IsMountedMoves DEF IsMounted, kernel
<1>8. CASE \/ AddMountedApex(d) \/ MakeActivePoint(d) \/ Fork(d) \/ WaitChild(d)
           \/ UnmountPackage(d)
  <2>1. /\ UNCHANGED mounts
        /\ disturbed' = disturbed \/ disturbed' = disturbed \ {d}
    BY <1>8 DEF AddMountedApex, MakeActivePoint, Fork, WaitChild, UnmountPackage, kernel
  <2>2. QED
    BY <1>2, <2>1
<1>9. QED
  BY <1>3, <1>4, <1>5, <1>6, <1>7, <1>8 DEF ParentStep

LEMMA OtherChildSeen ==
  ASSUME TypeOK, NamespaceInv, NEW c \in Calls, NEW d \in Calls,
         d # c, SeenInv(c), ChildStep(d) \/ HookEnds(d)
  PROVE  SeenInv(c)'
<1>0. /\ child \in [Calls -> ChildLabels] /\ mounts \in [Namespaces -> SUBSET Mounts]
      /\ d \in Namespaces /\ c \in Namespaces /\ Host \in Namespaces /\ d # Host
      /\ frame \in [Calls -> Frames]
  BY HostNamespace DEF TypeOK, ChildLabels
<1>1. /\ pc'[c] = pc[c] /\ child'[c] = child[c] /\ UNCHANGED disturbed
      /\ mounts'[Host] = mounts[Host] /\ mounts'[c] = mounts[c]
  <2>1. CASE Unshare(d) \/ Exit(d)
    BY <1>0, <2>1 DEF Unshare, Exit, ChildGoto
  <2>2. CASE MakePrivate(d) \/ ExecHook(d)
    BY <1>0, <2>2 DEF MakePrivate, ExecHook, ChildGoto, kernel
  <2>3. CASE Unbind(d) \/ Bind(d)
    <3>1. Peers(d) = {d}
      BY <1>0, <2>3 DEF NamespaceInv, Unbind, Bind, Peers
    <3>2. \A n \in Namespaces \ {d} : mounts'[n] = mounts[n]
      BY <2>3, <3>1 DEF Unbind, Bind, UmountIn, MountIn
    <3>3. \E l : child' = [child EXCEPT ![d] = l]
      BY <2>3 DEF Unbind, Bind, ChildGoto
    <3>4. UNCHANGED <<pc, disturbed>>
      BY <2>3 DEF Unbind, Bind
    <3>5. QED
      BY <1>0, <3>2, <3>3, <3>4
  <2>4. QED
    BY <2>1, <2>2, <2>3 DEF ChildStep, ChildFails, HookEnds
<1>2. frame'[c] = frame[c]
  <2>1. CASE Unbind(d)
    BY <1>0, <2>1 DEF Unbind
  <2>2. CASE ~Unbind(d)
    BY <2>2 DEF ChildStep, ChildFails, HookEnds, Unshare, MakePrivate, Bind,
       ExecHook, Exit
  <2>3. QED
    BY <2>1, <2>2
<1>3. Keeps(c)
  BY <1>1 DEF Keeps, Mounted, Only, Nothing
<1>4. QED
  BY <1>1, <1>2, <1>3, OthersSeen

LEMMA MainSeen ==
  ASSUME TypeOK, ControlInv, NEW c \in Calls, SeenInv(c), MainStep
  PROVE  SeenInv(c)'
<1>1. UNCHANGED <<pc, frame, child>>
  BY DEF MainStep, FindDanglings, RemoveDangling, UnmountDangling
<1>2. CASE FindDanglings \/ RemoveDangling
  <2>1. UNCHANGED <<mounts, disturbed>>
    BY <1>2 DEF FindDanglings, RemoveDangling, kernel
  <2>2. Keeps(c)
    BY <2>1 DEF Keeps, Mounted, Only, Nothing
  <2>3. QED
    BY <1>1, <2>1, <2>2, OthersSeen
<1>3. CASE UnmountDangling
  <2> DEFINE p == PointOf(main.file)
  <2>1. Detach(p) /\ Disturb(Host, p.name) /\ Host # c
    BY <1>3, HostNamespace DEF UnmountDangling, UnmountFile, PointOf
  <2>2. QED
    BY <1>1, <2>1, DetachKeeps, OthersSeen
<1>4. QED
  BY <1>2, <1>3 DEF MainStep

\* A call's own steps, up to the fork and when it cleans up.
LEMMA StageSeen ==
  ASSUME TypeOK, ControlInv, DistinctNames, NEW c \in Calls, NEW d \in Calls,
         SeenInv(c), NEW fs \in Sessions[d], StageFnInstall(d, fs)
  PROVE  SeenInv(c)'
<1>1. /\ Moves(d, "isMounted", fs, fs, NoFile, <<>>, <<>>)
      /\ UNCHANGED <<mounts, child, disturbed>> /\ child[d] = "none"
  BY StageMoves DEF StageFnInstall, kernel, ControlInv, CallStands
<1>2. CASE d # c
  <2>1. pc'[c] = pc[c] /\ frame'[c] = frame[c]
    BY <1>1, <1>2 DEF Moves
  <2>2. Keeps(c)
    BY <1>1 DEF Keeps, Mounted, Only, Nothing
  <2>3. QED
    BY <1>1, <2>1, <2>2, OthersSeen
<1>3. CASE d = c
  <2>1. /\ pc'[c] = "isMounted" /\ frame'[c].apexes = fs /\ frame'[c].todo = fs
        /\ child'[c] = "none"
    BY <1>1, <1>3 DEF Moves, Has
  <2>2. \A f, g \in ToSet(fs) : f.name = g.name => f = g
    BY <1>3 DEF DistinctNames
  <2>3. QED
    BY <2>1, <2>2 DEF SeenInv, Sees
<1>4. QED
  BY <1>2, <1>3

\* A step of c's own within its loop: nothing that it has passed is unmounted.
LEMMA LoopSeen ==
  ASSUME NEW c \in Calls, SeenInv(c), frame'[c].apexes = frame[c].apexes,
         child'[c] = "none", c \notin disturbed' => Sees(c)'
  PROVE  SeenInv(c)'
BY DEF SeenInv

LEMMA OwnParentSeen ==
  ASSUME TypeOK, ControlInv, NEW c \in Calls, SeenInv(c), ParentStep(c)
  PROVE  SeenInv(c)'
<1> DEFINE g == frame[c]
<1>0. /\ CallStands(c) /\ child \in [Calls -> ChildLabels] /\ g \in Frames
      /\ Host \in Namespaces /\ mounts \in [Namespaces -> SUBSET Mounts]
  BY HostNamespace DEF ControlInv, TypeOK, ChildLabels
<1>1. ASSUME CleanUp(c), child[c] = "none", UNCHANGED child PROVE SeenInv(c)'
  BY <1>1, CleanUpFacts, NothingSeen
<1>2. CASE IsMounted(c)
  <2>1. pc[c] = "isMounted" /\ child'[c] = "none" /\ UNCHANGED mounts
    BY <1>0, <1>2 DEF IsMounted, CallStands, kernel
  <2>2. CASE /\ g.todo = <<>> /\ disturbed' = disturbed
             /\ Moves(c, "fork", g.apexes, g.todo, NoFile, g.mounted, g.dirs)
    <3>1. pc'[c] = "fork" /\ frame'[c].apexes = g.apexes
      BY <2>2 DEF Moves, Has
    <3>2. ASSUME c \notin disturbed' PROVE Sees(c)'
      <4>1. Sees(c)
        BY <2>2, <3>2 DEF SeenInv
      <4>2. \A f \in ToSet(g.apexes) : Mounted(Host, f)'
        BY <2>1, <2>2, <4>1, ToSetEmpty DEF Sees, Mounted
      <4>3. QED
        BY <2>1, <3>1, <4>2 DEF Sees
    <3>3. QED
      BY <2>1, <3>1, <3>2, LoopSeen
  <2>3. CASE /\ g.todo # <<>>
             /\ disturbed' = IF Head(g.todo) \in db /\ ~Mounted(Host, Head(g.todo))
                             THEN disturbed \cup {c} ELSE disturbed
             /\ Moves(c, IF Head(g.todo) \in db THEN "mkdir" ELSE "mount",
                      g.apexes, Tail(g.todo), Head(g.todo), g.mounted, g.dirs)
    <3> DEFINE h == Head(g.todo)
    <3>1. /\ pc'[c] = IF h \in db THEN "mkdir" ELSE "mount"
          /\ frame'[c].apexes = g.apexes /\ frame'[c].todo = Tail(g.todo)
          /\ frame'[c].file = h
      BY <2>3 DEF Moves, Has
    <3>2. ToSet(g.todo) = {h} \cup ToSet(Tail(g.todo))
      BY <1>0, <2>3, FrameFields, ToSetFacts
    <3> HIDE DEF h
    <3>3. ASSUME c \notin disturbed' PROVE Sees(c)'
      <4>1. c \notin disturbed /\ (h \in db => Mounted(Host, h))
        BY <2>3, <3>3 DEF h
      <4>2. Sees(c)
        BY <4>1 DEF SeenInv
      <4>3. \A f \in ToSet(g.apexes) :
              Mounted(Host, f) \/ f = h \/ f \in ToSet(Tail(g.todo))
        BY <2>1, <3>2, <4>2 DEF Sees
      <4>4. \A f \in ToSet(g.apexes) :
              /\ h \in db => Mounted(Host, f)' \/ f \in ToSet(Tail(g.todo))
              /\ Mounted(Host, f)' \/ f \in ToSet(Tail(g.todo)) \/ f = h
        BY <2>1, <4>1, <4>3 DEF Mounted
      <4>5. QED
        BY <2>1, <3>1, <4>4 DEF Sees
    <3>4. QED
      BY <2>1, <3>1, <3>3, LoopSeen
  <2>4. QED
    BY <1>2, <2>2, <2>3, IsMountedMoves
<1>3. CASE MountPackage(c)
  <2> DEFINE f0 == g.file
  <2>1. /\ pc[c] = "mount" /\ child'[c] = "none" /\ UNCHANGED disturbed
        /\ MountIn(Host, PointOf(f0), f0) /\ Goto(c, "add", frame[c])
    BY <1>0, <1>3 DEF MountPackage, CallStands
  <2>2. pc'[c] = "add" /\ frame'[c] = g
    BY <2>1 DEF Goto, TypeOK
  <2>3. mounts'[Host] = mounts[Host] \cup {[at |-> PointOf(f0), file |-> f0]}
    BY <1>0, <2>1 DEF MountIn, Peers
  <2>4. \A f : f = f0 \/ Mounted(Host, f) => Mounted(Host, f)'
    BY <2>3 DEF Mounted
  <2>5. ASSUME c \notin disturbed' PROVE Sees(c)'
    <3>1. Sees(c)
      BY <2>1, <2>5 DEF SeenInv
    <3>2. QED
      BY <2>1, <2>2, <2>4, <3>1 DEF Sees, Mounted
  <2>6. QED
    BY <2>1, <2>2, <2>5, LoopSeen
<1>4. CASE AddMountedApex(c)
  <2>1. /\ pc[c] = "add" /\ child'[c] = "none" /\ UNCHANGED <<mounts, disturbed>>
    BY <1>0, <1>4 DEF AddMountedApex, CallStands, kernel
  <2>2. /\ pc'[c] = "mkdir" /\ frame'[c].apexes = g.apexes
        /\ frame'[c].todo = g.todo
    BY <1>4, AddMountedApexMoves DEF Moves, Has
  <2>3. QED
    BY <2>1, <2>2, LoopSeen DEF SeenInv, Sees, Mounted
<1>5. CASE MakeActivePoint(c)
  <2>1. /\ pc[c] = "mkdir" /\ child[c] = "none" /\ UNCHANGED <<child, mounts>>
    BY <1>0, <1>5 DEF MakeActivePoint, CallStands
  <2>2. CASE CleanUp(c)
    BY <1>1, <2>1, <2>2
  <2>3. CASE ~CleanUp(c)
    <3>1. /\ pc'[c] = "isMounted" /\ frame'[c].apexes = g.apexes
          /\ frame'[c].todo = g.todo /\ UNCHANGED disturbed
      BY <1>5, <2>3, MakeActivePointMoves DEF Moves, Has
    <3>2. QED
      BY <2>1, <3>1, LoopSeen DEF SeenInv, Sees, Mounted
  <2>4. QED
    BY <2>2, <2>3
<1>6. CASE Fork(c)
  <2>1. /\ pc[c] = "fork" /\ child[c] = "none" /\ UNCHANGED mounts
    BY <1>0, <1>6 DEF Fork, CallStands, kernel
  <2>2. CASE CleanUp(c) /\ UNCHANGED child
    BY <1>1, <2>1, <2>2
  <2>3. CASE /\ child' = [child EXCEPT ![c] = "unshare"] /\ UNCHANGED disturbed
             /\ \E s \in Seq(ApexFiles) :
                  /\ s # <<>> /\ ToSet(s) = ToSet(g.apexes)
                  /\ Moves(c, "wait", g.apexes, s, g.file, g.mounted, g.dirs)
    <3>1. /\ child'[c] = "unshare" /\ pc'[c] = "wait"
          /\ frame'[c].apexes = g.apexes /\ ToSet(frame'[c].todo) = ToSet(g.apexes)
      BY <1>0, <2>3 DEF Moves, Has
    <3>2. ASSUME c \notin disturbed' PROVE Sees(c)'
      <4>1. Sees(c)
        BY <2>3, <3>2 DEF SeenInv
      <4>2. \A f \in ToSet(g.apexes) : Mounted(Host, f)'
        BY <2>1, <4>1 DEF Sees, Mounted
      <4>3. QED
        BY <3>1, <4>2 DEF Sees
    <3>3. QED
      BY <3>1, <3>2 DEF SeenInv
  <2>4. QED
    BY <1>6, <2>2, <2>3, ForkMoves
<1>7. CASE MountPackageFails(c) \/ WaitChild(c) \/ Unmount(c)
  BY <1>0, <1>1, <1>7 DEF MountPackageFails, WaitChild, Unmount, CallStands
<1>8. CASE UnmountPackage(c)
  <2>1. /\ child'[c] = "none" /\ g.apexes = <<>>
    BY <1>0, <1>8 DEF UnmountPackage, CallStands
  <2>2. frame'[c].apexes = g.apexes
    BY <1>8, UnmountPackageMoves DEF Moves, Has
  <2>3. QED
    BY <2>1, <2>2, NothingSeen
<1>9. CASE RemoveActivePoint(c)
  <2>1. /\ child'[c] = "none" /\ g.apexes = <<>>
    BY <1>0, <1>9 DEF RemoveActivePoint, CallStands
  <2>2. frame'[c].apexes = <<>>
    BY <1>9, <2>1, RemoveActivePointMoves DEF Moves, Has
  <2>3. QED
    BY <2>1, <2>2, NothingSeen
<1>10. QED
  BY <1>2, <1>3, <1>4, <1>5, <1>6, <1>7, <1>8, <1>9 DEF ParentStep

\* The steps of the child of c itself.
LEMMA UnbindSeen ==
  ASSUME TypeOK, ControlInv, NamespaceInv, NEW c \in Calls, SeenInv(c), Unbind(c)
  PROVE  SeenInv(c)'
<1> DEFINE g == frame[c]  h == Head(g.todo)
<1>1. /\ child[c] = "unbind" /\ child'[c] = "bind" /\ pc'[c] = "wait"
      /\ UNCHANGED disturbed /\ c \notin shared /\ c \in Namespaces
  BY HostNamespace DEF Unbind, ChildGoto, TypeOK, ControlInv, CallStands, NamespaceInv
<1>2. /\ g.todo # <<>> /\ h \in ApexFiles
      /\ ToSet(g.todo) = {h} \cup ToSet(Tail(g.todo))
      /\ frame'[c].apexes = g.apexes /\ frame'[c].todo = Tail(g.todo)
      /\ frame'[c].file = h
  BY UnbindMoves DEF Has
<1>3. mounts'[c] = {m \in mounts[c] : m.at # ActivePoint(h)}
  BY <1>1, HostNamespace DEF Unbind, UmountIn, Peers
<1>4. /\ ToSet(g.todo) \subseteq ToSet(g.apexes)
      /\ \A e, f \in ToSet(g.apexes) : e.name = f.name => e = f
  BY <1>1 DEF SeenInv
<1>h. \A f \in ToSet(g.apexes) : f \in ApexFiles
  BY FrameFields, ToSetFacts DEF TypeOK
<1> HIDE DEF h
<1>5. ASSUME c \notin disturbed' PROVE Sees(c)'
  <2>1. Sees(c)
    BY <1>1, <1>5 DEF SeenInv
  <2>2. \A f \in ToSet(g.apexes) : Only(c, PointOf(f), f)'
    <3>1. \A f \in ToSet(g.apexes) :
            Only(c, PointOf(f), f) /\ PointOf(f) # ActivePoint(h)
      BY <1>1, <1>2, <1>h, <2>1, PointTypes DEF Sees
    <3>2. QED
      BY <1>3, <3>1 DEF Only
  <2>3. \A f \in ToSet(g.apexes) : f = h => Nothing(c, ActivePoint(f))'
    BY <1>3 DEF Nothing
  <2>4. ASSUME NEW f \in ToSet(g.apexes), f # h, f \notin ToSet(Tail(g.todo))
        PROVE  Only(c, ActivePoint(f), f)'
    <3>1. Only(c, ActivePoint(f), f)
      BY <1>1, <1>2, <2>1, <2>4 DEF Sees
    <3>2. ActivePoint(f) # ActivePoint(h)
      BY <1>2, <1>4, <2>4 DEF ActivePoint
    <3>3. QED
      BY <1>3, <3>1, <3>2 DEF Only
  <2>5. QED
    BY <1>1, <1>2, <2>2, <2>3, <2>4 DEF Sees
<1>6. QED
  BY <1>1, <1>2, <1>4, <1>5 DEF SeenInv

LEMMA BindSeen ==
  ASSUME TypeOK, ControlInv, NamespaceInv, NEW c \in Calls, SeenInv(c), Bind(c)
  PROVE  SeenInv(c)'
<1> DEFINE g == frame[c]  h == g.file
           there == {m.file : m \in {m \in mounts[c] : m.at = PointOf(h)}}
<1>1. /\ child[c] = "bind" /\ pc'[c] = "wait" /\ UNCHANGED <<frame, disturbed>>
      /\ child'[c] = IF g.todo = <<>> THEN "exec" ELSE "unbind"
      /\ c \notin shared /\ c \in Namespaces
  BY HostNamespace DEF Bind, ChildGoto, TypeOK, ControlInv, CallStands, NamespaceInv
<1>2. PICK source \in IF there = {} THEN {NoFile} ELSE there :
        mounts'[c] = mounts[c] \cup {[at |-> ActivePoint(h), file |-> source]}
  BY <1>1, HostNamespace DEF Bind, MountIn, Peers
<1>3. /\ h \in ToSet(g.apexes) /\ ToSet(g.todo) \subseteq ToSet(g.apexes)
      /\ \A e, f \in ToSet(g.apexes) : e.name = f.name => e = f
  BY <1>1 DEF SeenInv
<1>h. \A f \in ToSet(g.apexes) : f \in ApexFiles
  BY FrameFields, ToSetFacts DEF TypeOK
<1>4. ASSUME c \notin disturbed' PROVE Sees(c)'
  <2>1. Sees(c)
    BY <1>1, <1>4 DEF SeenInv
  <2>2. \A f \in ToSet(g.apexes) : Only(c, PointOf(f), f)
    BY <1>1, <2>1 DEF Sees
  <2>3. source = h
    <3>1. there = {h}
      BY <1>3, <2>2 DEF Only
    <3>2. QED
      BY <1>2, <3>1
  <2>4. \A f \in ToSet(g.apexes) : Only(c, PointOf(f), f)'
    <3>1. \A f \in ToSet(g.apexes) : PointOf(f) # ActivePoint(h)
      <4>1. h \in ApexFiles
        BY <1>3, <1>h
      <4>2. ActivePoint(h).version = 0
        BY <4>1, PointTypes
      <4>3. \A f \in ToSet(g.apexes) : PointOf(f).version # 0
        BY <1>h, PointTypes
      <4>4. QED
        BY <4>2, <4>3
    <3>2. QED
      BY <1>2, <2>2, <3>1 DEF Only
  <2>5. ASSUME NEW f \in ToSet(g.apexes), f \notin ToSet(g.todo)
        PROVE  Only(c, ActivePoint(f), f)'
    <3>1. CASE f = h
      <4>1. \A m \in mounts[c] : m.at # ActivePoint(f)
        BY <1>1, <2>1, <2>5, <3>1 DEF Sees, Nothing
      <4>2. QED
        BY <1>2, <2>3, <3>1, <4>1 DEF Only
    <3>2. CASE f # h
      <4>1. Only(c, ActivePoint(f), f) /\ ActivePoint(f) # ActivePoint(h)
        BY <1>1, <1>3, <2>1, <2>5, <3>2 DEF Sees, ActivePoint
      <4>2. QED
        BY <1>2, <4>1 DEF Only
    <3>3. QED
      BY <3>1, <3>2
  <2>6. QED
    BY <1>1, <2>4, <2>5, ToSetEmpty DEF Sees
<1>5. QED
  BY <1>1, <1>3, <1>4 DEF SeenInv

LEMMA OwnChildSeen ==
  ASSUME TypeOK, ControlInv, NamespaceInv, ActiveInv, NEW c \in Calls, SeenInv(c),
         ChildStep(c) \/ HookEnds(c)
  PROVE  SeenInv(c)'
<1>0. /\ child \in [Calls -> ChildLabels] /\ mounts \in [Namespaces -> SUBSET Mounts]
      /\ c \in Namespaces
      /\ child[c] # "none" => pc[c] = "wait"
  BY HostNamespace DEF TypeOK, ChildLabels, ControlInv, CallStands
<1>1. CASE Unshare(c)
  <2>1. /\ child[c] = "unshare" /\ child'[c] = "private" /\ pc'[c] = "wait"
        /\ mounts'[c] = mounts[Host] /\ UNCHANGED <<frame, disturbed>>
    BY <1>0, <1>1 DEF Unshare, ChildGoto
  <2>2. ASSUME c \notin disturbed' PROVE Sees(c)'
    <3>1. Sees(c)
      BY <2>1, <2>2 DEF SeenInv
    <3>2. \A f \in ToSet(frame[c].apexes) : Mounted(Host, f) /\ f \in ToSet(frame[c].todo)
      BY <2>1, <3>1 DEF Sees
    <3>3. \A f \in ToSet(frame[c].apexes) : Only(c, PointOf(f), f)'
      BY <2>1, <3>2 DEF ActiveInv, Only, Mounted
    <3>4. QED
      BY <2>1, <3>2, <3>3 DEF Sees
  <2>3. QED
    BY <2>1, <2>2 DEF SeenInv
<1>2. CASE MakePrivate(c)
  <2>1. /\ child[c] = "private" /\ child'[c] = "unbind" /\ pc'[c] = "wait"
        /\ UNCHANGED <<mounts, frame, disturbed>>
    BY <1>0, <1>2 DEF MakePrivate, ChildGoto
  <2>2. QED
    BY <2>1 DEF SeenInv, Sees, Only
<1>3. CASE Unbind(c)
  BY <1>3, UnbindSeen
<1>4. CASE Bind(c)
  BY <1>4, BindSeen
<1>5. CASE ExecHook(c)
  <2>1. /\ child[c] = "exec" /\ child'[c] = "hook" /\ pc'[c] = "wait"
        /\ UNCHANGED <<mounts, frame, disturbed>>
    BY <1>0, <1>5 DEF ExecHook, ChildGoto, kernel
  <2>2. QED
    BY <2>1 DEF SeenInv, Sees, Only
<1>6. CASE Exit(c) /\ child[c] # "none"
  <2>1. /\ child'[c] = "none" /\ pc'[c] = "wait" /\ UNCHANGED <<frame, disturbed>>
    BY <1>0, <1>6 DEF Exit, ChildGoto
  <2>2. QED
    BY <2>1 DEF SeenInv, Sees
<1>7. QED
  <2>1. ChildFails(c) \/ HookEnds(c) => Exit(c) /\ child[c] # "none"
    BY DEF ChildFails, HookEnds
  <2>2. QED
    BY <1>1, <1>2, <1>3, <1>4, <1>5, <1>6, <2>1 DEF ChildStep

LEMMA StepSeen ==
  ASSUME DistinctNames, HooksInv, NEW c \in Calls, SeenInv(c), [Next]_vars
  PROVE  SeenInv(c)'
<1>0. TypeOK /\ ControlInv /\ NamespaceInv /\ ActiveInv
  BY DEF HooksInv
<1>1. ASSUME NEW d \in Calls, NEW fs \in Sessions[d], StageFnInstall(d, fs)
      PROVE  SeenInv(c)'
  BY <1>0, <1>1, StageSeen
<1>2. ASSUME NEW d \in Calls, ParentStep(d)
      PROVE  SeenInv(c)'
  BY <1>0, <1>2, OwnParentSeen, OtherParentSeen
<1>3. ASSUME NEW d \in Calls, ChildStep(d) \/ HookEnds(d)
      PROVE  SeenInv(c)'
  BY <1>0, <1>3, OwnChildSeen, OtherChildSeen
<1>4. CASE MainStep
  BY <1>0, <1>4, MainSeen
<1>5. CASE UNCHANGED vars
  BY <1>5 DEF vars, kernel, SeenInv, Sees, Only, Nothing, Mounted
<1>6. QED
  BY <1>1, <1>2, <1>3, <1>4, <1>5 DEF Next

\* HookSeesPackages: StageFnInstall and RunFnInstall show a hook the packages of
\* its session, and no others, on their active points, whatever other calls and
\* unmountDanglingMounts do to the mounts of other packages meanwhile.
THEOREM HooksSeeTheirPackages ==
  ASSUME DistinctNames PROVE Spec => []HookSeesPackages
<1> DEFINE Inv == \A c \in Calls : SeenInv(c)
<1>1. Init => Inv
  <2>1. ASSUME Init, NEW c \in Calls PROVE SeenInv(c)
    <3>1. frame[c].apexes = <<>> /\ child[c] = "none"
      BY <2>1 DEF Init, EmptyFrame
    <3>2. QED
      BY <3>1, ToSetEmpty DEF SeenInv, Sees
  <2>2. QED
    BY <2>1
<1>2. Inv /\ HooksInv /\ [Next]_vars => Inv'
  BY StepSeen
<1>3. Inv => HookSeesPackages
  <2>1. ASSUME NEW c \in Calls, SeenInv(c), c \notin disturbed, child[c] = "hook",
               NEW f \in ToSet(frame[c].apexes)
        PROVE  {m.file : m \in {m \in mounts[c] : m.at = ActivePoint(f)}} = {f}
    <3>1. Only(c, ActivePoint(f), f)
      BY <2>1 DEF SeenInv, Sees
    <3>2. QED
      BY <3>1 DEF Only
  <2>2. QED
    BY <2>1 DEF HookSeesPackages
<1> HIDE DEF Inv
<1>4. QED
  BY <1>1, <1>2, <1>3, HooksInvariant, PTL DEF Spec

=============================================================================
