----------------------- MODULE MountedPackages_proofs -----------------------
(***************************************************************************)
(* What follows from the promises of MountedPackages, for every set of     *)
(* package files.                                                          *)
(***************************************************************************)
EXTENDS MountedPackages, TLAPS

\* The types of the variables.
TypeOK ==
  /\ present \subseteq Files /\ mounted \subseteq Files
  /\ known \subseteq Files /\ active \subseteq Files
  /\ visible \in [PackageNames -> Files \cup {Nothing}]
  /\ fresh \in BOOLEAN

IInv == TypeOK /\ ShownIsActive

\* IInv holds when nothing is mounted yet.
LEMMA InitIInv == Init => IInv
BY DEF Init, IInv, TypeOK, ShownIsActive, Nowhere

\* The variables keep their types.
LEMMA NextType ==
  ASSUME TypeOK, [Next]_state
  PROVE  TypeOK'
<1> USE DEF TypeOK
<1>1. ASSUME NEW f \in Files, Mount(f) PROVE TypeOK'
  BY <1>1 DEF Mount
<1>2. ASSUME NEW f \in Files, Forget(f) PROVE TypeOK'
  BY <1>2 DEF Forget
<1>3. ASSUME NEW f \in Files, Unmount(f) PROVE TypeOK'
  BY <1>3 DEF Unmount
<1>4. ASSUME NEW f \in Files, Delete(f) PROVE TypeOK'
  BY <1>4 DEF Delete
<1>5. ASSUME NEW f \in Files, NEW shown \in Files, Show(f, shown) PROVE TypeOK'
  BY <1>5 DEF Show, Named
<1>6. ASSUME NEW n \in PackageNames, Hide(n) PROVE TypeOK'
  BY <1>6 DEF Hide
<1>7. CASE Misremember
  BY <1>7 DEF Misremember
<1>8. CASE Die
  <2>1. visible' \in [PackageNames -> Files \cup {Nothing}]
    BY <1>8 DEF Die
  <2>2. QED
    BY <1>8, <2>1 DEF Die
<1>9. CASE Recover
  BY <1>9 DEF Recover
<1>10. CASE Reboot
  BY <1>10 DEF Reboot, Nowhere
<1>11. CASE UNCHANGED state
  BY <1>11 DEF state
<1>12. QED
  BY <1>1, <1>2, <1>3, <1>4, <1>5, <1>6, <1>7, <1>8, <1>9, <1>10, <1>11 DEF Next

\* Every step keeps what is shown among what is active, what is active among
\* what is known, and what is known among what is mounted.
LEMMA NextShown ==
  ASSUME IInv, [Next]_state
  PROVE  ShownIsActive'
<1> USE DEF IInv, TypeOK, ShownIsActive
<1>1. ASSUME NEW f \in Files, Mount(f) PROVE ShownIsActive'
  BY <1>1 DEF Mount, Named
<1>2. ASSUME NEW f \in Files, Forget(f) PROVE ShownIsActive'
  <2> SUFFICES ASSUME fresh
               PROVE  /\ active' \subseteq known' /\ known' \subseteq mounted'
                      /\ \A n \in PackageNames :
                           visible'[n] # Nothing => visible'[n] \in Named(n, active')
    BY <1>2 DEF Forget, Named
  <2>1. active' \subseteq known' /\ known' \subseteq mounted'
    BY <1>2 DEF Forget
  <2>2. ASSUME NEW n \in PackageNames, visible'[n] # Nothing
        PROVE  visible'[n] \in Named(n, active')
    <3>1. visible'[n] = visible[n] /\ (f \in active => n # f.name)
      BY <1>2, <2>2 DEF Forget, PackageNames
    <3>2. visible[n] \in Named(n, active)
      BY <2>2, <3>1
    <3>3. visible[n] # f
      BY <3>1, <3>2 DEF Named
    <3>4. QED
      BY <1>2, <3>1, <3>2, <3>3 DEF Forget, Named
  <2>3. QED
    BY <2>1, <2>2
<1>3. ASSUME NEW f \in Files, Unmount(f) PROVE ShownIsActive'
  BY <1>3 DEF Unmount, Named
<1>4. ASSUME NEW f \in Files, Delete(f) PROVE ShownIsActive'
  BY <1>4 DEF Delete, Named
<1>5. ASSUME NEW f \in Files, NEW shown \in Files, Show(f, shown) PROVE ShownIsActive'
  <2> SUFFICES ASSUME fresh
               PROVE  /\ active' \subseteq known' /\ known' \subseteq mounted'
                      /\ \A n \in PackageNames :
                           visible'[n] # Nothing => visible'[n] \in Named(n, active')
    BY <1>5 DEF Show, Named
  <2>1. shown = f /\ f \in known
    BY <1>5 DEF Show
  <2>2. active' \subseteq known' /\ known' \subseteq mounted'
    BY <1>5, <2>1 DEF Show
  <2>3. ASSUME NEW n \in PackageNames, visible'[n] # Nothing
        PROVE  visible'[n] \in Named(n, active')
    <3>1. CASE n = f.name
      BY <1>5, <2>1, <3>1 DEF Show, Named, PackageNames
    <3>2. CASE n # f.name
      BY <1>5, <2>3, <3>2 DEF Show, Named
    <3>3. QED
      BY <3>1, <3>2
  <2>4. QED
    BY <2>2, <2>3
<1>6. ASSUME NEW n \in PackageNames, Hide(n) PROVE ShownIsActive'
  BY <1>6 DEF Hide, Named
<1>7. CASE Misremember
  BY <1>7 DEF Misremember
<1>8. CASE Die
  BY <1>8 DEF Die
<1>9. CASE Recover
  <2> SUFFICES ASSUME fresh
               PROVE  /\ active' \subseteq known' /\ known' \subseteq mounted'
                      /\ \A n \in PackageNames : visible'[n] = Nothing
    BY <1>9 DEF Recover
  <2>1. \A n \in PackageNames : visible[n] = Nothing
    BY <1>9 DEF Recover, Named
  <2>2. QED
    BY <1>9, <2>1 DEF Recover
<1>10. CASE Reboot
  BY <1>10 DEF Reboot, Nowhere
<1>11. CASE UNCHANGED state
  BY <1>11 DEF state, Named
<1>12. QED
  BY <1>1, <1>2, <1>3, <1>4, <1>5, <1>6, <1>7, <1>8, <1>9, <1>10, <1>11 DEF Next

\* Until a process dies, /apex/<name> shows nothing that is not mounted, known
\* to apexd and reported by getActivePackages, whatever failed before.
THEOREM ShownIsActiveAlways == Spec => []ShownIsActive
<1>1. IInv /\ [Next]_state => IInv'
  BY NextType, NextShown DEF IInv
<1>2. IInv => ShownIsActive
  BY DEF IInv
<1>3. QED
  BY InitIInv, <1>1, <1>2, PTL DEF Spec
=============================================================================
