-------------------------- MODULE MountedPackages --------------------------
(***************************************************************************)
(* What apexd promises about the packages on /apex, whatever devices it    *)
(* needs for that and whatever fails half-way.  /apex/<name> is empty or   *)
(* shows one version; another version is shown only after it was emptied,  *)
(* and it is emptied only for a version that is mounted and is the newest  *)
(* that apexd knows, or because the package is forgotten; what it shows is *)
(* what apexd reports as active; and nothing is unmounted that is shown or *)
(* known.                                                                  *)
(*                                                                         *)
(* A process that dies forgets what it knew.  Its successor looks at what  *)
(* is mounted, may take any version for the active one, and promises less. *)
(***************************************************************************)
EXTENDS Integers

CONSTANTS
  Files,          \* package files: records with fields name and version
  Nothing         \* not a file

VARIABLES
  present,        \* the files that can be opened
  mounted,        \* the files that are mounted
  known,          \* ... of which apexd knows
  active,         \* ... and those that it reports as active
  visible,        \* package name -> the file on /apex/<name>, or Nothing
  fresh           \* no process has died since the device booted

state == <<present, mounted, known, active, visible, fresh>>

PackageNames == {f.name : f \in Files}

Named(n, fs) == {f \in fs : f.name = n}

Nowhere == [n \in PackageNames |-> Nothing]

\* No newer version is known.  A file that is gone does not count.
Newest(f) == \A o \in Named(f.name, known \cap present) : o.version <= f.version

Init ==
  /\ present \subseteq Files
  /\ mounted = {} /\ known = {} /\ active = {} /\ visible = Nowhere
  /\ fresh = TRUE

\* A file is mounted, perhaps only to look into it.
Mount(f) ==
  /\ mounted' = mounted \cup {f}
  /\ known' \in {known, known \cup {f}}
  /\ UNCHANGED <<present, active, visible, fresh>>

\* The name is vacated for another version.
Hide(n) ==
  /\ \E f \in Named(n, mounted) : Newest(f)
  /\ visible' = [visible EXCEPT ![n] = Nothing]
  /\ UNCHANGED <<present, mounted, known, active, fresh>>

\* A successor may take another file of that version for the one it shows.
Show(f, shown) ==
  /\ visible[f.name] = Nothing
  /\ f \in known /\ shown \in Named(f.name, mounted)
  /\ shown.version = f.version /\ (fresh => shown = f)
  /\ Newest(f)
  /\ visible' = [visible EXCEPT ![f.name] = shown]
  /\ active' = (active \ Named(f.name, active)) \cup {f}
  /\ UNCHANGED <<present, mounted, known, fresh>>

\* What is active is taken from /apex/<name> when it is forgotten ...
Forget(f) ==
  /\ known' = known \ {f} /\ active' = active \ {f}
  /\ visible' = IF f \in active THEN [visible EXCEPT ![f.name] = Nothing]
                                ELSE visible
  /\ UNCHANGED <<present, mounted, fresh>>

\* ... and forgotten before it is unmounted.
Unmount(f) ==
  /\ fresh => f \notin known /\ visible[f.name] # f
  /\ mounted' = mounted \ {f}
  /\ UNCHANGED <<present, known, active, visible, fresh>>

\* A successor that found a file mounted twice takes one mount for the other.
Misremember ==
  /\ ~fresh
  /\ known' \in SUBSET known /\ active' \in SUBSET active
  /\ UNCHANGED <<present, mounted, visible, fresh>>

Delete(f) ==
  /\ present' = present \ {f}
  /\ UNCHANGED <<mounted, known, active, visible, fresh>>

\* The process dies, perhaps right after it mounted or showed a file.
Die ==
  /\ known' = {} /\ active' = {} /\ fresh' = FALSE
  /\ \/ UNCHANGED <<mounted, visible>>
     \/ \E f \in Files : mounted' = mounted \cup {f} /\ UNCHANGED visible
     \/ \E f \in mounted : /\ visible[f.name] = Nothing
                           /\ visible' = [visible EXCEPT ![f.name] = f]
                           /\ UNCHANGED mounted
  /\ UNCHANGED present

Recover ==
  /\ known = {}
  /\ known' = mounted
  /\ active' \in SUBSET mounted
  /\ \A f, g \in active' : f.name = g.name => f = g
  /\ UNCHANGED <<present, mounted, visible, fresh>>

Reboot ==
  /\ mounted' = {} /\ known' = {} /\ active' = {} /\ visible' = Nowhere
  /\ fresh' = TRUE
  /\ UNCHANGED present

Next ==
  \/ \E f \in Files : Mount(f) \/ Forget(f) \/ Unmount(f) \/ Delete(f)
  \/ \E f, shown \in Files : Show(f, shown)
  \/ \E n \in PackageNames : Hide(n)
  \/ Misremember \/ Die \/ Recover \/ Reboot

Spec == Init /\ [][Next]_state

-----------------------------------------------------------------------------
\* Until a process has died, what /apex/<name> shows is mounted and is what
\* getActivePackages reports, and the database names only mounted files.
ShownIsActive ==
  fresh =>
    /\ active \subseteq known /\ known \subseteq mounted
    /\ \A n \in PackageNames : visible[n] # Nothing => visible[n] \in Named(n, active)
=============================================================================
