---------------------------- MODULE MCApexMounts ----------------------------
(***************************************************************************)
(* Small instances of ApexMounts: package a is preinstalled in version 1,  *)
(* updated to version 2, which a session may hold too, and overtaken by a  *)
(* flattened version 3 of a system update.                                 *)
(***************************************************************************)
EXTENDS ApexMounts

File(v, d) == [name |-> "a", version |-> v, dir |-> d]

MCFiles == {File(1, "builtin"), File(2, "data"), File(2, "staging"),
            File(3, "flattened")}

\* An update in /data and the preinstalled package.
UpdatedFiles == {File(1, "builtin"), File(2, "data")}
=============================================================================
