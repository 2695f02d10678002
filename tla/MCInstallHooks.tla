--------------------------- MODULE MCInstallHooks ---------------------------
(***************************************************************************)
(* A small instance of InstallHooks: package a is active from the system   *)
(* image, an older version of it is left in /data, and a newer one has a   *)
(* hook; package b is new.                                                 *)
(***************************************************************************)
EXTENDS InstallHooks

File(n, v, h, d) == [name |-> n, version |-> v, hook |-> h, data |-> d]

OldA == File("a", 1, FALSE, TRUE)
BuiltinA == File("a", 2, FALSE, FALSE)
NewA == File("a", 3, TRUE, FALSE)
NewB == File("b", 1, FALSE, FALSE)
HookB == File("b", 2, TRUE, FALSE)

MCFiles == {OldA, BuiltinA, NewA, NewB, HookB}
MCSessions == [c \in {"c1", "c2"} |->
  IF c = "c1" THEN {<<NewB, NewA>>, <<NewA, HookB>>} ELSE {<<NewA>>, <<HookB>>}]
MCInstalled == {OldA, BuiltinA}
MCActive == {BuiltinA}
=============================================================================
