------------------------- MODULE MCApexVerification -------------------------
(***************************************************************************)
(* Small instances of ApexVerification.  Package a is preinstalled with    *)
(* key k1 and, after a system update, with key k2; package c is not        *)
(* preinstalled; package r is activated by apexd-bootstrap.                *)
(***************************************************************************)
EXTENDS ApexVerification

Plain(n) == [name |-> n, plain |-> TRUE]
Top(n, fs) == [name |-> n, plain |-> fs = {}, inside |-> fs]
ShimContents == {Top("apex_manifest.json", {}), Top("lost+found", {}),
                 Top("etc", {Plain("hash.txt")})}

File == [name |-> "a", version |-> 1, builtin |-> FALSE, flattened |-> FALSE,
         opens |-> TRUE, footer |-> TRUE, signer |-> "k1", keyName |-> "a",
         descriptors |-> <<"other", "hashtree">>, bundled |-> "k1",
         matches |-> TRUE, intact |-> TRUE, hook |-> FALSE,
         contents |-> ShimContents, digest |-> "d0", allowed |-> {}]

Builtin == [File EXCEPT !.builtin = TRUE]
BuiltinA1 == Builtin
BuiltinA2 == [Builtin EXCEPT !.version = 2, !.signer = "k2", !.bundled = "k2"]
FlattenedR == [Builtin EXCEPT !.name = "r", !.flattened = TRUE, !.footer = FALSE]
BuiltinShim(hashes) == [Builtin EXCEPT !.name = "shim", !.keyName = "shim",
                                       !.allowed = hashes]
BrokenB == [Builtin EXCEPT !.name = "b", !.opens = FALSE]

UpdateA(v, k) == [File EXCEPT !.version = v, !.signer = k, !.bundled = k]
OtherManifest == [UpdateA(3, "k1") EXCEPT !.matches = FALSE]
PackageC == [File EXCEPT !.name = "c", !.keyName = "c"]
Shim2 == [File EXCEPT !.name = "shim", !.keyName = "shim", !.version = 2,
                      !.digest = "d2"]

\* Files with a defect.
Defective ==
  LET f == UpdateA(3, "k1") IN
  {[f EXCEPT !.footer = FALSE], [f EXCEPT !.signer = "none"],
   [f EXCEPT !.keyName = "c"], [f EXCEPT !.opens = FALSE],
   [f EXCEPT !.descriptors = <<"invalid", "hashtree">>],
   [f EXCEPT !.intact = FALSE], [PackageC EXCEPT !.bundled = "k2"],
   [Shim2 EXCEPT !.digest = "d3"], [Shim2 EXCEPT !.hook = TRUE],
   [Shim2 EXCEPT !.contents = {Top("bin", {}), Top("etc", {Plain("hash.txt")})}],
   [Shim2 EXCEPT !.contents = {Top("etc", {Plain("hash.txt"), Plain("sh")})}]}

User == [dirs |-> <<{BuiltinA1, BuiltinShim({"d2"}), FlattenedR}, {}>>,
         debuggable |-> FALSE, updatable |-> TRUE]
\* A system update with another key for a, and a shim that lists no update.
Updated == [dirs |-> <<{BuiltinShim({}), FlattenedR}, {BuiltinA2}>>,
            debuggable |-> TRUE, updatable |-> TRUE]
\* Two keys for a; a builtin package that cannot be opened.
TwoKeys == [User EXCEPT !.dirs = <<{BuiltinA1}, {BuiltinA2}>>]
Broken == [Updated EXCEPT !.dirs = <<{BuiltinA1}, {BrokenB}>>]
Flattened == [User EXCEPT !.dirs = <<{FlattenedR}, {BuiltinA1}>>,
                          !.updatable = FALSE]

MCImages == {User, Updated, TwoKeys, Broken, Flattened}
MCFiles == Defective \cup {UpdateA(2, "k1"), UpdateA(3, "k2"), OtherManifest, PackageC, Shim2}
           \cup UNION {Builtins(i) : i \in MCImages}

MCSubmissions == {{f} : f \in Defective} \cup {{UpdateA(2, "k1")}, {UpdateA(3, "k2")}, {OtherManifest},
                  {UpdateA(2, "k1"), Shim2}, {PackageC, Shim2}}
=============================================================================
