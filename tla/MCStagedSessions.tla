-------------------------- MODULE MCStagedSessions --------------------------
(***************************************************************************)
(* Small instances of StagedSessions: package a in two versions, package b.*)
(***************************************************************************)
EXTENDS StagedSessions

Apex(n, v) == [name |-> n, version |-> v]

MCApexes == {Apex("a", 1), Apex("a", 2), Apex("b", 1)}

TwoVersions == {Apex("a", 1), Apex("a", 2)}

\* Version 1 of package a is preinstalled.
MCBuiltin == {Apex("a", 1)}

\* Session 1 updates a and installs b, session 2 goes back to version 1 of a.
MCStaging ==
  [s \in SessionIds |-> IF s = 1 THEN {Apex("a", 2), Apex("b", 1)}
                                 ELSE {Apex("a", 1)}]

\* A session that only updates a.
UpdateOnly == [s \in SessionIds |-> {Apex("a", 2)}]

\* /data/apex/active is empty or holds the old version of a.
OldOrNothing == {{}, {Apex("a", 1)}}

\* ... or the new one, which session 2 downgrades.
AnyVersion == OldOrNothing \cup {{Apex("a", 2)}}
=============================================================================
