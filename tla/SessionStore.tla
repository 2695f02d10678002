---------------------------- MODULE SessionStore ----------------------------
(***************************************************************************)
(* The persisted session records of apexd: one directory per session under *)
(* /data/apex/sessions, each holding a "state" file with a serialised      *)
(* SessionState proto (apexd/apexd_session.cpp, proto/session_state.proto).*)
(*                                                                         *)
(* A store is a function from session ids to what the state file holds:    *)
(*   "NONE"   no state file (a directory without one is never looked at);  *)
(*   "EMPTY"  a state file that was truncated and not written.  An empty   *)
(*            file parses as a default proto: id 0 and state UNKNOWN;      *)
(*   otherwise the state that was committed last.                          *)
(***************************************************************************)

CONSTANT SessionIds     \* the ids of the sessions the installer may create

\* Session ids handed out by the package installer are positive, so none of
\* them is 0, the id an empty state file parses to.
ASSUME SessionIdsAssumption == SessionIds # {}

\* SessionState.State, without UNKNOWN: no code path commits UNKNOWN.
States == {"VERIFIED", "STAGED", "ACTIVATED", "ACTIVATION_FAILED", "SUCCESS",
           "ROLLBACK_IN_PROGRESS", "ROLLED_BACK", "ROLLBACK_FAILED"}

FileStates == States \cup {"NONE", "EMPTY"}

\* ApexSession::IsFinalized.  UNKNOWN, hence "EMPTY", is not final.
IsFinalized(state) ==
  state \in {"SUCCESS", "ACTIVATION_FAILED", "ROLLED_BACK", "ROLLBACK_FAILED"}

\* ApexSession::GetSessions: every directory whose state file parses.
GetSessions(store) == {s \in SessionIds : store[s] # "NONE"}

\* ApexSession::GetSessionsInState.
GetSessionsInState(store, state) ==
  {s \in GetSessions(store) : store[s] = state}

\* The sessions ApexSession::GetActiveSession finds.
Unfinalized(store) == {s \in GetSessions(store) : ~IsFinalized(store[s])}

\* ApexSession::GetActiveSession returns s.  With no unfinalized session it
\* returns none, and with more than one it returns an error.
IsActiveSession(store, s) == Unfinalized(store) = {s}

\* Mutant: the record is reset instead of removed.
DeleteSessionResets(store, s) == [store EXCEPT ![s] = "UNKNOWN"]

\* ApexSession::DeleteSession removes the directory of the id that the file
\* holds: for an empty file that is directory "0", and the file stays.
DeleteSession(store, s) ==
  [store EXCEPT ![s] = IF @ = "EMPTY" THEN @ ELSE "NONE"]

=============================================================================
