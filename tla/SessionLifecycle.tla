-------------------------- MODULE SessionLifecycle --------------------------
(***************************************************************************)
(* What apexd promises about the recorded state of staged sessions: the    *)
(* life of a session from its submission to a final state.  At most one    *)
(* session is alive, a new one is recorded only when no other is left, a   *)
(* final state is never left except by discarding the record, and the only *)
(* other way back is the file system checkpoint, which rewinds the whole   *)
(* store to what it was when the checkpoint was taken.                     *)
(***************************************************************************)
CONSTANT SessionIds

VARIABLES
  status,         \* session id -> recorded state, "NONE" when there is none
  rewindable,     \* a file system checkpoint is in force
  saved           \* status when it was taken

Blank == [s \in SessionIds |-> "NONE"]

Init == status = Blank /\ rewindable = FALSE /\ saved = Blank

\* The states a session may move to from a given state.
Successors(state) ==
  CASE state = "VERIFIED"             -> {"STAGED"}
    [] state = "STAGED"               -> {"ACTIVATED", "ACTIVATION_FAILED",
                                          "ROLLED_BACK"}
    [] state = "ACTIVATED"            -> {"SUCCESS", "ROLLBACK_IN_PROGRESS"}
    [] state = "ROLLBACK_IN_PROGRESS" -> {"ROLLED_BACK", "ROLLBACK_FAILED"}
    [] OTHER                          -> {}

Submit(s) ==
  /\ status = Blank
  /\ status' = [status EXCEPT ![s] = "VERIFIED"]
  /\ UNCHANGED <<rewindable, saved>>

Advance(s) ==
  /\ \E state \in Successors(status[s]) :
       status' = [status EXCEPT ![s] = state]
  /\ UNCHANGED <<rewindable, saved>>

Discard(s) ==
  /\ status' = [status EXCEPT ![s] = "NONE"]
  /\ UNCHANGED <<rewindable, saved>>

TakeCheckpoint ==
  /\ ~rewindable
  /\ rewindable' = TRUE
  /\ saved' = status
  /\ UNCHANGED status

Commit == rewindable' = FALSE /\ saved' = Blank /\ UNCHANGED status

Rewind ==
  /\ rewindable
  /\ status' = saved
  /\ \/ UNCHANGED <<rewindable, saved>>
     \/ rewindable' = FALSE /\ saved' = Blank

Next ==
  \/ \E s \in SessionIds : Submit(s) \/ Advance(s) \/ Discard(s)
  \/ TakeCheckpoint \/ Commit \/ Rewind

Spec == Init /\ [][Next]_<<status, rewindable, saved>>
=============================================================================
