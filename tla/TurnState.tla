----------------------------- MODULE TurnState -----------------------------
(***************************************************************************)
(* The thread-state reducer of services/runner/turn-state.ts.  Every write *)
(* of threads.state goes through applyTransition, which looks the event up *)
(* in a table and writes nothing when the table has no entry.  This module *)
(* is the table, as operators; the modules that hold state EXTEND it.      *)
(***************************************************************************)

LiveStates == {"running", "waiting_user", "waiting_permission"}

SettledStates == {"idle", "committed", "error", "cancelled", "interrupted"}

ThreadStates == LiveStates \cup SettledStates \cup {"stopping"}

TurnEvents ==
  {"follow_up", "gate_opened_permission", "gate_opened_question",
   "gates_closed", "cancel_requested", "cancel_settled", "turn_failed",
   "turn_finished", "diffs_committed", "diffs_settled"}

InitialTurnState == "running"

(* TRANSITIONS has an entry for this event in this state.                  *)
Legal(current, event) ==
  \/ event \in {"follow_up", "diffs_committed", "diffs_settled"} /\ current \in SettledStates
  \/ event \in {"gate_opened_permission", "gate_opened_question"} /\ current \in LiveStates
  \/ event = "gates_closed" /\ current \in {"waiting_permission", "waiting_user"}
  \/ event = "cancel_requested" /\ current \in LiveStates \cup {"stopping"}
  \/ event = "cancel_settled" /\ current \in LiveStates \cup {"stopping", "cancelled"}
  \/ event = "turn_failed" /\ current \in LiveStates \cup {"stopping", "error"}
  \/ event = "turn_finished" /\ current \in LiveStates \cup {"stopping", "idle"}

(* The entry.  Only turn_finished depends on the current state: a stop that*)
(* was already asked for is not overwritten by a normal end of turn.       *)
Target(current, event) ==
  IF event \in {"follow_up", "gates_closed"} THEN "running"
  ELSE IF event = "gate_opened_permission" THEN "waiting_permission"
  ELSE IF event = "gate_opened_question" THEN "waiting_user"
  ELSE IF event = "cancel_requested" THEN "stopping"
  ELSE IF event = "turn_failed" THEN "error"
  ELSE IF event = "diffs_committed" THEN "committed"
  ELSE IF event = "cancel_settled" \/ current = "stopping" THEN "cancelled"
  ELSE "idle"

(* Mutant of applyTransition: the end of a turn forgets that a stop was    *)
(* asked for.                                                              *)
ApplyForgetsStop(current, event) ==
  IF event = "turn_finished" /\ current \in LiveStates \cup {"stopping", "idle"}
  THEN "idle"
  ELSE IF Legal(current, event) THEN Target(current, event) ELSE current

(* applyTransition as the value it leaves in the row: the target of a legal*)
(* event, the same value after an illegal one or when the row is gone.     *)
ApplyTransition(current, event) ==
  IF Legal(current, event) THEN Target(current, event) ELSE current

=============================================================================
