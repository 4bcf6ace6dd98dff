--------------------------- MODULE ThreadContract ---------------------------
(***************************************************************************)
(* What the row of a thread promises to whoever reads it (the composer, the*)
(* git handlers, the review, the next boot), whatever runs the turn:       *)
(* threads.state next to whether a turn is under way.  Nothing of leases,  *)
(* sessions, gates, stages or processes is left in it.                     *)
(*                                                                         *)
(* A turn starts on a settled row and ends in idle or error; once a stop   *)
(* was accepted it ends in cancelled, at its end or before it is over, and *)
(* only the end of the process or of the row changes that.  A row without  *)
(* a turn is never busy.  Each thread takes its steps by itself.           *)
(***************************************************************************)
EXTENDS TurnState

CONSTANTS Threads,   \* thread ids
          Unborn,    \* the values that stand for no row yet
          Deleted    \* the row is gone

VARIABLES
  state,     \* threads.state, a value of Unborn or Deleted
  turning    \* the threads that have a turn under way

vars == <<state, turning>>

BusyStates == LiveStates \cup {"stopping"}

Init ==
  /\ \A t \in Threads : state[t] \in Unborn \cup {"idle"}
  /\ turning = {}

Starts(t) == t \notin turning /\ t \in turning'
Ends(t) == t \in turning /\ t \notin turning'
GoesOn(t) == t \in turning /\ t \in turning'
Rests(t) == t \notin turning /\ t \notin turning'

Start(t) ==
  /\ Starts(t)
  /\ state[t] \in SettledStates \cup Unborn /\ state'[t] = InitialTurnState

(* The turn waits for the user, or goes on.                                *)
Wait(t) ==
  /\ GoesOn(t)
  /\ state[t] \in LiveStates /\ state'[t] \in LiveStates

(* A stop is accepted, and settled at once or later.                       *)
Stop(t) ==
  /\ GoesOn(t)
  /\ state[t] \in BusyStates /\ state'[t] \in {"stopping", "cancelled"}

End(t) ==
  /\ Ends(t)
  /\ \/ state[t] \in LiveStates /\ state'[t] \in {"idle", "error"}
     \/ state[t] = "stopping" /\ state'[t] = "cancelled"
     \/ state[t] \notin BusyStates /\ state'[t] = state[t]

Review(t) ==
  /\ Rests(t)
  /\ state[t] \in SettledStates /\ state'[t] \in {"idle", "committed"}

Delete(t) ==
  /\ t \in turning <=> t \in turning'
  /\ state[t] \in ThreadStates /\ state'[t] = Deleted

(* The process ends; the next one reconciles the row.                      *)
Restart(t) ==
  /\ t \notin turning'
  /\ state'[t] = IF state[t] \in BusyStates THEN "interrupted" ELSE state[t]

Quiet(t) ==
  /\ t \in turning <=> t \in turning'
  /\ state'[t] = state[t]

Step(t) ==
  \/ Start(t) \/ Wait(t) \/ Stop(t) \/ End(t)
  \/ Review(t) \/ Delete(t) \/ Restart(t) \/ Quiet(t)

Next == \A t \in Threads : Step(t)

Spec == Init /\ [][Next]_vars
=============================================================================
