-------------------------- MODULE MCTurnLifecycle --------------------------
(* Instances of TurnLifecycle for TLC. *)
EXTENDS TurnLifecycle, TLC

CONSTANTS t1, t2, p1, r1, r2

(* Two threads that share a project.                                       *)
HomeShared == t1 :> p1 @@ t2 :> p1
=============================================================================
