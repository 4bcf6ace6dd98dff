----------------------------- MODULE MCDelegation -----------------------------
(* Instances of Delegation for TLC. *)
EXTENDS Delegation, TLC

CONSTANTS r1, r2, c1, c2, c3

(* A request with two tasks and one with a single child.                   *)
TwoAndOne == c1 :> r1 @@ c2 :> r1 @@ c3 :> r2

(* Two requests with a child each.                                         *)
OneEach == c1 :> r1 @@ c2 :> r2
=============================================================================
