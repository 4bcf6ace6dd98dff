------------------------------- MODULE MCGates -------------------------------
(* Instances of Gates for TLC. *)
EXTENDS Gates, TLC

CONSTANTS t1, t2, c1, c2, c3

(* One turn with an edit, a shell command and a question.                  *)
OneOwner == c1 :> t1 @@ c2 :> t1 @@ c3 :> t1
Mixed == c1 :> "edit" @@ c2 :> "local" @@ c3 :> "ask"

(* Two threads, one hook each.                                             *)
TwoOwners == c1 :> t1 @@ c2 :> t2
Shells == c1 :> "shell" @@ c2 :> "edit"
=============================================================================
