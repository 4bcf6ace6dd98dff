---------------------------- MODULE MCThreadView ----------------------------
(* Instances of ThreadView for TLC.                                        *)
EXTENDS ThreadView, TLC

ThreadsAreAlike == Permutations(Threads)
=============================================================================
