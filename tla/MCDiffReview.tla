---------------------------- MODULE MCDiffReview ----------------------------
(* Instances of DiffReview for TLC.                                        *)
EXTENDS DiffReview, TLC

ThreadsAreAlike == Permutations(Threads)
=============================================================================
