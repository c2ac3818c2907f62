---------------------------- MODULE MCPoolRounds ---------------------------
(* TLC instances of PoolRounds; the bounds are in the .cfg files. *)
EXTENDS PoolRounds, TLC

CONSTANTS w1, w2, c1

MCWorkers     == {w1, w2}
MCConnections == {c1}

Symmetry == Permutations(MCWorkers)
================================================================================
