-------------------------- MODULE MCProcessThreads --------------------------
(* A small instance of ProcessThreads for TLC. *)
EXTENDS ProcessThreads, TLC

CONSTANTS p1, p2, t1, t2, c1, c2

Symmetry == Permutations(Tids) \union Permutations(Cpus)
=============================================================================
