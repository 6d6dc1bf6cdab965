----------------------------- MODULE MCExecutor -----------------------------
(* Finite instances of the executor for TLC. *)
EXTENDS Executor, TLC

CONSTANTS t1, t2, t3, w1, w2, NoOwner

Symmetry == Permutations(Tasks) \cup Permutations(Wakers)
=============================================================================
