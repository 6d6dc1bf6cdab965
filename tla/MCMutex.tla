------------------------------ MODULE MCMutex -------------------------------
(* Finite instances of the mutexes for TLC. *)
EXTENDS Mutex, TLC

CONSTANTS th1, th2, th3, th4, NoOwner

Symmetry == Permutations(Threads)
=============================================================================
