---------------------------- MODULE MCMutexLock ----------------------------
(***************************************************************************)
(* Small instance of MutexLock for TLC: safety only, so threads may be     *)
(* permuted.                                                               *)
(***************************************************************************)
EXTENDS MutexLock, TLC

Symmetry == Permutations(Threads)

=============================================================================
