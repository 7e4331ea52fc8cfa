---------------------------- MODULE MCPoolMemory ----------------------------
(***************************************************************************)
(* Small instances of PoolMemory for TLC.                                  *)
(***************************************************************************)
EXTENDS PoolMemory, TLC

\* Clients are interchangeable.
Symmetry == Permutations(Clients)

=============================================================================
