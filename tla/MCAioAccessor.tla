--------------------------- MODULE MCAioAccessor ---------------------------
(***************************************************************************)
(* Small instances of AioAccessor for TLC.                                 *)
(***************************************************************************)
EXTENDS AioAccessor, TLC

\* Requests are interchangeable (safety runs only).
Symmetry == Permutations(Requests)

=============================================================================
