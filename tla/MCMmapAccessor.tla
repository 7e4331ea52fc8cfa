--------------------------- MODULE MCMmapAccessor ---------------------------
(***************************************************************************)
(* Small instances of MmapAccessor for TLC.                                *)
(***************************************************************************)
EXTENDS MmapAccessor, TLC

\* Requests are interchangeable, and so are clients (safety runs only).
Symmetry == Permutations(Requests) \cup Permutations(Clients)

=============================================================================
