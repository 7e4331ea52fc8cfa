---------------------------- MODULE MCThreadPool ----------------------------
(***************************************************************************)
(* Small instances of ThreadPool for TLC.                                  *)
(***************************************************************************)
EXTENDS ThreadPool, TLC

\* Requests are interchangeable, and so are clients (safety runs only).
Symmetry == Permutations(Requests) \cup Permutations(Clients)

=============================================================================
