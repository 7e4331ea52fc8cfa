-------------------------- MODULE RequestLifecycle --------------------------
(***************************************************************************)
(* What async_file_accessor promises of a request, with no threads, locks  *)
(* or descriptors: it is obtained, put in, and settled once.  How it was   *)
(* settled, its success, failure or cancellation, is never revised.  The   *)
(* mmap accessor implements this specification (Lifecycle there).          *)
(***************************************************************************)
CONSTANT Requests
VARIABLE stage      \* the stage of each request

Settled == {"success", "failure", "cancelled"}
Stages == {"unused", "ready", "pending"} \cup Settled

\* From each stage to those that may follow; a request whose buffer cannot be
\* had fails before it is put in.
Moves == {<<"unused", "ready">>, <<"ready", "pending">>, <<"ready", "failure">>}
           \cup ({"pending"} \X Settled)

Advance(r) ==
  \E m \in Moves : stage[r] = m[1] /\ stage' = [stage EXCEPT ![r] = m[2]]

LifecycleInit == stage = [r \in Requests |-> "unused"]

LifecycleSpec == LifecycleInit /\ [][\E r \in Requests : Advance(r)]_stage

=============================================================================
