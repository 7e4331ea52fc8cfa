---------------------------- MODULE TaskDispatch ----------------------------
(***************************************************************************)
(* What a thread pool promises its submitters, with no queue indices, no   *)
(* locks and no threads: work items line up in the order of their arrival, *)
(* a free server takes the item at the front of the line, and every item   *)
(* taken is served by exactly one server, once.  ThreadPool implements     *)
(* this specification (DispatchSpec there).                                *)
(***************************************************************************)
EXTENDS Naturals, Sequences

CONSTANTS
  Servers,    \* the threads that serve
  Items,      \* what they serve
  Nothing     \* the item of a free server

VARIABLES
  line,       \* the items that arrived and were not taken yet, oldest first
  inService,  \* the item each server holds, or Nothing
  served      \* how often each item was completed

dispatchVars == <<line, inService, served>>

DispatchInit ==
  /\ line = <<>>
  /\ inService = [v \in Servers |-> Nothing]
  /\ served = [x \in Items |-> 0]

Arrive(x) ==
  /\ line' = Append(line, x)
  /\ UNCHANGED <<inService, served>>

Begin(v) ==
  /\ inService[v] = Nothing
  /\ line # <<>>
  /\ inService' = [inService EXCEPT ![v] = Head(line)]
  /\ line' = Tail(line)
  /\ UNCHANGED served

End(v) ==
  /\ inService[v] # Nothing
  /\ served' = [served EXCEPT ![inService[v]] = @ + 1]
  /\ inService' = [inService EXCEPT ![v] = Nothing]
  /\ UNCHANGED line

DispatchNext ==
  \/ \E x \in Items : Arrive(x)
  \/ \E v \in Servers : Begin(v) \/ End(v)

DispatchSpec == DispatchInit /\ [][DispatchNext]_dispatchVars

=============================================================================
