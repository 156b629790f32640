------------------------------ MODULE Barrier -------------------------------
(***************************************************************************)
(* What sync_threads promises: a thread leaves its k-th barrier only when  *)
(* every thread has entered its own k-th.                                  *)
(***************************************************************************)
EXTENDS Naturals

CONSTANT Thread

VARIABLES
  entered,   \* how many barriers each thread has arrived at
  left       \* how many it has gone past

Init ==
  /\ entered = [t \in Thread |-> 0]
  /\ left = [t \in Thread |-> 0]

Enter(t) ==
  /\ entered[t] = left[t]
  /\ entered' = [entered EXCEPT ![t] = @ + 1]
  /\ UNCHANGED left

Leave(t) ==
  /\ left[t] < entered[t]
  /\ \A u \in Thread : entered[u] >= entered[t]
  /\ left' = [left EXCEPT ![t] = @ + 1]
  /\ UNCHANGED entered

Next == \E t \in Thread : Enter(t) \/ Leave(t)

Spec == Init /\ [][Next]_<<entered, left>>

=============================================================================
