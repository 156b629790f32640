------------------------------ MODULE WorkPool ------------------------------
(***************************************************************************)
(* What normalize promises its caller, with no threads and no bags: a pool *)
(* of redexes, reduced one at a time in any order, each exactly once, the  *)
(* redexes an interaction produces joining the pool; normalize returns     *)
(* only when the pool is empty.                                            *)
(***************************************************************************)
CONSTANTS
  Redex,
  Produces   \* the set of redexes the reduction of each redex produces

VARIABLES
  pool,      \* redexes to reduce
  reduced,   \* redexes reduced so far
  running    \* is a call of normalize in progress?

Init ==
  /\ pool = {}
  /\ reduced = {}
  /\ running = FALSE

Boot(r) ==
  /\ ~running /\ r \notin reduced
  /\ running' = TRUE
  /\ pool' = {r}
  /\ UNCHANGED reduced

Reduce(r) ==
  /\ r \in pool \ reduced
  /\ pool' = (pool \ {r}) \cup Produces[r]
  /\ reduced' = reduced \cup {r}
  /\ UNCHANGED running

Return ==
  /\ running /\ pool = {}
  /\ running' = FALSE
  /\ UNCHANGED <<pool, reduced>>

Next == (\E r \in Redex : Boot(r) \/ Reduce(r)) \/ Return

Spec == Init /\ [][Next]_<<pool, reduced, running>>

=============================================================================
