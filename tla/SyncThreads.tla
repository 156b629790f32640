---------------------------- MODULE SyncThreads -----------------------------
(***************************************************************************)
(* The spin-wait barrier of the C runtime, sync_threads (src/src/hvm.c),   *)
(* one action per access to its two shared counters.  The counters         *)
(* entered and left are history variables: they only feed the refinement   *)
(* of module Barrier.                                                      *)
(***************************************************************************)
EXTENDS Naturals, FiniteSets

CONSTANTS
  TPC,       \* number of threads
  MaxSync    \* bound: barriers each thread goes through

ASSUME SyncAssumption == TPC \in Nat \ {0} /\ MaxSync \in Nat

Thread == 0 .. TPC - 1

VARIABLES
  a_reached,     \* number of threads that reached the current barrier
  a_barrier,     \* number of barriers passed
  pc,
  barrier_old,   \* the a_barrier each thread read on entry
  entered, left

vars == <<a_reached, a_barrier, pc, barrier_old, entered, left>>

Init ==
  /\ a_reached = 0
  /\ a_barrier = 0
  /\ pc = [t \in Thread |-> "out"]
  /\ barrier_old = [t \in Thread |-> 0]
  /\ entered = [t \in Thread |-> 0]
  /\ left = [t \in Thread |-> 0]

\* A mutation: the last thread advances the barrier without resetting the
\* counter first.
ArriveNoReset(t) ==
  /\ pc[t] = "add"
  /\ a_reached' = a_reached + 1
  /\ pc' = [pc EXCEPT ![t] = IF a_reached = TPC - 1 THEN "advance" ELSE "spin"]
  /\ entered' = [entered EXCEPT ![t] = @ + 1]
  /\ UNCHANGED <<a_barrier, barrier_old, left>>

\* A mutation: off by one in the test for the last thread.
ArriveEarly(t) ==
  /\ pc[t] = "add"
  /\ a_reached' = a_reached + 1
  /\ pc' = [pc EXCEPT ![t] =
              IF a_reached + 1 = TPC - 1 THEN "reset" ELSE "spin"]
  /\ entered' = [entered EXCEPT ![t] = @ + 1]
  /\ UNCHANGED <<a_barrier, barrier_old, left>>

\* sync_threads is called and reads a_barrier.
Call(t) ==
  /\ pc[t] = "out" /\ entered[t] < MaxSync
  /\ barrier_old' = [barrier_old EXCEPT ![t] = a_barrier]
  /\ pc' = [pc EXCEPT ![t] = "add"]
  /\ UNCHANGED <<a_reached, a_barrier, entered, left>>

\* The thread counts itself in; it is the last iff it finds TPC - 1 others.
Arrive(t) ==
  /\ pc[t] = "add"
  /\ a_reached' = a_reached + 1
  /\ pc' = [pc EXCEPT ![t] = IF a_reached = TPC - 1 THEN "reset" ELSE "spin"]
  /\ entered' = [entered EXCEPT ![t] = @ + 1]
  /\ UNCHANGED <<a_barrier, barrier_old, left>>

\* The last thread resets the counter ...
Reset(t) ==
  /\ pc[t] = "reset"
  /\ a_reached' = 0
  /\ pc' = [pc EXCEPT ![t] = "advance"]
  /\ UNCHANGED <<a_barrier, barrier_old, entered, left>>

\* ... advances the barrier and returns.
Advance(t) ==
  /\ pc[t] = "advance"
  /\ a_barrier' = barrier_old[t] + 1
  /\ pc' = [pc EXCEPT ![t] = "out"]
  /\ left' = [left EXCEPT ![t] = @ + 1]
  /\ UNCHANGED <<a_reached, barrier_old, entered>>

\* The others spin until a_barrier is not the one they read.
Spin(t) ==
  /\ pc[t] = "spin" /\ a_barrier # barrier_old[t]
  /\ pc' = [pc EXCEPT ![t] = "out"]
  /\ left' = [left EXCEPT ![t] = @ + 1]
  /\ UNCHANGED <<a_reached, a_barrier, barrier_old, entered>>

Step(t) == Call(t) \/ Arrive(t) \/ Reset(t) \/ Advance(t) \/ Spin(t)

Next == \E t \in Thread : Step(t)

Spec == Init /\ [][Next]_vars
FairSpec == Spec /\ \A t \in Thread : WF_vars(Step(t))

-----------------------------------------------------------------------------
(* Properties.                                                             *)

TypeOK ==
  /\ a_reached \in 0 .. TPC
  /\ a_barrier \in Nat
  /\ pc \in [Thread -> {"out", "add", "spin", "reset", "advance"}]
  /\ barrier_old \in [Thread -> Nat]
  /\ entered \in [Thread -> Nat]
  /\ left \in [Thread -> Nat]

\* The threads that are counted in at the barrier in progress.
Waiting == {t \in Thread : entered[t] = a_barrier + 1}

\* Where a thread stands with respect to the shared counters.
ThreadInv(t) ==
  /\ pc[t] \in {"out", "add"} => entered[t] = a_barrier /\ left[t] = a_barrier
  /\ pc[t] = "add" => barrier_old[t] = a_barrier
  /\ pc[t] = "spin" =>
       /\ barrier_old[t] = a_barrier \/ barrier_old[t] + 1 = a_barrier
       /\ entered[t] = barrier_old[t] + 1 /\ left[t] = barrier_old[t]
  /\ pc[t] \in {"reset", "advance"} =>
       /\ barrier_old[t] = a_barrier
       /\ entered[t] = a_barrier + 1 /\ left[t] = a_barrier
       /\ \A u \in Thread \ {t} : pc[u] = "spin" /\ barrier_old[u] = a_barrier

\* The counter counts the waiting threads, except between the two stores of
\* the last one, where a thread that read the old a_barrier could be let in
\* by mistake (hvm.c:275-277).
CountInv ==
  a_reached = IF \E t \in Thread : pc[t] = "advance"
              THEN 0 ELSE Cardinality(Waiting)

\* Inductive invariant of the barrier.
BarrierInv == (\A t \in Thread : ThreadInv(t)) /\ CountInv

B == INSTANCE Barrier

\* sync_threads is a barrier: no thread gets past its k-th call before every
\* thread has arrived at its own k-th, though the two counters are reused by
\* the next call while slow threads are still spinning on this one.
ImplementsBarrier == B!Spec

\* Every call of sync_threads returns, provided every thread makes its calls
\* and keeps being scheduled (a spinning thread calls sched_yield).
AllReturn == <>(\A t \in Thread : left[t] = MaxSync)

=============================================================================
