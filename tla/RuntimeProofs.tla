----------------------------- MODULE RuntimeProofs ----------------------------
(***************************************************************************)
(* Proofs about the two smallest parts of the C runtime, which share       *)
(* nothing: sync_threads has its invariant and implements module Barrier,  *)
(* for any number of threads, and operate is symmetric, for numbers of any *)
(* width and whatever the floating point unit computes.                    *)
(***************************************************************************)
EXTENDS SyncThreads, Operation, FiniteSetTheorems, TLAPS

IInv == TypeOK /\ BarrierInv

-----------------------------------------------------------------------------
(* The threads counted in, and how that set grows.                         *)

LEMMA ThreadFinite ==
  /\ IsFiniteSet(Thread)
  /\ Cardinality(Thread) = TPC
  /\ \A S \in SUBSET Thread :
       IsFiniteSet(S) /\ Cardinality(S) \in 0 .. TPC
<1>1. IsFiniteSet(Thread) /\ Cardinality(Thread) = TPC
  BY FS_Interval, SyncAssumption DEF Thread
<1>2. ASSUME NEW S \in SUBSET Thread
      PROVE  IsFiniteSet(S) /\ Cardinality(S) \in 0 .. TPC
  <2>1. IsFiniteSet(S) /\ Cardinality(S) <= TPC
    BY <1>1, FS_Subset
  <2>2. Cardinality(S) \in Nat
    BY <2>1, FS_CardinalityType
  <2>. QED
    BY <2>1, <2>2, SyncAssumption
<1>. QED
  BY <1>1, <1>2

\* A thread that arrives joins the waiting ones; when it finds TPC - 1 of
\* them counted in, all the others are waiting.
LEMMA WaitingGrows ==
  ASSUME NEW S \in SUBSET Thread, NEW t \in Thread, t \notin S
  PROVE  /\ Cardinality(S \cup {t}) = Cardinality(S) + 1
         /\ Cardinality(S) = TPC - 1 => S \cup {t} = Thread
<1>1. IsFiniteSet(S) /\ Cardinality(S) \in 0 .. TPC
  BY ThreadFinite
<1>2. Cardinality(S \cup {t}) = Cardinality(S) + 1
  BY <1>1, FS_AddElement
<1>3. ASSUME Cardinality(S) = TPC - 1
      PROVE  S \cup {t} = Thread
  <2>1. Cardinality(S \cup {t}) = Cardinality(Thread)
    BY <1>2, <1>3, ThreadFinite, SyncAssumption
  <2>2. S \cup {t} \in SUBSET Thread
    OBVIOUS
  <2>. QED
    BY <2>1, <2>2, ThreadFinite, FS_Subset
<1>. QED
  BY <1>2, <1>3

-----------------------------------------------------------------------------
LEMMA InitIInv == Init => IInv
<1> SUFFICES ASSUME Init PROVE IInv
  OBVIOUS
<1>1. TypeOK
  BY SyncAssumption DEF Init, TypeOK
<1>2. \A t \in Thread : ThreadInv(t)
  BY DEF Init, ThreadInv
<1>3. Waiting = {}
  BY DEF Init, Waiting
<1>4. CountInv
  BY <1>3, FS_EmptySet DEF Init, CountInv
<1>. QED
  BY <1>1, <1>2, <1>4 DEF IInv, BarrierInv

LEMMA NextIInv == IInv /\ [Next]_vars => IInv'
<1> SUFFICES ASSUME IInv, [Next]_vars PROVE IInv'
  OBVIOUS
<1> USE SyncAssumption DEF IInv, BarrierInv
<1>0. Waiting \in SUBSET Thread /\ IsFiniteSet(Waiting)
      /\ Cardinality(Waiting) \in 0 .. TPC
  BY ThreadFinite DEF Waiting
<1>1. ASSUME NEW t \in Thread, Call(t) PROVE IInv'
  <2>1. TypeOK'
    BY <1>1 DEF Call, TypeOK
  <2>2. (\A u \in Thread : ThreadInv(u))'
    BY <1>1 DEF Call, TypeOK, ThreadInv
  <2>3. Waiting' = Waiting
    BY <1>1 DEF Call, Waiting
  <2>4. CountInv'
    BY <1>1, <2>3 DEF Call, CountInv, TypeOK
  <2>. QED
    BY <2>1, <2>2, <2>4
<1>2. ASSUME NEW t \in Thread, Arrive(t) PROVE IInv'
  <2>1. entered[t] = a_barrier /\ left[t] = a_barrier
        /\ barrier_old[t] = a_barrier
    BY <1>2 DEF Arrive, ThreadInv
  <2>2. \A u \in Thread : pc[u] \notin {"reset", "advance"}
    BY <1>2 DEF Arrive, ThreadInv, TypeOK
  <2>3. a_reached = Cardinality(Waiting)
    BY <2>2 DEF CountInv
  <2>4. t \notin Waiting /\ Waiting' = Waiting \cup {t}
    BY <1>2, <2>1 DEF Arrive, Waiting, TypeOK
  <2>5. a_reached' = Cardinality(Waiting')
    BY <1>2, <2>3, <2>4, <1>0, WaitingGrows DEF Arrive
  <2>6. a_reached = TPC - 1 =>
          \A u \in Thread \ {t} : pc[u] = "spin" /\ barrier_old[u] = a_barrier
    <3> SUFFICES ASSUME a_reached = TPC - 1, NEW u \in Thread \ {t}
                 PROVE  pc[u] = "spin" /\ barrier_old[u] = a_barrier
      OBVIOUS
    <3>1. entered[u] = a_barrier + 1
      BY <2>3, <2>4, <1>0, WaitingGrows, ZenonT(40) DEF Waiting
    <3>. QED
      BY <3>1, <2>2 DEF ThreadInv, TypeOK
  <2>7. TypeOK'
    <3>1. Waiting' \in SUBSET Thread
      BY <2>4, <1>0
    <3>2. a_reached' \in 0 .. TPC
      BY <3>1, <2>5, ThreadFinite
    <3>. QED
      BY <1>2, <3>2 DEF Arrive, TypeOK
  <2>8. ASSUME NEW u \in Thread PROVE ThreadInv(u)'
    <3>1. CASE u = t
      BY <1>2, <2>1, <2>6, <3>1 DEF Arrive, TypeOK, ThreadInv
    <3>2. CASE u # t
      BY <1>2, <2>2, <3>2 DEF Arrive, TypeOK, ThreadInv
    <3>. QED
      BY <3>1, <3>2
  <2>9. CountInv'
    <3>1. \A u \in Thread : pc'[u] # "advance"
      BY <1>2, <2>2 DEF Arrive, TypeOK
    <3>. QED
      BY <3>1, <2>5 DEF CountInv
  <2>. QED
    BY <2>7, <2>8, <2>9
<1>3. ASSUME NEW t \in Thread, Reset(t) PROVE IInv'
  <2>1. TypeOK'
    BY <1>3 DEF Reset, TypeOK
  <2>2. (\A u \in Thread : ThreadInv(u))'
    BY <1>3 DEF Reset, TypeOK, ThreadInv
  <2>3. CountInv'
    BY <1>3 DEF Reset, TypeOK, CountInv
  <2>. QED
    BY <2>1, <2>2, <2>3
<1>4. ASSUME NEW t \in Thread, Advance(t) PROVE IInv'
  <2>1. /\ entered[t] = a_barrier + 1 /\ left[t] = a_barrier
        /\ barrier_old[t] = a_barrier
        /\ \A u \in Thread \ {t} : pc[u] = "spin" /\ barrier_old[u] = a_barrier
    BY <1>4 DEF Advance, ThreadInv
  <2>2. a_reached = 0 /\ a_reached' = 0
    BY <1>4 DEF Advance, CountInv
  <2>3. TypeOK'
    BY <1>4 DEF Advance, TypeOK
  <2>4. ASSUME NEW u \in Thread PROVE ThreadInv(u)'
    <3>1. CASE u = t
      BY <1>4, <2>1, <3>1 DEF Advance, TypeOK, ThreadInv
    <3>2. CASE u # t
      <4>1. pc[u] = "spin" /\ barrier_old[u] = a_barrier
        BY <2>1, <3>2
      <4>2. entered[u] = barrier_old[u] + 1 /\ left[u] = barrier_old[u]
        BY <4>1 DEF ThreadInv
      <4>. QED
        BY <1>4, <2>1, <4>1, <4>2, <3>2 DEF Advance, TypeOK, ThreadInv
    <3>. QED
      BY <3>1, <3>2
  <2>5. CountInv'
    <3>1. \A u \in Thread : entered[u] = a_barrier + 1
      BY <2>1 DEF ThreadInv, TypeOK
    <3>2. a_barrier' = a_barrier + 1 /\ entered' = entered
      BY <1>4, <2>1 DEF Advance
    <3>3. Waiting' = {}
      BY <3>1, <3>2 DEF Waiting, TypeOK
    <3>. QED
      BY <3>3, <2>2, FS_EmptySet DEF CountInv
  <2>. QED
    BY <2>3, <2>4, <2>5
<1>5. ASSUME NEW t \in Thread, Spin(t) PROVE IInv'
  <2>1. TypeOK'
    BY <1>5 DEF Spin, TypeOK
  <2>2. barrier_old[t] + 1 = a_barrier /\ entered[t] = a_barrier
        /\ left[t] + 1 = a_barrier
    BY <1>5 DEF Spin, ThreadInv, TypeOK
  <2>3. (\A u \in Thread : ThreadInv(u))'
    BY <1>5, <2>2 DEF Spin, TypeOK, ThreadInv
  <2>4. Waiting' = Waiting
    BY <1>5 DEF Spin, Waiting
  <2>5. CountInv'
    BY <1>5, <2>4 DEF Spin, CountInv, TypeOK
  <2>. QED
    BY <2>1, <2>3, <2>5
<1>6. CASE UNCHANGED vars
  BY <1>6 DEF vars, TypeOK, ThreadInv, CountInv, Waiting
<1>. QED
  BY <1>1, <1>2, <1>3, <1>4, <1>5, <1>6 DEF Next, Step

\* The invariant of sync_threads (hvm.c:270-285): every thread is at the barrier
\* in progress or just behind it, and a_reached counts those that have arrived.
THEOREM BarrierInvariant == Spec => []BarrierInv
<1>1. IInv => BarrierInv
  BY DEF IInv
<1>. QED
  BY <1>1, InitIInv, NextIInv, PTL DEF Spec

\* The counter of arrivals never exceeds the number of threads: fetch_add and
\* the reset to 0 never cross (hvm.c:274-279).
THEOREM BarrierTypes == Spec => []TypeOK
<1>1. IInv => TypeOK
  BY DEF IInv
<1>. QED
  BY <1>1, InitIInv, NextIInv, PTL DEF Spec

-----------------------------------------------------------------------------
\* sync_threads implements the abstract barrier for any number of threads
\* and of calls: nobody leaves a barrier others have still to arrive at.
THEOREM SyncImplementsBarrier == Spec => ImplementsBarrier
<1>1. Init => B!Init
  BY DEF Init, B!Init
<1>2. IInv /\ [Next]_vars => [B!Next]_<<entered, left>>
  <2> SUFFICES ASSUME IInv, [Next]_vars PROVE [B!Next]_<<entered, left>>
    OBVIOUS
  <2> USE DEF IInv, BarrierInv
  <2>1. ASSUME NEW t \in Thread, Arrive(t) PROVE B!Next
    <3>1. B!Enter(t)
      BY <2>1 DEF Arrive, ThreadInv, B!Enter
    <3>. QED
      BY <3>1 DEF B!Next
  <2>2. ASSUME NEW t \in Thread, Advance(t) PROVE B!Next
    <3>1. \A u \in Thread : entered[u] = a_barrier + 1
      BY <2>2 DEF Advance, ThreadInv, TypeOK
    <3>2. left[t] = a_barrier
      BY <2>2 DEF Advance, ThreadInv
    <3>3. B!Leave(t)
      BY <2>2, <3>1, <3>2 DEF Advance, TypeOK, B!Leave
    <3>. QED
      BY <3>3 DEF B!Next
  <2>3. ASSUME NEW t \in Thread, Spin(t) PROVE B!Next
    <3>1. entered[t] = a_barrier /\ left[t] + 1 = a_barrier
      BY <2>3 DEF Spin, ThreadInv, TypeOK
    <3>2. \A u \in Thread : entered[u] >= a_barrier
      BY DEF ThreadInv, TypeOK
    <3>3. B!Leave(t)
      BY <2>3, <3>1, <3>2 DEF Spin, TypeOK, B!Leave
    <3>. QED
      BY <3>3 DEF B!Next
  <2>4. ASSUME NEW t \in Thread, Call(t) \/ Reset(t)
        PROVE  UNCHANGED <<entered, left>>
    BY <2>4 DEF Call, Reset
  <2>5. CASE UNCHANGED vars
    BY <2>5 DEF vars
  <2>. QED
    BY <2>1, <2>2, <2>3, <2>4, <2>5 DEF Next, Step
<1>. QED
  BY <1>1, <1>2, InitIInv, NextIInv, PTL
     DEF Spec, ImplementsBarrier, B!Spec

-----------------------------------------------------------------------------
(* operate, in module Operation.                                           *)

\* A cast and a number, an operator and an operand are told apart by their
\* types alone.
LEMMA TypesApart ==
  "SYM" \notin Types /\ "SYM" \notin Ops /\ Types \cap Ops = {}
BY DEF Types, Ops, Compare, Shift

\* The result of operate depends on the two numbers, not on their order: the
\* operator is found by its type (hvm.c:476-509).
LEMMA OperateSymmetric == \A a, b : operate(a, b) = operate(b, a)
<1> SUFFICES ASSUME NEW a, NEW b PROVE operate(a, b) = operate(b, a)
  OBVIOUS
<1>1. Applies(a, b) <=> Applies(b, a)
  BY DEF Applies
<1>2. CASE Applies(a, b)
  \* Exactly one of the two is an operator.
  <2>1. Operands(a, b) = Operands(b, a)
    <3>1. CASE is_oper(a) /\ ~is_oper(b)
      BY <3>1 DEF Operands
    <3>2. CASE ~is_oper(a) /\ is_oper(b)
      BY <3>2 DEF Operands
    <3>. QED
      BY <1>2, <3>1, <3>2 DEF Applies, is_oper
  <2>. QED
    BY <1>1, <1>2, <2>1 DEF operate
<1>3. CASE ~Applies(a, b)
  <2>1. NotApplied(a, b) = NotApplied(b, a)
    <3> USE DEF NotApplied, is_cast, is_num
    <3>1. CASE a.typ = "SYM"
      BY <3>1, TypesApart
    <3>2. CASE b.typ = "SYM"
      BY <3>2, TypesApart
    <3>3. CASE a.typ # "SYM" /\ b.typ # "SYM"
      BY <3>3
    <3>. QED
      BY <3>1, <3>2, <3>3
  <2>. QED
    BY <1>1, <1>3, <2>1 DEF operate
<1>. QED
  BY <1>2, <1>3

\* An OPER interaction that finds its operand in the node and one that turns
\* the node round and waits for it compute the same number.
THEOREM OperatorOrderFree == OperationSpec => []OrderFree
<1>1. OrderFree
  BY OperateSymmetric DEF OrderFree
<1>. QED
  BY <1>1, PTL

=============================================================================
