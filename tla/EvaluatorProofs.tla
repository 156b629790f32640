-------------------------- MODULE EvaluatorProofs ---------------------------
(***************************************************************************)
(* Proofs about the multithreaded evaluator, for any number of threads,    *)
(* any bag capacities and any tree of redexes: the bags never overflow,    *)
(* the idle counter is exact, nothing is left when normalize returns; no   *)
(* redex is lost and none is reduced twice, so that normalize implements   *)
(* WorkPool; and its count is exact.                                       *)
(***************************************************************************)
EXTENDS Evaluator, FiniteSetTheorems, SequenceTheorems, TLAPS

IInv == TypeOK /\ EvalInv

-----------------------------------------------------------------------------
(* Data.                                                                   *)

LEMMA TickType ==
  ASSUME NEW n \in Nat
  PROVE  n % TICK \in 0 .. TICK - 1
BY EvaluatorAssumption

LEMMA AddOne ==
  \A p, m \in Nat : p + (m + 1) = p + m + 1 /\ (p + 1) + m = p + m + 1
OBVIOUS

LEMMA Prefix ==
  ASSUME NEW S, NEW s \in Seq(S), NEW n \in Nat, n <= Len(s)
  PROVE  SubSeq(s, 1, n) \in Seq(S) /\ Len(SubSeq(s, 1, n)) = n
OBVIOUS

\* What popping the last and the first element of a sequence leaves.
LEMMA DropLast ==
  ASSUME NEW S, NEW s \in Seq(S), s # <<>>
  PROVE  /\ SubSeq(s, 1, Len(s) - 1) \in Seq(S)
         /\ Len(SubSeq(s, 1, Len(s) - 1)) = Len(s) - 1
         /\ s[Len(s)] \in S
         /\ Len(s) \in Nat \ {0}
<1>1. Len(s) \in Nat \ {0}
  BY EmptySeq
<1>2. s[Len(s)] \in S
  BY <1>1, ElementOfSeq
<1>3. Len(s) - 1 \in Nat /\ Len(s) - 1 <= Len(s)
  BY <1>1
<1>4. SubSeq(s, 1, Len(s) - 1) \in Seq(S)
      /\ Len(SubSeq(s, 1, Len(s) - 1)) = Len(s) - 1
  <2>. DEFINE n == Len(s) - 1
  <2>1. n \in Nat /\ n <= Len(s)
    BY <1>3
  <2>. HIDE DEF n
  <2>2. SubSeq(s, 1, n) \in Seq(S) /\ Len(SubSeq(s, 1, n)) = n
    BY <2>1, Prefix
  <2>. QED
    BY <2>2 DEF n
<1>. QED
  BY <1>1, <1>2, <1>4

LEMMA DropHead ==
  ASSUME NEW S, NEW s \in Seq(S), s # <<>>
  PROVE  /\ Head(s) \in S /\ Tail(s) \in Seq(S)
         /\ Len(Tail(s)) = Len(s) - 1
         /\ Len(s) \in Nat \ {0}
BY HeadTailProperties, EmptySeq

\* The number of threads that are not busy, and how it moves.
LEMMA IdleCount ==
  ASSUME NEW S \in SUBSET Thread
  PROVE  /\ IsFiniteSet(S) /\ Cardinality(S) \in 0 .. TPC
         /\ \A t \in S : /\ Cardinality(S \ {t}) = Cardinality(S) - 1
                         /\ Cardinality(S) > 0
         /\ \A t \in Thread \ S : /\ Cardinality(S \cup {t}) = Cardinality(S) + 1
                                  /\ Cardinality(S) < TPC
<1>1. IsFiniteSet(Thread) /\ Cardinality(Thread) = TPC
  BY FS_Interval, EvaluatorAssumption DEF Thread
<1>2. ASSUME NEW T \in SUBSET Thread
      PROVE  IsFiniteSet(T) /\ Cardinality(T) \in 0 .. TPC
  <2>1. IsFiniteSet(T) /\ Cardinality(T) <= TPC
    BY <1>1, FS_Subset
  <2>2. Cardinality(T) \in Nat
    BY <2>1, FS_CardinalityType
  <2>. QED
    BY <2>1, <2>2, EvaluatorAssumption
<1>3. ASSUME NEW t \in S
      PROVE  Cardinality(S \ {t}) = Cardinality(S) - 1 /\ Cardinality(S) > 0
  <2>1. Cardinality(S \ {t}) = Cardinality(S) - 1
    BY <1>2, FS_RemoveElement
  <2>2. Cardinality(S \ {t}) \in Nat /\ Cardinality(S) \in Nat
    BY <1>2, S \ {t} \in SUBSET Thread, EvaluatorAssumption
  <2>. QED
    BY <2>1, <2>2
<1>4. ASSUME NEW t \in Thread \ S
      PROVE  Cardinality(S \cup {t}) = Cardinality(S) + 1 /\ Cardinality(S) < TPC
  <2>1. Cardinality(S \cup {t}) = Cardinality(S) + 1
    BY <1>2, FS_AddElement
  <2>2. Cardinality(S \cup {t}) \in 0 .. TPC /\ Cardinality(S) \in 0 .. TPC
    BY <1>2, S \cup {t} \in SUBSET Thread
  <2>. QED
    BY <2>1, <2>2, EvaluatorAssumption
<1>. QED
  BY <1>2, <1>3, <1>4

\* All but thread 0: the threads that start idle.
LEMMA StartIdle == Cardinality(Thread \ {0}) = TPC - 1
<1>1. IsFiniteSet(Thread) /\ Cardinality(Thread) = TPC /\ 0 \in Thread
  BY FS_Interval, EvaluatorAssumption DEF Thread
<1>. QED
  BY <1>1, FS_RemoveElement

-----------------------------------------------------------------------------
LEMMA InitIInv == Init => IInv
<1> SUFFICES ASSUME Init PROVE IInv
  OBVIOUS
<1> USE EvaluatorAssumption
<1>1. TypeOK
  BY DEF Init, TypeOK
<1>2. \A t \in Thread : LocalInv(t)
  BY DEF Init, LocalInv, Parked
<1>3. \A t \in Thread, i \in 0 .. RLEN - 1 : CellInv(t, i)
  BY DEF Init, CellInv
<1>4. PhaseInv
  BY DEF Init, B!Init, PhaseInv, BarrierAt, Early, Late
<1>5. IdleExact
  <2>1. 0 \in Thread
    BY DEF Thread
  <2>. QED
    BY <2>1 DEF Init, IdleExact, Started
<1>. QED
  BY <1>1, <1>2, <1>3, <1>4, <1>5 DEF IInv, EvalInv

-----------------------------------------------------------------------------
(* push_redex.                                                             *)

\* When the bag of the redex has room, push_redex grows that bag by one and
\* touches nothing else.
LEMMA PushEffect ==
  ASSUME TypeOK, NEW t \in Thread, NEW r \in Redex, PushTo(t, r),
         IF r \in High THEN Len(hbag[t]) < HLEN ELSE rput[t] < RLEN
  PROVE  /\ rbag_buf' \in [Thread -> [0 .. RLEN - 1 -> Redex \cup {FREE}]]
         /\ rput' \in [Thread -> 0 .. RLEN]
         /\ hbag' \in [Thread -> Seq(High)]
         /\ \A u \in Thread : Len(hbag'[u]) <= HLEN
         /\ \A u \in Thread \ {t} : rput'[u] = rput[u] /\ hbag'[u] = hbag[u]
         /\ rput'[t] + Len(hbag'[t]) = rput[t] + Len(hbag[t]) + 1
         /\ rput'[t] \in {rput[t], rput[t] + 1}
         /\ Len(hbag'[t]) \in {Len(hbag[t]), Len(hbag[t]) + 1}
         /\ \A u \in Thread, i \in 0 .. RLEN - 1 :
              \/ rbag_buf'[u][i] = rbag_buf[u][i]
              \/ i < rput'[u] /\ rbag_buf'[u][i] \notin High
<1>0. /\ rbag_buf \in [Thread -> [0 .. RLEN - 1 -> Redex \cup {FREE}]]
      /\ rput \in [Thread -> 0 .. RLEN] /\ hbag \in [Thread -> Seq(High)]
      /\ \A u \in Thread : hbag[u] \in Seq(High) /\ Len(hbag[u]) \in Nat
                           /\ Len(hbag[u]) <= HLEN
      /\ RLEN \in Nat /\ HLEN \in Nat
  BY LenProperties, EvaluatorAssumption DEF TypeOK
<1>1. CASE r \in High
  <2>1. Append(hbag[t], r) \in Seq(High)
        /\ Len(Append(hbag[t], r)) = Len(hbag[t]) + 1
    BY <1>0, <1>1, AppendProperties
  <2>2. /\ hbag' = [hbag EXCEPT ![t] = Append(hbag[t], r)]
        /\ rbag_buf' = rbag_buf /\ rput' = rput
    BY <1>1 DEF PushTo
  <2>3. hbag' \in [Thread -> Seq(High)]
    BY <1>0, <2>1, <2>2
  <2>4. hbag'[t] = Append(hbag[t], r)
        /\ \A u \in Thread \ {t} : hbag'[u] = hbag[u]
    BY <1>0, <2>2
  <2>5. Len(hbag'[t]) = Len(hbag[t]) + 1
    BY <2>1, <2>4, Zenon
  <2>6. Len(hbag'[t]) <= HLEN
    <3>1. \A m, c \in Nat : m < c => m + 1 <= c
      OBVIOUS
    <3>2. Len(hbag[t]) \in Nat /\ HLEN \in Nat /\ Len(hbag[t]) < HLEN
      BY <1>0, <1>1
    <3>. QED
      BY <2>5, <3>1, <3>2, Zenon
  <2>7. ASSUME NEW u \in Thread
        PROVE  Len(hbag'[u]) <= HLEN
    <3>1. CASE u = t
      BY <2>6, <3>1
    <3>2. CASE u # t
      <4>1. hbag'[u] = hbag[u]
        BY <2>4, <3>2
      <4>. QED
        BY <1>0, <4>1, Zenon
    <3>. QED
      BY <3>1, <3>2
  <2>8. rput'[t] + Len(hbag'[t]) = rput[t] + Len(hbag[t]) + 1
    <3>1. rput[t] \in Nat /\ Len(hbag[t]) \in Nat
      BY <1>0
    <3>2. rput[t] + (Len(hbag[t]) + 1) = rput[t] + Len(hbag[t]) + 1
      BY <3>1, AddOne, Zenon
    <3>. QED
      BY <2>2, <2>5, <3>2, Zenon
  <2>. QED
    BY <1>0, <2>2, <2>3, <2>4, <2>5, <2>7, <2>8, Zenon
<1>2. CASE r \notin High
  <2>1. /\ rbag_buf' = [rbag_buf EXCEPT ![t][rput[t]] = r]
        /\ rput' = [rput EXCEPT ![t] = rput[t] + 1]
        /\ hbag' = hbag
    BY <1>2 DEF PushTo
  <2>2. rput[t] \in 0 .. RLEN - 1
    BY <1>0, <1>2
  <2>3. rbag_buf' \in [Thread -> [0 .. RLEN - 1 -> Redex \cup {FREE}]]
        /\ rput' \in [Thread -> 0 .. RLEN]
    BY <1>0, <2>1, <2>2
  <2>4. rput'[t] = rput[t] + 1 /\ \A u \in Thread \ {t} : rput'[u] = rput[u]
    BY <1>0, <2>1
  <2>5. \A u \in Thread, i \in 0 .. RLEN - 1 :
           \/ rbag_buf'[u][i] = rbag_buf[u][i]
           \/ i < rput'[u] /\ rbag_buf'[u][i] \notin High
    <3>1. ASSUME NEW u \in Thread, NEW i \in 0 .. RLEN - 1, u = t, i = rput[t]
          PROVE  i < rput'[u] /\ rbag_buf'[u][i] \notin High
      BY <1>0, <1>2, <2>1, <2>4, <3>1
    <3>2. ASSUME NEW u \in Thread, NEW i \in 0 .. RLEN - 1, u # t \/ i # rput[t]
          PROVE  rbag_buf'[u][i] = rbag_buf[u][i]
      BY <1>0, <2>1, <3>2
    <3>. QED
      BY <3>1, <3>2, Zenon
  <2>6. rput'[t] + Len(hbag'[t]) = rput[t] + Len(hbag[t]) + 1
    <3>1. rput[t] \in Nat /\ Len(hbag[t]) \in Nat
      BY <1>0
    <3>2. (rput[t] + 1) + Len(hbag[t]) = rput[t] + Len(hbag[t]) + 1
      BY <3>1, AddOne, Zenon
    <3>. QED
      BY <2>1, <2>4, <3>2, Zenon
  <2>. QED
    BY <1>0, <2>1, <2>3, <2>4, <2>5, <2>6, Zenon
<1>. QED
  BY <1>1, <1>2

-----------------------------------------------------------------------------
(* Type correctness.                                                       *)

\* The pushes a thread makes find room.
LEMMA PushRoom ==
  ASSUME TypeOK, NEW t \in Thread, LocalInv(t)
  PROVE  /\ pc[t] = "interact" =>
              /\ cur[t] \in Redex
              /\ IF cur[t] \in High THEN Len(hbag[t]) < HLEN ELSE rput[t] < RLEN
         /\ pc[t] = "stolen" =>
              /\ cur[t] \in Redex
              /\ IF cur[t] \in High THEN Len(hbag[t]) < HLEN ELSE rput[t] < RLEN
         /\ pc[t] = "push" =>
              /\ todo[t] # <<>> /\ Head(todo[t]) \in Redex
              /\ Len(hbag[t]) < HLEN /\ rput[t] < RLEN
<1> USE EvaluatorAssumption
<1>1. ASSUME pc[t] = "interact"
      PROVE  /\ cur[t] \in Redex
             /\ IF cur[t] \in High THEN Len(hbag[t]) < HLEN ELSE rput[t] < RLEN
  BY <1>1 DEF TypeOK, LocalInv
<1>2. ASSUME pc[t] = "stolen"
      PROVE  /\ cur[t] \in Redex
             /\ IF cur[t] \in High THEN Len(hbag[t]) < HLEN ELSE rput[t] < RLEN
  <2>1. rput[t] = 0 /\ hbag[t] = <<>> /\ cur[t] \in Redex
    BY <1>2 DEF TypeOK, LocalInv
  <2>2. Len(hbag[t]) = 0
    BY <2>1
  <2>. QED
    BY <2>1, <2>2
<1>3. ASSUME pc[t] = "push"
      PROVE  /\ todo[t] # <<>> /\ Head(todo[t]) \in Redex
             /\ Len(hbag[t]) < HLEN /\ rput[t] < RLEN
  <2>1. todo[t] \in Seq(Redex) /\ todo[t] # <<>>
    BY <1>3 DEF TypeOK, LocalInv
  <2>2. Head(todo[t]) \in Redex /\ Len(todo[t]) \in Nat \ {0}
    BY <2>1, DropHead
  <2>3. Len(hbag[t]) \in Nat /\ rput[t] \in Nat
    BY LenProperties DEF TypeOK
  <2>4. rput[t] + Len(todo[t]) <= RLEN /\ Len(hbag[t]) + Len(todo[t]) <= HLEN
    BY DEF LocalInv
  <2>5. \A p \in Nat, n \in Nat \ {0}, c \in Nat : p + n <= c => p < c
    OBVIOUS
  <2>6. RLEN \in Nat /\ HLEN \in Nat
    OBVIOUS
  <2>. QED
    BY <2>1, <2>2, <2>3, <2>4, <2>5, <2>6, Zenon
<1>. QED
  BY <1>1, <1>2, <1>3, Zenon

LEMMA CellType ==
  ASSUME TypeOK, NEW t \in Thread, NEW i \in 0 .. RLEN - 1
  PROVE  rbag_buf[t][i] \in Redex \cup {FREE}
<1>1. rbag_buf \in [Thread -> [0 .. RLEN - 1 -> Redex \cup {FREE}]]
  BY DEF TypeOK
<1>. QED
  BY <1>1, Zenon

\* A thief's target is a cell of the buffer.
LEMMA TargetType ==
  ASSUME TypeOK, NEW t \in Thread
  PROVE  Target(t) \in Thread \X (0 .. RLEN - 1)
<1>1. sidx[t] \in Nat
  BY DEF TypeOK
<1>2. Victim(t) \in Thread
  <2>1. TPC \in Nat \ {0} /\ t \in 0 .. TPC - 1
    BY EvaluatorAssumption DEF Thread
  <2>. QED
    BY <2>1 DEF Victim, Thread
<1>3. RLEN \in Nat \ {0}
  BY EvaluatorAssumption
<1>. QED
  BY <1>1, <1>2, <1>3 DEF Target

\* Between the barriers every thread has started and none has returned.
LEMMA LoopStarted ==
  ASSUME PhaseInv, NEW t \in Thread,
         pc[t] \notin Early \cup Late \cup {"wait1"}
  PROVE  Started
BY DEF PhaseInv, Started, Early, Late

LEMMA TypeStep ==
  ASSUME IInv, NEW t \in Thread, Step(t)
  PROVE  TypeOK'
<1> USE EvaluatorAssumption
<1>0. TypeOK /\ LocalInv(t) /\ IdleExact
  BY DEF IInv, EvalInv
<1>1. CASE SetIdle(t)
  <2>1. idle' \in 0 .. TPC
    BY <1>1 DEF SetIdle
  <2>2. tick \in [Thread -> 0 .. TICK - 1] /\ 0 \in 0 .. TICK - 1
    BY <1>0 DEF TypeOK
  <2>3. tick' \in [Thread -> 0 .. TICK - 1]
    BY <2>2, <1>1 DEF SetIdle
  <2>. QED
    BY <1>0, <1>1, <2>1, <2>3 DEF SetIdle, Goto, TypeOK, bagVars, countVars, barVars
<1>2. CASE EnterSync(t)
  BY <1>0, <1>2 DEF EnterSync, Goto, TypeOK, bagVars, loopVars, countVars
<1>3. CASE LeaveSync1(t)
  BY <1>0, <1>3 DEF LeaveSync1, Goto, TypeOK, bagVars, loopVars, countVars
<1>4. CASE LeaveSync2(t)
  BY <1>0, <1>4 DEF LeaveSync2, Goto, TypeOK, bagVars, loopVars, countVars
<1>5. CASE AddItrs(t)
  <2>1. itrs' \in Nat /\ titrs' \in [Thread -> Nat]
    <3>1. itrs \in Nat /\ titrs \in [Thread -> Nat]
      BY <1>0 DEF TypeOK
    <3>. QED
      BY <1>5, <3>1 DEF AddItrs
  <2>. QED
    BY <1>0, <1>5, <2>1 DEF AddItrs, Goto, TypeOK, bagVars, loopVars, barVars
<1>6. CASE Wake(t) \/ GoIdle(t)
  <2>1. tick' \in [Thread -> 0 .. TICK - 1]
    <3>1. (tick[t] + 1) % TICK \in 0 .. TICK - 1
      <4>1. tick[t] + 1 \in Nat
        BY <1>0 DEF TypeOK
      <4>. QED
        BY <4>1, TickType
    <3>. QED
      BY <1>0, <1>6, <3>1 DEF Wake, GoIdle, TypeOK
  <2>2. idle = Cardinality({u \in Thread : ~busy[u]})
    <3>1. PhaseInv /\ IdleExact /\ pc[t] = "loop"
      BY <1>6 DEF IInv, EvalInv, Wake, GoIdle
    <3>2. Started
      BY <3>1, LoopStarted DEF Early, Late
    <3>. QED
      BY <3>1, <3>2 DEF IdleExact
  <2>3. idle' \in 0 .. TPC
    <3>. DEFINE S == {u \in Thread : ~busy[u]}
    <3>1. idle = Cardinality(S) /\ idle \in 0 .. TPC
      BY <1>0, <2>2 DEF TypeOK
    <3>2. \A u \in S : Cardinality(S) > 0
      BY S \in SUBSET Thread, IdleCount
    <3>3. \A u \in Thread \ S : Cardinality(S) < TPC
      BY S \in SUBSET Thread, IdleCount
    <3>4. ~busy[t] => idle > 0
      BY <3>1, <3>2
    <3>5. busy[t] => idle < TPC
      BY <3>1, <3>3
    <3>. HIDE DEF S
    <3>. QED
      BY <1>6, <3>1, <3>4, <3>5 DEF Wake, GoIdle
  <2>. QED
    BY <1>0, <1>6, <2>1, <2>3
       DEF Wake, GoIdle, Goto, TypeOK, bagVars, countVars, barVars
<1>7. CASE PopHigh(t)
  <2>1. hbag[t] \in Seq(High) /\ hbag[t] # <<>> /\ Len(hbag[t]) <= HLEN
    BY <1>0, <1>7 DEF PopHigh, TypeOK
  <2>. DEFINE rest == SubSeq(hbag[t], 1, Len(hbag[t]) - 1)
  <2>2. /\ rest \in Seq(High) /\ Len(rest) = Len(hbag[t]) - 1
        /\ hbag[t][Len(hbag[t])] \in High /\ Len(hbag[t]) \in Nat \ {0}
    BY <2>1, DropLast
  <2>3. \A n \in Nat \ {0} : n <= HLEN => n - 1 <= HLEN
    OBVIOUS
  <2>4. Len(rest) <= HLEN
    BY <2>1, <2>2, <2>3
  <2>5. hbag' = [hbag EXCEPT ![t] = rest]
    BY <1>7 DEF PopHigh
  <2>6. cur' \in [Thread -> Redex \cup {FREE}]
    BY <1>0, <1>7, <2>2 DEF PopHigh, TypeOK
  <2>. HIDE DEF rest
  <2>7. hbag' \in [Thread -> Seq(High)] /\ \A u \in Thread : Len(hbag'[u]) <= HLEN
    BY <1>0, <2>2, <2>4, <2>5 DEF TypeOK
  <2>. QED
    BY <1>0, <1>7, <2>6, <2>7
       DEF PopHigh, Goto, TypeOK, loopVars, countVars, barVars
<1>8. CASE PopLow(t)
  <2>1. /\ rput \in [Thread -> 0 .. RLEN] /\ cur \in [Thread -> Redex \cup {FREE}]
        /\ rbag_buf \in [Thread -> [0 .. RLEN - 1 -> Redex \cup {FREE}]]
    BY <1>0 DEF TypeOK
  <2>2. rput[t] - 1 \in 0 .. RLEN - 1
    BY <1>8, <2>1 DEF PopLow
  <2>3. /\ rbag_buf' = [rbag_buf EXCEPT ![t][rput[t] - 1] = FREE]
        /\ rput' = [rput EXCEPT ![t] = @ - 1]
        /\ cur' = [cur EXCEPT ![t] = rbag_buf[t][rput[t] - 1]]
    BY <1>8 DEF PopLow
  <2>4. rbag_buf' \in [Thread -> [0 .. RLEN - 1 -> Redex \cup {FREE}]]
    BY <2>1, <2>2, <2>3
  <2>5. rput' \in [Thread -> 0 .. RLEN]
    BY <2>1, <2>2, <2>3
  <2>6. cur' \in [Thread -> Redex \cup {FREE}]
    <3>1. rbag_buf[t][rput[t] - 1] \in Redex \cup {FREE}
      BY <1>0, <2>2, CellType
    <3>. QED
      BY <2>1, <2>3, <3>1
  <2>. QED
    BY <1>0, <1>8, <2>4, <2>5, <2>6
       DEF PopLow, Goto, TypeOK, loopVars, countVars, barVars
<1>9. CASE Interact(t)
  <2>1. cur[t] \in Redex
    BY <1>0, <1>9, PushRoom DEF Interact
  <2>2. todo' \in [Thread -> Seq(Redex)] /\ titrs' \in [Thread -> Nat]
        /\ done' \subseteq Redex /\ cur' \in [Thread -> Redex \cup {FREE}]
    <3>1. /\ todo \in [Thread -> Seq(Redex)] /\ titrs \in [Thread -> Nat]
          /\ done \subseteq Redex /\ cur \in [Thread -> Redex \cup {FREE}]
      BY <1>0 DEF TypeOK
    <3>. QED
      BY <1>9, <2>1, <3>1 DEF Interact
  <2>. QED
    BY <1>0, <1>9, <2>2 DEF Interact, Goto, TypeOK, bagVars, loopVars, barVars
<1>10. CASE PushBack(t) \/ PushStolen(t)
  <2>1. /\ rbag_buf' \in [Thread -> [0 .. RLEN - 1 -> Redex \cup {FREE}]]
        /\ rput' \in [Thread -> 0 .. RLEN] /\ hbag' \in [Thread -> Seq(High)]
        /\ \A u \in Thread : Len(hbag'[u]) <= HLEN
    BY <1>0, <1>10, PushRoom, PushEffect DEF PushBack, PushStolen
  <2>2. cur' \in [Thread -> Redex \cup {FREE}]
    BY <1>0, <1>10 DEF PushBack, PushStolen, TypeOK
  <2>. QED
    BY <1>0, <1>10, <2>1, <2>2
       DEF PushBack, PushStolen, Goto, TypeOK, loopVars, countVars, barVars
<1>11. CASE Push(t)
  <2>1. /\ rbag_buf' \in [Thread -> [0 .. RLEN - 1 -> Redex \cup {FREE}]]
        /\ rput' \in [Thread -> 0 .. RLEN] /\ hbag' \in [Thread -> Seq(High)]
        /\ \A u \in Thread : Len(hbag'[u]) <= HLEN
    BY <1>0, <1>11, PushRoom, PushEffect DEF Push
  <2>2. todo' \in [Thread -> Seq(Redex)]
    BY <1>0, <1>11, PushRoom, DropHead DEF Push, TypeOK
  <2>. QED
    BY <1>0, <1>11, <2>1, <2>2
       DEF Push, Goto, TypeOK, loopVars, countVars, barVars
<1>12. CASE Steal(t)
  <2>1. Target(t)[1] \in Thread /\ Target(t)[2] \in 0 .. RLEN - 1
    BY <1>0, TargetType
  <2>2. rbag_buf' \in [Thread -> [0 .. RLEN - 1 -> Redex \cup {FREE}]]
    BY <1>0, <1>12, <2>1 DEF Steal, TypeOK
  <2>3. cur' \in [Thread -> Redex \cup {FREE}]
    <3>0. \A w \in Thread, j \in 0 .. RLEN - 1 :
             rbag_buf[w][j] \in Redex \cup {FREE}
      BY <1>0, CellType
    <3>1. rbag_buf[Target(t)[1]][Target(t)[2]] \in Redex \cup {FREE}
      <4>. DEFINE v == Target(t)[1]
                  i == Target(t)[2]
      <4>1. v \in Thread /\ i \in 0 .. RLEN - 1
        BY <2>1
      <4>. HIDE DEF v, i
      <4>2. rbag_buf[v][i] \in Redex \cup {FREE}
        BY <3>0, <4>1
      <4>. QED
        BY <4>2 DEF v, i
    <3>2. cur' = [cur EXCEPT ![t] = rbag_buf[Target(t)[1]][Target(t)[2]]]
      BY <1>12, Zenon DEF Steal
    <3>. QED
      BY <1>0, <3>1, <3>2 DEF TypeOK
  <2>4. sidx' \in [Thread -> Nat]
    <3>1. PICK got : sidx' = [sidx EXCEPT ![t] = IF got = FREE THEN 0 ELSE sidx[t] + 1]
      BY <1>12, Zenon DEF Steal
    <3>. QED
      BY <1>0, <3>1 DEF TypeOK
  <2>. QED
    BY <1>0, <1>12, <2>2, <2>3, <2>4
       DEF Steal, Goto, TypeOK, loopVars, countVars, barVars
<1>13. CASE Check(t)
  BY <1>0, <1>13 DEF Check, Goto, TypeOK, bagVars, loopVars, countVars, barVars
<1>. QED
  BY <1>1, <1>2, <1>3, <1>4, <1>5, <1>6, <1>7, <1>8, <1>9, <1>10, <1>11, <1>12,
     <1>13 DEF Step

-----------------------------------------------------------------------------
(* What a label says of the thread's own memory.                           *)

\* A step of t leaves alone what LocalInv says of another thread.
LEMMA LocalOther ==
  ASSUME TypeOK, NEW t \in Thread, LocalInv(t), Step(t),
         NEW u \in Thread \ {t}, LocalInv(u)
  PROVE  LocalInv(u)'
<1>1. /\ pc'[u] = pc[u] /\ sidx'[u] = sidx[u] /\ cur'[u] = cur[u]
      /\ todo'[u] = todo[u] /\ busy'[u] = busy[u]
  <2>1. /\ DOMAIN pc = Thread /\ DOMAIN sidx = Thread /\ DOMAIN cur = Thread
        /\ DOMAIN todo = Thread /\ DOMAIN busy = Thread
    BY DEF TypeOK
  <2>. QED
    BY <2>1
       DEF Step, SetIdle, EnterSync, LeaveSync1, LeaveSync2, AddItrs, Wake, PopHigh,
           PopLow, Interact, PushBack, Push, GoIdle, Steal, PushStolen, Check, Goto,
           loopVars
<1>2. rput'[u] = rput[u] /\ hbag'[u] = hbag[u]
  <2>1. CASE PushBack(t) \/ PushStolen(t) \/ Push(t)
    BY <2>1, PushRoom, PushEffect DEF PushBack, PushStolen, Push
  <2>2. CASE PopHigh(t) \/ PopLow(t)
    BY <2>2 DEF PopHigh, PopLow, TypeOK
  <2>3. CASE ~(PushBack(t) \/ PushStolen(t) \/ Push(t) \/ PopHigh(t) \/ PopLow(t))
    BY <2>3 DEF Step, SetIdle, EnterSync, LeaveSync1, LeaveSync2, AddItrs, Wake,
                Interact, GoIdle, Steal, Check, bagVars
  <2>. QED
    BY <2>1, <2>2, <2>3
<1>. QED
  BY <1>1, <1>2, Zenon DEF LocalInv

\* A step that moves a thread between labels of the same kind.
LEMMA LocalStep ==
  ASSUME IInv, NEW t \in Thread, Step(t)
  PROVE  LocalInv(t)'
<1> USE EvaluatorAssumption
<1>0. TypeOK /\ LocalInv(t)
  BY DEF IInv, EvalInv
<1>1. CASE SetIdle(t)
  BY <1>0, <1>1
     DEF SetIdle, Goto, TypeOK, bagVars, LocalInv, Parked
<1>2. CASE EnterSync(t)
  BY <1>0, <1>2
     DEF EnterSync, Goto, TypeOK, bagVars, loopVars, LocalInv, Parked
<1>3. CASE LeaveSync1(t) \/ LeaveSync2(t) \/ AddItrs(t)
  BY <1>0, <1>3 DEF LeaveSync1, LeaveSync2, AddItrs, Goto, TypeOK,
                    bagVars, loopVars, LocalInv, Parked
<1>4. CASE Check(t)
  BY <1>0, <1>4 DEF Check, Goto, TypeOK, bagVars, loopVars, LocalInv, Parked
<1>5. CASE Wake(t)
  <2>1. hbag[t] # <<>> \/ rput[t] > 0
    <3>1. hbag[t] = <<>> => Len(hbag[t]) = 0
      OBVIOUS
    <3>2. rput[t] \in Nat
      BY <1>0 DEF TypeOK
    <3>. QED
      BY <1>5, <3>1, <3>2 DEF Wake, BagLen
  <2>. QED
    BY <1>0, <1>5, <2>1 DEF Wake, Goto, TypeOK, bagVars, LocalInv, Parked
<1>6. CASE GoIdle(t)
  <2>1. hbag[t] = <<>> /\ rput[t] = 0
    <3>1. hbag[t] \in Seq(High) /\ rput[t] \in Nat /\ Len(hbag[t]) \in Nat
      BY <1>0, LenProperties DEF TypeOK
    <3>2. \A p, n \in Nat : p + n = 0 => p = 0 /\ n = 0
      OBVIOUS
    <3>3. rput[t] = 0 /\ Len(hbag[t]) = 0
      BY <1>6, <3>1, <3>2 DEF GoIdle, BagLen
    <3>. QED
      BY <3>1, <3>3, EmptySeq
  <2>. QED
    BY <1>0, <1>6, <2>1 DEF GoIdle, Goto, TypeOK, bagVars, LocalInv, Parked
<1>7. CASE PopHigh(t)
  <2>1. hbag[t] \in Seq(High) /\ hbag[t] # <<>> /\ Len(hbag[t]) <= HLEN
    BY <1>0, <1>7 DEF PopHigh, TypeOK
  <2>. DEFINE rest == SubSeq(hbag[t], 1, Len(hbag[t]) - 1)
  <2>2. /\ Len(rest) = Len(hbag[t]) - 1
        /\ hbag[t][Len(hbag[t])] \in High /\ Len(hbag[t]) \in Nat \ {0}
    BY <2>1, DropLast
  <2>3. \A n \in Nat \ {0} : n <= HLEN => n - 1 < HLEN
    OBVIOUS
  <2>4. Len(rest) < HLEN
    BY <2>1, <2>2, <2>3
  <2>5. hbag'[t] = rest /\ cur'[t] = hbag[t][Len(hbag[t])] /\ pc'[t] = "interact"
    BY <1>0, <1>7 DEF PopHigh, Goto, TypeOK
  <2>6. cur'[t] \in High /\ cur'[t] # FREE
    BY <2>2, <2>5
  <2>7. todo'[t] = <<>> /\ rput'[t] = rput[t]
    BY <1>0, <1>7 DEF PopHigh, TypeOK, LocalInv
  <2>8. Len(hbag'[t]) < HLEN /\ Len(hbag'[t]) \in Nat
    BY <2>2, <2>4, <2>5
  <2>9. \A n \in Nat : n < HLEN => n + 0 <= HLEN
    OBVIOUS
  <2>10. rput'[t] + Len(todo'[t]) <= RLEN /\ Len(hbag'[t]) + Len(todo'[t]) <= HLEN
    <3>1. Len(todo'[t]) = 0
      BY <2>7
    <3>2. rput'[t] + 0 <= RLEN
      BY <1>0, <2>7 DEF TypeOK
    <3>. QED
      BY <2>8, <2>9, <3>1, <3>2, Zenon
  <2>. HIDE DEF rest
  <2>. QED
    BY <2>5, <2>6, <2>7, <2>8, <2>10 DEF LocalInv, Parked
<1>8. CASE PopLow(t)
  <2>1. rput[t] - 1 \in 0 .. RLEN - 1 /\ rput'[t] = rput[t] - 1
    <3>1. rput \in [Thread -> 0 .. RLEN]
      BY <1>0 DEF TypeOK
    <3>. QED
      BY <1>8, <3>1 DEF PopLow
  <2>. DEFINE got == rbag_buf[t][rput[t] - 1]
  <2>2. /\ cur'[t] = got /\ pc'[t] = (IF got = FREE THEN "loop" ELSE "interact")
        /\ hbag'[t] = <<>> /\ todo'[t] = <<>>
    BY <1>0, <1>8 DEF PopLow, Goto, TypeOK, LocalInv
  <2>3. got = FREE \/ got \notin High
    <3>1. CellInv(t, rput[t] - 1)
      BY <2>1 DEF IInv, EvalInv
    <3>2. ~Unclaimed
      BY <1>8 DEF PopLow, Unclaimed
    <3>. QED
      BY <3>1, <3>2 DEF CellInv
  <2>4. Len(<<>>) = 0
    OBVIOUS
  <2>. HIDE DEF got
  <2>. QED
    BY <2>1, <2>2, <2>3, <2>4 DEF LocalInv, Parked
<1>9. CASE PushBack(t) \/ PushStolen(t)
  <2>1. rput' \in [Thread -> 0 .. RLEN] /\ Len(hbag'[t]) <= HLEN
        /\ Len(hbag'[t]) \in Nat
    BY <1>0, <1>9, PushRoom, PushEffect, LenProperties DEF PushBack, PushStolen
  <2>2. pc'[t] = "loop" /\ cur'[t] = FREE /\ todo'[t] = <<>> /\ Len(<<>>) = 0
    BY <1>0, <1>9 DEF PushBack, PushStolen, Goto, TypeOK, LocalInv
  <2>3. \A n, m \in Nat : n <= m => n + 0 <= m
    OBVIOUS
  <2>4. rput'[t] + Len(todo'[t]) <= RLEN /\ Len(hbag'[t]) + Len(todo'[t]) <= HLEN
    BY <2>1, <2>2, <2>3
  <2>. QED
    BY <2>2, <2>4 DEF LocalInv, Parked
<1>10. CASE Interact(t)
  <2>. DEFINE r == cur[t]
  <2>1. r \in Redex /\ todo'[t] = Spawn[r] /\ cur'[t] = FREE
        /\ pc'[t] = (IF Spawn[r] = <<>> THEN "loop" ELSE "push")
    BY <1>0, <1>10, PushRoom DEF Interact, Goto, TypeOK
  <2>2. /\ rput[t] \in Nat /\ Len(hbag[t]) \in Nat /\ Need[r] \in Nat
        /\ Spawn[r] \in Seq(Redex) /\ Len(Spawn[r]) \in Nat
        /\ Len(Spawn[r]) <= Need[r]
    BY <1>0, <2>1, LenProperties DEF TypeOK
  <2>3. RLEN - rput[t] >= Need[r] /\ HLEN - Len(hbag[t]) >= Need[r]
    BY <1>10 DEF Interact, Room
  <2>4. \A c, p, n, l \in Nat : c - p >= n /\ l <= n => p + l <= c
    OBVIOUS
  <2>5. RLEN \in Nat /\ HLEN \in Nat
    OBVIOUS
  <2>6. rput[t] + Len(Spawn[r]) <= RLEN /\ Len(hbag[t]) + Len(Spawn[r]) <= HLEN
    BY <2>2, <2>3, <2>4, <2>5, Zenon
  <2>7. rput' = rput /\ hbag' = hbag
    BY <1>10 DEF Interact, bagVars
  <2>. HIDE DEF r
  <2>. QED
    BY <2>1, <2>6, <2>7 DEF LocalInv, Parked
<1>11. CASE Push(t)
  <2>1. todo[t] \in Seq(Redex) /\ todo[t] # <<>> /\ Head(todo[t]) \in Redex
        /\ PushTo(t, Head(todo[t])) /\ Len(hbag[t]) < HLEN /\ rput[t] < RLEN
    BY <1>0, <1>11, PushRoom DEF Push, TypeOK
  <2>2. /\ rput'[t] \in {rput[t], rput[t] + 1}
        /\ Len(hbag'[t]) \in {Len(hbag[t]), Len(hbag[t]) + 1}
    BY <1>0, <2>1, PushEffect
  <2>3. /\ todo'[t] = Tail(todo[t]) /\ cur'[t] = cur[t]
        /\ pc'[t] = (IF Tail(todo[t]) = <<>> THEN "loop" ELSE "push")
        /\ cur[t] = FREE
    BY <1>0, <1>11 DEF Push, Goto, TypeOK, LocalInv
  <2>4. Len(todo'[t]) = Len(todo[t]) - 1 /\ Len(todo[t]) \in Nat \ {0}
    BY <2>1, <2>3, DropHead
  <2>5. \A p, q \in Nat, n \in Nat \ {0}, c \in Nat :
           q \in {p, p + 1} /\ p + n <= c => q + (n - 1) <= c
    OBVIOUS
  <2>6. /\ rput[t] \in Nat /\ rput'[t] \in Nat
        /\ Len(hbag[t]) \in Nat /\ Len(hbag'[t]) \in Nat
    <3>1. rput[t] \in Nat /\ hbag[t] \in Seq(High)
      BY <1>0 DEF TypeOK
    <3>2. Len(hbag[t]) \in Nat
      BY <3>1, LenProperties
    <3>. QED
      BY <2>2, <3>1, <3>2
  <2>7. rput[t] + Len(todo[t]) <= RLEN /\ Len(hbag[t]) + Len(todo[t]) <= HLEN
    BY <1>0 DEF LocalInv
  <2>8. RLEN \in Nat /\ HLEN \in Nat
    OBVIOUS
  <2>9. rput'[t] + (Len(todo[t]) - 1) <= RLEN
        /\ Len(hbag'[t]) + (Len(todo[t]) - 1) <= HLEN
    BY <2>2, <2>4, <2>5, <2>6, <2>7, <2>8, Zenon
  <2>10. rput'[t] + Len(todo'[t]) <= RLEN /\ Len(hbag'[t]) + Len(todo'[t]) <= HLEN
    BY <2>4, <2>9, Zenon
  <2>. QED
    BY <2>3, <2>10 DEF LocalInv, Parked
<1>12. CASE Steal(t)
  <2>1. /\ cur'[t] = FREE => pc'[t] \in {"check", "loop"} /\ sidx'[t] = 0
        /\ cur'[t] # FREE => pc'[t] = "stolen"
    <3>1. PICK got : /\ cur' = [cur EXCEPT ![t] = got]
                     /\ sidx' = [sidx EXCEPT ![t] = IF got = FREE THEN 0 ELSE @ + 1]
                     /\ Goto(t, CASE got # FREE -> "stolen"
                                  [] got = FREE /\ tick[t] = 0 -> "check"
                                  [] OTHER -> "loop")
      BY <1>12, Zenon DEF Steal
    <3>. QED
      BY <1>0, <3>1 DEF Goto, TypeOK
  <2>2. /\ rput' = rput /\ hbag' = hbag /\ todo' = todo /\ rput[t] = 0
        /\ hbag[t] = <<>>
    BY <1>0, <1>12 DEF Steal, LocalInv
  <2>3. /\ todo[t] = <<>> /\ rput[t] + Len(todo[t]) <= RLEN
        /\ Len(hbag[t]) + Len(todo[t]) <= HLEN
    BY <1>0, <1>12 DEF Steal, LocalInv
  <2>. QED
    BY <2>1, <2>2, <2>3, Zenon DEF LocalInv, Parked
<1>. QED
  BY <1>1, <1>2, <1>3, <1>4, <1>5, <1>6, <1>7, <1>8, <1>9, <1>10,
     <1>11, <1>12 DEF Step

-----------------------------------------------------------------------------
(* The cells of the buffer.                                                *)

\* While the booted redex is unclaimed, the only used cell is the first.
LEMMA UnclaimedCells ==
  ASSUME TypeOK, Unclaimed, NEW u \in Thread, NEW i \in 0 .. RLEN - 1, CellInv(u, i)
  PROVE  rbag_buf[u][i] = FREE \/ (u = 0 /\ i = 0)
BY DEF Unclaimed, CellInv

\* The thread First finds it at its first theft.
LEMMA UnclaimedTarget == Unclaimed => Target(First) = <<0, 0>>
BY EvaluatorAssumption DEF Unclaimed, Target, Victim, First

LEMMA CellStep ==
  ASSUME IInv, NEW t \in Thread, Step(t)
  PROVE  \A u \in Thread, i \in 0 .. RLEN - 1 : CellInv(u, i)'
<1> USE EvaluatorAssumption
<1>0. /\ TypeOK /\ LocalInv(t)
      /\ \A u \in Thread, i \in 0 .. RLEN - 1 : CellInv(u, i)
  BY DEF IInv, EvalInv
<1>1. CASE \/ SetIdle(t) \/ EnterSync(t) \/ LeaveSync1(t) \/ LeaveSync2(t)
           \/ AddItrs(t) \/ GoIdle(t) \/ Check(t)
  <2>1. rbag_buf' = rbag_buf /\ rput' = rput /\ hbag' = hbag /\ sidx' = sidx
    BY <1>1 DEF SetIdle, EnterSync, LeaveSync1, LeaveSync2, AddItrs, GoIdle, Check,
                bagVars
  <2>2. /\ \A u \in Thread \ {t} : pc'[u] = pc[u]
        /\ pc'[t] \notin {"pop", "interact", "push", "stolen"}
        /\ pc[t] \in {"start", "sync1", "wait1", "loop", "steal"}
              => pc'[t] \in {"start", "sync1", "wait1", "loop", "steal"}
    <3>1. DOMAIN pc = Thread
      BY <1>0 DEF TypeOK
    <3>. QED
      BY <1>1, <3>1 DEF SetIdle, EnterSync, LeaveSync1, LeaveSync2, AddItrs, GoIdle,
                        Check, Goto
  <2>3. First \in Thread
    BY DEF First, Thread
  <2>4. Unclaimed => Unclaimed'
    BY <2>1, <2>2, <2>3 DEF Unclaimed
  <2>. QED
    BY <1>0, <2>1, <2>4 DEF CellInv
<1>2. CASE Wake(t) \/ Interact(t)
  <2>1. ~Unclaimed
    <3>1. CASE Wake(t)
      <4>1. rput[t] # 0 \/ hbag[t] # <<>>
        BY <3>1 DEF Wake, BagLen
      <4>. QED
        BY <4>1 DEF Unclaimed
    <3>2. CASE Interact(t)
      BY <3>2 DEF Interact, Unclaimed
    <3>. QED
      BY <1>2, <3>1, <3>2
  <2>2. rbag_buf' = rbag_buf /\ rput' = rput
    BY <1>2 DEF Wake, Interact, bagVars
  <2>. QED
    BY <1>0, <2>1, <2>2 DEF CellInv
<1>3. CASE PopHigh(t) \/ PopLow(t)
  <2>1. ~Unclaimed
    BY <1>3 DEF PopHigh, PopLow, Unclaimed
  <2>2. ASSUME NEW u \in Thread, NEW i \in 0 .. RLEN - 1
        PROVE  CellInv(u, i)'
    <3>1. CellInv(u, i)
      BY <1>0
    <3>2. CASE PopHigh(t)
      BY <2>1, <3>1, <3>2 DEF PopHigh, CellInv
    <3>3. CASE PopLow(t)
      <4>1. /\ rbag_buf \in [Thread -> [0 .. RLEN - 1 -> Redex \cup {FREE}]]
            /\ rput \in [Thread -> 0 .. RLEN]
        BY <1>0 DEF TypeOK
      <4>2. /\ rbag_buf' = [rbag_buf EXCEPT ![t][rput[t] - 1] = FREE]
            /\ rput' = [rput EXCEPT ![t] = @ - 1]
        BY <3>3 DEF PopLow
      <4>3. /\ rbag_buf'[u][i] = IF u = t /\ i = rput[t] - 1 THEN FREE
                                  ELSE rbag_buf[u][i]
            /\ rput'[u] = IF u = t THEN rput[t] - 1 ELSE rput[u]
        BY <4>1, <4>2
      <4>4. rbag_buf[u][i] = FREE \/ (i < rput[u] /\ rbag_buf[u][i] \notin High)
        BY <2>1, <3>1 DEF CellInv
      <4>5. rbag_buf'[u][i] = FREE \/ (i < rput'[u] /\ rbag_buf'[u][i] \notin High)
        <5>1. rput[t] \in Nat /\ i \in Nat
          BY <4>1
        <5>2. i < rput[t] /\ i # rput[t] - 1 => i < rput[t] - 1
          BY <5>1
        <5>3. CASE u = t
          BY <4>3, <4>4, <5>2, <5>3, Zenon
        <5>4. CASE u # t
          BY <4>3, <4>4, <5>4, Zenon
        <5>. QED
          BY <5>3, <5>4
      <4>. QED
        BY <4>5 DEF CellInv
    <3>. QED
      BY <1>3, <3>2, <3>3
  <2>. QED
    BY <2>2
<1>4. CASE PushBack(t) \/ PushStolen(t) \/ Push(t)
  <2>1. ~Unclaimed
    BY <1>4 DEF PushBack, PushStolen, Push, Unclaimed
  <2>2. PICK r \in Redex :
           /\ PushTo(t, r)
           /\ IF r \in High THEN Len(hbag[t]) < HLEN ELSE rput[t] < RLEN
    BY <1>0, <1>4, PushRoom DEF PushBack, PushStolen, Push
  <2>3. ASSUME NEW u \in Thread, NEW i \in 0 .. RLEN - 1
        PROVE  CellInv(u, i)'
    <3>1. \/ rbag_buf'[u][i] = rbag_buf[u][i]
          \/ i < rput'[u] /\ rbag_buf'[u][i] \notin High
      BY <1>0, <2>2, PushEffect
    <3>2. rput'[u] \in {rput[u], rput[u] + 1} /\ rput[u] \in Nat
      <4>1. rput'[t] \in {rput[t], rput[t] + 1}
            /\ \A w \in Thread \ {t} : rput'[w] = rput[w]
        BY <1>0, <2>2, PushEffect
      <4>2. rput[u] \in Nat
        BY <1>0 DEF TypeOK
      <4>3. u = t \/ u \in Thread \ {t}
        OBVIOUS
      <4>. QED
        BY <4>1, <4>2, <4>3, Zenon
    <3>3. rbag_buf[u][i] = FREE \/ (i < rput[u] /\ rbag_buf[u][i] \notin High)
      BY <1>0, <2>1 DEF CellInv
    <3>. QED
      BY <3>1, <3>2, <3>3 DEF CellInv
  <2>. QED
    BY <2>3
<1>5. CASE Steal(t)
  <2>1. PICK v \in Thread, k \in 0 .. RLEN - 1 : Target(t) = <<v, k>>
    BY <1>0, TargetType
  <2>2. Target(t)[1] = v /\ Target(t)[2] = k
    BY <2>1
  <2>3. /\ rbag_buf' = [rbag_buf EXCEPT ![v][k] = FREE]
        /\ rput' = rput /\ hbag' = hbag
        /\ pc' = [pc EXCEPT ![t] =
                    CASE rbag_buf[v][k] # FREE -> "stolen"
                      [] rbag_buf[v][k] = FREE /\ tick[t] = 0 -> "check"
                      [] OTHER -> "loop"]
        /\ sidx' = [sidx EXCEPT ![t] = IF rbag_buf[v][k] = FREE THEN 0 ELSE @ + 1]
    BY <1>5, <2>2 DEF Steal, Goto
  <2>4. rbag_buf \in [Thread -> [0 .. RLEN - 1 -> Redex \cup {FREE}]]
    BY <1>0 DEF TypeOK
  <2>5. \A u \in Thread, i \in 0 .. RLEN - 1 :
           rbag_buf'[u][i] = IF u = v /\ i = k THEN FREE ELSE rbag_buf[u][i]
    BY <2>3, <2>4
  <2>6. CASE ~Unclaimed
    BY <1>0, <2>3, <2>5, <2>6 DEF CellInv
  <2>7. CASE Unclaimed /\ v = 0 /\ k = 0
    <3>1. ASSUME NEW u \in Thread, NEW i \in 0 .. RLEN - 1
          PROVE  rbag_buf'[u][i] = FREE
      <4>1. rbag_buf[u][i] = FREE \/ (u = 0 /\ i = 0)
        BY <1>0, <2>7, UnclaimedCells
      <4>. QED
        BY <2>5, <2>7, <4>1
    <3>. QED
      BY <3>1 DEF CellInv
  <2>8. CASE Unclaimed /\ ~(v = 0 /\ k = 0)
    <3>1. t # First
      BY <2>1, <2>8, UnclaimedTarget
    <3>2. rbag_buf[v][k] = FREE
      BY <1>0, <2>8, UnclaimedCells
    <3>3. /\ pc'[t] \in {"check", "loop"} /\ \A u \in Thread \ {t} : pc'[u] = pc[u]
          /\ \A u \in Thread \ {t} : sidx'[u] = sidx[u]
      BY <1>0, <2>3, <3>2 DEF TypeOK
    <3>4. First \in Thread
      BY DEF First, Thread
    <3>5. Unclaimed'
      BY <2>3, <2>8, <3>1, <3>3, <3>4 DEF Unclaimed, First
    <3>6. \A u \in Thread, i \in 0 .. RLEN - 1 :
             rbag_buf'[u][i] = FREE \/ (u = 0 /\ i = 0)
      BY <1>0, <2>5, <2>8, UnclaimedCells
    <3>. QED
      BY <3>5, <3>6 DEF CellInv
  <2>. QED
    BY <2>6, <2>7, <2>8
<1>. QED
  BY <1>1, <1>2, <1>3, <1>4, <1>5 DEF Step

-----------------------------------------------------------------------------
(* The two barriers.                                                       *)

\* The labels of an iteration of the loop.
Iterating == {"loop", "pop", "interact", "push", "steal", "stolen", "check"}

\* How many barriers a thread has met, label by label.
LEMMA BarrierCount ==
  ASSUME NEW t \in Thread
  PROVE  BarrierAt(t) <=>
           /\ pc[t] \in Early =>
                entered[t] + 2 = 2 * boots /\ left[t] + 2 = 2 * boots
           /\ pc[t] = "wait1" =>
                entered[t] + 1 = 2 * boots /\ left[t] + 2 = 2 * boots
           /\ pc[t] = "wait2" =>
                entered[t] + 0 = 2 * boots /\ left[t] + 1 = 2 * boots
           /\ pc[t] \in {"add", "out"} =>
                entered[t] + 0 = 2 * boots /\ left[t] + 0 = 2 * boots
           /\ pc[t] \notin Early \cup Late \cup {"wait1"} =>
                entered[t] + 1 = 2 * boots /\ left[t] + 1 = 2 * boots
BY DEF BarrierAt, Early, Late

\* A step of the loop body ends in the loop or at the second barrier.
LEMMA IterationStep ==
  ASSUME TypeOK, NEW t \in Thread,
         \/ Wake(t) \/ PopHigh(t) \/ PopLow(t) \/ Interact(t) \/ PushBack(t)
         \/ Push(t) \/ GoIdle(t) \/ Steal(t) \/ PushStolen(t) \/ Check(t)
  PROVE  /\ pc[t] \in Iterating
         /\ \E l \in Iterating \cup {"sync2"} : pc' = [pc EXCEPT ![t] = l]
         /\ entered' = entered /\ left' = left /\ boots' = boots
<1>1. CASE Wake(t) \/ PopHigh(t) \/ PopLow(t) \/ Interact(t) \/ PushBack(t)
  BY <1>1 DEF Wake, PopHigh, PopLow, Interact, PushBack, Goto, barVars, Iterating
<1>2. CASE Push(t) \/ GoIdle(t) \/ PushStolen(t) \/ Check(t)
  BY <1>2 DEF Push, GoIdle, PushStolen, Check, Goto, barVars, Iterating
<1>3. CASE Steal(t)
  <2>1. PICK got : pc' = [pc EXCEPT ![t] =
                            CASE got # FREE -> "stolen"
                              [] got = FREE /\ tick[t] = 0 -> "check"
                              [] OTHER -> "loop"]
    BY <1>3, Zenon DEF Steal, Goto
  <2>2. pc[t] = "steal" /\ entered' = entered /\ left' = left /\ boots' = boots
    BY <1>3 DEF Steal, barVars
  <2>. QED
    BY <2>1, <2>2 DEF Iterating
<1>. QED
  BY <1>1, <1>2, <1>3

LEMMA PhaseStep ==
  ASSUME IInv, NEW t \in Thread, Step(t)
  PROVE  PhaseInv'
<1>0. /\ PhaseInv /\ boots \in Nat /\ DOMAIN pc = Thread
      /\ pc = [u \in Thread |-> pc[u]]
      /\ entered \in [Thread -> Nat] /\ left \in [Thread -> Nat]
      /\ \A u \in Thread : BarrierAt(u)
  <2>1. boots \in Nat
    BY LenProperties, EvaluatorAssumption DEF IInv, TypeOK
  <2>. QED
    BY <2>1 DEF IInv, EvalInv, TypeOK, PhaseInv
<1>1. CASE \/ Wake(t) \/ PopHigh(t) \/ PopLow(t) \/ Interact(t) \/ PushBack(t)
           \/ Push(t) \/ GoIdle(t) \/ Steal(t) \/ PushStolen(t) \/ Check(t)
  <2>1. /\ pc[t] \in Iterating
        /\ entered' = entered /\ left' = left /\ boots' = boots
    BY <1>1, IterationStep DEF IInv
  <2>2. PICK l \in Iterating \cup {"sync2"} : pc' = [pc EXCEPT ![t] = l]
    BY <1>1, IterationStep DEF IInv
  <2>3. \A u \in Thread : BarrierAt(u)'
    BY <1>0, <2>1, <2>2 DEF BarrierAt, Iterating, Early, Late
  <2>. QED
    BY <1>0, <2>1, <2>2, <2>3 DEF PhaseInv, Iterating, Early, Late
<1>2. CASE SetIdle(t) \/ AddItrs(t)
  <2>1. /\ entered' = entered /\ left' = left /\ boots' = boots
        /\ \/ pc[t] = "start" /\ pc' = [pc EXCEPT ![t] = "sync1"]
           \/ pc[t] = "add" /\ pc' = [pc EXCEPT ![t] = "out"]
    BY <1>2 DEF SetIdle, AddItrs, Goto, barVars
  <2>2. \A u \in Thread : BarrierAt(u)'
    BY <1>0, <2>1 DEF BarrierAt, Early, Late
  <2>. QED
    BY <1>0, <2>1, <2>2 DEF PhaseInv, Early, Late
<1>3. CASE EnterSync(t)
  <2>1. /\ left' = left /\ boots' = boots
        /\ entered' = [entered EXCEPT ![t] = @ + 1]
        /\ \/ pc[t] = "sync1" /\ pc' = [pc EXCEPT ![t] = "wait1"]
           \/ pc[t] = "sync2" /\ pc' = [pc EXCEPT ![t] = "wait2"]
    BY <1>3 DEF EnterSync, Goto, B!Enter
  <2>2. entered' \in [Thread -> Nat]
    BY <1>0, <2>1
  <2>3. \A u \in Thread : BarrierAt(u)'
    <3>1. BarrierAt(t)'
      BY <1>0, <2>1 DEF BarrierAt, Early
    <3>2. \A u \in Thread \ {t} : BarrierAt(u)'
      BY <1>0, <2>1 DEF BarrierAt
    <3>. QED
      BY <3>1, <3>2
  <2>. QED
    BY <1>0, <2>1, <2>2, <2>3 DEF PhaseInv, Early, Late
<1>4. CASE LeaveSync1(t) \/ LeaveSync2(t)
  <2>1. /\ entered' = entered /\ boots' = boots
        /\ left' = [left EXCEPT ![t] = @ + 1]
        /\ \A u \in Thread : entered[u] >= entered[t]
        /\ \/ pc[t] = "wait1" /\ pc' = [pc EXCEPT ![t] = "loop"]
           \/ pc[t] = "wait2" /\ pc' = [pc EXCEPT ![t] = "add"]
    BY <1>4 DEF LeaveSync1, LeaveSync2, Goto, B!Leave
  <2>2. left' \in [Thread -> Nat]
    BY <1>0, <2>1
  <2>3. \A u \in Thread : BarrierAt(u)'
    <3>1. BarrierAt(t)'
      BY <1>0, <2>1 DEF BarrierAt, Early
    <3>2. \A u \in Thread \ {t} : BarrierAt(u)'
      BY <1>0, <2>1 DEF BarrierAt
    <3>. QED
      BY <3>1, <3>2
  <2>4. \A u \in Thread : pc[u] \notin Early
    <3>1. BarrierAt(t) /\ entered[t] \in Nat
      BY <1>0
    <3>2. entered[t] + 1 >= 2 * boots
      BY <1>0, <2>1, <3>1, BarrierCount DEF Early, Late
    <3>3. ASSUME NEW u \in Thread, pc[u] \in Early
          PROVE  FALSE
      <4>1. BarrierAt(u) /\ entered[u] \in Nat /\ entered[u] >= entered[t]
        BY <1>0, <2>1
      <4>2. entered[u] + 2 = 2 * boots
        BY <3>3, <4>1, BarrierCount
      <4>. QED
        BY <1>0, <3>1, <3>2, <4>1, <4>2
    <3>. QED
      BY <3>3
  <2>5. ASSUME pc[t] = "wait2", NEW u \in Thread
        PROVE  pc[u] \in Late
    <3>1. BarrierAt(t) /\ entered[t] \in Nat /\ BarrierAt(u) /\ entered[u] \in Nat
          /\ entered[u] >= entered[t]
      BY <1>0, <2>1
    <3>2. entered[t] + 0 = 2 * boots
      BY <2>5, <3>1, BarrierCount
    <3>3. pc[u] \notin Late => entered[u] + 1 = 2 * boots \/ entered[u] + 2 = 2 * boots
      BY <3>1, BarrierCount DEF Early, Late
    <3>. QED
      BY <1>0, <3>1, <3>2, <3>3
  <2>6. \A u \in Thread : pc'[u] \notin Early
    BY <1>0, <2>1, <2>4 DEF Early
  <2>7. (\E u \in Thread : pc'[u] \in {"add", "out"}) => \A u \in Thread : pc'[u] \in Late
    BY <1>0, <2>1, <2>5 DEF PhaseInv, Late
  <2>. QED
    BY <1>0, <2>1, <2>2, <2>3, <2>6, <2>7 DEF PhaseInv
<1>. QED
  BY <1>1, <1>2, <1>3, <1>4 DEF Step

-----------------------------------------------------------------------------
(* The idle counter.                                                       *)

LEMMA IdleStep ==
  ASSUME IInv, NEW t \in Thread, Step(t)
  PROVE  IdleExact'
<1>0. /\ TypeOK /\ PhaseInv /\ IdleExact
      /\ \A u \in Thread : LocalInv(u)
      /\ busy \in [Thread -> BOOLEAN]
  BY DEF IInv, EvalInv, TypeOK
<1> SUFFICES ASSUME Started'
             PROVE  idle' = Cardinality({u \in Thread : ~busy'[u]})
  BY DEF IdleExact
<1>1. CASE SetIdle(t)
  <2>1. /\ pc[t] = "start" /\ idle' = TPC - 1
        /\ busy' = [busy EXCEPT ![t] = (t = 0)]
        /\ pc' = [pc EXCEPT ![t] = "sync1"]
    BY <1>1 DEF SetIdle, Goto
  <2>2. ASSUME NEW u \in Thread
        PROVE  busy'[u] <=> u = 0
    <3>1. CASE u = t
      BY <1>0, <2>1, <3>1
    <3>2. CASE u # t
      <4>1. pc[u] \in {"sync1", "wait1"}
        <5>1. pc[u] \in Early \cup {"wait1"}
          BY <1>0, <2>1 DEF PhaseInv, Early
        <5>2. pc'[u] # "start" /\ pc'[u] = pc[u]
          BY <1>0, <2>1, <3>2 DEF Started, TypeOK
        <5>. QED
          BY <5>1, <5>2 DEF Early
      <4>2. LocalInv(u)
        BY <1>0
      <4>. QED
        BY <1>0, <2>1, <3>2, <4>1, <4>2 DEF LocalInv
    <3>. QED
      BY <3>1, <3>2
  <2>3. {u \in Thread : ~busy'[u]} = Thread \ {0}
    BY <2>2
  <2>. QED
    BY <2>1, <2>3, StartIdle
<1>2. CASE Wake(t) \/ GoIdle(t)
  <2>. DEFINE S == {u \in Thread : ~busy[u]}
              T == {u \in Thread : ~busy'[u]}
  <2>1. idle = Cardinality(S)
    <3>1. pc[t] = "loop"
      BY <1>2 DEF Wake, GoIdle
    <3>2. Started
      BY <1>0, <3>1, LoopStarted DEF Early, Late
    <3>. QED
      BY <1>0, <3>2 DEF IdleExact
  <2>2. S \in SUBSET Thread
    OBVIOUS
  <2>3. CASE Wake(t)
    <3>1. idle' = (IF busy[t] THEN idle ELSE idle - 1)
          /\ busy' = [busy EXCEPT ![t] = TRUE]
      BY <2>3 DEF Wake
    <3>2. T = S \ {t}
      BY <1>0, <3>1
    <3>3. CASE busy[t]
      BY <2>1, <3>1, <3>2, <3>3, S \ {t} = S
    <3>4. CASE ~busy[t]
      <4>1. t \in S
        BY <3>4
      <4>2. Cardinality(S \ {t}) = Cardinality(S) - 1
        BY <2>2, <4>1, IdleCount
      <4>. QED
        BY <2>1, <3>1, <3>2, <3>4, <4>2, Zenon
    <3>. QED
      BY <3>3, <3>4
  <2>4. CASE GoIdle(t)
    <3>1. idle' = (IF busy[t] THEN idle + 1 ELSE idle)
          /\ busy' = [busy EXCEPT ![t] = FALSE]
      BY <2>4 DEF GoIdle
    <3>2. T = S \cup {t}
      BY <1>0, <3>1
    <3>3. CASE ~busy[t]
      BY <2>1, <3>1, <3>2, <3>3, S \cup {t} = S
    <3>4. CASE busy[t]
      <4>1. t \in Thread \ S
        BY <3>4
      <4>2. Cardinality(S \cup {t}) = Cardinality(S) + 1
        BY <2>2, <4>1, IdleCount
      <4>. QED
        BY <2>1, <3>1, <3>2, <3>4, <4>2, Zenon
    <3>. QED
      BY <3>3, <3>4
  <2>. QED
    BY <1>2, <2>3, <2>4
<1>3. CASE \/ EnterSync(t) \/ LeaveSync1(t) \/ LeaveSync2(t) \/ AddItrs(t)
           \/ PopHigh(t) \/ PopLow(t) \/ Interact(t) \/ PushBack(t) \/ Push(t)
           \/ Steal(t) \/ PushStolen(t) \/ Check(t)
  <2>1. idle' = idle /\ busy' = busy /\ pc[t] \notin {"out", "start"}
    BY <1>3 DEF EnterSync, LeaveSync1, LeaveSync2, AddItrs, PopHigh, PopLow,
                Interact, PushBack, Push, Steal, PushStolen, Check, loopVars
  <2>2. \A u \in Thread \ {t} : pc'[u] = pc[u]
    BY <1>0, <1>3
       DEF EnterSync, LeaveSync1, LeaveSync2, AddItrs, PopHigh, PopLow, Interact,
           PushBack, Push, Steal, PushStolen, Check, Goto, TypeOK
  <2>3. Started
    BY <2>1, <2>2 DEF Started
  <2>. QED
    BY <1>0, <2>1, <2>3 DEF IdleExact
<1>. QED
  BY <1>1, <1>2, <1>3 DEF Step

-----------------------------------------------------------------------------
(* The theorems.                                                           *)

\* When normalize has returned, nothing is left.
LEMMA ReturnedEmpty == IInv => NothingLeft
<1> SUFFICES ASSUME IInv, Returned, NEW t \in Thread
             PROVE  /\ rput[t] = 0 /\ hbag[t] = <<>> /\ cur[t] = FREE
                    /\ todo[t] = <<>>
                    /\ \A i \in 0 .. RLEN - 1 : rbag_buf[t][i] = FREE
  BY DEF NothingLeft
<1>1. LocalInv(t) /\ pc[t] = "out"
  BY DEF IInv, EvalInv, Returned
<1>2. rput[t] = 0 /\ hbag[t] = <<>> /\ cur[t] = FREE /\ todo[t] = <<>>
  BY <1>1 DEF LocalInv, Parked
<1>3. ~Unclaimed
  BY EvaluatorAssumption DEF Returned, Unclaimed, First, Thread
<1>4. \A i \in 0 .. RLEN - 1 : rbag_buf[t][i] = FREE
  BY <1>2, <1>3, EvaluatorAssumption DEF IInv, EvalInv, CellInv
<1>. QED
  BY <1>2, <1>4

\* boot_redex and the spawning of the threads.
LEMMA BootStep == IInv /\ Boot => IInv'
<1> SUFFICES ASSUME IInv, Boot PROVE IInv'
  OBVIOUS
<1> USE EvaluatorAssumption
<1>0. /\ TypeOK /\ PhaseInv /\ NothingLeft /\ Returned /\ 0 \in Thread
      /\ \A t \in Thread : LocalInv(t)
  BY ReturnedEmpty DEF IInv, EvalInv, Boot, Returned, Thread
<1>1. /\ Boots[boots + 1] \in High /\ boots + 1 \in 0 .. Len(Boots)
  <2>1. Len(Boots) \in Nat
    BY LenProperties
  <2>2. boots + 1 \in 1 .. Len(Boots)
    BY <1>0, <2>1 DEF Boot, TypeOK
  <2>. QED
    BY <2>1, <2>2, ElementOfSeq
<1>2. TypeOK'
  <2>1. rbag_buf' \in [Thread -> [0 .. RLEN - 1 -> Redex \cup {FREE}]]
    BY <1>0, <1>1 DEF Boot, TypeOK
  <2>. QED
    BY <1>0, <1>1, <2>1 DEF Boot, TypeOK, loopVars, countVars
<1>3. \A t \in Thread : LocalInv(t)'
  BY <1>0 DEF Boot, LocalInv, Returned, Parked, loopVars
<1>4. \A t \in Thread, i \in 0 .. RLEN - 1 : CellInv(t, i)'
  <2>1. Unclaimed'
    <3>1. First \in Thread
      BY DEF First, Thread
    <3>2. \A t \in Thread : sidx[t] = 0 /\ rput[t] = 0 /\ hbag[t] = <<>>
      BY <1>0 DEF NothingLeft, Returned, LocalInv, Parked
    <3>. QED
      BY <3>1, <3>2 DEF Boot, Unclaimed
  <2>2. \A t \in Thread, i \in 0 .. RLEN - 1 :
           rbag_buf'[t][i] = FREE \/ (t = 0 /\ i = 0)
    <3>1. rbag_buf \in [Thread -> [0 .. RLEN - 1 -> Redex \cup {FREE}]]
      BY <1>0 DEF TypeOK
    <3>2. \A t \in Thread, i \in 0 .. RLEN - 1 : rbag_buf[t][i] = FREE
      BY <1>0 DEF NothingLeft
    <3>3. rbag_buf' = [rbag_buf EXCEPT ![0][0] = Boots[boots + 1]]
      BY DEF Boot
    <3>. QED
      BY <3>1, <3>2, <3>3
  <2>. QED
    BY <2>1, <2>2 DEF CellInv
<1>5. PhaseInv'
  <2>1. boots \in Nat
    BY <1>0, LenProperties DEF TypeOK
  <2>2. /\ entered' = entered /\ left' = left /\ boots' = boots + 1
        /\ pc' = [u \in Thread |-> "start"]
    BY DEF Boot, barVars
  <2>3. /\ entered \in [Thread -> Nat] /\ left \in [Thread -> Nat]
        /\ \A u \in Thread : BarrierAt(u) /\ pc[u] = "out"
    BY <1>0 DEF PhaseInv, Returned
  <2>4. \A u \in Thread : entered[u] + 0 = 2 * boots /\ left[u] + 0 = 2 * boots
    BY <2>3, BarrierCount
  <2>5. ASSUME NEW u \in Thread
        PROVE  BarrierAt(u)'
    <3>1. entered'[u] + 2 = 2 * boots' /\ left'[u] + 2 = 2 * boots'
      BY <2>1, <2>2, <2>3, <2>4
    <3>. QED
      BY <2>2, <3>1 DEF BarrierAt, Early
  <2>. QED
    BY <2>2, <2>3, <2>5 DEF PhaseInv, Early
<1>6. IdleExact'
  BY <1>0 DEF Boot, IdleExact, Started
<1>. QED
  BY <1>2, <1>3, <1>4, <1>5, <1>6 DEF IInv, EvalInv

LEMMA NextIInv == IInv /\ [Next]_vars => IInv'
<1> SUFFICES ASSUME IInv, [Next]_vars PROVE IInv'
  OBVIOUS
<1>1. CASE Boot
  BY <1>1, BootStep
<1>2. ASSUME NEW t \in Thread, Step(t)
      PROVE  IInv'
  <2>1. \A u \in Thread : LocalInv(u)'
    BY <1>2, LocalStep, LocalOther DEF IInv, EvalInv
  <2>. QED
    BY <1>2, <2>1, TypeStep, CellStep, PhaseStep, IdleStep DEF IInv, EvalInv
<1>3. CASE UNCHANGED vars
  BY <1>3 DEF vars, bagVars, loopVars, countVars, barVars, IInv, EvalInv, TypeOK,
              LocalInv, CellInv, Unclaimed, PhaseInv, BarrierAt, IdleExact, Started
<1>. QED
  BY <1>1, <1>2, <1>3 DEF Next

\* The evaluator's state keeps its shape: no push of push_redex, which checks no
\* bound (hvm.c:589-603), goes past the end of a bag, however many threads steal.
THEOREM EvaluatorTypes == Spec => []TypeOK
<1>1. IInv => TypeOK
  BY DEF IInv
<1>. QED
  BY <1>1, InitIInv, NextIInv, PTL DEF Spec

\* Every thread stands where the barriers and its step of the loop put it, and a
\* bag is empty from its owner's index on, but for the booted redex until a thread
\* has claimed it.
THEOREM EvaluatorInvariant == Spec => []EvalInv
<1>1. IInv => EvalInv
  BY DEF IInv
<1>. QED
  BY <1>1, InitIInv, NextIInv, PTL DEF Spec

\* The idle counter is the number of threads that are not busy.
THEOREM IdleCounter == Spec => []IdleExact
<1>1. IInv => IdleExact
  BY DEF IInv, EvalInv
<1>. QED
  BY <1>1, InitIInv, NextIInv, PTL DEF Spec

\* When the threads of a normalize have returned, no bag, cell or hand holds
\* a redex.
THEOREM NormalizeEmpties == Spec => []NothingLeft
BY InitIInv, NextIInv, ReturnedEmpty, PTL DEF Spec

-----------------------------------------------------------------------------
(* Places.  A redex is in a cell of rbag_buf, in a high-priority bag, in a *)
(* thread's hand, or among the pushes an interaction still has to make.    *)
(* These are counted from the last one, so that a push moves none of the   *)
(* others.                                                                 *)

Place == {"cell", "high", "hand", "todo"} \X Thread \X Nat

At(k, t, i) ==
  IF k = "cell" THEN IF i < RLEN THEN rbag_buf[t][i] ELSE FREE
  ELSE IF k = "high" THEN IF i \in 1 .. Len(hbag[t]) THEN hbag[t][i] ELSE FREE
  ELSE IF k = "hand" THEN IF i = 0 THEN cur[t] ELSE FREE
  ELSE IF i < Len(todo[t]) THEN todo[t][Len(todo[t]) - i] ELSE FREE

Held == [p \in Place |-> At(p[1], p[2], p[3])]

\* Of the places m, one holds each redex of S and none holds another one.
OneEach(m, S) ==
  /\ \A p, q \in Place : m[p] # FREE /\ m[p] = m[q] => p = q
  /\ \A r \in Redex : r \in S <=> \E p \in Place : m[p] = r

\* The redexes to reduce are in one place each, the others in none.
HoldInv == OneEach(Held, Born \ done) /\ done \subseteq Born

-----------------------------------------------------------------------------
(* How places may change, whatever they are.                               *)

\* What one place holds moves to an empty one.
LEMMA Moves ==
  ASSUME NEW m, NEW n, NEW S, OneEach(m, S), NEW from \in Place, NEW to \in Place,
         m[to] = FREE, n[to] = m[from], n[from] = FREE,
         \A p \in Place \ {from, to} : n[p] = m[p]
  PROVE  OneEach(n, S)
<1>1. ASSUME NEW p \in Place, NEW q \in Place, n[p] # FREE, n[p] = n[q]
      PROVE  p = q
  <2>1. p # from /\ q # from
    BY <1>1
  <2>2. CASE p = to /\ q # to
    <3>1. n[q] = m[q] /\ m[q] = m[from]
      BY <2>1, <2>2, <1>1
    <3>. QED
      BY <3>1, <2>1, <1>1 DEF OneEach
  <2>3. CASE q = to /\ p # to
    <3>1. n[p] = m[p] /\ m[p] = m[from]
      BY <2>1, <2>3, <1>1
    <3>. QED
      BY <3>1, <2>1, <1>1 DEF OneEach
  <2>4. CASE p # to /\ q # to
    BY <2>1, <2>4, <1>1 DEF OneEach
  <2>. QED
    BY <2>2, <2>3, <2>4
<1>2. ASSUME NEW r \in Redex
      PROVE  (\E p \in Place : m[p] = r) <=> \E p \in Place : n[p] = r
  <2>1. r # FREE
    BY EvaluatorAssumption
  <2>2. ASSUME NEW p \in Place, m[p] = r
        PROVE  \E q \in Place : n[q] = r
    BY <2>1, <2>2
  <2>3. ASSUME NEW p \in Place, n[p] = r
        PROVE  \E q \in Place : m[q] = r
    BY <2>1, <2>3
  <2>. QED
    BY <2>2, <2>3
<1>. QED
  BY <1>1, <1>2 DEF OneEach

\* A new redex comes into an empty place.
LEMMA Arrives ==
  ASSUME NEW m, NEW n, NEW S, OneEach(m, S), NEW to \in Place, NEW r \in Redex,
         r \notin S, m[to] = FREE, n[to] = r,
         \A p \in Place \ {to} : n[p] = m[p]
  PROVE  OneEach(n, S \cup {r})
<1>1. \A p \in Place : m[p] # r
  BY DEF OneEach
<1>2. r # FREE
  BY EvaluatorAssumption
<1>3. \A p, q \in Place : n[p] # FREE /\ n[p] = n[q] => p = q
  BY <1>1 DEF OneEach
<1>4. ASSUME NEW s \in Redex
      PROVE  s \in S \cup {r} <=> \E p \in Place : n[p] = s
  <2>1. s # FREE
    BY EvaluatorAssumption
  <2>2. CASE s = r
    BY <2>2
  <2>3. CASE s # r
    <3>1. \A p \in Place : n[p] = s <=> m[p] = s
      BY <2>1, <2>3
    <3>. QED
      BY <3>1, <2>3 DEF OneEach
  <2>. QED
    BY <2>2, <2>3
<1>. QED
  BY <1>3, <1>4 DEF OneEach

\* A redex leaves its place, and new ones come, one each, into empty places.
Unfold(m, n, from, r, To, New) ==
  /\ from \in Place /\ m[from] = r /\ n[from] = FREE
  /\ To \subseteq Place /\ from \notin To
  /\ \A p \in To : m[p] = FREE /\ n[p] \in New
  /\ \A p, q \in To : n[p] = n[q] => p = q
  /\ \A s \in New : \E p \in To : n[p] = s
  /\ \A p \in Place \ (To \cup {from}) : n[p] = m[p]

LEMMA Unfolds ==
  ASSUME NEW m, NEW n, NEW S, OneEach(m, S), NEW from, NEW r \in Redex, NEW To,
         NEW New \in SUBSET Redex, Unfold(m, n, from, r, To, New),
         New \cap (S \cup {r}) = {}
  PROVE  OneEach(n, (S \ {r}) \cup New)
<1>. USE DEF Unfold
<1>0. r \in S /\ FREE \notin Redex
  BY EvaluatorAssumption DEF OneEach
<1>1. \A p \in Place : m[p] \notin New
  BY <1>0 DEF OneEach
<1>2. \A p \in Place \ To : n[p] \notin New
  BY <1>0, <1>1
<1>3. \A p, q \in Place : n[p] # FREE /\ n[p] = n[q] => p = q
  <2>. SUFFICES ASSUME NEW p \in Place, NEW q \in Place, n[p] # FREE, n[p] = n[q]
                PROVE  p = q
    OBVIOUS
  <2>1. p \in To <=> q \in To
    BY <1>2
  <2>2. CASE p \in To
    BY <2>1, <2>2
  <2>3. CASE p \notin To
    <3>1. n[p] = m[p] /\ n[q] = m[q]
      BY <2>1, <2>3
    <3>2. m[p] # FREE /\ m[p] = m[q]
      BY <3>1
    <3>. QED
      BY <3>2, Zenon DEF OneEach
  <2>. QED
    BY <2>2, <2>3
<1>4. ASSUME NEW s \in Redex
      PROVE  s \in (S \ {r}) \cup New <=> \E p \in Place : n[p] = s
  <2>1. CASE s \in New
    BY <2>1
  <2>2. CASE s \notin New
    <3>1. ASSUME NEW p \in Place, n[p] = s
          PROVE  s \in S \ {r}
      <4>1. p \notin To /\ p # from /\ m[p] = s
        BY <2>2, <3>1, <1>0
      <4>2. s # r
        BY <4>1, <1>0 DEF OneEach
      <4>. QED
        BY <4>1, <4>2 DEF OneEach
    <3>2. ASSUME s \in S \ {r}
          PROVE  \E p \in Place : n[p] = s
      <4>1. PICK p \in Place : m[p] = s
        BY <3>2 DEF OneEach
      <4>2. p \notin To /\ p # from
        BY <4>1, <3>2, <1>0
      <4>. QED
        BY <4>1, <4>2
    <3>. QED
      BY <2>2, <3>1, <3>2
  <2>. QED
    BY <2>1, <2>2
<1>. QED
  BY <1>3, <1>4 DEF OneEach
-----------------------------------------------------------------------------
(* What the accesses to the bags do to places.                             *)

LEMMA PlaceKinds ==
  /\ \A t \in Thread, i \in Nat :
       /\ <<"cell", t, i>> \in Place /\ <<"high", t, i>> \in Place
       /\ <<"hand", t, i>> \in Place /\ <<"todo", t, i>> \in Place
  /\ \A p \in Place : \E t \in Thread, i \in Nat :
       p \in {<<"cell", t, i>>, <<"high", t, i>>, <<"hand", t, i>>, <<"todo", t, i>>}
BY DEF Place

LEMMA HeldAt ==
  ASSUME NEW t \in Thread, NEW i \in Nat
  PROVE  /\ Held[<<"cell", t, i>>] = IF i < RLEN THEN rbag_buf[t][i] ELSE FREE
         /\ Held[<<"high", t, i>>] =
              IF i \in 1 .. Len(hbag[t]) THEN hbag[t][i] ELSE FREE
         /\ Held[<<"hand", t, i>>] = IF i = 0 THEN cur[t] ELSE FREE
         /\ Held[<<"todo", t, i>>] =
              IF i < Len(todo[t]) THEN todo[t][Len(todo[t]) - i] ELSE FREE
BY PlaceKinds DEF Held, At

LEMMA HeldAtNext ==
  ASSUME NEW t \in Thread, NEW i \in Nat
  PROVE  /\ Held'[<<"cell", t, i>>] = IF i < RLEN THEN rbag_buf'[t][i] ELSE FREE
         /\ Held'[<<"high", t, i>>] =
              IF i \in 1 .. Len(hbag'[t]) THEN hbag'[t][i] ELSE FREE
         /\ Held'[<<"hand", t, i>>] = IF i = 0 THEN cur'[t] ELSE FREE
         /\ Held'[<<"todo", t, i>>] =
              IF i < Len(todo'[t]) THEN todo'[t][Len(todo'[t]) - i] ELSE FREE
BY PlaceKinds DEF Held, At

\* A place changes only with the variable it is in.
LEMMA SameAt ==
  ASSUME NEW t \in Thread, NEW i \in Nat
  PROVE  /\ (i < RLEN => rbag_buf'[t][i] = rbag_buf[t][i])
              => Held'[<<"cell", t, i>>] = Held[<<"cell", t, i>>]
         /\ hbag'[t] = hbag[t] => Held'[<<"high", t, i>>] = Held[<<"high", t, i>>]
         /\ cur'[t] = cur[t] => Held'[<<"hand", t, i>>] = Held[<<"hand", t, i>>]
         /\ todo'[t] = todo[t] => Held'[<<"todo", t, i>>] = Held[<<"todo", t, i>>]
<1>1. /\ Held[<<"cell", t, i>>] = IF i < RLEN THEN rbag_buf[t][i] ELSE FREE
      /\ Held'[<<"cell", t, i>>] = IF i < RLEN THEN rbag_buf'[t][i] ELSE FREE
  BY HeldAt, HeldAtNext, Zenon
<1>2. /\ Held[<<"high", t, i>>] = IF i \in 1 .. Len(hbag[t]) THEN hbag[t][i] ELSE FREE
      /\ Held'[<<"high", t, i>>] = IF i \in 1 .. Len(hbag'[t]) THEN hbag'[t][i] ELSE FREE
  BY HeldAt, HeldAtNext, Zenon
<1>3. /\ Held[<<"hand", t, i>>] = IF i = 0 THEN cur[t] ELSE FREE
      /\ Held'[<<"hand", t, i>>] = IF i = 0 THEN cur'[t] ELSE FREE
  BY HeldAt, HeldAtNext, Zenon
<1>4. /\ Held[<<"todo", t, i>>] =
           IF i < Len(todo[t]) THEN todo[t][Len(todo[t]) - i] ELSE FREE
      /\ Held'[<<"todo", t, i>>] =
           IF i < Len(todo'[t]) THEN todo'[t][Len(todo'[t]) - i] ELSE FREE
  BY HeldAt, HeldAtNext, Zenon
<1>. QED
  BY <1>1, <1>2, <1>3, <1>4

\* Where push_redex puts a redex.
Pushed(t, r) == IF r \in High THEN <<"high", t, Len(hbag[t]) + 1>>
                ELSE <<"cell", t, rput[t]>>

\* It is empty, as rput is above every cell in use but the booted redex's, and
\* nobody pushes before that has been taken; and no other place of a bag changes.
LEMMA PushHeld ==
  ASSUME TypeOK, EvalInv, NEW t \in Thread, NEW r \in Redex, PushTo(t, r),
         pc[t] \in {"interact", "stolen", "push"},
         IF r \in High THEN Len(hbag[t]) < HLEN ELSE rput[t] < RLEN
  PROVE  /\ Pushed(t, r) \in Place
         /\ Held[Pushed(t, r)] = FREE /\ Held'[Pushed(t, r)] = r
         /\ \A u \in Thread, i \in Nat, k \in {"cell", "high"} :
              <<k, u, i>> # Pushed(t, r) => Held'[<<k, u, i>>] = Held[<<k, u, i>>]
<1>0. /\ rbag_buf \in [Thread -> [0 .. RLEN - 1 -> Redex \cup {FREE}]]
      /\ rput[t] \in Nat /\ hbag \in [Thread -> Seq(High)]
      /\ hbag[t] \in Seq(High) /\ Len(hbag[t]) \in Nat
      /\ RLEN \in Nat
  BY LenProperties, EvaluatorAssumption DEF TypeOK
<1>1. CASE r \in High
  <2>0. PICK n \in Nat : n = Len(hbag[t])
    BY <1>0
  <2>1. Pushed(t, r) = <<"high", t, n + 1>> /\ n + 1 \in Nat
    BY <1>1, <2>0 DEF Pushed
  <2>2. hbag' = [hbag EXCEPT ![t] = Append(hbag[t], r)] /\ rbag_buf' = rbag_buf
    BY <1>1 DEF PushTo
  <2>3. hbag'[t] = Append(hbag[t], r) /\ \A u \in Thread \ {t} : hbag'[u] = hbag[u]
    BY <1>0, <2>2
  <2>4. /\ Len(hbag'[t]) = n + 1 /\ hbag'[t][n + 1] = r
        /\ \A i \in 1 .. n : hbag'[t][i] = hbag[t][i]
    BY <1>0, <1>1, <2>0, <2>3, AppendProperties
  <2>5. Pushed(t, r) \in Place
    BY <2>1, PlaceKinds, Zenon
  <2>6. Held[Pushed(t, r)] = FREE /\ Held'[Pushed(t, r)] = r
    <3>1. n + 1 \notin 1 .. n /\ n + 1 \in 1 .. n + 1
      OBVIOUS
    <3>2. Held[<<"high", t, n + 1>>] =
            IF n + 1 \in 1 .. Len(hbag[t]) THEN hbag[t][n + 1] ELSE FREE
      BY <2>1, HeldAt, Zenon
    <3>3. Held'[<<"high", t, n + 1>>] =
            IF n + 1 \in 1 .. Len(hbag'[t]) THEN hbag'[t][n + 1] ELSE FREE
      BY <2>1, HeldAtNext, Zenon
    <3>. QED
      BY <2>0, <2>1, <2>4, <3>1, <3>2, <3>3
  <2>7. ASSUME NEW u \in Thread, NEW i \in Nat
        PROVE  Held'[<<"cell", u, i>>] = Held[<<"cell", u, i>>]
    BY <2>2, SameAt, Zenon
  <2>8. ASSUME NEW u \in Thread, NEW i \in Nat, u # t \/ i # n + 1
        PROVE  Held'[<<"high", u, i>>] = Held[<<"high", u, i>>]
    <3>1. CASE u # t
      BY <2>3, <3>1, SameAt, Zenon
    <3>2. CASE u = t
      <4>1. i \in 1 .. n + 1 <=> i \in 1 .. n
        BY <2>8, <3>2
      <4>2. Held[<<"high", t, i>>] = IF i \in 1 .. n THEN hbag[t][i] ELSE FREE
        BY <2>0, HeldAt, Zenon
      <4>3. Held'[<<"high", t, i>>] = IF i \in 1 .. n + 1 THEN hbag'[t][i] ELSE FREE
        BY <2>4, HeldAtNext, Zenon
      <4>. QED
        BY <2>4, <3>2, <4>1, <4>2, <4>3
    <3>. QED
      BY <3>1, <3>2
  <2>. QED
    BY <2>1, <2>5, <2>6, <2>7, <2>8
<1>2. CASE r \notin High
  <2>1. Pushed(t, r) = <<"cell", t, rput[t]>> /\ Pushed(t, r) \in Place
    BY <1>0, <1>2, PlaceKinds DEF Pushed
  <2>2. rbag_buf' = [rbag_buf EXCEPT ![t][rput[t]] = r] /\ hbag' = hbag
    BY <1>2 DEF PushTo
  <2>3. rput[t] \in 0 .. RLEN - 1
    BY <1>0, <1>2
  <2>4. rbag_buf[t][rput[t]] = FREE
    BY <2>3 DEF EvalInv, CellInv, Unclaimed
  <2>5. Held[Pushed(t, r)] = FREE /\ Held'[Pushed(t, r)] = r
    <3>1. /\ Held[<<"cell", t, rput[t]>>] =
               IF rput[t] < RLEN THEN rbag_buf[t][rput[t]] ELSE FREE
          /\ Held'[<<"cell", t, rput[t]>>] =
               IF rput[t] < RLEN THEN rbag_buf'[t][rput[t]] ELSE FREE
      BY <1>0, HeldAt, HeldAtNext, Zenon
    <3>. QED
      BY <1>0, <2>1, <2>2, <2>3, <2>4, <3>1
  <2>6. ASSUME NEW u \in Thread, NEW i \in Nat
        PROVE  Held'[<<"high", u, i>>] = Held[<<"high", u, i>>]
    BY <2>2, SameAt, Zenon
  <2>7. ASSUME NEW u \in Thread, NEW i \in Nat, u # t \/ i # rput[t]
        PROVE  Held'[<<"cell", u, i>>] = Held[<<"cell", u, i>>]
    <3>1. i < RLEN => rbag_buf'[u][i] = rbag_buf[u][i]
      BY <1>0, <2>2, <2>3, <2>7
    <3>. QED
      BY <3>1, SameAt, Zenon
  <2>. QED
    BY <2>1, <2>5, <2>6, <2>7
<1>. QED
  BY <1>1, <1>2
-----------------------------------------------------------------------------
(* What the steps do to places.                                            *)

\* All places but those of a set stay, if each of their kinds does.
LEMMA SameElsewhere ==
  ASSUME NEW S,
         \A k \in {"cell", "high", "hand", "todo"}, u \in Thread, i \in Nat :
           <<k, u, i>> \notin S => Held'[<<k, u, i>>] = Held[<<k, u, i>>]
  PROVE  \A p \in Place \ S : Held'[p] = Held[p]
BY DEF Place

\* A thread whose hands are empty takes what a cell holds, and empties it.
LEMMA TakesCell ==
  ASSUME TypeOK, NEW S, OneEach(Held, S), NEW t \in Thread, cur[t] = FREE,
         NEW u \in Thread, NEW j \in 0 .. RLEN - 1,
         rbag_buf' = [rbag_buf EXCEPT ![u][j] = FREE],
         cur' = [cur EXCEPT ![t] = rbag_buf[u][j]], hbag' = hbag, todo' = todo
  PROVE  OneEach(Held', S)
<1>. DEFINE from == <<"cell", u, j>>
            to   == <<"hand", t, 0>>
<1>0. /\ rbag_buf \in [Thread -> [0 .. RLEN - 1 -> Redex \cup {FREE}]]
      /\ cur \in [Thread -> Redex \cup {FREE}] /\ j \in Nat /\ j < RLEN
  BY EvaluatorAssumption, SMTT(30) DEF TypeOK
<1>1. from \in Place /\ to \in Place
  BY <1>0, PlaceKinds
<1>2. Held[from] = rbag_buf[u][j] /\ Held'[from] = FREE
  <2>1. /\ Held[from] = IF j < RLEN THEN rbag_buf[u][j] ELSE FREE
        /\ Held'[from] = IF j < RLEN THEN rbag_buf'[u][j] ELSE FREE
    BY <1>0, HeldAt, HeldAtNext, Zenon
  <2>. QED
    BY <1>0, <2>1
<1>3. Held[to] = FREE /\ Held'[to] = rbag_buf[u][j]
  <2>1. /\ Held[to] = IF 0 = 0 THEN cur[t] ELSE FREE
        /\ Held'[to] = IF 0 = 0 THEN cur'[t] ELSE FREE
    BY 0 \in Nat, HeldAt, HeldAtNext, Zenon
  <2>. QED
    BY <1>0, <2>1
<1>4. ASSUME NEW v \in Thread, NEW i \in Nat
      PROVE  /\ <<"cell", v, i>> # from => Held'[<<"cell", v, i>>] = Held[<<"cell", v, i>>]
             /\ Held'[<<"high", v, i>>] = Held[<<"high", v, i>>]
             /\ <<"hand", v, i>> # to => Held'[<<"hand", v, i>>] = Held[<<"hand", v, i>>]
             /\ Held'[<<"todo", v, i>>] = Held[<<"todo", v, i>>]
  <2>1. ASSUME v # u \/ i # j
        PROVE  i < RLEN => rbag_buf'[v][i] = rbag_buf[v][i]
    BY <1>0, <2>1
  <2>2. v # t => cur'[v] = cur[v]
    BY <1>0
  <2>3. /\ Held[<<"hand", v, i>>] = IF i = 0 THEN cur[v] ELSE FREE
        /\ Held'[<<"hand", v, i>>] = IF i = 0 THEN cur'[v] ELSE FREE
    BY HeldAt, HeldAtNext, Zenon
  <2>4. hbag'[v] = hbag[v] /\ todo'[v] = todo[v]
    OBVIOUS
  <2>. QED
    BY <2>1, <2>2, <2>3, <2>4, SameAt
<1>5. \A p \in Place \ {from, to} : Held'[p] = Held[p]
  <2>1. \A k \in {"cell", "high", "hand", "todo"}, v \in Thread, i \in Nat :
          <<k, v, i>> \notin {from, to} => Held'[<<k, v, i>>] = Held[<<k, v, i>>]
    BY <1>4, ZenonT(40)
  <2>. HIDE DEF from, to
  <2>. QED
    BY <2>1, SameElsewhere
<1>. HIDE DEF from, to
<1>. QED
  BY <1>1, <1>2, <1>3, <1>5, Moves

\* A thread takes the last redex of its high-priority bag.
LEMMA TakesHigh ==
  ASSUME TypeOK, NEW S, OneEach(Held, S), NEW t \in Thread, cur[t] = FREE, PopHigh(t)
  PROVE  OneEach(Held', S)
<1>. DEFINE n    == Len(hbag[t])
            from == <<"high", t, n>>
            to   == <<"hand", t, 0>>
<1>0. /\ hbag \in [Thread -> Seq(High)] /\ hbag[t] \in Seq(High) /\ hbag[t] # <<>>
      /\ cur \in [Thread -> Redex \cup {FREE}]
      /\ cur' = [cur EXCEPT ![t] = hbag[t][n]]
      /\ hbag' = [hbag EXCEPT ![t] = SubSeq(hbag[t], 1, n - 1)]
      /\ rbag_buf' = rbag_buf /\ todo' = todo
  BY DEF TypeOK, PopHigh
<1>1. n \in Nat \ {0}
  BY <1>0, DropLast
<1>2. hbag'[t] = SubSeq(hbag[t], 1, n - 1) /\ \A u \in Thread \ {t} : hbag'[u] = hbag[u]
  BY <1>0
<1>3. Len(hbag'[t]) = n - 1 /\ \A i \in 1 .. n - 1 : hbag'[t][i] = hbag[t][i]
  <2>1. n - 1 \in Nat /\ n - 1 <= n
    BY <1>1
  <2>2. Len(hbag'[t]) = n - 1
    BY <1>0, <1>2, DropLast, Zenon
  <2>3. \A i \in 1 .. n - 1 : SubSeq(hbag[t], 1, n - 1)[i] = hbag[t][i]
    <3>. DEFINE s == hbag[t]
    <3>1. s \in Seq(High) /\ Len(s) \in Nat \ {0}
      BY <1>0, <1>1
    <3>. HIDE DEF s
    <3>2. \A i \in 1 .. Len(s) - 1 : SubSeq(s, 1, Len(s) - 1)[i] = s[i]
      BY <3>1
    <3>. QED
      BY <3>2 DEF s
  <2>. QED
    BY <1>2, <2>2, <2>3, Zenon
<1>4. from \in Place /\ to \in Place
  BY <1>1, PlaceKinds
<1>5. Held[from] = hbag[t][n] /\ Held'[from] = FREE
  <2>1. /\ Held[from] = IF n \in 1 .. Len(hbag[t]) THEN hbag[t][n] ELSE FREE
        /\ Held'[from] = IF n \in 1 .. Len(hbag'[t]) THEN hbag'[t][n] ELSE FREE
    BY <1>1, HeldAt, HeldAtNext, Zenon
  <2>2. n \in 1 .. n /\ n \notin 1 .. n - 1
    BY <1>1
  <2>. QED
    BY <1>3, <2>1, <2>2, Zenon
<1>6. Held[to] = FREE /\ Held'[to] = hbag[t][n]
  <2>1. /\ Held[to] = IF 0 = 0 THEN cur[t] ELSE FREE
        /\ Held'[to] = IF 0 = 0 THEN cur'[t] ELSE FREE
    BY 0 \in Nat, HeldAt, HeldAtNext, Zenon
  <2>. QED
    BY <1>0, <2>1
<1>7. ASSUME NEW v \in Thread, NEW i \in Nat
      PROVE  /\ Held'[<<"cell", v, i>>] = Held[<<"cell", v, i>>]
             /\ <<"high", v, i>> # from => Held'[<<"high", v, i>>] = Held[<<"high", v, i>>]
             /\ <<"hand", v, i>> # to => Held'[<<"hand", v, i>>] = Held[<<"hand", v, i>>]
             /\ Held'[<<"todo", v, i>>] = Held[<<"todo", v, i>>]
  <2>1. v # t => cur'[v] = cur[v] /\ hbag'[v] = hbag[v]
    BY <1>0, <1>2
  <2>2. /\ Held[<<"hand", v, i>>] = IF i = 0 THEN cur[v] ELSE FREE
        /\ Held'[<<"hand", v, i>>] = IF i = 0 THEN cur'[v] ELSE FREE
    BY HeldAt, HeldAtNext, Zenon
  <2>3. rbag_buf'[v] = rbag_buf[v] /\ todo'[v] = todo[v]
    BY <1>0
  <2>4. ASSUME v = t, i # n
        PROVE  Held'[<<"high", v, i>>] = Held[<<"high", v, i>>]
    <3>1. /\ Held[<<"high", v, i>>] = IF i \in 1 .. Len(hbag[v]) THEN hbag[v][i] ELSE FREE
          /\ Held'[<<"high", v, i>>] =
               IF i \in 1 .. Len(hbag'[v]) THEN hbag'[v][i] ELSE FREE
      BY HeldAt, HeldAtNext, Zenon
    <3>2. i \in 1 .. n <=> i \in 1 .. n - 1
      BY <1>1, <2>4
    <3>. QED
      BY <1>3, <2>4, <3>1, <3>2, Zenon
  <2>5. /\ Held'[<<"cell", v, i>>] = Held[<<"cell", v, i>>]
        /\ Held'[<<"todo", v, i>>] = Held[<<"todo", v, i>>]
    BY <2>3, SameAt
  <2>6. v # t => Held'[<<"high", v, i>>] = Held[<<"high", v, i>>]
    BY <2>1, SameAt
  <2>. QED
    BY <2>1, <2>2, <2>4, <2>5, <2>6
<1>8. \A p \in Place \ {from, to} : Held'[p] = Held[p]
  <2>1. \A k \in {"cell", "high", "hand", "todo"}, v \in Thread, i \in Nat :
          <<k, v, i>> \notin {from, to} => Held'[<<k, v, i>>] = Held[<<k, v, i>>]
    <3>. SUFFICES ASSUME NEW v \in Thread, NEW i \in Nat
                  PROVE  \A k \in {"cell", "high", "hand", "todo"} :
                           <<k, v, i>> \notin {from, to} => Held'[<<k, v, i>>] = Held[<<k, v, i>>]
      OBVIOUS
    <3>1. <<"cell", v, i>> \notin {from, to} => Held'[<<"cell", v, i>>] = Held[<<"cell", v, i>>]
      BY <1>7
    <3>2. <<"high", v, i>> \notin {from, to} => Held'[<<"high", v, i>>] = Held[<<"high", v, i>>]
      BY <1>7
    <3>3. <<"hand", v, i>> \notin {from, to} => Held'[<<"hand", v, i>>] = Held[<<"hand", v, i>>]
      BY <1>7
    <3>4. <<"todo", v, i>> \notin {from, to} => Held'[<<"todo", v, i>>] = Held[<<"todo", v, i>>]
      BY <1>7
    <3>. QED
      BY <3>1, <3>2, <3>3, <3>4
  <2>. HIDE DEF from, to
  <2>. QED
    BY <2>1, SameElsewhere
<1>. HIDE DEF from, to
<1>. QED
  BY <1>4, <1>5, <1>6, <1>8, Moves

\* What a thread holds in its hand goes to a bag.
LEMMA HandPushed ==
  ASSUME TypeOK, EvalInv, NEW S, OneEach(Held, S), NEW t \in Thread,
         PushTo(t, cur[t]), pc[t] \in {"interact", "stolen"},
         cur' = [cur EXCEPT ![t] = FREE], todo' = todo
  PROVE  OneEach(Held', S)
<1>. DEFINE from == <<"hand", t, 0>>
            to   == Pushed(t, cur[t])
<1>0. /\ cur \in [Thread -> Redex \cup {FREE}] /\ cur[t] \in Redex
      /\ IF cur[t] \in High THEN Len(hbag[t]) < HLEN ELSE rput[t] < RLEN
  BY PushRoom DEF TypeOK, EvalInv
<1>1. /\ to \in Place /\ Held[to] = FREE /\ Held'[to] = cur[t]
      /\ \A u \in Thread, i \in Nat, k \in {"cell", "high"} :
           <<k, u, i>> # to => Held'[<<k, u, i>>] = Held[<<k, u, i>>]
  BY <1>0, PushHeld
<1>2. from \in Place /\ Held[from] = cur[t] /\ Held'[from] = FREE
  <2>1. /\ Held[from] = IF 0 = 0 THEN cur[t] ELSE FREE
        /\ Held'[from] = IF 0 = 0 THEN cur'[t] ELSE FREE
    BY 0 \in Nat, HeldAt, HeldAtNext, Zenon
  <2>. QED
    BY <1>0, <2>1, PlaceKinds
<1>3. ASSUME NEW v \in Thread, NEW i \in Nat
      PROVE  /\ <<"hand", v, i>> # from => Held'[<<"hand", v, i>>] = Held[<<"hand", v, i>>]
             /\ Held'[<<"todo", v, i>>] = Held[<<"todo", v, i>>]
  <2>1. v # t => cur'[v] = cur[v]
    BY <1>0
  <2>2. /\ Held[<<"hand", v, i>>] = IF i = 0 THEN cur[v] ELSE FREE
        /\ Held'[<<"hand", v, i>>] = IF i = 0 THEN cur'[v] ELSE FREE
    BY HeldAt, HeldAtNext, Zenon
  <2>3. Held'[<<"todo", v, i>>] = Held[<<"todo", v, i>>]
    BY SameAt
  <2>. QED
    BY <2>1, <2>2, <2>3
<1>4. \A p \in Place \ {from, to} : Held'[p] = Held[p]
  <2>1. \A k \in {"cell", "high", "hand", "todo"}, v \in Thread, i \in Nat :
          <<k, v, i>> \notin {from, to} => Held'[<<k, v, i>>] = Held[<<k, v, i>>]
    <3>. SUFFICES ASSUME NEW v \in Thread, NEW i \in Nat
                  PROVE  \A k \in {"cell", "high", "hand", "todo"} :
                           <<k, v, i>> \notin {from, to} => Held'[<<k, v, i>>] = Held[<<k, v, i>>]
      OBVIOUS
    <3>1. <<"cell", v, i>> \notin {from, to} => Held'[<<"cell", v, i>>] = Held[<<"cell", v, i>>]
      BY <1>1, <1>3
    <3>2. <<"high", v, i>> \notin {from, to} => Held'[<<"high", v, i>>] = Held[<<"high", v, i>>]
      BY <1>1, <1>3
    <3>3. <<"hand", v, i>> \notin {from, to} => Held'[<<"hand", v, i>>] = Held[<<"hand", v, i>>]
      BY <1>1, <1>3
    <3>4. <<"todo", v, i>> \notin {from, to} => Held'[<<"todo", v, i>>] = Held[<<"todo", v, i>>]
      BY <1>1, <1>3
    <3>. QED
      BY <3>1, <3>2, <3>3, <3>4
  <2>. HIDE DEF from, to
  <2>. QED
    BY <2>1, SameElsewhere
<1>. HIDE DEF from, to
<1>. QED
  BY <1>1, <1>2, <1>4, Moves

\* The first of the pushes that an interaction has to make goes to a bag.
LEMMA TodoPushed ==
  ASSUME TypeOK, EvalInv, NEW S, OneEach(Held, S), NEW t \in Thread, Push(t)
  PROVE  OneEach(Held', S)
<1>. DEFINE r    == Head(todo[t])
            n    == Len(todo[t])
            from == <<"todo", t, n - 1>>
            to   == Pushed(t, r)
<1>0. /\ todo \in [Thread -> Seq(Redex)] /\ todo[t] \in Seq(Redex)
      /\ pc[t] = "push" /\ PushTo(t, r)
      /\ todo' = [todo EXCEPT ![t] = Tail(todo[t])] /\ cur' = cur
  BY DEF TypeOK, Push
<1>1. /\ r \in Redex /\ todo[t] # <<>>
      /\ IF r \in High THEN Len(hbag[t]) < HLEN ELSE rput[t] < RLEN
  BY <1>0, PushRoom DEF EvalInv
<1>2. /\ to \in Place /\ Held[to] = FREE /\ Held'[to] = r
      /\ \A u \in Thread, i \in Nat, k \in {"cell", "high"} :
           <<k, u, i>> # to => Held'[<<k, u, i>>] = Held[<<k, u, i>>]
  BY <1>0, <1>1, PushHeld
<1>3. n \in Nat \ {0}
  BY <1>0, <1>1, DropHead
<1>4. /\ todo'[t] = Tail(todo[t]) /\ Len(todo'[t]) = n - 1
      /\ \A u \in Thread \ {t} : todo'[u] = todo[u]
      /\ r = todo[t][1] /\ \A i \in 1 .. n - 1 : todo'[t][i] = todo[t][i + 1]
  <2>1. todo'[t] = Tail(todo[t]) /\ \A u \in Thread \ {t} : todo'[u] = todo[u]
    BY <1>0
  <2>2. Len(todo'[t]) = n - 1
    BY <1>0, <1>1, <2>1, DropHead, Zenon
  <2>3. ASSUME NEW s \in Seq(Redex), s # <<>>
        PROVE  Head(s) = s[1] /\ \A i \in 1 .. Len(s) - 1 : Tail(s)[i] = s[i + 1]
    BY <2>3
  <2>. QED
    BY <1>0, <1>1, <2>1, <2>2, <2>3, Zenon
<1>5. from \in Place /\ Held[from] = r /\ Held'[from] = FREE
  <2>1. n - 1 \in Nat /\ n - 1 < n /\ n - (n - 1) = 1 /\ ~(n - 1 < n - 1)
    BY <1>3
  <2>2. /\ Held[from] = IF n - 1 < Len(todo[t]) THEN todo[t][n - (n - 1)] ELSE FREE
        /\ Held'[from] = IF n - 1 < Len(todo'[t])
                         THEN todo'[t][Len(todo'[t]) - (n - 1)] ELSE FREE
    BY <2>1, HeldAt, HeldAtNext, Zenon
  <2>3. from \in Place
    BY <2>1, PlaceKinds, Zenon
  <2>. QED
    BY <1>4, <2>1, <2>2, <2>3, Zenon
<1>6. ASSUME NEW v \in Thread, NEW i \in Nat
      PROVE  /\ Held'[<<"hand", v, i>>] = Held[<<"hand", v, i>>]
             /\ <<"todo", v, i>> # from => Held'[<<"todo", v, i>>] = Held[<<"todo", v, i>>]
  <2>1. Held'[<<"hand", v, i>>] = Held[<<"hand", v, i>>]
    BY <1>0, SameAt
  <2>2. v # t => Held'[<<"todo", v, i>>] = Held[<<"todo", v, i>>]
    BY <1>4, SameAt
  <2>3. ASSUME v = t, i # n - 1
        PROVE  Held'[<<"todo", v, i>>] = Held[<<"todo", v, i>>]
    <3>0. /\ Held[<<"todo", t, i>>] =
               IF i < Len(todo[t]) THEN todo[t][Len(todo[t]) - i] ELSE FREE
          /\ Held'[<<"todo", t, i>>] =
               IF i < Len(todo'[t]) THEN todo'[t][Len(todo'[t]) - i] ELSE FREE
      BY HeldAt, HeldAtNext, Zenon
    <3>1. /\ Held[<<"todo", t, i>>] = IF i < n THEN todo[t][n - i] ELSE FREE
          /\ Held'[<<"todo", t, i>>] = IF i < n - 1 THEN todo'[t][n - 1 - i] ELSE FREE
      BY <1>4, <3>0, Zenon
    <3>2. i < n <=> i < n - 1
      BY <1>3, <2>3
    <3>3. i < n - 1 => n - 1 - i \in 1 .. n - 1 /\ (n - 1 - i) + 1 = n - i
      BY <1>3
    <3>4. i < n - 1 => todo'[t][n - 1 - i] = todo[t][n - i]
      BY <1>4, <3>3, Zenon
    <3>. HIDE DEF n
    <3>5. Held'[<<"todo", t, i>>] = Held[<<"todo", t, i>>]
      BY <3>1, <3>2, <3>4
    <3>. QED
      BY <2>3, <3>5
  <2>. QED
    BY <2>1, <2>2, <2>3
<1>7. \A p \in Place \ {from, to} : Held'[p] = Held[p]
  <2>1. \A k \in {"cell", "high", "hand", "todo"}, v \in Thread, i \in Nat :
          <<k, v, i>> \notin {from, to} => Held'[<<k, v, i>>] = Held[<<k, v, i>>]
    BY <1>2, <1>6, ZenonT(40)
  <2>. HIDE DEF from, to
  <2>. QED
    BY <2>1, SameElsewhere
<1>. HIDE DEF from, to, r
<1>. QED
  BY <1>2, <1>5, <1>7, Moves

\* A redex that is reduced leaves the hand, and those it pushes are born.
LEMMA Reduces ==
  ASSUME TypeOK, EvalInv, HoldInv, NEW t \in Thread, Interact(t)
  PROVE  /\ cur[t] \in Redex /\ cur[t] \in Born \ done
         /\ Range(Spawn[cur[t]]) \cap Born = {}
         /\ Born' = Born \cup Range(Spawn[cur[t]]) /\ done' = done \cup {cur[t]}
         /\ OneEach(Held', Born' \ done')
<1>. DEFINE r    == cur[t]
            s    == Spawn[cur[t]]
            n    == Len(Spawn[cur[t]])
            from == <<"hand", t, 0>>
            To   == {<<"todo", t, i>> : i \in 0 .. n - 1}
<1>0. /\ cur \in [Thread -> Redex \cup {FREE}] /\ todo \in [Thread -> Seq(Redex)]
      /\ pc[t] = "interact" /\ cur' = [cur EXCEPT ![t] = FREE]
      /\ todo' = [todo EXCEPT ![t] = s] /\ done' = done \cup {r}
      /\ rbag_buf' = rbag_buf /\ hbag' = hbag /\ boots' = boots
  BY DEF TypeOK, Interact, bagVars
<1>1. r \in Redex /\ todo[t] = <<>>
  BY <1>0, EvaluatorAssumption DEF EvalInv, LocalInv
<1>2. s \in Seq(Redex) /\ n \in Nat /\ DOMAIN s = 1 .. n /\ Range(s) \subseteq Redex
  BY <1>1, EvaluatorAssumption DEF Range
<1>3. from \in Place /\ Held[from] = r /\ Held'[from] = FREE
  <2>1. /\ Held[from] = IF 0 = 0 THEN cur[t] ELSE FREE
        /\ Held'[from] = IF 0 = 0 THEN cur'[t] ELSE FREE
    BY 0 \in Nat, HeldAt, HeldAtNext, Zenon
  <2>. QED
    BY <1>0, <2>1, PlaceKinds
<1>4. r \in Born \ done
  BY <1>1, <1>3 DEF HoldInv, OneEach
<1>5. Range(s) \cap Born = {}
  <2>. SUFFICES ASSUME NEW i \in DOMAIN s, s[i] \in Born PROVE FALSE
    BY DEF Range
  <2>1. s[i] \notin Booted
    <3>1. \A k \in 1 .. boots : k \in DOMAIN Boots
      BY EvaluatorAssumption DEF TypeOK
    <3>2. Booted \subseteq Range(Boots)
      BY <3>1 DEF Booted, Range
    <3>3. s[i] \notin Range(Boots)
      BY <1>1, BirthAssumption
    <3>. QED
      BY <3>2, <3>3
  <2>2. PICK q \in done : s[i] \in Range(Spawn[q])
    BY <2>1 DEF Born
  <2>3. PICK j \in DOMAIN Spawn[q] : s[i] = Spawn[q][j]
    BY <2>2 DEF Range
  <2>4. q \in Redex
    BY DEF TypeOK
  <2>5. r = q
    BY <1>1, <2>3, <2>4, BirthAssumption
  <2>. QED
    BY <1>4, <2>5
<1>6. Born' = Born \cup Range(s)
  BY <1>0 DEF Born, Booted
<1>7. To \in SUBSET Place /\ from \notin To
  <2>1. \A i \in 0 .. n - 1 : <<"todo", t, i>> \in Place
    <3>1. \A i \in 0 .. n - 1 : i \in Nat
      OBVIOUS
    <3>. QED
      BY <3>1, PlaceKinds, Zenon
  <2>2. \A i \in 0 .. n - 1 : <<"todo", t, i>> # from
    OBVIOUS
  <2>. QED
    BY <2>1, <2>2, Zenon
<1>8. ASSUME NEW i \in 0 .. n - 1
      PROVE  /\ n - i \in DOMAIN s
             /\ Held[<<"todo", t, i>>] = FREE /\ Held'[<<"todo", t, i>>] = s[n - i]
  <2>1. i \in Nat /\ i < n /\ n - i \in 1 .. n /\ ~(i < 0)
    BY <1>2
  <2>2. Held[<<"todo", t, i>>] =
           IF i < Len(todo[t]) THEN todo[t][Len(todo[t]) - i] ELSE FREE
    BY <2>1, HeldAt, ZenonT(40)
  <2>4. Held'[<<"todo", t, i>>] =
           IF i < Len(todo'[t]) THEN todo'[t][Len(todo'[t]) - i] ELSE FREE
    BY <2>1, HeldAtNext, ZenonT(40)
  <2>3. Len(todo[t]) = 0 /\ todo'[t] = s
    BY <1>0, <1>1
  <2>. QED
    BY <1>2, <2>1, <2>2, <2>3, <2>4, Zenon
<1>9. \A p \in To : Held[p] = FREE /\ Held'[p] \in Range(s)
  BY <1>8 DEF Range
<1>10. \A p, q \in To : Held'[p] = Held'[q] => p = q
  <2>. SUFFICES ASSUME NEW i \in 0 .. n - 1, NEW j \in 0 .. n - 1,
                       Held'[<<"todo", t, i>>] = Held'[<<"todo", t, j>>]
                PROVE  i = j
    OBVIOUS
  <2>1. s[n - i] = s[n - j] /\ n - i \in DOMAIN s /\ n - j \in DOMAIN s
    BY <1>8
  <2>2. n - i = n - j
    BY <1>1, <2>1, BirthAssumption
  <2>. QED
    BY <1>2, <2>2
<1>11. \A x \in Range(s) : \E p \in To : Held'[p] = x
  <2>. SUFFICES ASSUME NEW k \in DOMAIN s PROVE \E p \in To : Held'[p] = s[k]
    BY DEF Range
  <2>1. n - k \in 0 .. n - 1 /\ n - (n - k) = k
    BY <1>2
  <2>2. Held'[<<"todo", t, n - k>>] = s[k]
    BY <1>8, <2>1
  <2>. QED
    BY <2>1, <2>2
<1>12. \A p \in Place \ (To \cup {from}) : Held'[p] = Held[p]
  <2>1. ASSUME NEW v \in Thread, NEW i \in Nat
        PROVE  /\ Held'[<<"cell", v, i>>] = Held[<<"cell", v, i>>]
               /\ Held'[<<"high", v, i>>] = Held[<<"high", v, i>>]
               /\ <<"hand", v, i>> # from => Held'[<<"hand", v, i>>] = Held[<<"hand", v, i>>]
               /\ <<"todo", v, i>> \notin To
                    => Held'[<<"todo", v, i>>] = Held[<<"todo", v, i>>]
    <3>1. v # t => cur'[v] = cur[v] /\ todo'[v] = todo[v]
      BY <1>0
    <3>2. /\ Held[<<"hand", v, i>>] = IF i = 0 THEN cur[v] ELSE FREE
          /\ Held'[<<"hand", v, i>>] = IF i = 0 THEN cur'[v] ELSE FREE
      BY HeldAt, HeldAtNext, Zenon
    <3>3. ASSUME v = t, <<"todo", v, i>> \notin To
          PROVE  Held'[<<"todo", v, i>>] = Held[<<"todo", v, i>>]
      <4>1. /\ Held[<<"todo", v, i>>] =
                 IF i < Len(todo[v]) THEN todo[v][Len(todo[v]) - i] ELSE FREE
            /\ Held'[<<"todo", v, i>>] =
                 IF i < Len(todo'[v]) THEN todo'[v][Len(todo'[v]) - i] ELSE FREE
        BY HeldAt, HeldAtNext, Zenon
      <4>2. ~(i < n) /\ ~(i < 0)
        BY <1>2, <3>3
      <4>3. Len(todo[t]) = 0 /\ todo'[t] = s
        BY <1>0, <1>1
      <4>. QED
        BY <3>3, <4>1, <4>2, <4>3, Zenon
    <3>4. v # t => Held'[<<"todo", v, i>>] = Held[<<"todo", v, i>>]
      BY <3>1, SameAt
    <3>5. /\ Held'[<<"cell", v, i>>] = Held[<<"cell", v, i>>]
          /\ Held'[<<"high", v, i>>] = Held[<<"high", v, i>>]
      BY <1>0, SameAt
    <3>. QED
      BY <3>1, <3>2, <3>3, <3>4, <3>5
  <2>2. \A k \in {"cell", "high", "hand", "todo"}, v \in Thread, i \in Nat :
          <<k, v, i>> \notin To \cup {from} => Held'[<<k, v, i>>] = Held[<<k, v, i>>]
    BY <2>1, ZenonT(40)
  <2>. HIDE DEF from, To
  <2>. QED
    BY <2>2, SameElsewhere
<1>13. OneEach(Held', ((Born \ done) \ {r}) \cup Range(s))
  <2>. DEFINE New == Range(s)
  <2>1. New \cap ((Born \ done) \cup {r}) = {}
    BY <1>4, <1>5
  <2>2. OneEach(Held, Born \ done)
    BY DEF HoldInv
  <2>3. r \in Redex /\ New \in SUBSET Redex
    BY <1>1, <1>2
  <2>4. Unfold(Held, Held', from, r, To, New)
    <3>1. /\ from \in Place /\ Held[from] = r /\ Held'[from] = FREE
          /\ To \subseteq Place /\ from \notin To
          /\ \A p \in To : Held[p] = FREE /\ Held'[p] \in New
          /\ \A p, q \in To : Held'[p] = Held'[q] => p = q
          /\ \A x \in New : \E p \in To : Held'[p] = x
          /\ \A p \in Place \ (To \cup {from}) : Held'[p] = Held[p]
      BY <1>3, <1>7, <1>9, <1>10, <1>11, <1>12, Zenon
    <3>. HIDE DEF from, To, r, New
    <3>. QED
      BY <3>1 DEF Unfold
  <2>. HIDE DEF from, To, r, New
  <2>5. OneEach(Held', ((Born \ done) \ {r}) \cup New)
    BY <2>1, <2>2, <2>3, <2>4, Unfolds
  <2>. QED
    BY <2>5 DEF New
<1>14. Born' \ done' = ((Born \ done) \ {r}) \cup Range(s)
  BY <1>0, <1>4, <1>5, <1>6 DEF HoldInv
<1>. QED
  BY <1>0, <1>1, <1>4, <1>5, <1>6, <1>13, <1>14

\* Once normalize has returned nothing is held: every redex born is reduced.
LEMMA AllReduced ==
  ASSUME IInv, HoldInv, Returned
  PROVE  Born \ done = {} /\ \A p \in Place : Held[p] = FREE
<1>1. \A t \in Thread :
        /\ hbag[t] = <<>> /\ cur[t] = FREE /\ todo[t] = <<>>
        /\ \A i \in 0 .. RLEN - 1 : rbag_buf[t][i] = FREE
  BY ReturnedEmpty DEF NothingLeft
<1>2. \A p \in Place : Held[p] = FREE
  <2>. SUFFICES ASSUME NEW t \in Thread, NEW i \in Nat
                PROVE  /\ Held[<<"cell", t, i>>] = FREE
                       /\ Held[<<"high", t, i>>] = FREE
                       /\ Held[<<"hand", t, i>>] = FREE
                       /\ Held[<<"todo", t, i>>] = FREE
    BY PlaceKinds, ZenonT(40)
  <2>1. Len(hbag[t]) = 0 /\ Len(todo[t]) = 0
    BY <1>1
  <2>2. i \notin 1 .. 0 /\ ~(i < 0) /\ (i < RLEN => i \in 0 .. RLEN - 1)
    BY EvaluatorAssumption
  <2>3. Held[<<"cell", t, i>>] = IF i < RLEN THEN rbag_buf[t][i] ELSE FREE
    BY HeldAt, Zenon
  <2>4. Held[<<"high", t, i>>] = IF i \in 1 .. Len(hbag[t]) THEN hbag[t][i] ELSE FREE
    BY HeldAt, Zenon
  <2>5. Held[<<"hand", t, i>>] = IF i = 0 THEN cur[t] ELSE FREE
    BY HeldAt, Zenon
  <2>6. Held[<<"todo", t, i>>] =
          IF i < Len(todo[t]) THEN todo[t][Len(todo[t]) - i] ELSE FREE
    BY HeldAt, Zenon
  <2>. QED
    BY <1>1, <2>1, <2>2, <2>3, <2>4, <2>5, <2>6, Zenon
<1>3. Born \subseteq Redex
  <2>1. \A k \in 1 .. boots : Boots[k] \in Redex
    BY EvaluatorAssumption DEF IInv, TypeOK
  <2>2. \A q \in done : Range(Spawn[q]) \subseteq Redex
    BY EvaluatorAssumption DEF Range, IInv, TypeOK
  <2>. QED
    BY <2>1, <2>2 DEF Born, Booted
<1>4. FREE \notin Redex
  BY EvaluatorAssumption
<1>. QED
  BY <1>2, <1>3, <1>4 DEF HoldInv, OneEach

\* A booted redex comes into the first cell, which normalize has left empty.
LEMMA BootArrives ==
  ASSUME IInv, HoldInv, Boot
  PROVE  /\ Born = done
         /\ Boots[boots + 1] \in Redex \ Born
         /\ Born' = Born \cup {Boots[boots + 1]} /\ done' = done
         /\ OneEach(Held', Born' \ done')
<1>. DEFINE r  == Boots[boots + 1]
            to == <<"cell", 0, 0>>
<1>0. /\ boots < Len(Boots) /\ boots' = boots + 1
      /\ rbag_buf' = [rbag_buf EXCEPT ![0][0] = r]
      /\ hbag' = hbag /\ cur' = cur /\ todo' = todo /\ done' = done
  BY DEF Boot
<1>1. /\ boots \in 0 .. Len(Boots)
      /\ rbag_buf \in [Thread -> [0 .. RLEN - 1 -> Redex \cup {FREE}]]
      /\ done \subseteq Redex
  BY DEF IInv, TypeOK
<1>2. /\ Boots \in Seq(Redex) /\ Len(Boots) \in Nat /\ DOMAIN Boots = 1 .. Len(Boots)
      /\ RLEN \in Nat \ {0} /\ 0 \in Thread /\ 0 \in 0 .. RLEN - 1
  BY EvaluatorAssumption DEF Thread
<1>3. boots + 1 \in DOMAIN Boots /\ r \in Redex
  BY <1>0, <1>1, <1>2
<1>4. Born \ done = {} /\ \A p \in Place : Held[p] = FREE
  BY AllReduced DEF Boot, Returned
<1>7. r \notin Born
  <2>1. \A k \in 1 .. boots : Boots[k] # r
    <3>1. ASSUME NEW k \in 1 .. boots PROVE k \in DOMAIN Boots /\ k # boots + 1
      BY <1>1, <1>2
    <3>. QED
      BY <1>3, <3>1, BirthAssumption
  <2>2. ASSUME NEW q \in done, r \in Range(Spawn[q]) PROVE FALSE
    <3>1. PICK j \in DOMAIN Spawn[q] : r = Spawn[q][j]
      BY <2>2 DEF Range
    <3>2. r \in Range(Boots)
      BY <1>3 DEF Range
    <3>. QED
      BY <1>1, <3>1, <3>2, BirthAssumption
  <2>. QED
    BY <2>1, <2>2 DEF Born, Booted
<1>8. Born' = Born \cup {r}
  <2>1. 1 .. boots + 1 = (1 .. boots) \cup {boots + 1}
    BY <1>1
  <2>2. Booted' = Booted \cup {r}
    BY <1>0, <2>1 DEF Booted
  <2>. QED
    BY <1>0, <2>2 DEF Born
<1>9. to \in Place /\ Held[to] = FREE /\ Held'[to] = r
  <2>1. to \in Place
    BY <1>2, PlaceKinds
  <2>2. Held'[to] = IF 0 < RLEN THEN rbag_buf'[0][0] ELSE FREE
    BY <1>2, 0 \in Nat, HeldAtNext, Zenon
  <2>. QED
    BY <1>0, <1>1, <1>2, <1>4, <2>1, <2>2
<1>10. \A p \in Place \ {to} : Held'[p] = Held[p]
  <2>1. ASSUME NEW v \in Thread, NEW i \in Nat
        PROVE  /\ <<"cell", v, i>> # to => Held'[<<"cell", v, i>>] = Held[<<"cell", v, i>>]
               /\ Held'[<<"high", v, i>>] = Held[<<"high", v, i>>]
               /\ Held'[<<"hand", v, i>>] = Held[<<"hand", v, i>>]
               /\ Held'[<<"todo", v, i>>] = Held[<<"todo", v, i>>]
    <3>1. <<"cell", v, i>> # to /\ i < RLEN => rbag_buf'[v][i] = rbag_buf[v][i]
      BY <1>0, <1>1, <1>2
    <3>. QED
      BY <1>0, <3>1, SameAt
  <2>2. \A k \in {"cell", "high", "hand", "todo"}, v \in Thread, i \in Nat :
          <<k, v, i>> \notin {to} => Held'[<<k, v, i>>] = Held[<<k, v, i>>]
    BY <2>1
  <2>. HIDE DEF to
  <2>. QED
    BY <2>2, SameElsewhere
<1>11. OneEach(Held', (Born \ done) \cup {r})
  <2>1. r \notin Born \ done /\ OneEach(Held, Born \ done)
    BY <1>7 DEF HoldInv
  <2>. HIDE DEF to, r
  <2>. QED
    BY <1>3, <1>9, <1>10, <2>1, Arrives
<1>12. Born' \ done' = (Born \ done) \cup {r}
  BY <1>0, <1>7, <1>8 DEF HoldInv
<1>. QED
  BY <1>0, <1>3, <1>4, <1>7, <1>8, <1>11, <1>12 DEF HoldInv

-----------------------------------------------------------------------------
(* Each step.                                                              *)

\* A step that touches no bag, hand or push moves no redex.
LEMMA HoldSame ==
  ASSUME HoldInv, rbag_buf' = rbag_buf, hbag' = hbag, cur' = cur, todo' = todo,
         done' = done, boots' = boots
  PROVE  HoldInv'
<1>1. Held' = Held
  BY DEF Held, At
<1>2. Born' = Born
  BY DEF Born, Booted
<1>. QED
  BY <1>1, <1>2 DEF HoldInv, OneEach

\* Nor does it matter to the set of those to reduce where a redex is moved to.
LEMMA HoldMoved ==
  ASSUME HoldInv, done' = done, boots' = boots, OneEach(Held', Born \ done)
  PROVE  HoldInv'
BY DEF HoldInv, Born, Booted

LEMMA InitHold == Init => HoldInv
<1>. SUFFICES ASSUME Init PROVE HoldInv
  OBVIOUS
<1>1. Born = {} /\ done = {}
  BY DEF Init, Born, Booted
<1>2. \A p \in Place : Held[p] = FREE
  <2>. SUFFICES ASSUME NEW k \in {"cell", "high", "hand", "todo"}, NEW t \in Thread,
                       NEW i \in Nat
                PROVE  At(k, t, i) = FREE
    BY DEF Place, Held
  <2>1. i < RLEN => i \in 0 .. RLEN - 1
    BY EvaluatorAssumption
  <2>. QED
    BY <2>1 DEF Init, At
<1>3. FREE \notin Redex
  BY EvaluatorAssumption
<1>. QED
  BY <1>1, <1>2, <1>3 DEF HoldInv, OneEach

LEMMA NextHold == IInv /\ HoldInv /\ [Next]_vars => HoldInv'
<1>. SUFFICES ASSUME IInv, HoldInv, [Next]_vars PROVE HoldInv'
  OBVIOUS
<1>0. TypeOK /\ EvalInv /\ OneEach(Held, Born \ done)
  BY DEF IInv, HoldInv
<1>1. CASE Boot
  BY <1>1, BootArrives DEF HoldInv
<1>2. ASSUME NEW t \in Thread, Step(t)
      PROVE  HoldInv'
  <2>1. CASE \/ SetIdle(t) \/ EnterSync(t) \/ LeaveSync1(t) \/ LeaveSync2(t)
             \/ AddItrs(t) \/ Wake(t) \/ GoIdle(t) \/ Check(t)
    BY <2>1, HoldSame DEF SetIdle, EnterSync, LeaveSync1, LeaveSync2, AddItrs, Wake,
                          GoIdle, Check, bagVars
  <2>2. pc[t] \in {"pop", "steal"} => cur[t] = FREE
    BY <1>0 DEF EvalInv, LocalInv
  <2>3. CASE PopHigh(t)
    <3>1. OneEach(Held', Born \ done)
      BY <1>0, <2>2, <2>3, TakesHigh DEF PopHigh
    <3>. QED
      BY <2>3, <3>1, HoldMoved DEF PopHigh
  <2>4. CASE PopLow(t)
    <3>1. rput[t] - 1 \in 0 .. RLEN - 1
      BY <1>0, <2>4, EvaluatorAssumption, SMTT(30) DEF TypeOK, PopLow
    <3>2. OneEach(Held', Born \ done)
      BY <1>0, <2>2, <2>4, <3>1, TakesCell DEF PopLow
    <3>. QED
      BY <2>4, <3>2, HoldMoved DEF PopLow
  <2>5. CASE Interact(t)
    <3>1. done' \subseteq Born'
      BY <1>0, <2>5, Reduces DEF HoldInv
    <3>. QED
      BY <1>0, <2>5, <3>1, Reduces DEF HoldInv
  <2>6. CASE PushBack(t) \/ PushStolen(t)
    <3>1. OneEach(Held', Born \ done)
      BY <1>0, <2>6, HandPushed DEF PushBack, PushStolen
    <3>. QED
      BY <2>6, <3>1, HoldMoved DEF PushBack, PushStolen
  <2>7. CASE Push(t)
    <3>1. OneEach(Held', Born \ done)
      BY <1>0, <2>7, TodoPushed
    <3>. QED
      BY <2>7, <3>1, HoldMoved DEF Push
  <2>8. CASE Steal(t)
    <3>1. PICK u \in Thread, j \in 0 .. RLEN - 1 : Target(t) = <<u, j>>
      BY <1>0, TargetType
    <3>2. Target(t)[1] = u /\ Target(t)[2] = j
      BY <3>1
    <3>3. /\ rbag_buf' = [rbag_buf EXCEPT ![u][j] = FREE]
          /\ cur' = [cur EXCEPT ![t] = rbag_buf[u][j]]
          /\ hbag' = hbag /\ todo' = todo /\ pc[t] = "steal"
      BY <2>8, <3>2 DEF Steal
    <3>4. OneEach(Held', Born \ done)
      BY <1>0, <2>2, <3>3, TakesCell
    <3>. QED
      BY <2>8, <3>4, HoldMoved DEF Steal
  <2>. QED
    BY <1>2, <2>1, <2>3, <2>4, <2>5, <2>6, <2>7, <2>8 DEF Step
<1>3. CASE UNCHANGED vars
  BY <1>3, HoldSame DEF vars, bagVars
<1>. QED
  BY <1>1, <1>2, <1>3 DEF Next

-----------------------------------------------------------------------------
(* Conservation.                                                           *)

\* The sets that Copies counts, as sets of places.
LEMMA CopiesAt ==
  ASSUME TypeOK, NEW r \in Redex
  PROVE  /\ \A p \in Thread \X (0 .. RLEN - 1) :
              rbag_buf[p[1]][p[2]] = r <=> Held[<<"cell", p[1], p[2]>>] = r
         /\ \A p \in Thread \X (1 .. HLEN) :
              p[2] <= Len(hbag[p[1]]) /\ hbag[p[1]][p[2]] = r
                <=> Held[<<"high", p[1], p[2]>>] = r
         /\ \A t \in Thread : cur[t] = r <=> Held[<<"hand", t, 0>>] = r
         /\ \A t \in Thread : \A i \in DOMAIN todo[t] :
              todo[t][i] = r <=> Held[<<"todo", t, Len(todo[t]) - i>>] = r
<1>0. r # FREE /\ RLEN \in Nat /\ HLEN \in Nat
  BY EvaluatorAssumption
<1>1. ASSUME NEW t \in Thread, NEW i \in 0 .. RLEN - 1
      PROVE  rbag_buf[t][i] = r <=> Held[<<"cell", t, i>>] = r
  <2>1. i \in Nat /\ i < RLEN
    BY <1>0
  <2>2. Held[<<"cell", t, i>>] = IF i < RLEN THEN rbag_buf[t][i] ELSE FREE
    BY <2>1, HeldAt, Zenon
  <2>. QED
    BY <2>1, <2>2
<1>2. ASSUME NEW t \in Thread, NEW i \in 1 .. HLEN
      PROVE  i <= Len(hbag[t]) /\ hbag[t][i] = r <=> Held[<<"high", t, i>>] = r
  <2>1. i \in Nat /\ Len(hbag[t]) \in Nat
    BY LenProperties DEF TypeOK
  <2>2. i \in 1 .. Len(hbag[t]) <=> i <= Len(hbag[t])
    BY <2>1
  <2>3. Held[<<"high", t, i>>] = IF i \in 1 .. Len(hbag[t]) THEN hbag[t][i] ELSE FREE
    BY <2>1, HeldAt, Zenon
  <2>. QED
    BY <1>0, <2>2, <2>3, Zenon
<1>3. ASSUME NEW t \in Thread
      PROVE  cur[t] = r <=> Held[<<"hand", t, 0>>] = r
  <2>1. Held[<<"hand", t, 0>>] = IF 0 = 0 THEN cur[t] ELSE FREE
    BY 0 \in Nat, HeldAt, Zenon
  <2>. QED
    BY <2>1
<1>4. ASSUME NEW t \in Thread, NEW i \in DOMAIN todo[t]
      PROVE  todo[t][i] = r <=> Held[<<"todo", t, Len(todo[t]) - i>>] = r
  <2>1. DOMAIN todo[t] = 1 .. Len(todo[t]) /\ Len(todo[t]) \in Nat
    BY DEF TypeOK
  <2>. DEFINE n == Len(todo[t])
  <2>2. n - i \in Nat /\ n - i < n /\ n - (n - i) = i
    BY <2>1
  <2>3. Held[<<"todo", t, n - i>>] =
          IF n - i < Len(todo[t]) THEN todo[t][Len(todo[t]) - (n - i)] ELSE FREE
    BY <2>2, HeldAt, Zenon
  <2>. QED
    BY <2>2, <2>3, Zenon
<1>. QED
  BY <1>1, <1>2, <1>3, <1>4

LEMMA HoldConserved == TypeOK /\ HoldInv => Conserved
<1>. SUFFICES ASSUME TypeOK, HoldInv, NEW r \in Redex
              PROVE  Copies(r) = IF r \in Born \ done THEN 1 ELSE 0
  BY DEF Conserved
<1>. DEFINE Cells == {p \in Thread \X (0 .. RLEN - 1) : rbag_buf[p[1]][p[2]] = r}
            Highs == {p \in Thread \X (1 .. HLEN) :
                        p[2] <= Len(hbag[p[1]]) /\ hbag[p[1]][p[2]] = r}
            Hands == {t \in Thread : cur[t] = r}
            Todos == UNION {{<<t, i>> : i \in {j \in DOMAIN todo[t] : todo[t][j] = r}}
                              : t \in Thread}
<1>0. Copies(r) = Cardinality(Cells) + Cardinality(Highs) + Cardinality(Hands)
                    + Cardinality(Todos)
  BY Zenon DEF Copies
<1>1. /\ RLEN \in Nat /\ HLEN \in Nat /\ r # FREE
      /\ \A t \in Thread : /\ Len(hbag[t]) \in Nat /\ Len(hbag[t]) <= HLEN
                           /\ Len(todo[t]) \in Nat
                           /\ DOMAIN todo[t] = 1 .. Len(todo[t])
  BY EvaluatorAssumption, LenProperties DEF TypeOK
<1>2. /\ \A p, q \in Place : Held[p] = r /\ Held[q] = r => p = q
      /\ r \in Born \ done <=> \E p \in Place : Held[p] = r
  BY <1>1 DEF HoldInv, OneEach
\* The elements of the four sets stand for places that hold the redex.
<1>3. \A t, i : <<t, i>> \in Cells <=>
        t \in Thread /\ i \in 0 .. RLEN - 1 /\ Held[<<"cell", t, i>>] = r
  BY CopiesAt
<1>4. \A t, i : <<t, i>> \in Highs <=>
        t \in Thread /\ i \in 1 .. HLEN /\ Held[<<"high", t, i>>] = r
  BY CopiesAt
<1>5. \A t : t \in Hands <=> t \in Thread /\ Held[<<"hand", t, 0>>] = r
  BY CopiesAt
<1>6. \A t, i : <<t, i>> \in Todos <=>
        /\ t \in Thread /\ i \in DOMAIN todo[t]
        /\ Held[<<"todo", t, Len(todo[t]) - i>>] = r
  <2>1. \A t, i : <<t, i>> \in Todos <=>
          t \in Thread /\ i \in DOMAIN todo[t] /\ todo[t][i] = r
    OBVIOUS
  <2>. QED
    BY <2>1, CopiesAt
<1>7. /\ \A x \in Cells : x = <<x[1], x[2]>>
      /\ \A x \in Highs : x = <<x[1], x[2]>>
      /\ \A x \in Todos : x = <<x[1], x[2]>>
  OBVIOUS
<1>. HIDE DEF Cells, Highs, Hands, Todos
<1>8. /\ \A x \in Cells : /\ <<"cell", x[1], x[2]>> \in Place
                           /\ Held[<<"cell", x[1], x[2]>>] = r
      /\ \A x \in Highs : /\ <<"high", x[1], x[2]>> \in Place
                           /\ Held[<<"high", x[1], x[2]>>] = r
      /\ \A t \in Hands : /\ <<"hand", t, 0>> \in Place
                           /\ Held[<<"hand", t, 0>>] = r
      /\ \A x \in Todos : /\ x[1] \in Thread /\ x[2] \in DOMAIN todo[x[1]]
                           /\ <<"todo", x[1], Len(todo[x[1]]) - x[2]>> \in Place
                           /\ Held[<<"todo", x[1], Len(todo[x[1]]) - x[2]>>] = r
  <2>1. ASSUME NEW x \in Cells
        PROVE  <<"cell", x[1], x[2]>> \in Place /\ Held[<<"cell", x[1], x[2]>>] = r
    <3>1. x[1] \in Thread /\ x[2] \in 0 .. RLEN - 1 /\ Held[<<"cell", x[1], x[2]>>] = r
      BY <1>3, <1>7, Zenon
    <3>2. x[2] \in Nat
      BY <1>1, <3>1
    <3>. QED
      BY <3>1, <3>2, PlaceKinds, Zenon
  <2>2. ASSUME NEW x \in Highs
        PROVE  <<"high", x[1], x[2]>> \in Place /\ Held[<<"high", x[1], x[2]>>] = r
    <3>1. x[1] \in Thread /\ x[2] \in 1 .. HLEN /\ Held[<<"high", x[1], x[2]>>] = r
      BY <1>4, <1>7, Zenon
    <3>2. x[2] \in Nat
      BY <1>1, <3>1
    <3>. QED
      BY <3>1, <3>2, PlaceKinds, Zenon
  <2>3. ASSUME NEW t \in Hands
        PROVE  <<"hand", t, 0>> \in Place /\ Held[<<"hand", t, 0>>] = r
    BY <1>5, PlaceKinds, 0 \in Nat, Zenon
  <2>4. ASSUME NEW x \in Todos
        PROVE  /\ x[1] \in Thread /\ x[2] \in DOMAIN todo[x[1]]
               /\ <<"todo", x[1], Len(todo[x[1]]) - x[2]>> \in Place
               /\ Held[<<"todo", x[1], Len(todo[x[1]]) - x[2]>>] = r
    <3>1. /\ x[1] \in Thread /\ x[2] \in DOMAIN todo[x[1]]
          /\ Held[<<"todo", x[1], Len(todo[x[1]]) - x[2]>>] = r
      BY <1>6, <1>7, Zenon
    <3>2. Len(todo[x[1]]) - x[2] \in Nat
      BY <1>1, <3>1
    <3>. QED
      BY <3>1, <3>2, PlaceKinds, Zenon
  <2>. QED
    BY <2>1, <2>2, <2>3, <2>4, Zenon
<1>9. CASE r \notin Born \ done
  <2>1. Cells = {} /\ Highs = {} /\ Hands = {} /\ Todos = {}
    BY <1>2, <1>8, <1>9, Zenon
  <2>. QED
    BY <1>0, <1>9, <2>1, FS_EmptySet
<1>10. CASE r \in Born \ done
  <2>1. PICK p \in Place : Held[p] = r
    BY <1>2, <1>10, Zenon
  <2>2. /\ \A x \in Cells : <<"cell", x[1], x[2]>> = p
        /\ \A x \in Highs : <<"high", x[1], x[2]>> = p
        /\ \A t \in Hands : <<"hand", t, 0>> = p
        /\ \A x \in Todos : <<"todo", x[1], Len(todo[x[1]]) - x[2]>> = p
    BY <1>2, <1>8, <2>1, Zenon
  <2>3. PICK k \in {"cell", "high", "hand", "todo"}, t \in Thread, i \in Nat :
          p = <<k, t, i>>
    BY DEF Place
  <2>4. /\ k # "cell" => Cells = {}
        /\ k # "high" => Highs = {}
        /\ k # "hand" => Hands = {}
        /\ k # "todo" => Todos = {}
    BY <2>2, <2>3
  <2>5. CASE k = "cell"
    <3>1. Held[<<"cell", t, i>>] = IF i < RLEN THEN rbag_buf[t][i] ELSE FREE
      BY HeldAt, Zenon
    <3>2. i \in 0 .. RLEN - 1
      BY <1>1, <2>1, <2>3, <2>5, <3>1
    <3>3. <<t, i>> \in Cells
      BY <1>3, <2>1, <2>3, <2>5, <3>2, Zenon
    <3>4. \A x \in Cells : x[1] = t /\ x[2] = i
      BY <2>2, <2>3
    <3>5. Cells = {<<t, i>>}
      BY <1>7, <3>3, <3>4, Zenon
    <3>6. Cardinality(Cells) = 1
      BY <3>5, FS_Singleton
    <3>. QED
      BY <1>0, <1>10, <2>4, <2>5, <3>6, FS_EmptySet
  <2>6. CASE k = "high"
    <3>1. Held[<<"high", t, i>>] = IF i \in 1 .. Len(hbag[t]) THEN hbag[t][i] ELSE FREE
      BY HeldAt, Zenon
    <3>2. i \in 1 .. Len(hbag[t])
      BY <1>1, <2>1, <2>3, <2>6, <3>1, Zenon
    <3>3. i \in 1 .. HLEN
      BY <1>1, <3>2
    <3>4. <<t, i>> \in Highs
      BY <1>4, <2>1, <2>3, <2>6, <3>3, Zenon
    <3>5. \A x \in Highs : x[1] = t /\ x[2] = i
      BY <2>2, <2>3
    <3>6. Highs = {<<t, i>>}
      BY <1>7, <3>4, <3>5, Zenon
    <3>7. Cardinality(Highs) = 1
      BY <3>6, FS_Singleton
    <3>. QED
      BY <1>0, <1>10, <2>4, <2>6, <3>7, FS_EmptySet
  <2>7. CASE k = "hand"
    <3>1. Held[<<"hand", t, i>>] = IF i = 0 THEN cur[t] ELSE FREE
      BY HeldAt, Zenon
    <3>2. i = 0
      BY <1>1, <2>1, <2>3, <2>7, <3>1, Zenon
    <3>3. t \in Hands
      BY <1>5, <2>1, <2>3, <2>7, <3>2, Zenon
    <3>4. \A x \in Hands : x = t
      BY <2>2, <2>3
    <3>5. Hands = {t}
      BY <3>3, <3>4, Zenon
    <3>6. Cardinality(Hands) = 1
      BY <3>5, FS_Singleton
    <3>. QED
      BY <1>0, <1>10, <2>4, <2>7, <3>6, FS_EmptySet
  <2>8. CASE k = "todo"
    <3>. DEFINE n == Len(todo[t])
                j == n - i
    <3>1. Held[<<"todo", t, i>>] =
            IF i < Len(todo[t]) THEN todo[t][Len(todo[t]) - i] ELSE FREE
      BY HeldAt, Zenon
    <3>2. i < n
      BY <1>1, <2>1, <2>3, <2>8, <3>1, Zenon
    <3>3. j \in DOMAIN todo[t] /\ n - j = i
      BY <1>1, <3>2
    <3>4. \A x \in Todos : x[1] = t /\ n - x[2] = i /\ x[2] \in 1 .. n
      <4>1. \A x \in Todos : x[1] = t /\ Len(todo[x[1]]) - x[2] = i
        BY <2>2, <2>3
      <4>2. \A x \in Todos : x[2] \in DOMAIN todo[x[1]]
        BY <1>8, Zenon
      <4>. QED
        BY <1>1, <4>1, <4>2, Zenon
    <3>5. \A x \in Todos : x[1] = t /\ x[2] = j
      BY <1>1, <3>4
    <3>6. <<t, j>> \in Todos
      BY <1>6, <2>1, <2>3, <2>8, <3>3, Zenon
    <3>. HIDE DEF j
    <3>7. Todos = {<<t, j>>}
      BY <1>7, <3>5, <3>6, Zenon
    <3>8. Cardinality(Todos) = 1
      BY <3>7, FS_Singleton
    <3>. QED
      BY <1>0, <1>10, <2>4, <2>8, <3>8, FS_EmptySet
  <2>. QED
    BY <2>5, <2>6, <2>7, <2>8
<1>. QED
  BY <1>9, <1>10

\* No redex is lost or duplicated by pops racing with thefts, by pushes over a
\* cell in use, or by a failed interaction: until it is reduced a redex is in
\* exactly one bag cell, hand or list of pushes, afterwards in none.
THEOREM EvaluatorConserves == Spec => []Conserved
<1>1. IInv /\ HoldInv => Conserved
  BY HoldConserved DEF IInv
<1>. QED
  BY <1>1, InitIInv, NextIInv, InitHold, NextHold, PTL DEF Spec

-----------------------------------------------------------------------------
(* The evaluator implements WorkPool.                                      *)

\* When normalize has returned, every redex born is reduced.
EmptyPool == Returned => Born \ done = {}

LEMMA InitPool == Init => Pool!Init
<1>. SUFFICES ASSUME Init PROVE Pool!Init
  OBVIOUS
<1>1. Returned /\ Born = {} /\ done = {}
  BY DEF Init, Returned, Born, Booted
<1>. QED
  BY <1>1 DEF Pool!Init

\* Main's boot, an interaction and the return of the last thread are the three
\* steps of the pool; every other step moves redexes about and leaves it alone.
LEMMA PoolStep ==
  ASSUME IInv, HoldInv, EmptyPool, EmptyPool', [Next]_vars
  PROVE  [Pool!Next]_<<Born \ done, done, ~Returned>>
<1>0. TypeOK /\ EvalInv /\ done \subseteq Born /\ DOMAIN pc = Thread
  BY DEF IInv, HoldInv, TypeOK
<1>1. CASE Boot
  <2>. DEFINE r == Boots[boots + 1]
  <2>1. /\ Born = done /\ r \in Redex \ Born /\ Born' = Born \cup {r}
        /\ done' = done
    BY <1>1, BootArrives
  <2>2. Returned
    BY <1>1 DEF Boot, Returned
  <2>3. ~Returned'
    <3>1. 0 \in Thread
      BY EvaluatorAssumption DEF Thread
    <3>. QED
      BY <1>1, <3>1 DEF Boot, Returned
  <2>. HIDE DEF r
  <2>4. Pool!Boot(r)
    BY <2>1, <2>2, <2>3 DEF Pool!Boot
  <2>. QED
    BY <2>1, <2>4 DEF Pool!Next
<1>2. ASSUME NEW t \in Thread, Step(t)
      PROVE  [Pool!Next]_<<Born \ done, done, ~Returned>>
  <2>1. ~Returned
    BY <1>2 DEF Step, SetIdle, EnterSync, LeaveSync1, LeaveSync2, AddItrs, Wake,
                PopHigh, PopLow, Interact, PushBack, Push, GoIdle, Steal, PushStolen,
                Check, Returned
  <2>2. CASE Interact(t)
    <3>. DEFINE r == cur[t]
    <3>1. /\ r \in Redex /\ r \in Born \ done
          /\ Range(Spawn[r]) \cap Born = {}
          /\ Born' = Born \cup Range(Spawn[r]) /\ done' = done \cup {r}
      BY <1>0, <2>2, Reduces
    <3>2. ~Returned'
      BY <1>0, <2>2 DEF Interact, Goto, Returned
    <3>. HIDE DEF r
    <3>3. Born' \ done' = ((Born \ done) \ {r}) \cup Range(Spawn[r])
      BY <1>0, <3>1
    <3>4. [s \in Redex |-> Range(Spawn[s])][r] = Range(Spawn[r])
      BY <3>1
    <3>5. Pool!Reduce(r)
      BY <2>1, <3>1, <3>2, <3>3, <3>4 DEF Pool!Reduce
    <3>. QED
      BY <3>1, <3>5 DEF Pool!Next
  <2>3. CASE AddItrs(t)
    <3>1. Born' = Born /\ done' = done
      BY <2>3 DEF AddItrs, Born, Booted
    <3>2. CASE Returned'
      <4>1. Pool!Return
        BY <2>1, <3>1, <3>2 DEF Pool!Return, EmptyPool
      <4>. QED
        BY <4>1 DEF Pool!Next
    <3>3. CASE ~Returned'
      BY <2>1, <3>1, <3>3
    <3>. QED
      BY <3>2, <3>3
  <2>4. CASE ~Interact(t) /\ ~AddItrs(t)
    <3>1. boots' = boots /\ done' = done
      BY <1>2, <2>4 DEF Step, SetIdle, EnterSync, LeaveSync1, LeaveSync2, Wake, PopHigh,
                        PopLow, PushBack, Push, GoIdle, Steal, PushStolen, Check
    <3>2. pc'[t] # "out"
      BY <1>0, <1>2, <2>4
         DEF Step, SetIdle, EnterSync, LeaveSync1, LeaveSync2, Wake, PopHigh,
             PopLow, PushBack, Push, GoIdle, Steal, PushStolen, Check, Goto
    <3>3. Born' = Born /\ ~Returned'
      BY <3>1, <3>2 DEF Born, Booted, Returned
    <3>. QED
      BY <2>1, <3>1, <3>3
  <2>. QED
    BY <2>2, <2>3, <2>4
<1>3. CASE UNCHANGED vars
  BY <1>3 DEF vars, Born, Booted, Returned
<1>. QED
  BY <1>1, <1>2, <1>3 DEF Next

\* However the threads interleave, normalize is WorkPool: each redex is reduced
\* exactly once, and a call returns only when every redex it booted, and every
\* one their interactions pushed, has been.
THEOREM EvaluatorImplementsPool == Spec => ImplementsPool
<1>1. IInv /\ HoldInv => EmptyPool
  BY AllReduced DEF EmptyPool
<1>2. IInv /\ HoldInv /\ EmptyPool /\ EmptyPool' /\ [Next]_vars
        => [Pool!Next]_<<Born \ done, done, ~Returned>>
  BY PoolStep
<1>. QED
  BY <1>1, <1>2, InitIInv, NextIInv, InitHold, NextHold, InitPool, PTL
     DEF Spec, ImplementsPool, Pool!Spec

-----------------------------------------------------------------------------
(* The count of interactions.                                              *)

\* Labels at which a thread has counted nothing since its last addition.
Uncounted == {"out", "start", "sync1", "wait1"}

\* mine gives each thread the interactions it has counted and not yet added.
Shares(mine) ==
  /\ mine \in [Thread -> SUBSET (done \ Link)]
  /\ \A t, u \in Thread : t # u => mine[t] \cap mine[u] = {}
  /\ \A t \in Thread : titrs[t] = Cardinality(mine[t])
  /\ itrs = Cardinality((done \ Link) \ UNION {mine[t] : t \in Thread})

\* Every interaction is counted by one thread or in the total, never in both.
CountInv ==
  /\ IsFiniteSet(done)
  /\ \A t \in Thread : pc[t] \in Uncounted => titrs[t] = 0
  /\ \E mine : Shares(mine)

LEMMA InitCount == Init => CountInv
<1>. SUFFICES ASSUME Init PROVE CountInv
  OBVIOUS
<1>. DEFINE mine == [t \in Thread |-> {}]
<1>1. done = {} /\ itrs = 0 /\ \A t \in Thread : titrs[t] = 0
  BY DEF Init
<1>2. IsFiniteSet({}) /\ Cardinality({}) = 0
  BY FS_EmptySet
<1>3. Shares(mine)
  BY <1>1, <1>2 DEF Shares
<1>. QED
  BY <1>1, <1>2, <1>3 DEF CountInv

\* A thread counts one interaction more.
LEMMA Counts ==
  ASSUME TypeOK, HoldInv, CountInv, NEW t \in Thread, Interact(t)
  PROVE  CountInv'
<1>. DEFINE r == cur[t]
<1>0. /\ pc' = [pc EXCEPT ![t] = IF Spawn[r] = <<>> THEN "loop" ELSE "push"]
      /\ titrs' = [titrs EXCEPT ![t] = IF r \in Link THEN titrs[t] ELSE titrs[t] + 1]
      /\ done' = done \cup {r} /\ itrs' = itrs
      /\ titrs \in [Thread -> Nat] /\ DOMAIN pc = Thread
  BY DEF Interact, Goto, TypeOK
<1>1. r \notin done
  <2>1. r \in Redex \cup {FREE}
    BY DEF TypeOK
  <2>2. <<"hand", t, 0>> \in Place /\ Held[<<"hand", t, 0>>] = r
    <3>1. Held[<<"hand", t, 0>>] = IF 0 = 0 THEN cur[t] ELSE FREE
      BY 0 \in Nat, HeldAt, Zenon
    <3>. QED
      BY <3>1, PlaceKinds
  <2>3. CASE r \in Redex
    BY <2>2, <2>3 DEF HoldInv, OneEach
  <2>4. CASE r = FREE
    BY <2>4, EvaluatorAssumption DEF TypeOK
  <2>. QED
    BY <2>1, <2>3, <2>4
<1>. HIDE DEF r
<1>2. IsFiniteSet(done')
  BY <1>0, FS_AddElement DEF CountInv
<1>3. \A u \in Thread : pc'[u] \in Uncounted => titrs'[u] = 0
  <2>. SUFFICES ASSUME NEW u \in Thread, pc'[u] \in Uncounted PROVE titrs'[u] = 0
    OBVIOUS
  <2>1. u # t
    BY <1>0 DEF Uncounted
  <2>2. pc'[u] = pc[u] /\ titrs'[u] = titrs[u]
    BY <1>0, <2>1
  <2>. QED
    BY <2>2 DEF CountInv
<1>4. PICK mine : Shares(mine)
  BY DEF CountInv
<1>5. CASE r \in Link
  <2>1. done' \ Link = done \ Link /\ \A u \in Thread : titrs'[u] = titrs[u]
    BY <1>0, <1>5
  <2>2. Shares(mine)'
    BY <1>0, <1>4, <2>1 DEF Shares
  <2>. QED
    BY <1>2, <1>3, <2>2 DEF CountInv
<1>6. CASE r \notin Link
  <2>0. PICK more : more = [mine EXCEPT ![t] = mine[t] \cup {r}]
    OBVIOUS
  <2>1. mine \in [Thread -> SUBSET (done \ Link)]
    BY <1>4 DEF Shares
  <2>2. more[t] = mine[t] \cup {r} /\ \A u \in Thread \ {t} : more[u] = mine[u]
    BY <2>0, <2>1
  <2>3. done' \ Link = (done \ Link) \cup {r}
    BY <1>0, <1>6
  <2>4. more \in [Thread -> SUBSET (done' \ Link)]
    BY <2>0, <2>1, <2>3
  <2>5. UNION {more[u] : u \in Thread} = (UNION {mine[u] : u \in Thread}) \cup {r}
    <3>1. ASSUME NEW x
          PROVE  x \in UNION {more[u] : u \in Thread}
                   <=> x \in (UNION {mine[u] : u \in Thread}) \cup {r}
      BY <2>2
    <3>. QED
      BY <3>1
  <2>6. (done' \ Link) \ UNION {more[u] : u \in Thread}
          = (done \ Link) \ UNION {mine[u] : u \in Thread}
    BY <1>1, <2>3, <2>5
  <2>7. titrs'[t] = Cardinality(more[t])
    <3>1. IsFiniteSet(mine[t]) /\ r \notin mine[t]
      BY <1>1, <2>1, FS_Subset DEF CountInv
    <3>2. Cardinality(mine[t] \cup {r}) = Cardinality(mine[t]) + 1
      BY <3>1, FS_AddElement
    <3>3. titrs'[t] = titrs[t] + 1 /\ titrs[t] = Cardinality(mine[t])
      BY <1>0, <1>4, <1>6 DEF Shares
    <3>. QED
      BY <2>2, <3>2, <3>3
  <2>8. \A u \in Thread : titrs'[u] = Cardinality(more[u])
    BY <1>0, <1>4, <2>2, <2>7 DEF Shares
  <2>9. \A u, v \in Thread : u # v => more[u] \cap more[v] = {}
    <3>1. \A u \in Thread : r \notin mine[u]
      BY <1>1, <2>1
    <3>. QED
      BY <1>4, <2>2, <3>1 DEF Shares
  <2>10. Shares(more)'
    BY <1>0, <1>4, <2>4, <2>6, <2>8, <2>9 DEF Shares
  <2>. QED
    BY <1>2, <1>3, <2>10 DEF CountInv
<1>. QED
  BY <1>5, <1>6

\* A thread's count is added to the total, and starts again.
LEMMA Adds ==
  ASSUME TypeOK, CountInv, NEW t \in Thread, AddItrs(t)
  PROVE  CountInv'
<1>0. /\ pc' = [pc EXCEPT ![t] = "out"] /\ done' = done
      /\ titrs' = [titrs EXCEPT ![t] = 0] /\ itrs' = itrs + titrs[t]
      /\ titrs \in [Thread -> Nat] /\ DOMAIN pc = Thread
      /\ itrs \in Nat
  BY DEF AddItrs, Goto, TypeOK
<1>1. \A u \in Thread : pc'[u] \in Uncounted => titrs'[u] = 0
  BY <1>0 DEF CountInv
<1>2. PICK mine : Shares(mine)
  BY DEF CountInv
<1>. DEFINE less  == [mine EXCEPT ![t] = {}]
            Own   == mine[t]
            Total == (done \ Link) \ UNION {mine[u] : u \in Thread}
<1>3. mine \in [Thread -> SUBSET (done \ Link)]
  BY <1>2 DEF Shares
<1>4. /\ less[t] = {} /\ \A u \in Thread \ {t} : less[u] = mine[u]
      /\ less \in [Thread -> SUBSET (done \ Link)]
  BY <1>3
<1>5. \A u, v \in Thread : u # v => less[u] \cap less[v] = {}
  <2>. HIDE DEF less
  <2>. QED
    BY <1>2, <1>4 DEF Shares
<1>6. (done \ Link) \ UNION {less[u] : u \in Thread} = Total \cup Own
  <2>. HIDE DEF less
  <2>1. ASSUME NEW x \in done \ Link
        PROVE  x \notin UNION {less[u] : u \in Thread} <=> x \in Total \cup Own
    BY <1>2, <1>4 DEF Shares
  <2>2. Total \cup Own \subseteq done \ Link
    BY <1>3
  <2>. HIDE DEF Total, Own
  <2>. QED
    BY <2>1, <2>2
<1>7. IsFiniteSet(Total) /\ IsFiniteSet(Own) /\ Total \cap Own = {}
  <2>1. IsFiniteSet(done) /\ Total \subseteq done /\ Own \subseteq done
    BY <1>3 DEF CountInv
  <2>. QED
    BY <2>1, FS_Subset
<1>8. Cardinality(Total \cup Own) = Cardinality(Total) + Cardinality(Own)
  <2>1. Cardinality(Total) \in Nat /\ Cardinality(Own) \in Nat
    BY <1>7, FS_CardinalityType
  <2>2. Cardinality(Total \cap Own) = 0
    BY <1>7, FS_EmptySet
  <2>. HIDE DEF Total, Own
  <2>3. Cardinality(Total \cup Own)
          = Cardinality(Total) + Cardinality(Own) - Cardinality(Total \cap Own)
    BY <1>7, FS_Union, Zenon
  <2>. QED
    BY <2>1, <2>2, <2>3
<1>9. itrs' = Cardinality((done \ Link) \ UNION {less[u] : u \in Thread})
  <2>1. itrs = Cardinality(Total) /\ titrs[t] = Cardinality(Own)
    BY <1>2 DEF Shares
  <2>. QED
    BY <1>0, <1>6, <1>8, <2>1, Zenon
<1>10. \A u \in Thread : titrs'[u] = Cardinality(less[u])
  BY <1>0, <1>2, <1>4, FS_EmptySet DEF Shares
<1>. HIDE DEF less
<1>11. Shares(less)'
  BY <1>0, <1>4, <1>5, <1>9, <1>10 DEF Shares
<1>. QED
  BY <1>0, <1>1, <1>11 DEF CountInv

LEMMA NextCount == IInv /\ HoldInv /\ CountInv /\ [Next]_vars => CountInv'
<1>. SUFFICES ASSUME IInv, HoldInv, CountInv, [Next]_vars PROVE CountInv'
  OBVIOUS
<1>0. TypeOK /\ DOMAIN pc = Thread
  BY DEF IInv, TypeOK
\* What is left to show where no count changes.
<1>1. ASSUME itrs' = itrs, titrs' = titrs, done' = done,
             \A u \in Thread : pc'[u] \in Uncounted => pc[u] \in Uncounted
      PROVE  CountInv'
  BY <1>1 DEF CountInv, Shares
<1>2. CASE Boot
  BY <1>1, <1>2 DEF Boot, countVars, Uncounted
<1>3. ASSUME NEW t \in Thread, Step(t)
      PROVE  CountInv'
  <2>1. CASE Interact(t)
    BY <1>0, <2>1, Counts
  <2>2. CASE AddItrs(t)
    BY <1>0, <2>2, Adds
  <2>3. CASE ~Interact(t) /\ ~AddItrs(t)
    <3>1. itrs' = itrs /\ titrs' = titrs /\ done' = done
      BY <1>3, <2>3 DEF Step, SetIdle, EnterSync, LeaveSync1, LeaveSync2, Wake, PopHigh,
                        PopLow, PushBack, Push, GoIdle, Steal, PushStolen, Check, countVars
    <3>2. /\ pc'[t] \in Uncounted => pc[t] \in Uncounted
          /\ \A u \in Thread \ {t} : pc'[u] = pc[u]
      BY <1>0, <1>3, <2>3
         DEF Step, SetIdle, EnterSync, LeaveSync1, LeaveSync2, Wake, PopHigh,
             PopLow, PushBack, Push, GoIdle, Steal, PushStolen, Check, Goto, Uncounted
    <3>. QED
      BY <1>1, <3>1, <3>2
  <2>. QED
    BY <2>1, <2>2, <2>3
<1>4. CASE UNCHANGED vars
  BY <1>1, <1>4 DEF vars, countVars
<1>. QED
  BY <1>2, <1>3, <1>4 DEF Next

\* When normalize returns, the total counts every interaction but the links,
\* each once, over all the calls: no thread's count is added twice or lost.
THEOREM CountOfInteractions == Spec => []ItrsExact
<1>1. CountInv => ItrsExact
  <2>. SUFFICES ASSUME CountInv, Returned PROVE itrs = Cardinality(done \ Link)
    BY DEF ItrsExact
  <2>1. PICK mine : Shares(mine)
    BY DEF CountInv
  <2>2. ASSUME NEW t \in Thread PROVE mine[t] = {}
    <3>1. Cardinality(mine[t]) = 0
      BY <2>1 DEF CountInv, Shares, Returned, Uncounted
    <3>2. IsFiniteSet(mine[t])
      BY <2>1, FS_Subset DEF CountInv, Shares
    <3>. QED
      BY <3>1, <3>2, FS_EmptySet
  <2>3. (done \ Link) \ UNION {mine[t] : t \in Thread} = done \ Link
    BY <2>2
  <2>. QED
    BY <2>1, <2>3 DEF Shares
<1>. QED
  BY <1>1, InitIInv, NextIInv, InitHold, NextHold, InitCount, NextCount, PTL DEF Spec

=============================================================================
