----------------------------- MODULE CudaProofs ------------------------------
(***************************************************************************)
(* Proofs about the evaluator of the CUDA runtime, for any size of blocks  *)
(* and grid, any capacities and any tree of redexes.  Threads load and     *)
(* save slices of their own, and a redex is given to a thread that has     *)
(* none.  In the runs that Orderly describes, the count the host reads is  *)
(* that of the redexes saved, no redex is lost or reduced twice, and       *)
(* gnet_normalize returns only when none is left.                          *)
(***************************************************************************)
EXTENDS CudaEvaluator, NaturalLemmas, SequenceTheorems

-----------------------------------------------------------------------------
(* The inductive invariant.                                                *)

HighEntries == {e \in Entries : is_high_priority(e)}
LowEntries == {e \in Entries : ~is_high_priority(e)}
NodeEntries == {e \in HighEntries : Leak(e)}
Bag == [hi : Seq(HighEntries), lo : Seq(LowEntries)]

Stages == {"exit", "load", "give", "take", "work", "save", "flush"}

KernelTypes ==
  /\ turn \in {0, 1} /\ rdec \in {0, 1}
  /\ bags \in [{0, 1} -> [Thread -> Seq(Entries)]]
  /\ pos \in [Thread -> Nat]
  /\ stage \in [Block -> Stages] /\ tick \in [Block -> Nat]
  /\ pc \in [Thread -> Stages \cup {"wait", "high"}]
  /\ rbag \in [Thread -> Bag]
  /\ spawn \in [Thread -> Entries \cup {EMPTY, FULL}]
  /\ rpos \in [Thread -> Nat]
  /\ redex \in [Thread -> Entries \cup {NONE}]

\* What a thread's label says of its block, its bag and the cell it may fill.
LabelInv(t) ==
  /\ pc[t] \notin {"wait", "high"} => pc[t] = stage[BID(t)]
  /\ pc[t] = "high" => stage[BID(t)] \in {"give", "work"}
  /\ pc[t] \in {"high", "work", "flush"} => rbag[t] # NoRedexes
  /\ stage[BID(t)] = "give" /\ pc[t] \in {"give", "high"} =>
       TID(t) < span(tick[BID(t)]) /\ spawn[t + span(tick[BID(t)])] = EMPTY
  /\ pc[t] = "take" => spawn[t] \notin {EMPTY, FULL}

\* While redexes are given, a thread without FULL in its cell has none.
SpawnInv(t) ==
  stage[BID(t)] \in {"give", "take"} /\ spawn[t] # FULL => rbag[t] = NoRedexes

\* A tick of SEED or GROW mode has partners in the block for half its threads.
TickInv(b) == stage[b] \in {"give", "take"} => tick[b] < TPB_L2

KernelInv ==
  /\ KernelTypes
  /\ \A t \in Thread : LabelInv(t) /\ SpawnInv(t)
  /\ \A b \in Block : TickInv(b)

-----------------------------------------------------------------------------
(* Blocks, threads and slices.                                             *)

LEMMA Doubling == \A n \in Nat : 2^(n + 1) = 2^n + 2^n
<1>1. 2^1 = 2
  <2>1. PICK S : S = 1 .. 1
    OBVIOUS
  <2>2. SUBSET S = {{}, {1}}
    <3>1. S = {1}
      BY <2>1
    <3>. QED
      BY <3>1
  <2>3. {} # {1}
    OBVIOUS
  <2>4. IsFiniteSet({{}, {1}}) /\ Cardinality({{}, {1}}) = 2
    <3>1. IsFiniteSet({{1}}) /\ Cardinality({{1}}) = 1
      BY FS_Singleton
    <3>2. {} \notin {{1}} /\ {{}, {1}} = {{1}} \cup {{}}
      BY <2>3
    <3>3. PICK U, x : U = {{1}} /\ x = {}
      OBVIOUS
    <3>4. IsFiniteSet(U) /\ Cardinality(U) = 1 /\ x \notin U
      BY <3>1, <3>2, <3>3
    <3>5. IsFiniteSet(U \cup {x}) /\ Cardinality(U \cup {x}) = 2
      BY <3>4, FS_AddElement
    <3>. QED
      BY <3>2, <3>3, <3>5
  <2>5. Cardinality(SUBSET (1 .. 1)) = 2^1
    BY Powers
  <2>. QED
    BY <2>1, <2>2, <2>4, <2>5
<1>2. ASSUME NEW n \in Nat PROVE 2^(n + 1) = 2^n + 2^n
  <2>1. 2^(n + 1) = 2^n * 2^1
    BY PowerSum
  <2>2. PICK m \in Nat : m = 2^n
    BY Powers
  <2>. QED
    BY <1>1, <2>1, <2>2
<1>. QED
  BY <1>2

LEMMA Sizes ==
  /\ TPB \in Nat \ {0} /\ BPG \in Nat \ {0}
  /\ \E q \in Nat \ {0} : TPB = BPG * q
<1>1. TPB \in Nat \ {0} /\ BPG \in Nat \ {0}
  BY Powers, CudaAssumption DEF TPB, BPG
<1>2. PICK d \in Nat : TPB_L2 = BPG_L2 + d
  <2>1. TPB_L2 - BPG_L2 \in Nat /\ TPB_L2 = BPG_L2 + (TPB_L2 - BPG_L2)
    BY CudaAssumption
  <2>. QED
    BY <2>1
<1>3. TPB = BPG * 2^d
  BY <1>2, PowerSum, CudaAssumption DEF TPB, BPG
<1>4. 2^d \in Nat \ {0}
  BY Powers
<1>. QED
  BY <1>1, <1>3, <1>4

\* A thread is its place in the grid of blocks.
LEMMA Grid ==
  /\ \A t \in Thread : /\ BID(t) \in Block /\ TID(t) \in 0 .. TPB - 1
                       /\ t = TPB * BID(t) + TID(t)
  /\ \A b \in Block, k \in 0 .. TPB - 1 :
       TPB * b + k \in Thread /\ BID(TPB * b + k) = b /\ TID(TPB * b + k) = k
<1>1. PICK T \in Nat \ {0}, B \in Nat \ {0} : T = TPB /\ B = BPG
  BY Sizes
<1>2. \A u, v \in Nat : u < v => T * u + T <= T * v
  <2>. SUFFICES ASSUME NEW u \in Nat, NEW v \in Nat, u < v PROVE T * u + T <= T * v
    OBVIOUS
  <2>1. PICK w \in Nat : v = u + 1 + w
    <3>1. v - u - 1 \in Nat /\ v = u + 1 + (v - u - 1)
      OBVIOUS
    <3>. QED
      BY <3>1
  <2>2. T * v = T * u + T + T * w /\ T * w \in Nat
    BY <2>1
  <2>. QED
    BY <2>2
<1>3. \A b \in Nat : T * b \in Nat
  OBVIOUS
<1>4. Thread = 0 .. T * B - 1 /\ Block = 0 .. B - 1
  BY <1>1 DEF Thread, Block
<1>5. ASSUME NEW t \in Thread
      PROVE  BID(t) \in Block /\ TID(t) \in 0 .. TPB - 1 /\ t = TPB * BID(t) + TID(t)
  <2>1. t \in Nat /\ t < T * B
    BY <1>3, <1>4
  <2>2. PICK q \in Nat, r \in 0 .. T - 1 : q = t \div T /\ r = t % T /\ t = T * q + r
    <3>1. t \div T \in Nat /\ t % T \in 0 .. T - 1 /\ t = T * (t \div T) + (t % T)
      BY <2>1, Division, Zenon
    <3>. QED
      BY <3>1, Zenon
  <2>3. q < B
    <3>1. B < q => T * B + T <= T * q
      BY <1>2
    <3>2. B = q => T * B = T * q
      OBVIOUS
    <3>. QED
      BY <1>3, <2>1, <2>2, <3>1, <3>2
  <2>. QED
    BY <1>1, <1>4, <2>2, <2>3 DEF BID, TID
<1>6. ASSUME NEW b \in Block, NEW k \in 0 .. TPB - 1
      PROVE  TPB * b + k \in Thread /\ BID(TPB * b + k) = b /\ TID(TPB * b + k) = k
  <2>1. b \in Nat /\ b < B /\ k \in Nat /\ k < T
    BY <1>1, <1>4
  <2>2. T * b + T <= T * B /\ T * b \in Nat
    BY <1>2, <1>3, <2>1
  <2>3. T * B \in Nat
    OBVIOUS
  <2>4. T * b + k \in Thread
    BY <1>4, <2>1, <2>2, <2>3
  <2>5. PICK n \in Nat : n = T * b + k
    BY <2>1, <2>2
  <2>6. n \div T = b /\ n % T = k
    BY <2>1, <2>5, DivisionUnique, SMTT(30)
  <2>. QED
    BY <1>1, <2>4, <2>5, <2>6 DEF BID, TID
<1>. QED
  BY <1>5, <1>6

\* A partner is another thread of the block.
LEMMA Partner ==
  ASSUME NEW t \in Thread, NEW k \in Nat, k < TPB_L2, TID(t) < span(k)
  PROVE  /\ span(k) \in Nat \ {0} /\ t + span(k) \in Thread
         /\ BID(t + span(k)) = BID(t)
<1>1. PICK s \in Nat \ {0} : s = span(k)
  BY Powers DEF span
<1>2. s + s <= TPB
  <2>1. PICK m \in Nat : TPB_L2 = (k + 1) + m
    <3>1. TPB_L2 - (k + 1) \in Nat /\ TPB_L2 = (k + 1) + (TPB_L2 - (k + 1))
      BY CudaAssumption
    <3>. QED
      BY <3>1
  <2>2. TPB = 2^(k + 1) * 2^m
    <3>1. \A a, b \in Nat : 2^(a + b) = 2^a * 2^b
      BY PowerSum
    <3>2. k + 1 \in Nat
      OBVIOUS
    <3>. QED
      BY <2>1, <3>1, <3>2 DEF TPB
  <2>3. 2^(k + 1) = s + s
    BY <1>1, Doubling DEF span
  <2>4. PICK n \in Nat : 2^m = n + 1
    <3>1. 2^m \in Nat \ {0}
      BY Powers
    <3>2. 2^m - 1 \in Nat /\ 2^m = (2^m - 1) + 1
      BY <3>1
    <3>. QED
      BY <3>2
  <2>5. TPB = (s + s) * n + (s + s) /\ (s + s) * n \in Nat
    BY <2>2, <2>3, <2>4
  <2>. QED
    BY <2>5
<1>3. PICK b \in Block, j \in 0 .. TPB - 1 : b = BID(t) /\ j = TID(t) /\ t = TPB * b + j
  BY Grid
<1>4. PICK T \in Nat : T = TPB
  BY Sizes
<1>5. j + s \in 0 .. TPB - 1
  BY <1>1, <1>2, <1>3, <1>4
<1>6. t + s = TPB * b + (j + s)
  <2>1. T * b \in Int
    BY DEF Block
  <2>. QED
    BY <1>3, <1>4, <2>1
<1>. QED
  BY <1>1, <1>3, <1>5, <1>6, Grid

\* transpose gives each thread a slice, and no two the same one (hvm.cu:346-352).
LEMMA Transposed ==
  /\ \A t \in Thread : transpose(t) \in Thread
  /\ \A s, t \in Thread : transpose(s) = transpose(t) => s = t
<1>1. PICK T \in Nat \ {0}, B \in Nat \ {0}, q \in Nat \ {0} : T = TPB /\ B = BPG /\ T = B * q
  BY Sizes
<1>2. T \div B = q
  <2>1. T \in Nat /\ 0 \in 0 .. B - 1 /\ T = B * q + 0
    BY <1>1
  <2>. QED
    BY <2>1, DivisionUnique
\* The row, and the two digits of the column.
<1>3. ASSUME NEW t \in Thread
      PROVE  \E r \in 0 .. B - 1, h \in 0 .. q - 1, l \in 0 .. B - 1 :
               /\ t = T * r + (B * h + l)
               /\ transpose(t) = T * l + (q * r + h)
               /\ q * r + h \in 0 .. T - 1
  <2>1. PICK r \in 0 .. B - 1, c \in 0 .. T - 1 : r = BID(t) /\ c = TID(t) /\ t = T * r + c
    BY <1>1, Grid DEF Block
  <2>2. PICK h \in Nat, l \in 0 .. B - 1 : h = c \div B /\ l = c % B /\ c = B * h + l
    <3>1. c \in Nat
      OBVIOUS
    <3>2. c \div B \in Nat /\ c % B \in 0 .. B - 1 /\ c = B * (c \div B) + (c % B)
      BY <3>1, Division, Zenon
    <3>. QED
      BY <3>2, Zenon
  <2>3. h < q
    <3>1. B * q <= B * h \/ h < q
      <4>1. CASE q <= h
        <5>1. PICK w \in Nat : h = q + w
          <6>1. h - q \in Nat /\ h = q + (h - q)
            BY <4>1
          <6>. QED
            BY <6>1
        <5>2. B * h = B * q + B * w /\ B * w \in Nat /\ B * q \in Nat
          BY <5>1
        <5>. QED
          BY <5>2
      <4>. QED
        BY <4>1
    <3>2. B * h \in Nat
      OBVIOUS
    <3>. QED
      BY <1>1, <2>2, <3>1, <3>2
  <2>4. q * r + h \in 0 .. T - 1
    <3>1. PICK w \in Nat : B = r + 1 + w
      <4>1. B - r - 1 \in Nat /\ B = r + 1 + (B - r - 1)
        OBVIOUS
      <4>. QED
        BY <4>1
    <3>2. B * q = q * r + q + q * w /\ q * w \in Nat /\ q * r \in Nat
      BY <3>1
    <3>. QED
      BY <1>1, <2>3, <3>2
  <2>5. transpose(t) = T * l + (q * r + h)
    <3>1. transpose(t) = l * T + h + r * q
      BY <1>1, <1>2, <2>1, <2>2 DEF transpose, BID, TID
    <3>2. l * T \in Int /\ r * q \in Int /\ l * T = T * l /\ r * q = q * r
      OBVIOUS
    <3>. QED
      BY <3>1, <3>2
  <2>6. h \in 0 .. q - 1 /\ t = T * r + (B * h + l)
    BY <2>1, <2>2, <2>3
  <2>. QED
    BY <2>4, <2>5, <2>6, Zenon
<1>4. ASSUME NEW t \in Thread PROVE transpose(t) \in Thread
  <2>0. PICK r \in 0 .. B - 1, h \in 0 .. q - 1, l \in 0 .. B - 1 :
          transpose(t) = T * l + (q * r + h) /\ q * r + h \in 0 .. T - 1
    BY <1>3, Zenon
  <2>1. PICK k \in 0 .. T - 1 : transpose(t) = T * l + k
    BY <2>0, Zenon
  <2>2. \A b \in Block, j \in 0 .. TPB - 1 : TPB * b + j \in Thread
    BY Grid
  <2>3. l \in Block /\ k \in 0 .. TPB - 1 /\ transpose(t) = TPB * l + k
    BY <1>1, <2>1 DEF Block
  <2>. QED
    BY <2>2, <2>3, Zenon
<1>5. ASSUME NEW s \in Thread, NEW t \in Thread, transpose(s) = transpose(t) PROVE s = t
  <2>1. PICK r \in 0 .. B - 1, h \in 0 .. q - 1, l \in 0 .. B - 1 :
          /\ s = T * r + (B * h + l)
          /\ transpose(s) = T * l + (q * r + h)
          /\ q * r + h \in 0 .. T - 1
    BY <1>3
  <2>2. PICK rr \in 0 .. B - 1, hh \in 0 .. q - 1, ll \in 0 .. B - 1 :
          /\ t = T * rr + (B * hh + ll)
          /\ transpose(t) = T * ll + (q * rr + hh)
          /\ q * rr + hh \in 0 .. T - 1
    BY <1>3
  <2>3. PICK n, m, mm : n = transpose(s) /\ m = q * r + h /\ mm = q * rr + hh
    OBVIOUS
  <2>4. n \in Nat /\ n = T * l + m /\ n = T * ll + mm /\ m \in 0 .. T - 1 /\ mm \in 0 .. T - 1
    <3>1. n \in Nat
      BY <1>4, <2>3 DEF Thread
    <3>. QED
      BY <1>5, <2>1, <2>2, <2>3, <3>1
  <2>5. /\ n \div T = l /\ n % T = m
        /\ n \div T = ll /\ n % T = mm
    <3>1. \A u \in Nat, v \in 0 .. T - 1 : n = T * u + v => n \div T = u /\ n % T = v
      BY <2>4, DivisionUnique
    <3>2. l \in Nat /\ ll \in Nat
      OBVIOUS
    <3>3. /\ n = T * l + m => n \div T = l /\ n % T = m
          /\ n = T * ll + mm => n \div T = ll /\ n % T = mm
      BY <2>4, <3>1, <3>2, Zenon
    <3>. QED
      BY <2>4, <3>3, Zenon
  <2>6. l = ll /\ m = mm
    BY <2>5
  <2>7. m \div q = r /\ m % q = h /\ mm \div q = rr /\ mm % q = hh
    <3>1. m \in Nat /\ mm \in Nat /\ r \in Nat /\ rr \in Nat
      BY <2>4
    <3>2. m \div q = r /\ m % q = h
      BY <2>3, <3>1, DivisionUnique
    <3>3. mm \div q = rr /\ mm % q = hh
      BY <2>3, <3>1, DivisionUnique
    <3>. QED
      BY <3>2, <3>3
  <2>8. r = rr /\ h = hh
    BY <2>6, <2>7
  <2>. QED
    BY <2>1, <2>2, <2>6, <2>8
<1>. QED
  BY <1>4, <1>5

\* Every thread has a slice of the global bag of its own to load from and to save
\* to, in every mode: the loops of load_redexes and save_redexes, which other
\* blocks run at the same time, share no cell (hvm.cu:346, 1430, 1467).
THEOREM SlicesApart ==
  /\ \A t \in Thread : BagOf(t) \in Thread
  /\ \A s, t \in Thread : BagOf(s) = BagOf(t) => s = t
BY Transposed DEF BagOf

-----------------------------------------------------------------------------
(* Bags.                                                                   *)

LEMMA NoRedexesTyped == NoRedexes \in Bag
BY DEF NoRedexes, Bag

LEMMA HasSome ==
  ASSUME NEW b \in Bag
  PROVE  /\ rbag_len(b) \in Nat
         /\ rbag_len(b) = 0 <=> b = NoRedexes
         /\ has_highs(b) => b # NoRedexes
         /\ Len(b.lo) > 0 => b # NoRedexes
<1>1. b = [hi |-> b.hi, lo |-> b.lo] /\ b.hi \in Seq(HighEntries) /\ b.lo \in Seq(LowEntries)
  BY DEF Bag
<1>2. NoRedexes.hi = <<>> /\ NoRedexes.lo = <<>> /\ NoRedexes = [hi |-> <<>>, lo |-> <<>>]
  BY DEF NoRedexes
<1>3. /\ Len(b.hi) \in Nat /\ Len(b.lo) \in Nat
      /\ Len(b.hi) = 0 <=> b.hi = <<>>
      /\ Len(b.lo) = 0 <=> b.lo = <<>>
  BY <1>1
<1>. QED
  BY <1>1, <1>2, <1>3 DEF rbag_len, has_highs

LEMMA PushTyped ==
  ASSUME NEW b \in Bag, NEW e \in Entries
  PROVE  push_redex(b, e) \in Bag
<1>1. b = [hi |-> b.hi, lo |-> b.lo] /\ b.hi \in Seq(HighEntries) /\ b.lo \in Seq(LowEntries)
  BY DEF Bag
<1>2. CASE is_high_priority(e)
  <2>1. e \in HighEntries
    BY <1>2 DEF HighEntries
  <2>2. push_redex(b, e) = [hi |-> Append(b.hi, e), lo |-> b.lo]
    BY <1>1, <1>2 DEF push_redex
  <2>. QED
    BY <1>1, <2>1, <2>2 DEF Bag
<1>3. CASE ~is_high_priority(e)
  <2>1. e \in LowEntries
    BY <1>3 DEF LowEntries
  <2>2. push_redex(b, e) = [hi |-> b.hi, lo |-> Append(b.lo, e)]
    BY <1>1, <1>3 DEF push_redex
  <2>. QED
    BY <1>1, <2>1, <2>2 DEF Bag
<1>. QED
  BY <1>2, <1>3

Filling(f, b, s) ==
  f = [n \in 0 .. Len(s) |-> IF n = 0 THEN b ELSE push_redex(f[n - 1], s[n])]

LEMMA PushAllIs ==
  ASSUME NEW b, NEW s
  PROVE  push_all(b, s) = (CHOOSE f : Filling(f, b, s))[Len(s)]
BY DEF push_all, Filling

\* The bags it goes through.
LEMMA PushAllSteps ==
  ASSUME NEW b \in Bag, NEW s \in Seq(Entries)
  PROVE  \E f : /\ f[0] = b /\ push_all(b, s) = f[Len(s)]
                /\ \A n \in 0 .. Len(s) : f[n] \in Bag
                /\ \A n \in 1 .. Len(s) : f[n] = push_redex(f[n - 1], s[n])
<1>1. PICK k \in Nat : k = Len(s)
  OBVIOUS
<1>2. \A n \in 1 .. k : s[n] \in Entries
  BY <1>1
<1>3. PICK g : g = [p \in Bag \X (1 .. k) |-> push_redex(p[1], s[p[2]])]
  OBVIOUS
<1>4. g \in [Bag \X (1 .. k) -> Bag]
  <2>1. \A p \in Bag \X (1 .. k) : p[1] \in Bag /\ s[p[2]] \in Entries
    BY <1>2
  <2>2. \A p \in Bag \X (1 .. k) : push_redex(p[1], s[p[2]]) \in Bag
    BY <2>1, PushTyped
  <2>. QED
    BY <1>3, <2>2
<1>5. PICK h : Iterated(h, Bag, k, b, g)
  BY <1>4, Iterates
<1>. USE <1>5 DEF Iterated
<1>6. Filling(h, b, s)
  <2>1. \A n \in 1 .. k : h[n] = push_redex(h[n - 1], s[n])
    <3>. SUFFICES ASSUME NEW n \in 1 .. k PROVE h[n] = push_redex(h[n - 1], s[n])
      OBVIOUS
    <3>1. n - 1 \in 0 .. k
      OBVIOUS
    <3>2. <<h[n - 1], n>> \in Bag \X (1 .. k)
      BY <3>1
    <3>3. g[<<h[n - 1], n>>] = push_redex(h[n - 1], s[n])
      BY <1>3, <3>2
    <3>. QED
      BY <1>5, <3>3
  <2>2. \A n \in 0 .. k : h[n] = IF n = 0 THEN b ELSE push_redex(h[n - 1], s[n])
    BY <1>5, <2>1
  <2>3. h = [n \in 0 .. k |-> h[n]]
    OBVIOUS
  <2>4. [n \in 0 .. k |-> h[n]] = [n \in 0 .. k |-> IF n = 0 THEN b ELSE push_redex(h[n - 1], s[n])]
    BY <2>2
  <2>. QED
    BY <1>1, <2>3, <2>4 DEF Filling
<1>7. PICK f : f = CHOOSE x : Filling(x, b, s)
  OBVIOUS
<1>8. Filling(f, b, s)
  BY <1>6, <1>7
<1>9. \A n \in 0 .. k : f[n] = IF n = 0 THEN b ELSE push_redex(f[n - 1], s[n])
  BY <1>1, <1>8 DEF Filling
<1>10. f[0] \in Bag
  BY <1>9
<1>11. \A n \in 1 .. k : f[n - 1] \in Bag => f[n] \in Bag
  <2>. SUFFICES ASSUME NEW n \in 1 .. k, f[n - 1] \in Bag PROVE f[n] \in Bag
    OBVIOUS
  <2>1. f[n] = push_redex(f[n - 1], s[n])
    BY <1>9
  <2>. QED
    BY <1>2, <2>1, PushTyped
<1>12. \A n \in 0 .. k : f[n] \in Bag
  BY <1>10, <1>11, Reaches
<1>13. \A n \in 1 .. k : f[n] = push_redex(f[n - 1], s[n])
  BY <1>9
<1>14. f[0] = b
  BY <1>9
<1>15. push_all(b, s) = f[Len(s)]
  BY <1>7, PushAllIs
<1>. QED
  BY <1>1, <1>12, <1>13, <1>14, <1>15

LEMMA PushAllTyped ==
  ASSUME NEW b \in Bag, NEW s \in Seq(Entries)
  PROVE  push_all(b, s) \in Bag
<1>1. PICK f : push_all(b, s) = f[Len(s)] /\ \A n \in 0 .. Len(s) : f[n] \in Bag
  BY PushAllSteps
<1>2. Len(s) \in 0 .. Len(s)
  OBVIOUS
<1>. QED
  BY <1>1, <1>2

Flattening(f, ss) == f = [j \in 1 .. Len(ss) |-> IF j = 1 THEN ss[j] ELSE f[j - 1] \o ss[j]]

LEMMA FlattenIs ==
  ASSUME NEW ss, Len(ss) # 0
  PROVE  FlattenSeq(ss) = (CHOOSE f : Flattening(f, ss))[Len(ss)]
BY DEF FlattenSeq, Flattening

LEMMA FlattenTyped ==
  ASSUME NEW S, NEW ss \in Seq(Seq(S))
  PROVE  FlattenSeq(ss) \in Seq(S)
<1>1. CASE Len(ss) = 0
  <2>1. ss = <<>>
    BY <1>1
  <2>2. FlattenSeq(ss) = ss
    BY <1>1 DEF FlattenSeq
  <2>3. <<>> \in Seq(S)
    OBVIOUS
  <2>. QED
    BY <2>1, <2>2, <2>3, Zenon
<1>2. CASE Len(ss) # 0
  <2>1. PICK k \in Nat : Len(ss) = k + 1
    <3>1. Len(ss) - 1 \in Nat /\ Len(ss) = (Len(ss) - 1) + 1
      BY <1>2
    <3>. QED
      BY <3>1
  <2>2. PICK V : V = Seq(S)
    OBVIOUS
  <2>3. \A n \in 1 .. k + 1 : ss[n] \in V
    BY <2>1, <2>2
  <2>4. \A x, y \in V : x \o y \in V
    BY <2>2
  <2>5. PICK g : g = [p \in V \X (1 .. k) |-> p[1] \o ss[p[2] + 1]]
    OBVIOUS
  <2>6. g \in [V \X (1 .. k) -> V]
    <3>1. \A p \in V \X (1 .. k) : p[1] \in V /\ p[2] + 1 \in 1 .. k + 1
      OBVIOUS
    <3>2. \A p \in V \X (1 .. k) : p[1] \o ss[p[2] + 1] \in V
      BY <2>3, <2>4, <3>1
    <3>. QED
      BY <2>5, <3>2
  <2>7. PICK b : b = ss[1] /\ b \in V
    BY <2>3
  <2>8. PICK h : Iterated(h, V, k, b, g)
    BY <2>6, <2>7, Iterates
  <2>9. PICK f : f = [j \in 1 .. k + 1 |-> h[j - 1]]
    OBVIOUS
  <2>10. \A j \in 1 .. k + 1 : f[j] = IF j = 1 THEN ss[j] ELSE f[j - 1] \o ss[j]
    <3>. SUFFICES ASSUME NEW j \in 1 .. k + 1
                  PROVE  f[j] = IF j = 1 THEN ss[j] ELSE f[j - 1] \o ss[j]
      OBVIOUS
    <3>1. CASE j = 1
      BY <2>7, <2>8, <2>9, <3>1 DEF Iterated
    <3>2. CASE j # 1
      <4>1. j - 1 \in 1 .. k /\ j - 1 \in 1 .. k + 1 /\ j - 1 - 1 \in 0 .. k
        BY <3>2
      <4>2. f[j] = h[j - 1] /\ f[j - 1] = h[j - 1 - 1]
        BY <2>9, <4>1
      <4>3. h[j - 1] = g[<<h[j - 1 - 1], j - 1>>] /\ h[j - 1 - 1] \in V
        BY <2>8, <4>1 DEF Iterated
      <4>4. <<h[j - 1 - 1], j - 1>> \in V \X (1 .. k)
        BY <4>1, <4>3
      <4>5. g[<<h[j - 1 - 1], j - 1>>] = h[j - 1 - 1] \o ss[(j - 1) + 1]
        BY <2>5, <4>4
      <4>6. (j - 1) + 1 = j
        OBVIOUS
      <4>. QED
        BY <3>2, <4>2, <4>3, <4>5, <4>6
    <3>. QED
      BY <3>1, <3>2
  <2>11. Flattening(f, ss)
    <3>1. f = [j \in 1 .. k + 1 |-> f[j]]
      BY <2>9
    <3>2. [j \in 1 .. k + 1 |-> f[j]]
            = [j \in 1 .. k + 1 |-> IF j = 1 THEN ss[j] ELSE f[j - 1] \o ss[j]]
      BY <2>10
    <3>. QED
      BY <2>1, <3>1, <3>2 DEF Flattening
  <2>12. PICK e : e = CHOOSE x : Flattening(x, ss)
    OBVIOUS
  <2>13. Flattening(e, ss)
    BY <2>11, <2>12
  <2>14. \A j \in 1 .. k + 1 : e[j] = IF j = 1 THEN ss[j] ELSE e[j - 1] \o ss[j]
    BY <2>1, <2>13 DEF Flattening
  <2>15. PICK d : d = [n \in 0 .. k |-> e[n + 1]]
    OBVIOUS
  <2>16. d[0] \in V
    BY <2>3, <2>14, <2>15
  <2>17. \A n \in 1 .. k : d[n - 1] \in V => d[n] \in V
    <3>. SUFFICES ASSUME NEW n \in 1 .. k, d[n - 1] \in V PROVE d[n] \in V
      OBVIOUS
    <3>1. d[n] = e[n + 1] /\ d[n - 1] = e[(n - 1) + 1] /\ (n - 1) + 1 = (n + 1) - 1
      BY <2>15
    <3>2. n + 1 \in 1 .. k + 1 /\ n + 1 # 1
      OBVIOUS
    <3>3. e[n + 1] = e[(n + 1) - 1] \o ss[n + 1]
      BY <2>14, <3>2
    <3>. QED
      BY <2>3, <2>4, <3>1, <3>2, <3>3
  <2>18. d[k] \in V
    <3>1. \A n \in 0 .. k : d[n] \in V
      BY <2>16, <2>17, Reaches
    <3>. QED
      BY <3>1
  <2>19. FlattenSeq(ss) = e[k + 1]
    BY <1>2, <2>1, <2>12, FlattenIs
  <2>. QED
    BY <2>2, <2>15, <2>18, <2>19
<1>. QED
  BY <1>1, <1>2

LEMMA FrontLast ==
  ASSUME NEW S, NEW s \in Seq(S)
  PROVE  /\ Front(s) \in Seq(S)
         /\ s # <<>> => Last(s) \in S
<1>1. CASE s = <<>>
  <2>1. Front(s) = <<>>
    BY <1>1 DEF Front
  <2>. QED
    BY <1>1, <2>1
<1>2. CASE s # <<>>
  <2>1. Len(s) \in Nat /\ Len(s) # 0
    BY <1>2
  <2>2. 1 \in 1 .. Len(s) + 1 /\ Len(s) - 1 \in 1 - 1 .. Len(s) /\ Len(s) \in 1 .. Len(s)
    BY <2>1
  <2>3. \A j \in 1 .. Len(s) : s[j] \in S
    OBVIOUS
  <2>4. SubSeq(s, 1, Len(s) - 1) = [j \in 1 .. Len(s) - 1 |-> s[j]]
    BY <2>1, <2>2
  <2>. QED
    BY <2>1, <2>2, <2>3, <2>4 DEF Front, Last
<1>. QED
  BY <1>1, <1>2

LEMMA PopTyped ==
  ASSUME NEW b \in Bag, b # NoRedexes
  PROVE  Top(b) \in Entries /\ Popped(b) \in Bag
<1>1. b = [hi |-> b.hi, lo |-> b.lo] /\ b.hi \in Seq(HighEntries) /\ b.lo \in Seq(LowEntries)
  BY DEF Bag
<1>2. HighEntries \subseteq Entries /\ LowEntries \subseteq Entries
  BY DEF HighEntries, LowEntries
<1>3. /\ Front(b.hi) \in Seq(HighEntries)
      /\ b.hi # <<>> => Last(b.hi) \in HighEntries
      /\ Front(b.lo) \in Seq(LowEntries)
      /\ b.lo # <<>> => Last(b.lo) \in LowEntries
  BY <1>1, FrontLast
<1>4. b.hi # <<>> \/ b.lo # <<>>
  BY <1>1 DEF NoRedexes
<1>5. CASE b.hi # <<>>
  <2>1. Top(b) = Last(b.hi) /\ Popped(b) = [hi |-> Front(b.hi), lo |-> b.lo]
    BY <1>1, <1>5 DEF Top, Popped, has_highs
  <2>2. Popped(b) \in Bag
    BY <1>1, <1>3, <2>1 DEF Bag
  <2>. QED
    BY <1>2, <1>3, <1>5, <2>1, <2>2
<1>6. CASE b.hi = <<>>
  <2>1. Top(b) = Last(b.lo) /\ Popped(b) = [hi |-> b.hi, lo |-> Front(b.lo)]
    BY <1>1, <1>6 DEF Top, Popped, has_highs
  <2>2. Popped(b) \in Bag
    BY <1>1, <1>3, <2>1 DEF Bag
  <2>. QED
    BY <1>2, <1>3, <1>4, <1>6, <2>1, <2>2
<1>. QED
  BY <1>5, <1>6

LEMMA EntriesTyped ==
  /\ \A r \in Redex : [redex |-> r, par |-> FALSE, local |-> FALSE] \in Entries
  /\ \A r \in Redex : Entry(r) \in Entries
  /\ \A n \in Node : Entry(n) \in NodeEntries
  /\ \A e \in Entries : clr_par_flag(e) \in Entries
<1>1. \A r \in Redex : Entry(r) \in Entries
  BY DEF Entry, Entries
<1>2. \A n \in Node : Entry(n) \in NodeEntries
  BY DEF Entry, Leak, NodeEntries, HighEntries, Entries, is_high_priority
<1>3. \A e \in Entries : clr_par_flag(e) \in Entries
  BY DEF clr_par_flag, Entries
<1>4. \A r \in Redex : [redex |-> r, par |-> FALSE, local |-> FALSE] \in Entries
  BY DEF Entries
<1>. QED
  BY <1>1, <1>2, <1>3, <1>4

LEMMA PushesTyped ==
  ASSUME NEW e \in Entries
  PROVE  Pushes(e) \in Seq(Entries)
<1>1. \A x \in Redex \cup Node : Entry(x) \in Entries
  BY DEF Entry, Entries
<1>2. PICK s \in Seq(Redex \cup Node) : s = IF Leak(e) THEN Under[e.redex] ELSE Spawn[e.redex]
  <2>1. Leak(e) => Under[e.redex] \in Seq(Redex \cup Node)
    BY CudaAssumption DEF Leak
  <2>2. ~Leak(e) => Spawn[e.redex] \in Seq(Redex \cup Node)
    BY CudaAssumption DEF Leak, Entries
  <2>. QED
    BY <2>1, <2>2
<1>3. Pushes(e) = [k \in DOMAIN s |-> Entry(s[k])]
  BY <1>2 DEF Pushes
<1>4. DOMAIN s = 1 .. Len(s) /\ Len(s) \in Nat /\ \A k \in DOMAIN s : s[k] \in Redex \cup Node
  OBVIOUS
<1>5. \A k \in DOMAIN s : Entry(s[k]) \in Entries
  BY <1>1, <1>4
<1>. QED
  BY <1>3, <1>4, <1>5

LEMMA LeaksTyped ==
  ASSUME NEW e \in LowEntries
  PROVE  Leaks(e) \in Seq(NodeEntries)
<1>1. e.redex \in Redex
  BY DEF LowEntries, Entries, is_high_priority, Leak
<1>2. PICK s \in Seq(Node) : s = Nodes[e.redex]
  BY <1>1, CudaAssumption
<1>3. Leaks(e) = IF e.local THEN [n \in DOMAIN s |-> Entry(s[n])] ELSE <<>>
  BY <1>2 DEF Leaks
<1>4. DOMAIN s = 1 .. Len(s) /\ Len(s) \in Nat /\ \A n \in DOMAIN s : s[n] \in Node
  OBVIOUS
<1>5. [n \in DOMAIN s |-> Entry(s[n])] \in Seq(NodeEntries)
  <2>1. \A n \in DOMAIN s : Entry(s[n]) \in NodeEntries
    BY <1>4, EntriesTyped
  <2>. QED
    BY <1>4, <2>1
<1>6. <<>> \in Seq(NodeEntries)
  OBVIOUS
<1>. QED
  BY <1>3, <1>5, <1>6

\* An interaction changes the bag of its thread, and no other.
LEMMA Interacts ==
  ASSUME KernelTypes, NEW t \in Thread, rbag[t] # NoRedexes, NEW ok, Interact(t, ok)
  PROVE  \E b \in Bag : rbag' = [rbag EXCEPT ![t] = b]
<1>1. rbag[t] \in Bag
  BY DEF KernelTypes
<1>2. PICK e, b : e = Top(rbag[t]) /\ b = Popped(rbag[t])
  OBVIOUS
<1>3. e \in Entries /\ b \in Bag
  BY <1>1, <1>2, PopTyped
<1>4. push_all(b, Pushes(e)) \in Bag /\ push_redex(b, e) \in Bag
  BY <1>3, PushesTyped, PushAllTyped, PushTyped
<1>5. rbag' = [rbag EXCEPT ![t] = IF ok THEN push_all(b, Pushes(e)) ELSE push_redex(b, e)]
  BY <1>2 DEF Interact
<1>. QED
  BY <1>4, <1>5

LEMMA UnmarkedTyped ==
  ASSUME NEW b \in Bag
  PROVE  Unmarked(b) \in Bag
<1>1. CASE rbag_len(b) = 0
  BY <1>1 DEF Unmarked
<1>2. CASE rbag_len(b) # 0
  <2>1. b # NoRedexes
    BY <1>2, HasSome
  <2>2. Popped(b) \in Bag /\ clr_par_flag(Top(b)) \in Entries
    BY <2>1, PopTyped, EntriesTyped
  <2>3. Unmarked(b) = push_redex(Popped(b), clr_par_flag(Top(b)))
    BY <1>2 DEF Unmarked
  <2>. QED
    BY <2>2, <2>3, PushTyped
<1>. QED
  BY <1>1, <1>2

-----------------------------------------------------------------------------
(* How a step may keep the invariant.                                      *)

\* A thread changes its bag and its label.
Moves(t, b, l) ==
  /\ rbag' = [rbag EXCEPT ![t] = b] /\ pc' = [pc EXCEPT ![t] = l]
  /\ UNCHANGED <<stage, tick, spawn>>

Fits(t, b, l) ==
  /\ l \notin {"wait", "high"} => l = stage[BID(t)]
  /\ l = "high" => stage[BID(t)] \in {"give", "work"}
  /\ l \in {"high", "work", "flush"} => b # NoRedexes
  /\ stage[BID(t)] = "give" /\ l \in {"give", "high"} => pc[t] \in {"give", "high"}
  /\ l # "take"
  /\ stage[BID(t)] \in {"give", "take"} /\ spawn[t] # FULL => b = NoRedexes

LEMMA MovesKeep ==
  ASSUME KernelInv, KernelTypes', NEW t \in Thread, NEW b, NEW l,
         Moves(t, b, l), Fits(t, b, l)
  PROVE  KernelInv'
<1>1. UNCHANGED <<stage, tick, spawn>>
  BY DEF Moves
<1>2. \A u \in Thread \ {t} : rbag'[u] = rbag[u] /\ pc'[u] = pc[u]
  BY DEF Moves, KernelInv, KernelTypes
<1>3. rbag'[t] = b /\ pc'[t] = l
  BY DEF Moves, KernelInv, KernelTypes
<1>4. \A c \in Block : TickInv(c)'
  BY <1>1 DEF TickInv, KernelInv
<1>5. \A u \in Thread : LabelInv(u) /\ SpawnInv(u)
  BY DEF KernelInv
<1>6. ASSUME NEW u \in Thread PROVE LabelInv(u)' /\ SpawnInv(u)'
  <2>1. CASE u # t
    BY <1>1, <1>2, <1>5, <2>1 DEF LabelInv, SpawnInv
  <2>2. CASE u = t
    BY <1>1, <1>3, <1>5, <2>2 DEF LabelInv, SpawnInv, Fits
  <2>. QED
    BY <2>1, <2>2
<1>. QED
  BY <1>4, <1>6 DEF KernelInv

\* The label a thread goes on with.
LEMMA TaskIs ==
  ASSUME KernelTypes, NEW t \in Thread, NEW stg, NEW tk, NEW sp, NEW rp, rp[t] \in Nat,
         NEW l, l = Task(t, stg, tk, sp, rp)
  PROVE  /\ l \in Stages \cup {"wait"}
         /\ l # "wait" => l = stg
         /\ l \in {"work", "flush"} => rbag[t] # NoRedexes
         /\ l = "give" => TID(t) < span(tk) /\ sp[t + span(tk)] = EMPTY
         /\ l = "take" => sp[t] \notin {EMPTY, FULL}
<1>1. \/ l = "give" /\ stg = "give" /\ TID(t) < span(tk) /\ sp[t + span(tk)] = EMPTY
      \/ l = "take" /\ stg = "take" /\ sp[t] \notin {EMPTY, FULL}
      \/ l = "work" /\ stg = "work" /\ (Len(rbag[t].lo) > rp[t] \/ has_highs(rbag[t]))
      \/ l = "save" /\ stg = "save"
      \/ l = "flush" /\ stg = "flush" /\ has_highs(rbag[t])
      \/ l = "wait"
  BY DEF Task, Free
<1>2. rbag[t] \in Bag
  BY DEF KernelTypes
<1>3. /\ has_highs(rbag[t]) => rbag[t] # NoRedexes
      /\ Len(rbag[t].lo) > 0 => rbag[t] # NoRedexes
  BY <1>2, HasSome
<1>4. Len(rbag[t].lo) > rp[t] => Len(rbag[t].lo) > 0
  <2>1. Len(rbag[t].lo) \in Nat
    BY <1>2 DEF Bag
  <2>. QED
    BY <2>1
<1>. QED
  BY <1>1, <1>3, <1>4 DEF Stages

\* The threads of a block go on together.
LEMMA ProceedKeeps ==
  ASSUME KernelInv, NEW b \in Block, NEW stg \in Stages, NEW tk \in Nat, NEW sp, NEW rp,
         Proceed(b, stg, tk, sp, rp), UNCHANGED <<turn, rdec, bags, rbag, redex>>,
         pos' \in [Thread -> Nat], spawn' = sp, rpos' = rp,
         sp \in [Thread -> Entries \cup {EMPTY, FULL}], rp \in [Thread -> Nat],
         \A t \in Thread \ Threads(b) : sp[t] = spawn[t],
         stg \in {"give", "take"} => tk < TPB_L2,
         stg \in {"give", "take"} =>
           \A t \in Threads(b) : sp[t] # FULL => rbag[t] = NoRedexes
  PROVE  KernelInv'
<1>1. KernelTypes
  BY DEF KernelInv
<1>2. \A t \in Threads(b) : t \in Thread /\ BID(t) = b
  BY DEF Threads
<1>3. /\ stage' = [stage EXCEPT ![b] = stg] /\ tick' = [tick EXCEPT ![b] = tk]
      /\ pc' = [t \in Thread |-> IF BID(t) = b THEN Task(t, stg, tk, sp, rp) ELSE pc[t]]
  BY DEF Proceed
<1>4. ASSUME NEW t \in Thread, BID(t) = b, NEW l, l = pc'[t]
      PROVE  /\ l \in Stages \cup {"wait"}
             /\ l # "wait" => l = stg
             /\ l \in {"work", "flush"} => rbag[t] # NoRedexes
             /\ l = "give" => TID(t) < span(tk) /\ sp[t + span(tk)] = EMPTY
             /\ l = "take" => sp[t] \notin {EMPTY, FULL}
  <2>1. l = Task(t, stg, tk, sp, rp)
    BY <1>3, <1>4
  <2>. QED
    BY <1>1, <2>1, TaskIs
<1>5. KernelTypes'
  <2>1. pc' \in [Thread -> Stages \cup {"wait", "high"}]
    <3>1. \A t \in Thread : pc'[t] \in Stages \cup {"wait", "high"}
      <4>. SUFFICES ASSUME NEW t \in Thread PROVE pc'[t] \in Stages \cup {"wait", "high"}
        OBVIOUS
      <4>1. CASE BID(t) = b
        BY <1>4, <4>1
      <4>2. CASE BID(t) # b
        BY <1>1, <1>3, <4>2 DEF KernelTypes
      <4>. QED
        BY <4>1, <4>2
    <3>. QED
      BY <1>3, <3>1
  <2>2. stage' \in [Block -> Stages] /\ tick' \in [Block -> Nat]
    BY <1>1, <1>3 DEF KernelTypes
  <2>3. /\ turn' \in {0, 1} /\ rdec' \in {0, 1} /\ rbag' \in [Thread -> Bag]
        /\ bags' \in [{0, 1} -> [Thread -> Seq(Entries)]]
        /\ redex' \in [Thread -> Entries \cup {NONE}]
    BY <1>1 DEF KernelTypes
  <2>. QED
    BY <2>1, <2>2, <2>3 DEF KernelTypes
<1>6. /\ stage'[b] = stg /\ tick'[b] = tk
      /\ \A c \in Block \ {b} : stage'[c] = stage[c] /\ tick'[c] = tick[c]
  BY <1>1, <1>3 DEF KernelTypes
<1>7. \A c \in Block : TickInv(c)'
  BY <1>6 DEF TickInv, KernelInv
<1>8. ASSUME NEW t \in Thread, BID(t) = b PROVE LabelInv(t)' /\ SpawnInv(t)'
  <2>1. PICK l : l = pc'[t]
    OBVIOUS
  <2>2. /\ l # "wait" => l = stg
        /\ l \in {"work", "flush"} => rbag[t] # NoRedexes
        /\ l = "give" => TID(t) < span(tk) /\ sp[t + span(tk)] = EMPTY
        /\ l = "take" => sp[t] \notin {EMPTY, FULL}
    BY <1>4, <1>8, <2>1
  <2>3. l # "high"
    BY <1>4, <1>8, <2>1 DEF Stages
  <2>4. LabelInv(t)'
    BY <1>6, <1>8, <2>1, <2>2, <2>3 DEF LabelInv
  <2>5. SpawnInv(t)'
    BY <1>6, <1>8 DEF SpawnInv, Threads
  <2>. QED
    BY <2>4, <2>5
<1>9. ASSUME NEW t \in Thread, BID(t) # b PROVE LabelInv(t)' /\ SpawnInv(t)'
  <2>1. BID(t) \in Block \ {b} /\ LabelInv(t) /\ SpawnInv(t)
    BY <1>9, Grid DEF KernelInv
  <2>2. pc'[t] = pc[t] /\ sp[t] = spawn[t]
    BY <1>2, <1>3, <1>9
  <2>3. ASSUME stage[BID(t)] = "give", TID(t) < span(tick[BID(t)])
        PROVE  sp[t + span(tick[BID(t)])] = spawn[t + span(tick[BID(t)])]
    <3>1. PICK k : k = tick[BID(t)]
      OBVIOUS
    <3>2. k \in Nat /\ k < TPB_L2
      BY <1>1, <2>1, <2>3, <3>1 DEF KernelInv, TickInv, KernelTypes
    <3>3. t + span(k) \in Thread /\ BID(t + span(k)) # b
      BY <1>9, <2>3, <3>1, <3>2, Partner
    <3>. QED
      BY <1>2, <3>1, <3>3
  <2>4. LabelInv(t)'
    BY <1>6, <2>1, <2>2, <2>3 DEF LabelInv
  <2>5. SpawnInv(t)'
    BY <1>6, <2>1, <2>2 DEF SpawnInv
  <2>. QED
    BY <2>4, <2>5
<1>. QED
  BY <1>5, <1>7, <1>8, <1>9 DEF KernelInv

-----------------------------------------------------------------------------
(* The actions.                                                            *)

LEMMA InitKernel == Init => KernelInv
<1>. SUFFICES ASSUME Init PROVE KernelInv
  OBVIOUS
<1>1. <<>> \in Seq(Entries)
  OBVIOUS
<1>2. NoRedexes \in Bag
  BY NoRedexesTyped
<1>3. KernelTypes
  BY <1>1, <1>2 DEF Init, KernelTypes, Stages
<1>4. \A b \in Block : TickInv(b)
  BY DEF Init, TickInv
<1>5. ASSUME NEW t \in Thread PROVE LabelInv(t) /\ SpawnInv(t)
  <2>1. BID(t) \in Block
    BY Grid
  <2>. QED
    BY <2>1 DEF Init, LabelInv, SpawnInv
<1>. QED
  BY <1>3, <1>4, <1>5 DEF KernelInv

\* The locals of a thread that has only its bag, or its redex, changed.
LEMMA TypesKept ==
  ASSUME KernelTypes, NEW t \in Thread, NEW b \in Bag, NEW l \in Stages \cup {"wait", "high"},
         Moves(t, b, l), UNCHANGED <<turn, rdec, pos, rpos>>,
         bags' \in [{0, 1} -> [Thread -> Seq(Entries)]],
         redex' \in [Thread -> Entries \cup {NONE}]
  PROVE  KernelTypes'
BY DEF KernelTypes, Moves

LEMMA NextLoad == ASSUME KernelInv, NEW t \in Thread, Load(t) PROVE KernelInv'
<1>1. KernelTypes /\ LabelInv(t) /\ BID(t) \in Block
  BY Grid DEF KernelInv
<1>2. stage[BID(t)] = "load"
  BY <1>1 DEF LabelInv, Load
<1>3. PICK k \in Thread : k = BagOf(t)
  BY SlicesApart
<1>4. bags[turn][k] \in Seq(Entries) /\ rbag[t] \in Bag
  BY <1>1 DEF KernelTypes
<1>5. PICK b \in Bag : b = push_all(rbag[t], bags[turn][k])
  BY <1>4, PushAllTyped
<1>6. Moves(t, b, "wait")
  BY <1>3, <1>5 DEF Load, Moves, Goto
<1>7. Fits(t, b, "wait")
  BY <1>2 DEF Fits
<1>8. bags' \in [{0, 1} -> [Thread -> Seq(Entries)]]
  <2>1. bags' = [bags EXCEPT ![turn][k] = <<>>]
    BY <1>3 DEF Load, Taken
  <2>2. <<>> \in Seq(Entries)
    OBVIOUS
  <2>. QED
    BY <1>1, <2>1, <2>2 DEF KernelTypes
<1>9. KernelTypes'
  BY <1>1, <1>6, <1>8, TypesKept DEF Load, KernelTypes
<1>. QED
  BY <1>6, <1>7, <1>9, MovesKeep

LEMMA NextGiveInteract ==
  ASSUME KernelInv, NEW t \in Thread, GiveInteract(t) PROVE KernelInv'
<1>1. KernelTypes /\ LabelInv(t) /\ SpawnInv(t) /\ BID(t) \in Block
  BY Grid DEF KernelInv
<1>2. pc[t] = "give" /\ stage[BID(t)] = "give"
  BY <1>1 DEF LabelInv, GiveInteract, Looking
<1>3. rbag[t] # NoRedexes
  <2>1. rbag_len(rbag[t]) # 0
    BY DEF GiveInteract
  <2>2. rbag[t] \in Bag
    BY <1>1 DEF KernelTypes
  <2>. QED
    BY <2>1, <2>2, HasSome
<1>4. PICK ok : Interact(t, ok)
  BY DEF GiveInteract
<1>5. PICK b \in Bag : rbag' = [rbag EXCEPT ![t] = b]
  BY <1>1, <1>3, <1>4, Interacts
<1>6. rbag'[t] = b
  BY <1>1, <1>5 DEF KernelTypes
<1>7. PICK l : l = IF has_highs(b) THEN "high" ELSE "give"
  OBVIOUS
<1>8. Moves(t, b, l)
  BY <1>5, <1>6, <1>7 DEF GiveInteract, Moves, Goto
<1>9. Fits(t, b, l)
  <2>1. has_highs(b) => b # NoRedexes
    BY HasSome
  <2>. QED
    BY <1>1, <1>2, <1>3, <1>7, <2>1 DEF Fits, SpawnInv
<1>10. KernelTypes'
  <2>1. redex' \in [Thread -> Entries \cup {NONE}]
    BY <1>1 DEF GiveInteract, KernelTypes
  <2>2. l \in Stages \cup {"wait", "high"}
    BY <1>7 DEF Stages
  <2>3. UNCHANGED <<turn, rdec, pos, rpos, bags>>
    BY DEF GiveInteract
  <2>. QED
    BY <1>1, <1>8, <2>1, <2>2, <2>3, TypesKept DEF KernelTypes
<1>. QED
  BY <1>8, <1>9, <1>10, MovesKeep

\* A redex goes to a partner that has none.
LEMMA NextOffer ==
  ASSUME KernelInv, NEW t \in Thread, NEW r \in Entries \cup {NONE}, NEW b \in Bag,
         pc[t] = "give", Offer(t, r, b), spawn[t] # FULL => b = NoRedexes
  PROVE  KernelInv'
<1>1. KernelTypes /\ LabelInv(t) /\ SpawnInv(t) /\ BID(t) \in Block
  BY Grid DEF KernelInv
<1>2. stage[BID(t)] = "give"
  BY <1>1 DEF LabelInv
<1>3. PICK k : k = tick[BID(t)]
  OBVIOUS
<1>4. k \in Nat /\ k < TPB_L2 /\ TID(t) < span(k) /\ spawn[t + span(k)] = EMPTY
  BY <1>1, <1>2, <1>3 DEF LabelInv, KernelTypes, KernelInv, TickInv
<1>5. PICK v \in Thread : v = t + span(k) /\ BID(v) = BID(t)
  BY <1>4, Partner
<1>6. UNCHANGED <<turn, rdec, bags, pos, stage, tick>>
  BY DEF Offer, netVars
<1>7. /\ rbag' = [rbag EXCEPT ![t] = b] /\ pc' = [pc EXCEPT ![t] = "wait"]
      /\ redex' = [redex EXCEPT ![t] = r]
  BY DEF Offer, Goto
<1>8. redex' \in [Thread -> Entries \cup {NONE}]
  BY <1>1, <1>7 DEF KernelTypes
<1>9. CASE ~(r # NONE /\ r.par)
  <2>1. UNCHANGED <<spawn, rpos>>
    BY <1>9 DEF Offer
  <2>2. Moves(t, b, "wait")
    BY <1>6, <1>7, <2>1 DEF Moves
  <2>3. Fits(t, b, "wait")
    BY <1>2 DEF Fits
  <2>4. KernelTypes'
    BY <1>1, <1>6, <1>8, <2>1, <2>2, TypesKept DEF KernelTypes
  <2>. QED
    BY <2>2, <2>3, <2>4, MovesKeep
<1>10. CASE r # NONE /\ r.par
  <2>1. spawn' = [spawn EXCEPT ![v] = clr_par_flag(r)]
    BY <1>3, <1>5, <1>10 DEF Offer
  <2>2. rpos' = [rpos EXCEPT ![t] = IF down THEN @ ELSE (Len(b.lo) - 1) % WRAP]
    BY <1>10 DEF Offer
  <2>3. KernelTypes'
    <3>1. clr_par_flag(r) \in Entries
      BY <1>10, EntriesTyped
    <3>2. spawn' \in [Thread -> Entries \cup {EMPTY, FULL}]
      BY <1>1, <2>1, <3>1 DEF KernelTypes
    <3>3. rpos' \in [Thread -> Nat]
      <4>1. PICK n \in Int : n = Len(b.lo) - 1
        BY DEF Bag
      <4>2. WRAP \in Nat \ {0}
        BY CudaAssumption
      <4>3. n % WRAP \in Nat
        BY <4>2
      <4>. QED
        BY <1>1, <2>2, <4>1, <4>3 DEF KernelTypes
    <3>4. rbag' \in [Thread -> Bag] /\ pc' \in [Thread -> Stages \cup {"wait", "high"}]
      BY <1>1, <1>7 DEF KernelTypes
    <3>. QED
      BY <1>1, <1>6, <1>8, <3>2, <3>3, <3>4 DEF KernelTypes
  <2>4. \A c \in Block : TickInv(c)'
    BY <1>6 DEF TickInv, KernelInv
  <2>5. ASSUME NEW u \in Thread PROVE LabelInv(u)' /\ SpawnInv(u)'
    <3>1. LabelInv(u) /\ SpawnInv(u) /\ BID(u) \in Block
      BY Grid DEF KernelInv
    <3>2. /\ rbag'[u] = (IF u = t THEN b ELSE rbag[u])
          /\ pc'[u] = (IF u = t THEN "wait" ELSE pc[u])
          /\ spawn'[u] = (IF u = v THEN clr_par_flag(r) ELSE spawn[u])
      BY <1>1, <1>7, <2>1 DEF KernelTypes
    <3>3. LabelInv(u)'
      <4>1. CASE u = t
        BY <1>6, <3>2, <4>1 DEF LabelInv
      <4>2. CASE u # t
        <5>1. ASSUME stage[BID(u)] = "give", TID(u) < span(tick[BID(u)])
              PROVE  spawn'[u + span(tick[BID(u)])] = spawn[u + span(tick[BID(u)])]
          <6>1. PICK j : j = tick[BID(u)]
            OBVIOUS
          <6>2. j \in Nat /\ j < TPB_L2
            BY <1>1, <3>1, <5>1, <6>1 DEF KernelInv, TickInv, KernelTypes
          <6>3. span(j) \in Nat /\ u + span(j) \in Thread /\ BID(u + span(j)) = BID(u)
            BY <5>1, <6>1, <6>2, Partner
          <6>4. u + span(j) # v
            <7>1. SUFFICES ASSUME BID(u) = BID(t) PROVE u + span(j) # t + span(j)
              BY <1>3, <1>5, <6>1, <6>3
            <7>. QED
              BY <4>2, <6>3 DEF Thread
          <6>. QED
            BY <1>1, <2>1, <6>1, <6>3, <6>4 DEF KernelTypes
        <5>2. pc[u] = "take" => stage[BID(u)] = "take"
          BY <3>1 DEF LabelInv
        <5>3. pc[u] = "take" => u # v
          BY <1>2, <1>5, <5>2
        <5>. QED
          BY <1>6, <3>1, <3>2, <4>2, <5>1, <5>3 DEF LabelInv
      <4>. QED
        BY <4>1, <4>2
    <3>4. SpawnInv(u)'
      <4>1. v # t
        <5>1. span(k) \in Nat \ {0} /\ t \in Int
          BY <1>4, Partner DEF Thread
        <5>. QED
          BY <1>5, <5>1
      <4>2. SpawnInv(v) /\ spawn[v] = EMPTY
        BY <1>4, <1>5 DEF KernelInv
      <4>3. rbag[v] = NoRedexes
        BY <1>2, <1>5, <4>2, CudaAssumption DEF SpawnInv
      <4>. QED
        BY <1>6, <3>1, <3>2, <4>1, <4>3 DEF SpawnInv
    <3>. QED
      BY <3>3, <3>4
  <2>. QED
    BY <2>3, <2>4, <2>5 DEF KernelInv
<1>. QED
  BY <1>9, <1>10

LEMMA NextGive ==
  ASSUME KernelInv, NEW t \in Thread, GiveFound(t) \/ GiveEmpty(t) \/ GiveStop(t)
  PROVE  KernelInv'
<1>1. KernelTypes /\ LabelInv(t) /\ SpawnInv(t)
  BY DEF KernelInv
<1>2. pc[t] = "give" /\ stage[BID(t)] = "give"
  BY <1>1 DEF LabelInv, GiveFound, GiveEmpty, GiveStop, Looking
<1>3. rbag[t] \in Bag /\ redex[t] \in Entries \cup {NONE}
  BY <1>1 DEF KernelTypes
<1>4. spawn[t] # FULL => rbag[t] = NoRedexes
  BY <1>1, <1>2 DEF SpawnInv
<1>5. CASE GiveFound(t)
  <2>1. rbag[t] # NoRedexes
    <3>1. rbag_len(rbag[t]) # 0
      BY <1>5 DEF GiveFound
    <3>. QED
      BY <1>3, <3>1, HasSome
  <2>2. Top(rbag[t]) \in Entries /\ Unmarked(Popped(rbag[t])) \in Bag
    BY <1>3, <2>1, PopTyped, UnmarkedTyped
  <2>. QED
    BY <1>2, <1>4, <1>5, <2>1, <2>2, NextOffer DEF GiveFound
<1>6. CASE GiveEmpty(t)
  BY <1>2, <1>3, <1>4, <1>6, NextOffer DEF GiveEmpty
<1>7. CASE GiveStop(t)
  BY <1>2, <1>3, <1>4, <1>7, NextOffer DEF GiveStop
<1>. QED
  BY <1>5, <1>6, <1>7

LEMMA NextTake == ASSUME KernelInv, NEW t \in Thread, Take(t) PROVE KernelInv'
<1>1. KernelTypes /\ LabelInv(t) /\ BID(t) \in Block
  BY Grid DEF KernelInv
<1>2. pc[t] = "take" /\ stage[BID(t)] = "take" /\ spawn[t] \in Entries
  BY <1>1 DEF LabelInv, Take, KernelTypes
<1>3. PICK b \in Bag : b = push_redex(rbag[t], spawn[t])
  <2>1. rbag[t] \in Bag
    BY <1>1 DEF KernelTypes
  <2>. QED
    BY <1>2, <2>1, PushTyped
<1>4. /\ rbag' = [rbag EXCEPT ![t] = b] /\ pc' = [pc EXCEPT ![t] = "wait"]
      /\ spawn' = [spawn EXCEPT ![t] = FULL] /\ rpos' = [rpos EXCEPT ![t] = 0]
      /\ UNCHANGED <<turn, rdec, bags, pos, stage, tick, redex>>
  BY <1>3 DEF Take, Goto, netVars
<1>5. KernelTypes'
  BY <1>1, <1>4 DEF KernelTypes
<1>6. \A c \in Block : TickInv(c)'
  BY <1>4 DEF TickInv, KernelInv
<1>7. ASSUME NEW u \in Thread PROVE LabelInv(u)' /\ SpawnInv(u)'
  <2>1. LabelInv(u) /\ SpawnInv(u) /\ BID(u) \in Block
    BY Grid DEF KernelInv
  <2>2. /\ rbag'[u] = (IF u = t THEN b ELSE rbag[u])
        /\ pc'[u] = (IF u = t THEN "wait" ELSE pc[u])
        /\ spawn'[u] = (IF u = t THEN FULL ELSE spawn[u])
    BY <1>1, <1>4 DEF KernelTypes
  <2>3. ASSUME stage[BID(u)] = "give", TID(u) < span(tick[BID(u)])
        PROVE  spawn'[u + span(tick[BID(u)])] = spawn[u + span(tick[BID(u)])]
    <3>1. PICK j : j = tick[BID(u)]
      OBVIOUS
    <3>2. j \in Nat /\ j < TPB_L2
      BY <1>1, <2>1, <2>3, <3>1 DEF KernelInv, TickInv, KernelTypes
    <3>3. u + span(j) \in Thread /\ BID(u + span(j)) = BID(u)
      BY <2>3, <3>1, <3>2, Partner
    <3>4. u + span(j) # t
      BY <1>2, <2>3, <3>3
    <3>. QED
      BY <1>1, <1>4, <3>1, <3>3, <3>4 DEF KernelTypes
  <2>4. LabelInv(u)'
    BY <1>4, <2>1, <2>2, <2>3 DEF LabelInv
  <2>5. SpawnInv(u)'
    BY <1>4, <2>1, <2>2 DEF SpawnInv
  <2>. QED
    BY <2>4, <2>5
<1>. QED
  BY <1>5, <1>6, <1>7 DEF KernelInv

LEMMA NextInteract ==
  ASSUME KernelInv, NEW t \in Thread, WorkInteract(t) \/ HighInteract(t) \/ Flush(t)
  PROVE  KernelInv'
<1>1. KernelTypes /\ LabelInv(t) /\ SpawnInv(t) /\ BID(t) \in Block
  BY Grid DEF KernelInv
<1>2. /\ pc[t] \in {"work", "high", "flush"}
      /\ pc[t] # "high" => stage[BID(t)] = pc[t]
      /\ pc[t] = "high" => stage[BID(t)] \in {"give", "work"}
      /\ rbag[t] # NoRedexes
  BY <1>1 DEF LabelInv, WorkInteract, HighInteract, Flush
<1>3. PICK ok : /\ Interact(t, ok)
                /\ \/ /\ pc[t] = "work"
                      /\ Goto(t, IF ok /\ has_highs(rbag'[t]) THEN "high" ELSE "wait")
                   \/ /\ pc[t] = "high"
                      /\ Goto(t, IF ok /\ has_highs(rbag'[t]) THEN "high"
                                 ELSE IF stage[BID(t)] = "work" THEN "wait" ELSE "give")
                   \/ /\ pc[t] = "flush"
                      /\ Goto(t, IF has_highs(rbag'[t]) THEN "flush" ELSE "wait")
  BY DEF WorkInteract, HighInteract, Flush
<1>4. PICK b \in Bag : rbag' = [rbag EXCEPT ![t] = b]
  BY <1>1, <1>2, <1>3, Interacts
<1>5. rbag'[t] = b
  BY <1>1, <1>4 DEF KernelTypes
<1>6. has_highs(b) => b # NoRedexes
  BY HasSome
<1>7. PICK l : /\ pc' = [pc EXCEPT ![t] = l]
               /\ \/ l \in {"high", "flush"} /\ has_highs(b)
                  \/ l = "wait"
                  \/ l = "give" /\ pc[t] = "high" /\ stage[BID(t)] # "work"
               /\ l = "high" => pc[t] \in {"work", "high"}
               /\ l = "flush" => pc[t] = "flush"
  BY <1>3, <1>5 DEF Goto
<1>8. UNCHANGED <<stage, tick, spawn, turn, rdec, bags, pos, rpos, redex>>
  BY DEF WorkInteract, HighInteract, Flush
<1>9. Moves(t, b, l)
  BY <1>4, <1>7, <1>8 DEF Moves
<1>10. Fits(t, b, l)
  BY <1>1, <1>2, <1>6, <1>7 DEF Fits, SpawnInv
<1>11. KernelTypes'
  <2>1. l \in Stages \cup {"wait", "high"}
    BY <1>7 DEF Stages
  <2>2. /\ bags' \in [{0, 1} -> [Thread -> Seq(Entries)]]
        /\ redex' \in [Thread -> Entries \cup {NONE}]
    BY <1>1, <1>8 DEF KernelTypes
  <2>. QED
    BY <1>1, <1>8, <1>9, <2>1, <2>2, TypesKept
<1>. QED
  BY <1>9, <1>10, <1>11, MovesKeep

LEMMA NextSave == ASSUME KernelInv, NEW t \in Thread, Save(t) PROVE KernelInv'
<1>1. KernelTypes /\ LabelInv(t) /\ BID(t) \in Block
  BY Grid DEF KernelInv
<1>2. pc[t] = "save" /\ stage[BID(t)] = "save"
  BY <1>1 DEF LabelInv, Save
<1>3. rbag[t] \in Bag /\ turn \in {0, 1} /\ bags \in [{0, 1} -> [Thread -> Seq(Entries)]]
  BY <1>1 DEF KernelTypes
<1>4. PICK lo \in Seq(LowEntries) : lo = rbag[t].lo
  BY <1>3 DEF Bag
<1>5. DOMAIN lo = 1 .. Len(lo) /\ Len(lo) \in Nat /\ \A k \in DOMAIN lo : lo[k] \in LowEntries
  OBVIOUS
<1>6. PICK k \in Thread : k = BagOf(t)
  BY SlicesApart
<1>7. PICK saved : saved = [n \in DOMAIN lo |-> [lo[n] EXCEPT !.local = FALSE]]
  OBVIOUS
<1>8. saved \in Seq(Entries)
  <2>1. \A e \in LowEntries : [e EXCEPT !.local = FALSE] \in Entries
    BY DEF LowEntries, Entries
  <2>. QED
    BY <1>5, <1>7, <2>1
<1>9. PICK ss : ss = [n \in DOMAIN lo |-> Leaks(lo[n])]
  OBVIOUS
<1>10. ss \in Seq(Seq(HighEntries))
  <2>1. \A n \in DOMAIN lo : ss[n] \in Seq(HighEntries)
    <3>. SUFFICES ASSUME NEW n \in DOMAIN lo PROVE ss[n] \in Seq(HighEntries)
      OBVIOUS
    <3>1. Leaks(lo[n]) \in Seq(NodeEntries) /\ NodeEntries \subseteq HighEntries
      BY <1>5, LeaksTyped DEF NodeEntries
    <3>. QED
      BY <1>9, <3>1
  <2>2. ss = [n \in 1 .. Len(lo) |-> ss[n]]
    BY <1>5, <1>9
  <2>. QED
    BY <1>5, <2>1, <2>2
<1>11. PICK b : b = [hi |-> rbag[t].hi \o FlattenSeq(ss), lo |-> <<>>]
  OBVIOUS
<1>12. b \in Bag
  <2>1. FlattenSeq(ss) \in Seq(HighEntries)
    BY <1>10, FlattenTyped
  <2>2. rbag[t].hi \o FlattenSeq(ss) \in Seq(HighEntries)
    BY <1>3, <2>1 DEF Bag
  <2>3. <<>> \in Seq(LowEntries)
    OBVIOUS
  <2>. QED
    BY <1>11, <2>2, <2>3 DEF Bag
<1>13. rbag' = [rbag EXCEPT ![t] = b]
  BY <1>3, <1>4, <1>9, <1>11 DEF Save, KernelTypes
<1>14. bags' = [bags EXCEPT ![1 - turn][k] = saved]
  BY <1>4, <1>6, <1>7 DEF Save
<1>15. bags' \in [{0, 1} -> [Thread -> Seq(Entries)]]
  <2>1. 1 - turn \in {0, 1}
    BY <1>3
  <2>. QED
    BY <1>3, <1>8, <1>14, <2>1
<1>16. Moves(t, b, "wait")
  BY <1>13 DEF Save, Moves, Goto
<1>17. Fits(t, b, "wait")
  BY <1>2 DEF Fits
<1>18. KernelTypes'
  BY <1>1, <1>12, <1>15, <1>16, TypesKept DEF Save, KernelTypes
<1>. QED
  BY <1>16, <1>17, <1>18, MovesKeep

LEMMA NextBarrier == ASSUME KernelInv, NEW b \in Block, Barrier(b) PROVE KernelInv'
<1>1. KernelTypes /\ TickInv(b) /\ Threads(b) \subseteq Thread
  BY DEF KernelInv, Threads
<1>2. /\ spawn \in [Thread -> Entries \cup {EMPTY, FULL}] /\ rpos \in [Thread -> Nat]
      /\ pos \in [Thread -> Nat] /\ tick[b] \in Nat
  BY <1>1 DEF KernelTypes
<1>3. \A s \in Stages : s \in {"give", "take", "work", "save", "flush", "exit"} \/ s = "load"
  BY DEF Stages
\* What all of them leave alone.
<1>4. UNCHANGED <<turn, rdec, bags, rbag, redex>>
  BY DEF Barrier, SyncLoad, SyncGive, SyncTake, SyncWork, SyncSave, SyncFlush, netVars
<1>5. CASE SyncLoad(b)
  <2>1. PICK sp, rp :
          /\ sp = [t \in Thread |-> IF BID(t) # b THEN spawn[t]
                                    ELSE IF rbag_len(rbag[t]) > 0 THEN FULL ELSE EMPTY]
          /\ rp = [t \in Thread |-> IF BID(t) # b THEN rpos[t]
                     ELSE IF mode # "WORK" /\ pos[BagOf(t)] > 0 THEN pos[BagOf(t)] - rdec
                     ELSE pos[BagOf(t)]]
    OBVIOUS
  <2>2. PICK stg : /\ Proceed(b, stg, 0, sp, rp) /\ spawn' = sp /\ rpos' = rp /\ pos' = pos
                   /\ stg \in {"exit", "work", "give"}
    <3>1. rp = [t \in Thread |-> IF BID(t) # b THEN rpos[t]
                  ELSE IF mode # "WORK" /\ [u \in Thread |-> pos[BagOf(u)]][t] > 0
                       THEN [u \in Thread |-> pos[BagOf(u)]][t] - rdec
                       ELSE [u \in Thread |-> pos[BagOf(u)]][t]]
      BY <2>1
    <3>. QED
      BY <1>5, <2>1, <3>1 DEF SyncLoad, netVars
  <2>3. sp \in [Thread -> Entries \cup {EMPTY, FULL}]
    BY <1>2, <2>1
  <2>4. rp \in [Thread -> Nat]
    <3>1. ASSUME NEW t \in Thread PROVE rp[t] \in Nat
      <4>1. PICK n \in Nat : n = pos[BagOf(t)]
        BY <1>2, SlicesApart
      <4>2. rdec \in {0, 1}
        BY <1>1 DEF KernelTypes
      <4>3. rp[t] = rpos[t] \/ rp[t] = n \/ (n > 0 /\ rp[t] = n - rdec)
        <5>1. rp[t] = IF BID(t) # b THEN rpos[t]
                      ELSE IF mode # "WORK" /\ n > 0 THEN n - rdec ELSE n
          BY <2>1, <4>1, Zenon
        <5>. QED
          BY <5>1
      <4>. QED
        BY <1>2, <4>1, <4>2, <4>3
    <3>. QED
      BY <2>1, <3>1
  <2>5. \A t \in Thread \ Threads(b) : sp[t] = spawn[t]
    BY <2>1 DEF Threads
  <2>6. \A t \in Threads(b) : sp[t] # FULL => rbag[t] = NoRedexes
    <3>. SUFFICES ASSUME NEW t \in Threads(b), sp[t] # FULL PROVE rbag[t] = NoRedexes
      OBVIOUS
    <3>1. t \in Thread /\ BID(t) = b
      BY DEF Threads
    <3>2. ~(rbag_len(rbag[t]) > 0)
      BY <2>1, <3>1
    <3>3. rbag[t] \in Bag
      BY <1>1, <3>1 DEF KernelTypes
    <3>. QED
      BY <3>2, <3>3, HasSome
  <2>7. stg \in Stages /\ 0 \in Nat /\ 0 < TPB_L2 /\ pos' \in [Thread -> Nat]
    BY <1>2, <2>2, CudaAssumption DEF Stages
  <2>. QED
    BY <1>4, <2>2, <2>3, <2>4, <2>5, <2>6, <2>7, ProceedKeeps
\* The others leave the cells alone too.
<1>6. ASSUME NEW stg \in Stages, NEW tk \in Nat, Proceed(b, stg, tk, spawn, rpos),
             UNCHANGED <<spawn, rpos>>, pos' \in [Thread -> Nat],
             stg \in {"give", "take"} => tk < TPB_L2 /\ stage[b] \in {"give", "take"}
      PROVE  KernelInv'
  <2>1. \A t \in Thread \ Threads(b) : spawn[t] = spawn[t]
    OBVIOUS
  <2>2. stg \in {"give", "take"} =>
          \A t \in Threads(b) : spawn[t] # FULL => rbag[t] = NoRedexes
    BY <1>6 DEF KernelInv, SpawnInv, Threads
  <2>. QED
    BY <1>2, <1>4, <1>6, <2>1, <2>2, ProceedKeeps
<1>7. CASE SyncGive(b)
  <2>1. stage[b] = "give" /\ tick[b] < TPB_L2
    BY <1>1, <1>7 DEF SyncGive, Sync, TickInv
  <2>. QED
    BY <1>2, <1>6, <1>7, <2>1 DEF SyncGive, netVars, Stages
<1>8. CASE SyncTake(b)
  <2>1. stage[b] = "take"
    BY <1>8 DEF SyncTake, Sync
  <2>2. UNCHANGED <<spawn, rpos>>
    BY <1>8 DEF SyncTake
  <2>3. CASE tick[b] + 1 < Tlim
    <3>1. tick[b] + 1 \in Nat /\ tick[b] + 1 < TPB_L2
      BY <1>2, <2>3, CudaAssumption, SMTT(30) DEF Tlim
    <3>2. Proceed(b, "give", tick[b] + 1, spawn, rpos) /\ pos' = pos
      BY <1>8, <2>3 DEF SyncTake
    <3>. QED
      BY <1>2, <1>6, <2>1, <2>2, <3>1, <3>2 DEF Stages
  <2>4. CASE ~(tick[b] + 1 < Tlim)
    <3>1. Proceed(b, "save", 0, spawn, rpos)
      BY <1>8, <2>4 DEF SyncTake
    <3>2. pos' = [s \in Thread |-> IF \E t \in Threads(b) : BagOf(t) = s
                                   THEN rpos[CHOOSE t \in Threads(b) : BagOf(t) = s]
                                   ELSE pos[s]]
      BY <1>8, <2>4 DEF SyncTake
    <3>3. pos' \in [Thread -> Nat]
      <4>1. ASSUME NEW s \in Thread, \E t \in Threads(b) : BagOf(t) = s
            PROVE  (CHOOSE t \in Threads(b) : BagOf(t) = s) \in Thread
        BY <1>1, <4>1
      <4>. QED
        BY <1>2, <3>2, <4>1
    <3>. QED
      BY <1>6, <2>2, <3>1, <3>3 DEF Stages
  <2>. QED
    BY <2>3, <2>4
<1>9. CASE SyncWork(b)
  <2>1. UNCHANGED <<spawn, rpos, pos>>
    BY <1>9 DEF SyncWork, netVars
  <2>2. PICK stg, tk : Proceed(b, stg, tk, spawn, rpos) /\ stg \in {"work", "save"} /\ tk \in Nat
    BY <1>2, <1>9 DEF SyncWork
  <2>. QED
    BY <1>2, <1>6, <2>1, <2>2 DEF Stages
<1>10. CASE SyncSave(b) \/ SyncFlush(b)
  <2>1. UNCHANGED <<spawn, rpos, pos>>
    BY <1>10 DEF SyncSave, SyncFlush, netVars
  <2>2. PICK stg : Proceed(b, stg, 0, spawn, rpos) /\ stg \in {"flush", "exit"}
    BY <1>10 DEF SyncSave, SyncFlush
  <2>. QED
    BY <1>2, <1>6, <2>1, <2>2 DEF Stages
<1>. QED
  BY <1>5, <1>7, <1>8, <1>9, <1>10 DEF Barrier

LEMMA NextLaunch ==
  ASSUME KernelInv, NEW buf, NEW trn, Launch(buf, trn), UNCHANGED <<turn, rdec, pos>>,
         bags' \in [{0, 1} -> [Thread -> Seq(Entries)]]
  PROVE  KernelInv'
<1>1. KernelTypes
  BY DEF KernelInv
<1>2. /\ stage' = [c \in Block |-> "load"] /\ tick' = [c \in Block |-> 0]
      /\ pc' = [t \in Thread |-> IF buf[trn][BagOf(t)] # <<>> THEN "load" ELSE "wait"]
      /\ rbag' = [t \in Thread |-> NoRedexes]
      /\ UNCHANGED <<spawn, rpos>>
  BY DEF Launch
<1>3. redex' \in [Thread -> Entries \cup {NONE}]
  <2>1. PICK clean : redex' = [t \in Thread |-> IF t \in clean THEN NONE ELSE redex[t]]
    BY DEF Launch
  <2>. QED
    BY <1>1, <2>1 DEF KernelTypes
<1>4. \A t \in Thread : pc'[t] \in {"load", "wait"}
  BY <1>2
<1>5. KernelTypes'
  <2>1. pc' \in [Thread -> Stages \cup {"wait", "high"}]
    BY <1>2, <1>4 DEF Stages
  <2>2. stage' \in [Block -> Stages] /\ tick' \in [Block -> Nat] /\ rbag' \in [Thread -> Bag]
    BY <1>2, NoRedexesTyped DEF Stages
  <2>. QED
    BY <1>1, <1>2, <1>3, <2>1, <2>2 DEF KernelTypes
<1>6. \A c \in Block : TickInv(c)'
  BY <1>2 DEF TickInv
<1>7. ASSUME NEW t \in Thread PROVE LabelInv(t)' /\ SpawnInv(t)'
  <2>1. stage'[BID(t)] = "load"
    BY <1>2, Grid
  <2>. QED
    BY <1>4, <2>1 DEF LabelInv, SpawnInv
<1>. QED
  BY <1>5, <1>6, <1>7 DEF KernelInv

\* The host boots no more redexes than it has.
BootInv == boots \in 0 .. Len(Boots) /\ (host = "boot" => boots < Len(Boots))

LEMMA BootsInv ==
  /\ Init => BootInv
  /\ BootInv /\ [Next]_vars => BootInv'
<1>1. Len(Boots) \in Nat \ {0}
  BY CudaAssumption
<1>2. Init => BootInv
  BY <1>1 DEF Init, BootInv
<1>3. ASSUME BootInv, Host PROVE BootInv'
  BY <1>1, <1>3 DEF BootInv, Host, Boot, Inbetween, Again, Return, Launch
<1>4. ASSUME NEW t \in Thread, Step(t) PROVE UNCHANGED hostVars
  BY <1>4 DEF Step, Load, GiveInteract, GiveFound, GiveEmpty, GiveStop, Offer, Take,
              WorkInteract, HighInteract, Save, Flush
<1>5. ASSUME NEW b \in Block, Barrier(b) PROVE UNCHANGED hostVars
  BY <1>5 DEF Barrier, SyncLoad, SyncGive, SyncTake, SyncWork, SyncSave, SyncFlush, Sync
<1>6. UNCHANGED hostVars /\ BootInv => BootInv'
  BY DEF hostVars, BootInv
<1>. QED
  BY <1>2, <1>3, <1>4, <1>5, <1>6 DEF Next, vars

LEMMA NextHost == ASSUME KernelInv, BootInv, Host PROVE KernelInv'
<1>1. KernelTypes
  BY DEF KernelInv
<1>2. CASE Boot
  <2>1. PICK first, buf :
          /\ first = [redex |-> Boots[boots + 1], par |-> FALSE, local |-> FALSE]
          /\ buf = [bags EXCEPT ![turn][0] = IF @ = <<>> THEN <<first>> ELSE [@ EXCEPT ![1] = first]]
    OBVIOUS
  <2>2. Launch(buf, turn) /\ bags' = buf /\ UNCHANGED <<turn, rdec, pos>>
    BY <1>2, <2>1 DEF Boot
  <2>3. first \in Entries
    <3>1. Boots[boots + 1] \in Redex
      <4>1. host = "boot"
        BY <1>2 DEF Boot
      <4>2. Boots \in Seq(Redex)
        BY CudaAssumption
      <4>3. PICK n \in Nat : n = Len(Boots)
        BY <4>2
      <4>4. boots \in 0 .. n /\ boots < n
        BY <4>1, <4>3 DEF BootInv
      <4>5. boots + 1 \in 1 .. n
        BY <4>4
      <4>. QED
        BY <4>2, <4>3, <4>5
    <3>. QED
      BY <2>1, <3>1, EntriesTyped
  <2>4. 0 \in Thread
    <3>1. PICK T \in Nat \ {0}, B \in Nat \ {0} : T = TPB /\ B = BPG
      BY Sizes
    <3>2. T * B \in Nat \ {0}
      OBVIOUS
    <3>. QED
      BY <3>1, <3>2 DEF Thread
  <2>5. PICK s \in Seq(Entries) : s = bags[turn][0]
    BY <1>1, <2>4 DEF KernelTypes
  <2>6. PICK s2 : s2 = IF s = <<>> THEN <<first>> ELSE [s EXCEPT ![1] = first]
    OBVIOUS
  <2>7. s2 \in Seq(Entries)
    <3>1. s # <<>> => [s EXCEPT ![1] = first] \in Seq(Entries)
      BY <2>3
    <3>2. <<first>> \in Seq(Entries)
      BY <2>3
    <3>. QED
      BY <2>6, <3>1, <3>2
  <2>8. buf = [bags EXCEPT ![turn][0] = s2]
    BY <1>1, <2>1, <2>4, <2>5, <2>6 DEF KernelTypes
  <2>9. buf \in [{0, 1} -> [Thread -> Seq(Entries)]]
    BY <1>1, <2>7, <2>8 DEF KernelTypes
  <2>. QED
    BY <2>2, <2>9, NextLaunch
<1>3. CASE Again
  BY <1>1, <1>3, NextLaunch DEF Again, netVars, KernelTypes
<1>4. CASE Inbetween
  <2>1. UNCHANGED <<bags, pos, threadVars>> /\ rdec' \in {0, 1} /\ turn' \in {0, 1}
    BY <1>1, <1>4 DEF Inbetween, KernelTypes
  <2>. QED
    BY <2>1 DEF KernelInv, KernelTypes, LabelInv, SpawnInv, TickInv, threadVars
<1>5. CASE Return
  BY <1>5 DEF Return, netVars, threadVars, KernelInv, KernelTypes, LabelInv, SpawnInv, TickInv
<1>. QED
  BY <1>2, <1>3, <1>4, <1>5 DEF Host

LEMMA NextKernel == KernelInv /\ BootInv /\ [Next]_vars => KernelInv'
<1>. SUFFICES ASSUME KernelInv, BootInv, [Next]_vars PROVE KernelInv'
  OBVIOUS
<1>1. CASE UNCHANGED vars
  BY <1>1 DEF vars, netVars, threadVars, KernelInv, KernelTypes, LabelInv, SpawnInv, TickInv
<1>2. ASSUME NEW t \in Thread, Step(t) PROVE KernelInv'
  BY <1>2, NextLoad, NextGiveInteract, NextGive, NextTake, NextInteract, NextSave DEF Step
<1>3. ASSUME NEW b \in Block, Barrier(b) PROVE KernelInv'
  BY <1>3, NextBarrier
<1>4. CASE Host
  BY <1>4, NextHost
<1>. QED
  BY <1>1, <1>2, <1>3, <1>4 DEF Next

-----------------------------------------------------------------------------
(* The theorems.                                                           *)

\* Every reachable state of the kernel satisfies the inductive invariant: between
\* two barriers of the SEED and GROW loop a cell of the spawn buffer is written
\* by one thread at most, whose partner waits for it with an empty bag
\* (hvm.cu:1619-1706).
THEOREM KernelInvariant == Spec => [](KernelInv /\ BootInv)
BY InitKernel, NextKernel, BootsInv, PTL DEF Spec

\* "SPAWNED BUT HAVE REDEX" (hvm.cu:1678-1680) is never printed: a thread that
\* finds a redex in its cell has an empty bag, whatever its block has done.
THEOREM GivenToIdle == Spec => []SpawnedIdle
<1>1. KernelInv => SpawnedIdle
  <2>. SUFFICES ASSUME KernelInv, NEW t \in Thread, pc[t] = "take"
                PROVE  rbag_len(rbag[t]) = 0
    BY DEF SpawnedIdle
  <2>1. LabelInv(t) /\ SpawnInv(t) /\ rbag[t] \in Bag
    BY DEF KernelInv, KernelTypes
  <2>2. rbag[t] = NoRedexes
    BY <2>1 DEF LabelInv, SpawnInv
  <2>. QED
    BY <2>1, <2>2, HasSome
<1>. QED
  BY <1>1, KernelInvariant, PTL

-----------------------------------------------------------------------------
(* The room in the low stacks and in the slices.                           *)

\* A low stack is no longer than its buffer, and empty before the load.
LowInv(t) == Len(rbag[t].lo) <= RLEN /\ (pc[t] = "load" => rbag[t] = NoRedexes)
SlicesFit == \A k \in {0, 1}, s \in Thread : Len(bags[k][s]) <= RLEN
RangesInv ==
  /\ mode \in {"SEED", "GROW", "WORK"} /\ down \in BOOLEAN /\ hturn \in {0, 1}
  /\ pos \in [Thread -> 0 .. WRAP - 1] /\ rpos \in [Thread -> 0 .. WRAP - 1]
RoomInv == SlicesFit /\ \A t \in Thread : LowInv(t)

LEMMA LowLength ==
  /\ \A b \in Bag : Len(b.lo) \in Nat
  /\ Len(NoRedexes.lo) = 0
BY DEF Bag, NoRedexes

\* A push makes the low stack longer by one at most.
LEMMA PushLow ==
  ASSUME NEW b \in Bag, NEW e \in Entries
  PROVE  /\ is_high_priority(e) => Len(push_redex(b, e).lo) = Len(b.lo)
         /\ ~is_high_priority(e) => Len(push_redex(b, e).lo) = Len(b.lo) + 1
<1>1. b = [hi |-> b.hi, lo |-> b.lo] /\ b.hi \in Seq(HighEntries) /\ b.lo \in Seq(LowEntries)
  BY DEF Bag
<1>2. CASE is_high_priority(e)
  <2>1. push_redex(b, e).lo = b.lo
    BY <1>1, <1>2 DEF push_redex
  <2>. QED
    BY <1>1, <1>2, <2>1
<1>3. CASE ~is_high_priority(e)
  <2>1. push_redex(b, e).lo = Append(b.lo, e)
    BY <1>1, <1>3 DEF push_redex
  <2>. QED
    BY <1>1, <1>3, <2>1
<1>. QED
  BY <1>2, <1>3

LEMMA PushAllLow ==
  ASSUME NEW b \in Bag, NEW s \in Seq(Entries)
  PROVE  Len(push_all(b, s).lo) <= Len(b.lo) + Len(s)
<1>1. PICK k \in Nat : k = Len(s)
  OBVIOUS
<1>2. PICK f : /\ f[0] = b /\ push_all(b, s) = f[k]
               /\ \A n \in 0 .. k : f[n] \in Bag
               /\ \A n \in 1 .. k : f[n] = push_redex(f[n - 1], s[n])
  <2>1. PICK f : /\ f[0] = b /\ push_all(b, s) = f[Len(s)]
                 /\ \A n \in 0 .. Len(s) : f[n] \in Bag
                 /\ \A n \in 1 .. Len(s) : f[n] = push_redex(f[n - 1], s[n])
    BY PushAllSteps, Zenon
  <2>. QED
    BY <1>1, <2>1
<1>3. PICK m \in Nat : m = Len(b.lo)
  BY LowLength
<1>. DEFINE Fits0(n) == Len(f[n].lo) <= m + n
            g == [n \in 0 .. k |-> Fits0(n)]
<1>4. Fits0(0)
  BY <1>2, <1>3
<1>5. ASSUME NEW n \in 1 .. k, Fits0(n - 1) PROVE Fits0(n)
  <2>1. n - 1 \in 0 .. k /\ n \in 0 .. k /\ s[n] \in Entries
    BY <1>1
  <2>2. f[n - 1] \in Bag /\ f[n] = push_redex(f[n - 1], s[n]) /\ f[n] \in Bag
    BY <1>2, <2>1
  <2>3. PICK p, q \in Nat : p = Len(f[n - 1].lo) /\ q = Len(f[n].lo)
    BY <2>2, LowLength
  <2>4. q = p \/ q = p + 1
    <3>1. CASE is_high_priority(s[n])
      BY <2>1, <2>2, <2>3, <3>1, PushLow
    <3>2. CASE ~is_high_priority(s[n])
      BY <2>1, <2>2, <2>3, <3>2, PushLow
    <3>. QED
      BY <3>1, <3>2
  <2>5. p <= m + (n - 1)
    BY <1>5, <2>3
  <2>6. q <= m + n
    BY <2>4, <2>5
  <2>. QED
    BY <2>3, <2>6
<1>. HIDE DEF Fits0
<1>6. g[0] \in {TRUE} /\ \A n \in 1 .. k : g[n - 1] \in {TRUE} => g[n] \in {TRUE}
  <2>1. 0 \in 0 .. k /\ \A n \in 1 .. k : n - 1 \in 0 .. k /\ n \in 0 .. k
    OBVIOUS
  <2>. QED
    BY <1>4, <1>5, <2>1, Zenon
<1>7. g[k] \in {TRUE}
  <2>1. PICK h, V : h = g /\ V = {TRUE}
    OBVIOUS
  <2>. HIDE DEF g
  <2>2. h[0] \in V /\ \A n \in 1 .. k : h[n - 1] \in V => h[n] \in V
    BY <1>6, <2>1, Zenon
  <2>3. k \in 0 .. k
    OBVIOUS
  <2>4. h[k] \in V
    BY <2>2, <2>3, Reaches
  <2>. QED
    BY <2>1, <2>4, Zenon
<1>8. Fits0(k)
  <2>1. k \in 0 .. k
    OBVIOUS
  <2>. QED
    BY <1>7, <2>1, Zenon
<1>. QED
  BY <1>1, <1>2, <1>3, <1>8 DEF Fits0

\* What is popped and pushed again, with or without its mark, fits where it was.
LEMMA PopPushLow ==
  ASSUME NEW b \in Bag, b # NoRedexes, NEW e \in Entries, e.redex = Top(b).redex
  PROVE  /\ Popped(b) \in Bag /\ Len(Popped(b).lo) <= Len(b.lo)
         /\ Len(push_redex(Popped(b), e).lo) <= Len(b.lo)
<1>1. b = [hi |-> b.hi, lo |-> b.lo] /\ b.hi \in Seq(HighEntries) /\ b.lo \in Seq(LowEntries)
  BY DEF Bag
<1>2. Popped(b) \in Bag
  BY PopTyped
<1>3. /\ is_high_priority(e) => Len(push_redex(Popped(b), e).lo) = Len(Popped(b).lo)
      /\ ~is_high_priority(e) => Len(push_redex(Popped(b), e).lo) = Len(Popped(b).lo) + 1
  BY <1>2, PushLow
<1>4. PICK m \in Nat : m = Len(b.lo)
  BY LowLength
<1>5. CASE b.hi # <<>>
  <2>1. Popped(b).lo = b.lo /\ Top(b) \in HighEntries
    BY <1>1, <1>5, FrontLast DEF Top, Popped, has_highs
  <2>2. is_high_priority(e)
    BY <2>1 DEF HighEntries, is_high_priority, Leak
  <2>. QED
    BY <1>2, <1>3, <1>4, <2>1, <2>2
<1>6. CASE b.hi = <<>>
  <2>1. Popped(b).lo = Front(b.lo) /\ b.lo # <<>>
    BY <1>1, <1>6 DEF Popped, has_highs, NoRedexes
  <2>2. m - 1 \in Nat /\ Len(Front(b.lo)) = m - 1
    <3>1. m # 0
      BY <1>1, <1>4, <2>1
    <3>2. Front(b.lo) = SubSeq(b.lo, 1, m - 1)
      BY <1>4 DEF Front
    <3>3. m - 1 \in Nat /\ m - 1 <= m
      BY <3>1
    <3>4. PICK l \in Seq(LowEntries) : l = b.lo /\ m = Len(l)
      BY <1>1, <1>4
    <3>5. \A j \in 1 .. m - 1 : l[j] \in LowEntries
      BY <3>3, <3>4
    <3>6. SubSeq(l, 1, m - 1) = [j \in 1 .. m - 1 |-> l[j]]
      BY <3>3, <3>4
    <3>. QED
      BY <3>2, <3>3, <3>4, <3>5, <3>6
  <2>3. PICK p, q : /\ p = Len(Popped(b).lo) /\ q = Len(push_redex(Popped(b), e).lo)
    OBVIOUS
  <2>4. p = m - 1 /\ (q = p \/ q = p + 1)
    BY <1>3, <2>1, <2>2, <2>3
  <2>5. p <= m /\ q <= m
    BY <2>4
  <2>. QED
    BY <1>2, <1>4, <2>3, <2>5
<1>. QED
  BY <1>5, <1>6

\* A rule asks for the room its pushes need, and a failed one pushes back only
\* what was popped.
LEMMA InteractLow ==
  ASSUME KernelTypes, NEW t \in Thread, rbag[t] # NoRedexes, Len(rbag[t].lo) <= RLEN,
         NEW ok, Interact(t, ok)
  PROVE  \E b \in Bag : rbag' = [rbag EXCEPT ![t] = b] /\ Len(b.lo) <= RLEN
<1>1. rbag[t] \in Bag
  BY DEF KernelTypes
<1>2. PICK e, b : e = Top(rbag[t]) /\ b = Popped(rbag[t])
  OBVIOUS
<1>3. e \in Entries /\ b \in Bag
  BY <1>1, <1>2, PopTyped
<1>4. push_all(b, Pushes(e)) \in Bag /\ push_redex(b, e) \in Bag /\ Pushes(e) \in Seq(Entries)
  BY <1>3, PushesTyped, PushAllTyped, PushTyped
<1>5. /\ rbag' = [rbag EXCEPT ![t] = IF ok THEN push_all(b, Pushes(e)) ELSE push_redex(b, e)]
      /\ ok = Succeeds(b, e)
  BY <1>2 DEF Interact
<1>6. RLEN \in Nat
  BY CudaAssumption
<1>7. CASE ok
  <2>1. PICK n, p, q \in Nat : /\ n = Len(b.lo) /\ p = Len(Pushes(e))
                               /\ q = Len(push_all(b, Pushes(e)).lo)
    BY <1>3, <1>4, LowLength
  <2>2. Asked(e) \in Nat /\ p <= Asked(e)
    <3>1. CASE Leak(e)
      <4>1. PICK s \in Seq(Node) : s = Under[e.redex] /\ Len(s) <= 2
        BY <3>1, CudaAssumption DEF Leak
      <4>2. Pushes(e) = [k \in DOMAIN s |-> Entry(s[k])]
        BY <3>1, <4>1 DEF Pushes
      <4>3. p = Len(s)
        BY <2>1, <4>2
      <4>. QED
        BY <3>1, <4>1, <4>3 DEF Asked
    <3>2. CASE ~Leak(e)
      <4>1. e.redex \in Redex
        BY <1>3, <3>2 DEF Entries, Leak
      <4>2. PICK s \in Seq(Redex), m \in Nat : s = Spawn[e.redex] /\ m = Need[e.redex] /\ Len(s) <= m
        BY <4>1, CudaAssumption
      <4>3. Pushes(e) = [k \in DOMAIN s |-> Entry(s[k])]
        BY <3>2, <4>2 DEF Pushes
      <4>4. p = Len(s)
        BY <2>1, <4>3
      <4>. QED
        BY <3>2, <4>2, <4>4 DEF Asked
    <3>. QED
      BY <3>1, <3>2
  <2>3. RLEN - n >= Asked(e)
    BY <1>5, <1>7, <2>1 DEF Succeeds
  <2>4. q <= n + p
    BY <1>3, <1>4, <2>1, PushAllLow
  <2>5. q <= RLEN
    BY <1>6, <2>2, <2>3, <2>4
  <2>. QED
    BY <1>4, <1>5, <1>7, <2>1, <2>5
<1>8. CASE ~ok
  <2>1. PICK n, m \in Nat : n = Len(push_redex(b, e).lo) /\ m = Len(rbag[t].lo)
    BY <1>1, <1>4, LowLength
  <2>2. n <= m
    BY <1>1, <1>2, <1>3, <2>1, PopPushLow
  <2>3. n <= RLEN
    BY <1>6, <2>1, <2>2
  <2>. QED
    BY <1>4, <1>5, <1>8, <2>1, <2>3
<1>. QED
  BY <1>7, <1>8

\* The redex below the one that is given stays.
LEMMA UnmarkedLow ==
  ASSUME NEW b \in Bag
  PROVE  Unmarked(b) \in Bag /\ Len(Unmarked(b).lo) <= Len(b.lo)
<1>1. CASE rbag_len(b) = 0
  <2>1. Unmarked(b) = b
    BY <1>1 DEF Unmarked
  <2>. QED
    BY <2>1, LowLength
<1>2. CASE rbag_len(b) # 0
  <2>1. b # NoRedexes
    BY <1>2, HasSome
  <2>2. /\ clr_par_flag(Top(b)) \in Entries /\ Top(b) \in Entries
        /\ clr_par_flag(Top(b)).redex = Top(b).redex
    BY <2>1, PopTyped, EntriesTyped DEF clr_par_flag, Entries
  <2>3. Unmarked(b) = push_redex(Popped(b), clr_par_flag(Top(b)))
    BY <1>2 DEF Unmarked
  <2>. QED
    BY <2>1, <2>2, <2>3, PopPushLow, UnmarkedTyped
<1>. QED
  BY <1>1, <1>2

\* A thread that changes its bag and its label keeps the rest.
LEMMA RoomKeeps ==
  ASSUME KernelTypes, RoomInv, NEW t \in Thread, NEW b \in Bag, NEW l,
         rbag' = [rbag EXCEPT ![t] = b], pc' = [pc EXCEPT ![t] = l],
         Len(b.lo) <= RLEN, l # "load", SlicesFit'
  PROVE  RoomInv'
<1>1. ASSUME NEW u \in Thread PROVE LowInv(u)'
  <2>1. /\ rbag'[u] = IF u = t THEN b ELSE rbag[u]
        /\ pc'[u] = IF u = t THEN l ELSE pc[u]
    BY DEF KernelTypes
  <2>. QED
    BY <2>1 DEF RoomInv, LowInv
<1>. QED
  BY <1>1 DEF RoomInv

LEMMA RoomStep ==
  ASSUME KernelInv, RoomInv, NEW t \in Thread, Step(t)
  PROVE  RoomInv'
<1>1. /\ KernelTypes /\ LabelInv(t) /\ rbag[t] \in Bag /\ turn \in {0, 1} /\ RLEN \in Nat \ {0}
      /\ Len(rbag[t].lo) <= RLEN /\ SlicesFit
  BY CudaAssumption DEF KernelInv, KernelTypes, RoomInv, LowInv
<1>2. bags' = bags => SlicesFit'
  BY <1>1 DEF SlicesFit
<1>3. PICK s \in Thread : s = BagOf(t)
  BY SlicesApart
<1>4. PICK m \in Nat : m = Len(rbag[t].lo) /\ m <= RLEN
  BY <1>1, LowLength
<1>5. CASE Load(t)
  <2>1. rbag[t] = NoRedexes
    BY <1>5 DEF Load, RoomInv, LowInv
  <2>2. PICK c \in Seq(Entries) : c = bags[turn][s] /\ Len(c) <= RLEN
    BY <1>1, <1>3 DEF KernelTypes, SlicesFit
  <2>3. PICK b \in Bag : b = push_all(NoRedexes, c)
    BY <2>2, NoRedexesTyped, PushAllTyped
  <2>4. PICK n \in Nat : n = Len(b.lo)
    BY LowLength
  <2>5. n <= RLEN
    <3>1. n <= 0 + Len(c)
      BY <2>3, <2>4, NoRedexesTyped, PushAllLow, LowLength
    <3>. QED
      BY <1>1, <2>2, <3>1
  <2>6. rbag' = [rbag EXCEPT ![t] = b] /\ pc' = [pc EXCEPT ![t] = "wait"]
    BY <1>3, <1>5, <2>1, <2>2, <2>3 DEF Load, Goto
  <2>7. SlicesFit'
    <3>1. bags' = [bags EXCEPT ![turn][s] = <<>>]
      BY <1>3, <1>5 DEF Load, Taken
    <3>2. \A k \in {0, 1}, v \in Thread : bags'[k][v] = <<>> \/ bags'[k][v] = bags[k][v]
      BY <1>1, <3>1 DEF KernelTypes
    <3>3. Len(<<>>) = 0 /\ 0 <= RLEN
      BY <1>1
    <3>. QED
      BY <1>1, <3>2, <3>3 DEF SlicesFit
  <2>. QED
    BY <1>1, <2>4, <2>5, <2>6, <2>7, RoomKeeps
<1>6. CASE GiveInteract(t) \/ WorkInteract(t) \/ HighInteract(t) \/ Flush(t)
  <2>1. rbag[t] # NoRedexes
    <3>1. CASE GiveInteract(t)
      <4>1. rbag_len(rbag[t]) # 0
        BY <3>1 DEF GiveInteract
      <4>. QED
        BY <1>1, <4>1, HasSome
    <3>2. CASE WorkInteract(t) \/ HighInteract(t) \/ Flush(t)
      BY <1>1, <3>2 DEF LabelInv, WorkInteract, HighInteract, Flush
    <3>. QED
      BY <1>6, <3>1, <3>2
  <2>2. PICK ok : Interact(t, ok)
    BY <1>6 DEF GiveInteract, WorkInteract, HighInteract, Flush
  <2>3. PICK b \in Bag : rbag' = [rbag EXCEPT ![t] = b] /\ Len(b.lo) <= RLEN
    BY <1>1, <2>1, <2>2, InteractLow
  <2>4. PICK l : pc' = [pc EXCEPT ![t] = l] /\ l # "load"
    <3>1. CASE GiveInteract(t)
      <4>1. PICK l : /\ l = (IF has_highs(rbag'[t]) THEN "high" ELSE "give")
                     /\ Goto(t, l)
        BY <3>1, Zenon DEF GiveInteract
      <4>2. l # "load"
        BY <4>1
      <4>. QED
        BY <4>1, <4>2 DEF Goto
    <3>2. CASE WorkInteract(t)
      BY <3>2 DEF WorkInteract, Goto
    <3>3. CASE HighInteract(t)
      BY <3>3 DEF HighInteract, Goto
    <3>4. CASE Flush(t)
      <4>1. PICK l : /\ l = (IF has_highs(rbag'[t]) THEN "flush" ELSE "wait")
                     /\ Goto(t, l)
        BY <3>4, Zenon DEF Flush
      <4>2. l # "load"
        BY <4>1
      <4>. QED
        BY <4>1, <4>2 DEF Goto
    <3>. QED
      BY <1>6, <3>1, <3>2, <3>3, <3>4
  <2>5. bags' = bags
    BY <1>6 DEF GiveInteract, WorkInteract, HighInteract, Flush
  <2>. QED
    BY <1>1, <1>2, <2>3, <2>4, <2>5, RoomKeeps
<1>7. CASE GiveFound(t) \/ GiveEmpty(t) \/ GiveStop(t)
  <2>1. PICK r, b : /\ Offer(t, r, b)
                    /\ \/ b = rbag[t]
                       \/ b = Unmarked(Popped(rbag[t])) /\ rbag_len(rbag[t]) > 0
    BY <1>7 DEF GiveFound, GiveEmpty, GiveStop
  <2>2. b \in Bag /\ Len(b.lo) <= RLEN
    <3>1. CASE b = rbag[t]
      BY <1>1, <3>1
    <3>2. CASE b = Unmarked(Popped(rbag[t])) /\ rbag_len(rbag[t]) > 0
      <4>1. rbag[t] # NoRedexes
        <5>1. rbag_len(rbag[t]) # 0
          BY <3>2
        <5>. QED
          BY <1>1, <5>1, HasSome
      <4>2. PICK c \in Bag : c = Popped(rbag[t]) /\ Len(c.lo) <= m
        BY <1>1, <1>4, <4>1, PopTyped, PopPushLow
      <4>3. PICK n, p \in Nat : n = Len(b.lo) /\ p = Len(c.lo) /\ b \in Bag
        BY <3>2, <4>2, UnmarkedLow, LowLength
      <4>4. n <= p
        BY <3>2, <4>2, <4>3, UnmarkedLow
      <4>5. n <= RLEN
        BY <1>1, <1>4, <4>2, <4>3, <4>4
      <4>. QED
        BY <4>3, <4>5
    <3>. QED
      BY <2>1, <3>1, <3>2
  <2>3. /\ rbag' = [rbag EXCEPT ![t] = b] /\ pc' = [pc EXCEPT ![t] = "wait"]
        /\ bags' = bags
    BY <2>1 DEF Offer, Goto, netVars
  <2>. QED
    BY <1>1, <1>2, <2>2, <2>3, RoomKeeps
<1>8. CASE Take(t)
  <2>1. pc[t] = "take" /\ spawn[t] \in Entries /\ SpawnInv(t) /\ stage[BID(t)] = "take"
    BY <1>1, <1>8 DEF Take, LabelInv, KernelTypes, KernelInv
  <2>2. rbag[t] = NoRedexes
    BY <1>1, <2>1 DEF LabelInv, SpawnInv
  <2>3. PICK b \in Bag : b = push_redex(NoRedexes, spawn[t])
    BY <2>1, NoRedexesTyped, PushTyped
  <2>4. Len(b.lo) <= RLEN
    <3>1. PICK n \in Nat : n = Len(b.lo)
      BY LowLength
    <3>2. CASE is_high_priority(spawn[t])
      <4>1. n = 0
        BY <2>1, <2>3, <3>1, <3>2, NoRedexesTyped, PushLow, LowLength
      <4>. QED
        BY <1>1, <3>1, <4>1
    <3>3. CASE ~is_high_priority(spawn[t])
      <4>1. n = 0 + 1
        BY <2>1, <2>3, <3>1, <3>3, NoRedexesTyped, PushLow, LowLength
      <4>. QED
        BY <1>1, <3>1, <4>1
    <3>. QED
      BY <3>2, <3>3
  <2>5. /\ rbag' = [rbag EXCEPT ![t] = b] /\ pc' = [pc EXCEPT ![t] = "wait"] /\ bags' = bags
    BY <1>8, <2>2, <2>3 DEF Take, Goto, netVars
  <2>. QED
    BY <1>1, <1>2, <2>4, <2>5, RoomKeeps
<1>9. CASE Save(t)
  <2>1. PICK lo \in Seq(LowEntries) : lo = rbag[t].lo
    BY <1>1 DEF Bag
  <2>2. PICK saved : saved = [k \in DOMAIN lo |-> [lo[k] EXCEPT !.local = FALSE]]
    OBVIOUS
  <2>3. PICK hi : rbag' = [rbag EXCEPT ![t] = [hi |-> hi, lo |-> <<>>]]
    BY <1>9 DEF Save
  <2>4. bags' = [bags EXCEPT ![1 - turn][s] = saved] /\ pc' = [pc EXCEPT ![t] = "wait"]
    BY <1>3, <1>9, <2>1, <2>2 DEF Save, Goto
  <2>5. Len(saved) = m
    <3>1. DOMAIN lo = 1 .. m
      BY <1>4, <2>1
    <3>. QED
      BY <2>2, <3>1
  <2>6. SlicesFit'
    <3>1. 1 - turn \in {0, 1}
      BY <1>1
    <3>2. \A k \in {0, 1}, v \in Thread : bags'[k][v] = saved \/ bags'[k][v] = bags[k][v]
      BY <1>1, <2>4, <3>1 DEF KernelTypes
    <3>. QED
      BY <1>1, <1>4, <2>5, <3>2 DEF SlicesFit
  <2>7. ASSUME NEW u \in Thread PROVE LowInv(u)'
    <3>1. /\ u = t => rbag'[u].lo = <<>> /\ pc'[u] = "wait"
          /\ u # t => rbag'[u] = rbag[u] /\ pc'[u] = pc[u]
      BY <1>1, <2>3, <2>4 DEF KernelTypes
    <3>2. Len(<<>>) = 0 /\ 0 <= RLEN
      BY <1>1
    <3>. QED
      BY <3>1, <3>2 DEF RoomInv, LowInv
  <2>. QED
    BY <2>6, <2>7 DEF RoomInv
<1>. QED
  BY <1>5, <1>6, <1>7, <1>8, <1>9 DEF Step

\* What happens at a barrier.
LEMMA BarrierIs ==
  ASSUME NEW b \in Block, Barrier(b)
  PROVE  /\ UNCHANGED <<mode, turn, use, bags, rbag, redex, done, hostVars>>
         /\ \E from, stg, tk :
              /\ Sync(b, from) /\ Proceed(b, stg, tk, spawn', rpos')
              /\ \/ /\ from = "load" /\ stg \in {"work", "give", "exit"}
                    /\ stg = "exit" => \A t \in Threads(b) : rbag_len(rbag[t]) = 0
                    /\ spawn' = [t \in Thread |-> IF BID(t) # b THEN spawn[t]
                                   ELSE IF rbag_len(rbag[t]) > 0 THEN FULL ELSE EMPTY]
                 \/ from = "give" /\ stg = "take" /\ tk = tick[b] /\ spawn' = spawn
                 \/ from = "take" /\ stg \in {"give", "save"} /\ spawn' = spawn
                 \/ from = "work" /\ stg \in {"work", "save"} /\ spawn' = spawn
                 \/ from = "save" /\ stg = "flush" /\ spawn' = spawn
                 \/ from = "flush" /\ stg = "exit" /\ spawn' = spawn
<1>1. UNCHANGED <<mode, turn, use, bags, rbag, redex, done, hostVars>>
  BY DEF Barrier, SyncLoad, SyncGive, SyncTake, SyncWork, SyncSave, SyncFlush, Sync, netVars
<1>2. CASE SyncLoad(b)
  <2>1. \/ Proceed(b, "exit", 0, spawn', rpos') /\ \A t \in Threads(b) : rbag_len(rbag[t]) = 0
        \/ Proceed(b, "work", 0, spawn', rpos')
        \/ Proceed(b, "give", 0, spawn', rpos')
    BY <1>2 DEF SyncLoad
  <2>2. /\ Sync(b, "load")
        /\ spawn' = [t \in Thread |-> IF BID(t) # b THEN spawn[t]
                       ELSE IF rbag_len(rbag[t]) > 0 THEN FULL ELSE EMPTY]
    BY <1>2 DEF SyncLoad
  <2>. QED
    BY <1>1, <2>1, <2>2, SMTT(30)
<1>3. CASE SyncGive(b)
  <2>1. Sync(b, "give") /\ Proceed(b, "take", tick[b], spawn', rpos') /\ spawn' = spawn
    BY <1>3 DEF SyncGive
  <2>. QED
    BY <1>1, <2>1
<1>4. CASE SyncTake(b)
  <2>1. /\ Sync(b, "take") /\ spawn' = spawn
        /\ \/ Proceed(b, "give", tick[b] + 1, spawn', rpos')
           \/ Proceed(b, "save", 0, spawn', rpos')
    BY <1>4 DEF SyncTake
  <2>. QED
    BY <1>1, <2>1
<1>5. CASE SyncWork(b)
  <2>1. /\ Sync(b, "work") /\ spawn' = spawn
        /\ \/ Proceed(b, "work", tick[b] + 1, spawn', rpos')
           \/ Proceed(b, "save", 0, spawn', rpos')
    BY <1>5 DEF SyncWork
  <2>. QED
    BY <1>1, <2>1
<1>6. CASE SyncSave(b)
  <2>1. Sync(b, "save") /\ Proceed(b, "flush", 0, spawn', rpos') /\ spawn' = spawn
    BY <1>6 DEF SyncSave
  <2>. QED
    BY <1>1, <2>1
<1>7. CASE SyncFlush(b)
  <2>1. Sync(b, "flush") /\ Proceed(b, "exit", 0, spawn', rpos') /\ spawn' = spawn
    BY <1>7 DEF SyncFlush
  <2>. QED
    BY <1>1, <2>1
<1>. QED
  BY <1>2, <1>3, <1>4, <1>5, <1>6, <1>7 DEF Barrier

\* At a barrier no bag changes, and no thread starts to load.
LEMMA RoomBarrier ==
  ASSUME KernelInv, RoomInv, NEW b \in Block, Barrier(b)
  PROVE  RoomInv'
<1>1. UNCHANGED <<bags, rbag>> /\ KernelTypes
  BY BarrierIs DEF KernelInv
<1>2. PICK from, stg, tk : /\ Proceed(b, stg, tk, spawn', rpos')
                           /\ stg \in {"exit", "give", "take", "work", "save", "flush"}
  BY BarrierIs
<1>3. ASSUME NEW t \in Thread PROVE pc'[t] = "load" => pc[t] = "load"
  <2>1. pc'[t] = IF BID(t) = b THEN Task(t, stg, tk, spawn', rpos') ELSE pc[t]
    BY <1>2 DEF Proceed
  <2>2. Task(t, stg, tk, spawn', rpos') # "load"
    <3>1. PICK l : l = Task(t, stg, tk, spawn', rpos')
      OBVIOUS
    <3>2. l \in {"give", "take", "work", "save", "flush", "wait"}
      BY <3>1 DEF Task
    <3>. QED
      BY <3>1, <3>2
  <2>. QED
    BY <2>1, <2>2
<1>. QED
  BY <1>1, <1>3 DEF RoomInv, LowInv, SlicesFit

\* A launch starts with empty bags, and the root redex takes the place of another.
LEMMA RoomHost ==
  ASSUME KernelInv, RoomInv, Host
  PROVE  RoomInv'
<1>1. KernelTypes /\ SlicesFit
  BY DEF KernelInv, RoomInv
<1>2. RLEN \in Nat \ {0}
  BY CudaAssumption
<1>3. ASSUME NEW buf, NEW trn, Launch(buf, trn), SlicesFit' PROVE RoomInv'
  <2>1. rbag' = [t \in Thread |-> NoRedexes]
    BY <1>3 DEF Launch
  <2>2. \A t \in Thread : rbag'[t] = NoRedexes /\ Len(rbag'[t].lo) <= RLEN
    BY <1>2, <2>1, LowLength
  <2>. QED
    BY <1>3, <2>2 DEF RoomInv, LowInv
<1>4. CASE Boot
  <2>1. PICK first, buf :
          /\ first = [redex |-> Boots[boots + 1], par |-> FALSE, local |-> FALSE]
          /\ buf = [bags EXCEPT ![turn][0] = IF @ = <<>> THEN <<first>> ELSE [@ EXCEPT ![1] = first]]
    OBVIOUS
  <2>2. Launch(buf, turn) /\ bags' = buf
    BY <1>4, <2>1 DEF Boot
  <2>3. ASSUME NEW k \in {0, 1}, NEW s \in Thread PROVE Len(bags'[k][s]) <= RLEN
    <3>1. PICK c \in Seq(Entries) : c = bags[k][s] /\ Len(c) <= RLEN
      BY <1>1 DEF KernelTypes, SlicesFit
    <3>2. PICK d : d = [c EXCEPT ![1] = first]
      OBVIOUS
    <3>3. bags'[k][s] = c \/ bags'[k][s] = <<first>> \/ (bags'[k][s] = d /\ c # <<>>)
      BY <1>1, <2>1, <2>2, <3>1, <3>2 DEF KernelTypes
    <3>4. Len(<<first>>) = 1 /\ 1 <= RLEN
      BY <1>2
    <3>5. Len(d) = Len(c)
      <4>1. PICK n \in Nat : n = Len(c) /\ DOMAIN c = 1 .. n
        BY <3>1
      <4>2. DOMAIN d = 1 .. n
        BY <3>2, <4>1
      <4>. QED
        BY <4>1, <4>2
    <3>. QED
      BY <3>1, <3>3, <3>4, <3>5
  <2>. QED
    BY <1>3, <2>2, <2>3 DEF SlicesFit
<1>5. CASE Again
  <2>1. Launch(bags, turn) /\ bags' = bags
    BY <1>5 DEF Again, netVars
  <2>2. SlicesFit'
    BY <1>1, <2>1 DEF SlicesFit
  <2>. QED
    BY <1>3, <2>1, <2>2
<1>6. CASE Inbetween \/ Return
  <2>1. UNCHANGED <<bags, rbag, pc>>
    BY <1>6 DEF Inbetween, Return, netVars, threadVars
  <2>. QED
    BY <2>1 DEF RoomInv, LowInv, SlicesFit
<1>. QED
  BY <1>4, <1>5, <1>6 DEF Host

LEMMA NextRoom ==
  /\ Init => RoomInv
  /\ KernelInv /\ RoomInv /\ [Next]_vars => RoomInv'
<1>1. ASSUME Init PROVE RoomInv
  <2>1. RLEN \in Nat /\ Len(<<>>) = 0
    BY CudaAssumption
  <2>2. \A k \in {0, 1}, s \in Thread : bags[k][s] = <<>>
    BY <1>1 DEF Init
  <2>3. \A t \in Thread : rbag[t] = NoRedexes
    BY <1>1 DEF Init
  <2>. QED
    BY <2>1, <2>2, <2>3, LowLength DEF RoomInv, SlicesFit, LowInv
<1>2. ASSUME KernelInv, RoomInv, UNCHANGED vars PROVE RoomInv'
  BY <1>2 DEF RoomInv, SlicesFit, LowInv, vars, netVars, threadVars
<1>. QED
  BY <1>1, <1>2, RoomStep, RoomBarrier, RoomHost DEF Next

\* Counters of 32 bits: what is subtracted was there, and a length less one is
\* taken modulo WRAP.
LEMMA Wrapped == \A n \in Int : n % WRAP \in 0 .. WRAP - 1
<1>1. WRAP \in Nat \ {0}
  BY CudaAssumption
<1>2. \A w \in Nat \ {0}, n \in Int : n % w \in 0 .. w - 1
  OBVIOUS
<1>. QED
  BY <1>1, <1>2

LEMMA RangesStep ==
  ASSUME KernelInv, RangesInv, NEW t \in Thread, Step(t)
  PROVE  RangesInv'
<1>1. /\ rpos \in [Thread -> 0 .. WRAP - 1] /\ 0 \in 0 .. WRAP - 1 /\ KernelTypes
      /\ rbag[t] \in Bag
  <2>1. 0 \in 0 .. WRAP - 1
    BY CudaAssumption
  <2>. QED
    BY <2>1 DEF RangesInv, KernelInv, KernelTypes
<1>2. /\ UNCHANGED <<mode, down, pos, hturn>>
      /\ \/ rpos' = rpos
         \/ rpos' = [rpos EXCEPT ![t] = 0]
         \/ \E b \in Bag : rpos' = [rpos EXCEPT ![t] = (Len(b.lo) - 1) % WRAP]
  <2>1. ASSUME NEW r, NEW b, Offer(t, r, b), b \in Bag
        PROVE  /\ UNCHANGED <<mode, down, pos, hturn>>
               /\ \/ rpos' = rpos
                  \/ \E c \in Bag : rpos' = [rpos EXCEPT ![t] = (Len(c.lo) - 1) % WRAP]
    <3>1. UNCHANGED <<mode, down, pos, hturn>>
      BY <2>1 DEF Offer, netVars, hostVars
    <3>2. CASE rpos' = rpos
      BY <3>1, <3>2
    <3>3. CASE rpos' = [rpos EXCEPT ![t] = IF down THEN @ ELSE (Len(b.lo) - 1) % WRAP]
      <4>1. CASE down
        BY <1>1, <3>1, <3>3, <4>1
      <4>2. CASE ~down
        BY <2>1, <3>1, <3>3, <4>2
      <4>. QED
        BY <4>1, <4>2
    <3>. QED
      BY <2>1, <3>2, <3>3 DEF Offer
  <2>2. CASE GiveFound(t)
    <3>1. rbag_len(rbag[t]) > 0 /\ Offer(t, Top(rbag[t]), Unmarked(Popped(rbag[t])))
      BY <2>2 DEF GiveFound
    <3>2. rbag[t] # NoRedexes
      <4>1. rbag_len(rbag[t]) # 0
        BY <3>1
      <4>. QED
        BY <1>1, <4>1, HasSome
    <3>3. Unmarked(Popped(rbag[t])) \in Bag
      BY <1>1, <3>2, PopTyped, UnmarkedLow
    <3>. QED
      BY <2>1, <3>1, <3>3
  <2>3. CASE GiveEmpty(t) \/ GiveStop(t)
    BY <1>1, <2>1, <2>3 DEF GiveEmpty, GiveStop
  <2>4. CASE Take(t)
    BY <2>4 DEF Take, netVars, hostVars
  <2>5. CASE Load(t) \/ GiveInteract(t) \/ WorkInteract(t) \/ HighInteract(t)
             \/ Save(t) \/ Flush(t)
    BY <2>5 DEF Load, GiveInteract, WorkInteract, HighInteract, Save, Flush, hostVars
  <2>. QED
    BY <2>2, <2>3, <2>4, <2>5 DEF Step
<1>3. \A b \in Bag : (Len(b.lo) - 1) % WRAP \in 0 .. WRAP - 1
  <2>1. \A b \in Bag : Len(b.lo) - 1 \in Int
    BY LowLength
  <2>. QED
    BY <2>1, Wrapped
<1>4. rpos' \in [Thread -> 0 .. WRAP - 1]
  <2>1. CASE \E b \in Bag : rpos' = [rpos EXCEPT ![t] = (Len(b.lo) - 1) % WRAP]
    <3>1. PICK n \in 0 .. WRAP - 1 : rpos' = [rpos EXCEPT ![t] = n]
      BY <1>3, <2>1
    <3>. QED
      BY <1>1, <3>1
  <2>. QED
    BY <1>1, <1>2, <2>1
<1>. QED
  BY <1>2, <1>4 DEF RangesInv

LEMMA RangesBarrier ==
  ASSUME KernelInv, RangesInv, NEW b \in Block, Barrier(b)
  PROVE  RangesInv'
<1>1. /\ rpos \in [Thread -> 0 .. WRAP - 1] /\ pos \in [Thread -> 0 .. WRAP - 1]
      /\ rdec \in {0, 1} /\ Threads(b) \subseteq Thread
  BY DEF RangesInv, KernelInv, KernelTypes, Threads
<1>2. UNCHANGED <<mode, down, hturn>>
  BY DEF Barrier, SyncLoad, SyncGive, SyncTake, SyncWork, SyncSave, SyncFlush, Sync,
         netVars, hostVars
<1>3. CASE SyncLoad(b)
  <2>1. pos' = pos
    BY <1>3 DEF SyncLoad, netVars
  <2>2. rpos' = [t \in Thread |-> IF BID(t) # b THEN rpos[t]
                   ELSE IF mode # "WORK" /\ [u \in Thread |-> pos[BagOf(u)]][t] > 0
                        THEN [u \in Thread |-> pos[BagOf(u)]][t] - rdec
                        ELSE [u \in Thread |-> pos[BagOf(u)]][t]]
    BY <1>3 DEF SyncLoad
  <2>3. ASSUME NEW t \in Thread PROVE rpos'[t] \in 0 .. WRAP - 1
    <3>1. PICK n \in 0 .. WRAP - 1 : n = pos[BagOf(t)]
      BY <1>1, SlicesApart
    <3>2. rpos'[t] = IF BID(t) # b THEN rpos[t]
                     ELSE IF mode # "WORK" /\ n > 0 THEN n - rdec ELSE n
      BY <2>2, <3>1
    <3>3. rpos'[t] = rpos[t] \/ rpos'[t] = n \/ (n > 0 /\ rpos'[t] = n - rdec)
      BY <3>2
    <3>4. WRAP \in Nat
      BY CudaAssumption
    <3>. QED
      BY <1>1, <3>1, <3>3, <3>4
  <2>4. rpos' \in [Thread -> 0 .. WRAP - 1]
    BY <2>2, <2>3
  <2>. QED
    BY <1>1, <1>2, <2>1, <2>4 DEF RangesInv
<1>4. CASE SyncTake(b) /\ ~(tick[b] + 1 < Tlim)
  <2>1. /\ rpos' = rpos
        /\ pos' = [s \in Thread |-> IF \E t \in Threads(b) : BagOf(t) = s
                                    THEN rpos[CHOOSE t \in Threads(b) : BagOf(t) = s]
                                    ELSE pos[s]]
    BY <1>4 DEF SyncTake
  <2>2. pos' \in [Thread -> 0 .. WRAP - 1]
    <3>1. ASSUME NEW s \in Thread, \E t \in Threads(b) : BagOf(t) = s
          PROVE  (CHOOSE t \in Threads(b) : BagOf(t) = s) \in Thread
      BY <1>1, <3>1
    <3>. QED
      BY <1>1, <2>1, <3>1
  <2>. QED
    BY <1>1, <1>2, <2>1, <2>2 DEF RangesInv
<1>5. CASE SyncTake(b) /\ tick[b] + 1 < Tlim
  BY <1>2, <1>5 DEF SyncTake, RangesInv
<1>6. CASE SyncGive(b) \/ SyncWork(b) \/ SyncSave(b) \/ SyncFlush(b)
  BY <1>2, <1>6 DEF SyncGive, SyncWork, SyncSave, SyncFlush, netVars, RangesInv
<1>. QED
  BY <1>3, <1>4, <1>5, <1>6 DEF Barrier

LEMMA NextRanges ==
  /\ Init => RangesInv
  /\ KernelInv /\ RangesInv /\ [Next]_vars => RangesInv'
<1>1. ASSUME Init PROVE RangesInv
  <2>1. 0 \in 0 .. WRAP - 1
    BY CudaAssumption
  <2>. QED
    BY <1>1, <2>1 DEF Init, RangesInv
<1>2. ASSUME RangesInv, Host PROVE RangesInv'
  <2>1. UNCHANGED <<pos, rpos>>
    BY <1>2 DEF Host, Boot, Inbetween, Again, Return, Launch, netVars, threadVars
  <2>2. mode' \in {"SEED", "GROW", "WORK"} /\ down' \in BOOLEAN
    BY <1>2 DEF Host, Boot, Inbetween, Again, Return, netVars, NextMode, Climbed, RangesInv
  <2>3. hturn' \in {0, 1}
    BY <1>2 DEF Host, Boot, Inbetween, Again, Return, RangesInv
  <2>. QED
    BY <1>2, <2>1, <2>2, <2>3 DEF RangesInv
<1>3. ASSUME RangesInv, UNCHANGED vars PROVE RangesInv'
  BY <1>3 DEF RangesInv, vars, netVars, hostVars, threadVars
<1>. QED
  BY <1>1, <1>2, <1>3, RangesStep, RangesBarrier DEF Next

\* For every size of the stacks: the low stack of a thread never goes over its end,
\* nor what it loads or saves over that of its slice, whatever is given, pushed back
\* and booted (hvm.cu:718-721, 1464); rpos and rbag_pos stay in their 32 bits.
THEOREM KernelTyped == Spec => []TypeOK
<1>1. ASSUME KernelInv, RoomInv, RangesInv PROVE TypeOK
  <2>1. KernelTypes
    BY <1>1 DEF KernelInv
  <2>2. ASSUME NEW t \in Thread
        PROVE  /\ rbag[t].hi \in Seq(Entries) /\ rbag[t].lo \in Seq(Entries)
               /\ Len(rbag[t].lo) <= RLEN
    <3>1. rbag[t].hi \in Seq(HighEntries) /\ rbag[t].lo \in Seq(LowEntries)
      BY <2>1 DEF KernelTypes, Bag
    <3>2. HighEntries \subseteq Entries /\ LowEntries \subseteq Entries
      BY DEF HighEntries, LowEntries
    <3>. QED
      BY <1>1, <3>1, <3>2 DEF RoomInv, LowInv
  <2>. QED
    BY <1>1, <2>1, <2>2 DEF TypeOK, KernelTypes, RoomInv, SlicesFit, RangesInv
<1>. QED
  BY <1>1, KernelInvariant, NextRoom, NextRanges, PTL DEF Spec

-----------------------------------------------------------------------------
(* Sums over the threads.                                                  *)

\* A sum over the threads is the total of a function on them.
LEMMA ThreadsFinite == IsFiniteSet(Thread)
<1>1. TPB * BPG - 1 \in Int
  BY Sizes
<1>. QED
  BY <1>1, FS_Interval DEF Thread

Lengths(bk) == [t \in Thread |-> Len(bk[t])]

LEMMA LengthsTotal ==
  ASSUME NEW bk \in [Thread -> Seq(Entries)]
  PROVE  MapThenSumSet(LAMBDA t : Len(bk[t]), Thread) = Total(Lengths(bk), Thread)
<1>1. Lengths(bk) \in [Thread -> Nat]
  BY DEF Lengths
<1>2. PICK h : Summing(h, Lengths(bk), Thread) /\ h \in [SUBSET Thread -> Nat]
               /\ Total(Lengths(bk), Thread) = h[Thread]
  BY <1>1, ThreadsFinite, TotalIs
<1>. DEFINE Is(x) == x = [s \in SUBSET Thread |->
                        IF s = {} THEN 0 ELSE Len(bk[CHOOSE u \in s : TRUE]) + x[s \ {CHOOSE u \in s : TRUE}]]
<1>3. MapThenSumSet(LAMBDA t : Len(bk[t]), Thread) = (CHOOSE x : Is(x))[Thread]
  BY DEF MapThenSumSet, MapThenFoldSet
<1>4. \A x : Is(x) <=> Summing(x, Lengths(bk), Thread)
  <2>. SUFFICES ASSUME NEW x PROVE Is(x) <=> Summing(x, Lengths(bk), Thread)
    OBVIOUS
  <2>1. \A s \in SUBSET Thread : s # {} => Lengths(bk)[Pick(s)] = Len(bk[Pick(s)])
    BY Picks DEF Lengths
  <2>2. [s \in SUBSET Thread |-> IF s = {} THEN 0 ELSE Len(bk[Pick(s)]) + x[s \ {Pick(s)}]]
      = [s \in SUBSET Thread |-> IF s = {} THEN 0 ELSE Lengths(bk)[Pick(s)] + x[s \ {Pick(s)}]]
    BY <2>1
  <2>. QED
    BY <2>2 DEF Summing, Pick
<1>5. PICK g : g = CHOOSE x : Is(x)
  OBVIOUS
<1>. HIDE DEF Is
<1>6. Is(g)
  BY <1>2, <1>4, <1>5
<1>7. Summing(g, Lengths(bk), Thread)
  BY <1>4, <1>6, Zenon
<1>8. Total(Lengths(bk), Thread) = g[Thread]
  BY <1>1, <1>7, ThreadsFinite, TotalIs, Zenon
<1>. QED
  BY <1>3, <1>5, <1>8, Zenon

\* Every slice of the global bag is the one of a thread.
LEMMA SlicesReached == \A s \in Thread : \E t \in Thread : BagOf(t) = s
<1>1. PICK f : f = [t \in Thread |-> BagOf(t)]
  OBVIOUS
<1>2. f \in [Thread -> Thread]
  BY <1>1, SlicesApart
<1>3. \A s, t \in Thread : f[s] = f[t] => s = t
  BY <1>1, SlicesApart
<1>4. f \in Injection(Thread, Thread)
  BY <1>2, <1>3, Fun_IsInj
<1>5. f \in Surjection(Thread, Thread)
  BY <1>4, ThreadsFinite, FS_Injection
<1>. QED
  BY <1>1, <1>5 DEF Surjection

-----------------------------------------------------------------------------
(* The two global bags.                                                    *)

\* Threads of a block that has not come to save_redexes, or have not saved.
Unsaved(t) == stage[BID(t)] \in {"load", "give", "take", "work"} \/ pc[t] = "save"

NoBags == [s \in Thread |-> <<>>]

\* In a launch: what is left in the bag of this turn is still to be loaded, what
\* is in the other one has been saved, and counted.
LaunchInv ==
  /\ \A t \in Thread : /\ bags[turn][BagOf(t)] # <<>> => pc[t] = "load"
                       /\ Unsaved(t) => bags[1 - turn][BagOf(t)] = <<>>
  /\ use[1 - turn] = Total(Lengths(bags[1 - turn]), Thread)

\* Between launches the kernel rests, the bag to save to is empty, and the other
\* one is counted, by a host that knows which of the two it is.
RestInv ==
  /\ \A b \in Block : stage[b] = "exit"
  /\ bags[1 - turn] = NoBags /\ use[1 - turn] = 0
  /\ host = "check" => hturn = 1 - turn /\ use[turn] = Total(Lengths(bags[turn]), Thread)
  /\ host # "check" => bags[turn] = NoBags

RoundInv ==
  /\ use \in [{0, 1} -> Nat]
  /\ host \in {"boot", "kernel", "check", "done"}
  /\ IF host = "kernel" THEN LaunchInv ELSE RestInv

LEMMA LengthsZero ==
  /\ Total(Lengths(NoBags), Thread) = 0
  /\ \A bk \in [Thread -> Seq(Entries)] : Total(Lengths(bk), Thread) = 0 => bk = NoBags
<1>1. NoBags \in [Thread -> Seq(Entries)]
  BY DEF NoBags
<1>2. \A bk \in [Thread -> Seq(Entries)] : Lengths(bk) \in [Thread -> Nat]
  BY DEF Lengths
<1>3. \A u \in Thread : Lengths(NoBags)[u] = 0
  BY DEF Lengths, NoBags
<1>4. Total(Lengths(NoBags), Thread) = 0
  BY <1>1, <1>2, <1>3, ThreadsFinite, TotalAtLeast
<1>5. ASSUME NEW bk \in [Thread -> Seq(Entries)], Total(Lengths(bk), Thread) = 0
      PROVE  bk = NoBags
  <2>1. ASSUME NEW u \in Thread PROVE bk[u] = <<>>
    <3>1. Lengths(bk)[u] <= 0 /\ Lengths(bk)[u] \in Nat
      BY <1>2, <1>5, ThreadsFinite, TotalAtLeast
    <3>2. Len(bk[u]) = 0
      BY <3>1 DEF Lengths
    <3>. QED
      BY <3>2
  <2>2. bk = [s \in Thread |-> bk[s]]
    OBVIOUS
  <2>. QED
    BY <2>1, <2>2 DEF NoBags
<1>. QED
  BY <1>4, <1>5

\* A thread that has something to do is in a launch.
LEMMA InLaunch ==
  ASSUME KernelInv, RoundInv
  PROVE  /\ \A t \in Thread : pc[t] \notin {"wait", "exit"} => host = "kernel"
         /\ \A b \in Block : stage[b] # "exit" => host = "kernel"
<1>1. \A b \in Block : stage[b] # "exit" => host = "kernel"
  BY DEF RoundInv, RestInv
<1>2. \A t \in Thread : pc[t] \notin {"wait", "exit"} => stage[BID(t)] # "exit"
  BY DEF KernelInv, LabelInv
<1>. QED
  BY <1>1, <1>2, Grid

LEMMA InitRound == Init => RoundInv
BY Grid, LengthsZero DEF Init, RoundInv, RestInv, NoBags

\* A thread that loads empties its slice of the bag of this turn.
LEMMA RoundLoad ==
  ASSUME KernelInv, RoundInv, NEW t \in Thread, Load(t)
  PROVE  RoundInv'
<1>1. KernelTypes /\ LaunchInv /\ host = "kernel" /\ use \in [{0, 1} -> Nat]
  BY InLaunch DEF Load, RoundInv, KernelInv
<1>2. PICK k \in {0, 1} : k = turn /\ 1 - k \in {0, 1} /\ 1 - k # k
  BY <1>1 DEF KernelTypes
<1>3. /\ bags' = [bags EXCEPT ![k][BagOf(t)] = <<>>] /\ pc' = [pc EXCEPT ![t] = "wait"]
      /\ UNCHANGED <<mode, turn, use, host, stage>>
  BY <1>2 DEF Load, Taken, Goto, hostVars
<1>4. BagOf(t) \in Thread /\ \A u \in Thread : BagOf(u) \in Thread /\ (BagOf(u) = BagOf(t) => u = t)
  BY SlicesApart
<1>5. /\ bags'[1 - k] = bags[1 - k] /\ bags'[k][BagOf(t)] = <<>>
      /\ \A s \in Thread \ {BagOf(t)} : bags'[k][s] = bags[k][s]
  BY <1>1, <1>2, <1>3, <1>4 DEF KernelTypes
<1>6. pc'[t] = "wait" /\ \A u \in Thread \ {t} : pc'[u] = pc[u]
  BY <1>1, <1>3 DEF KernelTypes
<1>7. \A u \in Thread : BagOf(u)' = BagOf(u)
  BY <1>3 DEF BagOf
<1>8. ASSUME NEW u \in Thread
      PROVE  /\ bags'[k][BagOf(u)] # <<>> => pc'[u] = "load"
             /\ Unsaved(u)' => bags'[1 - k][BagOf(u)] = <<>>
  <2>1. bags'[k][BagOf(u)] # <<>> => pc'[u] = "load"
    BY <1>1, <1>2, <1>4, <1>5, <1>6 DEF LaunchInv
  <2>2. Unsaved(u)' => Unsaved(u)
    BY <1>3, <1>6 DEF Unsaved
  <2>. QED
    BY <1>1, <1>2, <1>5, <2>1, <2>2 DEF LaunchInv
<1>9. LaunchInv'
  BY <1>1, <1>2, <1>3, <1>5, <1>7, <1>8 DEF LaunchInv
<1>. QED
  BY <1>1, <1>3, <1>9 DEF RoundInv

\* A thread that neither loads nor saves leaves both.
Aside(t) ==
  /\ UNCHANGED <<mode, turn, use, bags, hostVars, stage>>
  /\ pc[t] \notin {"wait", "exit", "load", "save"}
  /\ \E l : l \notin {"load", "save"} /\ Goto(t, l)

LEMMA RoundAside ==
  ASSUME KernelInv, RoundInv, NEW t \in Thread, Aside(t)
  PROVE  RoundInv'
<1>1. KernelTypes /\ LaunchInv /\ host = "kernel" /\ use \in [{0, 1} -> Nat]
  BY InLaunch DEF Aside, RoundInv, KernelInv
<1>2. PICK l : l \notin {"load", "save"} /\ Goto(t, l)
  BY DEF Aside
<1>3. pc'[t] = l /\ \A u \in Thread \ {t} : pc'[u] = pc[u]
  BY <1>1, <1>2 DEF KernelTypes, Goto
<1>4. \A u \in Thread : BagOf(u)' = BagOf(u)
  BY DEF Aside, BagOf
<1>5. UNCHANGED <<turn, use, bags, host, stage>> /\ pc[t] # "load"
  BY DEF Aside, hostVars
<1>6. \A u \in Thread : /\ Unsaved(u)' => Unsaved(u)
                        /\ pc[u] = "load" => pc'[u] = "load"
  BY <1>2, <1>3, <1>5 DEF Unsaved
<1>7. LaunchInv'
  BY <1>1, <1>4, <1>5, <1>6 DEF LaunchInv
<1>. QED
  BY <1>1, <1>5, <1>7 DEF RoundInv

LEMMA StepsAside ==
  ASSUME NEW t \in Thread, Step(t)
  PROVE  Load(t) \/ Save(t) \/ Aside(t)
<1>1. ASSUME GiveInteract(t) \/ WorkInteract(t) \/ HighInteract(t) \/ Flush(t) PROVE Aside(t)
  BY <1>1 DEF GiveInteract, WorkInteract, HighInteract, Flush, Aside, Looking, Goto, hostVars
<1>2. ASSUME NEW r, NEW b, Offer(t, r, b), pc[t] = "give" PROVE Aside(t)
  BY <1>2 DEF Offer, Aside, netVars, hostVars
<1>3. ASSUME GiveFound(t) \/ GiveEmpty(t) \/ GiveStop(t) PROVE Aside(t)
  BY <1>2, <1>3 DEF GiveFound, GiveEmpty, GiveStop, Looking
<1>4. ASSUME Take(t) PROVE Aside(t)
  BY <1>4 DEF Take, Aside, netVars, hostVars
<1>. QED
  BY <1>1, <1>3, <1>4 DEF Step

\* A thread that saves fills its slice of the other bag, and counts what it saves.
LEMMA RoundSave ==
  ASSUME KernelInv, KernelTypes', RoundInv, NEW t \in Thread, Save(t)
  PROVE  RoundInv'
<1>1. KernelTypes /\ LaunchInv /\ host = "kernel" /\ use \in [{0, 1} -> Nat]
  BY InLaunch DEF Save, RoundInv, KernelInv
<1>2. PICK k \in {0, 1} : k = 1 - turn /\ turn \in {0, 1} /\ turn # k
  BY <1>1 DEF KernelTypes
<1>3. PICK lo \in Seq(LowEntries) : lo = rbag[t].lo
  BY <1>1 DEF KernelTypes, Bag
<1>4. PICK s : s = [n \in DOMAIN lo |-> [lo[n] EXCEPT !.local = FALSE]]
  OBVIOUS
<1>5. /\ bags' = [bags EXCEPT ![k][BagOf(t)] = s] /\ pc' = [pc EXCEPT ![t] = "wait"]
      /\ use' = [use EXCEPT ![k] = @ + Len(lo)] /\ pc[t] = "save"
      /\ UNCHANGED <<mode, turn, host, stage>>
  BY <1>2, <1>3, <1>4 DEF Save, Goto, hostVars
<1>6. BagOf(t) \in Thread /\ \A u \in Thread : BagOf(u) \in Thread /\ (BagOf(u) = BagOf(t) => u = t)
  BY SlicesApart
<1>7. /\ bags'[turn] = bags[turn] /\ bags'[k][BagOf(t)] = s
      /\ \A c \in Thread \ {BagOf(t)} : bags'[k][c] = bags[k][c]
  BY <1>1, <1>2, <1>5, <1>6 DEF KernelTypes
<1>8. pc'[t] = "wait" /\ \A u \in Thread \ {t} : pc'[u] = pc[u]
  BY <1>1, <1>5 DEF KernelTypes
<1>9. \A u \in Thread : BagOf(u)' = BagOf(u)
  BY <1>5 DEF BagOf
<1>10. stage[BID(t)] = "save"
  BY <1>5 DEF KernelInv, LabelInv
<1>11. ASSUME NEW u \in Thread
       PROVE  /\ bags'[turn][BagOf(u)] # <<>> => pc'[u] = "load"
              /\ Unsaved(u)' => bags'[k][BagOf(u)] = <<>>
  <2>1. bags'[turn][BagOf(u)] # <<>> => pc'[u] = "load"
    BY <1>1, <1>5, <1>7, <1>8 DEF LaunchInv
  <2>2. CASE u = t
    BY <1>5, <1>8, <1>10, <2>1, <2>2 DEF Unsaved
  <2>3. CASE u # t
    <3>1. Unsaved(u)' => Unsaved(u)
      BY <1>5, <1>8, <2>3 DEF Unsaved
    <3>2. bags'[k][BagOf(u)] = bags[k][BagOf(u)]
      BY <1>6, <1>7, <2>3
    <3>. QED
      BY <1>1, <1>2, <2>1, <3>1, <3>2 DEF LaunchInv
  <2>. QED
    BY <2>2, <2>3
<1>12. use'[k] = Total(Lengths(bags'[k]), Thread)
  <2>1. bags[k] \in [Thread -> Seq(Entries)] /\ bags'[k] \in [Thread -> Seq(Entries)]
    BY <1>1, <1>2 DEF KernelTypes
  <2>2. Lengths(bags[k]) \in [Thread -> Nat] /\ Lengths(bags'[k]) \in [Thread -> Nat]
    BY <2>1 DEF Lengths
  <2>3. /\ Lengths(bags'[k])[BagOf(t)] = Len(lo)
        /\ Lengths(bags[k])[BagOf(t)] = 0
        /\ \A c \in Thread \ {BagOf(t)} : Lengths(bags'[k])[c] = Lengths(bags[k])[c]
    <3>1. bags[k][BagOf(t)] = <<>>
      BY <1>1, <1>2, <1>5 DEF LaunchInv, Unsaved
    <3>2. Len(s) = Len(lo)
      BY <1>3, <1>4
    <3>. QED
      BY <1>6, <1>7, <3>1, <3>2 DEF Lengths
  <2>4. Total(Lengths(bags'[k]), Thread) + 0 = Total(Lengths(bags[k]), Thread) + Len(lo)
    <3>1. PICK f \in [Thread -> Nat], g \in [Thread -> Nat], u \in Thread :
            f = Lengths(bags[k]) /\ g = Lengths(bags'[k]) /\ u = BagOf(t)
      BY <1>6, <2>2
    <3>2. \A c \in Thread \ {u} : g[c] = f[c]
      BY <2>3, <3>1
    <3>3. Total(g, Thread) + f[u] = Total(f, Thread) + g[u]
      BY <3>2, ThreadsFinite, TotalSet
    <3>. QED
      BY <2>3, <3>1, <3>3
  <2>5. Total(Lengths(bags'[k]), Thread) \in Nat
    BY <2>2, ThreadsFinite, TotalNat
  <2>6. use[k] = Total(Lengths(bags[k]), Thread)
    BY <1>1, <1>2 DEF LaunchInv
  <2>7. use'[k] = use[k] + Len(lo)
    BY <1>1, <1>2, <1>5
  <2>. QED
    BY <2>4, <2>5, <2>6, <2>7
<1>13. use' \in [{0, 1} -> Nat]
  BY <1>1, <1>3, <1>5
<1>14. LaunchInv'
  BY <1>2, <1>5, <1>9, <1>11, <1>12 DEF LaunchInv
<1>. QED
  BY <1>1, <1>5, <1>13, <1>14 DEF RoundInv

\* At a barrier nothing moves; a block goes on from save_redexes when all of it
\* has saved.
LEMMA RoundBarrier ==
  ASSUME KernelInv, KernelTypes', RoundInv, NEW b \in Block, Barrier(b)
  PROVE  RoundInv'
<1>0. KernelTypes
  BY DEF KernelInv
<1>a. PICK sp, rp : sp = spawn' /\ rp = rpos'
  OBVIOUS
<1>1. PICK from, stg, tk :
        /\ Sync(b, from) /\ Proceed(b, stg, tk, sp, rp)
        /\ from \in {"load", "give", "take", "work", "save", "flush"}
        /\ from = "save" => stg = "flush"
        /\ from = "flush" => stg = "exit"
        /\ stg # "load"
  BY <1>a, BarrierIs
<1>2. UNCHANGED <<mode, turn, use, bags, host>>
  BY BarrierIs DEF hostVars
<1>3. /\ stage[b] = from /\ \A t \in Threads(b) : pc[t] = "wait"
      /\ stage' = [stage EXCEPT ![b] = stg]
      /\ pc' = [t \in Thread |-> IF BID(t) = b THEN Task(t, stg, tk, sp, rp) ELSE pc[t]]
  BY <1>1 DEF Sync, Proceed
<1>4. host = "kernel" /\ LaunchInv /\ use \in [{0, 1} -> Nat]
  BY <1>1, <1>3, InLaunch DEF RoundInv
<1>5. \A u \in Thread : BagOf(u)' = BagOf(u)
  BY <1>2 DEF BagOf
<1>6. ASSUME NEW t \in Thread
      PROVE  /\ pc[t] = "load" => pc'[t] = "load"
             /\ Unsaved(t)' => Unsaved(t)
  <2>1. CASE BID(t) # b
    <3>1. pc'[t] = pc[t] /\ stage'[BID(t)] = stage[BID(t)]
      BY <1>0, <1>3, <2>1, Grid DEF KernelTypes
    <3>. QED
      BY <3>1 DEF Unsaved
  <2>2. CASE BID(t) = b
    <3>1. pc[t] = "wait"
      BY <1>3, <2>2 DEF Threads
    <3>2. PICK l : l = Task(t, stg, tk, sp, rp)
      OBVIOUS
    <3>3. l # "wait" => l = stg
      <4>1. rp[t] \in Nat
        BY <1>a DEF KernelTypes
      <4>. QED
        BY <1>0, <3>2, <4>1, TaskIs
    <3>4. pc'[t] = l /\ stage'[b] = stg
      BY <1>0, <1>3, <2>2, <3>2 DEF KernelTypes
    <3>. QED
      BY <1>1, <1>3, <2>2, <3>1, <3>3, <3>4 DEF Unsaved
  <2>. QED
    BY <2>1, <2>2
<1>7. LaunchInv'
  BY <1>2, <1>4, <1>5, <1>6 DEF LaunchInv
<1>. QED
  BY <1>2, <1>4, <1>7 DEF RoundInv

\* A launch, of a kernel that rests, on the bag of turn trn.
LEMMA RoundLaunch ==
  ASSUME KernelInv, KernelTypes', NEW buf, Launch(buf, turn), bags' = buf,
         UNCHANGED <<mode, turn, use>>, use \in [{0, 1} -> Nat],
         buf[1 - turn] = NoBags, use[1 - turn] = 0
  PROVE  RoundInv'
<1>1. KernelTypes /\ turn \in {0, 1} /\ 1 - turn \in {0, 1}
  BY DEF KernelInv, KernelTypes
<1>2. /\ host' = "kernel"
      /\ pc' = [t \in Thread |-> IF buf[turn][BagOf(t)] # <<>> THEN "load" ELSE "wait"]
  BY DEF Launch
<1>3. \A u \in Thread : BagOf(u)' = BagOf(u) /\ BagOf(u) \in Thread
  BY SlicesApart DEF BagOf
<1>4. \A t \in Thread : bags'[turn][BagOf(t)] # <<>> => pc'[t] = "load"
  BY <1>2
<1>5. \A t \in Thread : bags'[1 - turn][BagOf(t)] = <<>>
  BY <1>3 DEF NoBags
<1>6. use[1 - turn] = Total(Lengths(bags'[1 - turn]), Thread)
  BY LengthsZero
<1>7. LaunchInv'
  BY <1>3, <1>4, <1>5, <1>6 DEF LaunchInv
<1>. QED
  BY <1>2, <1>7 DEF RoundInv

LEMMA RoundHost ==
  ASSUME KernelInv, KernelTypes', BootInv, RoundInv, TurnsAgree, Host
  PROVE  RoundInv'
<1>1. KernelTypes /\ turn \in {0, 1} /\ use \in [{0, 1} -> Nat]
  BY DEF KernelInv, KernelTypes, RoundInv
<1>2. CASE Boot
  <2>1. PICK first, buf :
          /\ buf = [bags EXCEPT ![turn][0] = IF @ = <<>> THEN <<first>> ELSE [@ EXCEPT ![1] = first]]
          /\ bags' = buf /\ Launch(buf, turn) /\ host = "boot" /\ UNCHANGED <<mode, turn, use>>
    BY <1>2 DEF Boot
  <2>2. RestInv
    BY <2>1 DEF RoundInv
  <2>3. buf[1 - turn] = bags[1 - turn]
    BY <1>1, <2>1 DEF KernelTypes
  <2>. QED
    BY <1>1, <2>1, <2>2, <2>3, RoundLaunch DEF RestInv
<1>3. CASE Again
  <2>1. /\ Launch(bags, turn) /\ host = "check"
        /\ UNCHANGED <<mode, turn, use, bags>>
    BY <1>3 DEF Again, netVars
  <2>2. RestInv
    BY <2>1 DEF RoundInv
  <2>3. PICK buf : buf = bags
    OBVIOUS
  <2>. QED
    BY <1>1, <2>1, <2>2, <2>3, RoundLaunch DEF RestInv
<1>4. CASE Return
  <2>1. /\ host = "check" /\ use[1 - hturn] = 0 /\ host' \in {"boot", "done"}
        /\ UNCHANGED <<turn, use, bags, stage, hturn>>
    BY <1>4 DEF Return, rlen, netVars, threadVars
  <2>2. RestInv
    BY <2>1 DEF RoundInv
  <2>3. 1 - hturn = turn
    BY <1>1, <2>1, <2>2 DEF RestInv
  <2>4. bags[turn] \in [Thread -> Seq(Entries)]
    BY <1>1 DEF KernelTypes
  <2>5. Total(Lengths(bags[turn]), Thread) = 0
    BY <2>1, <2>2, <2>3 DEF RestInv
  <2>6. bags[turn] = NoBags
    BY <2>4, <2>5, LengthsZero
  <2>7. RestInv'
    BY <2>1, <2>2, <2>6 DEF RestInv, NoBags
  <2>. QED
    BY <1>1, <2>1, <2>7 DEF RoundInv
<1>5. CASE Inbetween
  <2>1. /\ host = "kernel" /\ host' = "check" /\ \A b \in Block : stage[b] = "exit"
        /\ use' = [use EXCEPT ![turn] = 0] /\ turn' = 1 - turn
        /\ UNCHANGED <<bags, hturn, stage>>
    BY <1>5 DEF Inbetween, Cleared, threadVars
  <2>2. LaunchInv /\ hturn = turn
    BY <2>1 DEF RoundInv, TurnsAgree
  <2>3. 1 - turn' = turn /\ turn' \in {0, 1} /\ turn' # turn
    BY <1>1, <2>1
  <2>4. use'[turn] = 0 /\ use'[turn'] = use[turn'] /\ use' \in [{0, 1} -> Nat]
    BY <1>1, <2>1, <2>3
  <2>5. bags[turn] = NoBags
    <3>1. ASSUME NEW s \in Thread PROVE bags[turn][s] = <<>>
      <4>1. PICK t \in Thread : BagOf(t) = s
        BY SlicesReached
      <4>2. pc[t] # "load"
        BY <2>1, Grid DEF KernelInv, LabelInv
      <4>. QED
        BY <2>2, <4>1, <4>2 DEF LaunchInv
    <3>2. bags[turn] = [s \in Thread |-> bags[turn][s]]
      BY <1>1 DEF KernelTypes
    <3>. QED
      BY <3>1, <3>2 DEF NoBags
  <2>6. use'[turn'] = Total(Lengths(bags'[turn']), Thread)
    BY <2>1, <2>2, <2>4 DEF LaunchInv
  <2>7. RestInv'
    BY <2>1, <2>2, <2>3, <2>4, <2>5, <2>6 DEF RestInv, NoBags
  <2>. QED
    BY <2>1, <2>4, <2>7 DEF RoundInv
<1>. QED
  BY <1>2, <1>3, <1>4, <1>5 DEF Host

LEMMA NextRound ==
  KernelInv /\ KernelTypes' /\ BootInv /\ RoundInv /\ TurnsAgree /\ [Next]_vars => RoundInv'
<1>. SUFFICES ASSUME KernelInv, KernelTypes', BootInv, RoundInv, TurnsAgree, [Next]_vars
              PROVE RoundInv'
  OBVIOUS
<1>1. ASSUME NEW t \in Thread, Step(t) PROVE RoundInv'
  BY <1>1, StepsAside, RoundLoad, RoundSave, RoundAside
<1>2. ASSUME NEW b \in Block, Barrier(b) PROVE RoundInv'
  BY <1>2, RoundBarrier
<1>3. CASE Host
  BY <1>3, RoundHost
<1>4. CASE UNCHANGED vars
  BY <1>4 DEF RoundInv, LaunchInv, RestInv, Unsaved, BagOf, vars, netVars, hostVars, threadVars
<1>. QED
  BY <1>1, <1>2, <1>3, <1>4 DEF Next

\* The host and the device count the same turns as long as nobody calls
\* gnet_normalize a second time.
FirstInv ==
  /\ boots = 0 => host = "boot" /\ turn = 0
  /\ TurnsAgree

LEMMA NextFirst ==
  ASSUME KernelInv, BootInv, RoundInv, FirstInv, [Next]_vars, boots' <= 1
  PROVE  FirstInv'
<1>1. turn \in {0, 1} /\ boots \in Nat
  BY CudaAssumption DEF KernelInv, KernelTypes, BootInv
<1>2. ASSUME NEW t \in Thread, Step(t) PROVE UNCHANGED <<turn, hostVars>>
  BY <1>2 DEF Step, Load, GiveInteract, GiveFound, GiveEmpty, GiveStop, Offer, Take,
              WorkInteract, HighInteract, Save, Flush, netVars
<1>3. ASSUME NEW b \in Block, Barrier(b) PROVE UNCHANGED <<turn, hostVars>>
  BY <1>3, BarrierIs
<1>4. ASSUME UNCHANGED <<turn, hostVars>> PROVE FirstInv'
  BY <1>4 DEF FirstInv, TurnsAgree, hostVars
<1>5. CASE Boot
  <2>1. boots' = boots + 1 /\ hturn' = 0 /\ turn' = turn
    BY <1>5 DEF Boot
  <2>2. boots = 0 /\ turn = 0
    BY <1>1, <2>1 DEF FirstInv
  <2>. QED
    BY <2>1, <2>2 DEF FirstInv, TurnsAgree
<1>6. CASE Again
  <2>1. host = "check" /\ hturn' = 1 - hturn /\ turn' = turn /\ boots' = boots
    BY <1>6 DEF Again, netVars
  <2>2. hturn = 1 - turn
    BY <2>1 DEF RoundInv, RestInv
  <2>3. hturn' = turn'
    BY <1>1, <2>1, <2>2
  <2>. QED
    BY <2>1, <2>3 DEF FirstInv, TurnsAgree
<1>7. CASE Inbetween \/ Return
  <2>1. host \in {"kernel", "check"} /\ host' # "kernel" /\ boots' = boots
    BY <1>7 DEF Inbetween, Return
  <2>. QED
    BY <2>1 DEF FirstInv, TurnsAgree
<1>8. CASE UNCHANGED vars
  BY <1>4, <1>8 DEF vars, netVars
<1>. QED
  BY <1>2, <1>3, <1>4, <1>5, <1>6, <1>7, <1>8 DEF Next, Host

LEMMA CountFrom ==
  ASSUME KernelInv, RoundInv
  PROVE  CountExact
<1>. SUFFICES ASSUME host = "check"
              PROVE  rlen = MapThenSumSet(LAMBDA t : Len(bags[turn][t]), Thread)
  BY DEF CountExact
<1>1. turn \in {0, 1} /\ bags[turn] \in [Thread -> Seq(Entries)]
  BY DEF KernelInv, KernelTypes
<1>2. 1 - hturn = turn /\ use[turn] = Total(Lengths(bags[turn]), Thread)
  BY <1>1 DEF RoundInv, RestInv
<1>. QED
  BY <1>1, <1>2, LengthsTotal DEF rlen

\* The host reads how many redexes the last launch saved, for as long as it and the
\* device agree on the turn (hvm.cu:1460, 1784-1792): no slice is counted twice, none is
\* saved over, and all of the bag that was loaded has been.
THEOREM CountsRight == Spec /\ []TurnsAgree => []CountExact
<1>1. Init => RoundInv
  BY InitRound
<1>2. /\ KernelInv /\ BootInv /\ KernelInv' /\ RoundInv /\ TurnsAgree /\ [Next]_vars
      => RoundInv'
  BY NextRound DEF KernelInv
<1>3. KernelInv /\ RoundInv => CountExact
  BY CountFrom
<1>. QED
  BY <1>1, <1>2, <1>3, KernelInvariant, PTL DEF Spec

\* No step takes back a call of gnet_normalize.
LEMMA BootsGrow ==
  ASSUME BootInv, [Next]_vars, boots' <= 1
  PROVE  boots <= 1
<1>1. boots \in Nat
  BY CudaAssumption DEF BootInv
<1>2. boots' = boots \/ boots' = boots + 1
  <2>1. ASSUME NEW t \in Thread, Step(t) PROVE boots' = boots
    BY <2>1 DEF Step, Load, GiveInteract, GiveFound, GiveEmpty, GiveStop, Offer, Take,
                WorkInteract, HighInteract, Save, Flush, hostVars
  <2>2. ASSUME NEW b \in Block, Barrier(b) PROVE boots' = boots
    BY <2>2, BarrierIs DEF hostVars
  <2>3. CASE Host
    BY <2>3 DEF Host, Boot, Inbetween, Again, Return
  <2>4. CASE UNCHANGED vars
    BY <2>4 DEF vars, hostVars
  <2>. QED
    BY <2>1, <2>2, <2>3, <2>4 DEF Next
<1>. QED
  BY <1>1, <1>2

\* They do in the first call of gnet_normalize: then the count is right whatever
\* the program.
THEOREM FirstCount == Spec => [](boots <= 1 => CountExact)
<1>. DEFINE I == boots <= 1 => RoundInv /\ FirstInv
<1>1. Init => I
  BY InitRound DEF Init, FirstInv, TurnsAgree
<1>2. KernelInv /\ BootInv /\ KernelInv' /\ I /\ [Next]_vars => I'
  <2>. SUFFICES ASSUME KernelInv, BootInv, KernelInv', I, [Next]_vars, boots' <= 1
                PROVE  RoundInv' /\ FirstInv'
    OBVIOUS
  <2>1. boots <= 1
    BY BootsGrow
  <2>2. RoundInv /\ FirstInv
    BY <2>1
  <2>3. RoundInv'
    BY <2>2, NextRound DEF KernelInv, FirstInv
  <2>4. FirstInv'
    BY <2>2, NextFirst
  <2>. QED
    BY <2>3, <2>4
<1>3. KernelInv /\ I => (boots <= 1 => CountExact)
  BY CountFrom
<1>. QED
  BY <1>1, <1>2, <1>3, KernelInvariant, PTL DEF Spec

-----------------------------------------------------------------------------
(* Where a redex is.                                                       *)

One(e, r) == IF e.redex = r THEN 1 ELSE 0
Occurs(s, r) == Cardinality(Holds(s, r))
InBag(b, r) == Occurs(b.hi, r) + Occurs(b.lo, r)

LEMMA OccursNat ==
  ASSUME NEW S, NEW s \in Seq(S), NEW r
  PROVE  IsFiniteSet(Holds(s, r)) /\ Occurs(s, r) \in Nat
<1>1. IsFiniteSet(1 .. Len(s)) /\ Holds(s, r) \subseteq 1 .. Len(s)
  BY FS_Interval DEF Holds
<1>. QED
  BY <1>1, FS_Subset, FS_CardinalityType DEF Occurs

LEMMA OccursNone ==
  ASSUME NEW S, NEW s \in Seq(S), NEW r, \A n \in 1 .. Len(s) : s[n].redex # r
  PROVE  Occurs(s, r) = 0
<1>1. Holds(s, r) = {}
  BY DEF Holds
<1>. QED
  BY <1>1, FS_EmptySet DEF Occurs

LEMMA OccursEmpty == \A r : Occurs(<<>>, r) = 0
<1>1. \A r : Holds(<<>>, r) = {}
  BY DEF Holds
<1>. QED
  BY <1>1, FS_EmptySet DEF Occurs

\* The same redexes, whatever else the entries say.
LEMMA OccursSame ==
  ASSUME NEW S, NEW s \in Seq(S), NEW T, NEW u \in Seq(T), Len(u) = Len(s), NEW r,
         \A n \in 1 .. Len(s) : u[n].redex = s[n].redex
  PROVE  Occurs(u, r) = Occurs(s, r)
<1>1. Holds(u, r) = Holds(s, r)
  BY DEF Holds
<1>. QED
  BY <1>1 DEF Occurs

LEMMA OccursAppend ==
  ASSUME NEW S, NEW s \in Seq(S), NEW e \in S, NEW r
  PROVE  Occurs(Append(s, e), r) = Occurs(s, r) + One(e, r)
<1>1. PICK k \in Nat : k = Len(s) /\ DOMAIN s = 1 .. k
  OBVIOUS
<1>2. /\ DOMAIN Append(s, e) = 1 .. k + 1 /\ Append(s, e)[k + 1] = e
      /\ \A n \in 1 .. k : Append(s, e)[n] = s[n]
  BY <1>1
<1>3. \A n \in 1 .. k + 1 : n = k + 1 \/ n \in 1 .. k
  OBVIOUS
<1>4. k + 1 \in 1 .. k + 1 /\ k + 1 \notin 1 .. k /\ \A n \in 1 .. k : n \in 1 .. k + 1
  OBVIOUS
<1>5. CASE e.redex = r
  <2>1. Holds(Append(s, e), r) = Holds(s, r) \cup {k + 1} /\ k + 1 \notin Holds(s, r)
    BY <1>1, <1>2, <1>3, <1>4, <1>5 DEF Holds
  <2>2. IsFiniteSet(Holds(s, r))
    BY OccursNat
  <2>3. Cardinality(Holds(s, r) \cup {k + 1}) = Cardinality(Holds(s, r)) + 1
    BY <2>1, <2>2, FS_AddElement
  <2>. QED
    BY <1>5, <2>1, <2>3 DEF Occurs, One
<1>6. CASE e.redex # r
  <2>1. Holds(Append(s, e), r) = Holds(s, r)
    BY <1>1, <1>2, <1>3, <1>4, <1>6 DEF Holds
  <2>. QED
    BY <1>6, <2>1, OccursNat DEF Occurs, One
<1>. QED
  BY <1>5, <1>6

LEMMA OccursFront ==
  ASSUME NEW S, NEW s \in Seq(S), s # <<>>, NEW r
  PROVE  Occurs(Front(s), r) + One(Last(s), r) = Occurs(s, r)
<1>1. Front(s) \in Seq(S) /\ Last(s) \in S
  BY FrontLast
<1>2. s = Append(Front(s), Last(s))
  <2>1. PICK k \in Nat : Len(s) = k + 1
    <3>1. Len(s) - 1 \in Nat /\ Len(s) = (Len(s) - 1) + 1
      OBVIOUS
    <3>. QED
      BY <3>1
  <2>2. Front(s) = [n \in 1 .. k |-> s[n]]
    <3>1. Front(s) = SubSeq(s, 1, k)
      BY <2>1 DEF Front
    <3>. QED
      BY <2>1, <3>1
  <2>3. Last(s) = s[k + 1]
    BY <2>1 DEF Last
  <2>4. Len(Front(s)) = k
    BY <2>2
  <2>5. Append(Front(s), Last(s)) \in Seq(S) /\ Len(Append(Front(s), Last(s))) = k + 1
    BY <1>1, <2>4
  <2>6. \A n \in 1 .. k + 1 : Append(Front(s), Last(s))[n] = s[n]
    BY <1>1, <2>2, <2>3, <2>4
  <2>. QED
    BY <2>1, <2>5, <2>6
<1>3. PICK f \in Seq(S), e \in S : f = Front(s) /\ e = Last(s) /\ s = Append(f, e)
  BY <1>1, <1>2
<1>. QED
  BY <1>3, OccursAppend

\* What a bag holds is a number, of what it is pushed and what is popped.
LEMMA InBagNat == \A b \in Bag : \A r : InBag(b, r) \in Nat
<1>. SUFFICES ASSUME NEW b \in Bag, NEW r PROVE InBag(b, r) \in Nat
  OBVIOUS
<1>1. b.hi \in Seq(HighEntries) /\ b.lo \in Seq(LowEntries)
  BY DEF Bag
<1>2. Occurs(b.hi, r) \in Nat /\ Occurs(b.lo, r) \in Nat
  BY <1>1, OccursNat
<1>. QED
  BY <1>2 DEF InBag

LEMMA OneNat == \A e, r : One(e, r) \in {0, 1}
BY DEF One

LEMMA PushCounts ==
  ASSUME NEW b \in Bag, NEW e \in Entries, NEW r
  PROVE  InBag(push_redex(b, e), r) = InBag(b, r) + One(e, r)
<1>1. b = [hi |-> b.hi, lo |-> b.lo] /\ b.hi \in Seq(HighEntries) /\ b.lo \in Seq(LowEntries)
  BY DEF Bag
<1>2. Occurs(b.hi, r) \in Nat /\ Occurs(b.lo, r) \in Nat /\ One(e, r) \in Nat
  BY <1>1, OccursNat, OneNat
<1>3. CASE is_high_priority(e)
  <2>1. e \in HighEntries
    BY <1>3 DEF HighEntries
  <2>2. push_redex(b, e) = [hi |-> Append(b.hi, e), lo |-> b.lo]
    BY <1>1, <1>3 DEF push_redex
  <2>3. Occurs(Append(b.hi, e), r) = Occurs(b.hi, r) + One(e, r)
    BY <1>1, <2>1, OccursAppend
  <2>. QED
    BY <1>2, <2>2, <2>3 DEF InBag
<1>4. CASE ~is_high_priority(e)
  <2>1. e \in LowEntries
    BY <1>4 DEF LowEntries
  <2>2. push_redex(b, e) = [hi |-> b.hi, lo |-> Append(b.lo, e)]
    BY <1>1, <1>4 DEF push_redex
  <2>3. Occurs(Append(b.lo, e), r) = Occurs(b.lo, r) + One(e, r)
    BY <1>1, <2>1, OccursAppend
  <2>. QED
    BY <1>2, <2>2, <2>3 DEF InBag
<1>. QED
  BY <1>3, <1>4

LEMMA PopCounts ==
  ASSUME NEW b \in Bag, b # NoRedexes, NEW r
  PROVE  InBag(Popped(b), r) + One(Top(b), r) = InBag(b, r)
<1>1. b = [hi |-> b.hi, lo |-> b.lo] /\ b.hi \in Seq(HighEntries) /\ b.lo \in Seq(LowEntries)
  BY DEF Bag
<1>2. b.hi # <<>> \/ b.lo # <<>>
  BY <1>1 DEF NoRedexes
<1>3. Front(b.hi) \in Seq(HighEntries) /\ Front(b.lo) \in Seq(LowEntries)
  BY <1>1, FrontLast
<1>4. /\ Occurs(b.hi, r) \in Nat /\ Occurs(b.lo, r) \in Nat /\ One(Top(b), r) \in Nat
      /\ Occurs(Front(b.hi), r) \in Nat /\ Occurs(Front(b.lo), r) \in Nat
  BY <1>1, <1>3, OccursNat, OneNat
<1>5. CASE b.hi # <<>>
  <2>1. Top(b) = Last(b.hi) /\ Popped(b) = [hi |-> Front(b.hi), lo |-> b.lo]
    BY <1>1, <1>5 DEF Top, Popped, has_highs
  <2>2. Occurs(Front(b.hi), r) + One(Last(b.hi), r) = Occurs(b.hi, r)
    BY <1>1, <1>5, OccursFront
  <2>. QED
    BY <1>4, <2>1, <2>2 DEF InBag
<1>6. CASE b.hi = <<>>
  <2>1. Top(b) = Last(b.lo) /\ Popped(b) = [hi |-> b.hi, lo |-> Front(b.lo)]
    BY <1>1, <1>6 DEF Top, Popped, has_highs
  <2>2. Occurs(Front(b.lo), r) + One(Last(b.lo), r) = Occurs(b.lo, r)
    BY <1>1, <1>2, <1>6, OccursFront
  <2>. QED
    BY <1>4, <2>1, <2>2 DEF InBag
<1>. QED
  BY <1>5, <1>6

Upto(s, n) == [m \in 1 .. n |-> s[m]]

LEMMA UptoNext ==
  ASSUME NEW S, NEW s \in Seq(S), NEW n \in 1 .. Len(s)
  PROVE  /\ s[n] \in S /\ Upto(s, n - 1) \in Seq(S)
         /\ Upto(s, n) = Append(Upto(s, n - 1), s[n])
<1>1. PICK k \in Nat : n = k + 1 /\ n - 1 = k
  <2>1. n - 1 \in Nat /\ n = (n - 1) + 1
    OBVIOUS
  <2>. QED
    BY <2>1
<1>2. \A m \in 1 .. k + 1 : s[m] \in S
  BY <1>1
<1>3. PICK u : u = Upto(s, k)
  OBVIOUS
<1>4. u \in Seq(S) /\ Len(u) = k /\ \A m \in 1 .. k : u[m] = s[m]
  BY <1>2, <1>3 DEF Upto
<1>5. PICK v \in Seq(S) : v = Append(u, s[k + 1])
  <2>1. PICK x \in S, w \in Seq(S) : x = s[k + 1] /\ w = u
    BY <1>2, <1>4
  <2>2. Append(w, x) \in Seq(S)
    OBVIOUS
  <2>. QED
    BY <2>1, <2>2
<1>6. Len(v) = k + 1 /\ \A m \in 1 .. k + 1 : v[m] = s[m]
  BY <1>2, <1>4, <1>5
<1>7. v = [m \in 1 .. k + 1 |-> v[m]]
  BY <1>6
<1>8. Upto(s, k + 1) = v
  BY <1>6, <1>7 DEF Upto
<1>. QED
  BY <1>1, <1>2, <1>3, <1>4, <1>5, <1>8

LEMMA PushAllCounts ==
  ASSUME NEW b \in Bag, NEW s \in Seq(Entries), NEW r
  PROVE  InBag(push_all(b, s), r) = InBag(b, r) + Occurs(s, r)
<1>1. PICK k \in Nat : k = Len(s)
  OBVIOUS
<1>2. PICK f : /\ f[0] = b /\ push_all(b, s) = f[Len(s)]
               /\ \A n \in 0 .. Len(s) : f[n] \in Bag
               /\ \A n \in 1 .. Len(s) : f[n] = push_redex(f[n - 1], s[n])
  BY PushAllSteps, Zenon
<1>3. InBag(b, r) \in Nat
  BY InBagNat
<1>. DEFINE Counts(n) == InBag(f[n], r) = InBag(b, r) + Occurs(Upto(s, n), r)
            g == [n \in 0 .. k |-> Counts(n)]
<1>4. Counts(0)
  <2>1. Upto(s, 0) = <<>>
    BY DEF Upto
  <2>2. Occurs(Upto(s, 0), r) = 0
    BY <2>1, OccursEmpty
  <2>. QED
    BY <1>2, <1>3, <2>2
<1>5. ASSUME NEW n \in 1 .. k, Counts(n - 1) PROVE Counts(n)
  <2>1. n - 1 \in 0 .. Len(s) /\ n \in 1 .. Len(s)
    BY <1>1
  <2>2. f[n - 1] \in Bag /\ f[n] = push_redex(f[n - 1], s[n])
    BY <1>2, <2>1
  <2>3. PICK u \in Seq(Entries) : u = Upto(s, n - 1) /\ s[n] \in Entries /\ Upto(s, n) = Append(u, s[n])
    BY <2>1, UptoNext
  <2>4. InBag(f[n], r) = InBag(f[n - 1], r) + One(s[n], r)
    BY <2>2, <2>3, PushCounts
  <2>5. Occurs(Upto(s, n), r) = Occurs(u, r) + One(s[n], r)
    BY <2>3, OccursAppend
  <2>6. Occurs(u, r) \in Nat /\ One(s[n], r) \in Nat
    BY OccursNat, OneNat
  <2>7. InBag(f[n - 1], r) = InBag(b, r) + Occurs(u, r)
    BY <1>5, <2>3
  <2>. QED
    BY <1>3, <2>4, <2>5, <2>6, <2>7
<1>. HIDE DEF Counts
<1>6. g[0] \in {TRUE} /\ \A n \in 1 .. k : g[n - 1] \in {TRUE} => g[n] \in {TRUE}
  <2>1. 0 \in 0 .. k /\ \A n \in 1 .. k : n - 1 \in 0 .. k /\ n \in 0 .. k
    OBVIOUS
  <2>. QED
    BY <1>4, <1>5, <2>1, Zenon
<1>7. g[k] \in {TRUE}
  <2>1. PICK h, V : h = g /\ V = {TRUE}
    OBVIOUS
  <2>. HIDE DEF g
  <2>2. h[0] \in V /\ \A n \in 1 .. k : h[n - 1] \in V => h[n] \in V
    BY <1>6, <2>1, Zenon
  <2>3. k \in 0 .. k
    OBVIOUS
  <2>4. h[k] \in V
    BY <2>2, <2>3, Reaches
  <2>. QED
    BY <2>1, <2>4, Zenon
<1>8. Counts(k)
  <2>1. k \in 0 .. k
    OBVIOUS
  <2>. QED
    BY <1>7, <2>1, Zenon
<1>9. Upto(s, k) = s
  BY <1>1 DEF Upto
<1>. QED
  BY <1>1, <1>2, <1>8, <1>9 DEF Counts

\* An interaction pushes each of its redexes once.
LEMMA PushesCounts ==
  ASSUME NEW e \in Entries, NEW r \in Redex
  PROVE  /\ Leak(e) => Occurs(Pushes(e), r) = 0
         /\ ~Leak(e) => /\ e.redex \in Redex
                        /\ Occurs(Pushes(e), r) = IF r \in Range(Spawn[e.redex]) THEN 1 ELSE 0
<1>1. CASE Leak(e)
  <2>1. PICK s \in Seq(Node) : s = Under[e.redex]
    BY <1>1, CudaAssumption DEF Leak
  <2>2. Pushes(e) = [k \in DOMAIN s |-> Entry(s[k])]
    BY <1>1, <2>1 DEF Pushes
  <2>3. \A k \in DOMAIN s : Entry(s[k]).redex = s[k] /\ s[k] # r
    BY CudaAssumption DEF Entry
  <2>4. Holds(Pushes(e), r) = {}
    BY <2>2, <2>3 DEF Holds
  <2>. QED
    BY <1>1, <2>4, FS_EmptySet DEF Occurs
<1>2. CASE ~Leak(e)
  <2>1. e.redex \in Redex
    BY <1>2 DEF Entries, Leak
  <2>2. PICK s \in Seq(Redex) : s = Spawn[e.redex]
    BY <2>1, CudaAssumption
  <2>3. Pushes(e) = [k \in DOMAIN s |-> Entry(s[k])]
    BY <1>2, <2>2 DEF Pushes
  <2>4. \A k \in DOMAIN s : Entry(s[k]).redex = s[k]
    BY DEF Entry
  <2>5. Holds(Pushes(e), r) = {k \in DOMAIN s : s[k] = r}
    BY <2>3, <2>4 DEF Holds
  <2>6. CASE r \in Range(s)
    <3>1. PICK k \in DOMAIN s : s[k] = r
      BY <2>6 DEF Range
    <3>2. \A l \in DOMAIN s : s[l] = r => l = k
      BY <2>1, <2>2, <3>1, BirthAssumption
    <3>3. Holds(Pushes(e), r) = {k}
      BY <2>5, <3>1, <3>2
    <3>. QED
      BY <1>2, <2>1, <2>2, <2>6, <3>3, FS_Singleton DEF Occurs
  <2>7. CASE r \notin Range(s)
    <3>1. Holds(Pushes(e), r) = {}
      BY <2>5, <2>7 DEF Range
    <3>. QED
      BY <1>2, <2>1, <2>2, <2>7, <3>1, FS_EmptySet DEF Occurs
  <2>. QED
    BY <2>6, <2>7
<1>. QED
  BY <1>1, <1>2

\* What an interaction does to the bag of its thread.
LEMMA InteractCounts ==
  ASSUME KernelTypes, NEW t \in Thread, rbag[t] # NoRedexes, NEW ok \in BOOLEAN, Interact(t, ok),
         NEW e, e = Top(rbag[t]), NEW r \in Redex
  PROVE  /\ e \in Entries
         /\ \A u \in Thread \ {t} : rbag'[u] = rbag[u]
         /\ ~ok => InBag(rbag'[t], r) = InBag(rbag[t], r)
         /\ ok => InBag(rbag'[t], r) + One(e, r) = InBag(rbag[t], r) + Occurs(Pushes(e), r)
<1>1. rbag[t] \in Bag
  BY DEF KernelTypes
<1>2. PICK b : b = Popped(rbag[t])
  OBVIOUS
<1>3. e \in Entries /\ b \in Bag
  BY <1>1, <1>2, PopTyped
<1>4. rbag' = [rbag EXCEPT ![t] = IF ok THEN push_all(b, Pushes(e)) ELSE push_redex(b, e)]
  BY <1>2 DEF Interact
<1>5. /\ \A u \in Thread \ {t} : rbag'[u] = rbag[u]
      /\ rbag'[t] = IF ok THEN push_all(b, Pushes(e)) ELSE push_redex(b, e)
  BY <1>4 DEF KernelTypes
<1>6. InBag(b, r) + One(e, r) = InBag(rbag[t], r)
  BY <1>1, <1>2, PopCounts
<1>7. /\ InBag(push_redex(b, e), r) = InBag(b, r) + One(e, r)
      /\ InBag(push_all(b, Pushes(e)), r) = InBag(b, r) + Occurs(Pushes(e), r)
  BY <1>3, PushCounts, PushesTyped, PushAllCounts
<1>8. InBag(b, r) \in Nat /\ One(e, r) \in Nat /\ Occurs(Pushes(e), r) \in Nat
  BY <1>3, InBagNat, OneNat, PushesTyped, OccursNat
<1>9. CASE ok
  <2>1. InBag(rbag'[t], r) = InBag(b, r) + Occurs(Pushes(e), r)
    BY <1>5, <1>7, <1>9
  <2>. QED
    BY <1>3, <1>5, <1>6, <1>8, <1>9, <2>1
<1>10. CASE ~ok
  <2>1. InBag(rbag'[t], r) = InBag(b, r) + One(e, r)
    BY <1>5, <1>7, <1>10
  <2>. QED
    BY <1>3, <1>5, <1>6, <1>10, <2>1
<1>. QED
  BY <1>9, <1>10

-----------------------------------------------------------------------------
(* How often a redex is somewhere, place by place.                         *)

InCell(cell, r) == IF cell \notin {EMPTY, FULL} /\ cell.redex = r THEN 1 ELSE 0
Stores(bk, r) == [s \in Thread |-> Occurs(bk[s], r)]
Keeps(rb, r) == [t \in Thread |-> InBag(rb[t], r)]
Offers(sp, r) == [t \in Thread |-> InCell(sp[t], r)]

LEMMA PlacesNat ==
  ASSUME NEW r
  PROVE  /\ \A bk \in [Thread -> Seq(Entries)] : Stores(bk, r) \in [Thread -> Nat]
         /\ \A rb \in [Thread -> Bag] : Keeps(rb, r) \in [Thread -> Nat]
         /\ \A sp : Offers(sp, r) \in [Thread -> Nat]
<1>1. ASSUME NEW bk \in [Thread -> Seq(Entries)] PROVE Stores(bk, r) \in [Thread -> Nat]
  <2>1. \A s \in Thread : Occurs(bk[s], r) \in Nat
    BY OccursNat
  <2>. QED
    BY <2>1 DEF Stores
<1>2. ASSUME NEW rb \in [Thread -> Bag] PROVE Keeps(rb, r) \in [Thread -> Nat]
  <2>1. \A t \in Thread : InBag(rb[t], r) \in Nat
    BY InBagNat
  <2>. QED
    BY <2>1 DEF Keeps
<1>3. \A sp : Offers(sp, r) \in [Thread -> Nat]
  BY DEF Offers, InCell
<1>. QED
  BY <1>1, <1>2, <1>3

Places(b0, b1, rb, sp, r) ==
  Total(Stores(b0, r), Thread) + Total(Stores(b1, r), Thread)
    + Total(Keeps(rb, r), Thread) + Total(Offers(sp, r), Thread)

CopiesPlaced == \A r : Copies(r) = Places(bags[0], bags[1], rbag, spawn, r)

LEMMA CopiesAre == KernelTypes => CopiesPlaced
<1>. SUFFICES ASSUME KernelTypes, NEW r
              PROVE  Copies(r) = Places(bags[0], bags[1], rbag, spawn, r)
  BY DEF CopiesPlaced
<1>0. /\ bags[0] \in [Thread -> Seq(Entries)] /\ bags[1] \in [Thread -> Seq(Entries)]
      /\ rbag \in [Thread -> Bag]
  BY DEF KernelTypes
<1>. DEFINE Sum(t) == Cardinality(Holds(bags[0][t], r)) + Cardinality(Holds(bags[1][t], r))
                    + Cardinality(Holds(rbag[t].hi, r)) + Cardinality(Holds(rbag[t].lo, r))
                    + (IF spawn[t] \notin {EMPTY, FULL} /\ spawn[t].redex = r THEN 1 ELSE 0)
<1>1. PICK f : f = [t \in Thread |-> Sum(t)]
  OBVIOUS
<1>2. PICK a \in [Thread -> Nat], b \in [Thread -> Nat], c \in [Thread -> Nat], d \in [Thread -> Nat] :
        a = Stores(bags[0], r) /\ b = Stores(bags[1], r) /\ c = Keeps(rbag, r) /\ d = Offers(spawn, r)
  BY <1>0, PlacesNat
<1>3. \A t \in Thread : f[t] = a[t] + b[t] + c[t] + d[t]
  <2>. SUFFICES ASSUME NEW t \in Thread PROVE f[t] = a[t] + b[t] + c[t] + d[t]
    OBVIOUS
  <2>1. /\ Cardinality(Holds(bags[0][t], r)) = a[t] /\ Cardinality(Holds(bags[1][t], r)) = b[t]
        /\ (IF spawn[t] \notin {EMPTY, FULL} /\ spawn[t].redex = r THEN 1 ELSE 0) = d[t]
    BY <1>2 DEF Stores, Occurs, Offers, InCell
  <2>2. PICK x, y : x = Cardinality(Holds(rbag[t].hi, r)) /\ y = Cardinality(Holds(rbag[t].lo, r))
    OBVIOUS
  <2>3. x \in Nat /\ y \in Nat
    <3>1. rbag[t].hi \in Seq(HighEntries) /\ rbag[t].lo \in Seq(LowEntries)
      BY <1>0 DEF Bag
    <3>. QED
      BY <2>2, <3>1, OccursNat DEF Occurs
  <2>4. c[t] = x + y
    BY <1>2, <2>2 DEF Keeps, InBag, Occurs
  <2>5. f[t] = a[t] + b[t] + x + y + d[t]
    BY <1>1, <2>1, <2>2
  <2>. QED
    BY <2>3, <2>4, <2>5
<1>4. f \in [Thread -> Nat]
  <2>1. f = [t \in Thread |-> f[t]]
    BY <1>1
  <2>. QED
    BY <1>3, <2>1
<1>. HIDE DEF Sum
<1>5. Total(f, Thread) = Places(bags[0], bags[1], rbag, spawn, r)
  <2>1. Total(f, Thread) = Total(a, Thread) + Total(b, Thread) + Total(c, Thread) + Total(d, Thread)
    BY <1>3, <1>4, ThreadsFinite, TotalFour
  <2>. QED
    BY <1>2, <2>1 DEF Places
<1>6. PICK h : Summing(h, f, Thread) /\ h \in [SUBSET Thread -> Nat] /\ Total(f, Thread) = h[Thread]
  BY <1>4, ThreadsFinite, TotalIs
<1>. DEFINE Is(x) == x = [s \in SUBSET Thread |->
                        IF s = {} THEN 0 ELSE Sum(CHOOSE u \in s : TRUE) + x[s \ {CHOOSE u \in s : TRUE}]]
<1>7. MapThenSumSet(Sum, Thread) = (CHOOSE x : Is(x))[Thread]
  BY DEF MapThenSumSet, MapThenFoldSet
<1>8. \A x : Is(x) <=> Summing(x, f, Thread)
  <2>. SUFFICES ASSUME NEW x PROVE Is(x) <=> Summing(x, f, Thread)
    OBVIOUS
  <2>1. \A s \in SUBSET Thread : s # {} => f[Pick(s)] = Sum(Pick(s))
    BY <1>1, Picks
  <2>2. [s \in SUBSET Thread |-> IF s = {} THEN 0 ELSE Sum(Pick(s)) + x[s \ {Pick(s)}]]
      = [s \in SUBSET Thread |-> IF s = {} THEN 0 ELSE f[Pick(s)] + x[s \ {Pick(s)}]]
    BY <2>1
  <2>. QED
    BY <2>2 DEF Summing, Pick
<1>9. PICK g : g = CHOOSE x : Is(x)
  OBVIOUS
<1>. HIDE DEF Is
<1>10. Is(g)
  BY <1>6, <1>8, <1>9
<1>11. Summing(g, f, Thread)
  BY <1>8, <1>10, Zenon
<1>12. Total(f, Thread) = g[Thread]
  BY <1>4, <1>11, ThreadsFinite, TotalIs, Zenon
<1>13. MapThenSumSet(Sum, Thread) = Places(bags[0], bags[1], rbag, spawn, r)
  BY <1>5, <1>7, <1>9, <1>12, Zenon
<1>. QED
  BY <1>13 DEF Sum, Copies

LEMMA CopiesNext ==
  KernelTypes' => \A r : Copies(r)' = Places(bags'[0], bags'[1], rbag', spawn', r)
<1>1. KernelTypes' => CopiesPlaced'
  BY CopiesAre, PTL
<1>. QED
  BY <1>1 DEF CopiesPlaced

\* What changes when a slice of a global bag, the bag of a thread and a spawn cell
\* do.
LEMMA TotalMove ==
  ASSUME NEW f \in [Thread -> Nat], NEW g \in [Thread -> Nat], NEW u \in Thread,
         \A v \in Thread \ {u} : g[v] = f[v]
  PROVE  /\ Total(f, Thread) \in Nat /\ Total(g, Thread) \in Nat
         /\ Total(g, Thread) + f[u] = Total(f, Thread) + g[u]
BY ThreadsFinite, TotalNat, TotalSet

LEMMA StoresMove ==
  ASSUME NEW b0 \in [Thread -> Seq(Entries)], NEW b1 \in [Thread -> Seq(Entries)],
         NEW u \in Thread, \A v \in Thread \ {u} : b1[v] = b0[v], NEW r
  PROVE  /\ Total(Stores(b0, r), Thread) \in Nat /\ Total(Stores(b1, r), Thread) \in Nat
         /\ Total(Stores(b1, r), Thread) + Occurs(b0[u], r)
              = Total(Stores(b0, r), Thread) + Occurs(b1[u], r)
<1>1. PICK f \in [Thread -> Nat], g \in [Thread -> Nat] : f = Stores(b0, r) /\ g = Stores(b1, r)
  BY PlacesNat
<1>2. /\ f[u] = Occurs(b0[u], r) /\ g[u] = Occurs(b1[u], r)
      /\ \A v \in Thread \ {u} : g[v] = f[v]
  BY <1>1 DEF Stores
<1>3. /\ Total(f, Thread) \in Nat /\ Total(g, Thread) \in Nat
      /\ Total(g, Thread) + f[u] = Total(f, Thread) + g[u]
  BY <1>2, TotalMove
<1>. QED
  BY <1>1, <1>2, <1>3

LEMMA KeepsMove ==
  ASSUME NEW b0 \in [Thread -> Bag], NEW b1 \in [Thread -> Bag],
         NEW u \in Thread, \A v \in Thread \ {u} : b1[v] = b0[v], NEW r
  PROVE  /\ Total(Keeps(b0, r), Thread) \in Nat /\ Total(Keeps(b1, r), Thread) \in Nat
         /\ Total(Keeps(b1, r), Thread) + InBag(b0[u], r)
              = Total(Keeps(b0, r), Thread) + InBag(b1[u], r)
<1>1. PICK f \in [Thread -> Nat], g \in [Thread -> Nat] : f = Keeps(b0, r) /\ g = Keeps(b1, r)
  BY PlacesNat
<1>2. /\ f[u] = InBag(b0[u], r) /\ g[u] = InBag(b1[u], r)
      /\ \A v \in Thread \ {u} : g[v] = f[v]
  BY <1>1 DEF Keeps
<1>3. /\ Total(f, Thread) \in Nat /\ Total(g, Thread) \in Nat
      /\ Total(g, Thread) + f[u] = Total(f, Thread) + g[u]
  BY <1>2, TotalMove
<1>. QED
  BY <1>1, <1>2, <1>3

LEMMA OffersMove ==
  ASSUME NEW b0 \in [Thread -> Entries \cup {EMPTY, FULL}],
         NEW b1 \in [Thread -> Entries \cup {EMPTY, FULL}],
         NEW u \in Thread, \A v \in Thread \ {u} : b1[v] = b0[v], NEW r
  PROVE  /\ Total(Offers(b0, r), Thread) \in Nat /\ Total(Offers(b1, r), Thread) \in Nat
         /\ Total(Offers(b1, r), Thread) + InCell(b0[u], r)
              = Total(Offers(b0, r), Thread) + InCell(b1[u], r)
<1>1. PICK f \in [Thread -> Nat], g \in [Thread -> Nat] : f = Offers(b0, r) /\ g = Offers(b1, r)
  BY PlacesNat
<1>2. /\ f[u] = InCell(b0[u], r) /\ g[u] = InCell(b1[u], r)
      /\ \A v \in Thread \ {u} : g[v] = f[v]
  BY <1>1 DEF Offers
<1>3. /\ Total(f, Thread) \in Nat /\ Total(g, Thread) \in Nat
      /\ Total(g, Thread) + f[u] = Total(f, Thread) + g[u]
  BY <1>2, TotalMove
<1>. QED
  BY <1>1, <1>2, <1>3

LEMMA CountsNat ==
  ASSUME KernelTypes, NEW k \in {0, 1}, NEW s \in Thread, NEW t \in Thread, NEW u, NEW r
  PROVE  /\ Occurs(bags[k][s], r) \in Nat /\ InBag(rbag[t], r) \in Nat
         /\ InCell(spawn[u], r) \in Nat
<1>1. bags[k][s] \in Seq(Entries) /\ rbag[t] \in Bag
  BY DEF KernelTypes
<1>2. Occurs(bags[k][s], r) \in Nat
  BY <1>1, OccursNat
<1>3. InBag(rbag[t], r) \in Nat
  BY <1>1, InBagNat
<1>. QED
  BY <1>2, <1>3 DEF InCell

LEMMA CopiesMove ==
  ASSUME KernelTypes, KernelTypes', NEW k \in {0, 1}, NEW s \in Thread, NEW t \in Thread,
         NEW u \in Thread, NEW r,
         bags'[1 - k] = bags[1 - k], \A v \in Thread \ {s} : bags'[k][v] = bags[k][v],
         \A v \in Thread \ {t} : rbag'[v] = rbag[v],
         \A v \in Thread \ {u} : spawn'[v] = spawn[v]
  PROVE  /\ Copies(r) \in Nat /\ Copies(r)' \in Nat
         /\ Copies(r)' + Occurs(bags[k][s], r) + InBag(rbag[t], r) + InCell(spawn[u], r)
          = Copies(r) + Occurs(bags'[k][s], r) + InBag(rbag'[t], r) + InCell(spawn'[u], r)
<1>1. /\ bags[0] \in [Thread -> Seq(Entries)] /\ bags[1] \in [Thread -> Seq(Entries)]
      /\ bags'[0] \in [Thread -> Seq(Entries)] /\ bags'[1] \in [Thread -> Seq(Entries)]
      /\ rbag \in [Thread -> Bag] /\ rbag' \in [Thread -> Bag]
  BY DEF KernelTypes
<1>2. PICK a, c, l, m, n, o \in Nat :
        /\ a = Total(Stores(bags[k], r), Thread) /\ c = Total(Stores(bags'[k], r), Thread)
        /\ l = Total(Keeps(rbag, r), Thread) /\ m = Total(Keeps(rbag', r), Thread)
        /\ n = Total(Offers(spawn, r), Thread) /\ o = Total(Offers(spawn', r), Thread)
        /\ c + Occurs(bags[k][s], r) = a + Occurs(bags'[k][s], r)
        /\ m + InBag(rbag[t], r) = l + InBag(rbag'[t], r)
        /\ o + InCell(spawn[u], r) = n + InCell(spawn'[u], r)
  <2>1. /\ Total(Stores(bags[k], r), Thread) \in Nat /\ Total(Stores(bags'[k], r), Thread) \in Nat
        /\ Total(Stores(bags'[k], r), Thread) + Occurs(bags[k][s], r)
              = Total(Stores(bags[k], r), Thread) + Occurs(bags'[k][s], r)
    <3>1. PICK b0 \in [Thread -> Seq(Entries)], b1 \in [Thread -> Seq(Entries)] :
            b0 = bags[k] /\ b1 = bags'[k]
      BY <1>1
    <3>2. \A v \in Thread \ {s} : b1[v] = b0[v]
      BY <3>1
    <3>3. /\ Total(Stores(b0, r), Thread) \in Nat /\ Total(Stores(b1, r), Thread) \in Nat
          /\ Total(Stores(b1, r), Thread) + Occurs(b0[s], r)
              = Total(Stores(b0, r), Thread) + Occurs(b1[s], r)
      BY <3>2, StoresMove, ZenonT(40)
    <3>. QED
      BY <3>1, <3>3
  <2>2. /\ Total(Keeps(rbag, r), Thread) \in Nat /\ Total(Keeps(rbag', r), Thread) \in Nat
        /\ Total(Keeps(rbag', r), Thread) + InBag(rbag[t], r)
              = Total(Keeps(rbag, r), Thread) + InBag(rbag'[t], r)
    BY <1>1, KeepsMove, ZenonT(40)
  <2>3. /\ Total(Offers(spawn, r), Thread) \in Nat /\ Total(Offers(spawn', r), Thread) \in Nat
        /\ Total(Offers(spawn', r), Thread) + InCell(spawn[u], r)
              = Total(Offers(spawn, r), Thread) + InCell(spawn'[u], r)
    <3>1. PICK b0 \in [Thread -> Entries \cup {EMPTY, FULL}],
               b1 \in [Thread -> Entries \cup {EMPTY, FULL}] : b0 = spawn /\ b1 = spawn'
      BY DEF KernelTypes
    <3>2. \A v \in Thread \ {u} : b1[v] = b0[v]
      BY <3>1
    <3>3. /\ Total(Offers(b0, r), Thread) \in Nat /\ Total(Offers(b1, r), Thread) \in Nat
          /\ Total(Offers(b1, r), Thread) + InCell(b0[u], r)
              = Total(Offers(b0, r), Thread) + InCell(b1[u], r)
      BY <3>2, OffersMove
    <3>. QED
      BY <3>1, <3>3
  <2>. QED
    BY <2>1, <2>2, <2>3, SMTT(30)
<1>3. PICK d \in Nat : d = Total(Stores(bags[1 - k], r), Thread)
  <2>1. PICK bk \in [Thread -> Seq(Entries)] : bk = bags[1 - k]
    BY <1>1, SMTT(30)
  <2>2. PICK f \in [Thread -> Nat] : f = Stores(bk, r)
    BY PlacesNat
  <2>. QED
    BY <2>1, <2>2, ThreadsFinite, TotalNat
<1>4. Copies(r) = a + d + l + n /\ Copies(r)' = c + d + m + o
  BY <1>2, <1>3, CopiesAre, CopiesNext DEF CopiesPlaced, Places
<1>5. /\ Occurs(bags[k][s], r) \in Nat /\ InBag(rbag[t], r) \in Nat /\ InCell(spawn[u], r) \in Nat
  BY CountsNat
<1>6. /\ Occurs(bags'[k][s], r) \in Nat /\ InBag(rbag'[t], r) \in Nat
      /\ InCell(spawn'[u], r) \in Nat
  <2>1. bags'[k][s] \in Seq(Entries) /\ rbag'[t] \in Bag
    BY <1>1
  <2>. QED
    BY <2>1, OccursNat, InBagNat DEF InCell
<1>. QED
  BY <1>2, <1>4, <1>5, <1>6

LEMMA CopiesAtLeast ==
  ASSUME KernelTypes, NEW t \in Thread, NEW r
  PROVE  Copies(r) \in Nat /\ InBag(rbag[t], r) <= Copies(r)
<1>1. PICK f \in [Thread -> Nat], g \in [Thread -> Nat], h \in [Thread -> Nat], e \in [Thread -> Nat] :
        f = Stores(bags[0], r) /\ g = Stores(bags[1], r) /\ h = Keeps(rbag, r) /\ e = Offers(spawn, r)
  BY PlacesNat DEF KernelTypes
<1>2. /\ Total(f, Thread) \in Nat /\ Total(g, Thread) \in Nat
      /\ Total(h, Thread) \in Nat /\ Total(e, Thread) \in Nat
  BY ThreadsFinite, TotalNat
<1>3. h[t] <= Total(h, Thread) /\ h[t] \in Nat /\ h[t] = InBag(rbag[t], r)
  BY <1>1, ThreadsFinite, TotalAtLeast DEF Keeps
<1>4. Copies(r) = Total(f, Thread) + Total(g, Thread) + Total(h, Thread) + Total(e, Thread)
  BY <1>1, CopiesAre DEF CopiesPlaced, Places
<1>. QED
  BY <1>2, <1>3, <1>4

-----------------------------------------------------------------------------
(* What a step does to the redexes.                                        *)

\* Each is where it was, or elsewhere.
Still == (\A r \in Redex : Copies(r)' = Copies(r)) /\ UNCHANGED <<done, boots>>

\* One is reduced, and gives way to those it pushes.
Reduces(q) ==
  /\ q \in Redex /\ Copies(q) >= 1 /\ done' = done \cup {q} /\ boots' = boots
  /\ \A r \in Redex : /\ Copies(r)' \in Nat
                      /\ Copies(r)' + (IF r = q THEN 1 ELSE 0)
                           = Copies(r) + (IF r \in Range(Spawn[q]) THEN 1 ELSE 0)

\* One is booted.
Starts ==
  /\ boots' = boots + 1 /\ done' = done
  /\ \A r \in Redex : Copies(r)' = Copies(r) + (IF r = Boots[boots + 1] THEN 1 ELSE 0)

LEMMA InteractMoves ==
  ASSUME KernelTypes, KernelTypes', NEW t \in Thread, rbag[t] # NoRedexes,
         NEW ok \in BOOLEAN, Interact(t, ok), UNCHANGED <<bags, spawn, boots>>
  PROVE  Still \/ \E q : Reduces(q)
<1>1. PICK e : e = Top(rbag[t])
  OBVIOUS
<1>2. e \in Entries
  BY <1>1, PopTyped DEF KernelTypes
<1>3. done' = IF ok THEN done \cup ({e.redex} \ Node) ELSE done
  BY <1>1 DEF Interact
<1>4. ASSUME NEW r \in Redex
      PROVE  /\ Copies(r) \in Nat /\ Copies(r)' \in Nat
             /\ ~ok => Copies(r)' = Copies(r)
             /\ ok => Copies(r)' + One(e, r) = Copies(r) + Occurs(Pushes(e), r)
  <2>1. /\ \A u \in Thread \ {t} : rbag'[u] = rbag[u]
        /\ ~ok => InBag(rbag'[t], r) = InBag(rbag[t], r)
        /\ ok => InBag(rbag'[t], r) + One(e, r) = InBag(rbag[t], r) + Occurs(Pushes(e), r)
    BY <1>1, InteractCounts
  <2>2. PICK z \in {0, 1} : z = 0
    OBVIOUS
  <2>3. /\ Copies(r) \in Nat /\ Copies(r)' \in Nat
        /\ Copies(r)' + Occurs(bags[z][t], r) + InBag(rbag[t], r) + InCell(spawn[t], r)
         = Copies(r) + Occurs(bags'[z][t], r) + InBag(rbag'[t], r) + InCell(spawn'[t], r)
    BY <2>1, CopiesMove
  <2>4. /\ Occurs(bags[z][t], r) \in Nat /\ InBag(rbag[t], r) \in Nat /\ InCell(spawn[t], r) \in Nat
    BY CountsNat
  <2>5. InBag(rbag'[t], r) \in Nat /\ One(e, r) \in Nat /\ Occurs(Pushes(e), r) \in Nat
    <3>1. InBag(rbag'[t], r) \in Nat
      BY InBagNat DEF KernelTypes
    <3>2. Pushes(e) \in Seq(Entries)
      BY <1>2, PushesTyped
    <3>3. Occurs(Pushes(e), r) \in Nat /\ One(e, r) \in Nat
      BY <3>2, OccursNat, OneNat
    <3>. QED
      BY <3>1, <3>3
  <2>6. Copies(r)' + InBag(rbag[t], r) = Copies(r) + InBag(rbag'[t], r)
    BY <2>3, <2>4, <2>5
  <2>. QED
    BY <2>1, <2>3, <2>4, <2>5, <2>6
<1>5. CASE ~ok
  BY <1>3, <1>4, <1>5 DEF Still
<1>6. CASE ok /\ Leak(e)
  <2>1. \A r \in Redex : One(e, r) = 0 /\ Occurs(Pushes(e), r) = 0
    BY <1>2, <1>6, PushesCounts, CudaAssumption DEF One, Leak
  <2>. QED
    BY <1>3, <1>4, <1>6, <2>1 DEF Still, Leak
<1>7. CASE ok /\ ~Leak(e)
  <2>1. PICK q \in Redex : q = e.redex
    BY <1>2, <1>7 DEF Entries, Leak
  <2>2. \A r \in Redex : /\ One(e, r) = IF r = q THEN 1 ELSE 0
                         /\ Occurs(Pushes(e), r) = IF r \in Range(Spawn[q]) THEN 1 ELSE 0
    BY <1>2, <1>7, <2>1, PushesCounts DEF One
  <2>3. Copies(q) >= 1
    <3>1. InBag(Popped(rbag[t]), q) + One(e, q) = InBag(rbag[t], q) /\ Popped(rbag[t]) \in Bag
      BY <1>1, PopCounts, PopTyped DEF KernelTypes
    <3>2. One(e, q) = 1 /\ InBag(Popped(rbag[t]), q) \in Nat
      BY <2>2, <3>1, InBagNat
    <3>3. Copies(q) \in Nat /\ InBag(rbag[t], q) <= Copies(q)
      BY CopiesAtLeast
    <3>. QED
      BY <3>1, <3>2, <3>3
  <2>4. done' = done \cup {q}
    BY <1>3, <1>7, <2>1 DEF Leak
  <2>5. Reduces(q)
    BY <1>4, <1>7, <2>2, <2>3, <2>4 DEF Reduces
  <2>. QED
    BY <2>5
<1>. QED
  BY <1>5, <1>6, <1>7

LEMMA UnmarkedCounts ==
  ASSUME NEW b \in Bag, NEW r
  PROVE  InBag(Unmarked(b), r) = InBag(b, r)
<1>1. CASE rbag_len(b) = 0
  BY <1>1 DEF Unmarked
<1>2. CASE rbag_len(b) # 0
  <2>1. b # NoRedexes
    BY <1>2, HasSome
  <2>2. PICK c \in Bag, e \in Entries : c = Popped(b) /\ e = Top(b)
    BY <2>1, PopTyped
  <2>3. clr_par_flag(e) \in Entries /\ One(clr_par_flag(e), r) = One(e, r)
    BY EntriesTyped DEF clr_par_flag, One, Entries
  <2>4. Unmarked(b) = push_redex(c, clr_par_flag(e))
    BY <1>2, <2>2 DEF Unmarked
  <2>5. InBag(push_redex(c, clr_par_flag(e)), r) = InBag(c, r) + One(e, r)
    BY <2>3, PushCounts
  <2>6. InBag(c, r) + One(e, r) = InBag(b, r)
    BY <2>1, <2>2, PopCounts
  <2>. QED
    BY <2>4, <2>5, <2>6
<1>. QED
  BY <1>1, <1>2

LEMMA LoadMoves ==
  ASSUME KernelInv, KernelTypes', NEW t \in Thread, Load(t)
  PROVE  Still
<1>1. KernelTypes /\ turn \in {0, 1} /\ BagOf(t) \in Thread
  BY SlicesApart DEF KernelInv, KernelTypes
<1>2. PICK k \in {0, 1}, s \in Thread : k = turn /\ s = BagOf(t)
  BY <1>1
<1>3. /\ bags' = [bags EXCEPT ![k][s] = <<>>]
      /\ rbag' = [rbag EXCEPT ![t] = push_all(@, bags[k][s])]
      /\ UNCHANGED <<spawn, done, boots>>
  BY <1>2 DEF Load, Taken, hostVars
<1>4. /\ bags'[1 - k] = bags[1 - k] /\ \A v \in Thread \ {s} : bags'[k][v] = bags[k][v]
      /\ bags'[k][s] = <<>> /\ 1 - k \in {0, 1}
  BY <1>1, <1>3 DEF KernelTypes
<1>5. /\ \A v \in Thread \ {t} : rbag'[v] = rbag[v]
      /\ rbag'[t] = push_all(rbag[t], bags[k][s])
  BY <1>1, <1>3 DEF KernelTypes
<1>6. ASSUME NEW r \in Redex PROVE Copies(r)' = Copies(r)
  <2>1. /\ Copies(r) \in Nat /\ Copies(r)' \in Nat
        /\ Copies(r)' + Occurs(bags[k][s], r) + InBag(rbag[t], r) + InCell(spawn[t], r)
         = Copies(r) + Occurs(bags'[k][s], r) + InBag(rbag'[t], r) + InCell(spawn'[t], r)
    BY <1>1, <1>3, <1>4, <1>5, CopiesMove
  <2>2. InBag(push_all(rbag[t], bags[k][s]), r) = InBag(rbag[t], r) + Occurs(bags[k][s], r)
    <3>1. PICK b \in Bag, q \in Seq(Entries) : b = rbag[t] /\ q = bags[k][s]
      BY <1>1 DEF KernelTypes
    <3>. QED
      BY <3>1, PushAllCounts
  <2>3. Occurs(bags'[k][s], r) = 0
    BY <1>4, OccursEmpty
  <2>4. /\ Occurs(bags[k][s], r) \in Nat /\ InBag(rbag[t], r) \in Nat /\ InCell(spawn[t], r) \in Nat
    BY <1>1, CountsNat
  <2>. QED
    BY <1>3, <1>5, <2>1, <2>2, <2>3, <2>4
<1>. QED
  BY <1>3, <1>6 DEF Still

LEMMA SaveMoves ==
  ASSUME KernelInv, KernelTypes', RoundInv, NEW t \in Thread, Save(t)
  PROVE  Still
<1>1. KernelTypes /\ turn \in {0, 1} /\ BagOf(t) \in Thread /\ LaunchInv
  BY SlicesApart, InLaunch DEF KernelInv, KernelTypes, RoundInv, Save
<1>2. PICK k \in {0, 1}, s \in Thread : k = 1 - turn /\ s = BagOf(t)
  BY <1>1
<1>3. PICK lo \in Seq(LowEntries), hi \in Seq(HighEntries) : lo = rbag[t].lo /\ hi = rbag[t].hi
  BY <1>1 DEF KernelTypes, Bag
<1>4. PICK new : new = [n \in DOMAIN lo |-> [lo[n] EXCEPT !.local = FALSE]]
  OBVIOUS
<1>5. PICK leaks : leaks = FlattenSeq([n \in DOMAIN lo |-> Leaks(lo[n])])
  OBVIOUS
<1>6. /\ bags' = [bags EXCEPT ![k][s] = new] /\ pc[t] = "save"
      /\ rbag' = [rbag EXCEPT ![t] = [hi |-> hi \o leaks, lo |-> <<>>]]
      /\ UNCHANGED <<spawn, done, boots>>
  BY <1>2, <1>3, <1>4, <1>5 DEF Save, hostVars
<1>7. /\ bags'[1 - k] = bags[1 - k] /\ \A v \in Thread \ {s} : bags'[k][v] = bags[k][v]
      /\ bags'[k][s] = new /\ bags[k][s] = <<>>
  <2>1. bags[k][s] = <<>>
    BY <1>1, <1>2, <1>6 DEF LaunchInv, Unsaved
  <2>. QED
    BY <1>1, <1>6, <2>1 DEF KernelTypes
<1>8. /\ \A v \in Thread \ {t} : rbag'[v] = rbag[v]
      /\ rbag'[t] = [hi |-> hi \o leaks, lo |-> <<>>]
  BY <1>1, <1>6 DEF KernelTypes
\* What leaks is no redex of the program.
<1>9. leaks \in Seq(NodeEntries)
  <2>1. PICK q \in Nat : q = Len(lo) /\ DOMAIN lo = 1 .. q
    OBVIOUS
  <2>2. \A n \in DOMAIN lo : Leaks(lo[n]) \in Seq(NodeEntries)
    BY LeaksTyped
  <2>3. [n \in DOMAIN lo |-> Leaks(lo[n])] \in Seq(Seq(NodeEntries))
    BY <2>1, <2>2
  <2>. QED
    BY <1>5, <2>3, FlattenTyped
<1>10. ASSUME NEW r \in Redex PROVE Copies(r)' = Copies(r)
  <2>1. /\ Copies(r) \in Nat /\ Copies(r)' \in Nat
        /\ Copies(r)' + Occurs(bags[k][s], r) + InBag(rbag[t], r) + InCell(spawn[t], r)
         = Copies(r) + Occurs(bags'[k][s], r) + InBag(rbag'[t], r) + InCell(spawn'[t], r)
    <3>1. /\ \A v \in Thread \ {t} : rbag'[v] = rbag[v]
          /\ \A v \in Thread \ {t} : spawn'[v] = spawn[v]
          /\ bags'[1 - k] = bags[1 - k] /\ \A v \in Thread \ {s} : bags'[k][v] = bags[k][v]
      BY <1>6, <1>7, <1>8
    <3>. QED
      BY <1>1, <3>1, CopiesMove
  <2>2. Occurs(new, r) = Occurs(lo, r)
    <3>1. DOMAIN new = DOMAIN lo /\ \A n \in DOMAIN lo : new[n] = [lo[n] EXCEPT !.local = FALSE]
      BY <1>4
    <3>2. \A n \in DOMAIN lo : lo[n] \in Entries
      BY DEF LowEntries
    <3>3. \A n \in DOMAIN lo : new[n].redex = lo[n].redex
      BY <3>1, <3>2 DEF Entries
    <3>4. Holds(new, r) = Holds(lo, r)
      BY <3>1, <3>3 DEF Holds
    <3>. QED
      BY <3>4 DEF Occurs
  <2>3. Occurs(hi \o leaks, r) = Occurs(hi, r)
    <3>1. PICK q \in Nat, p \in Nat : q = Len(hi) /\ p = Len(leaks)
      BY <1>9
    <3>2. \A n \in 1 .. p : leaks[n].redex # r
      BY <1>9, <3>1, CudaAssumption DEF NodeEntries, Leak
    <3>3. /\ DOMAIN (hi \o leaks) = 1 .. q + p
          /\ \A n \in 1 .. q : (hi \o leaks)[n] = hi[n]
          /\ \A n \in 1 .. q + p : n \notin 1 .. q => (hi \o leaks)[n] = leaks[n - q] /\ n - q \in 1 .. p
      BY <1>9, <3>1
    <3>4. DOMAIN hi = 1 .. q /\ 1 .. q \subseteq 1 .. q + p
      BY <3>1
    <3>5. Holds(hi \o leaks, r) = Holds(hi, r)
      BY <3>2, <3>3, <3>4 DEF Holds
    <3>. QED
      BY <3>5 DEF Occurs
  <2>4. InBag(rbag'[t], r) = Occurs(hi, r)
    <3>1. Occurs(hi, r) \in Nat
      BY OccursNat
    <3>. QED
      BY <1>8, <2>3, <3>1, OccursEmpty DEF InBag
  <2>5. InBag(rbag[t], r) = Occurs(hi, r) + Occurs(lo, r)
    BY <1>3 DEF InBag
  <2>6. Occurs(hi, r) \in Nat /\ Occurs(lo, r) \in Nat /\ InCell(spawn[t], r) \in Nat
    BY OccursNat DEF InCell
  <2>7. Occurs(bags[k][s], r) = 0 /\ Occurs(bags'[k][s], r) = Occurs(lo, r)
    BY <1>7, <2>2, OccursEmpty
  <2>. QED
    BY <1>6, <2>1, <2>4, <2>5, <2>6, <2>7
<1>. QED
  BY <1>6, <1>10 DEF Still

\* What the bag of one thread loses is in the cell of another, or the other way.
Trades(t, u, b, cell) ==
  \A r \in Redex : InBag(b, r) + InCell(cell, r) = InBag(rbag[t], r) + InCell(spawn[u], r)

\* A thread that gives, or is given, a redex.
LEMMA GivenMoves ==
  ASSUME KernelTypes, KernelTypes', NEW t \in Thread, NEW u \in Thread, NEW b \in Bag, NEW cell,
         rbag' = [rbag EXCEPT ![t] = b], spawn' = [spawn EXCEPT ![u] = cell],
         UNCHANGED <<bags, done, boots>>, Trades(t, u, b, cell)
  PROVE  Still
<1>1. /\ \A v \in Thread \ {t} : rbag'[v] = rbag[v]
      /\ \A v \in Thread \ {u} : spawn'[v] = spawn[v]
      /\ rbag'[t] = b /\ spawn'[u] = cell
  BY DEF KernelTypes
<1>2. ASSUME NEW r \in Redex PROVE Copies(r)' = Copies(r)
  <2>1. PICK z \in {0, 1} : z = 0
    OBVIOUS
  <2>2. /\ Copies(r) \in Nat /\ Copies(r)' \in Nat
        /\ Copies(r)' + Occurs(bags[z][t], r) + InBag(rbag[t], r) + InCell(spawn[u], r)
         = Copies(r) + Occurs(bags'[z][t], r) + InBag(rbag'[t], r) + InCell(spawn'[u], r)
    BY <1>1, CopiesMove
  <2>3. /\ Occurs(bags[z][t], r) \in Nat /\ InBag(rbag[t], r) \in Nat /\ InCell(spawn[u], r) \in Nat
    BY CountsNat
  <2>4. InBag(b, r) \in Nat /\ InCell(cell, r) \in Nat
    BY InBagNat DEF InCell
  <2>5. InBag(b, r) + InCell(cell, r) = InBag(rbag[t], r) + InCell(spawn[u], r)
    BY DEF Trades
  <2>6. Occurs(bags'[z][t], r) = Occurs(bags[z][t], r)
    OBVIOUS
  <2>7. /\ Copies(r) \in Nat /\ Copies(r)' \in Nat
        /\ Copies(r)' + Occurs(bags[z][t], r) + InBag(rbag[t], r) + InCell(spawn[u], r)
         = Copies(r) + Occurs(bags[z][t], r) + InBag(b, r) + InCell(cell, r)
    BY <1>1, <2>2, <2>6
  <2>8. PICK c \in Nat, d \in Nat, o \in Nat, x \in Nat, y \in Nat, x1 \in Nat, y1 \in Nat :
          /\ c = Copies(r) /\ d = Copies(r)' /\ o = Occurs(bags[z][t], r)
          /\ x = InBag(rbag[t], r) /\ y = InCell(spawn[u], r)
          /\ x1 = InBag(b, r) /\ y1 = InCell(cell, r)
    BY <2>3, <2>4, <2>7
  <2>9. d + o + x + y = c + o + x1 + y1 /\ x1 + y1 = x + y
    BY <2>5, <2>7, <2>8
  <2>10. d = c
    BY <2>9
  <2>. QED
    BY <2>8, <2>10
<1>. QED
  BY <1>2 DEF Still

\* An offer: the redex that is marked goes from the bag to the cell of the partner.
LEMMA OfferMoves ==
  ASSUME KernelInv, KernelTypes', NEW t \in Thread, NEW r \in Entries \cup {NONE}, NEW b \in Bag,
         pc[t] = "give", Offer(t, r, b),
         r # NONE /\ r.par =>
           \A q \in Redex : InBag(b, q) + One(r, q) = InBag(rbag[t], q),
         ~(r # NONE /\ r.par) => b = rbag[t]
  PROVE  Still
<1>1. KernelTypes /\ LabelInv(t) /\ BID(t) \in Block
  BY Grid DEF KernelInv
<1>2. stage[BID(t)] = "give"
  BY <1>1 DEF LabelInv
<1>3. PICK k : k = tick[BID(t)]
  OBVIOUS
<1>4. k \in Nat /\ k < TPB_L2 /\ TID(t) < span(k) /\ spawn[t + span(k)] = EMPTY
  BY <1>1, <1>2, <1>3 DEF LabelInv, KernelTypes, KernelInv, TickInv
<1>5. PICK v \in Thread : v = t + span(k)
  BY <1>4, Partner
<1>6. /\ rbag' = [rbag EXCEPT ![t] = b] /\ UNCHANGED <<bags, done, boots>>
  BY DEF Offer, netVars, hostVars
<1>7. CASE ~(r # NONE /\ r.par)
  <2>1. spawn' = spawn
    BY <1>7 DEF Offer
  <2>2. spawn' = [spawn EXCEPT ![t] = spawn[t]]
    BY <1>1, <2>1 DEF KernelTypes
  <2>3. Trades(t, t, rbag[t], spawn[t])
    BY DEF Trades
  <2>. QED
    BY <1>1, <1>6, <1>7, <2>2, <2>3, GivenMoves
<1>8. CASE r # NONE /\ r.par
  <2>1. PICK cell : cell = clr_par_flag(r)
    OBVIOUS
  <2>2. spawn' = [spawn EXCEPT ![v] = cell]
    BY <1>3, <1>5, <1>8, <2>1 DEF Offer
  <2>3. cell \in Entries /\ cell.redex = r.redex
    BY <1>8, <2>1, EntriesTyped DEF Entries, clr_par_flag
  <2>4. cell \notin {EMPTY, FULL}
    BY <2>3, CudaAssumption DEF Entries
  <2>5. ASSUME NEW q \in Redex
        PROVE  InBag(b, q) + InCell(cell, q) = InBag(rbag[t], q) + InCell(spawn[v], q)
    <3>1. InCell(cell, q) = One(r, q)
      BY <2>3, <2>4 DEF InCell, One
    <3>2. InCell(spawn[v], q) = 0
      BY <1>4, <1>5 DEF InCell
    <3>3. InBag(rbag[t], q) \in Nat
      BY <1>1, InBagNat DEF KernelTypes
    <3>. QED
      BY <1>8, <3>1, <3>2, <3>3
  <2>6. Trades(t, v, b, cell)
    BY <2>5 DEF Trades
  <2>. QED
    BY <1>1, <1>6, <2>2, <2>6, GivenMoves
<1>. QED
  BY <1>7, <1>8

LEMMA GiveMoves ==
  ASSUME KernelInv, KernelTypes', NoneStale, NEW t \in Thread,
         GiveFound(t) \/ GiveEmpty(t) \/ GiveStop(t)
  PROVE  Still
<1>1. KernelTypes /\ LabelInv(t) /\ SpawnInv(t)
  BY DEF KernelInv
<1>2. pc[t] = "give"
  BY DEF GiveFound, GiveEmpty, GiveStop, Looking
<1>3. rbag[t] \in Bag /\ redex[t] \in Entries \cup {NONE}
  BY <1>1 DEF KernelTypes
<1>4. CASE GiveFound(t)
  <2>1. rbag[t] # NoRedexes
    <3>1. rbag_len(rbag[t]) # 0
      BY <1>4 DEF GiveFound
    <3>. QED
      BY <1>3, <3>1, HasSome
  <2>2. PICK e \in Entries, p \in Bag, b \in Bag :
          e = Top(rbag[t]) /\ p = Popped(rbag[t]) /\ b = Unmarked(p)
    BY <1>3, <2>1, PopTyped, UnmarkedTyped
  <2>3. e.par /\ Offer(t, e, b)
    BY <1>4, <2>2 DEF GiveFound
  <2>4. e # NONE
    BY CudaAssumption DEF Entries
  <2>5. \A q \in Redex : InBag(b, q) + One(e, q) = InBag(rbag[t], q)
    <3>1. \A q : InBag(b, q) = InBag(p, q)
      BY <2>2, UnmarkedCounts
    <3>2. \A q : InBag(p, q) + One(e, q) = InBag(rbag[t], q)
      BY <1>3, <2>1, <2>2, PopCounts
    <3>. QED
      BY <3>1, <3>2
  <2>. QED
    BY <1>2, <2>3, <2>4, <2>5, OfferMoves
<1>5. CASE GiveEmpty(t)
  <2>1. Offer(t, NONE, rbag[t])
    BY <1>5 DEF GiveEmpty
  <2>. QED
    BY <1>2, <1>3, <2>1, OfferMoves
\* What a thread offers that did not look is a redex it may have given before.
<1>6. CASE GiveStop(t)
  <2>1. Offer(t, redex[t], rbag[t])
    BY <1>6 DEF GiveStop
  <2>2. ~(redex[t] # NONE /\ redex[t].par)
    BY <1>6, <1>2 DEF GiveStop, NoneStale
  <2>. QED
    BY <1>2, <1>3, <2>1, <2>2, OfferMoves
<1>. QED
  BY <1>4, <1>5, <1>6

LEMMA TakeMoves ==
  ASSUME KernelInv, KernelTypes', NEW t \in Thread, Take(t) PROVE Still
<1>1. KernelTypes /\ LabelInv(t)
  BY DEF KernelInv
<1>2. spawn[t] \in Entries /\ spawn[t] \notin {EMPTY, FULL}
  BY <1>1 DEF LabelInv, Take, KernelTypes
<1>3. rbag[t] \in Bag
  BY <1>1 DEF KernelTypes
<1>4. PICK e \in Entries : e = spawn[t]
  BY <1>2
<1>5. PICK b \in Bag : b = push_redex(rbag[t], e)
  BY <1>3, PushTyped
<1>6. /\ rbag' = [rbag EXCEPT ![t] = b] /\ spawn' = [spawn EXCEPT ![t] = FULL]
      /\ UNCHANGED <<bags, done, boots>>
  BY <1>4, <1>5 DEF Take, netVars, hostVars
<1>7. ASSUME NEW q \in Redex
      PROVE  InBag(b, q) + InCell(FULL, q) = InBag(rbag[t], q) + InCell(spawn[t], q)
  <2>1. InBag(b, q) = InBag(rbag[t], q) + One(e, q)
    BY <1>3, <1>5, PushCounts
  <2>2. InCell(FULL, q) = 0
    BY DEF InCell
  <2>3. InCell(spawn[t], q) = One(e, q)
    BY <1>2, <1>4 DEF InCell, One
  <2>4. InBag(rbag[t], q) \in Nat /\ One(e, q) \in Nat
    BY <1>3, InBagNat, OneNat
  <2>. QED
    BY <2>1, <2>2, <2>3, <2>4
<1>8. Trades(t, t, b, FULL)
  BY <1>7 DEF Trades
<1>. QED
  BY <1>1, <1>6, <1>8, GivenMoves

LEMMA ReduceMoves ==
  ASSUME KernelInv, KernelTypes', NEW t \in Thread,
         GiveInteract(t) \/ WorkInteract(t) \/ HighInteract(t) \/ Flush(t)
  PROVE  Still \/ \E q : Reduces(q)
<1>1. KernelTypes /\ LabelInv(t)
  BY DEF KernelInv
<1>2. rbag[t] # NoRedexes
  <2>1. CASE GiveInteract(t)
    <3>1. rbag_len(rbag[t]) # 0
      BY <2>1 DEF GiveInteract
    <3>2. rbag[t] \in Bag
      BY <1>1 DEF KernelTypes
    <3>. QED
      BY <3>1, <3>2, HasSome
  <2>2. CASE ~GiveInteract(t)
    BY <1>1, <2>2 DEF LabelInv, WorkInteract, HighInteract, Flush
  <2>. QED
    BY <2>1, <2>2
<1>3. PICK ok \in BOOLEAN : Interact(t, ok)
  BY DEF GiveInteract, WorkInteract, HighInteract, Flush
<1>4. UNCHANGED <<bags, spawn, boots>>
  BY DEF GiveInteract, WorkInteract, HighInteract, Flush, hostVars
<1>. QED
  BY <1>1, <1>2, <1>3, <1>4, InteractMoves

\* What a step of a thread does.
LEMMA StepMoves ==
  ASSUME KernelInv, KernelTypes', RoundInv, NoneStale, NEW t \in Thread, Step(t)
  PROVE  Still \/ \E q : Reduces(q)
BY LoadMoves, SaveMoves, GiveMoves, TakeMoves, ReduceMoves DEF Step

-----------------------------------------------------------------------------
(* No redex is left behind in a spawn cell, or in the bag of a thread.      *)

\* What a cell offers is offered in this tick, or about to be taken; a thread leaves
\* the kernel with no high-priority redex.
CellInv(t) ==
  /\ spawn[t] \notin {EMPTY, FULL} =>
       \/ /\ stage[BID(t)] = "give"
          /\ span(tick[BID(t)]) <= TID(t) /\ TID(t) < 2 * span(tick[BID(t)])
       \/ stage[BID(t)] = "take" /\ pc[t] = "take"
  /\ stage[BID(t)] \in {"flush", "exit"} /\ pc[t] # "flush" => rbag[t].hi = <<>>

\* What a step of a thread leaves alone.
LEMMA InteractIs ==
  ASSUME KernelTypes, NEW t \in Thread, NEW ok, Interact(t, ok)
  PROVE  \E b : rbag' = [rbag EXCEPT ![t] = b] /\ rbag'[t] = b
<1>1. PICK b : rbag' = [rbag EXCEPT ![t] = b]
  BY DEF Interact
<1>2. rbag'[t] = b
  BY <1>1 DEF KernelTypes
<1>. QED
  BY <1>1, <1>2

LEMMA StepIs ==
  ASSUME KernelTypes, NEW t \in Thread, Step(t)
  PROVE  /\ UNCHANGED <<stage, tick, hostVars>> /\ pc[t] \notin {"wait", "exit"}
         /\ \E b, l : /\ rbag' = [rbag EXCEPT ![t] = b] /\ pc' = [pc EXCEPT ![t] = l]
                      /\ pc[t] = "flush" /\ l # "flush" => b.hi = <<>>
         /\ \/ spawn' = spawn /\ pc[t] # "take"
            \/ spawn' = [spawn EXCEPT ![t] = FULL]
            \/ /\ pc[t] = "give"
               /\ \E cell : spawn' = [spawn EXCEPT ![t + span(tick[BID(t)])] = cell]
<1>1. CASE Load(t)
  BY <1>1, Zenon DEF Load, Goto
<1>2. CASE Save(t)
  BY <1>2, Zenon DEF Save, Goto
<1>3. CASE Take(t)
  BY <1>3, Zenon DEF Take, Goto
<1>4. CASE GiveFound(t) \/ GiveEmpty(t) \/ GiveStop(t)
  <2>1. PICK r, b : Offer(t, r, b)
    BY <1>4 DEF GiveFound, GiveEmpty, GiveStop
  <2>2. pc[t] = "give"
    BY <1>4 DEF GiveFound, GiveEmpty, GiveStop, Looking
  <2>3. /\ rbag' = [rbag EXCEPT ![t] = b] /\ pc' = [pc EXCEPT ![t] = "wait"]
        /\ UNCHANGED <<stage, tick, hostVars>>
    BY <2>1 DEF Offer, Goto
  <2>4. spawn' = spawn \/ \E cell : spawn' = [spawn EXCEPT ![t + span(tick[BID(t)])] = cell]
    BY <2>1 DEF Offer
  <2>. QED
    BY <2>2, <2>3, <2>4
<1>5. CASE GiveInteract(t) \/ WorkInteract(t) \/ HighInteract(t) \/ Flush(t)
  <2>1. PICK ok : Interact(t, ok)
    BY <1>5 DEF GiveInteract, WorkInteract, HighInteract, Flush
  <2>2. PICK b : rbag' = [rbag EXCEPT ![t] = b] /\ rbag'[t] = b
    BY <2>1, InteractIs
  <2>3. PICK l : /\ pc' = [pc EXCEPT ![t] = l]
                 /\ pc[t] = "flush" /\ l # "flush" => b.hi = <<>>
    BY <1>5, <2>2, Zenon DEF GiveInteract, WorkInteract, HighInteract, Flush, Goto, has_highs, Looking
  <2>4. UNCHANGED <<stage, tick, hostVars, spawn>> /\ pc[t] \in {"give", "work", "high", "flush"}
    BY <1>5 DEF GiveInteract, WorkInteract, HighInteract, Flush, Looking
  <2>. QED
    BY <2>2, <2>3, <2>4
<1>. QED
  BY <1>1, <1>2, <1>3, <1>4, <1>5 DEF Step

LEMMA CellsStep ==
  ASSUME KernelInv, KernelTypes', NEW t \in Thread, Step(t), \A u \in Thread : CellInv(u)
  PROVE  \A u \in Thread : CellInv(u)'
<1>1. KernelTypes /\ LabelInv(t) /\ BID(t) \in Block
  BY Grid DEF KernelInv
<1>2. UNCHANGED <<stage, tick>> /\ pc[t] \notin {"wait", "exit"}
  BY <1>1, StepIs DEF hostVars
<1>3. PICK b, l : /\ rbag' = [rbag EXCEPT ![t] = b] /\ pc' = [pc EXCEPT ![t] = l]
                  /\ pc[t] = "flush" /\ l # "flush" => b.hi = <<>>
  BY <1>1, StepIs
<1>4. /\ rbag'[t] = b /\ pc'[t] = l
      /\ \A u \in Thread \ {t} : rbag'[u] = rbag[u] /\ pc'[u] = pc[u]
  BY <1>1, <1>3 DEF KernelTypes
<1>5. ASSUME NEW u \in Thread
      PROVE  stage[BID(u)] \in {"flush", "exit"} /\ pc'[u] # "flush" => rbag'[u].hi = <<>>
  <2>1. CASE u = t
    <3>1. stage[BID(t)] \in {"flush", "exit"} => pc[t] = "flush"
      BY <1>1, <1>2 DEF LabelInv
    <3>. QED
      BY <1>3, <1>4, <2>1, <3>1
  <2>2. CASE u # t
    BY <1>4, <2>2 DEF CellInv
  <2>. QED
    BY <2>1, <2>2
<1>6. ASSUME NEW u \in Thread, spawn'[u] \notin {EMPTY, FULL}
      PROVE  \/ /\ stage[BID(u)] = "give"
                /\ span(tick[BID(u)]) <= TID(u) /\ TID(u) < 2 * span(tick[BID(u)])
             \/ stage[BID(u)] = "take" /\ pc'[u] = "take"
  <2>1. CASE spawn'[u] = spawn[u] /\ ~(u = t /\ pc[t] = "take")
    BY <1>4, <1>6, <2>1 DEF CellInv
  <2>2. CASE spawn' = [spawn EXCEPT ![t] = FULL]
    <3>1. u # t /\ spawn'[u] = spawn[u]
      BY <1>1, <1>6, <2>2 DEF KernelTypes
    <3>. QED
      BY <2>1, <3>1
  <2>3. CASE pc[t] = "give" /\ \E cell : spawn' = [spawn EXCEPT ![t + span(tick[BID(t)])] = cell]
    <3>1. PICK k : k = tick[BID(t)]
      OBVIOUS
    <3>2. stage[BID(t)] = "give"
      BY <1>1, <2>3 DEF LabelInv
    <3>3. k \in Nat /\ k < TPB_L2 /\ TID(t) < span(k)
      BY <1>1, <2>3, <3>1, <3>2 DEF LabelInv, KernelTypes, KernelInv, TickInv
    <3>4. PICK v \in Thread : v = t + span(k) /\ BID(v) = BID(t) /\ span(k) \in Nat \ {0}
      BY <3>3, Partner
    <3>5. PICK cell : spawn' = [spawn EXCEPT ![v] = cell]
      BY <2>3, <3>1, <3>4
    <3>6. CASE u # v
      <4>1. spawn'[u] = spawn[u]
        BY <1>1, <3>5, <3>6 DEF KernelTypes
      <4>. QED
        BY <2>1, <2>3, <4>1
    <3>7. CASE u = v
      <4>1. TID(v) = TID(t) + span(k)
        <5>1. PICK n \in Int, x \in Int, y \in Int :
                 n = TPB * BID(t) /\ x = TID(t) /\ y = TID(v) /\ t = n + x /\ v = n + y
          <6>1. BID(t) \in Int /\ TPB \in Int /\ TID(t) \in Int /\ TID(v) \in Int
            BY Grid, Sizes DEF Block
          <6>2. t = TPB * BID(t) + TID(t) /\ v = TPB * BID(t) + TID(v)
            BY <3>4, Grid
          <6>3. TPB * BID(t) \in Int
            BY <6>1
          <6>. QED
            BY <6>1, <6>2, <6>3
        <5>2. y = x + span(k)
          BY <3>4, <5>1
        <5>. QED
          BY <5>1, <5>2
      <4>2. TID(t) \in Nat
        BY Grid
      <4>3. span(k) <= TID(v) /\ TID(v) < 2 * span(k)
        BY <3>3, <3>4, <4>1, <4>2
      <4>. QED
        BY <3>1, <3>2, <3>4, <3>7, <4>3
    <3>. QED
      BY <3>6, <3>7
  <2>4. CASE spawn' = spawn /\ pc[t] # "take"
    BY <2>1, <2>4
  <2>. QED
    BY <1>1, <2>2, <2>3, <2>4, StepIs
<1>. QED
  BY <1>2, <1>5, <1>6 DEF CellInv

\* A thread that was given a redex takes it; one with high-priority redexes flushes.
LEMMA TaskTakes ==
  ASSUME NEW t \in Thread, NEW tk \in Nat, NEW sp, NEW rp, sp[t] \notin {EMPTY, FULL},
         span(tk) <= TID(t), TID(t) < 2 * span(tk)
  PROVE  Task(t, "take", tk, sp, rp) = "take"
<1>1. span(tk) \in Nat /\ TID(t) \in Nat
  BY Powers, Grid DEF span
<1>2. TID(t) \in span(tk) .. 2 * span(tk) - 1
  BY <1>1
<1>. QED
  BY <1>2 DEF Task

LEMMA TaskFlushes ==
  ASSUME NEW t \in Thread, NEW tk, NEW sp, NEW rp, Task(t, "flush", tk, sp, rp) # "flush"
  PROVE  rbag[t].hi = <<>>
BY DEF Task, has_highs

LEMMA CellsBarrier ==
  ASSUME KernelInv, KernelTypes', NEW b \in Block, Barrier(b), \A u \in Thread : CellInv(u)
  PROVE  \A u \in Thread : CellInv(u)'
<1>1. KernelTypes
  BY DEF KernelInv
<1>2. rbag' = rbag
  BY BarrierIs
<1>3. PICK from, stg, tk :
         /\ Sync(b, from) /\ Proceed(b, stg, tk, spawn', rpos')
         /\ \/ /\ from = "load" /\ stg \in {"work", "give", "exit"}
               /\ stg = "exit" => \A t \in Threads(b) : rbag_len(rbag[t]) = 0
               /\ spawn' = [t \in Thread |-> IF BID(t) # b THEN spawn[t]
                              ELSE IF rbag_len(rbag[t]) > 0 THEN FULL ELSE EMPTY]
            \/ from = "give" /\ stg = "take" /\ tk = tick[b] /\ spawn' = spawn
            \/ from = "take" /\ stg \in {"give", "save"} /\ spawn' = spawn
            \/ from = "work" /\ stg \in {"work", "save"} /\ spawn' = spawn
            \/ from = "save" /\ stg = "flush" /\ spawn' = spawn
            \/ from = "flush" /\ stg = "exit" /\ spawn' = spawn
  BY BarrierIs
<1>4. /\ stage[b] = from /\ \A t \in Thread : BID(t) = b => pc[t] = "wait" /\ t \in Threads(b)
  BY <1>3 DEF Sync, Threads
<1>5. /\ stage' = [stage EXCEPT ![b] = stg] /\ tick' = [tick EXCEPT ![b] = tk]
      /\ pc' = [t \in Thread |-> IF BID(t) = b THEN Task(t, stg, tk, spawn', rpos') ELSE pc[t]]
  BY <1>3 DEF Proceed
<1>6. ASSUME NEW u \in Thread, BID(u) # b PROVE CellInv(u)'
  <2>1. spawn'[u] = spawn[u] /\ pc'[u] = pc[u]
    BY <1>3, <1>5, <1>6
  <2>2. stage'[BID(u)] = stage[BID(u)] /\ tick'[BID(u)] = tick[BID(u)]
    BY <1>1, <1>5, <1>6, Grid DEF KernelTypes
  <2>. QED
    BY <1>2, <2>1, <2>2 DEF CellInv
<1>7. ASSUME NEW u \in Thread, BID(u) = b PROVE CellInv(u)'
  <2>1. stage'[b] = stg /\ tick'[b] = tk /\ pc'[u] = Task(u, stg, tk, spawn', rpos')
    BY <1>1, <1>5, <1>7 DEF KernelTypes
  <2>2. stage[BID(u)] = from /\ pc[u] = "wait" /\ u \in Threads(b) /\ CellInv(u)
    BY <1>4, <1>7
  <2>3. ASSUME spawn'[u] \notin {EMPTY, FULL}
        PROVE  /\ from = "give" /\ stg = "take" /\ tk = tick[b] /\ spawn'[u] = spawn[u]
               /\ span(tk) <= TID(u) /\ TID(u) < 2 * span(tk)
    <3>1. from # "load"
      BY <1>3, <1>7, <2>3
    <3>2. spawn' = spawn
      BY <1>3, <3>1
    <3>3. from = "give" /\ span(tick[b]) <= TID(u) /\ TID(u) < 2 * span(tick[b])
      BY <1>7, <2>2, <2>3, <3>2 DEF CellInv
    <3>. QED
      BY <1>3, <3>2, <3>3
  <2>4. spawn'[u] \notin {EMPTY, FULL} => stg = "take" /\ pc'[u] = "take"
    <3>1. tick[b] \in Nat
      BY <1>1 DEF KernelTypes
    <3>. QED
      BY <2>1, <2>3, <3>1, TaskTakes
  <2>5. stg \in {"flush", "exit"} /\ pc'[u] # "flush" => rbag[u].hi = <<>>
    <3>1. CASE from = "load" /\ stg = "exit"
      <4>1. rbag_len(rbag[u]) = 0 /\ rbag[u] \in Bag
        BY <1>1, <1>3, <2>2, <3>1 DEF KernelTypes
      <4>2. rbag[u] = NoRedexes
        BY <4>1, HasSome
      <4>. QED
        BY <4>2 DEF NoRedexes
    <3>2. CASE stg = "flush"
      BY <2>1, <3>2, TaskFlushes
    <3>3. CASE from = "flush"
      BY <2>2, <3>3 DEF CellInv
    <3>. QED
      BY <1>3, <3>1, <3>2, <3>3
  <2>. QED
    BY <1>2, <1>7, <2>1, <2>4, <2>5 DEF CellInv
<1>. QED
  BY <1>6, <1>7

\* A barrier at most clears cells that offer nothing.
LEMMA BarrierMoves ==
  ASSUME KernelInv, KernelTypes', NEW b \in Block, Barrier(b), \A u \in Thread : CellInv(u)
  PROVE  Still
<1>1. KernelTypes
  BY DEF KernelInv
<1>2. UNCHANGED <<bags, rbag, done, boots>>
  BY BarrierIs DEF hostVars
<1>3. ASSUME NEW u \in Thread, NEW r PROVE InCell(spawn'[u], r) = InCell(spawn[u], r)
  <2>1. CASE spawn'[u] = spawn[u]
    BY <2>1
  <2>2. CASE spawn'[u] # spawn[u]
    <3>1. /\ BID(u) = b /\ stage[b] = "load"
          /\ spawn' = [t \in Thread |-> IF BID(t) # b THEN spawn[t]
                         ELSE IF rbag_len(rbag[t]) > 0 THEN FULL ELSE EMPTY]
      BY <2>2, BarrierIs DEF Sync
    <3>2. spawn'[u] \in {EMPTY, FULL}
      BY <3>1
    <3>3. spawn[u] \in {EMPTY, FULL}
      BY <3>1 DEF CellInv
    <3>. QED
      BY <3>2, <3>3 DEF InCell
  <2>. QED
    BY <2>1, <2>2
<1>4. ASSUME NEW r PROVE Copies(r)' = Copies(r)
  <2>1. Offers(spawn', r) = Offers(spawn, r)
    BY <1>3 DEF Offers
  <2>2. /\ Copies(r) = Places(bags[0], bags[1], rbag, spawn, r)
        /\ Copies(r)' = Places(bags'[0], bags'[1], rbag', spawn', r)
    BY <1>1, CopiesAre, CopiesNext DEF CopiesPlaced
  <2>. QED
    BY <1>2, <2>1, <2>2 DEF Places
<1>. QED
  BY <1>2, <1>4 DEF Still

\* Nothing moves in a step that leaves every place alone.
LEMMA RestsMoves ==
  ASSUME KernelTypes, KernelTypes', UNCHANGED <<bags, rbag, spawn, done, boots>>
  PROVE  Still
<1>1. ASSUME NEW r PROVE Copies(r)' = Copies(r)
  <2>1. /\ Copies(r) = Places(bags[0], bags[1], rbag, spawn, r)
        /\ Copies(r)' = Places(bags'[0], bags'[1], rbag', spawn', r)
    BY CopiesAre, CopiesNext DEF CopiesPlaced
  <2>. QED
    BY <2>1
<1>. QED
  BY <1>1 DEF Still

\* A launch finds the bags of the threads empty, so it drops nothing when it clears them.
LEMMA LaunchFinds ==
  ASSUME KernelInv, RestInv, AllSaved, \A u \in Thread : CellInv(u),
         NEW buf, NEW trn, Launch(buf, trn)
  PROVE  /\ UNCHANGED <<rbag, spawn>>
         /\ \A u \in Thread : CellInv(u)'
<1>1. KernelTypes
  BY DEF KernelInv
<1>2. /\ rbag' = [t \in Thread |-> NoRedexes] /\ spawn' = spawn
      /\ stage' = [c \in Block |-> "load"]
  BY DEF Launch
<1>3. ASSUME NEW u \in Thread
      PROVE  rbag[u] = NoRedexes /\ spawn[u] \in {EMPTY, FULL} /\ BID(u) \in Block
  <2>1. BID(u) \in Block /\ stage[BID(u)] = "exit" /\ LabelInv(u) /\ CellInv(u)
    BY Grid DEF RestInv, KernelInv
  <2>2. rbag[u].hi = <<>> /\ spawn[u] \in {EMPTY, FULL}
    BY <2>1 DEF LabelInv, CellInv
  <2>3. rbag[u].lo = <<>>
    BY <2>1 DEF AllSaved
  <2>4. rbag[u] \in Bag
    BY <1>1 DEF KernelTypes
  <2>. QED
    BY <2>1, <2>2, <2>3, <2>4 DEF Bag, NoRedexes
<1>4. rbag' = rbag
  BY <1>1, <1>2, <1>3 DEF KernelTypes
<1>5. \A u \in Thread : CellInv(u)'
  BY <1>2, <1>3 DEF CellInv
<1>. QED
  BY <1>2, <1>4, <1>5

LEMMA BootMoves ==
  ASSUME KernelInv, KernelTypes', BootInv, RoundInv, AllSaved, \A u \in Thread : CellInv(u), Boot
  PROVE  Starts /\ \A u \in Thread : CellInv(u)'
<1>1. KernelTypes /\ turn \in {0, 1}
  BY DEF KernelInv, KernelTypes
<1>2. PICK first, buf :
        /\ first = [redex |-> Boots[boots + 1], par |-> FALSE, local |-> FALSE]
        /\ buf = [bags EXCEPT ![turn][0] = IF @ = <<>> THEN <<first>> ELSE [@ EXCEPT ![1] = first]]
        /\ bags' = buf /\ Launch(buf, turn) /\ host = "boot"
        /\ boots' = boots + 1 /\ done' = done
  BY DEF Boot
<1>3. RestInv /\ 0 \in Thread
  <2>1. 0 \in Thread
    <3>1. PICK T \in Nat \ {0}, B \in Nat \ {0} : T = TPB /\ B = BPG
      BY Sizes
    <3>2. T * B \in Nat \ {0}
      BY <3>1
    <3>. QED
      BY <3>1, <3>2 DEF Thread
  <2>. QED
    BY <1>2, <2>1 DEF RoundInv
<1>4. UNCHANGED <<rbag, spawn>> /\ \A u \in Thread : CellInv(u)'
  BY <1>2, <1>3, LaunchFinds
<1>5. bags[turn][0] = <<>>
  BY <1>2, <1>3 DEF RestInv, NoBags
<1>6. /\ bags'[1 - turn] = bags[1 - turn] /\ \A v \in Thread \ {0} : bags'[turn][v] = bags[turn][v]
      /\ bags'[turn][0] = <<first>>
  <2>1. PICK f \in [Thread -> Seq(Entries)] : f = bags[turn]
    BY <1>1 DEF KernelTypes
  <2>2. PICK g : g = [f EXCEPT ![0] = IF @ = <<>> THEN <<first>> ELSE [@ EXCEPT ![1] = first]]
    OBVIOUS
  <2>3. g = [f EXCEPT ![0] = <<first>>]
    BY <1>5, <2>1, <2>2
  <2>4. bags' = [bags EXCEPT ![turn] = g]
    BY <1>2, <2>1, <2>2
  <2>5. bags'[1 - turn] = bags[1 - turn] /\ bags'[turn] = g
    BY <1>1, <2>4 DEF KernelTypes
  <2>. QED
    BY <1>3, <2>1, <2>3, <2>5
<1>7. first \in Entries /\ first.redex = Boots[boots + 1]
  <2>1. boots + 1 \in 1 .. Len(Boots)
    BY <1>2, CudaAssumption, SMTT(30) DEF BootInv
  <2>2. Boots[boots + 1] \in Redex
    BY <2>1, CudaAssumption
  <2>. QED
    BY <1>2, <2>2 DEF Entries
<1>8. ASSUME NEW r \in Redex
      PROVE  Copies(r)' = Copies(r) + (IF r = Boots[boots + 1] THEN 1 ELSE 0)
  <2>1. PICK z \in Thread : z = 0
    BY <1>3
  <2>2. Occurs(<<first>>, r) = One(first, r)
    <3>1. Append(<<>>, first) = <<first>> /\ <<>> \in Seq(Entries)
      BY <1>7
    <3>2. Occurs(Append(<<>>, first), r) = Occurs(<<>>, r) + One(first, r)
      BY <1>7, <3>1, OccursAppend
    <3>. QED
      BY <3>1, <3>2, OccursEmpty, OneNat
  <2>3. /\ Copies(r) \in Nat /\ Copies(r)' \in Nat
        /\ Copies(r)' + Occurs(bags[turn][z], r) + InBag(rbag[z], r) + InCell(spawn[z], r)
         = Copies(r) + Occurs(bags'[turn][z], r) + InBag(rbag'[z], r) + InCell(spawn'[z], r)
    BY <1>1, <1>4, <1>6, <2>1, CopiesMove
  <2>4. PICK x \in Nat, y \in Nat : x = InBag(rbag[z], r) /\ y = InCell(spawn[z], r)
    BY <1>1, <2>1, CountsNat
  <2>5. Occurs(bags[turn][z], r) = 0 /\ Occurs(bags'[turn][z], r) = One(first, r)
    BY <1>5, <1>6, <2>1, <2>2, OccursEmpty
  <2>6. InBag(rbag'[z], r) = x /\ InCell(spawn'[z], r) = y
    BY <1>4, <2>4
  <2>7. Copies(r)' = Copies(r) + One(first, r)
    <3>1. PICK c \in Nat, d \in Nat, e \in Nat :
            c = Copies(r) /\ d = Copies(r)' /\ e = One(first, r)
      BY <2>3, OneNat
    <3>2. d + 0 + x + y = c + e + x + y
      BY <2>3, <2>4, <2>5, <2>6, <3>1
    <3>. QED
      BY <3>1, <3>2
  <2>. QED
    BY <1>7, <2>7 DEF One
<1>. QED
  BY <1>2, <1>4, <1>8 DEF Starts

\* A call of gnet_normalize is running.
Running == host \in {"kernel", "check"}

\* What a step does.
LEMMA NextMoves ==
  ASSUME KernelInv, KernelTypes', BootInv, RoundInv, Orderly, \A u \in Thread : CellInv(u),
         [Next]_vars
  PROVE  /\ \A u \in Thread : CellInv(u)'
         /\ \/ Still /\ (Running' => Running)
            \/ (\E q : Reduces(q)) /\ Running' = Running
            \/ host = "boot" /\ Running' /\ Starts
<1>1. KernelTypes
  BY DEF KernelInv
<1>2. CASE \E t \in Thread : Step(t)
  <2>1. PICK t \in Thread : Step(t)
    BY <1>2
  <2>2. host' = host
    BY <1>1, <2>1, StepIs DEF hostVars
  <2>3. Still \/ \E q : Reduces(q)
    BY <2>1, StepMoves DEF Orderly
  <2>4. \A u \in Thread : CellInv(u)'
    BY <2>1, CellsStep
  <2>. QED
    BY <2>2, <2>3, <2>4 DEF Running
<1>3. CASE \E b \in Block : Barrier(b)
  <2>1. PICK b \in Block : Barrier(b)
    BY <1>3
  <2>2. host' = host
    BY <2>1, BarrierIs DEF hostVars
  <2>. QED
    BY <2>1, <2>2, BarrierMoves, CellsBarrier DEF Running
<1>4. CASE Boot
  <2>1. host = "boot" /\ host' = "kernel"
    BY <1>4 DEF Boot, Launch
  <2>. QED
    BY <1>4, <2>1, BootMoves DEF Orderly, Running
<1>5. CASE Again
  <2>1. /\ Launch(bags, turn) /\ host = "check" /\ UNCHANGED <<bags, done, boots>>
    BY <1>5 DEF Again, netVars
  <2>2. RestInv
    BY <2>1 DEF RoundInv
  <2>3. UNCHANGED <<rbag, spawn>> /\ \A u \in Thread : CellInv(u)'
    BY <2>1, <2>2, LaunchFinds DEF Orderly
  <2>. QED
    BY <1>1, <2>1, <2>3, RestsMoves DEF Running
<1>6. CASE Inbetween \/ Return \/ UNCHANGED vars
  <2>1. UNCHANGED <<bags, rbag, spawn, done, boots, stage, tick, pc>> /\ (Running' => Running)
    BY <1>6 DEF Inbetween, Return, vars, netVars, hostVars, threadVars, Running
  <2>2. \A u \in Thread : CellInv(u)'
    BY <2>1 DEF CellInv
  <2>. QED
    BY <1>1, <2>1, <2>2, RestsMoves
<1>. QED
  BY <1>2, <1>3, <1>4, <1>5, <1>6 DEF Next, Host

\* No place holds a redex.
LEMMA NowhereCounts ==
  ASSUME KernelTypes, bags[0] = NoBags, bags[1] = NoBags,
         \A t \in Thread : rbag[t] = NoRedexes /\ spawn[t] \in {EMPTY, FULL}
  PROVE  \A r : Copies(r) = 0
<1>. SUFFICES ASSUME NEW r PROVE Copies(r) = 0
  OBVIOUS
<1>1. Copies(r) = Places(bags[0], bags[1], rbag, spawn, r)
  BY CopiesAre DEF CopiesPlaced
<1>2. NoBags \in [Thread -> Seq(Entries)]
  BY DEF NoBags
<1>3. PICK f \in [Thread -> Nat], g \in [Thread -> Nat], h \in [Thread -> Nat] :
        f = Stores(NoBags, r) /\ g = Keeps(rbag, r) /\ h = Offers(spawn, r)
  BY <1>2, PlacesNat DEF KernelTypes
<1>4. ASSUME NEW t \in Thread PROVE f[t] = 0 /\ g[t] = 0 /\ h[t] = 0
  <2>1. f[t] = 0
    BY <1>3, OccursEmpty DEF Stores, NoBags
  <2>2. g[t] = 0
    BY <1>3, OccursEmpty DEF Keeps, InBag, NoRedexes
  <2>3. h[t] = 0
    BY <1>3 DEF Offers, InCell
  <2>. QED
    BY <2>1, <2>2, <2>3
<1>5. Total(f, Thread) = 0 /\ Total(g, Thread) = 0 /\ Total(h, Thread) = 0
  BY <1>4, ThreadsFinite, TotalAtLeast
<1>. QED
  BY <1>1, <1>3, <1>5 DEF Places

-----------------------------------------------------------------------------
(* Each redex that is born and not reduced is in one place.                *)

HoldInv ==
  /\ \A t \in Thread : CellInv(t)
  /\ Conserved
  /\ done \subseteq Born /\ Born \subseteq Redex

LEMMA InitHold == Init => HoldInv
<1>. SUFFICES ASSUME Init PROVE HoldInv
  OBVIOUS
<1>1. KernelTypes
  BY InitKernel DEF KernelInv
<1>2. /\ \A t \in Thread : rbag[t] = NoRedexes /\ spawn[t] = EMPTY
      /\ \A k \in {0, 1} : bags[k] = NoBags
      /\ done = {} /\ boots = 0
  BY DEF Init, NoBags
<1>3. \A t \in Thread : CellInv(t)
  BY <1>2 DEF CellInv, NoRedexes
<1>4. \A r : Copies(r) = 0
  BY <1>1, <1>2, NowhereCounts
<1>5. Born = {}
  BY <1>2 DEF Born
<1>. QED
  BY <1>2, <1>3, <1>4, <1>5 DEF HoldInv, Conserved

\* Nothing is born twice (the assumption on the program).
LEMMA BornAnew ==
  ASSUME BootInv, done \subseteq Redex
  PROVE  /\ host = "boot" => /\ Boots[boots + 1] \in Redex \ Born
         /\ \A q \in Redex \ done : Range(Spawn[q]) \subseteq Redex \ Born
<1>1. boots \in Nat /\ boots <= Len(Boots) /\ Boots \in Seq(Redex)
  BY CudaAssumption DEF BootInv
<1>2. DOMAIN Boots = 1 .. Len(Boots) /\ Len(Boots) \in Nat
  BY <1>1
<1>3. ASSUME NEW q \in Redex, NEW x \in Range(Spawn[q])
      PROVE  x \in Redex /\ \E k \in DOMAIN Spawn[q] : x = Spawn[q][k]
  <2>1. PICK k \in DOMAIN Spawn[q] : x = Spawn[q][k]
    BY DEF Range
  <2>2. Spawn[q] \in Seq(Redex)
    BY CudaAssumption
  <2>. QED
    BY <2>1, <2>2
<1>4. ASSUME host = "boot" PROVE Boots[boots + 1] \in Redex \ Born
  <2>1. boots + 1 \in 1 .. Len(Boots)
    BY <1>1, <1>4 DEF BootInv
  <2>2. Boots[boots + 1] \in Redex
    BY <1>1, <2>1
  <2>3. \A n \in 1 .. boots : Boots[n] # Boots[boots + 1]
    <3>. SUFFICES ASSUME NEW n \in 1 .. boots, Boots[n] = Boots[boots + 1] PROVE FALSE
      OBVIOUS
    <3>1. n \in DOMAIN Boots /\ boots + 1 \in DOMAIN Boots /\ n # boots + 1
      BY <1>1, <1>2, <2>1
    <3>. QED
      BY <3>1, BirthAssumption
  <2>4. \A p \in done : Boots[boots + 1] \notin Range(Spawn[p])
    <3>1. Boots[boots + 1] \in Range(Boots)
      BY <1>2, <2>1 DEF Range
    <3>. QED
      BY <1>3, <3>1, BirthAssumption
  <2>. QED
    BY <2>2, <2>3, <2>4 DEF Born
<1>5. ASSUME NEW q \in Redex \ done, NEW x \in Range(Spawn[q]) PROVE x \in Redex \ Born
  <2>1. PICK k \in DOMAIN Spawn[q] : x = Spawn[q][k]
    BY <1>3
  <2>2. \A n \in 1 .. boots : Boots[n] # x
    <3>1. \A n \in 1 .. boots : Boots[n] \in Range(Boots)
      BY <1>1, <1>2 DEF Range
    <3>. QED
      BY <2>1, <3>1, BirthAssumption
  <2>3. \A p \in done : x \notin Range(Spawn[p])
    <3>. SUFFICES ASSUME NEW p \in done, x \in Range(Spawn[p]) PROVE FALSE
      OBVIOUS
    <3>1. PICK l \in DOMAIN Spawn[p] : x = Spawn[p][l]
      BY <1>3
    <3>2. p = q
      BY <2>1, <3>1, BirthAssumption
    <3>. QED
      BY <1>5, <3>2
  <2>4. x \in Redex
    BY <1>3
  <2>. QED
    BY <2>2, <2>3, <2>4 DEF Born
<1>. QED
  BY <1>4, <1>5

\* What is born and reduced, after a step.
LEMMA StillHolds ==
  ASSUME HoldInv, Still
  PROVE  Born' = Born /\ done' = done /\ Conserved'
<1>1. done' = done /\ boots' = boots /\ \A r \in Redex : Copies(r)' = Copies(r)
  BY DEF Still
<1>2. Born' = Born
  BY <1>1 DEF Born
<1>3. Conserved'
  BY <1>1, <1>2 DEF HoldInv, Conserved
<1>. QED
  BY <1>1, <1>2, <1>3

LEMMA ReducedHolds ==
  ASSUME HoldInv, BootInv, NEW q, Reduces(q)
  PROVE  /\ q \in Born \ done /\ done' = done \cup {q} /\ Born' = Born \cup Range(Spawn[q])
         /\ Range(Spawn[q]) \subseteq Redex \ Born
         /\ Conserved'
<1>1. q \in Redex /\ done' = done \cup {q} /\ boots' = boots /\ done \subseteq Redex
  BY DEF Reduces, HoldInv
<1>2. q \in Born \ done
  <2>1. Copies(q) >= 1
    BY DEF Reduces
  <2>2. Copies(q) = IF q \in Born \ done THEN 1 ELSE 0
    BY <1>1 DEF HoldInv, Conserved
  <2>. QED
    BY <2>1, <2>2
<1>3. Range(Spawn[q]) \subseteq Redex \ Born
  BY <1>1, <1>2, BornAnew
<1>4. Born' = Born \cup Range(Spawn[q])
  BY <1>1 DEF Born
<1>5. ASSUME NEW r \in Redex
      PROVE  Copies(r)' = IF r \in (Born \ done)' THEN 1 ELSE 0
  <2>1. Copies(r) = IF r \in Born \ done THEN 1 ELSE 0
    BY DEF HoldInv, Conserved
  <2>2. Copies(r)' + (IF r = q THEN 1 ELSE 0)
          = Copies(r) + (IF r \in Range(Spawn[q]) THEN 1 ELSE 0)
    BY DEF Reduces
  <2>3. Copies(r)' \in Int
    BY DEF Reduces
  <2>4. done \subseteq Born
    BY DEF HoldInv
  <2>5. CASE r = q
    <3>1. Copies(r)' + 1 = 1 + 0
      BY <1>2, <1>3, <2>1, <2>2, <2>5
    <3>2. r \notin (Born \ done)'
      BY <1>1, <2>5
    <3>. QED
      BY <2>3, <3>1, <3>2
  <2>6. CASE r \in Range(Spawn[q]) /\ r # q
    <3>1. Copies(r)' + 0 = 0 + 1
      BY <1>3, <2>1, <2>2, <2>6
    <3>2. r \in (Born \ done)'
      BY <1>1, <1>3, <1>4, <2>4, <2>6
    <3>. QED
      BY <2>3, <3>1, <3>2
  <2>7. CASE r \notin Range(Spawn[q]) /\ r # q
    <3>1. Copies(r)' + 0 = Copies(r) + 0
      BY <2>2, <2>7
    <3>2. r \in (Born \ done)' <=> r \in Born \ done
      BY <1>1, <1>4, <2>7
    <3>. QED
      BY <2>1, <2>3, <3>1, <3>2
  <2>. QED
    BY <2>5, <2>6, <2>7
<1>6. Conserved'
  BY <1>5 DEF Conserved
<1>. QED
  BY <1>1, <1>2, <1>3, <1>4, <1>6

LEMMA StartedHolds ==
  ASSUME HoldInv, BootInv, host = "boot", Starts
  PROVE  /\ Boots[boots + 1] \in Redex \ Born /\ done' = done
         /\ Born' = Born \cup {Boots[boots + 1]} /\ Conserved'
<1>1. done' = done /\ boots' = boots + 1 /\ done \subseteq Born /\ done \subseteq Redex
  BY DEF Starts, HoldInv
<1>2. Boots[boots + 1] \in Redex \ Born
  BY <1>1, BornAnew
<1>3. Born' = Born \cup {Boots[boots + 1]}
  <2>1. boots \in Nat
    BY CudaAssumption DEF BootInv
  <2>2. 1 .. boots + 1 = (1 .. boots) \cup {boots + 1}
    BY <2>1
  <2>. QED
    BY <1>1, <2>2 DEF Born
<1>4. ASSUME NEW r \in Redex
      PROVE  Copies(r)' = IF r \in (Born \ done)' THEN 1 ELSE 0
  <2>1. Copies(r) = IF r \in Born \ done THEN 1 ELSE 0
    BY DEF HoldInv, Conserved
  <2>2. Copies(r)' = Copies(r) + (IF r = Boots[boots + 1] THEN 1 ELSE 0)
    BY DEF Starts
  <2>3. r \in (Born \ done)' <=> r \in Born \ done \/ r = Boots[boots + 1]
    BY <1>1, <1>2, <1>3
  <2>. QED
    BY <1>2, <2>1, <2>2, <2>3
<1>5. Conserved'
  BY <1>4 DEF Conserved
<1>. QED
  BY <1>1, <1>2, <1>3, <1>5

LEMMA NextHold ==
  KernelInv /\ KernelTypes' /\ BootInv /\ RoundInv /\ Orderly /\ HoldInv /\ [Next]_vars
    => HoldInv'
<1>. SUFFICES ASSUME KernelInv, KernelTypes', BootInv, RoundInv, Orderly, HoldInv, [Next]_vars
              PROVE  HoldInv'
  OBVIOUS
<1>1. done \subseteq Born /\ Born \subseteq Redex /\ \A t \in Thread : CellInv(t)
  BY DEF HoldInv
<1>2. /\ \A t \in Thread : CellInv(t)'
      /\ Still \/ (\E q : Reduces(q)) \/ (host = "boot" /\ Starts)
  BY <1>1, NextMoves
<1>3. CASE Still
  BY <1>1, <1>2, <1>3, StillHolds DEF HoldInv
<1>4. CASE \E q : Reduces(q)
  <2>1. PICK q : Reduces(q)
    BY <1>4
  <2>2. /\ q \in Born /\ done' = done \cup {q} /\ Born' = Born \cup Range(Spawn[q])
        /\ Range(Spawn[q]) \subseteq Redex /\ Conserved'
    BY <2>1, ReducedHolds
  <2>. QED
    BY <1>1, <1>2, <2>2 DEF HoldInv
<1>5. CASE host = "boot" /\ Starts
  BY <1>1, <1>2, <1>5, StartedHolds DEF HoldInv
<1>. QED
  BY <1>2, <1>3, <1>4, <1>5

\* When gnet_normalize returns, no place holds a redex.
LEMMA RestEmpties ==
  ASSUME KernelInv, RoundInv, AllSaved, HoldInv, ~Running
  PROVE  NothingLeft /\ Born = done
<1>1. KernelTypes /\ turn \in {0, 1}
  BY DEF KernelInv, KernelTypes
<1>2. RestInv /\ host # "check"
  BY DEF RoundInv, Running
<1>3. bags[0] = NoBags /\ bags[1] = NoBags
  BY <1>1, <1>2 DEF RestInv
<1>4. ASSUME NEW t \in Thread PROVE rbag[t] = NoRedexes /\ spawn[t] \in {EMPTY, FULL}
  <2>1. stage[BID(t)] = "exit" /\ LabelInv(t) /\ CellInv(t)
    BY <1>2, Grid DEF RestInv, KernelInv, HoldInv
  <2>2. rbag[t].hi = <<>> /\ spawn[t] \in {EMPTY, FULL}
    BY <2>1 DEF LabelInv, CellInv
  <2>3. rbag[t].lo = <<>>
    BY <2>1 DEF AllSaved
  <2>4. rbag[t] \in Bag
    BY <1>1 DEF KernelTypes
  <2>. QED
    BY <2>2, <2>3, <2>4 DEF Bag, NoRedexes
<1>5. \A r : Copies(r) = 0
  BY <1>1, <1>3, <1>4, NowhereCounts
<1>6. ASSUME NEW r \in Born PROVE r \in done
  <2>1. r \in Redex
    BY DEF HoldInv
  <2>2. Copies(r) = IF r \in Born \ done THEN 1 ELSE 0
    BY <2>1 DEF HoldInv, Conserved
  <2>. QED
    BY <1>5, <2>2
<1>. QED
  BY <1>6 DEF NothingLeft, HoldInv

\* However blocks and threads interleave, a redex that is born and not yet reduced
\* is in exactly one place, from the global bag it is loaded from to the one it is
\* saved to (hvm.cu:1426-1483, 1551-1758): none is lost or reduced twice, in runs in
\* which no stale redex is offered, host and device agree on the turn and
\* save_redexes leaves no redex in a thread.
THEOREM RedexesConserved == Spec /\ []Orderly => []Conserved
<1>1. Init => RoundInv /\ HoldInv
  BY InitRound, InitHold
<1>2. KernelInv /\ KernelInv' /\ BootInv /\ Orderly /\ (RoundInv /\ HoldInv) /\ [Next]_vars
      => (RoundInv /\ HoldInv)'
  BY NextRound, NextHold DEF KernelInv, Orderly
<1>3. HoldInv => Conserved
  BY DEF HoldInv
<1>. QED
  BY <1>1, <1>2, <1>3, KernelInvariant, PTL DEF Spec

\* In those runs gnet_normalize returns, to boot again or for good, only when every
\* redex has been reduced (hvm.cu:1810-1838).
THEOREM ReturnsEmpty == Spec /\ []Orderly => []NothingLeft
<1>1. Init => RoundInv /\ HoldInv
  BY InitRound, InitHold
<1>2. KernelInv /\ KernelInv' /\ BootInv /\ Orderly /\ (RoundInv /\ HoldInv) /\ [Next]_vars
      => (RoundInv /\ HoldInv)'
  BY NextRound, NextHold DEF KernelInv, Orderly
<1>3. KernelInv /\ RoundInv /\ Orderly /\ HoldInv => NothingLeft
  BY RestEmpties DEF Orderly, NothingLeft, Running
<1>. QED
  BY <1>1, <1>2, <1>3, KernelInvariant, PTL DEF Spec

-----------------------------------------------------------------------------
(* The kernel implements the pool of redexes.                              *)

CudaPoolEmpty == ~Running => Born = done

LEMMA CudaPoolInit == Init => Pool!Init
BY DEF Init, Pool!Init, Born

LEMMA CudaPoolStep ==
  ASSUME KernelInv, KernelInv', BootInv, RoundInv, HoldInv, Orderly,
         CudaPoolEmpty, CudaPoolEmpty', [Next]_vars
  PROVE  [Pool!Next]_<<Born \ done, done, host \in {"kernel", "check"}>>
<1>1. \/ Still /\ (Running' => Running)
      \/ (\E q : Reduces(q)) /\ Running' = Running
      \/ host = "boot" /\ Running' /\ Starts
  <2>1. KernelTypes'
    BY DEF KernelInv
  <2>2. \A u \in Thread : CellInv(u)
    BY DEF HoldInv
  <2>. QED
    BY <2>1, <2>2, NextMoves
<1>2. CASE Still /\ (Running' => Running)
  <2>1. Born' = Born /\ done' = done
    BY <1>2, StillHolds
  <2>2. CASE Running' = Running
    BY <2>1, <2>2 DEF Running
  <2>3. CASE Running' # Running
    <3>1. Running /\ ~Running'
      BY <1>2, <2>3 DEF Running
    <3>2. Born' = done'
      BY <3>1 DEF CudaPoolEmpty
    <3>3. Pool!Return
      BY <2>1, <3>1, <3>2 DEF Pool!Return, Running
    <3>. QED
      BY <3>3 DEF Pool!Next
  <2>. QED
    BY <2>2, <2>3
<1>3. CASE (\E q : Reduces(q)) /\ Running' = Running
  <2>1. PICK q : Reduces(q)
    BY <1>3
  <2>2. /\ q \in Born \ done /\ done' = done \cup {q} /\ Born' = Born \cup Range(Spawn[q])
        /\ Range(Spawn[q]) \subseteq Redex \ Born
    BY <2>1, ReducedHolds
  <2>3. done \subseteq Born /\ q \in Redex
    BY <2>2 DEF HoldInv
  <2>4. (Born \ done)' = ((Born \ done) \ {q}) \cup Range(Spawn[q])
    BY <2>2, <2>3
  <2>5. [r \in Redex |-> Range(Spawn[r])][q] = Range(Spawn[q])
    BY <2>3
  <2>6. Pool!Reduce(q)
    BY <1>3, <2>2, <2>4, <2>5 DEF Pool!Reduce, Running
  <2>. QED
    BY <2>3, <2>6 DEF Pool!Next
<1>4. CASE host = "boot" /\ Running' /\ Starts
  <2>1. PICK r \in Redex : r = Boots[boots + 1] /\ r \notin Born /\ done' = done
                           /\ Born' = Born \cup {r}
    BY <1>4, StartedHolds
  <2>2. ~Running /\ Born = done
    BY <1>4 DEF Running, CudaPoolEmpty
  <2>3. (Born \ done)' = {r} /\ r \notin done
    BY <2>1, <2>2
  <2>4. Pool!Boot(r)
    BY <1>4, <2>1, <2>2, <2>3 DEF Pool!Boot, Running
  <2>. QED
    BY <2>4 DEF Pool!Next
<1>. QED
  BY <1>1, <1>2, <1>3, <1>4

\* In those runs the kernels, the launches and the host together do what the pool
\* promises: each redex is reduced once, and the redexes it pushes join the pool
\* (hvm.cu:1551-1758, 1810-1838).
THEOREM KernelImplementsPool == Spec /\ []Orderly => ImplementsPool
<1>1. Init => RoundInv /\ HoldInv
  BY InitRound, InitHold
<1>2. KernelInv /\ KernelInv' /\ BootInv /\ Orderly /\ (RoundInv /\ HoldInv) /\ [Next]_vars
      => (RoundInv /\ HoldInv)'
  BY NextRound, NextHold DEF KernelInv, Orderly
<1>3. KernelInv /\ RoundInv /\ Orderly /\ HoldInv => CudaPoolEmpty
  BY RestEmpties DEF Orderly, CudaPoolEmpty
<1>4. /\ KernelInv /\ KernelInv' /\ BootInv /\ (RoundInv /\ HoldInv) /\ Orderly
      /\ CudaPoolEmpty /\ CudaPoolEmpty' /\ [Next]_vars
      => [Pool!Next]_<<Born \ done, done, host \in {"kernel", "check"}>>
  BY CudaPoolStep
<1>. QED
  BY <1>1, <1>2, <1>3, <1>4, CudaPoolInit, KernelInvariant, PTL DEF Spec, ImplementsPool, Pool!Spec

\* In the first call of gnet_normalize host and device do agree: what is left to ask
\* of a run is that no stale redex is offered, and none is left in a thread.
THEOREM FirstConserved ==
  Spec /\ [](NoneStale /\ AllSaved) => [](boots <= 1 => Conserved /\ NothingLeft)
<1>. DEFINE I == boots <= 1 => RoundInv /\ FirstInv /\ HoldInv
<1>1. Init => I
  BY InitRound, InitHold DEF Init, FirstInv, TurnsAgree
<1>2. KernelInv /\ BootInv /\ KernelInv' /\ (NoneStale /\ AllSaved) /\ I /\ [Next]_vars => I'
  <2>. SUFFICES ASSUME KernelInv, BootInv, KernelInv', NoneStale, AllSaved, I, [Next]_vars,
                       boots' <= 1
                PROVE  (RoundInv /\ FirstInv /\ HoldInv)'
    OBVIOUS
  <2>1. boots <= 1
    BY BootsGrow
  <2>2. RoundInv /\ FirstInv /\ HoldInv /\ Orderly
    BY <2>1 DEF FirstInv, Orderly
  <2>3. KernelTypes'
    BY DEF KernelInv
  <2>. QED
    BY <2>2, <2>3, NextRound, NextFirst, NextHold DEF Orderly
<1>3. KernelInv /\ (NoneStale /\ AllSaved) /\ I => (boots <= 1 => Conserved /\ NothingLeft)
  BY RestEmpties DEF HoldInv, NothingLeft, Running
<1>. QED
  BY <1>1, <1>2, <1>3, KernelInvariant, PTL DEF Spec

=============================================================================
