---------------------------- MODULE CudaNetProofs ----------------------------
(***************************************************************************)
(* Proofs about the net of the CUDA runtime, for any number of threads,    *)
(* any size of the memories and any book: as long as the searches find     *)
(* room and no launch ends with redexes in a bag, the net is linear at     *)
(* every moment, and what is local to a block stays with its thread.       *)
(***************************************************************************)
EXTENDS CudaNet, NetProofs

-----------------------------------------------------------------------------
(* The grid: the redexes kept from a launch to the next, and the hands, hold *)
(* ports too.                                                                *)

CudaRest == HeldInKept \cup HeldInHands
SavedItem(r, k) == << <<"saved", r, k>>, r[k]>>
SavedItems(K) == {SavedItem(r, k) : r \in K, k \in {1, 2}}
HandItem(t, k, p) == << <<"hand", t, k>>, p>>
LeakItem(t, p) == << <<"leak", t>>, p>>
HandItems(t, h) ==
  IF h = <<>> THEN {}
  ELSE {HandItem(t, k, h.ports[k]) : k \in {1, 2}}
         \cup IF h.for = "leak" THEN {LeakItem(t, h.var)} ELSE {}

LEMMA InHandItems ==
  ASSUME NEW t, NEW q
  PROVE  \A h : h \in HandItems(t, q) <=>
           /\ q # <<>>
           /\ \/ \E k \in {1, 2} : h = HandItem(t, k, q.ports[k])
              \/ q.for = "leak" /\ h = LeakItem(t, q.var)
BY DEF HandItems

LEMMA InHands ==
  /\ \A h : h \in HeldInHands <=> \E t \in Gid : h \in HandItems(t, hand[t])
  /\ \A h : h \in HeldInHands' <=> \E t \in Gid : h \in HandItems(t, hand'[t])
<1>1. \A h : h \in HeldInHands <=>
        \E t \in Gid : /\ hand[t] # <<>>
                       /\ \/ \E k \in {1, 2} : h = HandItem(t, k, hand[t].ports[k])
                          \/ hand[t].for = "leak" /\ h = LeakItem(t, hand[t].var)
  BY DEF HeldInHands, HandItem, LeakItem
<1>2. \A h : h \in HeldInHands' <=>
        \E t \in Gid : /\ hand'[t] # <<>>
                       /\ \/ \E k \in {1, 2} : h = HandItem(t, k, hand'[t].ports[k])
                          \/ hand'[t].for = "leak" /\ h = LeakItem(t, hand'[t].var)
  BY DEF HeldInHands, HandItem, LeakItem
<1>. QED
  BY <1>1, <1>2, InHandItems

LEMMA HandItemOf ==
  /\ \A t, k, p, u, l, r : HandItem(t, k, p) = HandItem(u, l, r) => t = u /\ k = l /\ p = r
  /\ \A t, p, u, r : LeakItem(t, p) = LeakItem(u, r) => t = u /\ p = r
  /\ \A t, k, p, u, r : HandItem(t, k, p) # LeakItem(u, r)
  /\ \A t, k, p : HandItem(t, k, p)[1][1] = "hand" /\ HandItem(t, k, p)[2] = p
  /\ \A t, p : LeakItem(t, p)[1][1] = "leak" /\ LeakItem(t, p)[2] = p
BY DEF HandItem, LeakItem

LEMMA HandsApart ==
  ASSUME NEW t, NEW q, NEW u, NEW s, NEW h, h \in HandItems(t, q), h \in HandItems(u, s)
  PROVE  t = u
<1>1. h[1][2] = t
  BY InHandItems DEF HandItem, LeakItem
<1>2. h[1][2] = u
  BY InHandItems DEF HandItem, LeakItem
<1>. QED
  BY <1>1, <1>2

LEMMA HandsChanged ==
  ASSUME DOMAIN hand = Gid, NEW t \in Gid, NEW q, hand' = [hand EXCEPT ![t] = q],
         NEW o, NEW n, Changed(HandItems(t, hand[t]), HandItems(t, q), o, n)
  PROVE  Changed(HeldInHands, HeldInHands', o, n)
<1>1. hand'[t] = q /\ \A u \in Gid \ {t} : hand'[u] = hand[u]
  OBVIOUS
<1>2. o \subseteq HandItems(t, hand[t]) /\ n \subseteq HandItems(t, q)
  BY DEF Changed
<1>3. o \subseteq HeldInHands
  BY <1>2, InHands
<1>4. \A h \in HeldInHands' : h \in HeldInHands \ o \/ h \in n
  <2>. SUFFICES ASSUME NEW h \in HeldInHands' PROVE h \in HeldInHands \ o \/ h \in n
    OBVIOUS
  <2>1. PICK u \in Gid : h \in HandItems(u, hand'[u])
    BY InHands
  <2>2. CASE u = t
    BY <1>1, <2>1, <2>2, InHands DEF Changed
  <2>3. CASE u # t
    BY <1>1, <1>2, <2>1, <2>3, InHands, HandsApart
  <2>. QED
    BY <2>2, <2>3
<1>5. \A h \in HeldInHands \ o : h \in HeldInHands' /\ h \notin n
  <2>. SUFFICES ASSUME NEW h \in HeldInHands, h \notin o PROVE h \in HeldInHands' /\ h \notin n
    OBVIOUS
  <2>1. PICK u \in Gid : h \in HandItems(u, hand[u])
    BY InHands
  <2>2. CASE u = t
    BY <1>1, <2>1, <2>2, InHands DEF Changed
  <2>3. CASE u # t
    BY <1>1, <1>2, <2>1, <2>3, InHands, HandsApart
  <2>. QED
    BY <2>2, <2>3
<1>6. n \subseteq HeldInHands'
  BY <1>1, <1>2, InHands
<1>. QED
  BY <1>3, <1>4, <1>5, <1>6 DEF Changed

LEMMA SavedItemOf ==
  ASSUME NEW r, NEW k, NEW s, NEW l, SavedItem(r, k) = SavedItem(s, l)
  PROVE  r = s /\ k = l
BY DEF SavedItem

LEMMA KeptChanged ==
  ASSUME NEW a, NEW b, a \subseteq Kept, Kept' = (Kept \ a) \cup b, \A r \in b : r \notin Kept
  PROVE  Changed(HeldInKept, HeldInKept', SavedItems(a), SavedItems(b))
<1>1. \A h, K : h \in SavedItems(K) <=> \E r \in K, k \in {1, 2} : h = SavedItem(r, k)
  BY DEF SavedItems
<1>2. HeldInKept = SavedItems(Kept) /\ HeldInKept' = SavedItems(Kept')
  BY DEF HeldInKept, SavedItems, SavedItem
<1>3. PICK K, L : K = Kept /\ L = Kept'
  OBVIOUS
<1>4. SavedItems(a) \subseteq SavedItems(K)
  BY <1>1, <1>3
<1>5. SavedItems(L) = (SavedItems(K) \ SavedItems(a)) \cup SavedItems(b)
  <2>1. ASSUME NEW h \in SavedItems(L) PROVE h \in (SavedItems(K) \ SavedItems(a)) \cup SavedItems(b)
    <3>1. PICK r \in L, k \in {1, 2} : h = SavedItem(r, k)
      BY <1>1
    <3>2. CASE r \in b
      BY <1>1, <3>1, <3>2
    <3>3. CASE r \in K /\ r \notin a
      BY <1>1, <3>1, <3>3, SavedItemOf
    <3>. QED
      BY <1>3, <3>2, <3>3
  <2>2. ASSUME NEW h, h \in SavedItems(K), h \notin SavedItems(a) PROVE h \in SavedItems(L)
    <3>1. PICK r \in K, k \in {1, 2} : h = SavedItem(r, k)
      BY <1>1, <2>2
    <3>2. r \notin a
      BY <1>1, <2>2, <3>1
    <3>. QED
      BY <1>1, <1>3, <3>1, <3>2
  <2>3. SavedItems(b) \subseteq SavedItems(L)
    BY <1>1, <1>3
  <2>. QED
    BY <2>1, <2>2, <2>3
<1>6. \A h \in SavedItems(b) : h \notin SavedItems(K)
  BY <1>1, <1>3, SavedItemOf
<1>. QED
  BY <1>2, <1>3, <1>4, <1>5, <1>6 DEF Changed

LEMMA RestKinds ==
  /\ \A h \in HeldInKept \cup HeldInKept' : h[1][1] = "saved"
  /\ \A h \in HeldInHands \cup HeldInHands' : h[1][1] \in {"hand", "leak"}
  /\ \A R : R = CudaRest \/ R = CudaRest' => Elsewhere(R)
<1>1. \A h \in HeldInKept \cup HeldInKept' : h[1][1] = "saved"
  BY DEF HeldInKept
<1>2. \A h \in HeldInHands \cup HeldInHands' : h[1][1] \in {"hand", "leak"}
  BY InHands, InHandItems, HandItemOf
<1>. QED
  BY <1>1, <1>2 DEF CudaRest, Elsewhere

LEMMA RestChanged ==
  ASSUME NEW p, NEW m, Changed(HeldInKept, HeldInKept', p, m),
         NEW o, NEW n, Changed(HeldInHands, HeldInHands', o, n)
  PROVE  Changed(CudaRest, CudaRest', p \cup o, m \cup n)
<1>1. \A h \in HeldInKept \cup HeldInKept' : h \notin HeldInHands /\ h \notin HeldInHands'
  BY RestKinds
<1>. QED
  BY <1>1, ChangedUnion DEF CudaRest

\* The net and the rest, of a step.
LEMMA GridChanged ==
  ASSUME NEW R, NEW T, R = CudaRest, T = CudaRest',
         NEW on, NEW nn, Changed(HeldInNodes, HeldInNodes', on, nn),
         NEW ov, NEW nv, Changed(HeldInVars, HeldInVars', ov, nv),
         NEW op, NEW np, Changed(HeldInPool, HeldInPool', op, np),
         NEW ot, NEW nt, Changed(HeldInTodo, HeldInTodo', ot, nt),
         NEW oo, NEW no, Changed(HeldInOper, HeldInOper', oo, no),
         NEW ok, NEW nk, Changed(HeldInKept, HeldInKept', ok, nk),
         NEW oh, NEW nh, Changed(HeldInHands, HeldInHands', oh, nh)
  PROVE  Changed(All(R), All(T)', (on \cup ov \cup op \cup ot \cup oo) \cup (ok \cup oh),
                 (nn \cup nv \cup np \cup nt \cup no) \cup (nk \cup nh))
<1>1. Changed(Held, Held', on \cup ov \cup op \cup ot \cup oo, nn \cup nv \cup np \cup nt \cup no)
  BY HeldChanged
<1>2. Changed(R, T, ok \cup oh, nk \cup nh)
  BY RestChanged
<1>. QED
  BY <1>1, <1>2, AllChanged, RestKinds

LEMMA Carried ==
  ASSUME NEW T, T = CudaRest', Balanced(T)'
  PROVE  Balanced(CudaRest)'
<1>1. All(T)' = All(CudaRest)'
  BY DEF All
<1>. QED
  BY <1>1 DEF Balanced

\* A step that loses the item h0, of node x.
LEMMA MovedButNode ==
  ASSUME NEW Rest, NEW Then, Balanced(Rest), NEW Old, NEW S, NEW at, NEW src,
         Rearranged(All(Rest), All(Then)', Old, S, at, S, src),
         NEW h0 \in Old, NEW x \in Loc, Key(h0[2]) = <<"NODE", x>>,
         \A s \in S : src[s] # h0,
         \A h \in Old : (\E s \in S : src[s] = h) \/ h = h0,
         OwedNode(x)' = OwedNode(x) - 1,
         \A c \in Loc \ {x} : OwedNode(c)' = OwedNode(c),
         \A c \in Loc : OwedVar(c)' = OwedVar(c)
  PROVE  Balanced(Then)'
<1>1. \A y : Made(S, at, S, y) = {}
  BY DEF Made
<1>2. \A c \in Loc : Lost(Old, S, src, <<"NODE", c>>) = IF c = x THEN {h0} ELSE {}
  BY DEF Lost
<1>3. \A c \in Loc : Lost(Old, S, src, <<"VAR", c>>) = {}
  BY DEF Lost
<1>4. \A c \in Loc : OwedVar(c) \in Nat /\ OwedNode(c) \in Nat
  BY DEF OwedVar, OwedNode
<1>5. \A c \in Loc : OwedVar(c)' = OwedVar(c) - 0 + 0
  BY <1>4
<1>6. \A c \in Loc : \E a, b : /\ Counted(Lost(Old, S, src, <<"NODE", c>>), a)
                               /\ Counted(Made(S, at, S, <<"NODE", c>>), b)
                               /\ OwedNode(c)' = OwedNode(c) - a + b
  <2>. SUFFICES ASSUME NEW c \in Loc
                PROVE  \E a, b : /\ Counted(Lost(Old, S, src, <<"NODE", c>>), a)
                                 /\ Counted(Made(S, at, S, <<"NODE", c>>), b)
                                 /\ OwedNode(c)' = OwedNode(c) - a + b
    OBVIOUS
  <2>1. Counted(Made(S, at, S, <<"NODE", c>>), 0)
    BY <1>1, CountedSmall
  <2>2. CASE c = x
    <3>1. Counted(Lost(Old, S, src, <<"NODE", c>>), 1)
      BY <1>2, <2>2, CountedSmall
    <3>2. OwedNode(c)' = OwedNode(c) - 1 + 0
      BY <1>4, <2>2
    <3>. QED
      BY <2>1, <3>1, <3>2
  <2>3. CASE c # x
    <3>1. Counted(Lost(Old, S, src, <<"NODE", c>>), 0)
      BY <1>2, <2>3, CountedSmall
    <3>2. OwedNode(c)' = OwedNode(c) - 0 + 0
      BY <1>4, <2>3
    <3>. QED
      BY <2>1, <3>1, <3>2
  <2>. QED
    BY <2>2, <2>3
<1>7. \A c \in Loc : /\ Counted(Lost(Old, S, src, <<"VAR", c>>), 0)
                     /\ Counted(Made(S, at, S, <<"VAR", c>>), 0)
  BY <1>1, <1>3, CountedSmall
<1>8. TalliedNodes(Old, S, at, S, src)
  BY <1>6 DEF TalliedNodes
<1>9. TalliedVars(Old, S, at, S, src)
  BY <1>5, <1>7 DEF TalliedVars
<1>. QED
  BY <1>8, <1>9, Rebalanced

-----------------------------------------------------------------------------
(* A thread of the grid is one of its two threads in a launch, and idle as   *)
(* the other one; it calls enter on two ports only when it links nothing.    *)

Spare(t) == IF mode = "WORK" THEN Global(t) ELSE Local(t)
IsHand(h) ==
  /\ {"for", "ports", "ended"} \subseteq DOMAIN h /\ h.for \in {"load", "leak"} /\ IsPair(h.ports)
  /\ h.for = "leak" => {"var", "tag"} \subseteq DOMAIN h /\ IsPort(h.var) /\ h.tag \in Nodes

GridThread(t) ==
  /\ phase[t] \in {"load", "run", "save", "flush", "exit"}
  /\ pc[Spare(t)] = "idle"
  /\ phase[t] = "exit" => pc[As(t)] = "idle" /\ hand[t] = <<>>
  /\ hand[t] # <<>> => pc[As(t)] = "idle" /\ IsHand(hand[t])
  /\ phase[t] # "load" => slice[t] = {}

\* A redex is kept once.
KeptOnce ==
  /\ \A r \in Kept : IsPair(r)
  /\ \A t \in Gid : \A r \in slice[t] : r \notin saved /\ \A u \in Gid \ {t} : r \notin slice[u]

GridInv ==
  /\ mode \in {"GROW", "WORK"}
  /\ DOMAIN phase = Gid /\ DOMAIN slice = Gid /\ DOMAIN hand = Gid
  /\ KeptOnce /\ \A t \in Gid : GridThread(t)

LEMMA Halves ==
  \A t \in Gid : /\ t \in Nat /\ Local(t) \in Thread /\ Global(t) \in Thread
                 /\ Local(t) \div 2 = t /\ Global(t) \div 2 = t
                 /\ Local(t) % 2 = 0 /\ Global(t) % 2 = 1
<1>1. TPC \in Nat /\ TPC % 2 = 0
  BY InteractionsAssumption, CudaNetAssumption
<1>2. PICK h \in Nat : h = TPC \div 2 /\ TPC = 2 * h
  BY <1>1
<1>3. ASSUME NEW t \in Gid
      PROVE  t \in Nat /\ Local(t) = 2 * t /\ Global(t) = 2 * t + 1 /\ Global(t) < TPC
  BY <1>2 DEF Gid, Local, Global
<1>4. ASSUME NEW t \in Nat PROVE /\ (2 * t) \div 2 = t /\ (2 * t + 1) \div 2 = t
                                 /\ (2 * t) % 2 = 0 /\ (2 * t + 1) % 2 = 1
  OBVIOUS
<1>. QED
  BY <1>1, <1>3, <1>4 DEF Thread

LEMMA GridShape ==
  /\ \A t \in Gid : /\ As(t) \in Thread /\ Spare(t) \in Thread /\ As(t) # Spare(t)
                    /\ \/ As(t) = Local(t) /\ Spare(t) = Global(t)
                       \/ As(t) = Global(t) /\ Spare(t) = Local(t)
                    /\ BagOf[As(t)] = t /\ t \in Bags
                    /\ Local(t) \in Bounded /\ Global(t) \notin Bounded
  /\ \A t, u \in Gid : t # u => {As(t), Spare(t)} \cap {As(u), Spare(u)} = {}
  /\ Bags = Gid
<1>1. TPC \in Nat /\ TPC % 2 = 0 /\ BagOf = [i \in Thread |-> i \div 2] /\ Bounded = {Local(t) : t \in Gid}
  BY InteractionsAssumption, CudaNetAssumption
<1>2. ASSUME NEW t \in Gid
      PROVE  \/ As(t) = Local(t) /\ Spare(t) = Global(t)
             \/ As(t) = Global(t) /\ Spare(t) = Local(t)
  BY DEF As, Spare
<1>3. ASSUME NEW t \in Gid PROVE Local(t) # Global(t)
  BY Halves
<1>4. ASSUME NEW t \in Gid PROVE Global(t) \notin Bounded
  BY <1>1, Halves
<1>5. ASSUME NEW i \in Thread PROVE i \div 2 \in Gid
  <2>1. i \in Nat /\ i < TPC
    BY <1>1 DEF Thread
  <2>. QED
    BY <1>1, <2>1 DEF Gid
<1>6. Bags = Gid
  <2>1. \A b : b \in Bags <=> \E i \in Thread : b = i \div 2
    BY <1>1 DEF Bags, Range
  <2>. QED
    BY <1>5, <2>1, Halves
<1>7. ASSUME NEW t \in Gid, NEW u \in Gid, t # u PROVE {As(t), Spare(t)} \cap {As(u), Spare(u)} = {}
  BY <1>2, <1>7, Halves
<1>8. ASSUME NEW t \in Gid
      PROVE  /\ As(t) \in Thread /\ Spare(t) \in Thread /\ As(t) # Spare(t)
             /\ BagOf[As(t)] = t /\ t \in Bags /\ Local(t) \in Bounded
  BY <1>1, <1>2, <1>3, <1>6, Halves
<1>9. ASSUME NEW t \in Gid
      PROVE  /\ As(t) \in Thread /\ Spare(t) \in Thread /\ As(t) # Spare(t)
             /\ \/ As(t) = Local(t) /\ Spare(t) = Global(t)
                \/ As(t) = Global(t) /\ Spare(t) = Local(t)
             /\ BagOf[As(t)] = t /\ t \in Bags
             /\ Local(t) \in Bounded /\ Global(t) \notin Bounded
  BY <1>2, <1>4, <1>8
<1>. QED
  BY <1>6, <1>7, <1>9

\* A step of thread t, which leaves the others what they had.
LEMMA GridKept ==
  ASSUME GridInv, program' = program, mode' = mode, NEW t \in Gid,
         DOMAIN phase' = Gid, DOMAIN slice' = Gid, DOMAIN hand' = Gid,
         \A u \in Gid \ {t} : phase'[u] = phase[u] /\ slice'[u] = slice[u] /\ hand'[u] = hand[u],
         \A u \in Thread \ {As(t)} : pc'[u] = pc[u],
         KeptOnce', GridThread(t)'
  PROVE  GridInv'
<1>1. ASSUME NEW u \in Gid \ {t} PROVE GridThread(u)'
  <2>1. /\ phase'[u] = phase[u] /\ slice'[u] = slice[u] /\ hand'[u] = hand[u]
        /\ pc'[As(u)] = pc[As(u)] /\ pc'[Spare(u)] = pc[Spare(u)]
    <3>1. As(u) \in Thread /\ Spare(u) \in Thread
      BY GridShape
    <3>2. {As(t), Spare(t)} \cap {As(u), Spare(u)} = {}
      BY GridShape
    <3>. QED
      BY <3>1, <3>2
  <2>2. As(u)' = As(u) /\ Spare(u)' = Spare(u)
    BY DEF As, Spare
  <2>3. GridThread(u)
    BY DEF GridInv
  <2>4. IsHand(hand[u])' <=> IsHand(hand[u])
    BY <2>1, PortsKept DEF IsHand
  <2>. QED
    BY <2>1, <2>2, <2>3, <2>4 DEF GridThread
<1>. QED
  BY <1>1 DEF GridInv

\* A step of thread t in the net only.
LEMMA GridInner ==
  ASSUME GridInv, program' = program, UNCHANGED cudaVars, NEW t \in Gid, hand[t] = <<>>,
         phase[t] # "exit", \A u \in Thread \ {As(t)} : pc'[u] = pc[u]
  PROVE  GridInv'
<1>1. /\ mode' = mode /\ phase' = phase /\ slice' = slice /\ saved' = saved /\ hand' = hand
  BY DEF cudaVars
<1>2. KeptOnce'
  BY <1>1, PortsKept DEF KeptOnce, Kept, GridInv
<1>3. GridThread(t)'
  <2>1. As(t)' = As(t) /\ Spare(t)' = Spare(t) /\ Spare(t) \in Thread \ {As(t)}
    BY <1>1, GridShape DEF As, Spare
  <2>. QED
    BY <1>1, <2>1 DEF GridThread, GridInv
<1>. QED
  BY <1>1, <1>2, <1>3, GridKept DEF GridInv

\* The invariant of the grid.
CudaInv == NetInv(CudaRest) /\ GridInv

LEMMA RestUnchanged == ASSUME UNCHANGED cudaVars PROVE CudaRest' = CudaRest
BY DEF cudaVars, CudaRest, HeldInKept, HeldInHands, Kept

-----------------------------------------------------------------------------
(* The links of the grid.                                                  *)

\* A pair that is not linked goes to the bag.
Pushes(t) ==
  /\ pc[t] \in {"link", "point"}
  /\ pool' = [pool EXCEPT ![BagOf[t]] = With(@, Linking(t))]
  /\ Links(t, Tail(todo[t]))
  /\ UNCHANGED <<node_buf, vars_buf, nput, vput, oper>>

LEMMA PushKeeps ==
  ASSUME NEW Rest, Elsewhere(Rest), NetInv(Rest), program' = program, NEW t \in Thread, Pushes(t)
  PROVE  NetInv(Rest)'
<1>1. /\ BufTypes /\ PoolTypes /\ ThreadTypes /\ Balanced(Rest) /\ program \in DOMAIN Book
      /\ ThreadInv(t) /\ IsList(todo[t]) /\ todo[t] # <<>> /\ oper[t] = <<>>
  BY DEF NetInv, ThreadTypes, ThreadInv, Pushes
<1>2. PICK s, q : s = todo[t] /\ q = s[1]
  OBVIOUS
<1>3. PICK x, y : /\ x \in {1, 2} /\ y \in {1, 2} /\ x # y /\ IsPair(q)
                  /\ Linking(t) = <<q[x], q[y]>> /\ IsPort(q[x]) /\ IsPort(q[y])
  <2>1. q = todo[t][1] /\ IsList(todo[t]) /\ todo[t] # <<>>
    BY <1>1, <1>2
  <2>2. \E x, y : LinkingAt(t, q, x, y)
    BY <2>1, LinkingPair
  <2>. QED
    BY <2>2 DEF LinkingAt
<1>4. PICK b, e, r, m : b = BagOf[t] /\ e = Tail(s) /\ r = <<q[x], q[y]>> /\ m = Copy(b, r)
  OBVIOUS
<1>5. b \in Bags
  BY <1>4, InteractionsAssumption DEF Bags, Range
<1>6. /\ pool' = [pool EXCEPT ![b] = With(@, r)] /\ Links(t, e) /\ todo' = [todo EXCEPT ![t] = e]
      /\ node_buf' = node_buf /\ vars_buf' = vars_buf /\ oper' = oper
      /\ nput' = nput /\ vput' = vput
  BY <1>2, <1>3, <1>4 DEF Pushes, Links
<1>7. /\ Changed(HeldInPool, HeldInPool', {}, {PoolItem(b, r, m, k) : k \in {1, 2}})
      /\ PoolTypes'
  <2>1. IsPair(r)
    BY <1>3, <1>4 DEF IsPair
  <2>. QED
    BY <1>1, <1>4, <1>5, <1>6, <2>1, PoolPut
<1>8. PICK j : j = Len(s) - 1
  OBVIOUS
<1>9. Changed(HeldInTodo, HeldInTodo', PairItems(t, j, q), {})
  <2>1. Changed(ListItems(t, s), ListItems(t, e), PairItems(t, j, q), {})
    BY <1>1, <1>2, <1>3, <1>4, <1>8, ListTail
  <2>. QED
    BY <1>1, <1>2, <1>6, <2>1, TodoChanged DEF ThreadTypes
<1>10. PICK o, n : o = PairItems(t, j, q) /\ n = {PoolItem(b, r, m, k) : k \in {1, 2}}
  OBVIOUS
<1>11. Changed(All(Rest), All(Rest)', o, n)
  <2>1. /\ HeldInNodes' = HeldInNodes /\ HeldInVars' = HeldInVars /\ HeldInOper' = HeldInOper
    BY <1>6 DEF HeldInNodes, HeldInVars, HeldInOper
  <2>2. /\ Changed(HeldInNodes, HeldInNodes', {}, {}) /\ Changed(HeldInVars, HeldInVars', {}, {})
        /\ Changed(HeldInOper, HeldInOper', {}, {})
    BY <2>1, Unchanged
  <2>3. Changed(All(Rest), All(Rest)', {} \cup {} \cup {} \cup o \cup {}, {} \cup {} \cup n \cup {} \cup {})
    BY <1>7, <1>9, <1>10, <2>2, NetChanged
  <2>4. /\ {} \cup {} \cup {} \cup o \cup {} = o
        /\ {} \cup {} \cup n \cup {} \cup {} = n
    OBVIOUS
  <2>. QED
    BY <2>3, <2>4
<1>12. PICK z : z = [k \in {1, 2} |-> IF k = 1 THEN x ELSE y]
  OBVIOUS
<1>13. /\ \A k \in {1, 2} : z[k] \in {1, 2} /\ r[k] = q[z[k]]
       /\ z[1] # z[2] /\ \A l \in {1, 2} : \E k \in {1, 2} : z[k] = l
  BY <1>3, <1>4, <1>12
<1>14. PICK at, src : /\ at = [k \in {1, 2} |-> PoolItem(b, r, m, k)]
                      /\ src = [k \in {1, 2} |-> TodoItem(t, j, z[k], q[z[k]])]
  OBVIOUS
<1>15. /\ n = {at[k] : k \in {1, 2}} /\ \A k \in {1, 2} : src[k] \in o
       /\ \A h \in o : \E k \in {1, 2} : src[k] = h
  BY <1>10, <1>13, <1>14 DEF PairItems
<1>16. Rearranged(All(Rest), All(Rest)', o, {1, 2}, at, {1, 2}, src)
  <2>1. \A k \in {1, 2} : at[k][2] = r[k] /\ src[k][2] = r[k]
    BY <1>13, <1>14 DEF PoolItem, TodoItem
  <2>2. at[1] # at[2]
    BY <1>14 DEF PoolItem
  <2>3. src[1] # src[2]
    BY <1>13, <1>14, TodoItemOf
  <2>. QED
    BY <1>11, <1>15, <2>1, <2>2, <2>3 DEF Changed, Rearranged
<1>17. \A c \in Loc : OwedVar(c)' = OwedVar(c) /\ OwedNode(c)' = OwedNode(c)
  BY <1>6 DEF OwedVar, OwedNode
<1>18. Balanced(Rest)'
  BY <1>1, <1>15, <1>16, <1>17, MovedAll
<1>19. ThreadTypes'
  <2>1. IsList(e)
    BY <1>1, <1>2, <1>3, <1>4, ListHead
  <2>2. /\ DOMAIN pc' = Thread /\ DOMAIN todo' = Thread
        /\ \A u \in Thread \ {t} : pc'[u] = pc[u] /\ todo'[u] = todo[u]
        /\ ThreadInv(t)'
    BY <1>1, <1>6, <2>1, LinksTyped
  <2>. QED
    BY <1>1, <1>6, <2>2, ThreadsKept DEF ThreadTypes
<1>20. BufTypes'
  BY <1>1, <1>6, PortsKept DEF BufTypes
<1>. QED
  BY <1>1, <1>7, <1>18, <1>19, <1>20 DEF NetInv

\* The ports of the pair being linked are swapped.
LEMMA SwapKeeps ==
  ASSUME NEW Rest, Elsewhere(Rest), NetInv(Rest), program' = program, NEW t \in Thread,
         pc[t] \in {"link", "point"}, is_var(Linking(t)[2]),
         GoOn(t, <<Linking(t)[2], Linking(t)[1]>>, "link"),
         UNCHANGED <<node_buf, vars_buf, pool, nput, vput, oper>>
  PROVE  NetInv(Rest)'
<1>1. /\ BufTypes /\ PoolTypes /\ ThreadTypes /\ Balanced(Rest) /\ program \in DOMAIN Book
      /\ ThreadInv(t) /\ IsList(todo[t]) /\ todo[t] # <<>> /\ oper[t] = <<>>
  BY DEF NetInv, ThreadTypes, ThreadInv
<1>2. PICK s, q, r : s = todo[t] /\ q = s[1] /\ r = <<q[2], q[1]>>
  OBVIOUS
<1>3. IsPair(q) /\ Linking(t) = <<q[1], q[2]>> /\ IsPair(r)
  <2>1. q = todo[t][1]
    BY <1>2
  <2>2. PICK x, y : /\ x \in {1, 2} /\ y \in {1, 2} /\ x # y /\ IsPair(q)
                    /\ Linking(t) = <<q[x], q[y]>> /\ IsPort(q[x]) /\ IsPort(q[y])
                    /\ (is_var(q[y]) \/ ~is_var(q[x])) => x = 1 /\ y = 2
                    /\ q = <<q[1], q[2]>>
    <3>1. IsList(todo[t]) /\ todo[t] # <<>>
      BY <1>1
    <3>2. \E x, y : LinkingAt(t, q, x, y)
      BY <2>1, <3>1, LinkingPair
    <3>. QED
      BY <3>2 DEF LinkingAt
  <2>. QED
    BY <1>2, <2>2 DEF IsPair
<1>4. GoOn(t, r, "link")
  BY <1>2, <1>3
<1>5. PICK j : j = Len(s) - 1
  OBVIOUS
<1>6. /\ DOMAIN pc' = Thread /\ DOMAIN todo' = Thread
      /\ \A u \in Thread \ {t} : pc'[u] = pc[u] /\ todo'[u] = todo[u]
      /\ todo' = [todo EXCEPT ![t] = [todo[t] EXCEPT ![1] = r]]
      /\ ThreadInv(t)'
  BY <1>1, <1>3, <1>4, GoOnTyped DEF ThreadTypes
<1>7. Changed(HeldInTodo, HeldInTodo', PairItems(t, j, q), PairItems(t, j, r))
  <2>1. Changed(ListItems(t, s), ListItems(t, [s EXCEPT ![1] = r]), PairItems(t, j, q), PairItems(t, j, r))
    BY <1>1, <1>2, <1>3, <1>5, ListTail
  <2>. QED
    BY <1>1, <1>2, <1>6, <2>1, TodoChanged DEF ThreadTypes
<1>8. PICK o, n : o = PairItems(t, j, q) /\ n = PairItems(t, j, r)
  OBVIOUS
<1>9. Changed(All(Rest), All(Rest)', o, n)
  <2>1. /\ HeldInNodes' = HeldInNodes /\ HeldInVars' = HeldInVars /\ HeldInPool' = HeldInPool
        /\ HeldInOper' = HeldInOper
    BY DEF HeldInNodes, HeldInVars, HeldInPool, HeldInOper
  <2>2. /\ Changed(HeldInNodes, HeldInNodes', {}, {}) /\ Changed(HeldInVars, HeldInVars', {}, {})
        /\ Changed(HeldInPool, HeldInPool', {}, {}) /\ Changed(HeldInOper, HeldInOper', {}, {})
    BY <2>1, Unchanged
  <2>3. Changed(All(Rest), All(Rest)', {} \cup {} \cup {} \cup o \cup {}, {} \cup {} \cup {} \cup n \cup {})
    BY <1>7, <1>8, <2>2, NetChanged
  <2>4. /\ {} \cup {} \cup {} \cup o \cup {} = o
        /\ {} \cup {} \cup {} \cup n \cup {} = n
    OBVIOUS
  <2>. QED
    BY <2>3, <2>4
<1>10. PICK at, src : /\ at = [k \in {1, 2} |-> TodoItem(t, j, k, r[k])]
                      /\ src = [k \in {1, 2} |-> TodoItem(t, j, 3 - k, q[3 - k])]
  OBVIOUS
<1>11. /\ at[1] = TodoItem(t, j, 1, q[2]) /\ at[2] = TodoItem(t, j, 2, q[1])
       /\ src[1] = TodoItem(t, j, 2, q[2]) /\ src[2] = TodoItem(t, j, 1, q[1])
  BY <1>2, <1>10
<1>12. /\ n = {at[k] : k \in {1, 2}} /\ o = {src[k] : k \in {1, 2}}
       /\ \A k \in {1, 2} : src[k][2] = at[k][2]
       /\ at[1] # at[2] /\ src[1] # src[2]
  BY <1>2, <1>8, <1>11 DEF PairItems, TodoItem
<1>13. Rearranged(All(Rest), All(Rest)', o, {1, 2}, at, {1, 2}, src)
  BY <1>9, <1>12 DEF Changed, Rearranged
<1>14. \A c \in Loc : OwedVar(c)' = OwedVar(c) /\ OwedNode(c)' = OwedNode(c)
  BY DEF OwedVar, OwedNode
<1>15. Balanced(Rest)'
  BY <1>1, <1>12, <1>13, <1>14, MovedAll
<1>16. ThreadTypes'
  BY <1>1, <1>6, ThreadsKept DEF ThreadTypes
<1>17. BufTypes' /\ PoolTypes'
  BY <1>1, PortsKept DEF BufTypes, PoolTypes
<1>. QED
  BY <1>1, <1>15, <1>16, <1>17 DEF NetInv

LEMMA CudaPointKeeps ==
  ASSUME NEW Rest, Elsewhere(Rest), NetInv(Rest), program' = program, NEW t \in Thread, CudaPoint(t)
  PROVE  NetInv(Rest)'
<1>1. pc[t] \in {"link", "point"} /\ UNCHANGED <<node_buf, nput, vput, oper, itrs>>
  BY DEF CudaPoint
<1>2. PICK A, B, got : A = Linking(t)[1] /\ B = Linking(t)[2] /\ got = vars_buf[val(A)]
  OBVIOUS
<1>3. Linking(t) = <<A, B>>
  BY <1>2 DEF Linking
<1>4. CASE Leaks(A, B) /\ is_var(B)
  <2>1. GoOn(t, <<B, A>>, "link") /\ UNCHANGED <<vars_buf, pool>>
    BY <1>2, <1>4 DEF CudaPoint
  <2>. QED
    BY <1>1, <1>2, <1>4, <2>1, SwapKeeps
<1>5. CASE ~(Leaks(A, B) /\ is_var(B)) /\ (Leaks(A, B) \/ (is_global(A) /\ got = FREE))
  <2>1. /\ pool' = Pushed(BagOf[t], <<A, B>>) /\ Links(t, Tail(todo[t])) /\ UNCHANGED vars_buf
    BY <1>2, <1>5 DEF CudaPoint
  <2>2. Pushes(t)
    BY <1>1, <1>3, <2>1 DEF Pushes, Pushed
  <2>. QED
    BY <2>2, PushKeeps
<1>6. CASE ~(Leaks(A, B) /\ is_var(B)) /\ ~(Leaks(A, B) \/ (is_global(A) /\ got = FREE))
  <2>1. Point(t)
    BY <1>1, <1>2, <1>6 DEF CudaPoint, Point
  <2>. QED
    BY <2>1, PointKeeps
<1>. QED
  BY <1>4, <1>5, <1>6

-----------------------------------------------------------------------------
(* The steps of the grid keep the invariant.                               *)

LEMMA CudaFacts ==
  ASSUME CudaInv
  PROVE  /\ BufTypes /\ PoolTypes /\ ThreadTypes /\ Balanced(CudaRest) /\ program \in DOMAIN Book
         /\ Elsewhere(CudaRest)
         /\ DOMAIN phase = Gid /\ DOMAIN slice = Gid /\ DOMAIN hand = Gid /\ KeptOnce
         /\ \A t \in Gid : GridThread(t)
BY RestKinds DEF CudaInv, NetInv, GridInv

LEMMA InKept ==
  /\ \A r : r \in Kept <=> r \in saved \/ \E t \in Gid : r \in slice[t]
  /\ \A r : r \in Kept' <=> r \in saved' \/ \E t \in Gid : r \in slice'[t]
BY DEF Kept

LEMMA NoHand == \A t : HandItems(t, <<>>) = {}
BY DEF HandItems

LEMMA LoadHand ==
  ASSUME NEW t, NEW h, h # <<>>, h.for = "load"
  PROVE  HandItems(t, h) = {HandItem(t, k, h.ports[k]) : k \in {1, 2}}
BY DEF HandItems

\* A step that moves two ports only.
LEMMA MovedTwo ==
  ASSUME NEW R, NEW T, NEW o, NEW n, Balanced(R), Changed(All(R), All(T)', o, n),
         NEW f, NEW g, o = {f[k] : k \in {1, 2}}, n = {g[k] : k \in {1, 2}},
         f[1] # f[2], g[1] # g[2], \A k \in {1, 2} : f[k][2] = g[k][2],
         \A c \in Loc : OwedVar(c)' = OwedVar(c) /\ OwedNode(c)' = OwedNode(c)
  PROVE  Balanced(T)'
<1>1. PICK S : S = {1, 2}
  OBVIOUS
<1>2. Rearranged(All(R), All(T)', o, S, g, S, f)
  BY <1>1 DEF Changed, Rearranged
<1>3. \A h \in o : \E s \in S : f[s] = h
  BY <1>1
<1>. QED
  BY <1>2, <1>3, MovedAll

LEMMA LoadKeeps ==
  ASSUME CudaInv, NEW t \in Gid, Load(t)
  PROVE  CudaInv'
<1>1. /\ BufTypes /\ PoolTypes /\ ThreadTypes /\ Balanced(CudaRest) /\ program \in DOMAIN Book
      /\ DOMAIN phase = Gid /\ DOMAIN slice = Gid /\ DOMAIN hand = Gid /\ KeptOnce
      /\ GridThread(t) /\ hand[t] = <<>>
  BY CudaFacts DEF Load, Ready
<1>2. PICK r : r = CHOOSE x \in slice[t] : TRUE
  OBVIOUS
<1>3. PICK h : h = [for |-> "load", ports |-> r, ended |-> {}]
  OBVIOUS
<1>4. /\ r \in slice[t] /\ slice' = [slice EXCEPT ![t] = @ \ {r}] /\ hand' = [hand EXCEPT ![t] = h]
      /\ UNCHANGED vars /\ mode' = mode /\ phase' = phase /\ saved' = saved
      /\ phase[t] = "load" /\ pc[As(t)] = "idle"
  BY <1>2, <1>3 DEF Load, Ready
<1>5. slice'[t] = slice[t] \ {r} /\ \A u \in Gid \ {t} : slice'[u] = slice[u]
  BY <1>1, <1>4
<1>6. /\ BufTypes' /\ PoolTypes' /\ ThreadTypes' /\ Held' = Held
      /\ \A c : OwedVar(c)' = OwedVar(c) /\ OwedNode(c)' = OwedNode(c)
      /\ program' = program /\ pc' = pc
  BY <1>1, <1>4, Stutters DEF vars
<1>7. r \in Kept /\ IsPair(r) /\ \A x : x \in Kept' <=> x \in Kept /\ x # r
  <2>1. r \notin saved /\ \A u \in Gid \ {t} : r \notin slice[u]
    BY <1>1, <1>4 DEF KeptOnce
  <2>2. \A x : (\E u \in Gid : x \in slice'[u]) <=> (\E u \in Gid : x \in slice[u]) /\ x # r
    BY <1>5, <2>1
  <2>3. r \in Kept
    BY <1>4, InKept
  <2>. QED
    BY <1>1, <1>4, <2>1, <2>2, <2>3, InKept DEF KeptOnce
<1>8. h.for = "load" /\ h.ports = r /\ h # <<>> /\ {"for", "ports", "ended"} \subseteq DOMAIN h
  <2>1. h.for = "load" /\ h.ports = r /\ DOMAIN h = {"for", "ports", "ended"}
    BY <1>3
  <2>2. DOMAIN <<>> = {}
    OBVIOUS
  <2>. QED
    BY <2>1, <2>2
<1>9. GridInv'
  <2>1. hand'[t] = h /\ DOMAIN hand' = Gid /\ DOMAIN slice' = Gid
        /\ \A u \in Gid \ {t} : hand'[u] = hand[u]
    BY <1>1, <1>4
  <2>2. IsHand(h)'
    BY <1>6, <1>7, <1>8, PortsKept DEF IsHand
  <2>3. GridThread(t)'
    <3>1. As(t)' = As(t) /\ Spare(t)' = Spare(t)
      BY <1>4 DEF As, Spare
    <3>2. IsHand(hand[t])'
      BY <2>1, <2>2
    <3>. QED
      BY <1>1, <1>4, <1>6, <3>1, <3>2 DEF GridThread
  <2>4. KeptOnce'
    <3>1. \A x \in Kept' : IsPair(x)'
      BY <1>1, <1>6, <1>7, PortsKept DEF KeptOnce
    <3>2. \A u \in Gid : slice'[u] \subseteq slice[u]
      BY <1>5
    <3>. QED
      BY <1>1, <1>4, <3>1, <3>2 DEF KeptOnce
  <2>. QED
    BY <1>1, <1>4, <1>5, <1>6, <2>1, <2>3, <2>4, GridKept DEF CudaInv
<1>10. Balanced(CudaRest)'
  <2>1. PICK R, T : R = CudaRest /\ T = CudaRest'
    OBVIOUS
  <2>2. PICK a, b : a = SavedItems({r}) /\ b = HandItems(t, h)
    OBVIOUS
  <2>3. Changed(HeldInKept, HeldInKept', a, {})
    <3>1. Kept' = (Kept \ {r}) \cup {} /\ {r} \subseteq Kept
      BY <1>7
    <3>2. SavedItems({}) = {}
      BY DEF SavedItems
    <3>. QED
      BY <2>2, <3>1, <3>2, KeptChanged
  <2>4. Changed(HeldInHands, HeldInHands', {}, b)
    <3>1. Changed(HandItems(t, hand[t]), HandItems(t, h), {}, b)
      BY <1>1, <2>2, NoHand DEF Changed
    <3>. QED
      BY <1>1, <1>4, <3>1, HandsChanged
  <2>5. Changed(All(R), All(T)', a, b)
    <3>1. Changed(Held, Held', {}, {})
      BY <1>6, Unchanged
    <3>2. Changed(R, T, a \cup {}, {} \cup b)
      BY <2>1, <2>3, <2>4, RestChanged
    <3>3. Elsewhere(R) /\ Elsewhere(T)
      BY <2>1, RestKinds
    <3>4. Changed(All(R), All(T)', {} \cup (a \cup {}), {} \cup ({} \cup b))
      BY <3>1, <3>2, <3>3, AllChanged
    <3>. QED
      BY <3>4
  <2>6. PICK f, g : f = [k \in {1, 2} |-> SavedItem(r, k)] /\ g = [k \in {1, 2} |-> HandItem(t, k, r[k])]
    OBVIOUS
  <2>7. a = {f[k] : k \in {1, 2}} /\ b = {g[k] : k \in {1, 2}}
    BY <1>8, <2>2, <2>6, LoadHand DEF SavedItems
  <2>8. f[1] # f[2] /\ g[1] # g[2] /\ \A k \in {1, 2} : f[k][2] = g[k][2]
    BY <2>6 DEF SavedItem, HandItem
  <2>9. Balanced(T)'
    BY <1>1, <1>6, <2>1, <2>5, <2>7, <2>8, MovedTwo
  <2>. QED
    BY <2>1, <2>9, Carried
<1>. QED
  BY <1>1, <1>6, <1>9, <1>10 DEF CudaInv, NetInv

\* A thread goes on to the next phase of the launch.
LEMMA PhaseKeeps ==
  ASSUME CudaInv, NEW t \in Gid, NEW ph \in {"load", "run", "save", "flush", "exit"}, Ready(t, ph),
         slice[t] = {}, NEW then \in {"run", "save", "flush", "exit"}, Go(t, then),
         UNCHANGED <<vars, mode, slice, saved, hand>>
  PROVE  CudaInv'
<1>1. /\ BufTypes /\ PoolTypes /\ ThreadTypes /\ Balanced(CudaRest) /\ program \in DOMAIN Book
      /\ DOMAIN phase = Gid /\ DOMAIN slice = Gid /\ DOMAIN hand = Gid /\ KeptOnce
      /\ GridThread(t) /\ hand[t] = <<>> /\ pc[As(t)] = "idle"
  BY CudaFacts DEF Ready
<1>2. /\ BufTypes' /\ PoolTypes' /\ ThreadTypes' /\ Held' = Held
      /\ \A c : OwedVar(c)' = OwedVar(c) /\ OwedNode(c)' = OwedNode(c)
      /\ program' = program /\ pc' = pc
  BY <1>1, Stutters DEF vars
<1>3. phase'[t] = then /\ DOMAIN phase' = Gid /\ \A u \in Gid \ {t} : phase'[u] = phase[u]
  BY <1>1 DEF Go
<1>4. KeptOnce'
  BY <1>1, <1>2, PortsKept DEF KeptOnce, Kept
<1>5. GridThread(t)'
  <2>1. As(t)' = As(t) /\ Spare(t)' = Spare(t)
    BY DEF As, Spare
  <2>. QED
    BY <1>1, <1>2, <1>3, <2>1 DEF GridThread
<1>6. GridInv'
  BY <1>1, <1>2, <1>3, <1>4, <1>5, GridKept DEF CudaInv
<1>7. CudaRest' = CudaRest
  BY DEF CudaRest, HeldInKept, HeldInHands, Kept
<1>8. Balanced(CudaRest)'
  BY <1>1, <1>2, <1>7 DEF Balanced, All
<1>. QED
  BY <1>1, <1>2, <1>6, <1>8 DEF CudaInv, NetInv

LEMMA ThreadsSame ==
  ASSUME ThreadTypes, UNCHANGED <<program, pc, todo, oper, node_buf>>
  PROVE  ThreadTypes'
<1>1. Linking(0)' = Linking(0) /\ \A t : Linking(t)' = Linking(t)
  BY DEF Linking
<1>. QED
  BY <1>1, PortsKept DEF ThreadTypes, ThreadInv, IsOper

\* What the net holds, when a step leaves nodes, pairs and operations alone.
LEMMA PoolOrVars ==
  ASSUME UNCHANGED <<node_buf, todo, oper>>
  PROVE  /\ Changed(HeldInNodes, HeldInNodes', {}, {}) /\ Changed(HeldInTodo, HeldInTodo', {}, {})
         /\ Changed(HeldInOper, HeldInOper', {}, {})
         /\ pool' = pool => Changed(HeldInPool, HeldInPool', {}, {})
         /\ vars_buf' = vars_buf => Changed(HeldInVars, HeldInVars', {}, {})
<1>1. HeldInNodes' = HeldInNodes /\ HeldInTodo' = HeldInTodo /\ HeldInOper' = HeldInOper
  BY DEF HeldInNodes, HeldInTodo, HeldInOper
<1>2. pool' = pool => HeldInPool' = HeldInPool
  BY DEF HeldInPool
<1>3. vars_buf' = vars_buf => HeldInVars' = HeldInVars
  BY DEF HeldInVars
<1>. QED
  BY <1>1, <1>2, <1>3, Unchanged

LEMMA KeptSame ==
  ASSUME slice' = slice, saved' = saved, program' = program
  PROVE  /\ Changed(HeldInKept, HeldInKept', {}, {})
         /\ KeptOnce => KeptOnce'
<1>1. HeldInKept' = HeldInKept /\ Kept' = Kept
  BY DEF HeldInKept, Kept
<1>2. KeptOnce => KeptOnce'
  BY <1>1, PortsKept DEF KeptOnce
<1>. QED
  BY <1>1, <1>2, Unchanged

LEMMA LoadPushKeeps ==
  ASSUME CudaInv, NEW t \in Gid, LoadPush(t)
  PROVE  CudaInv'
<1>1. /\ BufTypes /\ PoolTypes /\ ThreadTypes /\ Balanced(CudaRest) /\ program \in DOMAIN Book
      /\ DOMAIN phase = Gid /\ DOMAIN slice = Gid /\ DOMAIN hand = Gid /\ KeptOnce /\ GridThread(t)
  BY CudaFacts
<1>2. PICK h, r : h = hand[t] /\ r = h.ports
  OBVIOUS
<1>3. /\ h # <<>> /\ h.for = "load" /\ IsPair(r)
      /\ pool' = [pool EXCEPT ![t] = With(@, r)] /\ hand' = [hand EXCEPT ![t] = <<>>]
      /\ UNCHANGED <<program, node_buf, vars_buf, nput, vput, pc, todo, oper, itrs,
                     mode, launches, phase, slice, saved>>
  BY <1>1, <1>2 DEF LoadPush, Pushed, GridThread, IsHand
<1>4. BufTypes' /\ ThreadTypes'
  BY <1>1, <1>3, ThreadsSame, PortsKept DEF BufTypes
<1>5. PICK b : b = {PoolItem(t, r, Copy(t, r), k) : k \in {1, 2}}
  OBVIOUS
<1>6. Changed(HeldInPool, HeldInPool', {}, b) /\ PoolTypes'
  <2>1. t \in Bags
    BY GridShape
  <2>. QED
    BY <1>1, <1>3, <1>5, <2>1, PoolPut
<1>7. PICK a : a = HandItems(t, h)
  OBVIOUS
<1>8. Changed(HeldInHands, HeldInHands', a, {})
  <2>1. Changed(HandItems(t, hand[t]), HandItems(t, <<>>), a, {})
    BY <1>2, <1>7, NoHand DEF Changed
  <2>. QED
    BY <1>1, <1>3, <2>1, HandsChanged
<1>9. GridInv'
  <2>1. hand'[t] = <<>> /\ DOMAIN hand' = Gid /\ \A u \in Gid \ {t} : hand'[u] = hand[u]
    BY <1>1, <1>3
  <2>2. GridThread(t)'
    <3>1. As(t)' = As(t) /\ Spare(t)' = Spare(t)
      BY <1>3 DEF As, Spare
    <3>. QED
      BY <1>1, <1>3, <2>1, <3>1 DEF GridThread
  <2>3. KeptOnce'
    BY <1>1, <1>3, KeptSame
  <2>. QED
    BY <1>1, <1>3, <2>1, <2>2, <2>3, GridKept DEF CudaInv
<1>10. Balanced(CudaRest)'
  <2>1. PICK R, T : R = CudaRest /\ T = CudaRest'
    OBVIOUS
  <2>2. Changed(All(R), All(T)', a, b)
    <3>1. Changed(All(R), All(T)', ({} \cup {} \cup {} \cup {} \cup {}) \cup ({} \cup a),
                  ({} \cup {} \cup b \cup {} \cup {}) \cup ({} \cup {}))
      <4>1. /\ Changed(HeldInNodes, HeldInNodes', {}, {}) /\ Changed(HeldInTodo, HeldInTodo', {}, {})
            /\ Changed(HeldInOper, HeldInOper', {}, {}) /\ Changed(HeldInVars, HeldInVars', {}, {})
            /\ Changed(HeldInKept, HeldInKept', {}, {})
        BY <1>3, PoolOrVars, KeptSame
      <4>. QED
        BY <1>6, <1>8, <2>1, <4>1, GridChanged
    <3>2. /\ ({} \cup {} \cup {} \cup {} \cup {}) \cup ({} \cup a) = a
          /\ ({} \cup {} \cup b \cup {} \cup {}) \cup ({} \cup {}) = b
      OBVIOUS
    <3>. QED
      BY <3>1, <3>2
  <2>3. PICK f, g : f = [k \in {1, 2} |-> HandItem(t, k, r[k])]
                    /\ g = [k \in {1, 2} |-> PoolItem(t, r, Copy(t, r), k)]
    OBVIOUS
  <2>4. a = {f[k] : k \in {1, 2}} /\ b = {g[k] : k \in {1, 2}}
    BY <1>2, <1>3, <1>5, <1>7, <2>3, LoadHand
  <2>5. f[1] # f[2] /\ g[1] # g[2] /\ \A k \in {1, 2} : f[k][2] = g[k][2]
    BY <2>3 DEF PoolItem, HandItem
  <2>6. \A c \in Loc : OwedVar(c)' = OwedVar(c) /\ OwedNode(c)' = OwedNode(c)
    BY <1>3 DEF OwedVar, OwedNode
  <2>7. Balanced(T)'
    BY <1>1, <2>1, <2>2, <2>4, <2>5, <2>6, MovedTwo
  <2>. QED
    BY <2>1, <2>7, Carried
<1>. QED
  BY <1>1, <1>3, <1>4, <1>6, <1>9, <1>10 DEF CudaInv, NetInv

\* An iteration of enter puts another port in the hand.
Following(h, k, p) == [h EXCEPT !.ports = [h.ports EXCEPT ![k] = p]]

LEMMA HandFollows ==
  ASSUME NEW t, NEW h, IsHand(h), NEW k \in {1, 2}, NEW p, IsPort(p),
         NEW q, q = Following(h, k, p)
  PROVE  /\ IsHand(q) /\ q # <<>> /\ q.for = h.for
         /\ q.ports[k] = p /\ \A j \in {1, 2} \ {k} : q.ports[j] = h.ports[j]
         /\ Changed(HandItems(t, h), HandItems(t, q), {HandItem(t, k, h.ports[k])}, {HandItem(t, k, p)})
<1>1. PICK r : r = h.ports
  OBVIOUS
<1>2. /\ {"for", "ports", "ended"} \subseteq DOMAIN h /\ h.for \in {"load", "leak"} /\ IsPair(r)
      /\ h.for = "leak" => {"var", "tag"} \subseteq DOMAIN h /\ IsPort(h.var) /\ h.tag \in Nodes
  BY <1>1 DEF IsHand
<1>3. PICK e : e = [r EXCEPT ![k] = p]
  OBVIOUS
<1>4. /\ e[k] = p /\ (\A j \in {1, 2} \ {k} : e[j] = r[j]) /\ IsPair(e)
  <2>1. r = <<r[1], r[2]>>
    BY <1>2 DEF IsPair
  <2>2. e = <<e[1], e[2]>> /\ e[k] = p /\ \A j \in {1, 2} \ {k} : e[j] = r[j]
    BY <1>3, <2>1
  <2>. QED
    BY <1>2, <2>2 DEF IsPair
<1>5. /\ DOMAIN q = DOMAIN h /\ q.ports = e /\ q.for = h.for
      /\ h.for = "leak" => q.var = h.var /\ q.tag = h.tag
  BY <1>1, <1>2, <1>3 DEF Following
<1>6. IsHand(q)
  BY <1>2, <1>4, <1>5 DEF IsHand
<1>7. h # <<>> /\ q # <<>>
  <2>1. DOMAIN <<>> = {}
    OBVIOUS
  <2>. QED
    BY <1>2, <1>5, <2>1
<1>8. PICK j \in {1, 2} : j # k /\ {1, 2} = {j, k} /\ e[j] = r[j]
  BY <1>4
<1>9. \A i : i \in HandItems(t, h) <=>
        i = HandItem(t, k, r[k]) \/ i = HandItem(t, j, r[j]) \/ (h.for = "leak" /\ i = LeakItem(t, h.var))
  BY <1>1, <1>7, <1>8, InHandItems
<1>10. \A i : i \in HandItems(t, q) <=>
         i = HandItem(t, k, p) \/ i = HandItem(t, j, r[j]) \/ (h.for = "leak" /\ i = LeakItem(t, h.var))
  <2>1. q.ports[k] = p /\ q.ports[j] = r[j] /\ \A i : i \in {1, 2} <=> i = j \/ i = k
    BY <1>4, <1>5, <1>8
  <2>2. \A i : i \in HandItems(t, q) <=>
          \/ \E l \in {1, 2} : i = HandItem(t, l, q.ports[l])
          \/ q.for = "leak" /\ i = LeakItem(t, q.var)
    <3>1. \A i : i \in HandItems(t, q) <=>
            /\ q # <<>>
            /\ \/ \E l \in {1, 2} : i = HandItem(t, l, q.ports[l])
               \/ q.for = "leak" /\ i = LeakItem(t, q.var)
      BY InHandItems
    <3>. QED
      BY <1>7, <3>1
  <2>3. \A i : (\E l \in {1, 2} : i = HandItem(t, l, q.ports[l])) <=>
          i = HandItem(t, k, p) \/ i = HandItem(t, j, r[j])
    BY <2>1
  <2>4. h.for = "leak" => LeakItem(t, q.var) = LeakItem(t, h.var)
    BY <1>5
  <2>. QED
    BY <1>5, <2>2, <2>3, <2>4
<1>11. PICK x, y, z, w : /\ x = HandItem(t, k, r[k]) /\ y = HandItem(t, k, p)
                         /\ z = HandItem(t, j, r[j]) /\ w = LeakItem(t, h.var)
  OBVIOUS
<1>12. x # z /\ y # z /\ x # w /\ y # w
  BY <1>8, <1>11, HandItemOf
<1>13. Changed(HandItems(t, h), HandItems(t, q), {x}, {y})
  BY <1>9, <1>10, <1>11, <1>12 DEF Changed
<1>. QED
  BY <1>1, <1>4, <1>5, <1>6, <1>7, <1>11, <1>13

\* The port that enter is called on is held, and so is its variable.
LEMMA EnteringPort ==
  ASSUME CudaInv, NEW t \in Gid, Entering(t) # {}, NEW k, k = Min(Entering(t)),
         NEW h, h = hand[t], NEW p, p = h.ports[k], NEW x, x = val(p)
  PROVE  /\ k \in {1, 2} /\ is_var(p) /\ h # <<>> /\ IsHand(h) /\ IsPort(p)
         /\ x \in Loc \ {0} /\ vars_buf[x] # FREE
         /\ HandItem(t, k, p) \in All(CudaRest)
<1>1. Entering(t) \subseteq {1, 2} /\ h # <<>> /\ \A j \in Entering(t) : is_var(h.ports[j])
  <2>1. h # <<>>
    BY DEF Entering
  <2>. QED
    BY <2>1 DEF Entering
<1>2. k \in Entering(t)
  <2>1. \E j \in Entering(t) : \A i \in Entering(t) : j <= i
    BY <1>1
  <2>. QED
    BY <2>1 DEF Min
<1>3. k \in {1, 2} /\ is_var(p)
  BY <1>1, <1>2
<1>4. /\ BufTypes /\ Balanced(CudaRest) /\ GridThread(t)
  BY CudaFacts
<1>5. IsHand(h) /\ IsPort(p)
  <2>1. IsHand(h)
    BY <1>1, <1>4 DEF GridThread
  <2>2. IsPair(h.ports)
    BY <2>1 DEF IsHand
  <2>. QED
    BY <1>3, <2>1, <2>2 DEF IsPair
<1>6. HandItem(t, k, p) \in All(CudaRest)
  <2>1. HandItem(t, k, p) \in HandItems(t, hand[t])
    BY <1>1, <1>3, InHandItems
  <2>. QED
    BY <2>1, InHands DEF All, CudaRest
<1>7. x \in Loc \ {0} /\ vars_buf[x] # FREE
  <2>1. PICK R, g : R = CudaRest /\ g = HandItem(t, k, p)
    OBVIOUS
  <2>2. g \in All(R) /\ g[2] = p /\ IsPort(g[2])
    BY <1>5, <1>6, <2>1, HandItemOf
  <2>. QED
    BY <1>3, <1>4, <2>1, <2>2, HeldPort
<1>. QED
  BY <1>1, <1>3, <1>5, <1>6, <1>7

LEMMA EnterPortKeeps ==
  ASSUME CudaInv, NEW t \in Gid, EnterPort(t)
  PROVE  CudaInv'
<1>1. /\ BufTypes /\ PoolTypes /\ ThreadTypes /\ Balanced(CudaRest) /\ program \in DOMAIN Book
      /\ DOMAIN phase = Gid /\ DOMAIN slice = Gid /\ DOMAIN hand = Gid /\ KeptOnce /\ GridThread(t)
  BY CudaFacts
<1>2. PICK k, h : k = Min(Entering(t)) /\ h = hand[t]
  OBVIOUS
<1>3. PICK p : p = h.ports[k]
  OBVIOUS
<1>4. PICK x : x = val(p)
  OBVIOUS
<1>5. PICK got : got = vars_buf[x]
  OBVIOUS
<1>6. /\ k \in {1, 2} /\ is_var(p) /\ h # <<>> /\ IsHand(h) /\ IsPort(p)
      /\ x \in Loc \ {0} /\ vars_buf[x] # FREE
      /\ HandItem(t, k, p) \in All(CudaRest)
  BY <1>2, <1>3, <1>4, EnteringPort DEF EnterPort
<1>7. /\ UNCHANGED <<program, node_buf, pool, nput, vput, pc, todo, oper, itrs,
                     mode, launches, phase, slice, saved>>
      /\ got \in {NONE, FREE} => /\ vars_buf' = [vars_buf EXCEPT ![x] = NONE]
                                 /\ hand' = [hand EXCEPT ![t].ended = @ \cup {k}]
      /\ got \notin {NONE, FREE} => /\ vars_buf' = [vars_buf EXCEPT ![x] = FREE]
                                    /\ hand' = [hand EXCEPT ![t].ports[k] = got]
  BY <1>2, <1>3, <1>4, <1>5 DEF EnterPort
<1>8. PoolTypes' /\ ThreadTypes'
  BY <1>1, <1>7, ThreadsSame, PortsKept DEF PoolTypes
<1>9. ASSUME NEW q, hand' = [hand EXCEPT ![t] = q], q # <<>>, IsHand(q) PROVE GridInv'
  <2>1. hand'[t] = q /\ DOMAIN hand' = Gid /\ \A u \in Gid \ {t} : hand'[u] = hand[u]
    BY <1>1, <1>9
  <2>2. GridThread(t)'
    <3>1. As(t)' = As(t) /\ Spare(t)' = Spare(t)
      BY <1>7 DEF As, Spare
    <3>2. IsHand(q)'
      BY <1>7, <1>9, PortsKept DEF IsHand
    <3>3. IsHand(hand[t])'
      BY <2>1, <3>2
    <3>. QED
      BY <1>1, <1>2, <1>6, <1>7, <2>1, <3>1, <3>3 DEF GridThread
  <2>3. KeptOnce'
    BY <1>1, <1>7, KeptSame
  <2>. QED
    BY <1>1, <1>7, <2>1, <2>2, <2>3, GridKept DEF CudaInv
<1>10. /\ Changed(HeldInNodes, HeldInNodes', {}, {}) /\ Changed(HeldInTodo, HeldInTodo', {}, {})
       /\ Changed(HeldInOper, HeldInOper', {}, {}) /\ Changed(HeldInPool, HeldInPool', {}, {})
       /\ Changed(HeldInKept, HeldInKept', {}, {})
  BY <1>7, PoolOrVars, KeptSame
<1>11. CASE got \in {NONE, FREE}
  <2>1. PICK q : q = [h EXCEPT !.ended = h.ended \cup {k}]
    OBVIOUS
  <2>2. hand' = [hand EXCEPT ![t] = q]
    BY <1>1, <1>2, <1>7, <1>11, <2>1
  <2>3. DOMAIN q = DOMAIN h /\ \A f \in DOMAIN h \ {"ended"} : q[f] = h[f]
    BY <2>1
  <2>4. /\ {"for", "ports", "ended"} \subseteq DOMAIN h /\ q.for = h.for /\ q.ports = h.ports
        /\ h.for = "leak" => q.var = h.var /\ q.tag = h.tag
    BY <1>6, <2>3 DEF IsHand
  <2>5. IsHand(q) /\ q # <<>>
    <3>1. DOMAIN <<>> = {}
      OBVIOUS
    <3>. QED
      BY <1>6, <2>3, <2>4, <3>1 DEF IsHand
  <2>6. HandItems(t, q) = HandItems(t, h)
    BY <1>6, <2>4, <2>5 DEF HandItems
  <2>7. DOMAIN vars_buf' = Loc /\ \A e \in Loc : vars_buf'[e] = vars_buf[e]
    BY <1>1, <1>5, <1>6, <1>7, <1>11 DEF BufTypes
  <2>8. HeldInHands' = HeldInHands
    <3>1. \A u \in Gid : HandItems(u, hand'[u]) = HandItems(u, hand[u])
      BY <1>1, <1>2, <2>2, <2>6
    <3>. QED
      BY <3>1, InHands
  <2>9. Balanced(CudaRest)'
    <3>1. HeldInVars' = HeldInVars
      BY <2>7, InVars
    <3>2. Kept' = Kept
      BY <1>7 DEF Kept
    <3>3. All(CudaRest)' = All(CudaRest)
      BY <1>7, <2>8, <3>1, <3>2
         DEF All, Held, CudaRest, HeldInNodes, HeldInPool, HeldInTodo, HeldInOper, HeldInKept
    <3>4. \A e \in Loc : OwedVar(e)' = OwedVar(e) /\ OwedNode(e)' = OwedNode(e)
      BY <1>7, <2>7 DEF OwedVar, OwedNode
    <3>. QED
      BY <1>1, <3>3, <3>4 DEF Balanced
  <2>10. BufTypes'
    <3>1. \A e \in Loc : vars_buf'[e] = NONE \/ IsPort(vars_buf[e])'
      <4>. SUFFICES ASSUME NEW e \in Loc PROVE vars_buf'[e] = NONE \/ IsPort(vars_buf[e])'
        OBVIOUS
      <4>1. PICK r : r = vars_buf'[e] /\ r = vars_buf[e]
        BY <2>7
      <4>2. r = NONE \/ IsPort(r)'
        BY <1>1, <1>7, <4>1, PortsKept DEF BufTypes
      <4>. QED
        BY <4>1, <4>2
    <3>2. vars_buf'[0] = FREE
      BY <1>1, <2>7, Sizes DEF BufTypes
    <3>. QED
      BY <1>1, <1>7, <2>7, <3>1, <3>2, PortsKept DEF BufTypes
  <2>. QED
    BY <1>1, <1>7, <1>8, <1>9, <2>2, <2>5, <2>9, <2>10 DEF CudaInv, NetInv
<1>12. CASE got \notin {NONE, FREE}
  <2>1. PICK q : q = Following(h, k, got)
    OBVIOUS
  <2>2. hand' = [hand EXCEPT ![t] = q]
    BY <1>1, <1>2, <1>7, <1>12, <2>1 DEF Following
  <2>3. PICK R, T : R = CudaRest /\ T = CudaRest'
    OBVIOUS
  <2>4. vars_buf' = [vars_buf EXCEPT ![x] = FREE] /\ program' = program /\ node_buf' = node_buf
        /\ nput' = nput /\ vput' = vput
    BY <1>7, <1>12
  <2>5. /\ Changed(HeldInVars, HeldInVars', {VarItem(x, got)}, {})
        /\ OwedVar(x)' = OwedVar(x) - 1
        /\ \A e \in Loc \ {x} : OwedVar(e)' = OwedVar(e)
        /\ \A e \in Loc : OwedNode(e)' = OwedNode(e)
        /\ IsPort(got) /\ BufTypes' /\ VarItem(x, got) \in All(R)
    BY <1>1, <1>5, <1>6, <1>12, <2>4, Substituted
  <2>6. /\ IsHand(q) /\ q # <<>>
        /\ Changed(HandItems(t, h), HandItems(t, q), {HandItem(t, k, p)}, {HandItem(t, k, got)})
    <3>1. IsHand(h) /\ k \in {1, 2} /\ IsPort(got)
      BY <1>6, <2>5
    <3>2. IsHand(q) /\ q # <<>>
      <4>1. IsHand(q)
        BY <2>1, <3>1, HandFollows
      <4>2. q # <<>>
        <5>1. DOMAIN <<>> = {} /\ DOMAIN q # {}
          BY <4>1 DEF IsHand
        <5>. QED
          BY <5>1
      <4>. QED
        BY <4>1, <4>2
    <3>3. Changed(HandItems(t, h), HandItems(t, q), {HandItem(t, k, h.ports[k])}, {HandItem(t, k, got)})
      BY <2>1, <3>1, HandFollows
    <3>. QED
      BY <1>3, <3>2, <3>3
  <2>7. PICK a, b, v : a = HandItem(t, k, p) /\ b = HandItem(t, k, got) /\ v = VarItem(x, got)
    OBVIOUS
  <2>8. Changed(HeldInHands, HeldInHands', {a}, {b})
    BY <1>1, <1>2, <2>2, <2>6, <2>7, HandsChanged
  <2>9. Changed(All(R), All(T)', {v, a}, {b})
    <3>1. Changed(All(R), All(T)', ({} \cup {v} \cup {} \cup {} \cup {}) \cup ({} \cup {a}),
                  ({} \cup {} \cup {} \cup {} \cup {}) \cup ({} \cup {b}))
      BY <1>10, <2>3, <2>5, <2>7, <2>8, GridChanged
    <3>2. /\ ({} \cup {v} \cup {} \cup {} \cup {}) \cup ({} \cup {a}) = {v, a}
          /\ ({} \cup {} \cup {} \cup {} \cup {}) \cup ({} \cup {b}) = {b}
      OBVIOUS
    <3>. QED
      BY <3>1, <3>2
  <2>10. PICK at, src : at = [s \in {1} |-> b] /\ src = [s \in {1} |-> v]
    OBVIOUS
  <2>11. v # a /\ b[2] = v[2] /\ Key(a[2]) = <<"VAR", x>>
    BY <1>4, <1>6, <2>7, Keys DEF HandItem, VarItem
  <2>12. Rearranged(All(R), All(T)', {v, a}, {1}, at, {1}, src)
    BY <2>9, <2>10, <2>11 DEF Changed, Rearranged
  <2>13. Balanced(T)'
    <3>1. a \in {v, a} /\ \A s \in {1} : src[s] # a
      BY <2>10, <2>11
    <3>2. \A i \in {v, a} : (\E s \in {1} : src[s] = i) \/ i = a
      BY <2>10
    <3>3. Balanced(R) /\ x \in Loc
      BY <1>1, <1>6, <2>3
    <3>. QED
      BY <2>5, <2>11, <2>12, <3>1, <3>2, <3>3, MovedButOne
  <2>14. Balanced(CudaRest)'
    BY <2>3, <2>13, Carried
  <2>. QED
    BY <1>1, <1>7, <1>8, <1>9, <2>2, <2>5, <2>6, <2>14 DEF CudaInv, NetInv
<1>. QED
  BY <1>11, <1>12

\* A step of one of the threads of Interactions.
LEMMA InnerKeeps ==
  ASSUME CudaInv, program' = program, UNCHANGED cudaVars, NEW t \in Gid,
         \A R : R = CudaRest /\ Elsewhere(R) /\ NetInv(R) => NetInv(R)',
         pc[As(t)] # "idle" \/ Reducing(t), \A u \in Thread \ {As(t)} : pc'[u] = pc[u]
  PROVE  CudaInv'
<1>1. Elsewhere(CudaRest) /\ GridThread(t)
  BY CudaFacts
<1>2. PICK R : R = CudaRest
  OBVIOUS
<1>3. R = CudaRest'
  BY <1>2, RestUnchanged
<1>4. NetInv(R)'
  BY <1>1, <1>2 DEF CudaInv
<1>5. Balanced(CudaRest)'
  BY <1>3, <1>4, Carried DEF NetInv
<1>6. NetInv(CudaRest)'
  BY <1>4, <1>5 DEF NetInv
<1>7. hand[t] = <<>> /\ phase[t] # "exit"
  BY <1>1 DEF Reducing, Ready, GridThread
<1>8. GridInv'
  BY <1>7, GridInner DEF CudaInv
<1>. QED
  BY <1>6, <1>8 DEF CudaInv

LEMMA LinkageKeeps ==
  ASSUME CudaInv, NEW t \in Gid, Linkage(t)
  PROVE  CudaInv'
<1>1. program' = program /\ UNCHANGED cudaVars
  BY DEF Linkage
<1>2. As(t) \in Thread /\ DOMAIN pc = Thread
  BY GridShape, CudaFacts DEF ThreadTypes
<1>3. PICK u : u = As(t)
  OBVIOUS
<1>4. PushRedex(u) \/ Enter(u) \/ CudaPoint(u)
  BY <1>3 DEF Linkage
<1>5. \A R : R = CudaRest /\ Elsewhere(R) /\ NetInv(R) => NetInv(R)'
  <2>. SUFFICES ASSUME NEW R, Elsewhere(R), NetInv(R) PROVE NetInv(R)'
    OBVIOUS
  <2>1. u \in Thread
    BY <1>2, <1>3
  <2>2. CASE PushRedex(u)
    BY <1>1, <2>1, <2>2, PushRedexKeeps
  <2>3. CASE Enter(u)
    BY <1>1, <2>1, <2>3, EnterKeeps
  <2>4. CASE CudaPoint(u)
    BY <1>1, <2>1, <2>4, CudaPointKeeps
  <2>. QED
    BY <1>4, <2>2, <2>3, <2>4
<1>6. pc[As(t)] # "idle"
  BY <1>3, <1>4 DEF PushRedex, Enter, CudaPoint
<1>7. \E label : pc' = [pc EXCEPT ![u] = label]
  <2>1. CASE PushRedex(u)
    BY <2>1 DEF PushRedex, Links
  <2>2. CASE Enter(u)
    BY <2>2 DEF Enter, GoOn
  <2>3. CASE CudaPoint(u)
    BY <2>3 DEF CudaPoint, Links, GoOn
  <2>. QED
    BY <1>4, <2>1, <2>2, <2>3
<1>8. \A w \in Thread \ {As(t)} : pc'[w] = pc[w]
  BY <1>2, <1>3, <1>7
<1>. QED
  BY <1>1, <1>5, <1>6, <1>8, InnerKeeps

LEMMA ReduceKeeps ==
  ASSUME CudaInv, GridRoomy, NEW t \in Gid, Reduce(t)
  PROVE  CudaInv'
<1>1. program' = program /\ UNCHANGED cudaVars
  BY DEF Reduce
<1>2. As(t) \in Thread /\ DOMAIN pc = Thread
  BY GridShape, CudaFacts DEF ThreadTypes
<1>3. PICK u : u = As(t)
  OBVIOUS
<1>4. u \in Thread /\ (u \in Bounded \/ HasRoom(u))
  BY <1>2, <1>3 DEF GridRoomy
<1>5. \/ Call(u) \/ Void(u) \/ Eras(u) \/ Anni(u) \/ Comm(u) \/ Swit(u) \/ OperTake(u)
      \/ OperEnter(u) \/ Operate(u)
  BY <1>3 DEF Reduce
<1>6. \A R : R = CudaRest /\ Elsewhere(R) /\ NetInv(R) => NetInv(R)'
  <2>. SUFFICES ASSUME NEW R, Elsewhere(R), NetInv(R) PROVE NetInv(R)'
    OBVIOUS
  <2>1. CASE Call(u)
    BY <1>1, <1>4, <2>1, CallKeeps
  <2>2. CASE Void(u)
    BY <1>1, <1>4, <2>2, VoidKeeps
  <2>3. CASE Eras(u)
    BY <1>1, <1>4, <2>3, ErasKeeps
  <2>4. CASE Anni(u)
    BY <1>1, <1>4, <2>4, AnniKeeps
  <2>5. CASE Comm(u)
    BY <1>1, <1>4, <2>5, CommKeeps
  <2>6. CASE Swit(u)
    BY <1>1, <1>4, <2>6, SwitKeeps
  <2>7. CASE OperTake(u)
    BY <1>1, <1>4, <2>7, OperTakeKeeps
  <2>8. CASE OperEnter(u)
    BY <1>1, <1>4, <2>8, OperEnterKeeps
  <2>9. CASE Operate(u)
    BY <1>1, <1>4, <2>9, OperateKeeps
  <2>. QED
    BY <1>5, <2>1, <2>2, <2>3, <2>4, <2>5, <2>6, <2>7, <2>8, <2>9
<1>7. pc[As(t)] # "idle" \/ Reducing(t)
  BY DEF Reduce, OperEnter, Operate
<1>8. pc' = pc \/ \E label : pc' = [pc EXCEPT ![u] = label]
  <2>1. CASE Call(u)
    BY <2>1 DEF Call, Links
  <2>2. CASE Void(u)
    BY <2>2 DEF Void
  <2>3. CASE Eras(u)
    BY <2>3 DEF Eras, Links
  <2>4. CASE Anni(u)
    BY <2>4 DEF Anni, Links
  <2>5. CASE Comm(u)
    BY <2>5 DEF Comm, Links
  <2>6. CASE Swit(u)
    BY <2>6 DEF Swit, Links
  <2>7. CASE OperTake(u)
    BY <2>7 DEF OperTake
  <2>8. CASE OperEnter(u)
    BY <2>8 DEF OperEnter
  <2>9. CASE Operate(u)
    BY <2>9 DEF Operate, Links
  <2>. QED
    BY <1>5, <2>1, <2>2, <2>3, <2>4, <2>5, <2>6, <2>7, <2>8, <2>9
<1>9. \A w \in Thread \ {As(t)} : pc'[w] = pc[w]
  BY <1>2, <1>3, <1>8
<1>. QED
  BY <1>1, <1>6, <1>7, <1>9, InnerKeeps

\* A link that was delayed.
LEMMA DelayedKeeps ==
  ASSUME NEW Rest, Elsewhere(Rest), NetInv(Rest), program' = program, NEW t \in Thread,
         pc[t] = "idle", NEW b \in Bags, NEW r \in DOMAIN pool[b],
         pool' = [pool EXCEPT ![b] = Without(@, r)],
         Links(t, << <<PairOf(r)[1], PairOf(r)[2]>> >>),
         UNCHANGED <<node_buf, vars_buf, nput, vput, oper>>
  PROVE  NetInv(Rest)'
<1>1. /\ BufTypes /\ PoolTypes /\ ThreadTypes /\ Balanced(Rest) /\ program \in DOMAIN Book
      /\ ThreadInv(t) /\ todo[t] = <<>> /\ oper[t] = <<>> /\ IsPair(r)
  BY DEF NetInv, ThreadTypes, ThreadInv, PoolTypes
<1>2. PICK p, q, x, y : Meets(r, p, q, x, y)
  BY <1>1, RedexMeets
<1>3. PICK w : w = <<p, q>>
  OBVIOUS
<1>4. IsPair(w) /\ w[1] = r[x] /\ w[2] = r[y] /\ x # y /\ x \in {1, 2} /\ y \in {1, 2}
  BY <1>2, <1>3 DEF Meets, IsPair
<1>5. /\ Links(t, <<w>>) /\ todo' = [todo EXCEPT ![t] = <<w>>] /\ UNCHANGED <<node_buf, vars_buf, nput, vput, oper>>
  BY <1>2, <1>3 DEF Meets, Links
<1>6. PICK m : m = pool[b][r]
  OBVIOUS
<1>7. PICK o : o = {PoolItem(b, r, m, k) : k \in {1, 2}}
  OBVIOUS
<1>8. Changed(HeldInPool, HeldInPool', o, {}) /\ PoolTypes'
  BY <1>1, <1>6, <1>7, PoolTake
<1>9. PICK n : n = {TodoItem(t, 0, 1, w[1]), TodoItem(t, 0, 2, w[2])}
  OBVIOUS
<1>10. Changed(HeldInTodo, HeldInTodo', {}, n) /\ IsList(<<w>>)
  <2>1. IsList(<<w>>) /\ ListItems(t, <<w>>) = n
    BY <1>4, <1>9, ListOne
  <2>2. Changed(ListItems(t, todo[t]), ListItems(t, <<w>>), {}, n)
    BY <1>1, <2>1, ListEmpty DEF Changed
  <2>. QED
    BY <1>1, <1>5, <2>1, <2>2, TodoChanged DEF ThreadTypes
<1>11. Changed(All(Rest), All(Rest)', o, n)
  <2>1. /\ HeldInNodes' = HeldInNodes /\ HeldInVars' = HeldInVars /\ HeldInOper' = HeldInOper
    BY <1>5 DEF HeldInNodes, HeldInVars, HeldInOper
  <2>2. /\ Changed(HeldInNodes, HeldInNodes', {}, {}) /\ Changed(HeldInVars, HeldInVars', {}, {})
        /\ Changed(HeldInOper, HeldInOper', {}, {})
    BY <2>1, Unchanged
  <2>3. Changed(All(Rest), All(Rest)', {} \cup {} \cup o \cup {} \cup {}, {} \cup {} \cup {} \cup n \cup {})
    BY <1>8, <1>10, <2>2, NetChanged
  <2>4. {} \cup {} \cup o \cup {} \cup {} = o /\ {} \cup {} \cup {} \cup n \cup {} = n
    OBVIOUS
  <2>. QED
    BY <2>3, <2>4
<1>12. PICK z : z = [k \in {1, 2} |-> IF k = 1 THEN x ELSE y]
  OBVIOUS
<1>13. /\ \A k \in {1, 2} : z[k] \in {1, 2} /\ w[k] = r[z[k]]
       /\ z[1] # z[2] /\ \A l \in {1, 2} : \E k \in {1, 2} : z[k] = l
  BY <1>4, <1>12
<1>14. PICK f, g : /\ f = [k \in {1, 2} |-> PoolItem(b, r, m, z[k])]
                   /\ g = [k \in {1, 2} |-> TodoItem(t, 0, k, w[k])]
  OBVIOUS
<1>15. o = {f[k] : k \in {1, 2}} /\ n = {g[k] : k \in {1, 2}}
  <2>1. \A h : h \in o <=> \E k \in {1, 2} : h = PoolItem(b, r, m, k)
    BY <1>7
  <2>2. \A h : h \in o <=> \E k \in {1, 2} : h = PoolItem(b, r, m, z[k])
    BY <1>13, <2>1
  <2>3. o = {f[k] : k \in {1, 2}}
    BY <1>14, <2>2
  <2>. QED
    BY <1>9, <1>14, <2>3
<1>16. f[1] # f[2] /\ g[1] # g[2] /\ \A k \in {1, 2} : f[k][2] = g[k][2]
  <2>1. g[1] # g[2] /\ \A k \in {1, 2} : g[k][2] = w[k] /\ f[k][2] = r[z[k]]
    BY <1>14 DEF PoolItem, TodoItem
  <2>2. f[1] # f[2]
    BY <1>13, <1>14, PoolItemOf
  <2>. QED
    BY <1>13, <2>1, <2>2
<1>17. \A c \in Loc : OwedVar(c)' = OwedVar(c) /\ OwedNode(c)' = OwedNode(c)
  BY <1>5 DEF OwedVar, OwedNode
<1>18. Balanced(Rest)'
  BY <1>1, <1>11, <1>15, <1>16, <1>17, MovedTwo
<1>19. ThreadTypes'
  <2>1. /\ DOMAIN pc' = Thread /\ DOMAIN todo' = Thread
        /\ \A u \in Thread \ {t} : pc'[u] = pc[u] /\ todo'[u] = todo[u]
        /\ ThreadInv(t)'
    BY <1>1, <1>5, <1>10, LinksTyped
  <2>. QED
    BY <1>1, <1>5, <2>1, ThreadsKept DEF ThreadTypes
<1>20. BufTypes'
  BY <1>1, <1>5, PortsKept DEF BufTypes
<1>. QED
  BY <1>1, <1>8, <1>18, <1>19, <1>20 DEF NetInv

\* The node c is taken, and nothing is stored.
LEMMA NodeTaken ==
  ASSUME BufTypes, program' = program, NEW t, NEW c \in Loc, node_buf[c] # FREE_NODE,
         node_buf' = [node_buf EXCEPT ![c] = FREE_NODE], UNCHANGED <<vars_buf, nput, vput>>
  PROVE  /\ BufTypes'
         /\ Changed(HeldInNodes, HeldInNodes', Remains({c}), {})
         /\ Changed(HeldInVars, HeldInVars', {}, {})
         /\ OwedNode(c)' = OwedNode(c) - 1 /\ \A e \in Loc \ {c} : OwedNode(e)' = OwedNode(e)
         /\ \A e \in Loc : OwedVar(e)' = OwedVar(e)
<1>1. DOMAIN node_buf = Loc /\ DOMAIN vars_buf = Loc /\ nput \in [Thread -> Nat] /\ vput \in [Thread -> Nat]
  BY DEF BufTypes
<1>2. PICK e, z : e = <<>> /\ z = 0
  OBVIOUS
<1>3. PICK T : T = {c}
  OBVIOUS
<1>4. \A j : j \notin 1 .. z
  BY <1>2
<1>5. Stored(t, T, e, e, z, e, z)
  BY <1>1, <1>3, <1>4 DEF Stored
<1>6. BufTypes'
  BY <1>1, <1>4, <1>5, CellsTyped
<1>7. /\ Changed(HeldInNodes, HeldInNodes', Remains(T), StoredItems(e, e, z))
      /\ Changed(HeldInVars, HeldInVars', {}, {})
  BY <1>4, <1>5, CellsHeld
<1>8. StoredItems(e, e, z) = {}
  BY <1>4 DEF StoredItems
<1>9. /\ OwedNode(c)' = OwedNode(c) - 1 /\ \A x \in Loc \ {c} : OwedNode(x)' = OwedNode(x)
      /\ \A x \in Loc : OwedVar(x)' = OwedVar(x)
  BY <1>1 DEF OwedNode, OwedVar
<1>. QED
  BY <1>3, <1>6, <1>7, <1>8, <1>9

\* The node b of a redex is taken: its ports go in the thread's hands, with the
\* variable a that it is to be linked with.
LeakTakes(t, r, a, b, x, y, q) ==
  /\ Meets(r, a, b, x, y) /\ is_nod(b) /\ r \in DOMAIN pool[t]
  /\ pool' = [pool EXCEPT ![t] = Without(@, r)]
  /\ node_buf' = [node_buf EXCEPT ![val(b)] = FREE_NODE]
  /\ q = [for |-> "leak", var |-> a, tag |-> tag(b), ports |-> node_buf[val(b)], ended |-> {}]
  /\ hand' = [hand EXCEPT ![t] = q]
  /\ Reducing(t)
  /\ UNCHANGED <<program, vars_buf, nput, vput, pc, todo, oper, mode, phase, slice, saved>>

LEMMA LeakTakesKeeps ==
  ASSUME CudaInv, NEW t \in Gid, NEW r, NEW a, NEW b, NEW x, NEW y, NEW q,
         LeakTakes(t, r, a, b, x, y, q)
  PROVE  CudaInv'
<1>1. /\ BufTypes /\ PoolTypes /\ ThreadTypes /\ Balanced(CudaRest) /\ program \in DOMAIN Book
      /\ DOMAIN phase = Gid /\ DOMAIN slice = Gid /\ DOMAIN hand = Gid /\ KeptOnce /\ GridThread(t)
  BY CudaFacts
<1>2. /\ Meets(r, a, b, x, y) /\ is_nod(b) /\ r \in DOMAIN pool[t]
      /\ pool' = [pool EXCEPT ![t] = Without(@, r)]
      /\ node_buf' = [node_buf EXCEPT ![val(b)] = FREE_NODE]
      /\ hand' = [hand EXCEPT ![t] = q]
      /\ Reducing(t)
      /\ UNCHANGED <<program, vars_buf, nput, vput, pc, todo, oper, mode, phase, slice, saved>>
  BY DEF LeakTakes
<1>3. t \in Bags /\ hand[t] = <<>> /\ pc[As(t)] = "idle" /\ phase[t] \notin {"exit", "load"}
  BY <1>1, <1>2, GridShape DEF Reducing, Ready
<1>4. PICK c, w : c = val(b) /\ w = node_buf[c]
  OBVIOUS
<1>5. /\ DOMAIN q = {"for", "var", "tag", "ports", "ended"}
      /\ q.for = "leak" /\ q.var = a /\ q.tag = tag(b) /\ q.ports = w
  BY <1>4 DEF LeakTakes
<1>6. /\ x \in {1, 2} /\ y \in {1, 2} /\ x # y /\ a = r[x] /\ b = r[y] /\ IsPort(a) /\ IsPort(b)
  BY <1>2 DEF Meets
<1>7. PICK m : m = pool[t][r]
  OBVIOUS
<1>8. PICK o : o = {PoolItem(t, r, m, k) : k \in {1, 2}}
  OBVIOUS
<1>9. Changed(HeldInPool, HeldInPool', o, {}) /\ PoolTypes'
  BY <1>1, <1>2, <1>3, <1>7, <1>8, PoolTake
<1>10. PICK R, T : R = CudaRest /\ T = CudaRest'
  OBVIOUS
<1>11. PICK ga, gb : ga = PoolItem(t, r, m, x) /\ gb = PoolItem(t, r, m, y)
  OBVIOUS
<1>12. /\ o = {ga, gb} /\ ga # gb /\ gb \in All(R) /\ ga[2] = a /\ gb[2] = b
  <2>1. \A k : k \in {1, 2} <=> k = x \/ k = y
    BY <1>6
  <2>2. o = {ga, gb}
    BY <1>8, <1>11, <2>1
  <2>3. ga # gb
    BY <1>6, <1>11, PoolItemOf
  <2>4. gb \in HeldInPool
    BY <1>9, <2>2 DEF Changed
  <2>. QED
    BY <1>6, <1>11, <2>2, <2>3, <2>4 DEF All, Held, PoolItem
<1>13. c \in Loc /\ w # FREE_NODE /\ IsPair(w)
  <2>1. Balanced(R)
    BY <1>1, <1>10
  <2>2. c \in Loc /\ w # FREE_NODE
    BY <1>1, <1>2, <1>4, <1>6, <1>12, <2>1, HeldPort
  <2>. QED
    BY <1>1, <1>4, <2>2 DEF BufTypes
<1>14. /\ BufTypes'
       /\ Changed(HeldInNodes, HeldInNodes', Remains({c}), {})
       /\ Changed(HeldInVars, HeldInVars', {}, {})
       /\ OwedNode(c)' = OwedNode(c) - 1 /\ \A e \in Loc \ {c} : OwedNode(e)' = OwedNode(e)
       /\ \A e \in Loc : OwedVar(e)' = OwedVar(e)
  BY <1>1, <1>2, <1>4, <1>13, NodeTaken
<1>15. PICK g1, g2 : g1 = NodeItem(c, 1, w[1]) /\ g2 = NodeItem(c, 2, w[2])
  OBVIOUS
<1>16. Remains({c}) = {g1, g2} /\ g1 # g2 /\ g1[2] = w[1] /\ g2[2] = w[2]
  BY <1>4, <1>15 DEF Remains, NodeItem
<1>17. PICK h1, h2, h3 : h1 = HandItem(t, 1, w[1]) /\ h2 = HandItem(t, 2, w[2]) /\ h3 = LeakItem(t, a)
  OBVIOUS
<1>18. q # <<>>
  <2>1. DOMAIN <<>> = {}
    OBVIOUS
  <2>. QED
    BY <1>5, <2>1
<1>19. HandItems(t, q) = {h1, h2, h3}
  <2>1. \A h : h \in HandItems(t, q) <=> (\E k \in {1, 2} : h = HandItem(t, k, w[k])) \/ h = LeakItem(t, a)
    BY <1>5, <1>18, InHandItems
  <2>. QED
    BY <1>17, <2>1
<1>20. h1 # h2 /\ h1 # h3 /\ h2 # h3 /\ h1[2] = w[1] /\ h2[2] = w[2] /\ h3[2] = a
  BY <1>17 DEF HandItem, LeakItem
<1>21. Changed(HeldInHands, HeldInHands', {}, {h1, h2, h3})
  <2>1. Changed(HandItems(t, hand[t]), HandItems(t, q), {}, {h1, h2, h3})
    BY <1>3, <1>19, NoHand DEF Changed
  <2>. QED
    BY <1>1, <1>2, <2>1, HandsChanged
<1>22. PICK old, new, S : old = {g1, g2, ga, gb} /\ new = {h1, h2, h3} /\ S = {1, 2, 3}
  OBVIOUS
<1>23. Changed(All(R), All(T)', old, new)
  <2>1. HeldInTodo' = HeldInTodo /\ HeldInOper' = HeldInOper
    BY <1>2 DEF HeldInTodo, HeldInOper
  <2>2. /\ Changed(HeldInTodo, HeldInTodo', {}, {}) /\ Changed(HeldInOper, HeldInOper', {}, {})
    BY <2>1, Unchanged
  <2>3. Changed(HeldInKept, HeldInKept', {}, {})
    BY <1>2, KeptSame
  <2>4. /\ Changed(HeldInNodes, HeldInNodes', {g1, g2}, {}) /\ Changed(HeldInPool, HeldInPool', {ga, gb}, {})
    BY <1>9, <1>12, <1>14, <1>16
  <2>5. Changed(All(R), All(T)', ({g1, g2} \cup {} \cup {ga, gb} \cup {} \cup {}) \cup ({} \cup {}),
                ({} \cup {} \cup {} \cup {} \cup {}) \cup ({} \cup {h1, h2, h3}))
    BY <1>10, <1>14, <1>21, <2>2, <2>3, <2>4, GridChanged
  <2>6. /\ ({g1, g2} \cup {} \cup {ga, gb} \cup {} \cup {}) \cup ({} \cup {}) = old
        /\ ({} \cup {} \cup {} \cup {} \cup {}) \cup ({} \cup {h1, h2, h3}) = new
    BY <1>22
  <2>. QED
    BY <2>5, <2>6
<1>24. PICK at, src : /\ at = [i \in S |-> IF i = 1 THEN h1 ELSE IF i = 2 THEN h2 ELSE h3]
                      /\ src = [i \in S |-> IF i = 1 THEN g1 ELSE IF i = 2 THEN g2 ELSE ga]
  OBVIOUS
<1>25. /\ at[1] = h1 /\ at[2] = h2 /\ at[3] = h3 /\ src[1] = g1 /\ src[2] = g2 /\ src[3] = ga
  BY <1>22, <1>24
<1>26. ga # g1 /\ ga # g2 /\ gb # g1 /\ gb # g2
  BY <1>11, <1>15 DEF PoolItem, NodeItem
<1>27. Rearranged(All(R), All(T)', old, S, at, S, src)
  <2>1. new = {at[s] : s \in S}
    BY <1>22, <1>25
  <2>2. \A s, u \in S : at[s] = at[u] => s = u
    BY <1>20, <1>22, <1>25
  <2>3. \A s \in S : src[s] \in old /\ src[s][2] = at[s][2]
    BY <1>12, <1>16, <1>20, <1>22, <1>25
  <2>4. \A s, u \in S : src[s] = src[u] => s = u
    BY <1>16, <1>22, <1>25, <1>26
  <2>. QED
    BY <1>23, <2>1, <2>2, <2>3, <2>4 DEF Changed, Rearranged
<1>28. Balanced(CudaRest)'
  <2>1. Key(gb[2]) = <<"NODE", c>>
    BY <1>2, <1>4, <1>12, Keys
  <2>2. gb \in old /\ \A s \in S : src[s] # gb
    BY <1>12, <1>22, <1>25, <1>26
  <2>3. \A h \in old : (\E s \in S : src[s] = h) \/ h = gb
    BY <1>22, <1>25
  <2>4. Balanced(R)
    BY <1>1, <1>10
  <2>5. Balanced(T)'
    BY <1>13, <1>14, <1>27, <2>1, <2>2, <2>3, <2>4, MovedButNode
  <2>. QED
    BY <1>10, <2>5, Carried
<1>29. ThreadTypes'
  <2>1. \A e \in Loc : node_buf[e] = FREE_NODE => node_buf'[e] = FREE_NODE
    BY <1>1, <1>2, <1>13 DEF BufTypes
  <2>2. ASSUME NEW u \in Thread PROVE ThreadInv(u)'
    <3>1. ThreadInv(u)
      BY <1>1 DEF ThreadTypes
    <3>2. Part(u) \subseteq Loc
      BY Sizes
    <3>3. IsOper(u, oper[u]) => IsOper(u, oper[u])'
      BY <1>2, <2>1, <3>2, PortsKept DEF IsOper
    <3>4. IsList(todo[u])' <=> IsList(todo[u])
      BY <1>2, PortsKept
    <3>. QED
      BY <1>2, <3>1, <3>3, <3>4 DEF ThreadInv, Linking
  <2>. QED
    BY <1>1, <1>2, <2>2 DEF ThreadTypes
<1>30. GridInv'
  <2>1. hand'[t] = q /\ DOMAIN hand' = Gid /\ \A u \in Gid \ {t} : hand'[u] = hand[u]
    BY <1>1, <1>2
  <2>2. GridThread(t)'
    <3>1. As(t)' = As(t) /\ Spare(t)' = Spare(t)
      BY <1>2 DEF As, Spare
    <3>2. IsHand(q)'
      <4>1. IsPair(w)' /\ IsPort(a)' /\ tag(b) \in Nodes
        BY <1>2, <1>6, <1>13, PortsKept DEF is_nod
      <4>. QED
        BY <1>5, <4>1 DEF IsHand
    <3>3. IsHand(hand[t])'
      BY <2>1, <3>2
    <3>. QED
      BY <1>1, <1>2, <1>3, <2>1, <3>1, <3>3 DEF GridThread
  <2>3. KeptOnce'
    BY <1>1, <1>2, KeptSame
  <2>. QED
    BY <1>1, <1>2, <2>1, <2>2, <2>3, GridKept DEF CudaInv
<1>. QED
  BY <1>1, <1>2, <1>9, <1>14, <1>28, <1>29, <1>30 DEF CudaInv, NetInv

LEMMA ReduceLinkKeeps ==
  ASSUME CudaInv, NEW t \in Gid, ReduceLink(t)
  PROVE  CudaInv'
<1>1. /\ BufTypes /\ PoolTypes /\ ThreadTypes /\ GridThread(t)
  BY CudaFacts
<1>2. PICK u : u = As(t)
  OBVIOUS
<1>3. u \in Thread /\ BagOf[u] = t /\ t \in Bags
  BY <1>2, GridShape
<1>4. Reducing(t) /\ pc[u] = "idle"
  BY <1>2 DEF ReduceLink, Reducing, Ready
<1>5. PICK r \in Redexes(u, "LINK") :
        LET a == PairOf(r)[1]
            b == PairOf(r)[2]
        IN  /\ pool' = Popped(t, r)
            /\ IF is_global(a) /\ is_nod(b) /\ is_local(b)
               THEN /\ node_buf' = [node_buf EXCEPT ![val(b)] = FREE_NODE]
                    /\ hand' = [hand EXCEPT ![t] =
                         [for |-> "leak", var |-> a, tag |-> tag(b),
                          ports |-> node_buf[val(b)], ended |-> {}]]
                    /\ UNCHANGED <<pc, todo>>
               ELSE Links(u, << <<a, b>> >>) /\ UNCHANGED <<node_buf, hand>>
            /\ UNCHANGED <<program, vars_buf, nput, vput, oper, itrs,
                           mode, launches, phase, slice, saved>>
  BY <1>2 DEF ReduceLink, InteractLink
<1>6. r \in DOMAIN pool[t] /\ IsPair(r)
  BY <1>1, <1>3 DEF Redexes, PoolTypes
<1>7. PICK a, b, x, y : Meets(r, a, b, x, y)
  BY <1>6, RedexMeets
<1>8. a = PairOf(r)[1] /\ b = PairOf(r)[2]
  BY <1>7 DEF Meets
<1>9. pool' = [pool EXCEPT ![t] = Without(@, r)]
  BY <1>5 DEF Popped
<1>10. UNCHANGED <<program, vars_buf, nput, vput, oper, mode, launches, phase, slice, saved>>
  BY <1>5
<1>11. CASE is_global(a) /\ is_nod(b) /\ is_local(b)
  <2>1. PICK q : q = [for |-> "leak", var |-> a, tag |-> tag(b), ports |-> node_buf[val(b)], ended |-> {}]
    OBVIOUS
  <2>2. /\ node_buf' = [node_buf EXCEPT ![val(b)] = FREE_NODE]
        /\ hand' = [hand EXCEPT ![t] = q] /\ UNCHANGED <<pc, todo>>
    BY <1>5, <1>8, <1>11, <2>1
  <2>3. LeakTakes(t, r, a, b, x, y, q)
    BY <1>4, <1>6, <1>7, <1>9, <1>10, <1>11, <2>1, <2>2 DEF LeakTakes
  <2>. QED
    BY <2>3, LeakTakesKeeps
<1>12. CASE ~(is_global(a) /\ is_nod(b) /\ is_local(b))
  <2>1. Links(u, << <<PairOf(r)[1], PairOf(r)[2]>> >>) /\ UNCHANGED <<node_buf, hand>>
    BY <1>5, <1>8, <1>12
  <2>2. UNCHANGED cudaVars
    BY <1>10, <2>1 DEF cudaVars
  <2>3. \A R : R = CudaRest /\ Elsewhere(R) /\ NetInv(R) => NetInv(R)'
    <3>. SUFFICES ASSUME NEW R, Elsewhere(R), NetInv(R) PROVE NetInv(R)'
      OBVIOUS
    <3>. QED
      BY <1>3, <1>4, <1>6, <1>9, <1>10, <2>1, DelayedKeeps
  <2>4. \A w \in Thread \ {As(t)} : pc'[w] = pc[w]
    BY <1>1, <1>2, <1>3, <2>1 DEF Links, ThreadTypes
  <2>. QED
    BY <1>4, <1>10, <2>2, <2>3, <2>4, InnerKeeps
<1>. QED
  BY <1>11, <1>12

LEMMA PhaseStepsKeep ==
  ASSUME CudaInv, NEW t \in Gid, Loaded(t) \/ Stop(t) \/ Saved(t) \/ Exit(t)
  PROVE  CudaInv'
<1>1. GridThread(t)
  BY CudaFacts
<1>2. CASE Loaded(t)
  BY <1>2, PhaseKeeps DEF Loaded
<1>3. CASE Stop(t)
  <2>1. slice[t] = {}
    BY <1>1, <1>3 DEF Stop, Ready, GridThread
  <2>. QED
    BY <1>3, <2>1, PhaseKeeps DEF Stop
<1>4. CASE Saved(t)
  <2>1. slice[t] = {}
    BY <1>1, <1>4 DEF Saved, Ready, GridThread
  <2>. QED
    BY <1>4, <2>1, PhaseKeeps DEF Saved
<1>5. CASE Exit(t)
  <2>1. slice[t] = {}
    BY <1>1, <1>5 DEF Exit, Ready, GridThread
  <2>. QED
    BY <1>5, <2>1, PhaseKeeps DEF Exit
<1>. QED
  BY <1>2, <1>3, <1>4, <1>5

\* A step that moves ports, and makes those of the cells it stores in.
LEMMA MovedAndMade ==
  ASSUME NEW Rest, NEW Then, Balanced(Rest), NEW Old, NEW S, NEW at, NEW I, NEW src,
         Rearranged(All(Rest), All(Then)', Old, S, at, I, src),
         \A h \in Old : \E s \in I : src[s] = h,
         NEW g, NEW n, NEW v, NEW l, NEW stored, NEW m, Stored(g, {}, n, v, l, stored, m),
         \A j \in 1 .. m : stored[j] # FREE_NODE,
         \A c \in Loc : Counted(Made(S, at, I, <<"VAR", c>>), IF \E j \in 1 .. l : v[j] = c THEN 2 ELSE 0),
         \A c \in Loc : Counted(Made(S, at, I, <<"NODE", c>>), IF \E j \in 1 .. m : n[j] = c THEN 1 ELSE 0)
  PROVE  Balanced(Then)'
<1>1. \A x : Lost(Old, I, src, x) = {}
  BY DEF Lost
<1>2. \A x : Counted(Lost(Old, I, src, x), 0)
  BY <1>1, CountedSmall
<1>3. PICK e : e = {}
  OBVIOUS
<1>4. TalliedVars(Old, S, at, I, src)
  <2>. SUFFICES ASSUME NEW c \in Loc
                PROVE  \E a, b : /\ Counted(Lost(Old, I, src, <<"VAR", c>>), a)
                                 /\ Counted(Made(S, at, I, <<"VAR", c>>), b)
                                 /\ OwedVar(c)' = OwedVar(c) - a + b
    BY DEF TalliedVars
  <2>1. PICK b : b = IF \E j \in 1 .. l : v[j] = c THEN 2 ELSE 0
    OBVIOUS
  <2>2. OwedVar(c)' = OwedVar(c) - 0 + b
    BY <1>3, <2>1, CellsOwed
  <2>. QED
    BY <1>2, <2>1, <2>2
<1>5. TalliedNodes(Old, S, at, I, src)
  <2>. SUFFICES ASSUME NEW c \in Loc
                PROVE  \E a, b : /\ Counted(Lost(Old, I, src, <<"NODE", c>>), a)
                                 /\ Counted(Made(S, at, I, <<"NODE", c>>), b)
                                 /\ OwedNode(c)' = OwedNode(c) - a + b
    BY DEF TalliedNodes
  <2>1. PICK b : b = IF \E j \in 1 .. m : n[j] = c THEN 1 ELSE 0
    OBVIOUS
  <2>2. OwedNode(c)' = OwedNode(c) - 0 + b
    BY <1>3, <2>1, CellsOwed
  <2>. QED
    BY <1>2, <2>1, <2>2
<1>. QED
  BY <1>4, <1>5, Rebalanced

LEMMA ListItemsTwo ==
  ASSUME NEW t, NEW p, NEW q, NEW w, w = <<p, q>>
  PROVE  ListItems(t, w) = {TodoItem(t, 1, 1, p[1]), TodoItem(t, 1, 2, p[2]),
                            TodoItem(t, 0, 1, q[1]), TodoItem(t, 0, 2, q[2])}
<1>1. DOMAIN w = {1, 2} /\ w[1] = p /\ w[2] = q /\ Len(w) - 1 = 1 /\ Len(w) - 2 = 0
  OBVIOUS
<1>2. PICK l : l = Len(w)
  OBVIOUS
<1>3. \A h : h \in ListItems(t, w) <=> \E i \in DOMAIN w, k \in {1, 2} : h = TodoItem(t, l - i, k, w[i][k])
  BY <1>2 DEF ListItems
<1>4. l - 1 = 1 /\ l - 2 = 0
  BY <1>1, <1>2
<1>5. \A h : h \in ListItems(t, w) <=> \/ h = TodoItem(t, l - 1, 1, p[1]) \/ h = TodoItem(t, l - 1, 2, p[2])
                                       \/ h = TodoItem(t, l - 2, 1, q[1]) \/ h = TodoItem(t, l - 2, 2, q[2])
  BY <1>1, <1>3
<1>. QED
  BY <1>4, <1>5

LEMMA VarPort ==
  \A c : /\ Key(VarP(c)) = <<"VAR", c>> /\ tag(VarP(c)) = "VAR" /\ val(VarP(c)) = c /\ is_var(VarP(c))
         /\ c \in Loc => IsPort(VarP(c))
<1>1. \A c : tag(VarP(c)) = "VAR" /\ val(VarP(c)) = c /\ VarP(c) = <<tag(VarP(c)), val(VarP(c))>>
  BY DEF VarP, tag, val
<1>2. \A c : is_var(VarP(c))
  BY <1>1 DEF is_var
<1>3. \A c : Key(VarP(c)) = <<"VAR", c>>
  BY <1>1, <1>2 DEF Key
<1>4. \A c : c \in Loc => IsPort(VarP(c))
  BY <1>1 DEF IsPort
<1>. QED
  BY <1>1, <1>2, <1>3, <1>4

\* A thread that links nothing allocates in the global memory and links pairs.
GlobalRewrite(t, n, v, l, stored, m, pairs) ==
  /\ program' = program /\ oper' = oper /\ pc[As(t)] = "idle"
  /\ Stored(Global(t), {}, n, v, l, stored, m)
  /\ \A j \in 1 .. m : IsPair(stored[j]) /\ stored[j] # FREE_NODE
  /\ IsList(pairs) /\ Links(As(t), pairs)
  /\ nput' \in [Thread -> Nat] /\ vput' \in [Thread -> Nat]

LEMMA GlobalRewrites ==
  ASSUME CudaInv, NEW t \in Gid, NEW n, NEW v, NEW l, NEW stored, NEW m, NEW pairs,
         GlobalRewrite(t, n, v, l, stored, m, pairs)
  PROVE  /\ BufTypes' /\ ThreadTypes' /\ \A u \in Thread \ {As(t)} : pc'[u] = pc[u]
         /\ Changed(HeldInNodes, HeldInNodes', {}, StoredItems(n, stored, m))
         /\ Changed(HeldInVars, HeldInVars', {}, {})
         /\ Changed(HeldInTodo, HeldInTodo', {}, ListItems(As(t), pairs))
         /\ Changed(HeldInOper, HeldInOper', {}, {})
<1>1. BufTypes /\ ThreadTypes /\ GridThread(t)
  BY CudaFacts
<1>2. PICK u, g : u = As(t) /\ g = Global(t)
  OBVIOUS
<1>3. /\ program' = program /\ oper' = oper /\ pc[u] = "idle"
      /\ Stored(g, {}, n, v, l, stored, m)
      /\ \A j \in 1 .. m : IsPair(stored[j]) /\ stored[j] # FREE_NODE
      /\ IsList(pairs) /\ Links(u, pairs)
      /\ nput' \in [Thread -> Nat] /\ vput' \in [Thread -> Nat]
  BY <1>2 DEF GlobalRewrite
<1>4. PICK T : T = {}
  OBVIOUS
<1>5. BufTypes'
  BY <1>1, <1>3, <1>4, CellsTyped
<1>6. Changed(HeldInNodes, HeldInNodes', Remains(T), StoredItems(n, stored, m))
      /\ Changed(HeldInVars, HeldInVars', {}, {})
  BY <1>3, <1>4, CellsHeld
<1>7. Remains(T) = {}
  BY <1>4 DEF Remains
<1>8. u \in Thread /\ g \in Thread /\ (u = g \/ pc[g] = "idle")
  BY <1>1, <1>2, GridShape, Halves DEF GridThread
<1>9. ThreadInv(u) /\ todo[u] = <<>> /\ oper[u] = <<>>
  BY <1>1, <1>3, <1>8 DEF ThreadTypes, ThreadInv
<1>10. Changed(HeldInTodo, HeldInTodo', {}, ListItems(u, pairs))
  <2>1. Changed(ListItems(u, todo[u]), ListItems(u, pairs), {}, ListItems(u, pairs))
    BY <1>9, ListEmpty DEF Changed
  <2>2. todo' = [todo EXCEPT ![u] = pairs]
    BY <1>3 DEF Links
  <2>. QED
    BY <1>1, <1>8, <2>1, <2>2, TodoChanged DEF ThreadTypes
<1>11. HeldInOper' = HeldInOper
  BY <1>3 DEF HeldInOper
<1>12. /\ DOMAIN pc' = Thread /\ DOMAIN todo' = Thread
       /\ \A w \in Thread \ {u} : pc'[w] = pc[w] /\ todo'[w] = todo[w]
       /\ ThreadInv(u)'
  BY <1>1, <1>3, <1>8, <1>9, LinksTyped
<1>13. ThreadTypes'
  <2>1. ASSUME NEW w \in Thread \ {u}, pc[w] \in {"oper", "operate"}, NEW c \in Part(w),
               node_buf[c] = FREE_NODE
        PROVE  node_buf'[c] = FREE_NODE
    <3>1. w # g
      BY <1>8, <2>1
    <3>2. c \in Loc /\ c \notin Part(g)
      BY <1>8, <3>1, Sizes
    <3>. QED
      BY <1>3, <2>1, <3>2 DEF Stored
  <2>. QED
    BY <1>1, <1>3, <1>8, <1>12, <2>1, ThreadsKept DEF ThreadTypes
<1>. QED
  BY <1>2, <1>5, <1>6, <1>7, <1>10, <1>11, <1>12, <1>13, Unchanged

\* What Save does: X and Y are the variables v[1] and v[2].
Saves(t, r, v, X, Y) ==
  /\ phase[t] = "save" /\ pc[As(t)] = "idle" /\ hand[t] = <<>> /\ r \in DOMAIN pool[t]
  /\ X = VarP(v[1]) /\ Y = VarP(v[2])
  /\ pool' = [pool EXCEPT ![t] = Without(@, r)]
  /\ Fresh(v, 2, Global(t), vars_buf, FREE) /\ Rewrite(Global(t), {}, <<>>, <<>>, v)
  /\ nput' \in [Thread -> Nat] /\ vput' \in [Thread -> Nat]
  /\ Links(As(t), << <<X, r[1]>>, <<Y, r[2]>> >>)
  /\ saved' = saved \cup {<<X, Y>>}
  /\ UNCHANGED <<program, oper, mode, phase, slice, hand>>

LEMMA SaveSteps ==
  ASSUME CudaInv, GridRoomy, NEW t \in Gid, Save(t)
  PROVE  \E r, v, X, Y : Saves(t, r, v, X, Y)
<1>1. BufTypes /\ GridThread(t)
  BY CudaFacts
<1>2. PICK g : g = Global(t)
  OBVIOUS
<1>3. PICK r, v : r = (CHOOSE x \in Lows(t) : TRUE) /\ v = vars_alloc(g, 2)
  OBVIOUS
<1>4. PICK X, Y : X = VarP(v[1]) /\ Y = VarP(v[2])
  OBVIOUS
<1>5. /\ Ready(t, "save") /\ Lows(t) # {} /\ pool' = Popped(t, r) /\ get_resources(g, 0, 2)
      /\ Rewrite(g, {}, <<>>, <<>>, v) /\ Links(As(t), << <<X, r[1]>>, <<Y, r[2]>> >>)
      /\ saved' = saved \cup {<<X, Y>>}
      /\ UNCHANGED <<program, oper, itrs, mode, launches, phase, slice, hand>>
  BY <1>2, <1>3, <1>4 DEF Save
<1>6. r \in DOMAIN pool[t]
  BY <1>3, <1>5 DEF Lows
<1>7. g \in Thread /\ Finds(g, 0, 2)
  BY <1>2, <1>5, Halves DEF GridRoomy
<1>8. Fresh(v, 2, g, vars_buf, FREE) /\ nput' \in [Thread -> Nat] /\ vput' \in [Thread -> Nat]
  BY <1>1, <1>3, <1>5, <1>7, Allocates
<1>9. Saves(t, r, v, X, Y)
  BY <1>2, <1>4, <1>5, <1>6, <1>8 DEF Saves, Ready, Popped
<1>. QED
  BY <1>9

\* The two variables saved are made twice: in the redex saved, and in a link.
SavedSlots(at, S, I, v, a, b, m) ==
  /\ S = 1 .. 6 /\ I = {2, 4} /\ v[1] = a /\ v[2] = b /\ a # b /\ m = 0
  /\ \A i \in {1, 5} : Key(at[i][2]) = <<"VAR", a>>
  /\ \A i \in {3, 6} : Key(at[i][2]) = <<"VAR", b>>

SavedTwice(at, S, I, v, n, m) ==
  /\ \A c \in Loc : Counted(Made(S, at, I, <<"VAR", c>>), IF \E j \in 1 .. 2 : v[j] = c THEN 2 ELSE 0)
  /\ \A c \in Loc : Counted(Made(S, at, I, <<"NODE", c>>), IF \E j \in 1 .. m : n[j] = c THEN 1 ELSE 0)

LEMMA SaveMakes ==
  ASSUME NEW at, NEW S, NEW I, NEW v, NEW a, NEW b, NEW n, NEW m, SavedSlots(at, S, I, v, a, b, m)
  PROVE  SavedTwice(at, S, I, v, n, m)
<1>0. /\ S = 1 .. 6 /\ I = {2, 4} /\ v[1] = a /\ v[2] = b /\ a # b /\ m = 0
      /\ \A i \in {1, 5} : Key(at[i][2]) = <<"VAR", a>>
      /\ \A i \in {3, 6} : Key(at[i][2]) = <<"VAR", b>>
  BY DEF SavedSlots
<1>1. S \ I = {1, 3, 5, 6}
  <2>1. S = {1, 2, 3, 4, 5, 6}
    BY <1>0
  <2>. QED
    BY <1>0, <2>1
<1>2. \A c : \A i \in S \ I : Key(at[i][2]) = <<"VAR", c>> <=> (i \in {1, 5} /\ c = a) \/ (i \in {3, 6} /\ c = b)
  BY <1>0, <1>1
<1>3. \A c : Made(S, at, I, <<"VAR", c>>) = IF c = a THEN {1, 5} ELSE IF c = b THEN {3, 6} ELSE {}
  BY <1>0, <1>1, <1>2 DEF Made
<1>4. \A c : Made(S, at, I, <<"NODE", c>>) = {}
  BY <1>0, <1>1 DEF Made
<1>5. \A c : (\E j \in 1 .. 2 : v[j] = c) <=> c = a \/ c = b
  <2>1. \A j : j \in 1 .. 2 <=> j = 1 \/ j = 2
    OBVIOUS
  <2>. QED
    BY <1>0, <2>1
<1>6. Counted({1, 5}, 2) /\ Counted({3, 6}, 2) /\ Counted({}, 0)
  <2>1. PICK w, x, y, z : w = 1 /\ x = 5 /\ y = 3 /\ z = 6 /\ w # x /\ y # z
    OBVIOUS
  <2>2. Counted({w, x}, 2) /\ Counted({y, z}, 2) /\ Counted({}, 0)
    BY <2>1, CountedSmall
  <2>. QED
    BY <2>1, <2>2
<1>7. \A c \in Loc : Counted(Made(S, at, I, <<"VAR", c>>), IF \E j \in 1 .. 2 : v[j] = c THEN 2 ELSE 0)
  BY <1>3, <1>5, <1>6
<1>8. \A c \in Loc : Counted(Made(S, at, I, <<"NODE", c>>), IF \E j \in 1 .. m : n[j] = c THEN 1 ELSE 0)
  BY <1>0, <1>4, <1>6
<1>. QED
  BY <1>7, <1>8 DEF SavedTwice

LEMMA SaveKeeps ==
  ASSUME CudaInv, GridRoomy, NEW t \in Gid, Save(t)
  PROVE  CudaInv'
<1>1. /\ BufTypes /\ PoolTypes /\ ThreadTypes /\ Balanced(CudaRest) /\ program \in DOMAIN Book
      /\ DOMAIN phase = Gid /\ DOMAIN slice = Gid /\ DOMAIN hand = Gid /\ KeptOnce /\ GridThread(t)
  BY CudaFacts
<1>2. PICK r, v, X, Y : Saves(t, r, v, X, Y)
  BY SaveSteps
<1>3. PICK u, g : u = As(t) /\ g = Global(t)
  OBVIOUS
<1>4. /\ phase[t] = "save" /\ pc[u] = "idle" /\ hand[t] = <<>> /\ r \in DOMAIN pool[t]
      /\ X = VarP(v[1]) /\ Y = VarP(v[2])
      /\ pool' = [pool EXCEPT ![t] = Without(@, r)]
      /\ Fresh(v, 2, g, vars_buf, FREE) /\ Rewrite(g, {}, <<>>, <<>>, v)
      /\ nput' \in [Thread -> Nat] /\ vput' \in [Thread -> Nat]
      /\ Links(u, << <<X, r[1]>>, <<Y, r[2]>> >>)
      /\ saved' = saved \cup {<<X, Y>>}
      /\ UNCHANGED <<program, oper, mode, phase, slice, hand>>
  BY <1>2, <1>3 DEF Saves
<1>5. PICK c, d : c = v[1] /\ d = v[2]
  OBVIOUS
<1>6. c \in Loc /\ d \in Loc /\ c # d /\ vars_buf[c] = FREE
  <2>1. 1 \in 1 .. 2 /\ 2 \in 1 .. 2
    OBVIOUS
  <2>2. \A i \in 1 .. 2 : v[i] \in Loc /\ vars_buf[v[i]] = FREE
    BY <1>4 DEF Fresh
  <2>3. \A i, j \in 1 .. 2 : v[i] = v[j] => i = j
    BY <1>4 DEF Fresh
  <2>. QED
    BY <1>5, <2>1, <2>2, <2>3
<1>7. IsPair(r) /\ t \in Bags
  BY <1>1, <1>4, GridShape DEF PoolTypes
<1>8. PICK s, p, q : s = <<X, Y>> /\ p = <<X, r[1]>> /\ q = <<Y, r[2]>>
  OBVIOUS
<1>9. /\ X = VarP(c) /\ Y = VarP(d) /\ IsPort(X) /\ IsPort(Y)
      /\ Key(X) = <<"VAR", c>> /\ Key(Y) = <<"VAR", d>> /\ is_var(X) /\ val(X) = c
  BY <1>4, <1>5, <1>6, VarPort
<1>10. IsPair(s) /\ IsPair(p) /\ IsPair(q)
  BY <1>7, <1>8, <1>9 DEF IsPair
<1>11. PICK w : w = <<p, q>>
  OBVIOUS
<1>12. IsList(w) /\ Links(u, w)
  BY <1>4, <1>8, <1>10, <1>11, ListTwo
<1>13. PICK e, z : e = <<>> /\ z = 0
  OBVIOUS
<1>14. \A j : j \notin 1 .. z
  BY <1>13
<1>15. Stored(g, {}, e, v, 2, e, z)
  <2>1. Fresh(e, z, g, node_buf, FREE_NODE) /\ DOMAIN e = 1 .. z
    BY <1>13, NoCells
  <2>2. RewritesCells(g, {}, e, v, 2, e, z)
    BY <1>4, <1>13, <2>1 DEF RewritesCells
  <2>. QED
    BY <2>2, CellsStored
<1>16. GlobalRewrite(t, e, v, 2, e, z, w)
  BY <1>3, <1>4, <1>12, <1>14, <1>15 DEF GlobalRewrite
<1>17. /\ BufTypes' /\ ThreadTypes' /\ \A x \in Thread \ {u} : pc'[x] = pc[x]
       /\ Changed(HeldInNodes, HeldInNodes', {}, StoredItems(e, e, z))
       /\ Changed(HeldInVars, HeldInVars', {}, {})
       /\ Changed(HeldInTodo, HeldInTodo', {}, ListItems(u, w))
       /\ Changed(HeldInOper, HeldInOper', {}, {})
  BY <1>3, <1>16, GlobalRewrites
<1>18. StoredItems(e, e, z) = {}
  BY <1>14 DEF StoredItems
<1>19. PICK m : m = pool[t][r]
  OBVIOUS
<1>20. PICK o : o = {PoolItem(t, r, m, k) : k \in {1, 2}}
  OBVIOUS
<1>21. Changed(HeldInPool, HeldInPool', o, {}) /\ PoolTypes'
  BY <1>1, <1>4, <1>7, <1>19, <1>20, PoolTake
<1>22. PICK R, T : R = CudaRest /\ T = CudaRest'
  OBVIOUS
<1>23. s \notin Kept
  <2>1. SUFFICES ASSUME s \in Kept PROVE FALSE
    OBVIOUS
  <2>2. PICK h : h = SavedItem(s, 1)
    OBVIOUS
  <2>3. h \in HeldInKept /\ h[2] = X
    BY <1>8, <2>1, <2>2 DEF HeldInKept, SavedItem
  <2>4. h \in All(R)
    BY <1>22, <2>3 DEF All, CudaRest
  <2>5. Balanced(R)
    BY <1>1, <1>22
  <2>6. is_var(h[2]) => val(h[2]) \in Loc \ {0} /\ vars_buf[val(h[2])] # FREE
    BY <1>1, <1>9, <2>3, <2>4, <2>5, HeldPort
  <2>. QED
    BY <1>6, <1>9, <2>3, <2>6
<1>24. Kept' = Kept \cup {s}
  BY <1>4, <1>8 DEF Kept
<1>25. Changed(HeldInKept, HeldInKept', {}, SavedItems({s}))
  <2>1. Kept' = (Kept \ {}) \cup {s} /\ {} \subseteq Kept /\ \A x \in {s} : x \notin Kept
    BY <1>23, <1>24
  <2>2. SavedItems({}) = {}
    BY DEF SavedItems
  <2>. QED
    BY <2>1, <2>2, KeptChanged
<1>26. Changed(HeldInHands, HeldInHands', {}, {})
  <2>1. HeldInHands' = HeldInHands
    BY <1>4 DEF HeldInHands
  <2>. QED
    BY <2>1, Unchanged
<1>27. PICK i1, i2, i3, i4, i5, i6 :
         /\ i1 = TodoItem(u, 1, 1, X) /\ i2 = TodoItem(u, 1, 2, r[1])
         /\ i3 = TodoItem(u, 0, 1, Y) /\ i4 = TodoItem(u, 0, 2, r[2])
         /\ i5 = SavedItem(s, 1) /\ i6 = SavedItem(s, 2)
  OBVIOUS
<1>28. PICK new : new = {i1, i2, i3, i4, i5, i6}
  OBVIOUS
<1>29. ListItems(u, w) = {i1, i2, i3, i4} /\ SavedItems({s}) = {i5, i6}
  <2>1. p[1] = X /\ p[2] = r[1] /\ q[1] = Y /\ q[2] = r[2]
    BY <1>8
  <2>2. ListItems(u, w) = {i1, i2, i3, i4}
    BY <1>11, <1>27, <2>1, ListItemsTwo
  <2>. QED
    BY <1>27, <2>2 DEF SavedItems
<1>30. Changed(All(R), All(T)', o, new)
  <2>1. PICK N, L, K : N = {} /\ L = ListItems(u, w) /\ K = SavedItems({s})
    OBVIOUS
  <2>2. /\ Changed(HeldInNodes, HeldInNodes', N, N)
        /\ Changed(HeldInVars, HeldInVars', N, N)
        /\ Changed(HeldInPool, HeldInPool', o, N)
        /\ Changed(HeldInTodo, HeldInTodo', N, L)
        /\ Changed(HeldInOper, HeldInOper', N, N)
    BY <1>17, <1>18, <1>21, <2>1
  <2>3. Changed(HeldInKept, HeldInKept', N, K) /\ Changed(HeldInHands, HeldInHands', N, N)
    BY <1>25, <1>26, <2>1
  <2>4. Changed(All(R), All(T)', (N \cup N \cup o \cup N \cup N) \cup (N \cup N),
                (N \cup N \cup N \cup L \cup N) \cup (K \cup N))
    BY <1>22, <2>2, <2>3, GridChanged
  <2>5. /\ (N \cup N \cup o \cup N \cup N) \cup (N \cup N) = o
        /\ (N \cup N \cup N \cup L \cup N) \cup (K \cup N) = new
    BY <1>28, <1>29, <2>1
  <2>. QED
    BY <2>4, <2>5
<1>31. PICK S, I : S = 1 .. 6 /\ I = {2, 4}
  OBVIOUS
<1>32. PICK ga, gb : ga = PoolItem(t, r, m, 1) /\ gb = PoolItem(t, r, m, 2)
  OBVIOUS
<1>33. o = {ga, gb} /\ ga # gb /\ ga[2] = r[1] /\ gb[2] = r[2]
  BY <1>20, <1>32 DEF PoolItem
<1>34. PICK at, src :
         /\ at = [i \in S |-> IF i = 1 THEN i1 ELSE IF i = 2 THEN i2 ELSE IF i = 3 THEN i3
                              ELSE IF i = 4 THEN i4 ELSE IF i = 5 THEN i5 ELSE i6]
         /\ src = [i \in I |-> IF i = 2 THEN ga ELSE gb]
  OBVIOUS
<1>35. S = {1, 2, 3, 4, 5, 6}
  BY <1>31
<1>36. /\ at[1] = i1 /\ at[2] = i2 /\ at[3] = i3 /\ at[4] = i4 /\ at[5] = i5 /\ at[6] = i6
       /\ src[2] = ga /\ src[4] = gb
  BY <1>31, <1>34, <1>35
<1>37. /\ i1[2] = X /\ i2[2] = r[1] /\ i3[2] = Y /\ i4[2] = r[2] /\ i5[2] = X /\ i6[2] = Y
  BY <1>8, <1>27 DEF TodoItem, SavedItem
<1>38. \A i, j \in S : at[i] = at[j] => i = j
  <2>1. /\ i1[1] = <<"todo", u, 1, 1>> /\ i2[1] = <<"todo", u, 1, 2>>
        /\ i3[1] = <<"todo", u, 0, 1>> /\ i4[1] = <<"todo", u, 0, 2>>
        /\ i5[1] = <<"saved", s, 1>> /\ i6[1] = <<"saved", s, 2>>
    BY <1>27 DEF TodoItem, SavedItem
  <2>2. /\ i1 # i2 /\ i1 # i3 /\ i1 # i4 /\ i1 # i5 /\ i1 # i6
        /\ i2 # i3 /\ i2 # i4 /\ i2 # i5 /\ i2 # i6
        /\ i3 # i4 /\ i3 # i5 /\ i3 # i6
        /\ i4 # i5 /\ i4 # i6 /\ i5 # i6
    BY <2>1
  <2>. QED
    BY <1>35, <1>36, <2>2
<1>39. Rearranged(All(R), All(T)', o, S, at, I, src)
  <2>1. new = {at[i] : i \in S}
    BY <1>28, <1>35, <1>36
  <2>2. I \subseteq S /\ \A i \in I : src[i] \in o /\ src[i][2] = at[i][2]
    BY <1>31, <1>33, <1>35, <1>36, <1>37
  <2>3. \A i, j \in I : src[i] = src[j] => i = j
    BY <1>31, <1>33, <1>36
  <2>. QED
    BY <1>30, <1>38, <2>1, <2>2, <2>3 DEF Changed, Rearranged
<1>40. Balanced(CudaRest)'
  <2>1. \A h \in o : \E i \in I : src[i] = h
    BY <1>31, <1>33, <1>36
  <2>2. /\ \A x \in Loc : Counted(Made(S, at, I, <<"VAR", x>>), IF \E j \in 1 .. 2 : v[j] = x THEN 2 ELSE 0)
        /\ \A x \in Loc : Counted(Made(S, at, I, <<"NODE", x>>), IF \E j \in 1 .. z : e[j] = x THEN 1 ELSE 0)
    <3>1. /\ \A i \in {1, 5} : Key(at[i][2]) = <<"VAR", c>>
          /\ \A i \in {3, 6} : Key(at[i][2]) = <<"VAR", d>>
      BY <1>9, <1>36, <1>37
    <3>2. SavedSlots(at, S, I, v, c, d, z)
      BY <1>5, <1>6, <1>13, <1>31, <3>1 DEF SavedSlots
    <3>3. SavedTwice(at, S, I, v, e, z)
      BY <3>2, SaveMakes
    <3>. QED
      BY <3>3 DEF SavedTwice
  <2>3. Balanced(R)
    BY <1>1, <1>22
  <2>4. Balanced(T)'
    BY <1>14, <1>15, <1>39, <2>1, <2>2, <2>3, MovedAndMade
  <2>. QED
    BY <1>22, <2>4, Carried
<1>41. GridInv'
  <2>1. GridThread(t)'
    <3>1. As(t)' = As(t) /\ Spare(t)' = Spare(t) /\ Spare(t) \in Thread \ {u}
      BY <1>3, <1>4, GridShape DEF As, Spare
    <3>. QED
      BY <1>1, <1>4, <1>17, <3>1 DEF GridThread
  <2>2. KeptOnce'
    <3>1. \A x \in Kept' : IsPair(x)'
      BY <1>1, <1>4, <1>10, <1>24, PortsKept DEF KeptOnce
    <3>2. \A x \in Gid : s \notin slice[x]
      BY <1>23, InKept
    <3>. QED
      BY <1>1, <1>4, <1>8, <3>1, <3>2 DEF KeptOnce
  <2>. QED
    BY <1>1, <1>3, <1>4, <1>17, <2>1, <2>2, GridKept DEF CudaInv
<1>. QED
  BY <1>1, <1>4, <1>17, <1>21, <1>40, <1>41 DEF CudaInv, NetInv

\* The ports of a node that leak, in order.
LeakList(ks, L) ==
  /\ L \in 0 .. 2 /\ ks \in Seq({1, 2}) /\ Len(ks) = L /\ DOMAIN ks = 1 .. L
  /\ \A i \in 1 .. L : ks[i] \in {1, 2}
  /\ \A i, j \in 1 .. L : ks[i] = ks[j] => i = j

LEMMA SeqOfTwo == ASSUME NEW s \in Seq(Nat), Len(s) = 2 PROVE s = <<s[1], s[2]>>
OBVIOUS

LEMMA OneAndTwo == <<1>> \o <<2>> = <<1, 2>>
<1>1. PICK a, b : a = <<1>> /\ b = <<2>>
  OBVIOUS
<1>2. a \in Seq(Nat) /\ b \in Seq(Nat) /\ Len(a) = 1 /\ Len(b) = 1 /\ a[1] = 1 /\ b[1] = 2
  BY <1>1
<1>3. PICK c : c = a \o b
  OBVIOUS
<1>4. c \in Seq(Nat) /\ Len(c) = 2 /\ c[1] = 1 /\ c[2] = 2
  <2>1. /\ c \in Seq(Nat) /\ Len(c) = Len(a) + Len(b)
        /\ \A i \in 1 .. Len(a) + Len(b) : c[i] = IF i <= Len(a) THEN a[i] ELSE b[i - Len(a)]
    BY <1>2, <1>3, ConcatProperties
  <2>2. 1 <= 1 /\ ~(2 <= 1) /\ 2 - 1 = 1 /\ 1 + 1 = 2 /\ 1 \in 1 .. 2 /\ 2 \in 1 .. 2
    OBVIOUS
  <2>. QED
    BY <1>2, <2>1, <2>2
<1>5. c = <<c[1], c[2]>>
  BY <1>4, SeqOfTwo
<1>. QED
  BY <1>1, <1>3, <1>4, <1>5

LEMMA LeakLists ==
  ASSUME NEW h, NEW ks, ks = LeakedPorts(h)
  PROVE  LeakList(ks, Len(ks))
<1>1. ks \in {<<>> \o <<>>, <<>> \o <<2>>, <<1>> \o <<>>, <<1>> \o <<2>>}
  BY DEF LeakedPorts
<1>2. ks \in {<<>>, <<2>>, <<1>>, <<1, 2>>}
  <2>1. <<>> \o <<>> = <<>> /\ <<>> \o <<2>> = <<2>> /\ <<1>> \o <<>> = <<1>>
    OBVIOUS
  <2>. QED
    BY <1>1, <2>1, OneAndTwo
<1>3. CASE ks = <<>>
  BY <1>3 DEF LeakList
<1>4. CASE ks = <<2>>
  BY <1>4 DEF LeakList
<1>5. CASE ks = <<1>>
  BY <1>5 DEF LeakList
<1>6. CASE ks = <<1, 2>>
  BY <1>6 DEF LeakList
<1>. QED
  BY <1>2, <1>3, <1>4, <1>5, <1>6

\* The global node has a new variable for each of those.
HasPorts(G, h, ks, L, v) ==
  /\ G = <<G[1], G[2]>>
  /\ \A i \in 1 .. L : G[ks[i]] = VarP(v[i])
  /\ \A k \in {1, 2} : (\A i \in 1 .. L : ks[i] # k) => G[k] = h.ports[k]

LEMMA PortsStored ==
  ASSUME NEW h, NEW ks, NEW L, LeakList(ks, L), NEW v
  PROVE  HasPorts(GlobalPorts(h, ks, v), h, ks, L, v)
<1>0. PICK G : G = GlobalPorts(h, ks, v)
  OBVIOUS
<1>1. L \in Nat /\ Len(ks) = L /\ \A i, j \in 1 .. L : ks[i] = ks[j] => i = j
  BY DEF LeakList
<1>2. \A k : Contains(ks, k) <=> \E i \in 1 .. L : ks[i] = k
  BY <1>1 DEF Contains
<1>3. ASSUME NEW k, NEW i \in 1 .. L, ks[i] = k
      PROVE  {j \in 1 .. Len(ks) : ks[j] = k} # {} /\ Min({j \in 1 .. Len(ks) : ks[j] = k}) = i
  <2>1. PICK I : I = {j \in 1 .. Len(ks) : ks[j] = k}
    OBVIOUS
  <2>2. \A j : j \in I <=> j = i
    BY <1>1, <1>3, <2>1
  <2>3. I = {i}
    BY <2>2
  <2>4. \E x \in I : \A y \in I : x <= y
    BY <1>1, <2>3
  <2>5. Min(I) \in I
    BY <2>4 DEF Min
  <2>. QED
    BY <2>1, <2>3, <2>5
<1>4. PICK at : at = [k \in 1 .. 2 |-> IF {j \in 1 .. Len(ks) : ks[j] = k} # {}
                                       THEN Min({j \in 1 .. Len(ks) : ks[j] = k}) ELSE 0]
  OBVIOUS
<1>8. \A k \in 1 .. 2 : G[k] = IF \E i \in 1 .. L : ks[i] = k THEN VarP(v[at[k]]) ELSE h.ports[k]
  BY <1>0, <1>2, <1>4 DEF GlobalPorts, SelectInSeq
<1>5. G = <<G[1], G[2]>>
  <2>1. DOMAIN G = 1 .. 2 /\ G = [k \in 1 .. 2 |-> G[k]]
    BY <1>0 DEF GlobalPorts
  <2>. QED
    BY <2>1
<1>6. ASSUME NEW i \in 1 .. L PROVE G[ks[i]] = VarP(v[i])
  <2>1. PICK k \in 1 .. 2 : k = ks[i]
    BY DEF LeakList
  <2>2. at[k] = i
    BY <1>3, <1>4, <2>1
  <2>. QED
    BY <1>8, <2>1, <2>2
<1>7. ASSUME NEW k \in {1, 2}, \A i \in 1 .. L : ks[i] # k PROVE G[k] = h.ports[k]
  <2>1. k \in 1 .. 2
    OBVIOUS
  <2>. QED
    BY <1>7, <1>8, <2>1
<1>. QED
  BY <1>0, <1>5, <1>6, <1>7 DEF HasPorts

\* The pairs that link the variables with the ports, and the last one.
LeakPairs(ks, h, v, last) == [i \in DOMAIN ks |-> <<VarP(v[i]), h.ports[ks[i]]>>] \o <<last>>

HasPairs(pairs, h, ks, L, v, last) ==
  /\ IsList(pairs) /\ Len(pairs) = L + 1 /\ pairs[L + 1] = last
  /\ \A i \in 1 .. L : pairs[i] = <<VarP(v[i]), h.ports[ks[i]]>>

LEMMA PairsLinked ==
  ASSUME NEW h, NEW ks, NEW L, LeakList(ks, L), NEW v, NEW last, NEW pairs,
         pairs = LeakPairs(ks, h, v, last),
         IsPair(last), \A i \in 1 .. L : IsPort(VarP(v[i])), \A k \in {1, 2} : IsPort(h.ports[k])
  PROVE  HasPairs(pairs, h, ks, L, v, last)
<1>1. L \in Nat /\ DOMAIN ks = 1 .. L /\ \A i \in 1 .. L : ks[i] \in {1, 2}
  BY DEF LeakList
<1>2. PICK q, e, T : /\ q = [i \in DOMAIN ks |-> <<VarP(v[i]), h.ports[ks[i]]>>]
                     /\ e = <<last>> /\ T = {last} \cup Range(q)
  OBVIOUS
<1>3. pairs = q \o e
  BY <1>2 DEF LeakPairs
<1>4. /\ pairs \in Seq(T) /\ Len(pairs) = L + 1 /\ DOMAIN pairs = 1 .. L + 1
      /\ \A i \in 1 .. L : pairs[i] = q[i]
      /\ pairs[L + 1] = last
  <2>1. q \in [1 .. L -> T]
    <3>1. DOMAIN q = 1 .. L /\ q = [i \in 1 .. L |-> q[i]]
      BY <1>1, <1>2
    <3>2. \A i \in 1 .. L : q[i] \in T
      BY <1>2, <3>1 DEF Range
    <3>. QED
      BY <3>1, <3>2
  <2>2. q \in Seq(T)
    BY <1>1, <2>1, SeqDef
  <2>3. Len(q) = L
    BY <1>1, <2>1, <2>2, LenProperties
  <2>4. e \in Seq(T) /\ Len(e) = 1 /\ e[1] = last
    BY <1>2
  <2>5. /\ q \o e \in Seq(T) /\ Len(q \o e) = Len(q) + Len(e)
        /\ \A i \in 1 .. Len(q) + Len(e) : (q \o e)[i] = IF i <= Len(q) THEN q[i] ELSE e[i - Len(q)]
    BY <2>2, <2>4, ConcatProperties
  <2>6. /\ pairs \in Seq(T) /\ Len(pairs) = L + 1
        /\ \A i \in 1 .. L + 1 : pairs[i] = IF i <= L THEN q[i] ELSE e[i - L]
    BY <1>3, <2>3, <2>4, <2>5
  <2>7. L + 1 - L = 1 /\ ~(L + 1 <= L) /\ L + 1 \in 1 .. L + 1
    BY <1>1
  <2>. QED
    BY <1>1, <2>4, <2>6, <2>7
<1>5. \A i \in 1 .. L : q[i] = <<VarP(v[i]), h.ports[ks[i]]>> /\ IsPair(q[i])
  BY <1>1, <1>2 DEF IsPair
<1>6. IsList(pairs)
  <2>1. \A i \in 1 .. L + 1 : i \in 1 .. L \/ i = L + 1
    BY <1>1
  <2>2. \A i \in DOMAIN pairs : IsPair(pairs[i])
    BY <1>4, <1>5, <2>1
  <2>. QED
    BY <1>4, <2>2 DEF IsList
<1>. QED
  BY <1>4, <1>5, <1>6 DEF HasPairs

\* Where the ports of the hand go, and what is made.
LeakSpots(h, ks, L, v, n, stored, pairs) ==
  /\ LeakList(ks, L) /\ Len(pairs) = L + 1
  /\ \A i \in 1 .. L : /\ Contents(stored, pairs, <<"node", 1, ks[i]>>) = VarP(v[i])
                       /\ Contents(stored, pairs, <<"pair", i, 1>>) = VarP(v[i])
                       /\ Contents(stored, pairs, <<"pair", i, 2>>) = h.ports[ks[i]]
  /\ \A k \in {1, 2} : (\A i \in 1 .. L : ks[i] # k) => Contents(stored, pairs, <<"node", 1, k>>) = h.ports[k]
  /\ Contents(stored, pairs, <<"pair", L + 1, 1>>) = h.var
  /\ Contents(stored, pairs, <<"pair", L + 1, 2>>) = <<h.tag, n[1]>>

MovedSpots(ks, L) ==
  {<<"pair", L + 1, 1>>} \cup {<<"pair", i, 2>> : i \in 1 .. L}
    \cup {<<"node", 1, k>> : k \in {j \in {1, 2} : \A i \in 1 .. L : ks[i] # j}}

LEMMA InMoved ==
  ASSUME NEW ks, NEW L, LeakList(ks, L), NEW I, I = MovedSpots(ks, L), NEW S, S = Spots(1, L + 1)
  PROVE  /\ \A s : s \in I <=> \/ s = <<"pair", L + 1, 1>>
                               \/ \E i \in 1 .. L : s = <<"pair", i, 2>>
                               \/ \E k \in {1, 2} : s = <<"node", 1, k>> /\ \A i \in 1 .. L : ks[i] # k
         /\ \A s : s \in S \ I <=> \/ s = <<"pair", L + 1, 2>>
                                   \/ \E i \in 1 .. L : s = <<"pair", i, 1>> \/ s = <<"node", 1, ks[i]>>
         /\ I \subseteq S
<1>1. /\ L \in Nat /\ \A i \in 1 .. L : ks[i] \in {1, 2}
      /\ \A i : i \in 1 .. L + 1 <=> i \in 1 .. L \/ i = L + 1
      /\ L + 1 \notin 1 .. L
      /\ \A i : i \in 1 .. 1 <=> i = 1
  BY DEF LeakList
<1>2. \A s : s \in I <=> \/ s = <<"pair", L + 1, 1>>
                         \/ \E i \in 1 .. L : s = <<"pair", i, 2>>
                         \/ \E k \in {1, 2} : s = <<"node", 1, k>> /\ \A i \in 1 .. L : ks[i] # k
  BY DEF MovedSpots
<1>3. PICK m : m = L + 1
  OBVIOUS
<1>4. \A s : s \in S <=> \/ \E k \in {1, 2} : s = <<"node", 1, k>>
                         \/ \E i \in 1 .. m, k \in {1, 2} : s = <<"pair", i, k>>
  BY <1>1, <1>3, InSpots
<1>5. I \subseteq S
  BY <1>1, <1>2, <1>3, <1>4
<1>6. ASSUME NEW s \in S, s \notin I
      PROVE  s = <<"pair", L + 1, 2>> \/ \E i \in 1 .. L : s = <<"pair", i, 1>> \/ s = <<"node", 1, ks[i]>>
  BY <1>1, <1>2, <1>3, <1>4, <1>6
<1>7. <<"pair", m, 2>> \in S /\ <<"pair", m, 2>> \notin I
  BY <1>1, <1>2, <1>3, <1>4
<1>8. ASSUME NEW i \in 1 .. L PROVE <<"pair", i, 1>> \in S /\ <<"pair", i, 1>> \notin I
  BY <1>1, <1>2, <1>3, <1>4
<1>9. ASSUME NEW i \in 1 .. L PROVE <<"node", 1, ks[i]>> \in S /\ <<"node", 1, ks[i]>> \notin I
  BY <1>1, <1>2, <1>3, <1>4
<1>. QED
  BY <1>2, <1>3, <1>5, <1>6, <1>7, <1>8, <1>9

LEMMA LeakMakes ==
  ASSUME NEW h, NEW ks, NEW L, NEW v, NEW n, NEW stored, NEW pairs,
         LeakSpots(h, ks, L, v, n, stored, pairs), h.tag \in Nodes,
         \A i, j \in 1 .. L : v[i] = v[j] => i = j, NEW I, I = MovedSpots(ks, L)
  PROVE  Makes(n, v, L, stored, 1, pairs, I)
<1>1. PICK S, m : S = Spots(1, L + 1) /\ m = L + 1
  OBVIOUS
<1>2. LeakList(ks, L) /\ Len(pairs) = L + 1
  BY DEF LeakSpots
<1>3. \A s : s \in S \ I <=> \/ s = <<"pair", m, 2>>
                             \/ \E i \in 1 .. L : s = <<"pair", i, 1>> \/ s = <<"node", 1, ks[i]>>
  BY <1>1, <1>2, InMoved
<1>4. PICK C : C = [s \in S |-> Key(Contents(stored, pairs, s))]
  OBVIOUS
<1>5. \A i \in 1 .. L : C[<<"pair", i, 1>>] = <<"VAR", v[i]>> /\ C[<<"node", 1, ks[i]>>] = <<"VAR", v[i]>>
  BY <1>3, <1>4, VarPort DEF LeakSpots
<1>6. C[<<"pair", m, 2>>] = <<"NODE", n[1]>>
  <2>1. Contents(stored, pairs, <<"pair", m, 2>>) = <<h.tag, n[1]>>
    BY <1>1 DEF LeakSpots
  <2>2. tag(<<h.tag, n[1]>>) = h.tag /\ val(<<h.tag, n[1]>>) = n[1]
    BY DEF tag, val
  <2>3. Key(<<h.tag, n[1]>>) = <<"NODE", n[1]>>
    BY <2>2 DEF Key, is_var, is_nod, Nodes
  <2>. QED
    BY <1>3, <1>4, <2>1, <2>3
<1>7. \A x : \A s : s \in Written(stored, 1, pairs, I, x) <=> s \in S \ I /\ C[s] = x
  BY <1>1, <1>2, <1>4 DEF Written
<1>8. ASSUME NEW c
      PROVE  Counted(Written(stored, 1, pairs, I, <<"VAR", c>>), IF \E j \in 1 .. L : v[j] = c THEN 2 ELSE 0)
  <2>1. PICK E : E = Written(stored, 1, pairs, I, <<"VAR", c>>)
    OBVIOUS
  <2>2. \A s : s \in E <=> s \in S \ I /\ C[s] = <<"VAR", c>>
    BY <1>7, <2>1
  <2>3. \A s : s \in E <=> \E i \in 1 .. L : v[i] = c /\ (s = <<"pair", i, 1>> \/ s = <<"node", 1, ks[i]>>)
    <3>1. <<"NODE", n[1]>> # <<"VAR", c>> /\ \A x : <<"VAR", x>> = <<"VAR", c>> <=> x = c
      OBVIOUS
    <3>2. ASSUME NEW s \in E
          PROVE  \E i \in 1 .. L : v[i] = c /\ (s = <<"pair", i, 1>> \/ s = <<"node", 1, ks[i]>>)
      <4>1. s \in S \ I /\ C[s] = <<"VAR", c>> /\ s # <<"pair", m, 2>>
        BY <1>6, <2>2, <3>1
      <4>2. PICK i \in 1 .. L : s = <<"pair", i, 1>> \/ s = <<"node", 1, ks[i]>>
        BY <1>3, <4>1
      <4>3. C[s] = <<"VAR", v[i]>>
        BY <1>5, <4>2
      <4>4. v[i] = c
        BY <4>1, <4>3
      <4>. QED
        BY <4>2, <4>4
    <3>3. ASSUME NEW i \in 1 .. L, v[i] = c, NEW s, s = <<"pair", i, 1>> \/ s = <<"node", 1, ks[i]>>
          PROVE  s \in E
      <4>1. s \in S \ I
        BY <1>3, <3>3
      <4>2. C[s] = <<"VAR", c>>
        BY <1>5, <3>3
      <4>. QED
        BY <2>2, <4>1, <4>2
    <3>. QED
      BY <3>2, <3>3
  <2>4. CASE \E j \in 1 .. L : v[j] = c
    <3>1. PICK j \in 1 .. L : v[j] = c
      BY <2>4
    <3>2. E = {<<"pair", j, 1>>, <<"node", 1, ks[j]>>}
      BY <2>3, <3>1
    <3>3. <<"pair", j, 1>> # <<"node", 1, ks[j]>>
      OBVIOUS
    <3>4. Counted(E, 2)
      BY <3>2, <3>3, CountedSmall
    <3>. QED
      BY <2>1, <2>4, <3>4
  <2>5. CASE ~ \E j \in 1 .. L : v[j] = c
    <3>1. E = {}
      BY <2>3, <2>5
    <3>. QED
      BY <2>1, <2>5, <3>1, CountedSmall
  <2>. QED
    BY <2>4, <2>5
<1>9. ASSUME NEW c
      PROVE  Counted(Written(stored, 1, pairs, I, <<"NODE", c>>), IF \E j \in 1 .. 1 : n[j] = c THEN 1 ELSE 0)
  <2>1. PICK E : E = Written(stored, 1, pairs, I, <<"NODE", c>>)
    OBVIOUS
  <2>2. \A s : s \in E <=> s \in S \ I /\ C[s] = <<"NODE", c>>
    BY <1>7, <2>1
  <2>3. E = IF n[1] = c THEN {<<"pair", m, 2>>} ELSE {}
    <3>1. PICK z : z = <<"pair", m, 2>>
      OBVIOUS
    <3>2. \A x, y : <<"VAR", x>> # <<"NODE", y>> /\ (<<"NODE", x>> = <<"NODE", y>> <=> x = y)
      OBVIOUS
    <3>3. ASSUME NEW s \in E PROVE s = z /\ n[1] = c
      <4>1. s \in S \ I /\ C[s] = <<"NODE", c>>
        BY <2>2
      <4>2. ASSUME NEW i \in 1 .. L PROVE s # <<"pair", i, 1>> /\ s # <<"node", 1, ks[i]>>
        <5>1. C[<<"pair", i, 1>>] = <<"VAR", v[i]>> /\ C[<<"node", 1, ks[i]>>] = <<"VAR", v[i]>>
          BY <1>5
        <5>. QED
          BY <3>2, <4>1, <5>1
      <4>3. s = z
        BY <1>3, <3>1, <4>1, <4>2
      <4>. QED
        BY <1>6, <3>1, <3>2, <4>1, <4>3
    <3>4. n[1] = c => z \in E
      BY <1>3, <1>6, <2>2, <3>1
    <3>. QED
      BY <3>1, <3>3, <3>4
  <2>4. (\E j \in 1 .. 1 : n[j] = c) <=> n[1] = c
    OBVIOUS
  <2>. QED
    BY <2>1, <2>3, <2>4, CountedSmall
<1>. QED
  BY <1>8, <1>9 DEF Makes

\* What LeakStore does, with the hand h.
LeakStores(t, h, ks, L, v, n, stored, pairs) ==
  /\ h = hand[t] /\ h # <<>> /\ h.for = "leak" /\ ks = LeakedPorts(h) /\ L = Len(ks)
  /\ Fresh(n, 1, Global(t), node_buf, FREE_NODE) /\ Fresh(v, L, Global(t), vars_buf, FREE)
  /\ nput' \in [Thread -> Nat] /\ vput' \in [Thread -> Nat]
  /\ stored = <<GlobalPorts(h, ks, v)>> /\ Rewrite(Global(t), {}, n, stored, v)
  /\ pairs = LeakPairs(ks, h, v, <<h.var, <<h.tag, n[1]>> >>) /\ Links(As(t), pairs)
  /\ hand' = [hand EXCEPT ![t] = <<>>]
  /\ UNCHANGED <<program, pool, oper, mode, phase, slice, saved>>

LEMMA LeakSteps ==
  ASSUME CudaInv, GridRoomy, NEW t \in Gid, LeakStore(t)
  PROVE  \E h, ks, L, v, n, stored, pairs : LeakStores(t, h, ks, L, v, n, stored, pairs)
<1>1. BufTypes
  BY CudaFacts
<1>2. PICK g, h : g = Global(t) /\ h = hand[t]
  OBVIOUS
<1>3. PICK ks : ks = LeakedPorts(h)
  OBVIOUS
<1>4. PICK L : L = Len(ks)
  OBVIOUS
<1>5. PICK v, n : v = vars_alloc(g, L) /\ n = node_alloc(g, 1)
  OBVIOUS
<1>6. PICK stored, pairs : /\ stored = <<GlobalPorts(h, ks, v)>>
                           /\ pairs = LeakPairs(ks, h, v, <<h.var, <<h.tag, n[1]>> >>)
  OBVIOUS
<1>7. /\ h # <<>> /\ Entering(t) = {} /\ h.for = "leak"
      /\ get_resources(g, 1, L) /\ Rewrite(g, {}, n, stored, v) /\ Links(As(t), pairs)
      /\ hand' = [hand EXCEPT ![t] = <<>>]
      /\ UNCHANGED <<program, pool, oper, itrs, mode, launches, phase, slice, saved>>
  BY <1>2, <1>3, <1>4, <1>5, <1>6 DEF LeakStore, LeakPairs
<1>8. L \in Nat
  <2>1. LeakList(ks, L)
    BY <1>3, <1>4, LeakLists
  <2>. QED
    BY <2>1 DEF LeakList
<1>9. g \in Thread /\ Finds(g, 1, L)
  BY <1>2, <1>3, <1>4, <1>7, Halves DEF GridRoomy
<1>10. /\ Fresh(n, 1, g, node_buf, FREE_NODE) /\ Fresh(v, L, g, vars_buf, FREE)
       /\ nput' \in [Thread -> Nat] /\ vput' \in [Thread -> Nat]
  BY <1>1, <1>5, <1>7, <1>8, <1>9, Allocates
<1>11. LeakStores(t, h, ks, L, v, n, stored, pairs)
  BY <1>2, <1>3, <1>4, <1>6, <1>7, <1>10 DEF LeakStores
<1>. QED
  BY <1>11

\* The ports of the hand are held.
LEMMA HandHeld ==
  ASSUME CudaInv, NEW t \in Gid, NEW h, h = hand[t], h # <<>>
  PROVE  /\ IsHand(h) /\ pc[As(t)] = "idle" /\ phase[t] # "exit"
         /\ \A k \in {1, 2} : /\ IsPort(h.ports[k]) /\ h.ports[k] # FREE
                              /\ HandItem(t, k, h.ports[k]) \in All(CudaRest)
<1>1. /\ BufTypes /\ Balanced(CudaRest) /\ GridThread(t)
  BY CudaFacts
<1>2. IsHand(h) /\ pc[As(t)] = "idle" /\ phase[t] # "exit"
  BY <1>1 DEF GridThread
<1>3. PICK R : R = CudaRest
  OBVIOUS
<1>4. ASSUME NEW k \in {1, 2}
      PROVE  IsPort(h.ports[k]) /\ h.ports[k] # FREE /\ HandItem(t, k, h.ports[k]) \in All(R)
  <2>1. IsPair(h.ports)
    BY <1>2 DEF IsHand
  <2>2. IsPort(h.ports[k])
    BY <2>1 DEF IsPair
  <2>3. PICK g : g = HandItem(t, k, h.ports[k])
    OBVIOUS
  <2>4. g \in HandItems(t, hand[t])
    BY <2>3, InHandItems
  <2>5. g \in All(R) /\ g[2] = h.ports[k]
    BY <1>3, <2>3, <2>4, InHands, HandItemOf DEF All, CudaRest
  <2>6. Balanced(R)
    BY <1>1, <1>3
  <2>7. g[2] # FREE
    BY <1>1, <2>2, <2>5, <2>6, HeldPort
  <2>. QED
    BY <2>2, <2>3, <2>5, <2>7
<1>. QED
  BY <1>2, <1>3, <1>4

\* The cells stored in, and the pairs linked.
LEMMA LeakRewrites ==
  ASSUME CudaInv, NEW t \in Gid, NEW h, NEW ks, NEW L, NEW v, NEW n, NEW stored, NEW pairs,
         LeakStores(t, h, ks, L, v, n, stored, pairs)
  PROVE  /\ GlobalRewrite(t, n, v, L, stored, 1, pairs) /\ LeakSpots(h, ks, L, v, n, stored, pairs)
         /\ \A i, j \in 1 .. L : v[i] = v[j] => i = j
<1>1. PICK g, G, last : /\ g = Global(t) /\ G = GlobalPorts(h, ks, v)
                        /\ last = <<h.var, <<h.tag, n[1]>> >>
  OBVIOUS
<1>2. /\ h = hand[t] /\ h # <<>> /\ h.for = "leak" /\ ks = LeakedPorts(h) /\ L = Len(ks)
      /\ Fresh(n, 1, g, node_buf, FREE_NODE) /\ Fresh(v, L, g, vars_buf, FREE)
      /\ nput' \in [Thread -> Nat] /\ vput' \in [Thread -> Nat]
      /\ stored = <<G>> /\ Rewrite(g, {}, n, stored, v)
      /\ pairs = LeakPairs(ks, h, v, last) /\ Links(As(t), pairs)
      /\ hand' = [hand EXCEPT ![t] = <<>>]
      /\ UNCHANGED <<program, pool, oper, mode, phase, slice, saved>>
  BY <1>1 DEF LeakStores
<1>3. LeakList(ks, L)
  BY <1>2, LeakLists
<1>4. L \in Nat /\ \A i \in 1 .. L : ks[i] \in {1, 2}
  BY <1>3 DEF LeakList
<1>5. /\ IsHand(h) /\ pc[As(t)] = "idle"
      /\ \A k \in {1, 2} : IsPort(h.ports[k]) /\ h.ports[k] # FREE
  BY <1>2, HandHeld
<1>6. IsPort(h.var) /\ h.tag \in Nodes
  BY <1>2, <1>5 DEF IsHand
<1>7. n[1] \in Loc
  BY <1>2 DEF Fresh
<1>8. \A i \in 1 .. L : v[i] \in Loc /\ v[i] # 0
  BY <1>2 DEF Fresh
<1>9. \A i \in 1 .. L : IsPort(VarP(v[i])) /\ VarP(v[i]) # FREE
  <2>1. \A i \in 1 .. L : VarP(v[i]) # FREE
    BY <1>8 DEF FREE, VarP
  <2>. QED
    BY <1>8, <2>1, VarPort
<1>10. IsPair(last)
  <2>1. PICK b : b = <<h.tag, n[1]>>
    OBVIOUS
  <2>2. tag(b) = h.tag /\ val(b) = n[1] /\ b = <<tag(b), val(b)>>
    BY <2>1 DEF tag, val
  <2>3. IsPort(b)
    BY <1>6, <1>7, <2>2 DEF IsPort, Nodes
  <2>. QED
    BY <1>1, <1>6, <2>1, <2>3 DEF IsPair
<1>11. /\ G = <<G[1], G[2]>>
       /\ \A i \in 1 .. L : G[ks[i]] = VarP(v[i])
       /\ \A k \in {1, 2} : (\A i \in 1 .. L : ks[i] # k) => G[k] = h.ports[k]
  <2>1. HasPorts(G, h, ks, L, v)
    BY <1>1, <1>3, PortsStored
  <2>. QED
    BY <2>1 DEF HasPorts
<1>12. \A k \in {1, 2} : IsPort(G[k]) /\ G[k] # FREE
  <2>. SUFFICES ASSUME NEW k \in {1, 2} PROVE IsPort(G[k]) /\ G[k] # FREE
    OBVIOUS
  <2>1. CASE \E i \in 1 .. L : ks[i] = k
    BY <1>9, <1>11, <2>1
  <2>2. CASE \A i \in 1 .. L : ks[i] # k
    BY <1>5, <1>11, <2>2
  <2>. QED
    BY <2>1, <2>2
<1>13. IsPair(G) /\ G # FREE_NODE
  BY <1>11, <1>12 DEF IsPair, FREE_NODE
<1>14. /\ IsList(pairs) /\ Len(pairs) = L + 1 /\ pairs[L + 1] = last
       /\ \A i \in 1 .. L : pairs[i] = <<VarP(v[i]), h.ports[ks[i]]>>
  <2>1. /\ LeakList(ks, L) /\ pairs = LeakPairs(ks, h, v, last) /\ IsPair(last)
    BY <1>2, <1>3, <1>10
  <2>2. \A i \in 1 .. L : IsPort(VarP(v[i]))
    BY <1>9
  <2>3. \A k \in {1, 2} : IsPort(h.ports[k])
    BY <1>5
  <2>4. HasPairs(pairs, h, ks, L, v, last)
    BY <2>1, <2>2, <2>3, PairsLinked
  <2>. QED
    BY <2>4 DEF HasPairs
<1>15. Stored(g, {}, n, v, L, stored, 1)
  <2>1. DOMAIN stored = 1 .. 1
    BY <1>2
  <2>2. RewritesCells(g, {}, n, v, L, stored, 1)
    BY <1>2, <1>4, <2>1 DEF RewritesCells
  <2>. QED
    BY <2>2, CellsStored
<1>16. \A j \in 1 .. 1 : IsPair(stored[j]) /\ stored[j] # FREE_NODE
  BY <1>2, <1>13
<1>17. GlobalRewrite(t, n, v, L, stored, 1, pairs)
  BY <1>1, <1>2, <1>5, <1>14, <1>15, <1>16 DEF GlobalRewrite
<1>18. LeakSpots(h, ks, L, v, n, stored, pairs)
  <2>1. /\ \A k : Contents(stored, pairs, <<"node", 1, k>>) = G[k]
        /\ \A i, k : Contents(stored, pairs, <<"pair", i, k>>) = pairs[i][k]
    BY <1>2 DEF Contents
  <2>2. /\ \A i \in 1 .. L : pairs[i][1] = VarP(v[i]) /\ pairs[i][2] = h.ports[ks[i]]
        /\ pairs[L + 1][1] = h.var /\ pairs[L + 1][2] = <<h.tag, n[1]>>
    BY <1>1, <1>14
  <2>. QED
    BY <1>3, <1>11, <1>14, <2>1, <2>2 DEF LeakSpots
<1>19. \A i, j \in 1 .. L : v[i] = v[j] => i = j
  BY <1>2 DEF Fresh
<1>. QED
  BY <1>17, <1>18, <1>19

\* Where the ports come from.
LeakFrom(t, h, ks, s) ==
  IF s[1] = "node" THEN HandItem(t, s[3], h.ports[s[3]])
  ELSE IF s[3] = 2 THEN HandItem(t, ks[s[2]], h.ports[ks[s[2]]])
  ELSE LeakItem(t, h.var)

LEMMA LeakMoves ==
  ASSUME NEW t, NEW h, NEW ks, NEW L, NEW v, NEW n, NEW stored, NEW pairs,
         LeakSpots(h, ks, L, v, n, stored, pairs), h # <<>>, h.for = "leak",
         NEW I, I = MovedSpots(ks, L), NEW src, src = [s \in I |-> LeakFrom(t, h, ks, s)]
  PROVE  /\ \A s \in I : src[s] \in HandItems(t, h) /\ src[s][2] = Contents(stored, pairs, s)
         /\ \A s, u \in I : src[s] = src[u] => s = u
         /\ \A i \in HandItems(t, h) : \E s \in I : src[s] = i
<1>1. LeakList(ks, L)
  BY DEF LeakSpots
<1>2. \A s : s \in I <=> \/ s = <<"pair", L + 1, 1>>
                         \/ \E i \in 1 .. L : s = <<"pair", i, 2>>
                         \/ \E k \in {1, 2} : s = <<"node", 1, k>> /\ \A i \in 1 .. L : ks[i] # k
  BY <1>1, InMoved
<1>3. (\A i \in 1 .. L : ks[i] \in {1, 2}) /\ \A i, j \in 1 .. L : ks[i] = ks[j] => i = j
  BY <1>1 DEF LeakList
<1>4. PICK P : P = [k \in {1, 2} |-> HandItem(t, k, h.ports[k])]
  OBVIOUS
<1>5. PICK lk : lk = LeakItem(t, h.var)
  OBVIOUS
<1>6. \A i : i \in HandItems(t, h) <=> (\E k \in {1, 2} : i = P[k]) \/ i = lk
  BY <1>4, <1>5, InHandItems
<1>7. /\ \A k, l \in {1, 2} : P[k] = P[l] => k = l
      /\ \A k \in {1, 2} : P[k] # lk /\ P[k][2] = h.ports[k]
      /\ lk[2] = h.var
  BY <1>4, <1>5, HandItemOf
<1>8. /\ src[<<"pair", L + 1, 1>>] = lk
      /\ \A i \in 1 .. L : src[<<"pair", i, 2>>] = P[ks[i]]
      /\ \A k \in {1, 2} : (\A i \in 1 .. L : ks[i] # k) => src[<<"node", 1, k>>] = P[k]
  BY <1>2, <1>3, <1>4, <1>5 DEF LeakFrom
<1>9. \A s \in I : src[s] \in HandItems(t, h) /\ src[s][2] = Contents(stored, pairs, s)
  <2>. SUFFICES ASSUME NEW s \in I PROVE src[s] \in HandItems(t, h) /\ src[s][2] = Contents(stored, pairs, s)
    OBVIOUS
  <2>1. CASE s = <<"pair", L + 1, 1>>
    BY <1>6, <1>7, <1>8, <2>1 DEF LeakSpots
  <2>2. CASE \E i \in 1 .. L : s = <<"pair", i, 2>>
    <3>1. PICK i \in 1 .. L : s = <<"pair", i, 2>>
      BY <2>2
    <3>2. PICK k \in {1, 2} : k = ks[i]
      BY <1>3
    <3>3. src[s] = P[k]
      BY <1>8, <3>1, <3>2
    <3>4. Contents(stored, pairs, s) = h.ports[k]
      BY <3>1, <3>2 DEF LeakSpots
    <3>. QED
      BY <1>6, <1>7, <3>3, <3>4
  <2>3. CASE \E k \in {1, 2} : s = <<"node", 1, k>> /\ \A i \in 1 .. L : ks[i] # k
    <3>1. PICK k \in {1, 2} : s = <<"node", 1, k>> /\ \A i \in 1 .. L : ks[i] # k
      BY <2>3
    <3>2. src[s] = P[k]
      BY <1>8, <3>1
    <3>3. Contents(stored, pairs, s) = h.ports[k]
      BY <3>1 DEF LeakSpots
    <3>. QED
      BY <1>6, <1>7, <3>2, <3>3
  <2>. QED
    BY <1>2, <2>1, <2>2, <2>3
<1>10. \A s, u \in I : src[s] = src[u] => s = u
  <2>1. ASSUME NEW s \in I
        PROVE  \/ s = <<"pair", L + 1, 1>> /\ src[s] = lk
               \/ \E i \in 1 .. L : s = <<"pair", i, 2>> /\ src[s] = P[ks[i]]
               \/ \E k \in {1, 2} : s = <<"node", 1, k>> /\ src[s] = P[k] /\ \A i \in 1 .. L : ks[i] # k
    <3>1. CASE s = <<"pair", L + 1, 1>>
      BY <1>8, <3>1
    <3>2. CASE \E i \in 1 .. L : s = <<"pair", i, 2>>
      <4>1. PICK i \in 1 .. L : s = <<"pair", i, 2>>
        BY <3>2
      <4>2. src[s] = P[ks[i]]
        BY <1>8, <4>1
      <4>. QED
        BY <4>1, <4>2
    <3>3. CASE \E k \in {1, 2} : s = <<"node", 1, k>> /\ \A i \in 1 .. L : ks[i] # k
      <4>1. PICK k \in {1, 2} : s = <<"node", 1, k>> /\ \A i \in 1 .. L : ks[i] # k
        BY <3>3
      <4>2. src[s] = P[k]
        BY <1>8, <4>1
      <4>. QED
        BY <4>1, <4>2
    <3>. QED
      BY <1>2, <3>1, <3>2, <3>3
  <2>2. ASSUME NEW s \in I, src[s] = lk PROVE s = <<"pair", L + 1, 1>>
    BY <1>3, <1>7, <2>1, <2>2
  <2>3. ASSUME NEW s \in I, NEW k \in {1, 2}, src[s] = P[k]
        PROVE  \/ \E i \in 1 .. L : s = <<"pair", i, 2>> /\ ks[i] = k
               \/ s = <<"node", 1, k>> /\ \A i \in 1 .. L : ks[i] # k
    <3>1. CASE \E i \in 1 .. L : s = <<"pair", i, 2>> /\ src[s] = P[ks[i]]
      BY <1>3, <1>7, <2>3, <3>1
    <3>2. CASE \E j \in {1, 2} : s = <<"node", 1, j>> /\ src[s] = P[j] /\ \A i \in 1 .. L : ks[i] # j
      BY <1>7, <2>3, <3>2
    <3>. QED
      BY <1>7, <2>1, <2>3, <3>1, <3>2
  <2>4. ASSUME NEW s \in I PROVE src[s] = lk \/ \E k \in {1, 2} : src[s] = P[k]
    BY <1>3, <2>1
  <2>5. ASSUME NEW s \in I, NEW u \in I, src[s] = src[u] PROVE s = u
    <3>1. CASE src[s] = lk
      <4>1. s = <<"pair", L + 1, 1>> /\ u = <<"pair", L + 1, 1>>
        BY <2>2, <2>5, <3>1
      <4>. QED
        BY <4>1
    <3>2. CASE \E k \in {1, 2} : src[s] = P[k]
      <4>1. PICK k \in {1, 2} : src[s] = P[k] /\ src[u] = P[k]
        BY <2>5, <3>2
      <4>2. /\ \/ \E i \in 1 .. L : s = <<"pair", i, 2>> /\ ks[i] = k
               \/ s = <<"node", 1, k>> /\ \A i \in 1 .. L : ks[i] # k
            /\ \/ \E i \in 1 .. L : u = <<"pair", i, 2>> /\ ks[i] = k
               \/ u = <<"node", 1, k>> /\ \A i \in 1 .. L : ks[i] # k
        BY <2>3, <4>1
      <4>3. CASE \E i \in 1 .. L : ks[i] = k
        <5>1. PICK i \in 1 .. L : s = <<"pair", i, 2>> /\ ks[i] = k
          BY <4>2, <4>3
        <5>2. PICK j \in 1 .. L : u = <<"pair", j, 2>> /\ ks[j] = k
          BY <4>2, <4>3
        <5>. QED
          BY <1>3, <5>1, <5>2
      <4>4. CASE \A i \in 1 .. L : ks[i] # k
        <5>1. s = <<"node", 1, k>> /\ u = <<"node", 1, k>>
          BY <4>2, <4>4
        <5>. QED
          BY <5>1
      <4>. QED
        BY <4>3, <4>4
    <3>. QED
      BY <2>4, <3>1, <3>2
  <2>. QED
    BY <2>5
<1>11. \A i \in HandItems(t, h) : \E s \in I : src[s] = i
  <2>1. \E s \in I : src[s] = lk
    BY <1>2, <1>8
  <2>2. ASSUME NEW k \in {1, 2} PROVE \E s \in I : src[s] = P[k]
    <3>1. CASE \E i \in 1 .. L : ks[i] = k
      <4>1. PICK i \in 1 .. L : ks[i] = k
        BY <3>1
      <4>2. <<"pair", i, 2>> \in I /\ src[<<"pair", i, 2>>] = P[k]
        BY <1>2, <1>8, <4>1
      <4>. QED
        BY <4>2
    <3>2. CASE \A i \in 1 .. L : ks[i] # k
      BY <1>2, <1>8, <3>2
    <3>. QED
      BY <3>1, <3>2
  <2>. QED
    BY <1>6, <2>1, <2>2
<1>. QED
  BY <1>9, <1>10, <1>11

LEMMA LeakStoreKeeps ==
  ASSUME CudaInv, GridRoomy, NEW t \in Gid, LeakStore(t)
  PROVE  CudaInv'
<1>1. /\ BufTypes /\ PoolTypes /\ ThreadTypes /\ Balanced(CudaRest) /\ program \in DOMAIN Book
      /\ DOMAIN phase = Gid /\ DOMAIN slice = Gid /\ DOMAIN hand = Gid /\ KeptOnce /\ GridThread(t)
  BY CudaFacts
<1>2. PICK h, ks, L, v, n, stored, pairs : LeakStores(t, h, ks, L, v, n, stored, pairs)
  BY LeakSteps
<1>3. /\ h = hand[t] /\ h # <<>> /\ h.for = "leak" /\ hand' = [hand EXCEPT ![t] = <<>>]
      /\ UNCHANGED <<program, pool, oper, mode, phase, slice, saved>>
  BY <1>2 DEF LeakStores
<1>4. /\ GlobalRewrite(t, n, v, L, stored, 1, pairs) /\ LeakSpots(h, ks, L, v, n, stored, pairs)
      /\ \A i, j \in 1 .. L : v[i] = v[j] => i = j
  BY <1>2, LeakRewrites
<1>5. /\ BufTypes' /\ ThreadTypes' /\ \A u \in Thread \ {As(t)} : pc'[u] = pc[u]
      /\ Changed(HeldInNodes, HeldInNodes', {}, StoredItems(n, stored, 1))
      /\ Changed(HeldInVars, HeldInVars', {}, {})
      /\ Changed(HeldInTodo, HeldInTodo', {}, ListItems(As(t), pairs))
      /\ Changed(HeldInOper, HeldInOper', {}, {})
  BY <1>4, GlobalRewrites
<1>6. PICK g, N, P, o : /\ g = Global(t) /\ N = StoredItems(n, stored, 1)
                        /\ P = ListItems(As(t), pairs) /\ o = HandItems(t, h)
  OBVIOUS
<1>7. /\ Stored(g, {}, n, v, L, stored, 1) /\ IsList(pairs)
      /\ \A j \in 1 .. 1 : stored[j] # FREE_NODE
  BY <1>4, <1>6 DEF GlobalRewrite
<1>8. LeakList(ks, L) /\ Len(pairs) = L + 1
  BY <1>4 DEF LeakSpots
<1>9. PICK S, I : S = Spots(1, Len(pairs)) /\ I = MovedSpots(ks, L)
  OBVIOUS
<1>10. PICK at : /\ {at[s] : s \in S} = N \cup P
                 /\ \A s, u \in S : at[s] = at[u] => s = u
                 /\ \A s \in S : at[s][2] = Contents(stored, pairs, s)
  <2>1. \A i, j \in 1 .. 1 : n[i] = n[j] => i = j
    BY <1>7 DEF Stored
  <2>. QED
    BY <1>6, <1>7, <1>9, <2>1, SpotItems
<1>11. PICK src : src = [s \in I |-> LeakFrom(t, h, ks, s)]
  OBVIOUS
<1>12. /\ \A s \in I : src[s] \in o /\ src[s][2] = Contents(stored, pairs, s)
       /\ \A s, u \in I : src[s] = src[u] => s = u
       /\ \A i \in o : \E s \in I : src[s] = i
  BY <1>3, <1>4, <1>6, <1>9, <1>11, LeakMoves
<1>13. I \subseteq S
  BY <1>8, <1>9, InMoved
<1>14. Changed(HeldInHands, HeldInHands', o, {})
  <2>1. Changed(HandItems(t, hand[t]), HandItems(t, <<>>), o, {})
    BY <1>3, <1>6, NoHand DEF Changed
  <2>. QED
    BY <1>1, <1>3, <2>1, HandsChanged
<1>15. PICK R, T : R = CudaRest /\ T = CudaRest'
  OBVIOUS
<1>16. Changed(All(R), All(T)', o, N \cup P)
  <2>1. HeldInPool' = HeldInPool
    BY <1>3 DEF HeldInPool
  <2>2. Changed(HeldInPool, HeldInPool', {}, {})
    BY <2>1, Unchanged
  <2>3. Changed(HeldInKept, HeldInKept', {}, {})
    BY <1>3, KeptSame
  <2>4. /\ Changed(HeldInNodes, HeldInNodes', {}, N) /\ Changed(HeldInVars, HeldInVars', {}, {})
        /\ Changed(HeldInTodo, HeldInTodo', {}, P) /\ Changed(HeldInOper, HeldInOper', {}, {})
    BY <1>5, <1>6
  <2>5. Changed(All(R), All(T)', ({} \cup {} \cup {} \cup {} \cup {}) \cup ({} \cup o),
                (N \cup {} \cup {} \cup P \cup {}) \cup ({} \cup {}))
    BY <1>14, <1>15, <2>2, <2>3, <2>4, GridChanged
  <2>6. /\ ({} \cup {} \cup {} \cup {} \cup {}) \cup ({} \cup o) = o
        /\ (N \cup {} \cup {} \cup P \cup {}) \cup ({} \cup {}) = N \cup P
    OBVIOUS
  <2>. QED
    BY <2>5, <2>6
<1>17. Rearranged(All(R), All(T)', o, S, at, I, src)
  BY <1>10, <1>12, <1>13, <1>16 DEF Changed, Rearranged
<1>18. Balanced(CudaRest)'
  <2>1. h.tag \in Nodes
    BY <1>3, HandHeld DEF IsHand
  <2>2. Makes(n, v, L, stored, 1, pairs, I)
    BY <1>4, <1>9, <2>1, LeakMakes
  <2>3. \A x : Made(S, at, I, x) = Written(stored, 1, pairs, I, x)
    BY <1>9, <1>10 DEF Made, Written
  <2>4. /\ \A c \in Loc : Counted(Made(S, at, I, <<"VAR", c>>), IF \E j \in 1 .. L : v[j] = c THEN 2 ELSE 0)
        /\ \A c \in Loc : Counted(Made(S, at, I, <<"NODE", c>>), IF \E j \in 1 .. 1 : n[j] = c THEN 1 ELSE 0)
    BY <2>2, <2>3 DEF Makes
  <2>5. Balanced(R)
    BY <1>1, <1>15
  <2>6. Balanced(T)'
    BY <1>7, <1>12, <1>17, <2>4, <2>5, MovedAndMade
  <2>. QED
    BY <1>15, <2>6, Carried
<1>19. PoolTypes'
  BY <1>1, <1>3, PortsKept DEF PoolTypes
<1>20. GridInv'
  <2>1. hand'[t] = <<>> /\ DOMAIN hand' = Gid /\ \A u \in Gid \ {t} : hand'[u] = hand[u]
    BY <1>1, <1>3
  <2>2. GridThread(t)'
    <3>1. As(t)' = As(t) /\ Spare(t)' = Spare(t) /\ Spare(t) \in Thread \ {As(t)}
      BY <1>3, GridShape DEF As, Spare
    <3>2. phase[t] # "exit"
      BY <1>3, HandHeld
    <3>. QED
      BY <1>1, <1>3, <1>5, <2>1, <3>1, <3>2 DEF GridThread
  <2>3. KeptOnce'
    BY <1>1, <1>3, KeptSame
  <2>. QED
    BY <1>1, <1>3, <1>5, <2>1, <2>2, <2>3, GridKept DEF CudaInv
<1>. QED
  BY <1>1, <1>3, <1>5, <1>18, <1>19, <1>20 DEF CudaInv, NetInv

-----------------------------------------------------------------------------
(* A launch.                                                               *)

LEMMA OwnerInGrid == \A c \in Loc : Owner(c) \in Gid
<1>. SUFFICES ASSUME NEW c \in Loc PROVE Owner(c) \in Gid
  OBVIOUS
<1>1. PICK d \in Nat \ {0} : d = 2 * PLEN
  BY Sizes
<1>2. PICK h \in Nat : TPC = 2 * h /\ TPC \div 2 = h
  <2>1. TPC \in Nat /\ TPC % 2 = 0
    BY InteractionsAssumption, CudaNetAssumption
  <2>. QED
    BY <2>1
<1>3. c \in Nat /\ c < h * d
  <2>1. TPC * PLEN = h * d
    BY <1>1, <1>2, Sizes
  <2>2. c \in Nat /\ c < TPC * PLEN
    BY Sizes DEF Loc
  <2>. QED
    BY <2>1, <2>2
<1>4. PICK q \in Nat : \E r \in 0 .. d - 1 : q = c \div d /\ c = d * q + r
  <2>1. c \div d \in Nat /\ c % d \in 0 .. d - 1 /\ c = d * (c \div d) + (c % d)
    BY <1>3, Division, ZenonT(30)
  <2>. QED
    BY <2>1, ZenonT(30)
<1>5. PICK r \in 0 .. d - 1 : q = c \div d /\ c = d * q + r
  BY <1>4
<1>6. q < h
  <2>. SUFFICES ASSUME h <= q PROVE FALSE
    BY <1>2
  <2>1. PICK w \in Nat : q = h + w
    BY <1>2
  <2>2. PICK m \in Nat : m = d * w
    BY <1>1
  <2>3. d * q = h * d + m
    BY <2>1, <2>2
  <2>. QED
    BY <1>3, <1>5, <2>2, <2>3
<1>. QED
  BY <1>1, <1>2, <1>5, <1>6 DEF Owner, Gid

\* Each thread of Interactions is one of a thread of the grid.
LEMMA GridCovers ==
  /\ \A i \in Thread : \E t \in Gid : i \in {As(t), Spare(t)}
  /\ \A i \in Thread : \E t \in Gid : i \in {Local(t), Global(t)}
<1>1. TPC \in Nat /\ TPC % 2 = 0
  BY InteractionsAssumption, CudaNetAssumption
<1>2. ASSUME NEW i \in Thread PROVE \E t \in Gid : i \in {Local(t), Global(t)}
  <2>1. i \in Nat /\ i < TPC
    BY <1>1 DEF Thread
  <2>2. PICK t \in Nat : i = 2 * t \/ i = 2 * t + 1
    <3>1. i \div 2 \in Nat /\ (i = 2 * (i \div 2) \/ i = 2 * (i \div 2) + 1)
      BY <2>1
    <3>. QED
      BY <3>1
  <2>3. t \in Gid
    BY <1>1, <2>1, <2>2 DEF Gid
  <2>. QED
    BY <2>2, <2>3 DEF Local, Global
<1>3. ASSUME NEW i \in Thread PROVE \E t \in Gid : i \in {As(t), Spare(t)}
  BY <1>2, <1>3, GridShape
<1>. QED
  BY <1>2, <1>3

\* What a launch clears is clear: every thread has left.
LEMMA LaunchSame ==
  ASSUME CudaInv, NothingLost, Launch
  PROVE  /\ \A i \in Thread : pc[i] = "idle"
         /\ \A t \in Gid : hand[t] = <<>> /\ slice[t] = {}
         /\ DOMAIN node_buf' = Loc /\ \A c \in Loc : node_buf'[c] = node_buf[c]
         /\ DOMAIN vars_buf' = Loc /\ \A c \in Loc : vars_buf'[c] = vars_buf[c]
         /\ DOMAIN pool' = Gid /\ DOMAIN pool = Gid /\ \A t \in Gid : pool'[t] = pool[t]
<1>1. /\ BufTypes /\ PoolTypes /\ DOMAIN hand = Gid /\ \A t \in Gid : GridThread(t) /\ phase[t] = "exit"
  BY CudaFacts DEF Launch
<1>2. ASSUME NEW t \in Gid
      PROVE  pc[As(t)] = "idle" /\ pc[Spare(t)] = "idle" /\ hand[t] = <<>> /\ slice[t] = {}
  BY <1>1 DEF GridThread
<1>3. \A i \in Thread : pc[i] = "idle"
  BY <1>2, GridCovers
<1>4. \A c \in Loc : LocalCell(c) => node_buf[c] = FREE_NODE /\ vars_buf[c] = FREE
  BY <1>1, OwnerInGrid DEF NothingLost
<1>5. DOMAIN node_buf' = Loc /\ \A c \in Loc : node_buf'[c] = node_buf[c]
  BY <1>4 DEF Launch
<1>6. DOMAIN vars_buf' = Loc /\ \A c \in Loc : vars_buf'[c] = vars_buf[c]
  BY <1>4 DEF Launch
<1>7. DOMAIN pool' = Gid /\ DOMAIN pool = Gid
  BY <1>1, GridShape DEF Launch, PoolTypes
<1>8. \A t \in Gid : pool'[t] = pool[t]
  BY <1>1 DEF Launch, NothingLost
<1>. QED
  BY <1>1, <1>2, <1>3, <1>5, <1>6, <1>7, <1>8

\* A launch spreads the redexes saved, and clears what is clear.
LEMMA LaunchKeeps ==
  ASSUME CudaInv, NothingLost, Launch
  PROVE  CudaInv'
<1>1. /\ BufTypes /\ PoolTypes /\ ThreadTypes /\ Balanced(CudaRest) /\ program \in DOMAIN Book
      /\ DOMAIN slice = Gid /\ DOMAIN hand = Gid /\ KeptOnce
  BY CudaFacts
<1>2. /\ \A i \in Thread : pc[i] = "idle"
      /\ \A t \in Gid : hand[t] = <<>> /\ slice[t] = {}
  BY LaunchSame
<1>3. /\ DOMAIN node_buf' = Loc /\ \A c \in Loc : node_buf'[c] = node_buf[c]
      /\ DOMAIN vars_buf' = Loc /\ \A c \in Loc : vars_buf'[c] = vars_buf[c]
      /\ DOMAIN pool' = Gid /\ DOMAIN pool = Gid /\ \A t \in Gid : pool'[t] = pool[t]
  BY LaunchSame
<1>4. /\ program' = program /\ pc' = pc /\ todo' = todo /\ oper' = oper /\ hand' = hand
      /\ saved' = {} /\ phase' = [t \in Gid |-> "load"]
  BY DEF Launch
<1>5. nput' \in [Thread -> Nat] /\ vput' \in [Thread -> Nat]
  <2>1. nput \in [Thread -> Nat] /\ vput \in [Thread -> Nat]
    BY <1>1 DEF BufTypes
  <2>. QED
    BY <2>1 DEF Launch
<1>6. mode' \in {"GROW", "WORK"}
  BY DEF Launch
<1>7. PICK to \in [saved -> Gid] : slice' = [t \in Gid |-> {r \in saved : to[r] = t}]
  BY DEF Launch
<1>8. \A r : r \in Kept' <=> r \in Kept
  <2>1. \A r : r \in Kept <=> r \in saved
    BY <1>2, InKept
  <2>2. \A r : (\E t \in Gid : r \in slice'[t]) <=> r \in saved
    BY <1>7
  <2>. QED
    BY <1>4, <2>1, <2>2, InKept
<1>9. BufTypes'
  <2>1. \A p : (IsPort(p) <=> IsPort(p)') /\ (IsPair(p) <=> IsPair(p)')
    BY <1>4, PortsKept
  <2>3. \A c \in Loc : IsPair(node_buf[c])' /\ (vars_buf'[c] = NONE \/ IsPort(vars_buf[c])')
    <3>. SUFFICES ASSUME NEW c \in Loc
                  PROVE  IsPair(node_buf[c])' /\ (vars_buf'[c] = NONE \/ IsPort(vars_buf[c])')
      OBVIOUS
    <3>1. node_buf'[c] = node_buf[c] /\ vars_buf'[c] = vars_buf[c]
      BY <1>3
    <3>2. IsPair(node_buf[c]) /\ (vars_buf[c] = NONE \/ IsPort(vars_buf[c]))
      BY <1>1 DEF BufTypes
    <3>. QED
      BY <2>1, <3>1, <3>2
  <2>2. vars_buf'[0] = FREE
    BY <1>1, <1>3, Sizes DEF BufTypes
  <2>. QED
    BY <1>3, <1>5, <2>2, <2>3 DEF BufTypes
<1>10. PoolTypes'
  <2>1. \A b \in Gid : \A r \in DOMAIN pool'[b] : pool'[b][r] \in Nat \ {0} /\ IsPair(r)'
    BY <1>1, <1>3, <1>4, GridShape, PortsKept DEF PoolTypes
  <2>. QED
    BY <1>3, <2>1, GridShape DEF PoolTypes
<1>11. ThreadTypes'
  <2>1. \A t \in Thread : ThreadInv(t)'
    <3>. SUFFICES ASSUME NEW t \in Thread PROVE ThreadInv(t)'
      OBVIOUS
    <3>1. ThreadInv(t) /\ pc[t] = "idle"
      BY <1>1, <1>2 DEF ThreadTypes
    <3>2. IsList(todo[t])
      BY <3>1 DEF ThreadInv
    <3>3. IsList(todo[t])'
      BY <1>4, <3>2, PortsKept
    <3>. QED
      BY <1>4, <3>1, <3>3 DEF ThreadInv
  <2>. QED
    BY <1>1, <1>4, <2>1 DEF ThreadTypes
<1>12. Held' = Held
  <2>1. HeldInNodes' = HeldInNodes
    BY <1>3 DEF HeldInNodes
  <2>2. HeldInVars' = HeldInVars
    BY <1>3 DEF HeldInVars
  <2>3. \A h : h \in HeldInPool' <=> h \in HeldInPool
    BY <1>3, InPool, InPoolNext
  <2>4. HeldInTodo' = HeldInTodo /\ HeldInOper' = HeldInOper
    BY <1>4 DEF HeldInTodo, HeldInOper
  <2>. QED
    BY <2>1, <2>2, <2>3, <2>4 DEF Held
<1>13. CudaRest' = CudaRest
  <2>1. Kept' = Kept
    BY <1>8
  <2>2. HeldInKept' = HeldInKept
    BY <2>1 DEF HeldInKept
  <2>3. HeldInHands' = HeldInHands
    BY <1>4 DEF HeldInHands
  <2>. QED
    BY <2>2, <2>3 DEF CudaRest
<1>14. Balanced(CudaRest)'
  <2>1. \A c \in Loc : OwedVar(c)' = OwedVar(c) /\ OwedNode(c)' = OwedNode(c)
    BY <1>3 DEF OwedVar, OwedNode
  <2>2. All(CudaRest)' = All(CudaRest)
    BY <1>12, <1>13 DEF All
  <2>. QED
    BY <1>1, <2>1, <2>2 DEF Balanced
<1>15. GridInv'
  <2>1. ASSUME NEW t \in Gid PROVE GridThread(t)'
    <3>1. Local(t) \in Thread /\ Global(t) \in Thread
      BY Halves
    <3>2. pc'[Spare(t)'] = "idle" /\ pc'[As(t)'] = "idle"
      BY <1>2, <1>4, <3>1 DEF Spare, As
    <3>3. phase'[t] = "load" /\ hand'[t] = <<>>
      BY <1>2, <1>4
    <3>. QED
      BY <3>2, <3>3 DEF GridThread
  <2>2. KeptOnce'
    <3>1. \A r \in Kept' : IsPair(r)'
      BY <1>1, <1>4, <1>8, PortsKept DEF KeptOnce
    <3>2. \A t, u \in Gid : \A r \in slice'[t] : r \in slice'[u] => t = u
      BY <1>7
    <3>. QED
      BY <1>4, <3>1, <3>2 DEF KeptOnce
  <2>3. DOMAIN phase' = Gid /\ DOMAIN slice' = Gid /\ DOMAIN hand' = Gid
    BY <1>1, <1>4, <1>7
  <2>. QED
    BY <1>6, <2>1, <2>2, <2>3 DEF GridInv
<1>. QED
  BY <1>1, <1>4, <1>9, <1>10, <1>11, <1>14, <1>15 DEF CudaInv, NetInv

-----------------------------------------------------------------------------
(* The grid keeps its invariant.                                           *)

LEMMA CudaStarts == CudaInit => CudaInv
<1>. SUFFICES ASSUME CudaInit PROVE CudaInv
  OBVIOUS
<1>1. /\ InitNet /\ pool = [t \in Gid |-> EmptyBag] /\ mode = "GROW"
      /\ phase = [t \in Gid |-> "exit"] /\ slice = [t \in Gid |-> {}]
      /\ saved = {BootRedex} /\ hand = [t \in Gid |-> <<>>]
  BY DEF CudaInit
<1>2. /\ program \in DOMAIN Book
      /\ DOMAIN node_buf = Loc /\ \A c \in Loc : node_buf[c] = FREE_NODE
      /\ DOMAIN vars_buf = Loc /\ \A c \in Loc : vars_buf[c] \in {NONE, FREE}
      /\ \A t \in Thread : pc[t] = "idle"
      /\ DOMAIN todo = Thread /\ \A t \in Thread : todo[t] = <<>>
      /\ DOMAIN oper = Thread /\ \A t \in Thread : oper[t] = <<>>
  BY <1>1 DEF InitNet
<1>3. DOMAIN pool = Bags /\ \A b \in Bags : DOMAIN pool[b] = {}
  <2>1. DOMAIN EmptyBag = {}
    BY DEF EmptyBag, SetToBag
  <2>. QED
    BY <1>1, <2>1, GridShape
<1>4. PoolTypes
  BY <1>3 DEF PoolTypes
<1>5. \A r : r \in Kept <=> r = BootRedex
  BY <1>1, InKept
<1>6. GridInv
  <2>1. KeptOnce
    BY <1>1, <1>2, <1>5, BootPorts DEF KeptOnce
  <2>2. ASSUME NEW t \in Gid PROVE GridThread(t)
    <3>1. pc[Spare(t)] = "idle" /\ pc[As(t)] = "idle"
      BY <1>2, GridShape
    <3>. QED
      BY <1>1, <3>1 DEF GridThread
  <2>. QED
    BY <1>1, <2>1, <2>2 DEF GridInv
<1>7. PICK g, h, m : /\ g = SavedItem(BootRedex, 1) /\ h = SavedItem(BootRedex, 2)
                      /\ m = << <<"main">>, ROOT>>
  OBVIOUS
<1>8. PICK R : R = CudaRest
  OBVIOUS
<1>9. All(R) = {g, h, m}
  <2>1. HeldInNodes = {}
    BY <1>2 DEF HeldInNodes
  <2>2. HeldInVars = {}
    BY <1>2 DEF HeldInVars
  <2>3. HeldInTodo = {}
    BY <1>2 DEF HeldInTodo
  <2>4. HeldInOper = {}
    BY <1>2 DEF HeldInOper
  <2>5. \A x : x \notin HeldInPool
    BY <1>3, InPool
  <2>6. \A x : x \notin HeldInHands
    BY <1>1, InHands, NoHand
  <2>7. \A x : x \in HeldInKept <=> x = g \/ x = h
    BY <1>5, <1>7 DEF HeldInKept, SavedItem
  <2>8. \A x : x \in All(R) <=> x \in {g, h, m}
    BY <1>7, <1>8, <2>1, <2>2, <2>3, <2>4, <2>5, <2>6, <2>7 DEF All, Held, CudaRest
  <2>. QED
    BY <2>8, Zenon
<1>10. g[2] = BootRedex[1] /\ h[2] = ROOT /\ m[2] = ROOT /\ h # m
  BY <1>7 DEF SavedItem, BootRedex
<1>11. NetInv(R)
  BY <1>1, <1>4, <1>9, <1>10, Starts
<1>. QED
  BY <1>6, <1>8, <1>11 DEF CudaInv

LEMMA CudaStutters ==
  ASSUME CudaInv, UNCHANGED allVars
  PROVE  CudaInv'
<1>1. UNCHANGED vars /\ UNCHANGED cudaVars
  BY DEF allVars
<1>2. /\ BufTypes /\ PoolTypes /\ ThreadTypes /\ Balanced(CudaRest) /\ program \in DOMAIN Book
      /\ KeptOnce
  BY CudaFacts
<1>3. /\ BufTypes' /\ PoolTypes' /\ ThreadTypes' /\ Held' = Held
      /\ \A c : OwedVar(c)' = OwedVar(c) /\ OwedNode(c)' = OwedNode(c)
  BY <1>1, <1>2, Stutters
<1>4. program' = program /\ pc' = pc
  BY <1>1 DEF vars
<1>5. /\ mode' = mode /\ phase' = phase /\ slice' = slice /\ saved' = saved /\ hand' = hand
  BY <1>1 DEF cudaVars
<1>6. CudaRest' = CudaRest
  BY <1>1, RestUnchanged
<1>7. Balanced(CudaRest)'
  BY <1>2, <1>3, <1>6 DEF Balanced, All
<1>8. GridInv'
  <2>1. KeptOnce'
    BY <1>2, <1>4, <1>5, KeptSame
  <2>2. ASSUME NEW t \in Gid PROVE GridThread(t)'
    <3>1. As(t)' = As(t) /\ Spare(t)' = Spare(t)
      BY <1>5 DEF As, Spare
    <3>2. GridThread(t)
      BY DEF CudaInv, GridInv
    <3>3. IsHand(hand[t])' <=> IsHand(hand[t])
      BY <1>4, <1>5, PortsKept DEF IsHand
    <3>. QED
      BY <1>4, <1>5, <3>1, <3>2, <3>3 DEF GridThread
  <2>. QED
    BY <1>5, <2>1, <2>2 DEF CudaInv, GridInv
<1>. QED
  BY <1>2, <1>3, <1>4, <1>7, <1>8 DEF CudaInv, NetInv

LEMMA CudaStepKeeps ==
  ASSUME CudaInv, GridRoomy, NothingLost, [CudaNext]_allVars
  PROVE  CudaInv'
<1>1. ASSUME NEW t \in Gid, CudaStep(t) PROVE CudaInv'
  <2>1. CASE Load(t)
    BY <2>1, LoadKeeps
  <2>2. CASE Loaded(t) \/ Stop(t) \/ Saved(t) \/ Exit(t)
    BY <2>2, PhaseStepsKeep
  <2>3. CASE EnterPort(t)
    BY <2>3, EnterPortKeeps
  <2>4. CASE LoadPush(t)
    BY <2>4, LoadPushKeeps
  <2>5. CASE Linkage(t)
    BY <2>5, LinkageKeeps
  <2>6. CASE Reduce(t)
    BY <2>6, ReduceKeeps
  <2>7. CASE ReduceLink(t)
    BY <2>7, ReduceLinkKeeps
  <2>8. CASE LeakStore(t)
    BY <2>8, LeakStoreKeeps
  <2>9. CASE Save(t)
    BY <2>9, SaveKeeps
  <2>. QED
    BY <1>1, <2>1, <2>2, <2>3, <2>4, <2>5, <2>6, <2>7, <2>8, <2>9 DEF CudaStep
<1>2. CASE Launch
  BY <1>2, LaunchKeeps
<1>3. CASE UNCHANGED allVars
  BY <1>3, CudaStutters
<1>. QED
  BY <1>1, <1>2, <1>3 DEF CudaNext

\* What the grid holds are ports.
LEMMA RestPorts == ASSUME CudaInv PROVE \A h \in CudaRest : IsPort(h[2])
<1>1. KeptOnce /\ \A t \in Gid : GridThread(t)
  BY CudaFacts
<1>2. ASSUME NEW h \in HeldInKept PROVE IsPort(h[2])
  <2>1. PICK r \in Kept, k \in {1, 2} : h = SavedItem(r, k)
    BY DEF HeldInKept, SavedItem
  <2>2. IsPair(r) /\ h[2] = r[k]
    BY <1>1, <2>1 DEF KeptOnce, SavedItem
  <2>. QED
    BY <2>2 DEF IsPair
<1>3. ASSUME NEW h \in HeldInHands PROVE IsPort(h[2])
  <2>1. PICK t \in Gid : h \in HandItems(t, hand[t])
    BY InHands
  <2>2. PICK q : q = hand[t]
    OBVIOUS
  <2>3. /\ q # <<>>
        /\ \/ \E k \in {1, 2} : h = HandItem(t, k, q.ports[k])
           \/ q.for = "leak" /\ h = LeakItem(t, q.var)
    BY <2>1, <2>2, InHandItems
  <2>4. IsHand(q)
    BY <1>1, <2>2, <2>3 DEF GridThread
  <2>5. \A k \in {1, 2} : IsPort(q.ports[k])
    BY <2>4 DEF IsHand, IsPair
  <2>6. q.for = "leak" => IsPort(q.var)
    BY <2>4 DEF IsHand
  <2>7. CASE \E k \in {1, 2} : h = HandItem(t, k, q.ports[k])
    BY <2>5, <2>7, HandItemOf
  <2>8. CASE q.for = "leak" /\ h = LeakItem(t, q.var)
    BY <2>6, <2>8, HandItemOf
  <2>. QED
    BY <2>3, <2>7, <2>8
<1>. QED
  BY <1>2, <1>3 DEF CudaRest

\* The inductive invariant of the grid: the net is balanced as one of the C runtime
\* is, with the redexes kept from a launch to the next and what a thread has in its
\* hands while it loads or leaks; a thread of the grid is one of its two allocators
\* at a time, and it links nothing while it has a redex or a node in its hands.
\* NothingLost is needed where a launch clears the local memories and the bags.
THEOREM CudaInvariant == CudaSpec /\ [](GridRoomy /\ NothingLost) => []CudaInv
<1>1. CudaInit => CudaInv
  BY CudaStarts
<1>2. CudaInv /\ (GridRoomy /\ NothingLost) /\ [CudaNext]_allVars => CudaInv'
  BY CudaStepKeeps
<1>. QED
  BY <1>1, <1>2, PTL DEF CudaSpec

\* The net of the grid is linear at every moment, over the global memory and all
\* local ones, for any book, any number of threads and of launches, in every mode,
\* however links, leaks and saves interleave, as long as the searches find the
\* cells they are asked for and no launch ends with redexes in a bag.
THEOREM CudaStaysLinear == CudaSpec /\ [](GridRoomy /\ NothingLost) => []NetLinear
<1>1. CudaInv => NetLinear
  <2>. SUFFICES ASSUME CudaInv PROVE NetLinear
    OBVIOUS
  <2>1. PICK R : R = CudaRest
    OBVIOUS
  <2>2. NetInv(R) /\ \A h \in R : IsPort(h[2])
    BY <2>1, RestPorts DEF CudaInv
  <2>3. LinearIn(All(R))
    BY <2>2, LinearHolds
  <2>4. All(R) = Held \cup HeldInKept \cup HeldInHands
    BY <2>1 DEF All, CudaRest
  <2>. QED
    BY <2>3, <2>4 DEF NetLinear
<1>. QED
  BY <1>1, CudaInvariant, PTL

-----------------------------------------------------------------------------
(* What a thread of the grid holds of the local memories.                   *)

LEMMA LinkingInHand ==
  ASSUME NEW Rest, NetInv(Rest), NEW t \in Thread, pc[t] \in {"link", "point"},
         NEW A, NEW B, A = Linking(t)[1], B = Linking(t)[2]
  PROVE  /\ InHand(t, A) /\ InHand(t, B) /\ Linking(t) = <<A, B>> /\ IsPort(A) /\ IsPort(B)
         /\ is_var(A) => A = VarP(val(A)) /\ vars_buf[val(A)] # FREE
         /\ \A i \in DOMAIN Tail(todo[t]), k \in {1, 2} : InHand(t, Tail(todo[t])[i][k])
<1>1. /\ ThreadTypes /\ BufTypes /\ Balanced(Rest) /\ IsList(todo[t]) /\ todo[t] # <<>>
  BY DEF NetInv, ThreadTypes, ThreadInv
<1>2. PICK q, s : s = todo[t] /\ q = s[1]
  OBVIOUS
<1>3. PICK x, y : /\ x \in {1, 2} /\ y \in {1, 2} /\ Linking(t) = <<q[x], q[y]>>
                  /\ IsPort(q[x]) /\ IsPort(q[y])
  <2>1. \E x, y : LinkingAt(t, q, x, y)
    BY <1>1, <1>2, LinkingPair
  <2>. QED
    BY <2>1 DEF LinkingAt
<1>4. A = q[x] /\ B = q[y]
  BY <1>3
<1>5. PICK S : s \in Seq(S)
  BY <1>1, <1>2 DEF IsList
<1>6. 1 \in DOMAIN s /\ \A i \in DOMAIN Tail(s) : i + 1 \in DOMAIN s /\ Tail(s)[i] = s[i + 1]
  BY <1>1, <1>2, <1>5
<1>7. \A i \in DOMAIN s, k \in {1, 2} : InHand(t, s[i][k])
  BY <1>2 DEF InHand
<1>8. InHand(t, A) /\ InHand(t, B)
  BY <1>2, <1>3, <1>4, <1>6, <1>7
<1>9. ASSUME is_var(A) PROVE A = VarP(val(A)) /\ vars_buf[val(A)] # FREE
  <2>1. A = VarP(val(A))
    BY <1>3, <1>4, <1>9 DEF IsPort, VarP, is_var
  <2>2. PICK h : h = TodoItem(t, Len(s) - 1, x, q[x])
    OBVIOUS
  <2>3. h \in All(Rest) /\ h[2] = A
    BY <1>1, <1>2, <1>3, <1>4, <2>2, HeadHeld DEF TodoItem
  <2>. QED
    BY <1>1, <1>3, <1>4, <1>9, <2>1, <2>3, HeldPort
<1>10. \A i \in DOMAIN Tail(s), k \in {1, 2} : InHand(t, Tail(s)[i][k])
  BY <1>6, <1>7
<1>. QED
  BY <1>2, <1>3, <1>4, <1>8, <1>9, <1>10

LEMMA LinkConfined ==
  ASSUME NEW Rest, NetInv(Rest), NEW t \in Thread, pc[t] \in {"link", "point"},
         UNCHANGED <<node_buf, oper>>,
         pool' = pool \/ pool' = [pool EXCEPT ![BagOf[t]] = With(@, Linking(t))],
         \/ todo' = [todo EXCEPT ![t] = Tail(todo[t])]
         \/ \E p, q : /\ todo' = [todo EXCEPT ![t][1] = <<p, q>>]
                      /\ Reached(t, p) /\ Reached(t, q)
  PROVE  PortsConfined(t)
<1>1. PICK A, B : A = Linking(t)[1] /\ B = Linking(t)[2]
  OBVIOUS
<1>2. /\ InHand(t, A) /\ InHand(t, B) /\ Linking(t) = <<A, B>>
      /\ \A i \in DOMAIN Tail(todo[t]), k \in {1, 2} : InHand(t, Tail(todo[t])[i][k])
  BY <1>1, LinkingInHand
<1>3. PoolConfined(t)
  <2>1. May(t, A) /\ May(t, B)
    BY <1>2 DEF May, Reached
  <2>2. \A k \in {1, 2} : May(t, Linking(t)[k])
    BY <1>1, <2>1
  <2>. QED
    BY <2>2, BagConfined DEF NetInv
<1>4. DOMAIN todo = Thread /\ IsList(todo[t])
  BY DEF NetInv, ThreadTypes, ThreadInv
<1>5. \A i \in DOMAIN todo'[t], k \in {1, 2} : May(t, todo'[t][i][k])
  <2>1. CASE todo' = [todo EXCEPT ![t] = Tail(todo[t])]
    BY <1>2, <1>4, <2>1 DEF May, Reached
  <2>2. ASSUME NEW p, NEW q, todo' = [todo EXCEPT ![t][1] = <<p, q>>], Reached(t, p), Reached(t, q)
        PROVE  \A i \in DOMAIN todo'[t], k \in {1, 2} : May(t, todo'[t][i][k])
    <3>1. PICK s : s = todo[t]
      OBVIOUS
    <3>2. PICK S : s \in Seq(S)
      BY <1>4, <3>1 DEF IsList
    <3>3. todo'[t] = [s EXCEPT ![1] = <<p, q>>]
      BY <1>4, <2>2, <3>1
    <3>4. \A i \in DOMAIN todo'[t] : i \in DOMAIN s /\ todo'[t][i] = IF i = 1 THEN <<p, q>> ELSE s[i]
      BY <3>2, <3>3
    <3>5. \A i \in DOMAIN s, k \in {1, 2} : May(t, s[i][k])
      <4>1. \A i \in DOMAIN s, k \in {1, 2} : InHand(t, s[i][k])
        BY <3>1 DEF InHand
      <4>. QED
        BY <4>1 DEF May, Reached
    <3>6. PICK e : e = <<p, q>>
      OBVIOUS
    <3>7. May(t, p) /\ May(t, q)
      BY <2>2 DEF May
    <3>8. \A k \in {1, 2} : May(t, e[k])
      <4>1. e[1] = p /\ e[2] = q
        BY <3>6
      <4>. QED
        BY <3>7, <4>1
    <3>. QED
      BY <3>4, <3>5, <3>6, <3>8
  <2>. QED
    BY <2>1, <2>2
<1>6. \A u \in Thread \ {t} : todo'[u] = todo[u]
  BY <1>4
<1>7. oper[t] # <<>> => \A k \in {2, 3} : May(t, oper[t][k])
  BY DEF May, Reached, InHand
<1>. QED
  BY <1>3, <1>5, <1>6, <1>7 DEF PortsConfined

\* The variable that is pointed at a port, if any, and this port do not leak.
LEMMA LinkageConfined ==
  ASSUME NEW Rest, NetInv(Rest), NEW t \in Thread, PushRedex(t) \/ Enter(t) \/ CudaPoint(t)
  PROVE  /\ PortsConfined(t)
         /\ \A c \in Loc : \/ vars_buf'[c] \in {vars_buf[c], FREE, NONE}
                           \/ /\ InHand(t, VarP(c)) /\ InHand(t, vars_buf'[c])
                              /\ ~Leaks(VarP(c), vars_buf'[c])
<1>1. pc[t] \in {"link", "point"} /\ UNCHANGED <<node_buf, oper>>
  BY DEF PushRedex, Enter, CudaPoint
<1>2. PICK A, B : A = Linking(t)[1] /\ B = Linking(t)[2]
  OBVIOUS
<1>3. /\ InHand(t, A) /\ InHand(t, B) /\ Linking(t) = <<A, B>> /\ IsPort(A) /\ IsPort(B)
      /\ is_var(A) => A = VarP(val(A)) /\ vars_buf[val(A)] # FREE
  BY <1>1, <1>2, LinkingInHand
<1>4. DOMAIN vars_buf = Loc
  BY DEF NetInv, BufTypes
<1>5. Reached(t, A) /\ Reached(t, B)
  BY <1>3 DEF Reached
<1>6. ASSUME NEW p, InHand(t, p), is_var(p), vars_buf[val(p)] \notin {FREE, NONE}
      PROVE  Reached(t, vars_buf[val(p)])
  BY <1>6 DEF Reached
<1>7. CASE PushRedex(t)
  <2>1. /\ pool' = [pool EXCEPT ![BagOf[t]] = With(@, Linking(t))]
        /\ todo' = [todo EXCEPT ![t] = Tail(todo[t])] /\ vars_buf' = vars_buf
    BY <1>7 DEF PushRedex, Links
  <2>. QED
    BY <1>1, <2>1, LinkConfined
<1>8. CASE Enter(t)
  <2>1. PICK got, c : c = val(B) /\ got = vars_buf[c]
    OBVIOUS
  <2>2. /\ pool' = pool /\ is_var(B)
        /\ \/ /\ vars_buf' = [vars_buf EXCEPT ![c] = NONE]
              /\ todo' = [todo EXCEPT ![t][1] = <<A, B>>]
           \/ /\ vars_buf' = [vars_buf EXCEPT ![c] = FREE] /\ got \notin {NONE, FREE}
              /\ todo' = [todo EXCEPT ![t][1] = <<A, got>>]
    BY <1>2, <1>8, <2>1 DEF Enter, GoOn
  <2>3. \A x \in Loc : vars_buf'[x] \in {vars_buf[x], FREE, NONE}
    BY <1>4, <2>2
  <2>4. got \notin {NONE, FREE} => Reached(t, got)
    BY <1>3, <1>6, <2>1, <2>2
  <2>. QED
    BY <1>1, <1>5, <2>2, <2>3, <2>4, LinkConfined
<1>9. CASE CudaPoint(t)
  <2>1. PICK got, c : c = val(A) /\ got = vars_buf[c]
    OBVIOUS
  <2>2. /\ is_var(A)
        /\ \/ /\ todo' = [todo EXCEPT ![t][1] = <<B, A>>] /\ vars_buf' = vars_buf /\ pool' = pool
           \/ /\ pool' = [pool EXCEPT ![BagOf[t]] = With(@, <<A, B>>)]
              /\ todo' = [todo EXCEPT ![t] = Tail(todo[t])] /\ vars_buf' = vars_buf
           \/ /\ vars_buf' = [vars_buf EXCEPT ![c] = B] /\ pool' = pool /\ ~Leaks(A, B)
              /\ todo' = [todo EXCEPT ![t] = Tail(todo[t])]
           \/ /\ vars_buf' = [vars_buf EXCEPT ![c] = FREE] /\ pool' = pool /\ got # NONE
              /\ todo' = [todo EXCEPT ![t][1] = <<got, B>>]
    <3>1. is_var(A)
      BY <1>2, <1>9 DEF CudaPoint, NetInv, ThreadTypes, ThreadInv
    <3>3. CASE Leaks(A, B) /\ is_var(B)
      BY <1>2, <1>9, <3>1, <3>3 DEF CudaPoint, GoOn
    <3>4. CASE ~(Leaks(A, B) /\ is_var(B)) /\ (Leaks(A, B) \/ (is_global(A) /\ got = FREE))
      BY <1>2, <1>9, <2>1, <3>1, <3>4 DEF CudaPoint, Pushed, Links
    <3>5. CASE ~(Leaks(A, B) \/ (is_global(A) /\ got = FREE))
      BY <1>2, <1>9, <2>1, <3>1, <3>5 DEF CudaPoint, Links, GoOn
    <3>. QED
      BY <3>3, <3>4, <3>5
  <2>3. A = VarP(c) /\ got # FREE
    BY <1>3, <2>1, <2>2
  <2>4. \A x \in Loc : \/ vars_buf'[x] \in {vars_buf[x], FREE, NONE}
                       \/ /\ InHand(t, VarP(x)) /\ InHand(t, vars_buf'[x])
                          /\ ~Leaks(VarP(x), vars_buf'[x])
    BY <1>3, <1>4, <2>2, <2>3
  <2>5. got # NONE => Reached(t, got)
    BY <1>3, <1>6, <2>1, <2>2, <2>3
  <2>6. \/ todo' = [todo EXCEPT ![t] = Tail(todo[t])]
        \/ \E p, q : todo' = [todo EXCEPT ![t][1] = <<p, q>>] /\ Reached(t, p) /\ Reached(t, q)
    BY <1>5, <2>2, <2>5
  <2>7. pool' = pool \/ pool' = [pool EXCEPT ![BagOf[t]] = With(@, Linking(t))]
    BY <1>3, <2>2
  <2>. QED
    BY <1>1, <2>4, <2>6, <2>7, LinkConfined
<1>. QED
  BY <1>7, <1>8, <1>9

LEMMA OperConfined ==
  ASSUME NEW Rest, NetInv(Rest), NEW t \in Thread, OperEnter(t) \/ Operate(t)
  PROVE  Confined(t)
<1>1. /\ BufTypes /\ PoolTypes /\ ThreadTypes /\ pool' = pool /\ todo[t] = <<>> /\ IsOper(t, oper[t])
      /\ DOMAIN oper = Thread /\ DOMAIN todo = Thread /\ DOMAIN vars_buf = Loc /\ DOMAIN node_buf = Loc
  BY DEF NetInv, ThreadTypes, ThreadInv, OperEnter, Operate, BufTypes
<1>2. PICK a, B1, B2, n : a = oper[t][1] /\ B1 = oper[t][2] /\ B2 = oper[t][3] /\ n = oper[t][4]
  OBVIOUS
<1>3. oper[t] = <<a, B1, B2, n>> /\ tag(a) = "NUM" /\ n \in Part(t)
  BY <1>1, <1>2 DEF IsOper
<1>4. /\ InHand(t, B1) /\ InHand(t, B2)
      /\ \A p : tag(p) = "NUM" \/ (tag(p) = "OPR" /\ val(p) = n) => May(t, p)
  <2>1. oper[t] # <<>>
    BY <1>3
  <2>. QED
    BY <1>2, <1>3, <2>1 DEF InHand, May, is_var, is_nod, Nodes
<1>5. May(t, B1) /\ May(t, B2) /\ May(t, a) /\ PoolConfined(t)
  BY <1>1, <1>3, <1>4, BagConfined DEF May, Reached
<1>6. CASE OperEnter(t)
  <2>1. PICK got, c : c = val(B2) /\ got = vars_buf[c]
    OBVIOUS
  <2>2. /\ UNCHANGED <<node_buf, todo>> /\ is_var(B2)
        /\ \/ vars_buf' = [vars_buf EXCEPT ![c] = NONE] /\ oper' = oper
           \/ /\ vars_buf' = [vars_buf EXCEPT ![c] = FREE] /\ got \notin {NONE, FREE}
              /\ oper' = [oper EXCEPT ![t][3] = got]
    BY <1>2, <1>6, <2>1 DEF OperEnter
  <2>3. got \notin {NONE, FREE} => May(t, got)
    BY <1>4, <2>1, <2>2 DEF May, Reached
  <2>4. \A x \in Loc : vars_buf'[x] \in {vars_buf[x], FREE, NONE}
    BY <1>1, <2>2
  <2>5. /\ oper'[t][2] = B1 /\ oper'[t][3] \in {B2, got}
        /\ oper'[t][3] = got /\ got \in {NONE, FREE} => got = B2
        /\ \A u \in Thread \ {t} : oper'[u] = oper[u]
    BY <1>1, <1>2, <1>3, <2>2
  <2>. QED
    BY <1>1, <1>5, <2>2, <2>3, <2>4, <2>5 DEF Confined, PortsConfined
<1>7. CASE Operate(t)
  <2>1. /\ vars_buf' = vars_buf /\ oper' = [oper EXCEPT ![t] = <<>>]
        /\ \E z : \/ /\ todo' = [todo EXCEPT ![t] = << <<NumP(z), B2>> >>] /\ node_buf' = node_buf
                  \/ /\ todo' = [todo EXCEPT ![t] = << <<B1, <<"OPR", n>> >> >>]
                     /\ node_buf' = [node_buf EXCEPT ![n] = <<a, B2>>]
    BY <1>2, <1>7 DEF Operate, Links
  <2>2. PICK z : \/ /\ todo' = [todo EXCEPT ![t] = << <<NumP(z), B2>> >>] /\ node_buf' = node_buf
                 \/ /\ todo' = [todo EXCEPT ![t] = << <<B1, <<"OPR", n>> >> >>]
                    /\ node_buf' = [node_buf EXCEPT ![n] = <<a, B2>>]
    BY <2>1
  <2>3. May(t, NumP(z)) /\ May(t, <<"OPR", n>>)
    BY <1>4 DEF NumP, tag, val
  <2>4. \A c \in Loc : \/ node_buf'[c] = node_buf[c]
                       \/ c = n /\ node_buf'[c] = <<a, B2>>
    BY <1>1, <2>2
  <2>5. \A i \in DOMAIN todo'[t], k \in {1, 2} : May(t, todo'[t][i][k])
    BY <1>1, <1>5, <2>2, <2>3
  <2>6. \A u \in Thread \ {t} : todo'[u] = todo[u] /\ oper'[u] = oper[u]
    BY <1>1, <2>1, <2>2
  <2>. QED
    BY <1>1, <1>3, <1>5, <2>1, <2>4, <2>5, <2>6 DEF Confined, PortsConfined
<1>. QED
  BY <1>6, <1>7

-----------------------------------------------------------------------------
(* Whose ports a cell holds.                                                *)

\* Ports that thread t may hold, and those that cell c may.
Fine(t, p) == is_local(p) => mode = "WORK" /\ Owner(val(p)) = t
FineIn(c, p) == is_local(p) => mode = "WORK" /\ LocalCell(c) /\ Owner(val(p)) = Owner(c)

CellFine(c) ==
  /\ node_buf[c] # FREE_NODE => \A k \in {1, 2} : FineIn(c, node_buf[c][k])
  /\ vars_buf[c] \notin {FREE, NONE} => FineIn(c, vars_buf[c])
HandFine(t) ==
  hand[t] # <<>> => /\ \A k \in {1, 2} : Fine(t, hand[t].ports[k])
                    /\ hand[t].for = "leak" => ~is_local(hand[t].var)
Hers(t) == (\A p : InHand(As(t), p) => Fine(t, p)) /\ HandFine(t)

\* Each local memory and each thread hold the local ports of one block, and only in
\* a launch that works in the local memories.
Apart ==
  /\ \A c \in Loc : CellFine(c)
  /\ \A r \in Kept, k \in {1, 2} : ~is_local(r[k])
  /\ \A t \in Gid : Hers(t)

LEMMA PartLocal ==
  ASSUME NEW t \in Gid, NEW c
  PROVE  /\ c \in Part(Local(t)) => LocalCell(c) /\ Owner(c) = t
         /\ c \in Part(Global(t)) => ~LocalCell(c)
<1>1. PICK d \in Nat \ {0} : d = PLEN
  BY Sizes
<1>2. t \in Nat /\ Local(t) = 2 * t /\ Global(t) = 2 * t + 1
  BY Halves DEF Local, Global
<1>3. ASSUME NEW i \in Nat, c \in Part(i) PROVE c \in Nat /\ \E r \in 0 .. d - 1 : c = d * i + r
  <2>1. PICK m \in Nat : m = d * i /\ m = i * PLEN
    BY <1>1
  <2>2. c \in m .. m + d - 1
    BY <1>1, <1>3, <2>1 DEF Part
  <2>3. c - m \in 0 .. d - 1 /\ c = m + (c - m)
    BY <1>1, <2>2
  <2>. QED
    BY <2>1, <2>2, <2>3
<1>4. ASSUME c \in Part(Local(t)) PROVE LocalCell(c) /\ Owner(c) = t
  <2>1. PICK r \in 0 .. d - 1 : c \in Nat /\ c = d * (2 * t) + r
    BY <1>2, <1>3, <1>4
  <2>2. c \div d = 2 * t
    <3>1. 2 * t \in Nat
      BY <1>2
    <3>. QED
      BY <2>1, <3>1, DivisionUnique
  <2>3. c \div (2 * d) = t
    <3>1. 2 * d \in Nat \ {0} /\ r \in 0 .. 2 * d - 1 /\ c = (2 * d) * t + r
      BY <1>2, <2>1
    <3>. QED
      BY <1>2, <2>1, <3>1, DivisionUnique
  <2>4. (2 * t) % 2 = 0
    BY <1>2
  <2>. QED
    BY <1>1, <2>2, <2>3, <2>4 DEF LocalCell, Owner
<1>5. ASSUME c \in Part(Global(t)) PROVE ~LocalCell(c)
  <2>1. PICK r \in 0 .. d - 1 : c \in Nat /\ c = d * (2 * t + 1) + r
    BY <1>2, <1>3, <1>5
  <2>2. c \div d = 2 * t + 1
    <3>1. 2 * t + 1 \in Nat
      BY <1>2
    <3>. QED
      BY <2>1, <3>1, DivisionUnique
  <2>3. (2 * t + 1) % 2 = 1
    BY <1>2
  <2>. QED
    BY <1>1, <2>2, <2>3 DEF LocalCell
<1>. QED
  BY <1>4, <1>5

\* The cells a thread allocates from in this launch.
LEMMA PartFine ==
  ASSUME CudaInv, NEW t \in Gid, NEW c \in Part(As(t))
  PROVE  /\ mode = "WORK" => LocalCell(c) /\ Owner(c) = t
         /\ mode # "WORK" => ~LocalCell(c)
BY PartLocal DEF As

LEMMA InHandPort ==
  ASSUME CudaInv, NEW t \in Gid, NEW p, InHand(As(t), p)
  PROVE  IsPort(p)
<1>1. PICK u : u = As(t) /\ u \in Thread /\ BagOf[u] \in Bags
  BY GridShape
<1>2. PoolTypes /\ ThreadInv(u)
  BY <1>1, CudaFacts DEF ThreadTypes
<1>3. \A r : r \in DOMAIN pool[BagOf[u]] => IsPort(r[1]) /\ IsPort(r[2])
  BY <1>1, <1>2 DEF PoolTypes, IsPair
<1>4. \A i \in DOMAIN todo[u] : IsPort(todo[u][i][1]) /\ IsPort(todo[u][i][2])
  BY <1>2 DEF ThreadInv, IsList, IsPair
<1>5. oper[u] # <<>> => IsPort(oper[u][2]) /\ IsPort(oper[u][3])
  BY <1>2 DEF ThreadInv, IsOper
<1>. QED
  BY <1>1, <1>3, <1>4, <1>5 DEF InHand

LEMMA MayFine ==
  ASSUME CudaInv, Apart, NEW t \in Gid, NEW p, May(As(t), p)
  PROVE  Fine(t, p)
<1>1. PICK u : u = As(t) /\ u \in Thread /\ BagOf[u] = t
  BY GridShape
<1>2. \A q : InHand(u, q) => Fine(t, q) /\ IsPort(q)
  BY <1>1, InHandPort DEF Apart, Hers
<1>3. CASE InHand(u, p)
  BY <1>2, <1>3
\* A cell that a port of hers names holds ports of hers.
<1>4. ASSUME NEW q, InHand(u, q), is_var(q) \/ is_nod(q), NEW c, c = val(q)
      PROVE  c \in Loc /\ CellFine(c) /\ \A x : FineIn(c, x) => Fine(t, x)
  <2>1. c \in Loc /\ Fine(t, q)
    BY <1>2, <1>4 DEF IsPort
  <2>2. LocalCell(c) => Owner(c) = t
    BY <1>4, <2>1 DEF Fine, is_local
  <2>. QED
    BY <2>1, <2>2 DEF Apart, Fine, FineIn
<1>5. ASSUME NEW r \in DOMAIN pool[t], NEW k \in {1, 2}, NEW j \in {1, 2}, is_nod(r[k]),
             node_buf[val(r[k])] # FREE_NODE, p = node_buf[val(r[k])][j]
      PROVE  Fine(t, p)
  <2>1. PICK q, c : q = r[k] /\ c = val(q)
    OBVIOUS
  <2>2. InHand(u, q)
    BY <1>1, <1>5, <2>1 DEF InHand
  <2>3. c \in Loc /\ CellFine(c) /\ \A x : FineIn(c, x) => Fine(t, x)
    BY <1>4, <1>5, <2>1, <2>2
  <2>. QED
    BY <1>5, <2>1, <2>3 DEF CellFine
<1>6. ASSUME NEW q, InHand(u, q), is_var(q), vars_buf[val(q)] \notin {FREE, NONE}, p = vars_buf[val(q)]
      PROVE  Fine(t, p)
  <2>1. PICK c : c = val(q)
    OBVIOUS
  <2>2. c \in Loc /\ CellFine(c) /\ \A x : FineIn(c, x) => Fine(t, x)
    BY <1>4, <1>6, <2>1
  <2>. QED
    BY <1>6, <2>1, <2>2 DEF CellFine
<1>7. CASE is_var(p) \/ is_nod(p) => val(p) \in Part(u)
  BY <1>1, <1>7, PartFine DEF Fine, is_local
<1>. QED
  BY <1>1, <1>3, <1>5, <1>6, <1>7 DEF May, Reached

\* A step of thread t, which gives nothing to the others.
LEMMA ApartKept ==
  ASSUME Apart, NEW t \in Gid, mode' = mode, \A c \in Loc : CellFine(c)',
         \A r \in Kept' \ Kept, k \in {1, 2} : ~is_local(r[k]),
         \A u \in Gid \ {t} : /\ DOMAIN pool'[u] \subseteq DOMAIN pool[u] /\ hand'[u] = hand[u]
                              /\ todo'[As(u)] = todo[As(u)] /\ oper'[As(u)] = oper[As(u)],
         Hers(t)'
  PROVE  Apart'
<1>1. \A r \in Kept', k \in {1, 2} : ~is_local(r[k])
  BY DEF Apart
<1>2. ASSUME NEW u \in Gid \ {t} PROVE Hers(u)'
  <2>1. PICK w : w = As(u) /\ w = As(u)' /\ BagOf[w] = u
    BY GridShape DEF As
  <2>2. Hers(u)
    BY DEF Apart
  <2>3. ASSUME NEW p, InHand(w, p)' PROVE InHand(w, p)
    <3>1. \A r \in DOMAIN pool'[u] : r \in DOMAIN pool[u]
      OBVIOUS
    <3>2. todo'[w] = todo[w] /\ oper'[w] = oper[w]
      BY <2>1
    <3>. QED
      BY <2>1, <2>3, <3>1, <3>2 DEF InHand
  <2>4. \A p : Fine(u, p)' <=> Fine(u, p)
    BY DEF Fine
  <2>5. HandFine(u)'
    BY <1>2, <2>2, <2>4 DEF Hers, HandFine
  <2>. QED
    BY <2>1, <2>2, <2>3, <2>4, <2>5 DEF Hers
<1>. QED
  BY <1>1, <1>2 DEF Apart

LEMMA CellKept ==
  ASSUME mode' = mode, NEW c, CellFine(c), node_buf'[c] \in {node_buf[c], FREE_NODE},
         vars_buf'[c] \in {vars_buf[c], FREE, NONE}
  PROVE  CellFine(c)'
<1>1. \A p : FineIn(c, p)' <=> FineIn(c, p)
  BY DEF FineIn
<1>. QED
  BY <1>1 DEF CellFine

\* What a thread of the grid holds after a step of its thread of Interactions.
LEMMA HersKept ==
  ASSUME Apart, CudaInv, NEW t \in Gid, mode' = mode, PoolConfined(As(t)),
         \A i \in DOMAIN todo'[As(t)], k \in {1, 2} : May(As(t), todo'[As(t)][i][k]),
         oper'[As(t)] # <<>> => \A k \in {2, 3} : May(As(t), oper'[As(t)][k]),
         HandFine(t)'
  PROVE  Hers(t)'
<1>1. PICK u : u = As(t) /\ u = As(t)' /\ BagOf[u] = t /\ t \in Bags
  BY GridShape DEF As
<1>2. \A p : May(u, p) => Fine(t, p)
  BY <1>1, MayFine
<1>3. \A p : InHand(u, p) => May(u, p)
  BY DEF May, Reached
<1>4. ASSUME NEW p, InHand(u, p)' PROVE May(u, p)
  <2>1. CASE \E r \in DOMAIN pool'[t], k \in {1, 2} : p = r[k]
    BY <1>1, <1>3, <2>1 DEF PoolConfined, InHand
  <2>2. CASE \E i \in DOMAIN todo'[u], k \in {1, 2} : p = todo'[u][i][k]
    BY <1>1, <2>2
  <2>3. CASE oper'[u] # <<>> /\ \E k \in {2, 3} : p = oper'[u][k]
    BY <1>1, <2>3
  <2>. QED
    BY <1>1, <1>4, <2>1, <2>2, <2>3 DEF InHand
<1>5. \A p : Fine(t, p)' <=> Fine(t, p)
  BY DEF Fine
<1>. QED
  BY <1>1, <1>2, <1>4, <1>5 DEF Hers

LEMMA ConfinedApart ==
  ASSUME Apart, CudaInv, NEW t \in Gid, UNCHANGED cudaVars, PortsConfined(As(t)),
         \A c \in Loc : \/ vars_buf'[c] \in {vars_buf[c], FREE, NONE}
                        \/ /\ InHand(As(t), VarP(c)) /\ InHand(As(t), vars_buf'[c])
                           /\ ~Leaks(VarP(c), vars_buf'[c])
  PROVE  Apart'
<1>1. PICK u : u = As(t) /\ u \in Thread /\ BagOf[u] = t
  BY GridShape
<1>2. mode' = mode /\ hand' = hand /\ Kept' = Kept
  BY DEF cudaVars, Kept
<1>3. \A p : /\ May(u, p) => Fine(t, p)
             /\ InHand(u, p) => May(u, p)
  BY <1>1, MayFine DEF May, Reached
<1>4. \A c \in Loc : \A p : FineIn(c, p)' <=> FineIn(c, p)
  BY <1>2 DEF FineIn
<1>5. ASSUME NEW c \in Loc PROVE CellFine(c)'
  <2>1. CellFine(c)
    BY DEF Apart
  <2>2. node_buf'[c] # FREE_NODE => \A k \in {1, 2} : FineIn(c, node_buf'[c][k])
    <3>1. CASE node_buf'[c] \in {node_buf[c], FREE_NODE}
      BY <2>1, <3>1 DEF CellFine
    <3>2. CASE c \in Part(u) /\ \A k \in {1, 2} : May(u, node_buf'[c][k])
      <4>1. (mode = "WORK" => LocalCell(c) /\ Owner(c) = t) /\ (mode # "WORK" => ~LocalCell(c))
        BY <1>1, <3>2, PartFine
      <4>2. \A p : Fine(t, p) => FineIn(c, p)
        BY <4>1 DEF Fine, FineIn
      <4>. QED
        BY <1>3, <3>2, <4>2
    <3>. QED
      BY <1>1, <3>1, <3>2 DEF PortsConfined
  <2>3. vars_buf'[c] \notin {FREE, NONE} => FineIn(c, vars_buf'[c])
    <3>1. CASE vars_buf'[c] \in {vars_buf[c], FREE, NONE}
      BY <2>1, <3>1 DEF CellFine
    <3>2. ASSUME NEW p, p = vars_buf'[c], InHand(u, VarP(c)), InHand(u, p), ~Leaks(VarP(c), p)
          PROVE  FineIn(c, p)
      <4>1. Fine(t, VarP(c)) /\ Fine(t, p)
        BY <1>3, <3>2
      <4>2. (is_local(VarP(c)) <=> LocalCell(c)) /\ (is_global(VarP(c)) <=> ~LocalCell(c))
        BY DEF is_local, is_global, is_var, VarP, tag, val
      <4>3. LocalCell(c) => Owner(c) = t
        BY <4>1, <4>2 DEF Fine, VarP, val
      <4>. QED
        BY <3>2, <4>1, <4>2, <4>3 DEF Fine, FineIn, Leaks
    <3>. QED
      BY <1>1, <3>1, <3>2
  <2>. QED
    BY <1>4, <2>2, <2>3 DEF CellFine
<1>6. HandFine(t)'
  <2>1. HandFine(t)
    BY DEF Apart, Hers
  <2>. QED
    BY <1>2, <2>1 DEF HandFine, Fine
<1>7. Hers(t)'
  BY <1>1, <1>2, <1>6, HersKept DEF PortsConfined
<1>8. ASSUME NEW w \in Gid \ {t}
      PROVE  /\ DOMAIN pool'[w] \subseteq DOMAIN pool[w] /\ hand'[w] = hand[w]
             /\ todo'[As(w)] = todo[As(w)] /\ oper'[As(w)] = oper[As(w)]
  <2>1. As(w) \in Thread \ {u} /\ w \in Bags /\ w # BagOf[u]
    BY <1>1, <1>8, GridShape
  <2>. QED
    BY <1>1, <1>2, <2>1 DEF PortsConfined, PoolConfined
<1>. QED
  BY <1>2, <1>5, <1>7, <1>8, ApartKept

LEMMA LinkageApart ==
  ASSUME Apart, CudaInv, NEW t \in Gid, Linkage(t)
  PROVE  Apart'
<1>1. PICK u, R : u = As(t) /\ R = CudaRest
  OBVIOUS
<1>2. u \in Thread /\ NetInv(R)
  BY <1>1, GridShape DEF CudaInv
<1>3. UNCHANGED cudaVars /\ (PushRedex(u) \/ Enter(u) \/ CudaPoint(u))
  BY <1>1 DEF Linkage
<1>4. /\ PortsConfined(u)
      /\ \A c \in Loc : \/ vars_buf'[c] \in {vars_buf[c], FREE, NONE}
                        \/ /\ InHand(u, VarP(c)) /\ InHand(u, vars_buf'[c])
                           /\ ~Leaks(VarP(c), vars_buf'[c])
  BY <1>2, <1>3, LinkageConfined
<1>. QED
  BY <1>1, <1>3, <1>4, ConfinedApart

LEMMA ReduceApart ==
  ASSUME Apart, CudaInv, GridRoomy, NEW t \in Gid, Reduce(t)
  PROVE  Apart'
<1>1. PICK u, R : u = As(t) /\ R = CudaRest
  OBVIOUS
<1>2. program' = program /\ UNCHANGED cudaVars
  BY DEF Reduce
<1>3. u \in Thread /\ NetInv(R) /\ Elsewhere(R) /\ (u \in Bounded \/ HasRoom(u))
  BY <1>1, GridShape, CudaFacts DEF CudaInv, GridRoomy
<1>4. \/ Call(u) \/ Void(u) \/ Eras(u) \/ Anni(u) \/ Comm(u) \/ Swit(u) \/ OperTake(u)
      \/ OperEnter(u) \/ Operate(u)
  BY <1>1 DEF Reduce
<1>5. Confined(u)
  <2>1. CASE Call(u)
    BY <1>2, <1>3, <2>1, CallKeeps
  <2>2. CASE Void(u)
    BY <1>2, <1>3, <2>2, VoidKeeps
  <2>3. CASE Eras(u)
    BY <1>2, <1>3, <2>3, ErasKeeps
  <2>4. CASE Anni(u)
    BY <1>2, <1>3, <2>4, AnniKeeps
  <2>5. CASE Comm(u)
    BY <1>2, <1>3, <2>5, CommKeeps
  <2>6. CASE Swit(u)
    BY <1>2, <1>3, <2>6, SwitKeeps
  <2>7. CASE OperTake(u)
    BY <1>2, <1>3, <2>7, OperTakeKeeps
  <2>8. CASE OperEnter(u) \/ Operate(u)
    BY <1>3, <2>8, OperConfined
  <2>. QED
    BY <1>4, <2>1, <2>2, <2>3, <2>4, <2>5, <2>6, <2>7, <2>8
<1>. QED
  BY <1>1, <1>2, <1>5, ConfinedApart DEF Confined

LEMMA BagNode ==
  ASSUME CudaInv, NEW t \in Gid, NEW r \in DOMAIN pool[t], NEW k \in {1, 2}, is_nod(r[k])
  PROVE  node_buf[val(r[k])] # FREE_NODE
<1>1. BufTypes /\ PoolTypes /\ Balanced(CudaRest) /\ t \in Bags
  BY CudaFacts, GridShape
<1>2. PICK h : h = PoolItem(t, r, 1, k)
  OBVIOUS
<1>3. h[2] = r[k] /\ IsPort(r[k])
  BY <1>1, <1>2 DEF PoolItem, PoolTypes, IsPair
<1>4. h \in All(CudaRest)
  <2>1. 1 \in 1 .. pool[t][r] /\ t \in DOMAIN pool
    BY <1>1 DEF PoolTypes
  <2>2. h \in HeldInPool
    BY <1>2, <2>1, InPool
  <2>. QED
    BY <2>2 DEF All, Held
<1>. QED
  BY <1>1, <1>3, <1>4, HeldPort

\* A node of hers in the hand; the variable is global.
LEMMA LeakTakesApart ==
  ASSUME Apart, CudaInv, NEW t \in Gid, NEW r, NEW a, NEW b, NEW x, NEW y, NEW q,
         LeakTakes(t, r, a, b, x, y, q), is_global(a)
  PROVE  Apart'
<1>1. PICK u : u = As(t) /\ BagOf[u] = t /\ u \in Thread
  BY GridShape
<1>2. /\ BufTypes /\ PoolTypes /\ DOMAIN pool = Gid /\ DOMAIN hand = Gid /\ DOMAIN node_buf = Loc
  BY CudaFacts, GridShape DEF PoolTypes, BufTypes
<1>3. /\ is_nod(b) /\ r \in DOMAIN pool[t] /\ y \in {1, 2} /\ b = r[y]
      /\ pool' = [pool EXCEPT ![t] = Without(@, r)]
      /\ node_buf' = [node_buf EXCEPT ![val(b)] = FREE_NODE] /\ hand' = [hand EXCEPT ![t] = q]
      /\ UNCHANGED <<vars_buf, todo, oper, mode, slice, saved>>
      /\ q.for = "leak" /\ q.var = a /\ q.ports = node_buf[val(b)]
  BY DEF LeakTakes, Meets
<1>4. PoolConfined(u)
  BY <1>1, <1>2, <1>3, BagConfined
<1>5. \A p : InHand(u, p) => May(u, p)
  BY DEF May, Reached
<1>6. /\ \A i \in DOMAIN todo'[u], k \in {1, 2} : May(u, todo'[u][i][k])
      /\ oper'[u] # <<>> => \A k \in {2, 3} : May(u, oper'[u][k])
  BY <1>3, <1>5 DEF InHand
<1>7. HandFine(t)'
  <2>1. node_buf[val(b)] # FREE_NODE
    BY <1>3, BagNode
  <2>2. \A k \in {1, 2} : May(u, q.ports[k])
    BY <1>1, <1>3, <2>1 DEF May, Reached
  <2>3. \A k \in {1, 2} : Fine(t, q.ports[k])
    BY <1>1, <2>2, MayFine
  <2>4. ~is_local(q.var)
    BY <1>3 DEF is_global, is_local
  <2>5. hand'[t] = q
    BY <1>2, <1>3
  <2>6. \A p : Fine(t, p)' <=> Fine(t, p)
    BY <1>3 DEF Fine
  <2>. QED
    BY <2>3, <2>4, <2>5, <2>6 DEF HandFine
<1>8. Hers(t)'
  BY <1>1, <1>3, <1>4, <1>6, <1>7, HersKept
<1>9. \A c \in Loc : CellFine(c)'
  <2>. SUFFICES ASSUME NEW c \in Loc PROVE CellFine(c)'
    OBVIOUS
  <2>1. CellFine(c) /\ node_buf'[c] \in {node_buf[c], FREE_NODE} /\ vars_buf'[c] = vars_buf[c]
    BY <1>2, <1>3 DEF Apart
  <2>. QED
    BY <1>3, <2>1, CellKept
<1>10. \A w \in Gid \ {t} : /\ DOMAIN pool'[w] \subseteq DOMAIN pool[w] /\ hand'[w] = hand[w]
                            /\ todo'[As(w)] = todo[As(w)] /\ oper'[As(w)] = oper[As(w)]
  BY <1>2, <1>3
<1>11. Kept' = Kept
  BY <1>3 DEF Kept
<1>. QED
  BY <1>3, <1>8, <1>9, <1>10, <1>11, ApartKept

LEMMA ReduceLinkApart ==
  ASSUME Apart, CudaInv, NEW t \in Gid, ReduceLink(t)
  PROVE  Apart'
<1>1. PICK u : u = As(t) /\ u \in Thread /\ BagOf[u] = t /\ t \in Bags
  BY GridShape
<1>2. /\ PoolTypes /\ ThreadTypes /\ DOMAIN pool = Gid /\ DOMAIN todo = Thread /\ oper[u] = <<>>
      /\ Reducing(t) /\ pc[u] = "idle"
  <2>1. PoolTypes /\ ThreadTypes /\ DOMAIN pool = Gid /\ Reducing(t) /\ pc[u] = "idle"
    BY <1>1, CudaFacts, GridShape DEF PoolTypes, ReduceLink, Reducing, Ready
  <2>. QED
    BY <1>1, <2>1 DEF ThreadTypes, ThreadInv
<1>3. PICK r \in Redexes(u, "LINK") :
        LET a == PairOf(r)[1]
            b == PairOf(r)[2]
        IN  /\ pool' = Popped(t, r)
            /\ IF is_global(a) /\ is_nod(b) /\ is_local(b)
               THEN /\ node_buf' = [node_buf EXCEPT ![val(b)] = FREE_NODE]
                    /\ hand' = [hand EXCEPT ![t] =
                         [for |-> "leak", var |-> a, tag |-> tag(b),
                          ports |-> node_buf[val(b)], ended |-> {}]]
                    /\ UNCHANGED <<pc, todo>>
               ELSE Links(u, << <<a, b>> >>) /\ UNCHANGED <<node_buf, hand>>
            /\ UNCHANGED <<program, vars_buf, nput, vput, oper, itrs,
                           mode, launches, phase, slice, saved>>
  BY <1>1 DEF ReduceLink, InteractLink
<1>4. r \in DOMAIN pool[t] /\ IsPair(r)
  BY <1>1, <1>2 DEF Redexes, PoolTypes
<1>5. PICK a, b, x, y : Meets(r, a, b, x, y)
  BY <1>4, RedexMeets
<1>6. /\ a = PairOf(r)[1] /\ b = PairOf(r)[2] /\ a = r[x] /\ b = r[y] /\ x \in {1, 2} /\ y \in {1, 2}
  BY <1>5 DEF Meets
<1>7. /\ pool' = [pool EXCEPT ![t] = Without(@, r)]
      /\ UNCHANGED <<program, vars_buf, nput, vput, oper, mode, launches, phase, slice, saved>>
  BY <1>3 DEF Popped
<1>8. CASE is_global(a) /\ is_nod(b) /\ is_local(b)
  <2>1. PICK q : q = [for |-> "leak", var |-> a, tag |-> tag(b), ports |-> node_buf[val(b)], ended |-> {}]
    OBVIOUS
  <2>2. /\ node_buf' = [node_buf EXCEPT ![val(b)] = FREE_NODE]
        /\ hand' = [hand EXCEPT ![t] = q] /\ UNCHANGED <<pc, todo>>
    BY <1>3, <1>6, <1>8, <2>1
  <2>3. LeakTakes(t, r, a, b, x, y, q)
    BY <1>2, <1>4, <1>5, <1>7, <1>8, <2>1, <2>2 DEF LeakTakes
  <2>. QED
    BY <1>8, <2>3, LeakTakesApart
<1>9. CASE ~(is_global(a) /\ is_nod(b) /\ is_local(b))
  <2>1. Links(u, << <<a, b>> >>) /\ UNCHANGED <<node_buf, hand>>
    BY <1>3, <1>6, <1>9
  <2>2. UNCHANGED cudaVars
    BY <1>7, <2>1 DEF cudaVars
  <2>3. PICK s : s = << <<a, b>> >>
    OBVIOUS
  <2>4. todo' = [todo EXCEPT ![u] = s]
    BY <2>1, <2>3 DEF Links
  <2>5. May(u, a) /\ May(u, b)
    <3>1. InHand(u, a) /\ InHand(u, b)
      BY <1>1, <1>4, <1>6 DEF InHand
    <3>. QED
      BY <3>1 DEF May, Reached
  <2>6. \A i \in DOMAIN s, k \in {1, 2} : May(u, s[i][k])
    BY <2>3, <2>5
  <2>7. PoolConfined(u)
    BY <1>1, <1>2, <1>4, <1>7, BagConfined
  <2>8. todo'[u] = s /\ \A w \in Thread \ {u} : todo'[w] = todo[w]
    BY <1>1, <1>2, <2>4
  <2>9. PortsConfined(u)
    BY <1>2, <1>7, <2>1, <2>6, <2>7, <2>8 DEF PortsConfined
  <2>. QED
    BY <1>1, <1>7, <2>2, <2>9, ConfinedApart
<1>. QED
  BY <1>8, <1>9

\* A step in the hands of a thread.
LEMMA HandApart ==
  ASSUME Apart, CudaInv, NEW t \in Gid, NEW h, hand' = [hand EXCEPT ![t] = h],
         UNCHANGED <<node_buf, pool, todo, oper, mode>>,
         \A c \in Loc : vars_buf'[c] \in {vars_buf[c], FREE, NONE}, Kept' \subseteq Kept,
         h # <<>> => /\ \A k \in {1, 2} : Fine(t, h.ports[k])
                     /\ h.for = "leak" => ~is_local(h.var)
  PROVE  Apart'
<1>1. PICK u : u = As(t) /\ BagOf[u] = t /\ u \in Thread
  BY GridShape
<1>2. DOMAIN hand = Gid
  BY CudaFacts
<1>3. PoolConfined(u)
  BY DEF PoolConfined
<1>4. \A p : InHand(u, p) => May(u, p)
  BY DEF May, Reached
<1>5. /\ \A i \in DOMAIN todo'[u], k \in {1, 2} : May(u, todo'[u][i][k])
      /\ oper'[u] # <<>> => \A k \in {2, 3} : May(u, oper'[u][k])
  BY <1>4 DEF InHand
<1>6. HandFine(t)'
  <2>1. hand'[t] = h /\ \A p : Fine(t, p)' <=> Fine(t, p)
    BY <1>2 DEF Fine
  <2>. QED
    BY <2>1 DEF HandFine
<1>7. Hers(t)'
  BY <1>1, <1>3, <1>5, <1>6, HersKept
<1>8. \A c \in Loc : CellFine(c)'
  BY CellKept DEF Apart
<1>9. \A w \in Gid \ {t} : /\ DOMAIN pool'[w] \subseteq DOMAIN pool[w] /\ hand'[w] = hand[w]
                           /\ todo'[As(w)] = todo[As(w)] /\ oper'[As(w)] = oper[As(w)]
  BY <1>2
<1>. QED
  BY <1>7, <1>8, <1>9, ApartKept

LEMMA LoadApart ==
  ASSUME Apart, CudaInv, NEW t \in Gid, Load(t)
  PROVE  Apart'
<1>1. PICK r : r \in slice[t] /\ r = CHOOSE x \in slice[t] : TRUE
  BY DEF Load
<1>2. PICK h : h = [for |-> "load", ports |-> r, ended |-> {}]
  OBVIOUS
<1>3. /\ slice' = [slice EXCEPT ![t] = @ \ {r}] /\ hand' = [hand EXCEPT ![t] = h]
      /\ UNCHANGED <<node_buf, vars_buf, pool, todo, oper, mode, saved>> /\ DOMAIN slice = Gid
  BY <1>1, <1>2, CudaFacts DEF Load, vars
<1>4. Kept' \subseteq Kept /\ r \in Kept
  <2>1. \A u \in Gid : slice'[u] \subseteq slice[u]
    BY <1>3
  <2>. QED
    BY <1>1, <1>3, <2>1, InKept
<1>5. h.ports = r /\ h.for = "load"
  BY <1>2
<1>6. \A k \in {1, 2} : Fine(t, r[k])
  BY <1>4 DEF Apart, Fine
<1>. QED
  BY <1>3, <1>4, <1>5, <1>6, HandApart

LEMMA LoadPushApart ==
  ASSUME Apart, CudaInv, NEW t \in Gid, LoadPush(t)
  PROVE  Apart'
<1>1. PICK h, r : h = hand[t] /\ r = h.ports
  OBVIOUS
<1>2. PICK u : u = As(t) /\ u = As(t)' /\ BagOf[u] = t /\ t \in Bags
  BY GridShape DEF As, LoadPush
<1>3. /\ h # <<>> /\ pool' = [pool EXCEPT ![t] = With(@, r)] /\ hand' = [hand EXCEPT ![t] = <<>>]
      /\ UNCHANGED <<node_buf, vars_buf, todo, oper, mode, slice, saved>>
      /\ DOMAIN hand = Gid /\ DOMAIN pool = Gid /\ PoolTypes
  BY <1>1, CudaFacts, GridShape DEF LoadPush, Pushed, PoolTypes
<1>4. /\ DOMAIN pool'[t] = DOMAIN pool[t] \cup {r} /\ hand'[t] = <<>>
      /\ \A w \in Gid \ {t} : pool'[w] = pool[w] /\ hand'[w] = hand[w]
  <2>1. \A q \in DOMAIN pool[t] : pool[t][q] \in Nat \ {0}
    BY <1>2, <1>3 DEF PoolTypes
  <2>2. DOMAIN With(pool[t], r) = DOMAIN pool[t] \cup {r}
    BY <2>1, BagWith
  <2>. QED
    BY <1>3, <2>2
<1>5. \A k \in {1, 2} : Fine(t, r[k])
  BY <1>1, <1>3 DEF Apart, Hers, HandFine
<1>6. Hers(t)'
  <2>1. Hers(t)
    BY DEF Apart
  <2>2. ASSUME NEW p, InHand(u, p)' PROVE Fine(t, p)
    <3>1. InHand(u, p) \/ \E k \in {1, 2} : p = r[k]
      BY <1>2, <1>3, <1>4, <2>2 DEF InHand
    <3>. QED
      BY <1>2, <1>5, <2>1, <3>1 DEF Hers
  <2>3. \A p : Fine(t, p)' <=> Fine(t, p)
    BY <1>3 DEF Fine
  <2>4. HandFine(t)'
    BY <1>4 DEF HandFine
  <2>. QED
    BY <1>2, <2>2, <2>3, <2>4 DEF Hers
<1>7. \A c \in Loc : CellFine(c)'
  BY <1>3, CellKept DEF Apart
<1>8. Kept' = Kept
  BY <1>3 DEF Kept
<1>. QED
  BY <1>3, <1>4, <1>6, <1>7, <1>8, ApartKept

LEMMA EnterPortApart ==
  ASSUME Apart, CudaInv, NEW t \in Gid, EnterPort(t)
  PROVE  Apart'
<1>1. DOMAIN hand = Gid /\ DOMAIN vars_buf = Loc
  BY CudaFacts DEF BufTypes
<1>2. PICK k, h : k = Min(Entering(t)) /\ h = hand[t]
  OBVIOUS
<1>3. PICK p, x : p = h.ports[k] /\ x = val(p)
  OBVIOUS
<1>4. PICK got : got = vars_buf[x]
  OBVIOUS
<1>5. k \in {1, 2} /\ is_var(p) /\ h # <<>> /\ IsHand(h) /\ x \in Loc \ {0}
  BY <1>2, <1>3, EnteringPort DEF EnterPort
<1>6. /\ UNCHANGED <<node_buf, pool, todo, oper, mode, slice, saved>>
      /\ got \in {NONE, FREE} => /\ vars_buf' = [vars_buf EXCEPT ![x] = NONE]
                                 /\ hand' = [hand EXCEPT ![t].ended = @ \cup {k}]
      /\ got \notin {NONE, FREE} => /\ vars_buf' = [vars_buf EXCEPT ![x] = FREE]
                                    /\ hand' = [hand EXCEPT ![t].ports[k] = got]
  BY <1>2, <1>3, <1>4 DEF EnterPort
<1>7. /\ \A j \in {1, 2} : Fine(t, h.ports[j])
      /\ h.for = "leak" => ~is_local(h.var)
  BY <1>2, <1>5 DEF Apart, Hers, HandFine
<1>8. \A c \in Loc : vars_buf'[c] \in {vars_buf[c], FREE, NONE}
  BY <1>1, <1>6
<1>9. Kept' \subseteq Kept
  BY <1>6 DEF Kept
<1>10. /\ {"for", "ports", "ended"} \subseteq DOMAIN h
       /\ h.for = "leak" => "var" \in DOMAIN h
       /\ h.ports = <<h.ports[1], h.ports[2]>>
  BY <1>5 DEF IsHand, IsPair
<1>11. CASE got \in {NONE, FREE}
  <2>1. PICK q : q = [h EXCEPT !.ended = h.ended \cup {k}]
    OBVIOUS
  <2>2. hand' = [hand EXCEPT ![t] = q]
    BY <1>1, <1>2, <1>6, <1>11, <2>1
  <2>3. q.ports = h.ports /\ q.for = h.for /\ (h.for = "leak" => q.var = h.var)
    BY <1>10, <2>1
  <2>. QED
    BY <1>6, <1>7, <1>8, <1>9, <2>2, <2>3, HandApart
<1>12. CASE got \notin {NONE, FREE}
  <2>1. PICK q : q = Following(h, k, got)
    OBVIOUS
  <2>2. hand' = [hand EXCEPT ![t] = q]
    BY <1>1, <1>2, <1>6, <1>12, <2>1 DEF Following
  <2>3. q.for = h.for /\ (h.for = "leak" => q.var = h.var) /\ q.ports = [h.ports EXCEPT ![k] = got]
    BY <1>10, <2>1 DEF Following
  <2>4. Fine(t, got)
    <3>1. Fine(t, p) /\ CellFine(x)
      BY <1>3, <1>5, <1>7 DEF Apart
    <3>2. FineIn(x, got) /\ (LocalCell(x) => Owner(x) = t)
      BY <1>3, <1>4, <1>5, <1>12, <3>1 DEF CellFine, Fine, is_local
    <3>. QED
      BY <3>2 DEF Fine, FineIn
  <2>5. \A j \in {1, 2} : q.ports[j] \in {got, h.ports[j]}
    BY <1>5, <1>10, <2>3
  <2>6. \A j \in {1, 2} : Fine(t, q.ports[j])
    BY <1>7, <2>4, <2>5
  <2>. QED
    BY <1>6, <1>7, <1>8, <1>9, <2>2, <2>3, <2>6, HandApart
<1>. QED
  BY <1>11, <1>12

LEMMA SameApart ==
  ASSUME Apart, UNCHANGED <<node_buf, vars_buf, pool, todo, oper, mode, slice, saved, hand>>
  PROVE  Apart'
<1>1. /\ \A p : is_local(p)' <=> is_local(p)
      /\ \A t, p : Fine(t, p)' <=> Fine(t, p)
      /\ \A c, p : FineIn(c, p)' <=> FineIn(c, p)
      /\ \A t : As(t)' = As(t)
  BY DEF Fine, FineIn, As
<1>2. \A c \in Loc : CellFine(c)'
  BY <1>1 DEF Apart, CellFine
<1>3. Kept' = Kept
  BY DEF Kept
<1>4. ASSUME NEW t \in Gid PROVE Hers(t)'
  <2>1. PICK u : u = As(t)
    OBVIOUS
  <2>2. \A p : InHand(u, p)' <=> InHand(u, p)
    BY DEF InHand
  <2>. QED
    BY <1>1, <2>1, <2>2 DEF Apart, Hers, HandFine
<1>. QED
  BY <1>1, <1>2, <1>3, <1>4 DEF Apart

\* A step of thread t that stores in the global memory.
LEMMA GlobalApart ==
  ASSUME Apart, CudaInv, NEW t \in Gid, NEW n, NEW v, NEW l, NEW stored, NEW m, NEW pairs,
         Stored(Global(t), {}, n, v, l, stored, m), Links(As(t), pairs), mode' = mode, oper' = oper,
         \A j \in 1 .. m, k \in {1, 2} : ~is_local(stored[j][k]),
         \A i \in DOMAIN pairs, k \in {1, 2} : Fine(t, pairs[i][k]),
         NEW r, pool' = pool \/ (r \in DOMAIN pool[t] /\ pool' = [pool EXCEPT ![t] = Without(@, r)]),
         hand'[t] = <<>>, \A w \in Gid \ {t} : hand'[w] = hand[w],
         \A s \in Kept' \ Kept, k \in {1, 2} : ~is_local(s[k])
  PROVE  Apart'
<1>1. PICK u : u = As(t) /\ u = As(t)' /\ BagOf[u] = t /\ u \in Thread
  BY GridShape DEF As
<1>2. PoolTypes /\ DOMAIN pool = Gid /\ DOMAIN todo = Thread
  BY CudaFacts, GridShape DEF PoolTypes, ThreadTypes
<1>3. /\ todo' = [todo EXCEPT ![u] = pairs] /\ todo'[u] = pairs
      /\ \A w \in Gid \ {t} : todo'[As(w)] = todo[As(w)]
  BY <1>1, <1>2, GridShape DEF Links
<1>4. \A w \in Gid : DOMAIN pool'[w] \subseteq DOMAIN pool[w]
  <2>1. CASE pool' = pool
    BY <2>1
  <2>2. CASE r \in DOMAIN pool[t] /\ pool' = [pool EXCEPT ![t] = Without(@, r)]
    <3>1. PICK g : g = pool[t]
      OBVIOUS
    <3>2. r \in DOMAIN g /\ \A x \in DOMAIN g : g[x] \in Nat \ {0}
      BY <1>2, <2>2, <3>1, GridShape DEF PoolTypes
    <3>3. DOMAIN Without(g, r) = {x \in DOMAIN g : x # r \/ g[x] > 1}
      BY <3>2, BagWithout
    <3>. QED
      BY <1>2, <2>2, <3>1, <3>3
  <2>. QED
    BY <2>1, <2>2
<1>5. Hers(t)'
  <2>1. Hers(t)
    BY DEF Apart
  <2>2. ASSUME NEW p, InHand(u, p)'
        PROVE  InHand(u, p) \/ \E i \in DOMAIN pairs, k \in {1, 2} : p = pairs[i][k]
    <3>1. CASE \E q \in DOMAIN pool'[t], k \in {1, 2} : p = q[k]
      BY <1>1, <1>4, <3>1 DEF InHand
    <3>2. CASE \E i \in DOMAIN todo'[u], k \in {1, 2} : p = todo'[u][i][k]
      BY <1>3, <3>2
    <3>3. CASE oper'[u] # <<>> /\ \E k \in {2, 3} : p = oper'[u][k]
      BY <3>3 DEF InHand
    <3>. QED
      BY <1>1, <2>2, <3>1, <3>2, <3>3 DEF InHand
  <2>3. \A p : Fine(t, p)' <=> Fine(t, p)
    BY DEF Fine
  <2>4. HandFine(t)'
    BY <1>3 DEF HandFine
  <2>. QED
    BY <1>1, <2>1, <2>2, <2>3, <2>4 DEF Hers
<1>6. ASSUME NEW c \in Loc PROVE CellFine(c)'
  <2>1. CellFine(c)
    BY DEF Apart
  <2>2. vars_buf'[c] \in {vars_buf[c], FREE, NONE}
    BY DEF Stored
  <2>3. CASE \A j \in 1 .. m : n[j] # c
    <3>1. node_buf'[c] = node_buf[c]
      BY <2>3 DEF Stored
    <3>. QED
      BY <2>1, <2>2, <3>1, CellKept
  <2>4. CASE \E j \in 1 .. m : n[j] = c
    <3>1. \A k \in {1, 2} : ~is_local(node_buf'[c][k])
      BY <2>4 DEF Stored
    <3>2. \A k \in {1, 2} : FineIn(c, node_buf'[c][k])
      BY <3>1 DEF FineIn
    <3>3. vars_buf'[c] \notin {FREE, NONE} => FineIn(c, vars_buf'[c])
      BY <2>1, <2>2 DEF CellFine
    <3>4. \A p : FineIn(c, p)' <=> FineIn(c, p)
      BY DEF FineIn
    <3>. QED
      BY <3>2, <3>3, <3>4 DEF CellFine
  <2>. QED
    BY <2>3, <2>4
<1>. QED
  BY <1>3, <1>4, <1>5, <1>6, ApartKept

\* The ports that do not leak are not local.
LEMMA OthersStay ==
  ASSUME NEW h, NEW ks, ks = LeakedPorts(h), NEW k \in {1, 2}, \A i \in 1 .. Len(ks) : ks[i] # k
  PROVE  ~is_local(h.ports[k])
<1>. SUFFICES ASSUME is_local(h.ports[k]) PROVE \E i \in 1 .. Len(ks) : ks[i] = k
  OBVIOUS
<1>1. <<>> \o <<>> = <<>> /\ <<>> \o <<2>> = <<2>> /\ <<1>> \o <<>> = <<1>>
  OBVIOUS
<1>2. CASE k = 1
  <2>1. ks \in {<<1>>, <<1, 2>>}
    BY <1>1, <1>2, OneAndTwo DEF LeakedPorts
  <2>2. 1 \in 1 .. Len(ks) /\ ks[1] = 1
    BY <2>1
  <2>. QED
    BY <1>2, <2>2
<1>3. CASE k = 2
  <2>1. ks \in {<<2>>, <<1, 2>>}
    BY <1>1, <1>3, OneAndTwo DEF LeakedPorts
  <2>2. \E i \in 1 .. Len(ks) : ks[i] = 2
    BY <2>1
  <2>. QED
    BY <1>3, <2>2
<1>. QED
  BY <1>2, <1>3

LEMMA GlobalVar ==
  ASSUME NEW t \in Gid, NEW c \in Part(Global(t)), NEW p, val(p) = c
  PROVE  ~is_local(p)
BY PartLocal DEF is_local

LEMMA LeakStoreApart ==
  ASSUME Apart, CudaInv, GridRoomy, NEW t \in Gid, LeakStore(t)
  PROVE  Apart'
<1>1. PICK h, ks, L, v, n, stored, pairs : LeakStores(t, h, ks, L, v, n, stored, pairs)
  BY LeakSteps
<1>2. /\ h = hand[t] /\ h # <<>> /\ h.for = "leak" /\ hand' = [hand EXCEPT ![t] = <<>>]
      /\ ks = LeakedPorts(h) /\ L = Len(ks) /\ Links(As(t), pairs)
      /\ UNCHANGED <<program, pool, oper, mode, slice, saved>>
  BY <1>1 DEF LeakStores
<1>3. /\ GlobalRewrite(t, n, v, L, stored, 1, pairs) /\ LeakSpots(h, ks, L, v, n, stored, pairs)
  BY <1>1, LeakRewrites
<1>4. Stored(Global(t), {}, n, v, L, stored, 1) /\ IsList(pairs)
  BY <1>3 DEF GlobalRewrite
<1>5. LeakList(ks, L) /\ Len(pairs) = L + 1
  BY <1>3 DEF LeakSpots
<1>6. /\ \A i \in 1 .. L : /\ stored[1][ks[i]] = VarP(v[i]) /\ pairs[i][1] = VarP(v[i])
                           /\ pairs[i][2] = h.ports[ks[i]]
      /\ \A k \in {1, 2} : (\A i \in 1 .. L : ks[i] # k) => stored[1][k] = h.ports[k]
      /\ pairs[L + 1][1] = h.var /\ pairs[L + 1][2] = <<h.tag, n[1]>>
  BY <1>3 DEF LeakSpots, Contents
<1>7. /\ \A k \in {1, 2} : Fine(t, h.ports[k])
      /\ ~is_local(h.var)
  BY <1>2 DEF Apart, Hers, HandFine
<1>8. /\ \A i \in 1 .. L : ~is_local(VarP(v[i]))
      /\ ~is_local(<<h.tag, n[1]>>)
  <2>1. \A i \in 1 .. L : v[i] \in Part(Global(t)) /\ val(VarP(v[i])) = v[i]
    BY <1>4 DEF Stored, VarP, val
  <2>2. n[1] \in Part(Global(t)) /\ val(<<h.tag, n[1]>>) = n[1]
    BY <1>4 DEF Stored, val
  <2>. QED
    BY <2>1, <2>2, GlobalVar
<1>9. \A j \in 1 .. 1, k \in {1, 2} : ~is_local(stored[j][k])
  <2>. SUFFICES ASSUME NEW k \in {1, 2} PROVE ~is_local(stored[1][k])
    OBVIOUS
  <2>1. CASE \E i \in 1 .. L : ks[i] = k
    BY <1>6, <1>8, <2>1
  <2>2. CASE \A i \in 1 .. L : ks[i] # k
    <3>1. stored[1][k] = h.ports[k]
      BY <1>6, <2>2
    <3>2. \A i \in 1 .. Len(ks) : ks[i] # k
      BY <1>2, <2>2
    <3>3. ks = LeakedPorts(h)
      BY <1>2
    <3>. QED
      BY <3>1, <3>2, <3>3, OthersStay
  <2>. QED
    BY <2>1, <2>2
<1>10. \A i \in DOMAIN pairs, k \in {1, 2} : Fine(t, pairs[i][k])
  <2>. SUFFICES ASSUME NEW i \in DOMAIN pairs, NEW k \in {1, 2} PROVE Fine(t, pairs[i][k])
    OBVIOUS
  <2>1. i \in 1 .. L \/ i = L + 1
    <3>1. PICK S : pairs \in Seq(S)
      BY <1>4 DEF IsList
    <3>2. DOMAIN pairs = 1 .. L + 1 /\ L \in Nat
      BY <1>5, <3>1 DEF LeakList
    <3>. QED
      BY <3>2
  <2>2. CASE i \in 1 .. L
    <3>1. Fine(t, pairs[i][1])
      BY <1>6, <1>8, <2>2 DEF Fine
    <3>2. Fine(t, pairs[i][2])
      BY <1>5, <1>6, <1>7, <2>2 DEF LeakList
    <3>. QED
      BY <3>1, <3>2
  <2>3. CASE i = L + 1
    BY <1>6, <1>7, <1>8, <2>3 DEF Fine
  <2>. QED
    BY <2>1, <2>2, <2>3
<1>11. hand'[t] = <<>> /\ (\A w \in Gid \ {t} : hand'[w] = hand[w]) /\ Kept' = Kept
  BY <1>2, CudaFacts DEF Kept
<1>. QED
  BY <1>2, <1>4, <1>9, <1>10, <1>11, GlobalApart

LEMMA SaveApart ==
  ASSUME Apart, CudaInv, GridRoomy, NEW t \in Gid, Save(t)
  PROVE  Apart'
<1>1. PICK r, v, X, Y : Saves(t, r, v, X, Y)
  BY SaveSteps
<1>2. PICK e, z, w, s : e = <<>> /\ z = 0 /\ w = << <<X, r[1]>>, <<Y, r[2]>> >> /\ s = <<X, Y>>
  OBVIOUS
<1>3. /\ hand[t] = <<>> /\ r \in DOMAIN pool[t] /\ X = VarP(v[1]) /\ Y = VarP(v[2])
      /\ pool' = [pool EXCEPT ![t] = Without(@, r)]
      /\ Fresh(v, 2, Global(t), vars_buf, FREE) /\ Rewrite(Global(t), {}, e, e, v)
      /\ Links(As(t), w) /\ saved' = saved \cup {s}
      /\ UNCHANGED <<oper, mode, slice, hand>>
  BY <1>1, <1>2 DEF Saves
<1>4. Stored(Global(t), {}, e, v, 2, e, z)
  <2>1. Fresh(e, z, Global(t), node_buf, FREE_NODE) /\ DOMAIN e = 1 .. z
    BY <1>2, NoCells
  <2>2. RewritesCells(Global(t), {}, e, v, 2, e, z)
    BY <1>2, <1>3, <2>1 DEF RewritesCells
  <2>3. Global(t) \in Thread /\ BufTypes
    BY Halves, CudaFacts
  <2>. QED
    BY <2>2, <2>3, CellsStored
<1>5. ~is_local(X) /\ ~is_local(Y)
  <2>1. /\ v[1] \in Part(Global(t)) /\ val(VarP(v[1])) = v[1]
        /\ v[2] \in Part(Global(t)) /\ val(VarP(v[2])) = v[2]
    BY <1>3 DEF Fresh, VarP, val
  <2>. QED
    BY <1>3, <2>1, GlobalVar
<1>6. \A i \in DOMAIN w, k \in {1, 2} : Fine(t, w[i][k])
  <2>1. Fine(t, X) /\ Fine(t, Y)
    BY <1>5 DEF Fine
  <2>2. BagOf[As(t)] = t
    BY GridShape
  <2>3. \A k \in {1, 2} : InHand(As(t), r[k])
    BY <1>3, <2>2 DEF InHand
  <2>4. Fine(t, r[1]) /\ Fine(t, r[2])
    BY <2>3 DEF Apart, Hers
  <2>. QED
    BY <1>2, <2>1, <2>4
<1>7. \A q \in Kept' \ Kept, k \in {1, 2} : ~is_local(q[k])
  <2>1. \A q \in Kept' \ Kept : q = s
    BY <1>3, InKept
  <2>. QED
    BY <1>2, <1>5, <2>1
<1>8. \A j \in 1 .. z, k \in {1, 2} : ~is_local(e[j][k])
  BY <1>2
<1>. QED
  BY <1>3, <1>4, <1>6, <1>7, <1>8, GlobalApart

\* A launch finds nothing local but the cells it clears.
LEMMA LaunchApart ==
  ASSUME Apart, CudaInv, NothingLost, Launch
  PROVE  Apart'
<1>1. /\ \A i \in Thread : pc[i] = "idle"
      /\ \A t \in Gid : hand[t] = <<>>
      /\ \A c \in Loc : node_buf'[c] = node_buf[c] /\ vars_buf'[c] = vars_buf[c]
  BY LaunchSame
<1>2. /\ \A c \in Loc : LocalCell(c) => node_buf'[c] = FREE_NODE /\ vars_buf'[c] = FREE
      /\ pool' = [t \in Gid |-> EmptyBag] /\ UNCHANGED <<todo, oper, hand>> /\ saved' = {}
      /\ \A t \in Gid : slice'[t] \subseteq saved
  BY DEF Launch
<1>3. ASSUME NEW c \in Loc PROVE CellFine(c)'
  <2>1. CASE LocalCell(c)
    BY <1>2, <2>1 DEF CellFine
  <2>2. CASE ~LocalCell(c)
    <3>1. \A p : FineIn(c, p) => ~is_local(p)
      BY <2>2 DEF FineIn
    <3>2. \A p : ~is_local(p) => FineIn(c, p)'
      BY DEF FineIn
    <3>. QED
      BY <1>1, <3>1, <3>2 DEF Apart, CellFine
  <2>. QED
    BY <2>1, <2>2
<1>4. \A r \in Kept', k \in {1, 2} : ~is_local(r[k])
  <2>1. \A r \in Kept' : r \in Kept
    BY <1>2, InKept
  <2>. QED
    BY <2>1 DEF Apart
<1>5. ASSUME NEW t \in Gid PROVE Hers(t)'
  <2>1. PICK u : u = As(t)'
    OBVIOUS
  <2>2. u \in Thread /\ BagOf[u] = t
    <3>1. u \in {Local(t), Global(t)}
      BY <2>1 DEF As
    <3>2. Local(t) \in Thread /\ Global(t) \in Thread /\ Local(t) \div 2 = t /\ Global(t) \div 2 = t
      BY Halves
    <3>. QED
      BY <3>1, <3>2, CudaNetAssumption
  <2>3. todo[u] = <<>> /\ oper[u] = <<>>
    BY <1>1, <2>2, CudaFacts DEF ThreadTypes, ThreadInv
  <2>4. DOMAIN pool'[t] = {}
    <3>1. DOMAIN EmptyBag = {}
      BY DEF EmptyBag, SetToBag
    <3>. QED
      BY <1>2, <3>1
  <2>5. DOMAIN <<>> = {}
    OBVIOUS
  <2>6. \A p : ~InHand(u, p)'
    BY <1>2, <2>2, <2>3, <2>4, <2>5 DEF InHand
  <2>. QED
    BY <1>1, <1>2, <2>1, <2>6 DEF Hers, HandFine
<1>. QED
  BY <1>3, <1>4, <1>5 DEF Apart

LEMMA StartsApart == CudaInit => Apart
<1>. SUFFICES ASSUME CudaInit PROVE Apart
  OBVIOUS
<1>1. /\ pool = [t \in Gid |-> EmptyBag] /\ slice = [t \in Gid |-> {}]
      /\ saved = {BootRedex} /\ hand = [t \in Gid |-> <<>>]
      /\ \A c \in Loc : node_buf[c] = FREE_NODE /\ vars_buf[c] \in {NONE, FREE}
      /\ \A t \in Thread : todo[t] = <<>> /\ oper[t] = <<>>
  BY DEF CudaInit, InitNet
<1>2. \A c \in Loc : CellFine(c)
  BY <1>1 DEF CellFine
<1>3. \A r \in Kept : r = BootRedex
  BY <1>1, InKept
<1>4. ~is_local(BootRedex[1]) /\ ~is_local(BootRedex[2])
  <2>1. BootRedex[1] = <<"REF", 0>> /\ BootRedex[2] = ROOT
    BY DEF BootRedex
  <2>2. ~is_local(<<"REF", 0>>)
    BY DEF is_local, is_var, is_nod, Nodes, tag
  <2>3. ~is_local(ROOT)
    <3>1. PICK t \in Gid : TPC - 1 = Global(t)
      <4>1. PICK h \in Nat : TPC = 2 * h /\ TPC \div 2 = h /\ h # 0
        <5>1. TPC \in Nat \ {0} /\ TPC % 2 = 0
          BY InteractionsAssumption, CudaNetAssumption
        <5>. QED
          BY <5>1
      <4>2. h - 1 \in Gid /\ TPC - 1 = Global(h - 1)
        BY <4>1 DEF Gid, Global
      <4>. QED
        BY <4>2
    <3>2. TPC * PLEN - 1 \in Part(TPC - 1)
      <4>1. PICK d \in Nat \ {0} : d = PLEN
        BY Sizes
      <4>2. TPC \in Nat /\ TPC * d = (TPC - 1) * d + d
        BY <4>1, Sizes
      <4>3. PICK m \in Int : m = (TPC - 1) * d
        BY <4>1, Sizes
      <4>. QED
        BY <4>1, <4>2, <4>3 DEF Part
    <3>3. val(ROOT) = TPC * PLEN - 1
      BY DEF ROOT, VarP, val
    <3>. QED
      BY <3>1, <3>2, <3>3, GlobalVar
  <2>. QED
    BY <2>1, <2>2, <2>3
<1>5. ASSUME NEW t \in Gid PROVE Hers(t)
  <2>1. PICK u : u = As(t) /\ u \in Thread /\ BagOf[u] = t
    BY GridShape
  <2>2. DOMAIN pool[t] = {} /\ DOMAIN <<>> = {}
    BY <1>1 DEF EmptyBag, SetToBag
  <2>3. \A p : ~InHand(u, p)
    BY <1>1, <2>1, <2>2 DEF InHand
  <2>. QED
    BY <1>1, <2>1, <2>3 DEF Hers, HandFine
<1>. QED
  BY <1>2, <1>3, <1>4, <1>5 DEF Apart

LEMMA ApartKeeps ==
  ASSUME Apart, CudaInv, GridRoomy, NothingLost, [CudaNext]_allVars
  PROVE  Apart'
<1>1. ASSUME NEW t \in Gid, CudaStep(t) PROVE Apart'
  <2>1. CASE Load(t)
    BY <2>1, LoadApart
  <2>2. CASE Loaded(t) \/ Stop(t) \/ Saved(t) \/ Exit(t)
    BY <2>2, SameApart DEF Loaded, Stop, Saved, Exit, vars
  <2>3. CASE EnterPort(t)
    BY <2>3, EnterPortApart
  <2>4. CASE LoadPush(t)
    BY <2>4, LoadPushApart
  <2>5. CASE Linkage(t)
    BY <2>5, LinkageApart
  <2>6. CASE Reduce(t)
    BY <2>6, ReduceApart
  <2>7. CASE ReduceLink(t)
    BY <2>7, ReduceLinkApart
  <2>8. CASE LeakStore(t)
    BY <2>8, LeakStoreApart
  <2>9. CASE Save(t)
    BY <2>9, SaveApart
  <2>. QED
    BY <1>1, <2>1, <2>2, <2>3, <2>4, <2>5, <2>6, <2>7, <2>8, <2>9 DEF CudaStep
<1>2. CASE Launch
  BY <1>2, LaunchApart
<1>3. CASE UNCHANGED allVars
  BY <1>3, SameApart DEF allVars, vars, cudaVars
<1>. QED
  BY <1>1, <1>2, <1>3 DEF CudaNext

LEMMA ApartPrivate == ASSUME Apart, CudaInv PROVE Private
<1>1. ASSUME NEW c \in Loc, NEW p, p \in {node_buf[c][1], node_buf[c][2], vars_buf[c]} \ {FREE}, is_local(p)
      PROVE  LocalCell(c) /\ Owner(c) = Owner(val(p))
  <2>1. p # NONE
    BY <1>1 DEF NONE, is_local, is_var, is_nod, tag, Nodes
  <2>2. FREE_NODE[1] = FREE /\ FREE_NODE[2] = FREE
    BY DEF FREE_NODE
  <2>3. CellFine(c)
    BY DEF Apart
  <2>4. FineIn(c, p)
    BY <1>1, <2>1, <2>2, <2>3 DEF CellFine
  <2>. QED
    BY <1>1, <2>4 DEF FineIn
<1>2. ASSUME NEW t \in Gid, NEW q \in DOMAIN pool[t], NEW k \in {1, 2}, is_local(q[k])
      PROVE  Owner(val(q[k])) = t
  <2>1. BagOf[As(t)] = t
    BY GridShape
  <2>2. InHand(As(t), q[k])
    BY <2>1 DEF InHand
  <2>. QED
    BY <1>2, <2>2 DEF Apart, Hers, Fine
<1>3. \A q \in Kept : ~is_local(q[1]) /\ ~is_local(q[2])
  BY DEF Apart
<1>. QED
  BY <1>1, <1>2, <1>3 DEF Private

\* A local port is in its thread's bag, hands or local memory, and in no other cell
\* and no saved redex, for any book, any number of threads and of launches: what a
\* block may read of the global memory names nothing in another block's local one.
THEOREM CudaStaysPrivate == CudaSpec /\ [](GridRoomy /\ NothingLost) => []Private
<1>1. CudaInit => CudaInv /\ Apart
  BY CudaStarts, StartsApart
<1>2. CudaInv /\ Apart /\ (GridRoomy /\ NothingLost) /\ [CudaNext]_allVars => CudaInv' /\ Apart'
  BY CudaStepKeeps, ApartKeeps
<1>3. CudaInv /\ Apart => Private
  BY ApartPrivate
<1>. QED
  BY <1>1, <1>2, <1>3, PTL DEF CudaSpec
=============================================================================
