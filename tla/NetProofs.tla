------------------------------ MODULE NetProofs ------------------------------
(***************************************************************************)
(* Proofs about the interactions of the C runtime, for any number of       *)
(* threads, any size of the buffers and any book: as long as the           *)
(* allocators find room, the net is linear at every moment.  The lemmas    *)
(* hold of any thread of Interactions, those of the CUDA runtime too.      *)
(***************************************************************************)
EXTENDS Interactions, NaturalLemmas, SequenceTheorems

-----------------------------------------------------------------------------
(* Counting.  An item is a place and the port in it; its key is the        *)
(* variable or the node the port names.                                    *)

Key(p) == IF is_var(p) THEN <<"VAR", val(p)>> ELSE IF is_nod(p) THEN <<"NODE", val(p)>> ELSE NONE

Keyed(items, x) == {h \in items : Key(h[2]) = x}
Counted(S, n) == IsFiniteSet(S) /\ Cardinality(S) = n

LEMMA CountedSmall ==
  /\ Counted({}, 0)
  /\ \A a : Counted({a}, 1)
  /\ \A a, b : a # b => Counted({a, b}, 2)
<1>1. Counted({}, 0)
  BY FS_EmptySet DEF Counted
<1>2. \A a : Counted({a}, 1)
  BY FS_Singleton DEF Counted
<1>3. ASSUME NEW a, NEW b, a # b PROVE Counted({a, b}, 2)
  <2>1. Counted({a} \cup {b}, 1 + 1)
    <3>1. IsFiniteSet({a}) /\ Cardinality({a}) = 1 /\ b \notin {a}
      BY <1>2, <1>3 DEF Counted
    <3>. QED
      BY <3>1, FS_AddElement DEF Counted
  <2>2. {a} \cup {b} = {a, b} /\ 1 + 1 = 2
    OBVIOUS
  <2>. QED
    BY <2>1, <2>2
<1>. QED
  BY <1>1, <1>2, <1>3

LEMMA CountedNat == ASSUME NEW S, NEW n, Counted(S, n) PROVE n \in Nat
BY FS_CardinalityType DEF Counted

LEMMA CountedEmpty == ASSUME NEW S, Counted(S, 0) PROVE S = {}
BY FS_EmptySet DEF Counted

LEMMA CountedOne ==
  ASSUME NEW S, Counted(S, 1), NEW a \in S
  PROVE  S = {a}
<1>1. PICK b : S = {b}
  BY FS_Singleton DEF Counted
<1>. QED
  BY <1>1

\* Two in the set, and nothing else if it has no more.
LEMMA CountedTwo ==
  ASSUME NEW S, NEW n \in {0, 1, 2}, Counted(S, n), NEW a \in S, NEW b \in S, a # b
  PROVE  n = 2 /\ S = {a, b}
<1>1. n # 0 /\ n # 1
  BY CountedEmpty, CountedOne
<1>2. Counted({a, b}, 2) /\ {a, b} \in SUBSET S
  BY CountedSmall
<1>. QED
  BY <1>1, <1>2, FS_Subset DEF Counted

LEMMA CountedBijection ==
  ASSUME NEW S, NEW T, NEW f, NEW n, Counted(S, n),
         \A s \in S : f[s] \in T, \A s, u \in S : f[s] = f[u] => s = u,
         \A t \in T : \E s \in S : f[s] = t
  PROVE  Counted(T, n)
<1>1. PICK g : g = [s \in S |-> f[s]]
  OBVIOUS
<1>2. g \in Bijection(S, T)
  BY <1>1, Fun_IsBij
<1>. QED
  BY <1>2, Fun_ExistsBij, FS_Bijection DEF Counted

\* A step: the items Old go, and an item comes for each of the slots S.  The one
\* at a slot of I is, but for its place, the item src of Old.
Rearranged(H, G, Old, S, at, I, src) ==
  /\ Old \subseteq H /\ I \subseteq S
  /\ G = (H \ Old) \cup {at[s] : s \in S}
  /\ \A s \in S : at[s] \notin H \ Old
  /\ \A s, u \in S : at[s] = at[u] => s = u
  /\ \A s \in I : src[s] \in Old /\ src[s][2] = at[s][2]
  /\ \A s, u \in I : src[s] = src[u] => s = u

\* The items that are lost, and those that are made.
Lost(Old, I, src, x) == {h \in Old : Key(h[2]) = x /\ \A s \in I : src[s] # h}
Made(S, at, I, x) == {s \in S \ I : Key(at[s][2]) = x}

LEMMA Recounted ==
  ASSUME NEW H, NEW G, NEW Old, NEW S, NEW at, NEW I, NEW src,
         Rearranged(H, G, Old, S, at, I, src), NEW x, NEW n, NEW a, NEW b,
         Counted(Keyed(H, x), n), Counted(Lost(Old, I, src, x), a),
         Counted(Made(S, at, I, x), b)
  PROVE  Counted(Keyed(G, x), n - a + b)
<1>1. PICK K : K = Keyed(H, x) \ Lost(Old, I, src, x)
  OBVIOUS
<1>2. Counted(K, n - a)
  <2>1. Keyed(H, x) \cap Lost(Old, I, src, x) = Lost(Old, I, src, x)
    BY DEF Rearranged, Keyed, Lost
  <2>2. /\ IsFiniteSet(Keyed(H, x)) /\ Cardinality(Keyed(H, x)) = n
        /\ Cardinality(Lost(Old, I, src, x)) = a
    BY DEF Counted
  <2>3. IsFiniteSet(K) /\ Cardinality(K) = n - Cardinality(Keyed(H, x) \cap Lost(Old, I, src, x))
    BY <1>1, <2>2, FS_Difference
  <2>. QED
    BY <2>1, <2>2, <2>3 DEF Counted
<1>3. PICK B : B = {at[s] : s \in Made(S, at, I, x)}
  OBVIOUS
<1>4. Counted(B, b)
  <2>. DEFINE M == Made(S, at, I, x)
  <2>1. \A s \in M : at[s] \in B
    BY <1>3
  <2>2. \A s, u \in M : at[s] = at[u] => s = u
    BY DEF Rearranged, Made
  <2>3. \A t \in B : \E s \in M : at[s] = t
    BY <1>3
  <2>. HIDE DEF M
  <2>. QED
    BY <2>1, <2>2, <2>3, CountedBijection DEF M
<1>5. PICK f : f = [h \in K |-> IF h \in Old THEN at[CHOOSE s \in I : src[s] = h] ELSE h]
  OBVIOUS
<1>6. \A h \in K : Key(h[2]) = x /\ h \in H
  BY <1>1 DEF Keyed
<1>7. \A h \in K : h \in Old => \E s \in I : src[s] = h /\ f[h] = at[s]
  <2>. SUFFICES ASSUME NEW h \in K, h \in Old PROVE \E s \in I : src[s] = h /\ f[h] = at[s]
    OBVIOUS
  <2>1. \E s \in I : src[s] = h
    BY <1>1, <1>6 DEF Lost
  <2>2. PICK s : s = CHOOSE u \in I : src[u] = h
    OBVIOUS
  <2>3. s \in I /\ src[s] = h
    BY <2>1, <2>2
  <2>. QED
    BY <1>5, <2>2, <2>3
<1>8. \A h \in K : h \notin Old => f[h] = h
  BY <1>5
<1>9. PICK C : C = Keyed(G, x) \ B
  OBVIOUS
<1>10. \A h \in K : f[h] \in C
  <2>. SUFFICES ASSUME NEW h \in K PROVE f[h] \in C
    OBVIOUS
  <2>1. CASE h \notin Old
    <3>1. h \in H \ Old /\ f[h] = h
      BY <1>6, <1>8, <2>1
    <3>. QED
      BY <1>3, <1>6, <1>9, <3>1 DEF Rearranged, Keyed, Made
  <2>2. CASE h \in Old
    <3>1. PICK s \in I : src[s] = h /\ f[h] = at[s]
      BY <1>7, <2>2
    <3>2. s \in S /\ at[s] \in G /\ Key(at[s][2]) = x
      BY <1>6, <3>1 DEF Rearranged
    <3>3. at[s] \notin B
      BY <1>3, <3>1, <3>2 DEF Rearranged, Made
    <3>. QED
      BY <1>9, <3>1, <3>2, <3>3 DEF Keyed
  <2>. QED
    BY <2>1, <2>2
<1>11. \A h, k \in K : f[h] = f[k] => h = k
  <2>. SUFFICES ASSUME NEW h \in K, NEW k \in K, f[h] = f[k] PROVE h = k
    OBVIOUS
  <2>1. CASE h \notin Old /\ k \notin Old
    BY <1>8, <2>1
  <2>2. CASE h \in Old /\ k \notin Old
    <3>1. PICK s \in I : src[s] = h /\ f[h] = at[s]
      BY <1>7, <2>2
    <3>. QED
      <4>1. k \in H \ Old /\ k = at[s]
        BY <1>6, <1>8, <2>2, <3>1
      <4>2. s \in S /\ \A u \in S : at[u] \notin H \ Old
        BY <3>1 DEF Rearranged
      <4>. QED
        BY <4>1, <4>2
  <2>3. CASE h \notin Old /\ k \in Old
    <3>1. PICK s \in I : src[s] = k /\ f[k] = at[s]
      BY <1>7, <2>3
    <3>. QED
      <4>1. h \in H \ Old /\ h = at[s]
        BY <1>6, <1>8, <2>3, <3>1
      <4>2. s \in S /\ \A u \in S : at[u] \notin H \ Old
        BY <3>1 DEF Rearranged
      <4>. QED
        BY <4>1, <4>2
  <2>4. CASE h \in Old /\ k \in Old
    <3>1. PICK s \in I : src[s] = h /\ f[h] = at[s]
      BY <1>7, <2>4
    <3>2. PICK u \in I : src[u] = k /\ f[k] = at[u]
      BY <1>7, <2>4
    <3>3. \A i, j \in I : at[i] = at[j] => i = j
      BY DEF Rearranged
    <3>. QED
      BY <3>1, <3>2, <3>3
  <2>. QED
    BY <2>1, <2>2, <2>3, <2>4
<1>12. \A g \in C : \E h \in K : f[h] = g
  <2>. SUFFICES ASSUME NEW g \in C PROVE \E h \in K : f[h] = g
    OBVIOUS
  <2>1. Key(g[2]) = x /\ g \in G /\ g \notin B
    BY <1>9 DEF Keyed
  <2>2. CASE g \in H \ Old
    <3>1. g \in K
      BY <1>1, <2>1, <2>2 DEF Keyed, Lost
    <3>. QED
      BY <1>8, <2>2, <3>1
  <2>3. CASE g \notin H \ Old
    <3>1. PICK s \in S : g = at[s]
      BY <2>1, <2>3 DEF Rearranged
    <3>2. s \in I
      BY <1>3, <2>1, <3>1 DEF Made
    <3>3. src[s] \in Old /\ src[s][2] = g[2] /\ src[s] \in H
      BY <3>1, <3>2 DEF Rearranged
    <3>4. src[s] \in K
      BY <1>1, <2>1, <3>2, <3>3 DEF Keyed, Lost
    <3>5. PICK u \in I : src[u] = src[s] /\ f[src[s]] = at[u]
      BY <1>7, <3>3, <3>4
    <3>6. u = s
      BY <3>2, <3>5 DEF Rearranged
    <3>. QED
      BY <3>1, <3>4, <3>5, <3>6
  <2>. QED
    BY <2>2, <2>3
<1>13. Counted(C, n - a)
  BY <1>2, <1>10, <1>11, <1>12, CountedBijection
<1>14. Keyed(G, x) = C \cup B /\ C \cap B = {}
  <2>1. B \subseteq Keyed(G, x)
    BY <1>3 DEF Keyed, Made, Rearranged
  <2>. QED
    BY <1>9, <2>1
<1>15. n - a \in Nat /\ b \in Nat
  BY <1>4, <1>13, CountedNat
<1>16. /\ IsFiniteSet(C \cup B)
       /\ Cardinality(C \cup B) = Cardinality(C) + Cardinality(B) - Cardinality(C \cap B)
  BY <1>4, <1>13, FS_Union DEF Counted
<1>17. Cardinality(C) = n - a /\ Cardinality(B) = b /\ Cardinality(C \cap B) = 0
  BY <1>4, <1>13, <1>14, FS_EmptySet DEF Counted
<1>18. Cardinality(C \cup B) = n - a + b
  BY <1>15, <1>16, <1>17
<1>. QED
  BY <1>14, <1>16, <1>18 DEF Counted

-----------------------------------------------------------------------------
(* The inductive invariant.                                                *)

IsPort(p) ==
  /\ p = <<tag(p), val(p)>> /\ tag(p) \in Nodes \cup Nullary \cup {"VAR"}
  /\ is_var(p) \/ is_nod(p) => val(p) \in Loc
  /\ tag(p) = "REF" => val(p) \in DOMAIN Book[program]
IsPair(r) == r = <<r[1], r[2]>> /\ IsPort(r[1]) /\ IsPort(r[2])

IsList(s) == (\E S : s \in Seq(S)) /\ \A i \in DOMAIN s : IsPair(s[i])

\* The cells a thread allocates from.
Part(t) == t * PLEN .. t * PLEN + PLEN - 1

\* What an OPER interaction holds: a number, the ports of the node it took, and a
\* node it has not stored yet, which stays free.
IsOper(t, o) ==
  /\ o = <<o[1], o[2], o[3], o[4]>> /\ IsPort(o[1]) /\ IsPort(o[2]) /\ IsPort(o[3])
  /\ tag(o[1]) = "NUM"
  /\ o[4] \in Part(t) \ {0} /\ node_buf[o[4]] = FREE_NODE

BufTypes ==
  /\ DOMAIN node_buf = Loc /\ \A c \in Loc : IsPair(node_buf[c])
  /\ DOMAIN vars_buf = Loc /\ \A c \in Loc : vars_buf[c] = NONE \/ IsPort(vars_buf[c])
  /\ vars_buf[0] = FREE
  /\ nput \in [Thread -> Nat] /\ vput \in [Thread -> Nat]

PoolTypes ==
  /\ DOMAIN pool = Bags
  /\ \A b \in Bags : \A r \in DOMAIN pool[b] : pool[b][r] \in Nat \ {0} /\ IsPair(r)

ThreadInv(t) ==
  /\ pc[t] \in {"idle", "link", "point", "oper", "operate"}
  /\ IsList(todo[t]) /\ (todo[t] # <<>> <=> pc[t] \in {"link", "point"})
  /\ pc[t] = "point" => is_var(Linking(t)[1])
  /\ pc[t] \in {"oper", "operate"} => IsOper(t, oper[t])
  /\ pc[t] \notin {"oper", "operate"} => oper[t] = <<>>

ThreadTypes ==
  /\ DOMAIN pc = Thread /\ DOMAIN todo = Thread /\ DOMAIN oper = Thread
  /\ \A t \in Thread : ThreadInv(t)

\* How often a variable, and a node, is named.
OwedVar(c) == IF vars_buf[c] = FREE THEN 0 ELSE IF vars_buf[c] = NONE THEN 2 ELSE 1
OwedNode(c) == IF node_buf[c] = FREE_NODE THEN 0 ELSE 1

\* The ports of the net, and others that a machine around it holds.
All(Rest) == Held \cup Rest
Elsewhere(Rest) == \A h \in Rest : h[1][1] \notin {"node", "vars", "pool", "todo", "oper", "main"}

Balanced(Rest) ==
  \A c \in Loc : /\ Counted(Keyed(All(Rest), <<"VAR", c>>), OwedVar(c))
                 /\ Counted(Keyed(All(Rest), <<"NODE", c>>), OwedNode(c))

NetInv(Rest) == program \in DOMAIN Book /\ BufTypes /\ PoolTypes /\ ThreadTypes /\ Balanced(Rest)

-----------------------------------------------------------------------------
(* What is held, by kind of place, and how it changes.                     *)

Changed(H, G, old, new) ==
  /\ old \subseteq H /\ G = (H \ old) \cup new
  /\ \A h \in new : h \notin H \ old

OfKind(S, k) == \A h \in S : h[1][1] = k

LEMMA HeldKinds ==
  /\ OfKind(HeldInNodes, "node") /\ OfKind(HeldInVars, "vars") /\ OfKind(HeldInPool, "pool")
  /\ OfKind(HeldInTodo, "todo") /\ OfKind(HeldInOper, "oper")
  /\ OfKind({<< <<"main">>, ROOT>>}, "main")
  /\ OfKind(HeldInNodes', "node") /\ OfKind(HeldInVars', "vars") /\ OfKind(HeldInPool', "pool")
  /\ OfKind(HeldInTodo', "todo") /\ OfKind(HeldInOper', "oper")
<1>1. OfKind(HeldInNodes, "node") /\ OfKind(HeldInNodes', "node")
  BY DEF OfKind, HeldInNodes
<1>2. OfKind(HeldInVars, "vars") /\ OfKind(HeldInVars', "vars")
  BY DEF OfKind, HeldInVars
<1>3. OfKind(HeldInPool, "pool") /\ OfKind(HeldInPool', "pool")
  BY DEF OfKind, HeldInPool
<1>4. OfKind(HeldInTodo, "todo") /\ OfKind(HeldInTodo', "todo")
  BY DEF OfKind, HeldInTodo
<1>5. OfKind(HeldInOper, "oper") /\ OfKind(HeldInOper', "oper")
  BY DEF OfKind, HeldInOper
<1>6. OfKind({<< <<"main">>, ROOT>>}, "main")
  BY DEF OfKind
<1>. QED
  BY <1>1, <1>2, <1>3, <1>4, <1>5, <1>6

LEMMA Unchanged == ASSUME NEW H, NEW G, G = H PROVE Changed(H, G, {}, {})
BY DEF Changed

LEMMA ChangedUnion ==
  ASSUME NEW A, NEW A2, NEW o, NEW n, Changed(A, A2, o, n),
         NEW B, NEW B2, NEW p, NEW m, Changed(B, B2, p, m),
         \A h \in A \cup A2 : h \notin B /\ h \notin B2
  PROVE  Changed(A \cup B, A2 \cup B2, o \cup p, n \cup m)
BY DEF Changed

LEMMA HeldChanged ==
  ASSUME NEW on, NEW nn, Changed(HeldInNodes, HeldInNodes', on, nn),
         NEW ov, NEW nv, Changed(HeldInVars, HeldInVars', ov, nv),
         NEW op, NEW np, Changed(HeldInPool, HeldInPool', op, np),
         NEW ot, NEW nt, Changed(HeldInTodo, HeldInTodo', ot, nt),
         NEW oo, NEW no, Changed(HeldInOper, HeldInOper', oo, no)
  PROVE  Changed(Held, Held', on \cup ov \cup op \cup ot \cup oo,
                 nn \cup nv \cup np \cup nt \cup no)
<1>. DEFINE M == {<< <<"main">>, ROOT>>}
<1>1. /\ OfKind(HeldInNodes', "node") /\ OfKind(HeldInVars', "vars")
      /\ OfKind(HeldInPool', "pool") /\ OfKind(HeldInTodo', "todo")
      /\ OfKind(HeldInOper', "oper") /\ OfKind(M, "main")
  BY HeldKinds DEF M
<1>2. Changed(M, M, {}, {})
  BY Unchanged
<1>. HIDE DEF M
<1>3. Changed(HeldInNodes \cup HeldInVars, HeldInNodes' \cup HeldInVars', on \cup ov, nn \cup nv)
  <2>1. \A h \in HeldInNodes \cup HeldInNodes' : h \notin HeldInVars /\ h \notin HeldInVars'
    BY <1>1, HeldKinds DEF OfKind
  <2>. QED
    BY <2>1, ChangedUnion
<1>4. Changed(HeldInNodes \cup HeldInVars \cup HeldInPool,
              HeldInNodes' \cup HeldInVars' \cup HeldInPool', on \cup ov \cup op, nn \cup nv \cup np)
  <2>1. \A h \in (HeldInNodes \cup HeldInVars) \cup (HeldInNodes' \cup HeldInVars') :
          h \notin HeldInPool /\ h \notin HeldInPool'
    BY <1>1, HeldKinds DEF OfKind
  <2>. QED
    BY <1>3, <2>1, ChangedUnion
<1>5. Changed(HeldInNodes \cup HeldInVars \cup HeldInPool \cup HeldInTodo,
              HeldInNodes' \cup HeldInVars' \cup HeldInPool' \cup HeldInTodo',
              on \cup ov \cup op \cup ot, nn \cup nv \cup np \cup nt)
  <2>1. \A h \in (HeldInNodes \cup HeldInVars \cup HeldInPool)
                   \cup (HeldInNodes' \cup HeldInVars' \cup HeldInPool') :
          h \notin HeldInTodo /\ h \notin HeldInTodo'
    BY <1>1, HeldKinds DEF OfKind
  <2>. QED
    BY <1>4, <2>1, ChangedUnion
<1>6. Changed(HeldInNodes \cup HeldInVars \cup HeldInPool \cup HeldInTodo \cup HeldInOper,
              HeldInNodes' \cup HeldInVars' \cup HeldInPool' \cup HeldInTodo' \cup HeldInOper',
              on \cup ov \cup op \cup ot \cup oo, nn \cup nv \cup np \cup nt \cup no)
  <2>1. \A h \in (HeldInNodes \cup HeldInVars \cup HeldInPool \cup HeldInTodo)
                   \cup (HeldInNodes' \cup HeldInVars' \cup HeldInPool' \cup HeldInTodo') :
          h \notin HeldInOper /\ h \notin HeldInOper'
    BY <1>1, HeldKinds DEF OfKind
  <2>. QED
    BY <1>5, <2>1, ChangedUnion
<1>7. Changed(HeldInNodes \cup HeldInVars \cup HeldInPool \cup HeldInTodo \cup HeldInOper \cup M,
              HeldInNodes' \cup HeldInVars' \cup HeldInPool' \cup HeldInTodo' \cup HeldInOper' \cup M,
              on \cup ov \cup op \cup ot \cup oo \cup {}, nn \cup nv \cup np \cup nt \cup no \cup {})
  <2>1. \A h \in (HeldInNodes \cup HeldInVars \cup HeldInPool \cup HeldInTodo \cup HeldInOper)
                   \cup (HeldInNodes' \cup HeldInVars' \cup HeldInPool' \cup HeldInTodo' \cup HeldInOper') :
          h \notin M
    BY <1>1, HeldKinds DEF OfKind
  <2>. QED
    BY <1>2, <1>6, <2>1, ChangedUnion
<1>8. /\ on \cup ov \cup op \cup ot \cup oo \cup {} = on \cup ov \cup op \cup ot \cup oo
      /\ nn \cup nv \cup np \cup nt \cup no \cup {} = nn \cup nv \cup np \cup nt \cup no
  OBVIOUS
<1>. QED
  BY <1>7, <1>8 DEF Held, M

LEMMA HeldKind ==
  \A h \in Held \cup Held' : h[1][1] \in {"node", "vars", "pool", "todo", "oper", "main"}
BY HeldKinds DEF Held, OfKind

LEMMA AllChanged ==
  ASSUME NEW o, NEW n, Changed(Held, Held', o, n),
         NEW Rest, NEW Then, NEW p, NEW m, Changed(Rest, Then, p, m),
         Elsewhere(Rest), Elsewhere(Then)
  PROVE  Changed(All(Rest), All(Then)', o \cup p, n \cup m)
<1>1. \A h \in Held \cup Held' : h \notin Rest /\ h \notin Then
  BY HeldKind DEF Elsewhere
<1>2. Changed(Held \cup Rest, Held' \cup Then, o \cup p, n \cup m)
  BY <1>1, ChangedUnion
<1>. QED
  BY <1>2 DEF All

\* The net alone changes.
LEMMA NetChanged ==
  ASSUME NEW Rest, Elsewhere(Rest),
         NEW on, NEW nn, Changed(HeldInNodes, HeldInNodes', on, nn),
         NEW ov, NEW nv, Changed(HeldInVars, HeldInVars', ov, nv),
         NEW op, NEW np, Changed(HeldInPool, HeldInPool', op, np),
         NEW ot, NEW nt, Changed(HeldInTodo, HeldInTodo', ot, nt),
         NEW oo, NEW no, Changed(HeldInOper, HeldInOper', oo, no)
  PROVE  Changed(All(Rest), All(Rest)', on \cup ov \cup op \cup ot \cup oo,
                 nn \cup nv \cup np \cup nt \cup no)
<1>1. PICK o, n : /\ o = on \cup ov \cup op \cup ot \cup oo
                  /\ n = nn \cup nv \cup np \cup nt \cup no
  OBVIOUS
<1>2. Changed(Held, Held', o, n)
  BY <1>1, HeldChanged
<1>3. Changed(Rest, Rest, {}, {})
  BY Unchanged
<1>4. Changed(All(Rest), All(Rest)', o \cup {}, n \cup {})
  BY <1>2, <1>3, AllChanged
<1>5. o \cup {} = o /\ n \cup {} = n
  OBVIOUS
<1>. QED
  BY <1>1, <1>4, <1>5

-----------------------------------------------------------------------------
(* Bags.                                                                   *)

LEMMA BagWith ==
  ASSUME NEW bag, NEW r, \A x \in DOMAIN bag : bag[x] \in Nat \ {0}
  PROVE  /\ DOMAIN With(bag, r) = DOMAIN bag \cup {r}
         /\ \A x \in DOMAIN bag : x # r => With(bag, r)[x] = bag[x]
         /\ With(bag, r)[r] = (IF r \in DOMAIN bag THEN bag[r] ELSE 0) + 1
         /\ \A x \in DOMAIN With(bag, r) : With(bag, r)[x] \in Nat \ {0}
<1>1. With(bag, r) = [x \in DOMAIN bag \cup {r} |->
         (IF x \in DOMAIN bag THEN bag[x] ELSE 0) + (IF x \in {r} THEN 1 ELSE 0)]
  <2>1. \A x \in {r} : SetToBag({r})[x] = 1
    BY DEF SetToBag
  <2>2. DOMAIN SetToBag({r}) = {r}
    BY DEF SetToBag
  <2>3. \A x \in DOMAIN bag \cup {r} :
          (IF x \in DOMAIN SetToBag({r}) THEN SetToBag({r})[x] ELSE 0)
            = (IF x \in {r} THEN 1 ELSE 0)
    BY <2>1, <2>2
  <2>. QED
    BY <2>2, <2>3 DEF With, (+)
<1>. QED
  BY <1>1

LEMMA BagWithout ==
  ASSUME NEW bag, NEW r \in DOMAIN bag, \A x \in DOMAIN bag : bag[x] \in Nat \ {0}
  PROVE  /\ DOMAIN Without(bag, r) = {x \in DOMAIN bag : x # r \/ bag[x] > 1}
         /\ \A x \in DOMAIN Without(bag, r) :
              Without(bag, r)[x] = IF x = r THEN bag[x] - 1 ELSE bag[x]
         /\ \A x \in DOMAIN Without(bag, r) : Without(bag, r)[x] \in Nat \ {0}
<1>1. DOMAIN SetToBag({r}) = {r} /\ SetToBag({r})[r] = 1
  BY DEF SetToBag
<1>2. PICK B : B = [x \in DOMAIN bag |-> IF x \in DOMAIN SetToBag({r})
                                         THEN bag[x] - SetToBag({r})[x] ELSE bag[x]]
  OBVIOUS
<1>3. Without(bag, r) = [x \in {y \in DOMAIN B : B[y] > 0} |-> B[x]]
  BY <1>2 DEF Without, (-)
<1>4. DOMAIN B = DOMAIN bag /\ \A x \in DOMAIN bag : B[x] = IF x = r THEN bag[x] - 1 ELSE bag[x]
  BY <1>1, <1>2
<1>5. \A x \in DOMAIN bag : B[x] > 0 <=> x # r \/ bag[x] > 1
  BY <1>4
<1>. QED
  BY <1>3, <1>4, <1>5

-----------------------------------------------------------------------------
(* What is held in the pool.                                               *)

PoolItem(b, r, i, k) == << <<"pool", b, r, i, k>>, r[k]>>

LEMMA InPool ==
  \A h : h \in HeldInPool <=>
    \E b \in DOMAIN pool : \E r \in DOMAIN pool[b] : \E i \in 1 .. pool[b][r], k \in {1, 2} :
      h = PoolItem(b, r, i, k)
BY DEF HeldInPool, PoolItem

LEMMA InPoolNext ==
  \A h : h \in HeldInPool' <=>
    \E b \in DOMAIN pool' : \E r \in DOMAIN pool'[b] : \E i \in 1 .. pool'[b][r], k \in {1, 2} :
      h = PoolItem(b, r, i, k)
BY DEF HeldInPool, PoolItem

LEMMA PoolItemOf ==
  ASSUME NEW b, NEW r, NEW i, NEW k, NEW c, NEW s, NEW j, NEW l,
         PoolItem(b, r, i, k) = PoolItem(c, s, j, l)
  PROVE  b = c /\ r = s /\ i = j /\ k = l
BY DEF PoolItem

LEMMA PortsKept ==
  ASSUME program' = program
  PROVE  /\ \A p : IsPort(p)' <=> IsPort(p)
         /\ \A r : IsPair(r)' <=> IsPair(r)
         /\ \A s : IsList(s)' <=> IsList(s)
<1>1. \A p : IsPort(p)' <=> IsPort(p)
  BY DEF IsPort
<1>2. \A r : IsPair(r)' <=> IsPair(r)
  BY <1>1 DEF IsPair
<1>. QED
  BY <1>1, <1>2 DEF IsPair, IsList

LEMMA PoolTake ==
  ASSUME PoolTypes, program' = program, NEW b \in Bags, NEW r \in DOMAIN pool[b],
         pool' = [pool EXCEPT ![b] = Without(@, r)]
  PROVE  /\ Changed(HeldInPool, HeldInPool', {PoolItem(b, r, pool[b][r], k) : k \in {1, 2}}, {})
         /\ PoolTypes'
<1>1. /\ DOMAIN pool = Bags /\ DOMAIN pool' = Bags /\ pool'[b] = Without(pool[b], r)
      /\ \A c \in Bags \ {b} : pool'[c] = pool[c]
  BY DEF PoolTypes
<1>2. \A x \in DOMAIN pool[b] : pool[b][x] \in Nat \ {0}
  BY DEF PoolTypes
<1>3. /\ DOMAIN pool'[b] = {x \in DOMAIN pool[b] : x # r \/ pool[b][x] > 1}
      /\ \A x \in DOMAIN pool'[b] : pool'[b][x] = IF x = r THEN pool[b][x] - 1 ELSE pool[b][x]
      /\ \A x \in DOMAIN pool'[b] : pool'[b][x] \in Nat \ {0}
  <2>1. PICK w : w = pool[b]
    OBVIOUS
  <2>2. r \in DOMAIN w /\ \A x \in DOMAIN w : w[x] \in Nat \ {0}
    BY <1>2, <2>1
  <2>3. /\ DOMAIN Without(w, r) = {x \in DOMAIN w : x # r \/ w[x] > 1}
        /\ \A x \in DOMAIN Without(w, r) : Without(w, r)[x] = IF x = r THEN w[x] - 1 ELSE w[x]
        /\ \A x \in DOMAIN Without(w, r) : Without(w, r)[x] \in Nat \ {0}
    BY <2>2, BagWithout
  <2>. QED
    BY <1>1, <2>1, <2>3
<1>4. PICK o : o = {PoolItem(b, r, pool[b][r], k) : k \in {1, 2}}
  OBVIOUS
<1>5. o \subseteq HeldInPool
  BY <1>1, <1>2, <1>4, InPool
<1>6. \A h \in HeldInPool' : h \in HeldInPool \ o
  <2>. SUFFICES ASSUME NEW h \in HeldInPool' PROVE h \in HeldInPool /\ h \notin o
    OBVIOUS
  <2>1. PICK c, x, i, k : /\ c \in Bags /\ x \in DOMAIN pool'[c] /\ i \in 1 .. pool'[c][x]
                          /\ k \in {1, 2} /\ h = PoolItem(c, x, i, k)
    BY <1>1, InPoolNext
  <2>2. CASE c = b
    <3>1. x \in DOMAIN pool[b] /\ i \in 1 .. pool[b][x]
      BY <1>2, <1>3, <2>1, <2>2
    <3>2. x = r => i # pool[b][r]
      BY <1>2, <1>3, <2>1, <2>2
    <3>. QED
      BY <1>1, <1>4, <2>1, <2>2, <3>1, <3>2, InPool, PoolItemOf
  <2>3. CASE c # b
    BY <1>1, <1>4, <2>1, <2>3, InPool, PoolItemOf
  <2>. QED
    BY <2>2, <2>3
<1>7. \A h \in HeldInPool : h \notin o => h \in HeldInPool'
  <2>. SUFFICES ASSUME NEW h \in HeldInPool, h \notin o PROVE h \in HeldInPool'
    OBVIOUS
  <2>1. PICK c, x, i, k : /\ c \in Bags /\ x \in DOMAIN pool[c] /\ i \in 1 .. pool[c][x]
                          /\ k \in {1, 2} /\ h = PoolItem(c, x, i, k)
    BY <1>1, InPool
  <2>2. CASE c = b
    <3>1. x = r => i # pool[b][r]
      BY <1>4, <2>1, <2>2
    <3>2. x \in DOMAIN pool'[b] /\ i \in 1 .. pool'[b][x]
      BY <1>2, <1>3, <2>1, <2>2, <3>1
    <3>. QED
      BY <1>1, <2>1, <2>2, <3>2, InPoolNext
  <2>3. CASE c # b
    BY <1>1, <2>1, <2>3, InPoolNext
  <2>. QED
    BY <2>2, <2>3
<1>8. PoolTypes' <=> /\ DOMAIN pool' = Bags
                     /\ \A c \in Bags : \A x \in DOMAIN pool'[c] :
                          pool'[c][x] \in Nat \ {0} /\ IsPair(x)'
  BY DEF PoolTypes
<1>9. \A c \in Bags : \A x \in DOMAIN pool'[c] : pool'[c][x] \in Nat \ {0} /\ IsPair(x)'
  BY <1>1, <1>3, PortsKept DEF PoolTypes
<1>. QED
  BY <1>1, <1>4, <1>5, <1>6, <1>7, <1>8, <1>9 DEF Changed

\* The next copy of a redex.
Copy(b, r) == (IF r \in DOMAIN pool[b] THEN pool[b][r] ELSE 0) + 1

LEMMA PoolPut ==
  ASSUME PoolTypes, program' = program, NEW b \in Bags, NEW r, IsPair(r),
         pool' = [pool EXCEPT ![b] = With(@, r)]
  PROVE  /\ Changed(HeldInPool, HeldInPool', {}, {PoolItem(b, r, Copy(b, r), k) : k \in {1, 2}})
         /\ PoolTypes'
<1>1. /\ DOMAIN pool = Bags /\ DOMAIN pool' = Bags /\ pool'[b] = With(pool[b], r)
      /\ \A c \in Bags \ {b} : pool'[c] = pool[c]
  BY DEF PoolTypes
<1>2. \A x \in DOMAIN pool[b] : pool[b][x] \in Nat \ {0}
  BY DEF PoolTypes
<1>3. /\ DOMAIN pool'[b] = DOMAIN pool[b] \cup {r}
      /\ \A x \in DOMAIN pool[b] : x # r => pool'[b][x] = pool[b][x]
      /\ pool'[b][r] = Copy(b, r)
      /\ \A x \in DOMAIN pool'[b] : pool'[b][x] \in Nat \ {0}
  <2>1. PICK w : w = pool[b]
    OBVIOUS
  <2>2. \A x \in DOMAIN w : w[x] \in Nat \ {0}
    BY <1>2, <2>1
  <2>3. /\ DOMAIN With(w, r) = DOMAIN w \cup {r}
        /\ \A x \in DOMAIN w : x # r => With(w, r)[x] = w[x]
        /\ With(w, r)[r] = (IF r \in DOMAIN w THEN w[r] ELSE 0) + 1
        /\ \A x \in DOMAIN With(w, r) : With(w, r)[x] \in Nat \ {0}
    BY <2>2, BagWith
  <2>. QED
    BY <1>1, <2>1, <2>3 DEF Copy
<1>4. PICK n : n = {PoolItem(b, r, Copy(b, r), k) : k \in {1, 2}}
  OBVIOUS
<1>5. r \in DOMAIN pool[b] => Copy(b, r) = pool[b][r] + 1 /\ pool[b][r] \in Nat
  BY <1>2 DEF Copy
<1>6. r \notin DOMAIN pool[b] => Copy(b, r) = 1
  BY DEF Copy
<1>7. \A h \in n : h \notin HeldInPool /\ h \in HeldInPool'
  <2>. SUFFICES ASSUME NEW l \in {1, 2}, NEW h, h = PoolItem(b, r, Copy(b, r), l)
                PROVE  h \notin HeldInPool /\ h \in HeldInPool'
    BY <1>4
  <2>1. h \notin HeldInPool
    <3>. SUFFICES ASSUME h \in HeldInPool PROVE FALSE
      OBVIOUS
    <3>1. PICK c, x, i, k : /\ c \in Bags /\ x \in DOMAIN pool[c] /\ i \in 1 .. pool[c][x]
                            /\ k \in {1, 2} /\ h = PoolItem(c, x, i, k)
      BY <1>1, InPool
    <3>2. c = b /\ x = r /\ i = Copy(b, r)
      <4>1. PICK m : m = Copy(b, r)
        OBVIOUS
      <4>2. PoolItem(c, x, i, k) = PoolItem(b, r, m, l)
        BY <3>1, <4>1
      <4>. QED
        BY <4>1, <4>2, PoolItemOf
    <3>. QED
      BY <1>5, <3>1, <3>2
  <2>2. r \in DOMAIN pool'[b] /\ Copy(b, r) \in 1 .. pool'[b][r]
    BY <1>3, <1>5, <1>6
  <2>. QED
    BY <1>1, <2>1, <2>2, InPoolNext
<1>8. \A h \in HeldInPool' : h \in HeldInPool \/ h \in n
  <2>. SUFFICES ASSUME NEW h \in HeldInPool' PROVE h \in HeldInPool \/ h \in n
    OBVIOUS
  <2>1. PICK c, x, i, k : /\ c \in Bags /\ x \in DOMAIN pool'[c] /\ i \in 1 .. pool'[c][x]
                          /\ k \in {1, 2} /\ h = PoolItem(c, x, i, k)
    BY <1>1, InPoolNext
  <2>2. CASE c = b /\ x = r
    <3>1. CASE i = Copy(b, r)
      BY <1>4, <2>1, <2>2, <3>1
    <3>2. CASE i # Copy(b, r)
      <4>1. r \in DOMAIN pool[b] /\ i \in 1 .. pool[b][r]
        BY <1>3, <1>5, <1>6, <2>1, <2>2, <3>2
      <4>. QED
        BY <1>1, <2>1, <2>2, <4>1, InPool
    <3>. QED
      BY <3>1, <3>2
  <2>3. CASE c = b /\ x # r
    BY <1>1, <1>3, <2>1, <2>3, InPool
  <2>4. CASE c # b
    BY <1>1, <2>1, <2>4, InPool
  <2>. QED
    BY <2>2, <2>3, <2>4
<1>9. \A h \in HeldInPool : h \in HeldInPool'
  <2>. SUFFICES ASSUME NEW h \in HeldInPool PROVE h \in HeldInPool'
    OBVIOUS
  <2>1. PICK c, x, i, k : /\ c \in Bags /\ x \in DOMAIN pool[c] /\ i \in 1 .. pool[c][x]
                          /\ k \in {1, 2} /\ h = PoolItem(c, x, i, k)
    BY <1>1, InPool
  <2>2. x \in DOMAIN pool'[c] /\ i \in 1 .. pool'[c][x]
    BY <1>1, <1>3, <1>5, <2>1
  <2>. QED
    BY <1>1, <2>1, <2>2, InPoolNext
<1>10. PoolTypes'
  <2>1. \A c \in Bags : \A x \in DOMAIN pool'[c] : pool'[c][x] \in Nat \ {0} /\ IsPair(x)'
    BY <1>1, <1>3, PortsKept DEF PoolTypes
  <2>. QED
    BY <1>1, <2>1 DEF PoolTypes
<1>. QED
  BY <1>4, <1>7, <1>8, <1>9, <1>10 DEF Changed

-----------------------------------------------------------------------------
(* What is held in the lists of pairs.                                     *)

TodoItem(t, j, k, p) == << <<"todo", t, j, k>>, p>>
PairItems(t, j, r) == {TodoItem(t, j, k, r[k]) : k \in {1, 2}}
ListItems(t, q) == {TodoItem(t, Len(q) - i, k, q[i][k]) : i \in DOMAIN q, k \in {1, 2}}

LEMMA InTodo ==
  /\ \A h : h \in HeldInTodo <=> \E t \in Thread : h \in ListItems(t, todo[t])
  /\ \A h : h \in HeldInTodo' <=> \E t \in Thread : h \in ListItems(t, todo'[t])
BY DEF HeldInTodo, ListItems, TodoItem

LEMMA ListItemOf ==
  ASSUME NEW t, NEW q, NEW h \in ListItems(t, q)
  PROVE  \E i \in DOMAIN q, k \in {1, 2} : h = TodoItem(t, Len(q) - i, k, q[i][k])
BY DEF ListItems

LEMMA TodoItemOf ==
  ASSUME NEW t, NEW j, NEW k, NEW p, NEW u, NEW i, NEW l, NEW r,
         TodoItem(t, j, k, p) = TodoItem(u, i, l, r)
  PROVE  t = u /\ j = i /\ k = l /\ p = r
BY DEF TodoItem

LEMMA ListsApart ==
  ASSUME NEW t, NEW q, NEW u, NEW s, NEW h, h \in ListItems(t, q), h \in ListItems(u, s)
  PROVE  t = u
<1>1. PICK i, k : h = TodoItem(t, Len(q) - i, k, q[i][k])
  BY ListItemOf
<1>2. PICK j, l : h = TodoItem(u, Len(s) - j, l, s[j][l])
  BY ListItemOf
<1>. QED
  BY <1>1, <1>2, TodoItemOf

LEMMA TodoChanged ==
  ASSUME DOMAIN todo = Thread, NEW t \in Thread, NEW q, todo' = [todo EXCEPT ![t] = q],
         NEW o, NEW n, Changed(ListItems(t, todo[t]), ListItems(t, q), o, n)
  PROVE  Changed(HeldInTodo, HeldInTodo', o, n)
<1>1. todo'[t] = q /\ \A u \in Thread \ {t} : todo'[u] = todo[u]
  OBVIOUS
<1>2. o \subseteq ListItems(t, todo[t]) /\ n \subseteq ListItems(t, q)
  BY DEF Changed
<1>3. o \subseteq HeldInTodo
  BY <1>2, InTodo
<1>4. \A h \in HeldInTodo' : h \in HeldInTodo \ o \/ h \in n
  <2>. SUFFICES ASSUME NEW h \in HeldInTodo' PROVE h \in HeldInTodo \ o \/ h \in n
    OBVIOUS
  <2>1. PICK u \in Thread : h \in ListItems(u, todo'[u])
    BY InTodo
  <2>2. CASE u = t
    BY <1>1, <2>1, <2>2, InTodo DEF Changed
  <2>3. CASE u # t
    BY <1>1, <1>2, <2>1, <2>3, InTodo, ListsApart
  <2>. QED
    BY <2>2, <2>3
<1>5. \A h \in HeldInTodo \ o : h \in HeldInTodo' /\ h \notin n
  <2>. SUFFICES ASSUME NEW h \in HeldInTodo, h \notin o PROVE h \in HeldInTodo' /\ h \notin n
    OBVIOUS
  <2>1. PICK u \in Thread : h \in ListItems(u, todo[u])
    BY InTodo
  <2>2. CASE u = t
    BY <1>1, <2>1, <2>2, InTodo DEF Changed
  <2>3. CASE u # t
    BY <1>1, <1>2, <2>1, <2>3, InTodo, ListsApart
  <2>. QED
    BY <2>2, <2>3
<1>6. n \subseteq HeldInTodo'
  BY <1>1, <1>2, InTodo
<1>. QED
  BY <1>3, <1>4, <1>5, <1>6 DEF Changed

LEMMA ListHead ==
  ASSUME NEW q, IsList(q), q # <<>>, NEW r, IsPair(r)
  PROVE  /\ Len(q) \in Nat \ {0} /\ DOMAIN q = 1 .. Len(q) /\ IsPair(q[1])
         /\ IsList(Tail(q)) /\ Len(Tail(q)) = Len(q) - 1
         /\ \A i \in 1 .. Len(q) - 1 : Tail(q)[i] = q[i + 1]
         /\ IsList([q EXCEPT ![1] = r]) /\ Len([q EXCEPT ![1] = r]) = Len(q)
         /\ DOMAIN [q EXCEPT ![1] = r] = 1 .. Len(q)
         /\ [q EXCEPT ![1] = r] # <<>>
<1>1. PICK S : q \in Seq(S)
  BY DEF IsList
<1>2. /\ Len(q) \in Nat \ {0} /\ DOMAIN q = 1 .. Len(q)
      /\ Tail(q) \in Seq(S) /\ Len(Tail(q)) = Len(q) - 1
      /\ \A i \in 1 .. Len(q) - 1 : Tail(q)[i] = q[i + 1]
  BY <1>1
<1>3. \A i \in 1 .. Len(q) : IsPair(q[i])
  BY <1>2 DEF IsList
<1>4. DOMAIN Tail(q) = 1 .. Len(q) - 1
  BY <1>2
<1>5. \A i \in 1 .. Len(q) - 1 : IsPair(Tail(q)[i])
  <2>1. \A i \in 1 .. Len(q) - 1 : i + 1 \in 1 .. Len(q)
    BY <1>2
  <2>. QED
    BY <1>2, <1>3, <2>1
<1>6. IsList(Tail(q))
  BY <1>2, <1>4, <1>5 DEF IsList
<1>7. PICK e : e = [q EXCEPT ![1] = r]
  OBVIOUS
<1>8. e \in Seq(S \cup {r}) /\ Len(e) = Len(q)
  <2>1. q \in Seq(S \cup {r})
    BY <1>1
  <2>. QED
    BY <1>2, <1>7, <2>1
<1>9. DOMAIN e = 1 .. Len(q) /\ e[1] = r /\ \A i \in 1 .. Len(q) : i # 1 => e[i] = q[i]
  BY <1>2, <1>7
<1>10. IsList(e) /\ e # <<>>
  <2>1. \A i \in DOMAIN e : IsPair(e[i])
    BY <1>3, <1>9
  <2>2. IsList(e)
    BY <1>8, <2>1 DEF IsList
  <2>. QED
    BY <1>2, <1>8, <2>2
<1>. QED
  BY <1>2, <1>3, <1>6, <1>7, <1>8, <1>9, <1>10

LEMMA ListTail ==
  ASSUME NEW t, NEW q, IsList(q), q # <<>>, NEW r, IsPair(r)
  PROVE  /\ Changed(ListItems(t, q), ListItems(t, Tail(q)), PairItems(t, Len(q) - 1, q[1]), {})
         /\ Changed(ListItems(t, q), ListItems(t, [q EXCEPT ![1] = r]),
                    PairItems(t, Len(q) - 1, q[1]), PairItems(t, Len(q) - 1, r))
<1>1. PICK m : m = Len(q)
  OBVIOUS
<1>2. PICK s : s = Tail(q)
  OBVIOUS
<1>3. PICK e : e = [q EXCEPT ![1] = r]
  OBVIOUS
<1>4. /\ m \in Nat \ {0} /\ DOMAIN q = 1 .. m /\ Len(s) = m - 1 /\ DOMAIN s = 1 .. m - 1
      /\ \A i \in 1 .. m - 1 : s[i] = q[i + 1]
      /\ Len(e) = m /\ DOMAIN e = 1 .. m /\ e[1] = r
      /\ \A i \in 1 .. m : i # 1 => e[i] = q[i]
  <2>1. DOMAIN s = 1 .. m - 1
    <3>1. PICK S : s \in Seq(S)
      BY <1>2, ListHead DEF IsList
    <3>2. Len(s) = m - 1
      BY <1>1, <1>2, ListHead
    <3>. QED
      BY <3>1, <3>2
  <2>2. /\ m \in Nat \ {0} /\ DOMAIN q = 1 .. m /\ Len(s) = m - 1
        /\ \A i \in 1 .. m - 1 : s[i] = q[i + 1]
    BY <1>1, <1>2, ListHead
  <2>3. Len(e) = m /\ DOMAIN e = 1 .. m
    BY <1>1, <1>3, ListHead
  <2>. QED
    BY <1>3, <2>1, <2>2, <2>3
<1>5. \A h : h \in ListItems(t, q) <=> \E i \in 1 .. m, k \in {1, 2} : h = TodoItem(t, m - i, k, q[i][k])
  BY <1>1, <1>4 DEF ListItems
<1>6. \A h : h \in ListItems(t, s) <=>
        \E i \in 1 .. m - 1, k \in {1, 2} : h = TodoItem(t, m - 1 - i, k, q[i + 1][k])
  BY <1>4 DEF ListItems
<1>7. \A h : h \in ListItems(t, e) <=> \E i \in 1 .. m, k \in {1, 2} : h = TodoItem(t, m - i, k, e[i][k])
  BY <1>4 DEF ListItems
<1>8. PICK o, n : o = PairItems(t, m - 1, q[1]) /\ n = PairItems(t, m - 1, r)
  OBVIOUS
<1>9. \A h : h \in o <=> \E k \in {1, 2} : h = TodoItem(t, m - 1, k, q[1][k])
  BY <1>8 DEF PairItems
<1>10. \A h : h \in n <=> \E k \in {1, 2} : h = TodoItem(t, m - 1, k, r[k])
  BY <1>8 DEF PairItems
<1>11. PICK R : R = ListItems(t, s)
  OBVIOUS
<1>12. \A h : h \in R <=> \E i \in 2 .. m, k \in {1, 2} : h = TodoItem(t, m - i, k, q[i][k])
  <2>1. ASSUME NEW h, NEW i \in 2 .. m, NEW k \in {1, 2}, h = TodoItem(t, m - i, k, q[i][k])
        PROVE  h \in R
    <3>1. i - 1 \in 1 .. m - 1 /\ m - 1 - (i - 1) = m - i /\ (i - 1) + 1 = i
      BY <1>4
    <3>2. PICK j : j = i - 1
      OBVIOUS
    <3>3. h = TodoItem(t, m - 1 - j, k, q[j + 1][k]) /\ j \in 1 .. m - 1
      BY <2>1, <3>1, <3>2
    <3>. QED
      BY <1>6, <1>11, <3>3
  <2>2. ASSUME NEW h \in R
        PROVE  \E i \in 2 .. m, k \in {1, 2} : h = TodoItem(t, m - i, k, q[i][k])
    <3>1. PICK i \in 1 .. m - 1, k \in {1, 2} : h = TodoItem(t, m - 1 - i, k, q[i + 1][k])
      BY <1>6, <1>11, <2>2
    <3>2. i + 1 \in 2 .. m /\ m - 1 - i = m - (i + 1)
      BY <1>4
    <3>3. PICK j : j = i + 1
      OBVIOUS
    <3>4. h = TodoItem(t, m - j, k, q[j][k]) /\ j \in 2 .. m
      BY <3>1, <3>2, <3>3
    <3>. QED
      BY <3>4
  <2>. QED
    BY <2>1, <2>2
<1>13. ListItems(t, q) = o \cup R
  <2>1. \A i : i \in 1 .. m <=> i = 1 \/ i \in 2 .. m
    BY <1>4
  <2>. QED
    BY <1>5, <1>9, <1>12, <2>1
<1>14. ListItems(t, e) = n \cup R
  <2>1. \A i : i \in 1 .. m <=> i = 1 \/ i \in 2 .. m
    BY <1>4
  <2>2. e[1] = r /\ \A i \in 2 .. m : e[i] = q[i]
    BY <1>4
  <2>3. \A k : TodoItem(t, m - 1, k, e[1][k]) = TodoItem(t, m - 1, k, r[k])
    BY <2>2
  <2>4. \A h : h \in ListItems(t, e) <=>
          \/ \E k \in {1, 2} : h = TodoItem(t, m - 1, k, e[1][k])
          \/ \E i \in 2 .. m, k \in {1, 2} : h = TodoItem(t, m - i, k, e[i][k])
    BY <1>7, <2>1
  <2>5. \A h : h \in ListItems(t, e) <=> h \in n \/ h \in R
    BY <1>10, <1>12, <2>2, <2>3, <2>4
  <2>. QED
    BY <2>5
<1>15. \A h \in R : h \notin o /\ h \notin n
  <2>. SUFFICES ASSUME NEW h \in R, h \in o \/ h \in n PROVE FALSE
    OBVIOUS
  <2>1. PICK i \in 2 .. m, k \in {1, 2} : h = TodoItem(t, m - i, k, q[i][k])
    BY <1>12
  <2>2. PICK l, p : h = TodoItem(t, m - 1, l, p)
    BY <1>9, <1>10
  <2>3. PICK a, b : a = m - i /\ b = m - 1
    OBVIOUS
  <2>4. TodoItem(t, a, k, q[i][k]) = TodoItem(t, b, l, p)
    BY <2>1, <2>2, <2>3
  <2>5. a = b
    BY <2>4, TodoItemOf
  <2>. QED
    BY <1>4, <2>3, <2>5
<1>16. Changed(o \cup R, R, o, {}) /\ Changed(o \cup R, n \cup R, o, n)
  BY <1>15 DEF Changed
<1>. QED
  BY <1>1, <1>2, <1>3, <1>8, <1>13, <1>11, <1>14, <1>16

LEMMA ListEmpty == \A t : ListItems(t, <<>>) = {}
BY DEF ListItems

-----------------------------------------------------------------------------
(* What is held by the OPER interactions, the substitution map and the     *)
(* nodes.                                                                  *)

OperItem(t, k, p) == << <<"oper", t, k>>, p>>
OperItems(t, o) == IF o = <<>> THEN {} ELSE {OperItem(t, k, o[k]) : k \in {2, 3}}

LEMMA InOper ==
  /\ \A h : h \in HeldInOper <=> \E t \in Thread : h \in OperItems(t, oper[t])
  /\ \A h : h \in HeldInOper' <=> \E t \in Thread : h \in OperItems(t, oper'[t])
<1>1. \A h : h \in HeldInOper <=>
        \E t \in Thread, k \in {2, 3} : oper[t] # <<>> /\ h = OperItem(t, k, oper[t][k])
  BY DEF HeldInOper, OperItem
<1>2. \A h : h \in HeldInOper' <=>
        \E t \in Thread, k \in {2, 3} : oper'[t] # <<>> /\ h = OperItem(t, k, oper'[t][k])
  BY DEF HeldInOper, OperItem
<1>3. \A t, o, h : h \in OperItems(t, o) <=> \E k \in {2, 3} : o # <<>> /\ h = OperItem(t, k, o[k])
  BY DEF OperItems
<1>. QED
  BY <1>1, <1>2, <1>3

LEMMA OperItemOf ==
  ASSUME NEW t, NEW k, NEW p, NEW u, NEW l, NEW r, OperItem(t, k, p) = OperItem(u, l, r)
  PROVE  t = u /\ k = l /\ p = r
BY DEF OperItem

LEMMA OpersApart ==
  ASSUME NEW t, NEW q, NEW u, NEW s, NEW h, h \in OperItems(t, q), h \in OperItems(u, s)
  PROVE  t = u
<1>1. PICK k : h = OperItem(t, k, q[k])
  BY DEF OperItems
<1>2. PICK l : h = OperItem(u, l, s[l])
  BY DEF OperItems
<1>3. PICK a, b : a = q[k] /\ b = s[l]
  OBVIOUS
<1>4. OperItem(t, k, a) = OperItem(u, l, b)
  BY <1>1, <1>2, <1>3
<1>. QED
  BY <1>4, OperItemOf

LEMMA OperChanged ==
  ASSUME DOMAIN oper = Thread, NEW t \in Thread, NEW q, oper' = [oper EXCEPT ![t] = q],
         NEW o, NEW n, Changed(OperItems(t, oper[t]), OperItems(t, q), o, n)
  PROVE  Changed(HeldInOper, HeldInOper', o, n)
<1>1. oper'[t] = q /\ \A u \in Thread \ {t} : oper'[u] = oper[u]
  OBVIOUS
<1>2. o \subseteq OperItems(t, oper[t]) /\ n \subseteq OperItems(t, q)
  BY DEF Changed
<1>3. o \subseteq HeldInOper
  BY <1>2, InOper
<1>4. \A h \in HeldInOper' : h \in HeldInOper \ o \/ h \in n
  <2>. SUFFICES ASSUME NEW h \in HeldInOper' PROVE h \in HeldInOper \ o \/ h \in n
    OBVIOUS
  <2>1. PICK u \in Thread : h \in OperItems(u, oper'[u])
    BY InOper
  <2>2. CASE u = t
    BY <1>1, <2>1, <2>2, InOper DEF Changed
  <2>3. CASE u # t
    BY <1>1, <1>2, <2>1, <2>3, InOper, OpersApart
  <2>. QED
    BY <2>2, <2>3
<1>5. \A h \in HeldInOper \ o : h \in HeldInOper' /\ h \notin n
  <2>. SUFFICES ASSUME NEW h \in HeldInOper, h \notin o PROVE h \in HeldInOper' /\ h \notin n
    OBVIOUS
  <2>1. PICK u \in Thread : h \in OperItems(u, oper[u])
    BY InOper
  <2>2. CASE u = t
    BY <1>1, <2>1, <2>2, InOper DEF Changed
  <2>3. CASE u # t
    BY <1>1, <1>2, <2>1, <2>3, InOper, OpersApart
  <2>. QED
    BY <2>2, <2>3
<1>6. n \subseteq HeldInOper'
  BY <1>1, <1>2, InOper
<1>. QED
  BY <1>3, <1>4, <1>5, <1>6 DEF Changed

VarItem(c, p) == << <<"vars", c>>, p>>
VarItems(c, p) == IF p \in {FREE, NONE} THEN {} ELSE {VarItem(c, p)}

LEMMA InVars ==
  /\ \A h : h \in HeldInVars <=> \E c \in Loc : h \in VarItems(c, vars_buf[c])
  /\ \A h : h \in HeldInVars' <=> \E c \in Loc : h \in VarItems(c, vars_buf'[c])
<1>1. \A h : h \in HeldInVars <=>
        \E c \in Loc : vars_buf[c] \notin {FREE, NONE} /\ h = VarItem(c, vars_buf[c])
  BY DEF HeldInVars, VarItem
<1>2. \A h : h \in HeldInVars' <=>
        \E c \in Loc : vars_buf'[c] \notin {FREE, NONE} /\ h = VarItem(c, vars_buf'[c])
  BY DEF HeldInVars, VarItem
<1>3. \A c, p, h : h \in VarItems(c, p) <=> p \notin {FREE, NONE} /\ h = VarItem(c, p)
  BY DEF VarItems
<1>. QED
  BY <1>1, <1>2, <1>3

LEMMA VarItemOf ==
  ASSUME NEW c, NEW p, NEW e, NEW r, VarItem(c, p) = VarItem(e, r)
  PROVE  c = e /\ p = r
BY DEF VarItem

LEMMA VarsChanged ==
  ASSUME DOMAIN vars_buf = Loc, NEW x \in Loc, NEW p, vars_buf' = [vars_buf EXCEPT ![x] = p]
  PROVE  Changed(HeldInVars, HeldInVars', VarItems(x, vars_buf[x]), VarItems(x, p))
<1>1. vars_buf'[x] = p /\ \A c \in Loc \ {x} : vars_buf'[c] = vars_buf[c]
  OBVIOUS
<1>2. \A c, e, q, r, h : h \in VarItems(c, q) /\ h \in VarItems(e, r) => c = e
  BY VarItemOf DEF VarItems
<1>3. VarItems(x, vars_buf[x]) \subseteq HeldInVars
  BY InVars
<1>4. \A h \in HeldInVars' : h \in HeldInVars \ VarItems(x, vars_buf[x]) \/ h \in VarItems(x, p)
  <2>. SUFFICES ASSUME NEW h \in HeldInVars'
                PROVE  h \in HeldInVars \ VarItems(x, vars_buf[x]) \/ h \in VarItems(x, p)
    OBVIOUS
  <2>1. PICK c \in Loc : h \in VarItems(c, vars_buf'[c])
    BY InVars
  <2>. QED
    BY <1>1, <1>2, <2>1, InVars
<1>5. \A h \in HeldInVars \ VarItems(x, vars_buf[x]) : h \in HeldInVars' /\ h \notin VarItems(x, p)
  <2>. SUFFICES ASSUME NEW h \in HeldInVars, h \notin VarItems(x, vars_buf[x])
                PROVE  h \in HeldInVars' /\ h \notin VarItems(x, p)
    OBVIOUS
  <2>1. PICK c \in Loc : h \in VarItems(c, vars_buf[c])
    BY InVars
  <2>. QED
    BY <1>1, <1>2, <2>1, InVars
<1>6. VarItems(x, p) \subseteq HeldInVars'
  BY <1>1, InVars
<1>. QED
  BY <1>3, <1>4, <1>5, <1>6 DEF Changed

NodeItem(c, k, p) == << <<"node", c, k>>, p>>
NodeItems(c, r) == IF r = FREE_NODE THEN {} ELSE {NodeItem(c, k, r[k]) : k \in {1, 2}}

LEMMA InNodes ==
  /\ \A h : h \in HeldInNodes <=> \E c \in Loc : h \in NodeItems(c, node_buf[c])
  /\ \A h : h \in HeldInNodes' <=> \E c \in Loc : h \in NodeItems(c, node_buf'[c])
<1>1. \A h : h \in HeldInNodes <=>
        \E c \in Loc, k \in {1, 2} : node_buf[c] # FREE_NODE /\ h = NodeItem(c, k, node_buf[c][k])
  BY DEF HeldInNodes, NodeItem
<1>2. \A h : h \in HeldInNodes' <=>
        \E c \in Loc, k \in {1, 2} : node_buf'[c] # FREE_NODE /\ h = NodeItem(c, k, node_buf'[c][k])
  BY DEF HeldInNodes, NodeItem
<1>3. \A c, r, h : h \in NodeItems(c, r) <=>
        \E k \in {1, 2} : r # FREE_NODE /\ h = NodeItem(c, k, r[k])
  BY DEF NodeItems
<1>. QED
  BY <1>1, <1>2, <1>3

LEMMA NodeItemOf ==
  ASSUME NEW c, NEW k, NEW p, NEW e, NEW l, NEW r, NodeItem(c, k, p) = NodeItem(e, l, r)
  PROVE  c = e /\ k = l /\ p = r
BY DEF NodeItem

LEMMA NodesApart ==
  ASSUME NEW c, NEW q, NEW e, NEW r, NEW h, h \in NodeItems(c, q), h \in NodeItems(e, r)
  PROVE  c = e
<1>1. PICK k : h = NodeItem(c, k, q[k])
  BY DEF NodeItems
<1>2. PICK l : h = NodeItem(e, l, r[l])
  BY DEF NodeItems
<1>3. PICK a, b : a = q[k] /\ b = r[l]
  OBVIOUS
<1>4. NodeItem(c, k, a) = NodeItem(e, l, b)
  BY <1>1, <1>2, <1>3
<1>. QED
  BY <1>4, NodeItemOf

\* The cells of T are written.
LEMMA NodesChanged ==
  ASSUME NEW T \in SUBSET Loc, \A c \in Loc \ T : node_buf'[c] = node_buf[c]
  PROVE  Changed(HeldInNodes, HeldInNodes', UNION {NodeItems(c, node_buf[c]) : c \in T},
                 UNION {NodeItems(c, node_buf'[c]) : c \in T})
<1>1. PICK o, n : /\ o = UNION {NodeItems(c, node_buf[c]) : c \in T}
                  /\ n = UNION {NodeItems(c, node_buf'[c]) : c \in T}
  OBVIOUS
<1>2. /\ \A h : h \in o <=> \E c \in T : h \in NodeItems(c, node_buf[c])
      /\ \A h : h \in n <=> \E c \in T : h \in NodeItems(c, node_buf'[c])
  BY <1>1
<1>3. o \subseteq HeldInNodes /\ n \subseteq HeldInNodes'
  BY <1>2, InNodes
<1>4. \A h \in HeldInNodes' : h \in HeldInNodes \ o \/ h \in n
  <2>. SUFFICES ASSUME NEW h \in HeldInNodes' PROVE h \in HeldInNodes \ o \/ h \in n
    OBVIOUS
  <2>1. PICK c \in Loc : h \in NodeItems(c, node_buf'[c])
    BY InNodes
  <2>2. CASE c \in T
    BY <1>2, <2>1, <2>2
  <2>3. CASE c \notin T
    BY <1>2, <2>1, <2>3, InNodes, NodesApart
  <2>. QED
    BY <2>2, <2>3
<1>5. \A h \in HeldInNodes \ o : h \in HeldInNodes' /\ h \notin n
  <2>. SUFFICES ASSUME NEW h \in HeldInNodes, h \notin o PROVE h \in HeldInNodes' /\ h \notin n
    OBVIOUS
  <2>1. PICK c \in Loc : h \in NodeItems(c, node_buf[c])
    BY InNodes
  <2>2. c \notin T
    BY <1>2, <2>1
  <2>. QED
    BY <1>2, <2>1, <2>2, InNodes, NodesApart
<1>. QED
  BY <1>1, <1>3, <1>4, <1>5 DEF Changed

-----------------------------------------------------------------------------
(* The allocators.                                                         *)

LEMMA Sizes ==
  /\ TPC \in Nat \ {0} /\ PLEN \in Nat \ {0, 1} /\ TPC * PLEN \in Nat /\ TPC * PLEN > 1
  /\ \A t \in Thread : t \in Nat /\ t * PLEN \in Nat /\ Part(t) \subseteq Loc
  /\ \A t, u \in Thread : \A c : c \in Part(t) /\ c \in Part(u) => t = u
  /\ 0 \in Loc /\ 0 \in Thread /\ TPC * PLEN - 1 \in Loc /\ TPC * PLEN - 1 # 0
<1>1. TPC \in Nat \ {0} /\ PLEN \in Nat \ {0, 1}
  BY InteractionsAssumption
<1>2. ASSUME NEW u \in Nat, NEW v \in Nat, u < v PROVE u * PLEN + PLEN <= v * PLEN
  <2>1. PICK w \in Nat : v = u + 1 + w
    <3>1. v - u - 1 \in Nat /\ v = u + 1 + (v - u - 1)
      BY <1>2
    <3>. QED
      BY <3>1
  <2>2. v * PLEN = u * PLEN + PLEN + w * PLEN /\ w * PLEN \in Nat /\ u * PLEN \in Nat
    BY <1>1, <2>1
  <2>. QED
    BY <1>1, <2>2
<1>3. \A u \in Nat : u * PLEN \in Nat
  BY <1>1
<1>4. \A t \in Thread : t \in Nat /\ t < TPC
  BY <1>1 DEF Thread
<1>5. TPC * PLEN \in Nat /\ PLEN <= TPC * PLEN
  <2>1. 0 \in Nat /\ TPC \in Nat /\ 0 < TPC
    BY <1>1
  <2>2. 0 * PLEN + PLEN <= TPC * PLEN
    BY <1>2, <2>1
  <2>. QED
    BY <1>1, <1>3, <2>2
<1>6. ASSUME NEW t \in Thread PROVE Part(t) \subseteq Loc
  <2>1. t * PLEN + PLEN <= TPC * PLEN /\ t * PLEN \in Nat
    BY <1>1, <1>2, <1>3, <1>4
  <2>. QED
    BY <1>1, <1>5, <2>1 DEF Part, Loc
<1>7. ASSUME NEW t \in Thread, NEW u \in Thread, NEW c, c \in Part(t), c \in Part(u) PROVE t = u
  <2>1. t * PLEN \in Nat /\ u * PLEN \in Nat
    BY <1>3, <1>4
  <2>2. ~(t < u)
    <3>. SUFFICES ASSUME t < u PROVE FALSE
      OBVIOUS
    <3>1. t * PLEN + PLEN <= u * PLEN
      BY <1>2, <1>4
    <3>. QED
      BY <1>1, <1>7, <2>1, <3>1 DEF Part
  <2>3. ~(u < t)
    <3>. SUFFICES ASSUME u < t PROVE FALSE
      OBVIOUS
    <3>1. u * PLEN + PLEN <= t * PLEN
      BY <1>2, <1>4
    <3>. QED
      BY <1>1, <1>7, <2>1, <3>1 DEF Part
  <2>. QED
    BY <1>4, <2>2, <2>3
<1>8. 0 \in Loc /\ 0 \in Thread /\ TPC * PLEN - 1 \in Loc /\ TPC * PLEN - 1 # 0
  BY <1>1, <1>5 DEF Loc, Thread
<1>. QED
  BY <1>1, <1>3, <1>4, <1>5, <1>6, <1>7, <1>8

\* The probes of a search, no more than PLEN, are different cells.
LEMMA ProbesApart ==
  ASSUME NEW t \in Thread, NEW put \in Nat
  PROVE  /\ Probes(t) \in Nat
         /\ \A k \in 1 .. Probes(t) : Probe(t, put, k) \in Part(t) /\ Probe(t, put, k) \in Nat
         /\ \A j, k \in 1 .. Probes(t) : Probe(t, put, j) = Probe(t, put, k) => j = k
<1>1. Probes(t) \in Nat /\ Probes(t) <= PLEN
  BY Sizes DEF Probes
<1>2. \A k \in 1 .. Probes(t) : (put + k - 1) \in Nat
  BY <1>1
<1>3. \A k \in 1 .. Probes(t) : (put + k - 1) % PLEN \in 0 .. PLEN - 1
  BY <1>2, Sizes, Division
<1>4. \A k \in 1 .. Probes(t) : Probe(t, put, k) \in Part(t) /\ Probe(t, put, k) \in Nat
  BY <1>3, Sizes DEF Probe, Part
<1>5. ASSUME NEW j \in 1 .. Probes(t), NEW k \in 1 .. Probes(t),
             Probe(t, put, j) = Probe(t, put, k), j < k
      PROVE  FALSE
  <2>1. PICK a, b : a = put + j - 1 /\ b = put + k - 1
    OBVIOUS
  <2>2. a \in Nat /\ b \in Nat /\ a < b /\ b - a < PLEN
    <3>1. PICK K \in Nat : K = Probes(t) /\ K <= PLEN /\ PLEN \in Nat
      BY <1>1, Sizes
    <3>2. j \in 1 .. K /\ k \in 1 .. K /\ j < k
      BY <1>5, <3>1
    <3>. QED
      BY <2>1, <3>1, <3>2
  <2>3. a % PLEN = b % PLEN
    BY <1>3, <1>5, <2>1, Sizes, SMTT(30) DEF Probe
  <2>4. PICK p, q \in Nat : p = a \div PLEN /\ q = b \div PLEN
    BY <2>2, Sizes, Division
  <2>5. PICK r \in Nat : r = a % PLEN /\ r = b % PLEN
    <3>1. a % PLEN \in 0 .. PLEN - 1
      BY <2>2, Sizes, Division
    <3>. QED
      BY <2>3, <3>1
  <2>6. a = PLEN * p + r /\ b = PLEN * q + r
    BY <2>2, <2>4, <2>5, Sizes, Division
  <2>7. PLEN * p \in Nat /\ PLEN * q \in Nat
    BY Sizes
  <2>8. p < q
    <3>. SUFFICES ASSUME q <= p PROVE FALSE
      BY <2>4
    <3>1. PICK w \in Nat : p = q + w
      <4>1. p - q \in Nat /\ p = q + (p - q)
        BY <2>4
      <4>. QED
        BY <4>1
    <3>2. PLEN * p = PLEN * q + PLEN * w /\ PLEN * w \in Nat
      BY <3>1, Sizes
    <3>. QED
      BY <2>2, <2>6, <2>7, <3>2
  <2>9. PICK w \in Nat : q = p + 1 + w
    <3>1. q - p - 1 \in Nat /\ q = p + 1 + (q - p - 1)
      BY <2>4, <2>8
    <3>. QED
      BY <3>1
  <2>10. PLEN * q = PLEN * p + PLEN + PLEN * w /\ PLEN * w \in Nat
    BY <2>9, Sizes
  <2>. QED
    BY <2>2, <2>6, <2>7, <2>10, Sizes
<1>6. \A j, k \in 1 .. Probes(t) : Probe(t, put, j) = Probe(t, put, k) => j = k
  <2>. SUFFICES ASSUME NEW j \in 1 .. Probes(t), NEW k \in 1 .. Probes(t),
                       Probe(t, put, j) = Probe(t, put, k)
                PROVE  j = k
    OBVIOUS
  <2>1. ~(j < k) /\ ~(k < j)
    BY <1>5
  <2>. QED
    BY <1>1, <2>1
<1>. QED
  BY <1>1, <1>4, <1>6

Finding(f, t, put, buf, free) ==
  f = [k \in 0 .. Probes(t) |->
         IF k = 0 THEN <<>>
         ELSE IF Probe(t, put, k) > 0 /\ buf[Probe(t, put, k)] = free
         THEN Append(f[k - 1], Probe(t, put, k))
         ELSE f[k - 1]]

LEMMA SearchIs ==
  ASSUME NEW t, NEW put, NEW buf, NEW free
  PROVE  Search(t, put, buf, free) = (CHOOSE f : Finding(f, t, put, buf, free))[Probes(t)]
BY DEF Search, Finding

\* Cells of the thread's, that are free, each once; never cell 0.
Found(s, t, buf, free) ==
  /\ s \in Seq(Loc)
  /\ \A i \in 1 .. Len(s) : s[i] \in Part(t) /\ s[i] # 0 /\ buf[s[i]] = free
  /\ \A i, j \in 1 .. Len(s) : s[i] = s[j] => i = j

LEMMA SearchFinds ==
  ASSUME NEW t \in Thread, NEW put \in Nat, NEW buf, NEW free
  PROVE  Found(Search(t, put, buf, free), t, buf, free)
<1>1. PICK K \in Nat : K = Probes(t)
  BY ProbesApart
<1>2. PICK c : c = [k \in 1 .. K |-> Probe(t, put, k)]
  OBVIOUS
<1>3. /\ \A k \in 1 .. K : c[k] = Probe(t, put, k)
      /\ \A k \in 1 .. K : c[k] \in Loc /\ c[k] \in Part(t) /\ c[k] \in Nat
      /\ \A j, k \in 1 .. K : c[j] = c[k] => j = k
  BY <1>1, <1>2, ProbesApart, Sizes
<1>4. PICK free_at : free_at = {k \in 1 .. K : c[k] > 0 /\ buf[c[k]] = free}
  OBVIOUS
<1>5. PICK V : V = Seq(Loc)
  OBVIOUS
<1>6. PICK g : g = [w \in V \X (1 .. K) |->
                      IF w[2] \in free_at THEN Append(w[1], c[w[2]]) ELSE w[1]]
  OBVIOUS
<1>7. \A s \in V, k \in 1 .. K :
        /\ <<s, k>> \in V \X (1 .. K)
        /\ g[<<s, k>>] = IF k \in free_at THEN Append(s, c[k]) ELSE s
  BY <1>6
<1>8. g \in [V \X (1 .. K) -> V]
  <2>1. \A w \in V \X (1 .. K) :
          (IF w[2] \in free_at THEN Append(w[1], c[w[2]]) ELSE w[1]) \in V
    BY <1>3, <1>5
  <2>. QED
    BY <1>6, <2>1
<1>9. <<>> \in V
  BY <1>5
<1>10. PICK h : Iterated(h, V, K, <<>>, g)
  BY <1>8, <1>9, Iterates
<1>11. /\ DOMAIN h = 0 .. K /\ \A k \in 0 .. K : h[k] \in V
       /\ h[0] = <<>> /\ \A k \in 1 .. K : h[k] = IF k \in free_at THEN Append(h[k - 1], c[k]) ELSE h[k - 1]
  <2>1. h \in [0 .. K -> V] /\ h[0] = <<>> /\ \A k \in 1 .. K : h[k] = g[<<h[k - 1], k>>]
    BY <1>10 DEF Iterated
  <2>2. \A k \in 1 .. K : k - 1 \in 0 .. K
    OBVIOUS
  <2>3. \A k \in 1 .. K : h[k - 1] \in V
    BY <2>1, <2>2
  <2>. QED
    BY <1>7, <2>1, <2>3
<1>12. Finding(h, t, put, buf, free)
  <2>1. h = [k \in 0 .. K |-> h[k]]
    <3>1. h \in [0 .. K -> V]
      BY <1>10 DEF Iterated
    <3>. QED
      BY <3>1
  <2>2. ASSUME NEW k \in 0 .. K
        PROVE  h[k] = IF k = 0 THEN <<>>
                      ELSE IF Probe(t, put, k) > 0 /\ buf[Probe(t, put, k)] = free
                      THEN Append(h[k - 1], Probe(t, put, k)) ELSE h[k - 1]
    <3>1. CASE k = 0
      BY <1>11, <3>1
    <3>2. CASE k # 0
      <4>1. k \in 1 .. K
        BY <3>2
      <4>2. k \in free_at <=> Probe(t, put, k) > 0 /\ buf[Probe(t, put, k)] = free
        BY <1>3, <1>4, <4>1
      <4>3. h[k] = IF k \in free_at THEN Append(h[k - 1], Probe(t, put, k)) ELSE h[k - 1]
        BY <1>3, <1>11, <4>1
      <4>. QED
        BY <3>2, <4>2, <4>3, Zenon
    <3>. QED
      BY <3>1, <3>2
  <2>3. [k \in 0 .. K |-> h[k]] =
          [k \in 0 .. K |-> IF k = 0 THEN <<>>
                      ELSE IF Probe(t, put, k) > 0 /\ buf[Probe(t, put, k)] = free
                      THEN Append(h[k - 1], Probe(t, put, k)) ELSE h[k - 1]]
    BY <2>2, Zenon
  <2>. QED
    BY <1>1, <2>1, <2>3, Zenon DEF Finding
<1>13. PICK e : e = CHOOSE f : Finding(f, t, put, buf, free)
  OBVIOUS
<1>14. Finding(e, t, put, buf, free)
  BY <1>12, <1>13, Zenon
<1>15. \A k \in 0 .. K : e[k] = IF k = 0 THEN <<>>
                      ELSE IF Probe(t, put, k) > 0 /\ buf[Probe(t, put, k)] = free
                      THEN Append(e[k - 1], Probe(t, put, k)) ELSE e[k - 1]
  BY <1>1, <1>14, Zenon DEF Finding
<1>16. e[0] = <<>> /\ \A k \in 1 .. K : e[k] = IF k \in free_at THEN Append(e[k - 1], c[k]) ELSE e[k - 1]
  <2>1. e[0] = <<>>
    <3>1. 0 \in 0 .. K
      OBVIOUS
    <3>. QED
      BY <1>15, <3>1, Zenon
  <2>2. ASSUME NEW k \in 1 .. K
        PROVE  e[k] = IF k \in free_at THEN Append(e[k - 1], c[k]) ELSE e[k - 1]
    <3>1. k \in 0 .. K /\ k # 0
      OBVIOUS
    <3>2. k \in free_at <=> Probe(t, put, k) > 0 /\ buf[Probe(t, put, k)] = free
      BY <1>3, <1>4
    <3>3. Probe(t, put, k) = c[k]
      BY <1>3
    <3>. QED
      BY <1>15, <3>1, <3>2, <3>3, Zenon
  <2>. QED
    BY <2>1, <2>2
\* What holds of the cells found by the first n probes.
<1>. DEFINE Good(n, s) ==
       /\ s \in Seq(Loc)
       /\ \A i \in 1 .. Len(s) : \E k \in free_at : k <= n /\ s[i] = c[k]
       /\ \A i, j \in 1 .. Len(s) : s[i] = s[j] => i = j
<1>17. PICK P : P = {w \in (0 .. K) \X Seq(Loc) : Good(w[1], w[2])}
  OBVIOUS
<1>18. PICK d : d = [n \in 0 .. K |-> <<n, e[n]>>]
  OBVIOUS
<1>19. \A n \in 0 .. K : d[n] \in P <=> Good(n, e[n])
  <2>. SUFFICES ASSUME NEW n \in 0 .. K PROVE d[n] \in P <=> Good(n, e[n])
    OBVIOUS
  <2>1. d[n] = <<n, e[n]>>
    BY <1>18
  <2>2. d[n][1] = n /\ d[n][2] = e[n]
    BY <2>1
  <2>3. d[n] \in P <=> d[n] \in (0 .. K) \X Seq(Loc) /\ Good(d[n][1], d[n][2])
    BY <1>17
  <2>. HIDE DEF Good
  <2>4. Good(n, e[n]) => e[n] \in Seq(Loc)
    BY DEF Good
  <2>. QED
    BY <2>1, <2>2, <2>3, <2>4
<1>20. Good(0, e[0])
  <2>1. e[0] = <<>> /\ Len(<<>>) = 0 /\ <<>> \in Seq(Loc)
    BY <1>16
  <2>. QED
    BY <2>1
<1>21. ASSUME NEW n \in 1 .. K, Good(n - 1, e[n - 1]) PROVE Good(n, e[n])
  <2>1. PICK s : s = e[n - 1]
    OBVIOUS
  <2>2. s \in Seq(Loc) /\ Good(n - 1, s)
    BY <1>21, <2>1
  <2>3. CASE n \notin free_at
    <3>1. e[n] = s
      BY <1>16, <2>1, <2>3
    <3>2. free_at \subseteq Nat /\ n \in Nat
      BY <1>4
    <3>. QED
      BY <2>2, <3>1, <3>2
  <2>4. CASE n \in free_at
    <3>1. PICK q : q = Append(s, c[n])
      OBVIOUS
    <3>2. e[n] = q
      BY <1>16, <2>1, <2>4, <3>1
    <3>3. /\ q \in Seq(Loc) /\ Len(q) = Len(s) + 1 /\ Len(s) \in Nat
          /\ q[Len(s) + 1] = c[n] /\ \A i \in 1 .. Len(s) : q[i] = s[i]
      BY <1>3, <2>2, <3>1
    <3>4. \A i \in 1 .. Len(q) : i = Len(s) + 1 \/ i \in 1 .. Len(s)
      BY <3>3
    <3>5. free_at \subseteq 1 .. K
      BY <1>4
    <3>6. \A i \in 1 .. Len(q) : \E k \in free_at : k <= n /\ q[i] = c[k]
      BY <2>2, <2>4, <3>3, <3>4, <3>5
    <3>7. \A i \in 1 .. Len(s) : s[i] # c[n]
      BY <1>3, <2>2, <3>5
    <3>8. \A i, j \in 1 .. Len(q) : q[i] = q[j] => i = j
      BY <2>2, <3>3, <3>4, <3>7
    <3>. QED
      BY <3>2, <3>3, <3>6, <3>8
  <2>. QED
    BY <2>3, <2>4
<1>22. Good(K, e[K])
  <2>. HIDE DEF Good
  <2>1. d[0] \in P
    BY <1>19, <1>20
  <2>2. \A n \in 1 .. K : d[n - 1] \in P => d[n] \in P
    <3>1. \A n \in 1 .. K : n - 1 \in 0 .. K /\ n \in 0 .. K
      OBVIOUS
    <3>. QED
      BY <1>19, <1>21, <3>1
  <2>3. \A n \in 0 .. K : d[n] \in P
    BY <2>1, <2>2, Reaches
  <2>4. K \in 0 .. K
    OBVIOUS
  <2>. QED
    BY <1>19, <2>3, <2>4
<1>23. Search(t, put, buf, free) = e[K]
  BY <1>1, <1>13, SearchIs
<1>24. \A k \in free_at : c[k] \in Part(t) /\ c[k] # 0 /\ buf[c[k]] = free
  BY <1>3, <1>4
<1>. QED
  BY <1>22, <1>23, <1>24 DEF Found

\* n different free cells of the thread's.
Fresh(locs, n, t, buf, free) ==
  /\ locs \in Seq(Loc) /\ Len(locs) = n /\ DOMAIN locs = 1 .. n
  /\ \A i \in 1 .. n : locs[i] \in Part(t) /\ locs[i] \in Loc /\ locs[i] # 0 /\ buf[locs[i]] = free
  /\ \A i, j \in 1 .. n : locs[i] = locs[j] => i = j

LEMMA CycleFresh ==
  ASSUME NEW t \in Thread, NEW put \in Nat, NEW buf, NEW free, NEW n \in Nat,
         n <= Len(Search(t, put, buf, free))
  PROVE  Fresh(Cycle(Search(t, put, buf, free), n), n, t, buf, free)
<1>1. PICK s : s = Search(t, put, buf, free)
  OBVIOUS
<1>2. Found(s, t, buf, free) /\ n <= Len(s)
  BY <1>1, SearchFinds
<1>3. Len(s) \in Nat
  BY <1>2 DEF Found
<1>4. \A j \in 1 .. n : ((j - 1) % Len(s)) + 1 = j
  <2>. SUFFICES ASSUME NEW j \in 1 .. n PROVE ((j - 1) % Len(s)) + 1 = j
    OBVIOUS
  <2>1. PICK L \in Nat \ {0} : L = Len(s)
    BY <1>2, <1>3
  <2>2. PICK m \in 0 .. L - 1 : m = j - 1
    BY <1>2, <2>1
  <2>3. m = L * 0 + m
    BY <2>1, <2>2
  <2>4. m % L = m
    BY <2>3, DivisionUnique
  <2>. QED
    BY <2>1, <2>2, <2>4
<1>5. PICK q : q = Cycle(s, n)
  OBVIOUS
<1>6. q = [j \in 1 .. n |-> s[j]]
  BY <1>4, <1>5 DEF Cycle
<1>7. \A j \in 1 .. n : j \in 1 .. Len(s) /\ s[j] \in Loc
  BY <1>2, <1>3 DEF Found
<1>8. q \in Seq(Loc) /\ Len(q) = n /\ DOMAIN q = 1 .. n /\ \A j \in 1 .. n : q[j] = s[j]
  BY <1>6, <1>7
<1>. QED
  BY <1>1, <1>2, <1>5, <1>7, <1>8 DEF Fresh, Found

LEMMA PutTyped ==
  ASSUME NEW t \in Thread, NEW put \in Nat, NEW locs, NEW n, NEW buf, NEW free,
         Fresh(locs, n, t, buf, free)
  PROVE  PutAfter(t, put, locs) \in Nat
<1>1. CASE locs = <<>>
  BY <1>1 DEF PutAfter
<1>2. CASE locs # <<>>
  <2>1. n \in Nat \ {0} /\ Len(locs) = n
    BY <1>2 DEF Fresh
  <2>2. Last(locs) = locs[n]
    BY <2>1 DEF Last
  <2>3. Last(locs) \in Part(t) /\ t * PLEN \in Nat
    BY <2>1, <2>2, Sizes DEF Fresh
  <2>4. Last(locs) - t * PLEN + 1 \in Nat
    BY <2>3 DEF Part
  <2>5. (Last(locs) - t * PLEN + 1) % PLEN \in Nat
    <3>1. PICK m \in Nat : m = Last(locs) - t * PLEN + 1
      BY <2>4
    <3>2. PLEN \in Nat \ {0}
      BY Sizes
    <3>3. m % PLEN \in 0 .. PLEN - 1
      BY <3>2, Division
    <3>. QED
      BY <3>1, <3>3
  <2>. QED
    BY <1>2, <2>5 DEF PutAfter
<1>. QED
  BY <1>1, <1>2

\* node_alloc and vars_alloc: when the search of a thread finds as many cells as it
\* asks for, what it gets are different free cells of its own partition, not cell 0.
THEOREM Allocates ==
  ASSUME BufTypes, NEW t \in Thread, NEW n \in Nat, NEW v \in Nat, get_resources(t, n, v),
         t \in Bounded \/ Finds(t, n, v)
  PROVE  /\ Fresh(node_alloc(t, n), n, t, node_buf, FREE_NODE)
         /\ Fresh(vars_alloc(t, v), v, t, vars_buf, FREE)
         /\ nput' \in [Thread -> Nat] /\ vput' \in [Thread -> Nat]
<1>1. nput[t] \in Nat /\ vput[t] \in Nat
  BY DEF BufTypes
<1>2. n <= Len(Search(t, nput[t], node_buf, FREE_NODE))
  <2>1. PICK s : s = Search(t, nput[t], node_buf, FREE_NODE)
    OBVIOUS
  <2>2. Len(s) \in Nat
    BY <1>1, <2>1, SearchFinds DEF Found
  <2>3. CASE t \in Bounded
    BY <2>1, <2>2, <2>3 DEF get_resources, Enough
  <2>4. CASE t \notin Bounded
    BY <2>1, <2>2, <2>4 DEF Finds
  <2>. QED
    BY <2>3, <2>4
<1>3. v <= Len(Search(t, vput[t], vars_buf, FREE))
  <2>1. PICK s : s = Search(t, vput[t], vars_buf, FREE)
    OBVIOUS
  <2>2. Len(s) \in Nat
    BY <1>1, <2>1, SearchFinds DEF Found
  <2>3. CASE t \in Bounded
    BY <2>1, <2>2, <2>3 DEF get_resources, Enough
  <2>4. CASE t \notin Bounded
    BY <2>1, <2>2, <2>4 DEF Finds
  <2>. QED
    BY <2>3, <2>4
<1>4. Fresh(node_alloc(t, n), n, t, node_buf, FREE_NODE)
  BY <1>1, <1>2, CycleFresh DEF node_alloc
<1>5. Fresh(vars_alloc(t, v), v, t, vars_buf, FREE)
  BY <1>1, <1>3, CycleFresh DEF vars_alloc
<1>6. /\ PutAfter(t, nput[t], node_alloc(t, n)) \in Nat
      /\ PutAfter(t, vput[t], vars_alloc(t, v)) \in Nat
  BY <1>1, <1>4, <1>5, PutTyped
<1>7. /\ nput' = [nput EXCEPT ![t] = PutAfter(t, nput[t], node_alloc(t, n))]
      /\ vput' = [vput EXCEPT ![t] = PutAfter(t, vput[t], vars_alloc(t, v))]
  BY DEF get_resources
<1>. QED
  BY <1>4, <1>5, <1>6, <1>7 DEF BufTypes

LEMMA FindsNone == ASSUME BufTypes, NEW t \in Thread PROVE Finds(t, 0, 0)
<1>1. nput[t] \in Nat /\ vput[t] \in Nat
  BY DEF BufTypes
<1>2. PICK x, y : /\ x = Search(t, nput[t], node_buf, FREE_NODE)
                  /\ y = Search(t, vput[t], vars_buf, FREE)
  OBVIOUS
<1>3. Len(x) \in Nat /\ Len(y) \in Nat
  BY <1>1, <1>2, SearchFinds DEF Found
<1>. QED
  BY <1>2, <1>3 DEF Finds

\* The thread that takes a redex finds the cells it asks for.
LEMMA AskedFound ==
  ASSUME NEW t \in Thread, t \in Bounded \/ HasRoom(t), NEW rule, NEW r \in Redexes(t, rule), Take(t, r)
  PROVE  /\ rule = "CALL" /\ ~Copies(r) =>
              \A d : d = def(PairOf(r)[1]) => t \in Bounded \/ Finds(t, Len(d.node), d.vars)
         /\ rule = "COMM" => t \in Bounded \/ Finds(t, 4, 4)
         /\ rule = "SWIT" => t \in Bounded \/ Finds(t, 2, 0)
         /\ rule = "OPER" => t \in Bounded \/ Finds(t, 1, 0)
<1>1. r \in DOMAIN pool[BagOf[t]] /\ RuleOf(r) = rule /\ pc[t] = "idle"
  BY DEF Redexes, Take
<1>2. t \in Bounded \/ Finds(t, Asked(r)[1], Asked(r)[2])
  BY <1>1 DEF HasRoom
<1>3. /\ rule = "CALL" /\ ~Copies(r) =>
           Asked(r) = <<Len(def(PairOf(r)[1]).node), def(PairOf(r)[1]).vars>>
      /\ rule = "COMM" => Asked(r) = <<4, 4>>
      /\ rule = "SWIT" => Asked(r) = <<2, 0>>
      /\ rule = "OPER" => Asked(r) = <<1, 0>>
  BY <1>1 DEF Asked
<1>. QED
  BY <1>2, <1>3

-----------------------------------------------------------------------------
(* Rewriting.                                                              *)

\* Thread t takes the nodes in the cells taken, stores m nodes at the first of the
\* cells n and creates the l variables v.
RewritesCells(t, taken, n, v, l, stored, m) ==
  /\ taken \in SUBSET Loc /\ \A c \in taken : node_buf[c] # FREE_NODE
  /\ \E k \in Nat : m <= k /\ Fresh(n, k, t, node_buf, FREE_NODE)
  /\ l \in Nat /\ Fresh(v, l, t, vars_buf, FREE)
  /\ m \in Nat /\ DOMAIN stored = 1 .. m
  /\ Rewrite(t, taken, n, stored, v)

LEMMA RewriteCells ==
  ASSUME NEW t, NEW taken, NEW n, NEW v, NEW l, NEW stored, NEW m,
         RewritesCells(t, taken, n, v, l, stored, m)
  PROVE  /\ DOMAIN node_buf' = Loc /\ DOMAIN vars_buf' = Loc
         /\ \A j \in 1 .. m : node_buf'[n[j]] = stored[j] /\ n[j] \notin taken
         /\ \A c \in taken : node_buf'[c] = FREE_NODE
         /\ \A c \in Loc : c \notin taken /\ (\A j \in 1 .. m : n[j] # c) =>
              node_buf'[c] = node_buf[c]
         /\ \A j \in 1 .. l : vars_buf'[v[j]] = NONE
         /\ \A c \in Loc : (\A j \in 1 .. l : v[j] # c) => vars_buf'[c] = vars_buf[c]
<1>1. PICK k \in Nat : m <= k /\ Fresh(n, k, t, node_buf, FREE_NODE)
  BY DEF RewritesCells
<1>. DEFINE at(c) == {j \in DOMAIN stored : n[j] = c}
<1>. USE DEF RewritesCells
<1>2. /\ DOMAIN node_buf' = Loc
      /\ \A c \in Loc : node_buf'[c] = IF at(c) # {} THEN stored[Max(at(c))]
                                       ELSE IF c \in taken THEN FREE_NODE ELSE node_buf[c]
  BY DEF Rewrite
<1>3. \A c : at(c) = {j \in 1 .. m : n[j] = c}
  OBVIOUS
<1>. HIDE DEF at
<1>4. \A j \in 1 .. m : j \in 1 .. k
  BY <1>1
<1>5. \A j \in 1 .. m : n[j] \in Loc /\ n[j] \notin taken /\ at(n[j]) = {j}
  BY <1>1, <1>3, <1>4 DEF Fresh
<1>6. \A j \in 1 .. m : Max({j}) = j
  BY DEF Max
<1>7. \A j \in 1 .. m : node_buf'[n[j]] = stored[j]
  BY <1>2, <1>5, <1>6
<1>8. \A c \in taken : node_buf'[c] = FREE_NODE
  BY <1>2, <1>3, <1>5
<1>9. \A c \in Loc : c \notin taken /\ (\A j \in 1 .. m : n[j] # c) => node_buf'[c] = node_buf[c]
  BY <1>2, <1>3
<1>10. /\ DOMAIN vars_buf' = Loc
      /\ \A c \in Loc : vars_buf'[c] = IF c \in Range(v) THEN NONE ELSE vars_buf[c]
  BY DEF Rewrite
<1>11. \A c : c \in Range(v) <=> \E j \in 1 .. l : v[j] = c
  BY DEF Range, Fresh
<1>12. \A j \in 1 .. l : v[j] \in Loc
  BY DEF Fresh
<1>. QED
  BY <1>2, <1>5, <1>7, <1>8, <1>9, <1>10, <1>11, <1>12

-----------------------------------------------------------------------------
(* The rules.                                                              *)

LEMMA RuleOfTags ==
  ASSUME NEW a, NEW b, tag(a) \in Nodes \cup Nullary, tag(b) \in Nodes \cup Nullary
  PROVE  /\ Rule(a, b) = "VOID" => tag(a) \in Nullary /\ tag(b) \in Nullary
         /\ Rule(a, b) \in {"ANNI", "COMM"} => tag(a) \in Nodes /\ tag(b) \in Nodes
         /\ Rule(a, b) = "CALL" => \/ tag(a) = "REF" /\ tag(b) \in Nodes
                                   \/ tag(b) = "REF" /\ tag(a) \in Nodes
         /\ Rule(a, b) \in {"OPER", "SWIT"} => \/ tag(a) = "NUM" /\ tag(b) \in Nodes
                                               \/ tag(b) = "NUM" /\ tag(a) \in Nodes
         /\ Rule(a, b) = "ERAS" => \/ tag(a) \in Nullary /\ tag(b) \in Nodes
                                   \/ tag(b) \in Nullary /\ tag(a) \in Nodes
         /\ Rule(a, b) # "LINK"
<1>1. CASE tag(a) \in Nullary /\ tag(b) \in Nullary
  <2>1. Rule(a, b) = "VOID"
    BY <1>1 DEF Rule, Nodes, Nullary
  <2>. QED
    BY <1>1, <2>1
<1>2. CASE tag(a) \in Nodes /\ tag(b) \in Nodes
  <2>1. Rule(a, b) \in {"ANNI", "COMM"}
    BY <1>2 DEF Rule, Nodes, Nullary
  <2>. QED
    BY <1>2, <2>1
<1>3. CASE tag(a) \in Nullary /\ tag(b) \in Nodes
  <2>1. /\ tag(a) = "REF" => Rule(a, b) = "CALL"
        /\ tag(a) = "NUM" => Rule(a, b) \in {"OPER", "SWIT", "ERAS"}
        /\ tag(a) = "ERA" => Rule(a, b) = "ERAS"
    BY <1>3 DEF Rule, Nodes, Nullary
  <2>2. tag(a) \in {"REF", "NUM", "ERA"}
    BY <1>3 DEF Nullary
  <2>. QED
    BY <1>3, <2>1, <2>2
<1>4. CASE tag(a) \in Nodes /\ tag(b) \in Nullary
  <2>1. /\ tag(b) = "REF" => Rule(a, b) = "CALL"
        /\ tag(b) = "NUM" => Rule(a, b) \in {"OPER", "SWIT", "ERAS"}
        /\ tag(b) = "ERA" => Rule(a, b) = "ERAS"
    BY <1>4 DEF Rule, Nodes, Nullary
  <2>2. tag(b) \in {"REF", "NUM", "ERA"}
    BY <1>4 DEF Nullary
  <2>. QED
    BY <1>4, <2>1, <2>2
<1>. QED
  BY <1>1, <1>2, <1>3, <1>4

\* The ports that a rule rewrites, a and b, at the places x and y of the redex.
Meets(r, a, b, x, y) ==
  /\ x \in {1, 2} /\ y \in {1, 2} /\ x # y /\ a = r[x] /\ b = r[y]
  /\ PairOf(r)[1] = a /\ PairOf(r)[2] = b /\ IsPort(a) /\ IsPort(b)

LEMMA RedexMeets ==
  ASSUME NEW r, IsPair(r)
  PROVE  \E a, b, x, y :
           /\ Meets(r, a, b, x, y)
           /\ RuleOf(r) = "VOID" => tag(a) \in Nullary /\ tag(b) \in Nullary
           /\ RuleOf(r) \in {"ANNI", "COMM"} => is_nod(a) /\ is_nod(b)
           /\ RuleOf(r) = "CALL" => tag(a) = "REF" /\ (is_nod(b) \/ b = ROOT)
           /\ RuleOf(r) \in {"OPER", "SWIT"} => tag(a) = "NUM" /\ is_nod(b)
           /\ RuleOf(r) = "ERAS" => tag(a) \in Nullary /\ is_nod(b)
<1>. DEFINE Boots == r[2] = ROOT /\ tag(r[1]) = "REF"
<1>1. CASE Boots
  <2>1. RuleOf(r) = "CALL" /\ PairOf(r) = r
    BY <1>1 DEF RuleOf, PairOf
  <2>2. Meets(r, r[1], r[2], 1, 2)
    BY <2>1 DEF Meets, IsPair
  <2>. QED
    BY <1>1, <2>1, <2>2
<1>2. CASE ~Boots /\ (is_var(r[1]) \/ is_var(r[2]))
  <2>1. PICK p, q : r = <<p, q>> /\ IsPort(p) /\ IsPort(q) /\ r[1] = p /\ r[2] = q
    BY DEF IsPair
  <2>2. Rule(p, q) = "LINK"
    BY <1>2, <2>1 DEF Rule, is_var, Nodes, Nullary
  <2>3. RuleOf(r) = "LINK"
    BY <1>2, <2>1, <2>2 DEF RuleOf
  <2>4. PairOf(r) \in {<<p, q>>, <<q, p>>}
    BY <2>1 DEF PairOf, Oriented
  <2>5. Meets(r, p, q, 1, 2) \/ Meets(r, q, p, 2, 1)
    BY <2>1, <2>4 DEF Meets
  <2>. QED
    BY <2>3, <2>5
<1>3. CASE ~is_var(r[1]) /\ ~is_var(r[2])
  <2>1. PICK p, q : r = <<p, q>> /\ IsPort(p) /\ IsPort(q) /\ ~is_var(p) /\ ~is_var(q)
    BY <1>3 DEF IsPair
  <2>2. r[1] = p /\ r[2] = q
    BY <2>1
  <2>3. tag(p) \in Nodes \cup Nullary /\ tag(q) \in Nodes \cup Nullary
    BY <2>1 DEF IsPort, is_var
  <2>4. q # ROOT
    BY <2>1 DEF ROOT, VarP, is_var, tag
  <2>5. RuleOf(r) = Rule(p, q)
    BY <2>2, <2>4 DEF RuleOf
  <2>6. PairOf(r) = IF Rank[tag(q)] < Rank[tag(p)] THEN <<q, p>> ELSE <<p, q>>
    BY <2>1, <2>2, <2>4 DEF PairOf, Oriented
  <2>7. /\ \A x \in Nullary : Rank[x] \in {1, 2, 3}
        /\ \A x \in Nodes : Rank[x] \in {4, 5, 6, 7}
    BY DEF Rank, Nullary, Nodes
  <2>8. Nullary \cap Nodes = {} /\ "REF" \in Nullary /\ "NUM" \in Nullary
    BY DEF Nullary, Nodes
  <2>9. CASE Rank[tag(q)] < Rank[tag(p)]
    <3>1. Meets(r, q, p, 2, 1)
      BY <2>1, <2>2, <2>6, <2>9 DEF Meets
    <3>2. ~(tag(p) \in Nullary /\ tag(q) \in Nodes)
      BY <2>7, <2>9
    <3>. QED
      BY <2>3, <2>5, <2>8, <3>1, <3>2, RuleOfTags DEF is_nod
  <2>10. CASE ~(Rank[tag(q)] < Rank[tag(p)])
    <3>1. Meets(r, p, q, 1, 2)
      BY <2>1, <2>2, <2>6, <2>10 DEF Meets
    <3>2. ~(tag(q) \in Nullary /\ tag(p) \in Nodes)
      BY <2>7, <2>10
    <3>. QED
      BY <2>3, <2>5, <2>8, <3>1, <3>2, RuleOfTags DEF is_nod
  <2>. QED
    BY <2>9, <2>10
<1>. QED
  BY <1>1, <1>2, <1>3

-----------------------------------------------------------------------------
(* Keeping the balance.                                                    *)

LEMMA Keys ==
  ASSUME NEW p
  PROVE  /\ \A c : Key(p) = <<"VAR", c>> <=> is_var(p) /\ c = val(p)
         /\ \A c : Key(p) = <<"NODE", c>> <=> is_nod(p) /\ c = val(p)
BY DEF Key, NONE, is_var, is_nod, tag, Nodes

\* What a port that is held names is there.
LEMMA HeldPort ==
  ASSUME NEW Rest, Balanced(Rest), BufTypes, NEW h \in All(Rest), IsPort(h[2])
  PROVE  /\ is_var(h[2]) => val(h[2]) \in Loc \ {0} /\ vars_buf[val(h[2])] # FREE
         /\ is_nod(h[2]) => val(h[2]) \in Loc /\ node_buf[val(h[2])] # FREE_NODE
         /\ h[2] # FREE
<1>1. ASSUME is_var(h[2]) PROVE val(h[2]) \in Loc \ {0} /\ vars_buf[val(h[2])] # FREE
  <2>1. PICK c \in Loc : c = val(h[2])
    BY <1>1 DEF IsPort
  <2>2. h \in Keyed(All(Rest), <<"VAR", c>>)
    BY <1>1, <2>1, Keys DEF Keyed
  <2>3. Counted(Keyed(All(Rest), <<"VAR", c>>), OwedVar(c))
    BY DEF Balanced
  <2>4. OwedVar(c) # 0
    BY <2>2, <2>3, CountedEmpty
  <2>5. vars_buf[c] # FREE
    BY <2>4 DEF OwedVar
  <2>. QED
    BY <2>1, <2>5 DEF BufTypes
<1>2. ASSUME is_nod(h[2]) PROVE val(h[2]) \in Loc /\ node_buf[val(h[2])] # FREE_NODE
  <2>1. PICK c \in Loc : c = val(h[2])
    BY <1>2 DEF IsPort
  <2>2. h \in Keyed(All(Rest), <<"NODE", c>>)
    BY <1>2, <2>1, Keys DEF Keyed
  <2>3. Counted(Keyed(All(Rest), <<"NODE", c>>), OwedNode(c))
    BY DEF Balanced
  <2>4. OwedNode(c) # 0
    BY <2>2, <2>3, CountedEmpty
  <2>. QED
    BY <2>1, <2>4 DEF OwedNode
<1>3. h[2] # FREE
  <2>1. is_var(FREE) /\ val(FREE) = 0
    BY DEF FREE, VarP, is_var, tag, val
  <2>. QED
    BY <1>1, <2>1
<1>. QED
  BY <1>1, <1>2, <1>3

\* Only one item names a node.
LEMMA HeldOnce ==
  ASSUME NEW Rest, Balanced(Rest), NEW h \in All(Rest), NEW g \in All(Rest), IsPort(h[2]),
         is_nod(h[2]), is_nod(g[2]), val(h[2]) = val(g[2])
  PROVE  h = g
<1>1. PICK c \in Loc : c = val(h[2])
  BY DEF IsPort
<1>2. h \in Keyed(All(Rest), <<"NODE", c>>) /\ g \in Keyed(All(Rest), <<"NODE", c>>)
  BY <1>1, Keys DEF Keyed
<1>3. Counted(Keyed(All(Rest), <<"NODE", c>>), OwedNode(c)) /\ OwedNode(c) \in {0, 1, 2}
  BY DEF Balanced, OwedNode
<1>. QED
  BY <1>2, <1>3, CountedTwo DEF OwedNode

\* A step keeps the balance if, of each variable and of each node, it loses and
\* makes as many items as its cell tells.
TalliedVars(Old, S, at, I, src) ==
  \A c \in Loc : \E a, b : /\ Counted(Lost(Old, I, src, <<"VAR", c>>), a)
                           /\ Counted(Made(S, at, I, <<"VAR", c>>), b)
                           /\ OwedVar(c)' = OwedVar(c) - a + b
TalliedNodes(Old, S, at, I, src) ==
  \A c \in Loc : \E a, b : /\ Counted(Lost(Old, I, src, <<"NODE", c>>), a)
                           /\ Counted(Made(S, at, I, <<"NODE", c>>), b)
                           /\ OwedNode(c)' = OwedNode(c) - a + b

LEMMA Rebalanced ==
  ASSUME NEW Rest, NEW Then, Balanced(Rest), NEW Old, NEW S, NEW at, NEW I, NEW src,
         Rearranged(All(Rest), All(Then)', Old, S, at, I, src),
         TalliedVars(Old, S, at, I, src), TalliedNodes(Old, S, at, I, src)
  PROVE  Balanced(Then)'
<1>1. ASSUME NEW c \in Loc PROVE Counted(Keyed(All(Then)', <<"VAR", c>>), OwedVar(c)')
  <2>1. PICK a, b : /\ Counted(Lost(Old, I, src, <<"VAR", c>>), a)
                    /\ Counted(Made(S, at, I, <<"VAR", c>>), b)
                    /\ OwedVar(c)' = OwedVar(c) - a + b
    BY DEF TalliedVars
  <2>2. PICK m, x : m = OwedVar(c) /\ x = <<"VAR", c>>
    OBVIOUS
  <2>3. Counted(Keyed(All(Rest), x), m)
    BY <2>2 DEF Balanced
  <2>4. Counted(Lost(Old, I, src, x), a) /\ Counted(Made(S, at, I, x), b)
    BY <2>1, <2>2
  <2>5. Counted(Keyed(All(Then)', x), m - a + b)
    BY <2>3, <2>4, Recounted
  <2>. QED
    BY <2>1, <2>2, <2>5
<1>2. ASSUME NEW c \in Loc PROVE Counted(Keyed(All(Then)', <<"NODE", c>>), OwedNode(c)')
  <2>1. PICK a, b : /\ Counted(Lost(Old, I, src, <<"NODE", c>>), a)
                    /\ Counted(Made(S, at, I, <<"NODE", c>>), b)
                    /\ OwedNode(c)' = OwedNode(c) - a + b
    BY DEF TalliedNodes
  <2>2. PICK m, x : m = OwedNode(c) /\ x = <<"NODE", c>>
    OBVIOUS
  <2>3. Counted(Keyed(All(Rest), x), m)
    BY <2>2 DEF Balanced
  <2>4. Counted(Lost(Old, I, src, x), a) /\ Counted(Made(S, at, I, x), b)
    BY <2>1, <2>2
  <2>5. Counted(Keyed(All(Then)', x), m - a + b)
    BY <2>3, <2>4, Recounted
  <2>. QED
    BY <2>1, <2>2, <2>5
<1>. QED
  BY <1>1, <1>2 DEF Balanced

\* A step that only moves ports, and loses some that name nothing.
LEMMA MovedAll ==
  ASSUME NEW Rest, NEW Then, Balanced(Rest), NEW Old, NEW S, NEW at, NEW src,
         Rearranged(All(Rest), All(Then)', Old, S, at, S, src),
         \A h \in Old : (\E s \in S : src[s] = h) \/ Key(h[2]) = NONE,
         \A c \in Loc : OwedVar(c)' = OwedVar(c) /\ OwedNode(c)' = OwedNode(c)
  PROVE  Balanced(Then)'
<1>1. \A x : Made(S, at, S, x) = {}
  BY DEF Made
<1>2. \A c : Lost(Old, S, src, <<"VAR", c>>) = {} /\ Lost(Old, S, src, <<"NODE", c>>) = {}
  BY DEF Lost, NONE
<1>3. \A c \in Loc : OwedVar(c) \in Nat /\ OwedNode(c) \in Nat
  BY DEF OwedVar, OwedNode
<1>4. \A c \in Loc : OwedVar(c)' = OwedVar(c) - 0 + 0 /\ OwedNode(c)' = OwedNode(c) - 0 + 0
  BY <1>3
<1>5. \A c \in Loc : /\ Counted(Lost(Old, S, src, <<"VAR", c>>), 0)
                     /\ Counted(Made(S, at, S, <<"VAR", c>>), 0)
                     /\ Counted(Lost(Old, S, src, <<"NODE", c>>), 0)
                     /\ Counted(Made(S, at, S, <<"NODE", c>>), 0)
  BY <1>1, <1>2, CountedSmall
<1>6. TalliedVars(Old, S, at, S, src)
  BY <1>4, <1>5 DEF TalliedVars
<1>7. TalliedNodes(Old, S, at, S, src)
  BY <1>4, <1>5 DEF TalliedNodes
<1>. QED
  BY <1>6, <1>7, Rebalanced

\* A step that moves ports, and loses the item h0, of variable x.
LEMMA MovedButOne ==
  ASSUME NEW Rest, NEW Then, Balanced(Rest), NEW Old, NEW S, NEW at, NEW src,
         Rearranged(All(Rest), All(Then)', Old, S, at, S, src),
         NEW h0 \in Old, NEW x \in Loc, Key(h0[2]) = <<"VAR", x>>,
         \A s \in S : src[s] # h0,
         \A h \in Old : (\E s \in S : src[s] = h) \/ h = h0,
         OwedVar(x)' = OwedVar(x) - 1,
         \A c \in Loc \ {x} : OwedVar(c)' = OwedVar(c),
         \A c \in Loc : OwedNode(c)' = OwedNode(c)
  PROVE  Balanced(Then)'
<1>1. \A y : Made(S, at, S, y) = {}
  BY DEF Made
<1>2. \A c \in Loc : Lost(Old, S, src, <<"VAR", c>>) = IF c = x THEN {h0} ELSE {}
  BY DEF Lost
<1>3. \A c \in Loc : Lost(Old, S, src, <<"NODE", c>>) = {}
  BY DEF Lost
<1>4. \A c \in Loc : OwedVar(c) \in Nat /\ OwedNode(c) \in Nat
  BY DEF OwedVar, OwedNode
<1>5. \A c \in Loc : OwedNode(c)' = OwedNode(c) - 0 + 0
  BY <1>4
<1>6. \A c \in Loc : \E a, b : /\ Counted(Lost(Old, S, src, <<"VAR", c>>), a)
                               /\ Counted(Made(S, at, S, <<"VAR", c>>), b)
                               /\ OwedVar(c)' = OwedVar(c) - a + b
  <2>. SUFFICES ASSUME NEW c \in Loc
                PROVE  \E a, b : /\ Counted(Lost(Old, S, src, <<"VAR", c>>), a)
                                 /\ Counted(Made(S, at, S, <<"VAR", c>>), b)
                                 /\ OwedVar(c)' = OwedVar(c) - a + b
    OBVIOUS
  <2>1. Counted(Made(S, at, S, <<"VAR", c>>), 0)
    BY <1>1, CountedSmall
  <2>2. CASE c = x
    <3>1. Counted(Lost(Old, S, src, <<"VAR", c>>), 1)
      BY <1>2, <2>2, CountedSmall
    <3>2. OwedVar(c)' = OwedVar(c) - 1 + 0
      BY <1>4, <2>2
    <3>. QED
      BY <2>1, <3>1, <3>2
  <2>3. CASE c # x
    <3>1. Counted(Lost(Old, S, src, <<"VAR", c>>), 0)
      BY <1>2, <2>3, CountedSmall
    <3>2. OwedVar(c)' = OwedVar(c) - 0 + 0
      BY <1>4, <2>3
    <3>. QED
      BY <2>1, <3>1, <3>2
  <2>. QED
    BY <2>2, <2>3
<1>7. \A c \in Loc : /\ Counted(Lost(Old, S, src, <<"NODE", c>>), 0)
                     /\ Counted(Made(S, at, S, <<"NODE", c>>), 0)
  BY <1>1, <1>3, CountedSmall
<1>8. TalliedVars(Old, S, at, S, src)
  BY <1>6 DEF TalliedVars
<1>9. TalliedNodes(Old, S, at, S, src)
  BY <1>5, <1>7 DEF TalliedNodes
<1>. QED
  BY <1>8, <1>9, Rebalanced

\* A step of thread t leaves the others what they had.
LEMMA ThreadsKept ==
  ASSUME ThreadTypes, program' = program, NEW t \in Thread,
         DOMAIN pc' = Thread, DOMAIN todo' = Thread, DOMAIN oper' = Thread,
         \A u \in Thread \ {t} : pc'[u] = pc[u] /\ todo'[u] = todo[u] /\ oper'[u] = oper[u],
         \A u \in Thread \ {t} : pc[u] \in {"oper", "operate"} =>
           \A c \in Part(u) : node_buf[c] = FREE_NODE => node_buf'[c] = FREE_NODE,
         ThreadInv(t)'
  PROVE  ThreadTypes'
<1>1. ASSUME NEW u \in Thread \ {t} PROVE ThreadInv(u)'
  <2>1. ThreadInv(u)
    BY DEF ThreadTypes
  <2>2. \A p : IsPort(p)' <=> IsPort(p)
    BY PortsKept
  <2>3. \A s : IsList(s)' <=> IsList(s)
    BY PortsKept
  <2>4. pc'[u] = pc[u] /\ todo'[u] = todo[u] /\ oper'[u] = oper[u]
    OBVIOUS
  <2>5. Linking(u)' = Linking(u)
    BY <2>4 DEF Linking
  <2>6. pc[u] \in {"oper", "operate"} /\ IsOper(u, oper[u]) => IsOper(u, oper[u])'
    <3>1. PICK o : o = oper[u] /\ o = oper'[u]
      BY <2>4
    <3>2. pc[u] \in {"oper", "operate"} /\ IsOper(u, o) => IsOper(u, o)'
      BY <2>2 DEF IsOper
    <3>. QED
      BY <3>1, <3>2
  <2>7. IsList(todo[u])' <=> IsList(todo[u])
    <3>1. PICK s : s = todo[u] /\ s = todo'[u]
      BY <2>4
    <3>. QED
      BY <2>3, <3>1
  <2>. QED
    BY <2>1, <2>4, <2>5, <2>6, <2>7 DEF ThreadInv
<1>2. \A u \in Thread : ThreadInv(u)'
  BY <1>1
<1>. QED
  BY <1>2 DEF ThreadTypes

\* The pair q that t links, its sides x and y in the order link looks at them.
LinkingAt(t, q, x, y) ==
  /\ x \in {1, 2} /\ y \in {1, 2} /\ x # y /\ IsPair(q)
  /\ Linking(t) = <<q[x], q[y]>> /\ IsPort(q[x]) /\ IsPort(q[y])
  /\ (is_var(q[y]) \/ ~is_var(q[x])) => x = 1 /\ y = 2
  /\ q = <<q[1], q[2]>>

LEMMA LinkingPair ==
  ASSUME NEW t, IsList(todo[t]), todo[t] # <<>>, NEW q, q = todo[t][1]
  PROVE  \E x, y : LinkingAt(t, q, x, y)
<1>. SUFFICES \E x, y :
           /\ x \in {1, 2} /\ y \in {1, 2} /\ x # y /\ IsPair(q)
           /\ Linking(t) = <<q[x], q[y]>> /\ IsPort(q[x]) /\ IsPort(q[y])
           /\ (is_var(q[y]) \/ ~is_var(q[x])) => x = 1 /\ y = 2
           /\ q = <<q[1], q[2]>>
  BY DEF LinkingAt
<1>1. IsPair(q)
  <2>1. PICK s : s = todo[t]
    OBVIOUS
  <2>2. IsPair(s[1])
    <3>1. PICK S : s \in Seq(S)
      BY <2>1 DEF IsList
    <3>2. 1 \in DOMAIN s
      BY <2>1, <3>1
    <3>. QED
      BY <2>1, <3>2 DEF IsList
  <2>. QED
    BY <2>1, <2>2
<1>2. Head(todo[t]) = q
  BY DEF IsList
<1>3. q = <<q[1], q[2]>> /\ IsPort(q[1]) /\ IsPort(q[2])
  BY <1>1 DEF IsPair
<1>4. CASE ~is_var(q[1]) /\ is_var(q[2])
  <2>1. Linking(t) = <<q[2], q[1]>>
    BY <1>2, <1>4 DEF Linking
  <2>2. ~is_var(q[1]) /\ is_var(q[2])
    BY <1>4
  <2>3. /\ 2 \in {1, 2} /\ 1 \in {1, 2} /\ 2 # 1
        /\ (is_var(q[1]) \/ ~is_var(q[2])) => 2 = 1 /\ 1 = 2
    BY <2>2
  <2>. QED
    BY <1>1, <1>3, <2>1, <2>3
<1>5. CASE ~(~is_var(q[1]) /\ is_var(q[2]))
  <2>1. Linking(t) = <<q[1], q[2]>>
    BY <1>2, <1>5 DEF Linking
  <2>. QED
    BY <1>1, <1>3, <2>1
<1>. QED
  BY <1>4, <1>5

-----------------------------------------------------------------------------
(* Linking keeps the invariant.                                            *)

LEMMA LinksTyped ==
  ASSUME ThreadTypes, program' = program, NEW t \in Thread, NEW pairs, IsList(pairs),
         Links(t, pairs), oper'[t] = <<>>
  PROVE  /\ DOMAIN pc' = Thread /\ DOMAIN todo' = Thread
         /\ \A u \in Thread \ {t} : pc'[u] = pc[u] /\ todo'[u] = todo[u]
         /\ ThreadInv(t)'
<1>1. /\ DOMAIN pc' = Thread /\ DOMAIN todo' = Thread
      /\ \A u \in Thread \ {t} : pc'[u] = pc[u] /\ todo'[u] = todo[u]
      /\ todo'[t] = pairs /\ pc'[t] = IF pairs = <<>> THEN "idle" ELSE "link"
  BY DEF Links, ThreadTypes
<1>2. IsList(todo[t])'
  <2>1. PICK s : s = pairs
    OBVIOUS
  <2>2. IsList(s)'
    BY <2>1, PortsKept
  <2>. QED
    BY <1>1, <2>1, <2>2
<1>3. ThreadInv(t)'
  BY <1>1, <1>2 DEF ThreadInv
<1>. QED
  BY <1>1, <1>3

LEMMA GoOnTyped ==
  ASSUME ThreadTypes, program' = program, NEW t \in Thread, todo[t] # <<>>, NEW r, IsPair(r),
         NEW label \in {"link", "point"}, label = "point" => is_var(r[1]), GoOn(t, r, label),
         oper' = oper, pc[t] \notin {"oper", "operate"}
  PROVE  /\ DOMAIN pc' = Thread /\ DOMAIN todo' = Thread
         /\ \A u \in Thread \ {t} : pc'[u] = pc[u] /\ todo'[u] = todo[u]
         /\ todo' = [todo EXCEPT ![t] = [todo[t] EXCEPT ![1] = r]]
         /\ ThreadInv(t)'
<1>1. PICK q : q = todo[t]
  OBVIOUS
<1>2. ThreadInv(t) /\ IsList(q) /\ q # <<>>
  BY <1>1 DEF ThreadTypes, ThreadInv
<1>3. PICK e : e = [q EXCEPT ![1] = r]
  OBVIOUS
<1>4. IsList(e) /\ e # <<>> /\ DOMAIN e = 1 .. Len(q) /\ Len(q) \in Nat \ {0} /\ DOMAIN q = 1 .. Len(q)
  BY <1>2, <1>3, ListHead
<1>5. /\ DOMAIN pc' = Thread /\ DOMAIN todo' = Thread
      /\ \A u \in Thread \ {t} : pc'[u] = pc[u] /\ todo'[u] = todo[u]
      /\ todo'[t] = e /\ pc'[t] = label /\ oper'[t] = <<>>
      /\ todo' = [todo EXCEPT ![t] = e]
  BY <1>1, <1>2, <1>3 DEF GoOn, ThreadTypes, ThreadInv
<1>6. IsList(todo[t])'
  <2>1. IsList(e)'
    BY <1>4, PortsKept
  <2>. QED
    BY <1>5, <2>1
<1>7. label = "point" => is_var(Linking(t)[1])'
  <2>1. Head(e) = r
    BY <1>3, <1>4
  <2>2. (Linking(t))' = IF ~is_var(r[1]) /\ is_var(r[2]) THEN <<r[2], r[1]>> ELSE <<r[1], r[2]>>
    BY <1>5, <2>1 DEF Linking
  <2>. QED
    BY <2>2
<1>8. ThreadInv(t)'
  BY <1>4, <1>5, <1>6, <1>7 DEF ThreadInv
<1>. QED
  BY <1>1, <1>3, <1>5, <1>8

LEMMA PushRedexKeeps ==
  ASSUME NEW Rest, Elsewhere(Rest), NetInv(Rest), program' = program, NEW t \in Thread, PushRedex(t)
  PROVE  NetInv(Rest)'
<1>1. /\ BufTypes /\ PoolTypes /\ ThreadTypes /\ Balanced(Rest) /\ program \in DOMAIN Book
      /\ ThreadInv(t) /\ IsList(todo[t]) /\ todo[t] # <<>> /\ oper[t] = <<>>
  BY DEF NetInv, ThreadTypes, ThreadInv, PushRedex
<1>2. PICK s, q : s = todo[t] /\ q = s[1]
  OBVIOUS
<1>3. Linking(t) = q /\ IsPair(q) /\ q = <<q[1], q[2]>>
  <2>1. PICK x, y : /\ x \in {1, 2} /\ y \in {1, 2} /\ x # y /\ IsPair(q)
                    /\ Linking(t) = <<q[x], q[y]>> /\ IsPort(q[x]) /\ IsPort(q[y])
                    /\ (is_var(q[y]) \/ ~is_var(q[x])) => x = 1 /\ y = 2
                    /\ q = <<q[1], q[2]>>
    <3>1. q = todo[t][1] /\ IsList(todo[t]) /\ todo[t] # <<>>
      BY <1>1, <1>2
    <3>2. \E x, y : LinkingAt(t, q, x, y)
      BY <3>1, LinkingPair
    <3>. QED
      BY <3>2 DEF LinkingAt
  <2>2. ~is_var(q[x])
    BY <2>1 DEF PushRedex
  <2>. QED
    BY <2>1, <2>2
<1>4. PICK b, e, m : b = BagOf[t] /\ e = Tail(s) /\ m = Copy(b, q)
  OBVIOUS
<1>5. b \in Bags
  BY <1>4, InteractionsAssumption DEF Bags, Range
<1>6. /\ pool' = [pool EXCEPT ![b] = With(@, q)] /\ Links(t, e) /\ todo' = [todo EXCEPT ![t] = e]
      /\ node_buf' = node_buf /\ vars_buf' = vars_buf /\ oper' = oper
      /\ nput' = nput /\ vput' = vput
  BY <1>2, <1>3, <1>4 DEF PushRedex, Links
<1>7. /\ Changed(HeldInPool, HeldInPool', {}, {PoolItem(b, q, m, k) : k \in {1, 2}})
      /\ PoolTypes'
  BY <1>1, <1>3, <1>4, <1>5, <1>6, PoolPut
<1>8. PICK j : j = Len(s) - 1
  OBVIOUS
<1>9. Changed(HeldInTodo, HeldInTodo', PairItems(t, j, q), {})
  <2>1. Changed(ListItems(t, s), ListItems(t, e), PairItems(t, j, q), {})
    BY <1>1, <1>2, <1>3, <1>4, <1>8, ListTail
  <2>. QED
    BY <1>1, <1>2, <1>6, <2>1, TodoChanged DEF ThreadTypes
<1>10. PICK o, n : o = PairItems(t, j, q) /\ n = {PoolItem(b, q, m, k) : k \in {1, 2}}
  OBVIOUS
<1>11. Changed(All(Rest), All(Rest)', o, n)
  <2>1. /\ HeldInNodes' = HeldInNodes /\ HeldInVars' = HeldInVars /\ HeldInOper' = HeldInOper
    BY <1>6 DEF HeldInNodes, HeldInVars, HeldInOper
  <2>2. /\ Changed(HeldInNodes, HeldInNodes', {}, {}) /\ Changed(HeldInVars, HeldInVars', {}, {})
        /\ Changed(HeldInOper, HeldInOper', {}, {})
    BY <2>1, Unchanged
  <2>3. Changed(All(Rest), All(Rest)', {} \cup {} \cup {} \cup o \cup {}, {} \cup {} \cup n \cup {} \cup {})
    BY <1>7, <1>9, <1>10, <2>2, NetChanged
  <2>4. /\ {} \cup {} \cup {} \cup o \cup {} = o
        /\ {} \cup {} \cup n \cup {} \cup {} = n
    OBVIOUS
  <2>. QED
    BY <2>3, <2>4
<1>12. PICK at, src : /\ at = [k \in {1, 2} |-> PoolItem(b, q, m, k)]
                      /\ src = [k \in {1, 2} |-> TodoItem(t, j, k, q[k])]
  OBVIOUS
<1>13. Rearranged(All(Rest), All(Rest)', o, {1, 2}, at, {1, 2}, src)
  <2>1. n = {at[k] : k \in {1, 2}} /\ o = {src[k] : k \in {1, 2}}
    BY <1>10, <1>12 DEF PairItems
  <2>2. \A k \in {1, 2} : at[k][2] = q[k] /\ src[k][2] = q[k]
    BY <1>12 DEF PoolItem, TodoItem
  <2>3. at[1] # at[2] /\ src[1] # src[2]
    BY <1>12 DEF PoolItem, TodoItem
  <2>. QED
    BY <1>11, <2>1, <2>2, <2>3 DEF Changed, Rearranged
<1>14. \A h \in o : \E k \in {1, 2} : src[k] = h
  BY <1>10, <1>12 DEF PairItems
<1>15. \A c \in Loc : OwedVar(c)' = OwedVar(c) /\ OwedNode(c)' = OwedNode(c)
  BY <1>6 DEF OwedVar, OwedNode
<1>16. Balanced(Rest)'
  BY <1>1, <1>13, <1>14, <1>15, MovedAll
<1>17. ThreadTypes'
  <2>1. IsList(e)
    BY <1>1, <1>2, <1>3, <1>4, ListHead
  <2>2. /\ DOMAIN pc' = Thread /\ DOMAIN todo' = Thread
        /\ \A u \in Thread \ {t} : pc'[u] = pc[u] /\ todo'[u] = todo[u]
        /\ ThreadInv(t)'
    BY <1>1, <1>6, <2>1, LinksTyped
  <2>. QED
    BY <1>1, <1>6, <2>2, ThreadsKept DEF ThreadTypes
<1>18. BufTypes'
  BY <1>1, <1>6, PortsKept DEF BufTypes
<1>. QED
  BY <1>1, <1>7, <1>16, <1>17, <1>18 DEF NetInv

\* The pair being linked is held.
LEMMA HeadHeld ==
  ASSUME NEW Rest, NEW t \in Thread, IsList(todo[t]), todo[t] # <<>>, NEW s, s = todo[t]
  PROVE  /\ \A k \in {1, 2} : TodoItem(t, Len(s) - 1, k, s[1][k]) \in All(Rest)
         /\ Len(s) \in Nat \ {0}
<1>1. Len(s) \in Nat \ {0} /\ 1 \in DOMAIN s
  <2>1. PICK S : s \in Seq(S)
    BY DEF IsList
  <2>. QED
    BY <2>1
<1>2. \A k \in {1, 2} : TodoItem(t, Len(s) - 1, k, s[1][k]) \in ListItems(t, todo[t])
  BY <1>1 DEF ListItems
<1>. QED
  BY <1>1, <1>2, InTodo DEF All, Held

\* A substitution is taken.
LEMMA Substituted ==
  ASSUME NEW Rest, BufTypes, program' = program, NEW c \in Loc, NEW p, p = vars_buf[c],
         p \notin {FREE, NONE}, vars_buf' = [vars_buf EXCEPT ![c] = FREE],
         node_buf' = node_buf, nput' = nput, vput' = vput
  PROVE  /\ Changed(HeldInVars, HeldInVars', {VarItem(c, p)}, {})
         /\ Changed(HeldInNodes, HeldInNodes', {}, {})
         /\ OwedVar(c)' = OwedVar(c) - 1
         /\ \A x \in Loc \ {c} : OwedVar(x)' = OwedVar(x)
         /\ \A x \in Loc : OwedNode(x)' = OwedNode(x)
         /\ IsPort(p) /\ BufTypes' /\ VarItem(c, p) \in All(Rest)
<1>1. VarItems(c, vars_buf[c]) = {VarItem(c, p)} /\ VarItems(c, FREE) = {}
  BY DEF VarItems
<1>2. Changed(HeldInVars, HeldInVars', {VarItem(c, p)}, {})
  <2>1. Changed(HeldInVars, HeldInVars', VarItems(c, vars_buf[c]), VarItems(c, FREE))
    BY VarsChanged DEF BufTypes
  <2>. QED
    BY <1>1, <2>1
<1>3. HeldInNodes' = HeldInNodes
  BY DEF HeldInNodes
<1>4. /\ DOMAIN vars_buf' = Loc /\ vars_buf'[c] = FREE
      /\ \A x \in Loc \ {c} : vars_buf'[x] = vars_buf[x]
  BY DEF BufTypes
<1>5. /\ OwedVar(c)' = OwedVar(c) - 1
      /\ \A x \in Loc \ {c} : OwedVar(x)' = OwedVar(x)
      /\ \A x \in Loc : OwedNode(x)' = OwedNode(x)
  BY <1>4 DEF OwedVar, OwedNode
<1>6. IsPort(p)
  BY DEF BufTypes
<1>7. IsPort(FREE)
  BY Sizes DEF IsPort, FREE, VarP, is_var, is_nod, tag, val, Nodes
<1>8. BufTypes'
  <2>1. \A x \in Loc : vars_buf'[x] = NONE \/ IsPort(vars_buf'[x])
    BY <1>4, <1>7 DEF BufTypes
  <2>2. vars_buf'[0] = FREE
    BY <1>4, Sizes DEF BufTypes
  <2>3. \A x \in Loc : vars_buf'[x] = NONE \/ IsPort(vars_buf[x])'
    <3>. SUFFICES ASSUME NEW x \in Loc PROVE vars_buf'[x] = NONE \/ IsPort(vars_buf[x])'
      OBVIOUS
    <3>1. PICK r : r = vars_buf'[x]
      OBVIOUS
    <3>2. r = NONE \/ IsPort(r)'
      BY <2>1, <3>1, PortsKept
    <3>. QED
      BY <3>1, <3>2
  <2>4. \A x \in Loc : IsPair(node_buf[x])'
    BY PortsKept DEF BufTypes
  <2>. QED
    BY <1>4, <2>2, <2>3, <2>4 DEF BufTypes
<1>9. VarItem(c, p) \in All(Rest)
  BY <1>2 DEF Changed, All, Held
<1>. QED
  BY <1>2, <1>3, <1>5, <1>6, <1>8, <1>9, Unchanged

-----------------------------------------------------------------------------
(* What a thread writes: ports it could reach, and ports that name cells it  *)
(* has allocated.                                                            *)

InHand(t, p) ==
  \/ \E r \in DOMAIN pool[BagOf[t]], k \in {1, 2} : p = r[k]
  \/ \E i \in DOMAIN todo[t], k \in {1, 2} : p = todo[t][i][k]
  \/ oper[t] # <<>> /\ \E k \in {2, 3} : p = oper[t][k]

\* Those in its hands, those of the nodes of its bag, and the substitutions of
\* the variables in its hands.
Reached(t, p) ==
  \/ InHand(t, p)
  \/ \E r \in DOMAIN pool[BagOf[t]], k, j \in {1, 2} :
       is_nod(r[k]) /\ node_buf[val(r[k])] # FREE_NODE /\ p = node_buf[val(r[k])][j]
  \/ \E q : /\ InHand(t, q) /\ is_var(q)
            /\ vars_buf[val(q)] \notin {FREE, NONE} /\ p = vars_buf[val(q)]
May(t, p) == Reached(t, p) \/ (is_var(p) \/ is_nod(p) => val(p) \in Part(t))

PoolConfined(t) ==
  \A b \in Bags : \A r \in DOMAIN pool'[b] :
    r \in DOMAIN pool[b] \/ (b = BagOf[t] /\ \A k \in {1, 2} : May(t, r[k]))
PortsConfined(t) ==
  /\ \A c \in Loc : \/ node_buf'[c] \in {node_buf[c], FREE_NODE}
                    \/ c \in Part(t) /\ \A k \in {1, 2} : May(t, node_buf'[c][k])
  /\ PoolConfined(t)
  /\ \A u \in Thread \ {t} : todo'[u] = todo[u] /\ oper'[u] = oper[u]
  /\ \A i \in DOMAIN todo'[t], k \in {1, 2} : May(t, todo'[t][i][k])
  /\ oper'[t] # <<>> => \A k \in {2, 3} : May(t, oper'[t][k])

\* Point alone substitutes a variable.
Confined(t) ==
  PortsConfined(t) /\ \A c \in Loc : vars_buf'[c] \in {vars_buf[c], FREE, NONE}

LEMMA BagConfined ==
  ASSUME PoolTypes, NEW t \in Thread, NEW r,
         \/ pool' = pool
         \/ r \in DOMAIN pool[BagOf[t]] /\ pool' = [pool EXCEPT ![BagOf[t]] = Without(@, r)]
         \/ (\A k \in {1, 2} : May(t, r[k])) /\ pool' = [pool EXCEPT ![BagOf[t]] = With(@, r)]
  PROVE  PoolConfined(t)
<1>1. PICK b : b = BagOf[t] /\ b \in Bags
  BY InteractionsAssumption DEF Bags, Range
<1>2. DOMAIN pool = Bags /\ \A x \in DOMAIN pool[b] : pool[b][x] \in Nat \ {0}
  BY <1>1 DEF PoolTypes
<1>3. CASE pool' = pool
  BY <1>3 DEF PoolConfined
<1>4. CASE r \in DOMAIN pool[b] /\ pool' = [pool EXCEPT ![b] = Without(@, r)]
  <2>1. DOMAIN Without(pool[b], r) \subseteq DOMAIN pool[b]
    <3>1. PICK g : g = pool[b]
      OBVIOUS
    <3>2. r \in DOMAIN g /\ \A x \in DOMAIN g : g[x] \in Nat \ {0}
      BY <1>2, <1>4, <3>1
    <3>3. DOMAIN Without(g, r) = {x \in DOMAIN g : x # r \/ g[x] > 1}
      BY <3>2, BagWithout
    <3>. QED
      BY <3>1, <3>3
  <2>2. pool'[b] = Without(pool[b], r) /\ \A x \in Bags \ {b} : pool'[x] = pool[x]
    BY <1>1, <1>2, <1>4
  <2>. QED
    BY <2>1, <2>2 DEF PoolConfined
<1>5. CASE (\A k \in {1, 2} : May(t, r[k])) /\ pool' = [pool EXCEPT ![b] = With(@, r)]
  <2>1. DOMAIN With(pool[b], r) = DOMAIN pool[b] \cup {r}
    BY <1>2, BagWith
  <2>2. pool'[b] = With(pool[b], r) /\ \A x \in Bags \ {b} : pool'[x] = pool[x]
    BY <1>1, <1>2, <1>5
  <2>. QED
    BY <1>1, <1>5, <2>1, <2>2 DEF PoolConfined
<1>. QED
  BY <1>1, <1>3, <1>4, <1>5

-----------------------------------------------------------------------------
(* Links.                                                                    *)

\* A variable being followed is substituted, and what it was substituted with
\* replaces a port of the pair being linked: the one at y, held at x and y.
Follows(t, q, x, y, c, p, r, z, w) ==
  /\ pc[t] \in {"link", "point"} /\ q = todo[t][1] /\ x \in {1, 2} /\ y \in {1, 2} /\ x # y
  /\ IsPair(q) /\ is_var(q[y]) /\ c = val(q[y]) /\ p = vars_buf[c] /\ p # NONE
  /\ vars_buf' = [vars_buf EXCEPT ![c] = FREE] /\ UNCHANGED <<node_buf, pool, nput, vput, oper>>
  /\ r = <<r[1], r[2]>> /\ z \in {1, 2} /\ w \in {1, 2} /\ z # w /\ r[z] = p /\ r[w] = q[x]
  /\ GoOn(t, r, "link")

LEMMA FollowKeeps ==
  ASSUME NEW Rest, Elsewhere(Rest), NetInv(Rest), program' = program,
         NEW t \in Thread, NEW q, NEW x, NEW y, NEW c, NEW p,
         NEW r, NEW z, NEW w, Follows(t, q, x, y, c, p, r, z, w)
  PROVE  NetInv(Rest)'
<1>. USE DEF Follows
<1>1. /\ BufTypes /\ PoolTypes /\ ThreadTypes /\ Balanced(Rest) /\ program \in DOMAIN Book
      /\ ThreadInv(t) /\ IsList(todo[t]) /\ todo[t] # <<>> /\ oper[t] = <<>>
  BY DEF NetInv, ThreadTypes, ThreadInv
<1>2. PICK s, j : s = todo[t] /\ j = Len(s) - 1
  OBVIOUS
<1>3. \A k \in {1, 2} : TodoItem(t, j, k, q[k]) \in All(Rest) /\ IsPort(q[k])
  <2>1. \A k \in {1, 2} : TodoItem(t, Len(s) - 1, k, s[1][k]) \in All(Rest)
    BY <1>1, <1>2, HeadHeld
  <2>. QED
    BY <1>2, <2>1 DEF IsPair
<1>4. c \in Loc /\ p # FREE
  <2>1. PICK h : h = TodoItem(t, j, y, q[y])
    OBVIOUS
  <2>2. h \in All(Rest) /\ h[2] = q[y] /\ IsPort(h[2])
    BY <1>3, <2>1 DEF TodoItem
  <2>. QED
    BY <1>1, <2>2, HeldPort
<1>5. p \notin {FREE, NONE} /\ node_buf' = node_buf /\ nput' = nput /\ vput' = vput /\ oper' = oper
      /\ pool' = pool
  BY <1>4
<1>6. /\ Changed(HeldInVars, HeldInVars', {VarItem(c, p)}, {})
      /\ Changed(HeldInNodes, HeldInNodes', {}, {})
      /\ OwedVar(c)' = OwedVar(c) - 1
      /\ \A e \in Loc \ {c} : OwedVar(e)' = OwedVar(e)
      /\ \A e \in Loc : OwedNode(e)' = OwedNode(e)
      /\ IsPort(p) /\ BufTypes' /\ VarItem(c, p) \in All(Rest)
  BY <1>1, <1>4, <1>5, Substituted
<1>7. IsPair(r)
  <2>1. IsPort(r[z]) /\ IsPort(r[w])
    BY <1>3, <1>6
  <2>. QED
    BY <2>1 DEF IsPair
<1>8. /\ DOMAIN pc' = Thread /\ DOMAIN todo' = Thread
      /\ \A u \in Thread \ {t} : pc'[u] = pc[u] /\ todo'[u] = todo[u]
      /\ todo' = [todo EXCEPT ![t] = [s EXCEPT ![1] = r]]
      /\ ThreadInv(t)'
  BY <1>1, <1>2, <1>5, <1>7, GoOnTyped
<1>9. Changed(HeldInTodo, HeldInTodo', PairItems(t, j, q), PairItems(t, j, r))
  <2>1. PICK e : e = [s EXCEPT ![1] = r]
    OBVIOUS
  <2>2. Changed(ListItems(t, s), ListItems(t, e), PairItems(t, j, q), PairItems(t, j, r))
    <3>1. Changed(ListItems(t, s), ListItems(t, [s EXCEPT ![1] = r]),
                  PairItems(t, Len(s) - 1, s[1]), PairItems(t, Len(s) - 1, r))
      BY <1>1, <1>2, <1>7, ListTail
    <3>. QED
      BY <1>2, <2>1, <3>1
  <2>. QED
    BY <1>1, <1>2, <1>8, <2>1, <2>2, TodoChanged DEF ThreadTypes
<1>10. PICK o, n, v : o = PairItems(t, j, q) /\ n = PairItems(t, j, r) /\ v = VarItem(c, p)
  OBVIOUS
<1>11. Changed(All(Rest), All(Rest)', {v} \cup o, n)
  <2>1. HeldInPool' = HeldInPool /\ HeldInOper' = HeldInOper
    BY <1>5 DEF HeldInPool, HeldInOper
  <2>2. Changed(HeldInPool, HeldInPool', {}, {}) /\ Changed(HeldInOper, HeldInOper', {}, {})
    BY <2>1, Unchanged
  <2>3. Changed(All(Rest), All(Rest)', {} \cup {v} \cup {} \cup o \cup {}, {} \cup {} \cup {} \cup n \cup {})
    BY <1>6, <1>9, <1>10, <2>2, NetChanged
  <2>4. /\ {} \cup {v} \cup {} \cup o \cup {} = {v} \cup o
        /\ {} \cup {} \cup {} \cup n \cup {} = n
    OBVIOUS
  <2>. QED
    BY <2>3, <2>4
<1>12. PICK at, a, b : /\ at = [k \in {1, 2} |-> TodoItem(t, j, k, r[k])]
                       /\ a = TodoItem(t, j, x, q[x]) /\ b = TodoItem(t, j, y, q[y])
  OBVIOUS
<1>13. PICK src : src = [k \in {1, 2} |-> IF k = z THEN v ELSE a]
  OBVIOUS
<1>14. o = {a, b} /\ a # b /\ v # a /\ v # b
  BY <1>10, <1>12 DEF PairItems, TodoItem, VarItem
<1>15. /\ n = {at[k] : k \in {1, 2}} /\ at[1] # at[2]
       /\ src[z] = v /\ src[w] = a /\ src[1] # src[2]
       /\ at[z][2] = v[2] /\ at[w][2] = a[2]
  <2>1. n = {at[k] : k \in {1, 2}} /\ at[1] # at[2]
    BY <1>10, <1>12 DEF PairItems, TodoItem
  <2>2. src[z] = v /\ src[w] = a
    BY <1>13
  <2>3. at[z][2] = p /\ at[w][2] = q[x] /\ v[2] = p /\ a[2] = q[x]
    BY <1>10, <1>12 DEF TodoItem, VarItem
  <2>. QED
    BY <1>14, <2>1, <2>2, <2>3
<1>16. Rearranged(All(Rest), All(Rest)', {v} \cup o, {1, 2}, at, {1, 2}, src)
  <2>1. {1, 2} = {z, w}
    OBVIOUS
  <2>2. \A k \in {1, 2} : src[k] \in {v} \cup o /\ src[k][2] = at[k][2]
    BY <1>14, <1>15, <2>1
  <2>. QED
    BY <1>11, <1>15, <2>2 DEF Changed, Rearranged
<1>17. Balanced(Rest)'
  <2>1. b \in {v} \cup o /\ Key(b[2]) = <<"VAR", c>>
    <3>1. b[2] = q[y]
      BY <1>12 DEF TodoItem
    <3>. QED
      BY <1>14, <3>1, Keys
  <2>2. \A k \in {1, 2} : src[k] # b
    BY <1>13, <1>14
  <2>3. \A h \in {v} \cup o : (\E k \in {1, 2} : src[k] = h) \/ h = b
    BY <1>14, <1>15
  <2>. QED
    BY <1>1, <1>4, <1>6, <1>16, <2>1, <2>2, <2>3, MovedButOne
<1>18. ThreadTypes'
  BY <1>1, <1>5, <1>8, ThreadsKept DEF ThreadTypes
<1>19. PoolTypes'
  <2>1. \A e : IsPair(e)' <=> IsPair(e)
    BY PortsKept
  <2>. QED
    BY <1>1, <1>5, <2>1 DEF PoolTypes
<1>. QED
  BY <1>1, <1>6, <1>17, <1>18, <1>19 DEF NetInv

LEMMA EnterKeeps ==
  ASSUME NEW Rest, Elsewhere(Rest), NetInv(Rest), program' = program, NEW t \in Thread, Enter(t)
  PROVE  NetInv(Rest)'
<1>1. /\ BufTypes /\ PoolTypes /\ ThreadTypes /\ Balanced(Rest) /\ program \in DOMAIN Book
      /\ pc[t] = "link" /\ ThreadInv(t) /\ IsList(todo[t]) /\ todo[t] # <<>> /\ oper[t] = <<>>
  BY DEF NetInv, ThreadTypes, ThreadInv, Enter
<1>2. PICK q : q = todo[t][1]
  OBVIOUS
<1>3. /\ IsPair(q) /\ Linking(t) = <<q[1], q[2]>> /\ q = <<q[1], q[2]>>
      /\ is_var(q[1]) /\ is_var(q[2])
  <2>1. PICK x, y : /\ x \in {1, 2} /\ y \in {1, 2} /\ x # y /\ IsPair(q)
                    /\ Linking(t) = <<q[x], q[y]>> /\ IsPort(q[x]) /\ IsPort(q[y])
                    /\ (is_var(q[y]) \/ ~is_var(q[x])) => x = 1 /\ y = 2
                    /\ q = <<q[1], q[2]>>
    <3>1. q = todo[t][1] /\ IsList(todo[t]) /\ todo[t] # <<>>
      BY <1>1, <1>2
    <3>2. \E x, y : LinkingAt(t, q, x, y)
      BY <3>1, LinkingPair
    <3>. QED
      BY <3>2 DEF LinkingAt
  <2>2. is_var(q[x]) /\ is_var(q[y])
    BY <2>1 DEF Enter
  <2>. QED
    BY <2>1, <2>2
<1>4. PICK c, p : c = val(q[2]) /\ p = vars_buf[c]
  OBVIOUS
<1>5. CASE p \in {NONE, FREE}
  <2>1. /\ vars_buf' = [vars_buf EXCEPT ![c] = NONE] /\ GoOn(t, q, "point")
        /\ UNCHANGED <<node_buf, pool, nput, vput, oper, itrs>>
    BY <1>3, <1>4, <1>5 DEF Enter
  <2>2. c \in Loc /\ p # FREE
    <3>1. PICK s, h : s = todo[t] /\ h = TodoItem(t, Len(s) - 1, 2, q[2])
      OBVIOUS
    <3>2. h \in All(Rest)
      BY <1>1, <1>2, <3>1, HeadHeld
    <3>3. h[2] = q[2] /\ IsPort(h[2])
      BY <1>3, <3>1 DEF TodoItem, IsPair
    <3>. QED
      BY <1>1, <1>3, <1>4, <3>2, <3>3, HeldPort
  <2>3. DOMAIN vars_buf' = Loc /\ \A e \in Loc : vars_buf'[e] = vars_buf[e]
    BY <1>1, <1>4, <1>5, <2>1, <2>2 DEF BufTypes
  <2>4. /\ DOMAIN pc' = Thread /\ DOMAIN todo' = Thread
        /\ \A u \in Thread \ {t} : pc'[u] = pc[u] /\ todo'[u] = todo[u]
        /\ todo' = [todo EXCEPT ![t] = [todo[t] EXCEPT ![1] = q]]
        /\ ThreadInv(t)'
    BY <1>1, <1>3, <2>1, GoOnTyped
  <2>5. \A u \in Thread : todo'[u] = todo[u]
    <3>1. PICK s : s = todo[t]
      OBVIOUS
    <3>2. [s EXCEPT ![1] = q] = s
      <4>1. PICK S : s \in Seq(S)
        BY <1>1, <3>1 DEF IsList
      <4>. QED
        BY <1>2, <3>1, <4>1
    <3>. QED
      BY <1>1, <2>4, <3>1, <3>2 DEF ThreadTypes
  <2>6. Balanced(Rest)'
    <3>1. All(Rest)' = All(Rest)
      <4>1. HeldInVars' = HeldInVars
        BY <2>3, InVars
      <4>2. HeldInTodo' = HeldInTodo
        BY <2>5, InTodo
      <4>. QED
        BY <2>1, <4>1, <4>2 DEF All, Held, HeldInNodes, HeldInPool, HeldInOper
    <3>2. \A e \in Loc : OwedVar(e)' = OwedVar(e) /\ OwedNode(e)' = OwedNode(e)
      BY <2>1, <2>3 DEF OwedVar, OwedNode
    <3>. QED
      BY <1>1, <3>1, <3>2 DEF Balanced
  <2>7. ThreadTypes'
    BY <1>1, <2>1, <2>4, ThreadsKept DEF ThreadTypes
  <2>8. BufTypes' /\ PoolTypes'
    <3>1. \A e \in Loc : vars_buf'[e] = NONE \/ IsPort(vars_buf[e])'
      <4>. SUFFICES ASSUME NEW e \in Loc PROVE vars_buf'[e] = NONE \/ IsPort(vars_buf[e])'
        OBVIOUS
      <4>1. PICK r : r = vars_buf'[e] /\ r = vars_buf[e]
        BY <2>3
      <4>2. r = NONE \/ IsPort(r)'
        BY <1>1, <4>1, PortsKept DEF BufTypes
      <4>. QED
        BY <4>1, <4>2
    <3>2. vars_buf'[0] = FREE
      BY <1>1, <2>3, Sizes DEF BufTypes
    <3>. QED
      BY <1>1, <2>1, <2>3, <3>1, <3>2, PortsKept DEF BufTypes, PoolTypes
  <2>. QED
    BY <1>1, <2>6, <2>7, <2>8 DEF NetInv
<1>6. CASE p \notin {NONE, FREE}
  <2>1. PICK r : r = <<q[1], p>>
    OBVIOUS
  <2>2. /\ vars_buf' = [vars_buf EXCEPT ![c] = FREE] /\ GoOn(t, r, "link")
        /\ UNCHANGED <<node_buf, pool, nput, vput, oper>>
    BY <1>3, <1>4, <1>6, <2>1 DEF Enter
  <2>3. r = <<r[1], r[2]>> /\ r[2] = p /\ r[1] = q[1]
    BY <2>1
  <2>. QED
    <3>1. PICK x, y : x = 1 /\ y = 2
      OBVIOUS
    <3>2. Follows(t, q, x, y, c, p, r, y, x)
      BY <1>1, <1>2, <1>3, <1>4, <1>6, <2>2, <2>3, <3>1 DEF Follows
    <3>. QED
      BY <3>2, FollowKeeps
<1>. QED
  BY <1>5, <1>6

LEMMA PointKeeps ==
  ASSUME NEW Rest, Elsewhere(Rest), NetInv(Rest), program' = program, NEW t \in Thread, Point(t)
  PROVE  NetInv(Rest)'
<1>1. /\ BufTypes /\ PoolTypes /\ ThreadTypes /\ Balanced(Rest) /\ program \in DOMAIN Book
      /\ pc[t] \in {"link", "point"}
      /\ ThreadInv(t) /\ IsList(todo[t]) /\ todo[t] # <<>> /\ oper[t] = <<>>
  BY DEF NetInv, ThreadTypes, ThreadInv, Point
<1>2. PICK s, q : s = todo[t] /\ q = s[1]
  OBVIOUS
<1>3. PICK x, y : /\ x \in {1, 2} /\ y \in {1, 2} /\ x # y /\ IsPair(q)
                  /\ Linking(t) = <<q[x], q[y]>> /\ IsPort(q[x]) /\ IsPort(q[y])
                  /\ (is_var(q[y]) \/ ~is_var(q[x])) => x = 1 /\ y = 2
                  /\ q = <<q[1], q[2]>>
  <2>1. q = todo[t][1] /\ IsList(todo[t]) /\ todo[t] # <<>>
    BY <1>1, <1>2
  <2>2. \E x, y : LinkingAt(t, q, x, y)
    BY <2>1, LinkingPair
  <2>. QED
    BY <2>2 DEF LinkingAt
<1>4. is_var(q[x])
  BY <1>1, <1>3 DEF Point, ThreadInv
<1>5. PICK c, p : c = val(q[x]) /\ p = vars_buf[c]
  OBVIOUS
<1>6. PICK j : j = Len(s) - 1
  OBVIOUS
<1>7. \A k \in {1, 2} : TodoItem(t, j, k, q[k]) \in All(Rest) /\ IsPort(q[k])
  <2>1. \A k \in {1, 2} : TodoItem(t, Len(s) - 1, k, s[1][k]) \in All(Rest)
    BY <1>1, <1>2, HeadHeld
  <2>. QED
    BY <1>2, <1>3, <1>6, <2>1 DEF IsPair
<1>8. c \in Loc \ {0} /\ p # FREE /\ q[y] # FREE
  <2>1. \A k \in {1, 2} : TodoItem(t, j, k, q[k])[2] = q[k]
    BY DEF TodoItem
  <2>2. \A k \in {1, 2} : /\ is_var(q[k]) => val(q[k]) \in Loc \ {0} /\ vars_buf[val(q[k])] # FREE
                          /\ q[k] # FREE
    <3>. SUFFICES ASSUME NEW k \in {1, 2}
                  PROVE  /\ is_var(q[k]) => val(q[k]) \in Loc \ {0} /\ vars_buf[val(q[k])] # FREE
                         /\ q[k] # FREE
      OBVIOUS
    <3>1. PICK h : h = TodoItem(t, j, k, q[k])
      OBVIOUS
    <3>2. h \in All(Rest) /\ h[2] = q[k] /\ IsPort(h[2])
      BY <1>7, <2>1, <3>1
    <3>. QED
      BY <1>1, <3>2, HeldPort
  <2>. QED
    BY <1>3, <1>4, <1>5, <2>2
<1>9. CASE p = NONE
  <2>1. PICK e, d : e = Tail(s) /\ d = q[y]
    OBVIOUS
  <2>2. /\ vars_buf' = [vars_buf EXCEPT ![c] = d] /\ Links(t, e) /\ todo' = [todo EXCEPT ![t] = e]
        /\ node_buf' = node_buf /\ pool' = pool /\ nput' = nput /\ vput' = vput /\ oper' = oper
    <3>1. Linking(t)[1] = q[x] /\ Linking(t)[2] = d
      BY <1>3, <2>1
    <3>2. /\ vars_buf' = [vars_buf EXCEPT ![c] = d] /\ Links(t, Tail(todo[t]))
          /\ UNCHANGED <<node_buf, pool, nput, vput, oper, itrs>>
      BY <1>5, <1>9, <3>1 DEF Point
    <3>. QED
      BY <1>2, <2>1, <3>2 DEF Links
  <2>3. d \notin {FREE, NONE} /\ IsPort(d)
    <3>1. d # NONE
      BY <1>3, <2>1 DEF IsPort, NONE, tag, Nodes, Nullary
    <3>. QED
      BY <1>3, <1>8, <2>1, <3>1
  <2>4. Changed(HeldInVars, HeldInVars', {}, {VarItem(c, d)})
    <3>1. VarItems(c, vars_buf[c]) = {} /\ VarItems(c, d) = {VarItem(c, d)}
      BY <1>5, <1>9, <2>3 DEF VarItems
    <3>2. Changed(HeldInVars, HeldInVars', VarItems(c, vars_buf[c]), VarItems(c, d))
      BY <1>1, <1>8, <2>2, VarsChanged DEF BufTypes
    <3>. QED
      BY <3>1, <3>2
  <2>5. Changed(HeldInTodo, HeldInTodo', PairItems(t, j, q), {})
    <3>1. Changed(ListItems(t, s), ListItems(t, e), PairItems(t, j, q), {})
      BY <1>1, <1>2, <1>3, <1>6, <2>1, ListTail
    <3>. QED
      BY <1>1, <1>2, <2>2, <3>1, TodoChanged DEF ThreadTypes
  <2>6. PICK o, v, a, b : /\ o = PairItems(t, j, q) /\ v = VarItem(c, d)
                          /\ a = TodoItem(t, j, x, q[x]) /\ b = TodoItem(t, j, y, q[y])
    OBVIOUS
  <2>7. Changed(All(Rest), All(Rest)', o, {v})
    <3>1. HeldInNodes' = HeldInNodes /\ HeldInPool' = HeldInPool /\ HeldInOper' = HeldInOper
      BY <2>2 DEF HeldInNodes, HeldInPool, HeldInOper
    <3>2. /\ Changed(HeldInNodes, HeldInNodes', {}, {}) /\ Changed(HeldInPool, HeldInPool', {}, {})
          /\ Changed(HeldInOper, HeldInOper', {}, {})
      BY <3>1, Unchanged
    <3>3. Changed(All(Rest), All(Rest)', {} \cup {} \cup {} \cup o \cup {}, {} \cup {v} \cup {} \cup {} \cup {})
      BY <2>4, <2>5, <2>6, <3>2, NetChanged
    <3>4. /\ {} \cup {} \cup {} \cup o \cup {} = o
          /\ {} \cup {v} \cup {} \cup {} \cup {} = {v}
      OBVIOUS
    <3>. QED
      BY <3>3, <3>4
  <2>8. o = {a, b} /\ a # b /\ a[2] = q[x] /\ b[2] = d /\ v[2] = d
    BY <1>3, <2>1, <2>6 DEF PairItems, TodoItem, VarItem
  <2>9. PICK at, src : at = [k \in {1} |-> v] /\ src = [k \in {1} |-> b]
    OBVIOUS
  <2>10. Rearranged(All(Rest), All(Rest)', o, {1}, at, {1}, src)
    BY <2>7, <2>8, <2>9 DEF Changed, Rearranged
  <2>11. /\ DOMAIN vars_buf' = Loc /\ vars_buf'[c] = d
         /\ \A z \in Loc \ {c} : vars_buf'[z] = vars_buf[z]
    BY <1>1, <1>8, <2>2 DEF BufTypes
  <2>12. /\ OwedVar(c)' = OwedVar(c) - 1
         /\ \A z \in Loc \ {c} : OwedVar(z)' = OwedVar(z)
         /\ \A z \in Loc : OwedNode(z)' = OwedNode(z)
    <3>1. OwedVar(c) = 2 /\ OwedVar(c)' = 1
      BY <1>5, <1>8, <1>9, <2>3, <2>11 DEF OwedVar
    <3>. QED
      BY <2>2, <2>11, <3>1 DEF OwedVar, OwedNode
  <2>13. Balanced(Rest)'
    <3>1. a \in o /\ Key(a[2]) = <<"VAR", c>>
      BY <1>4, <1>5, <2>8, Keys
    <3>2. \A k \in {1} : src[k] # a
      BY <2>8, <2>9
    <3>3. \A h \in o : (\E k \in {1} : src[k] = h) \/ h = a
      BY <2>8, <2>9
    <3>. QED
      BY <1>1, <1>8, <2>10, <2>12, <3>1, <3>2, <3>3, MovedButOne
  <2>14. BufTypes'
    <3>1. \A z \in Loc : vars_buf'[z] = NONE \/ IsPort(vars_buf'[z])
      BY <1>1, <2>3, <2>11 DEF BufTypes
    <3>2. \A z \in Loc : vars_buf'[z] = NONE \/ IsPort(vars_buf[z])'
      <4>. SUFFICES ASSUME NEW z \in Loc PROVE vars_buf'[z] = NONE \/ IsPort(vars_buf[z])'
        OBVIOUS
      <4>1. PICK r : r = vars_buf'[z]
        OBVIOUS
      <4>2. r = NONE \/ IsPort(r)'
        BY <3>1, <4>1, PortsKept
      <4>. QED
        BY <4>1, <4>2
    <3>3. vars_buf'[0] = FREE
      BY <1>1, <1>8, <2>11, Sizes DEF BufTypes
    <3>. QED
      BY <1>1, <2>2, <2>11, <3>2, <3>3, PortsKept DEF BufTypes
  <2>15. ThreadTypes'
    <3>1. IsList(e)
      BY <1>1, <1>2, <1>3, <2>1, ListHead
    <3>2. oper'[t] = <<>>
      BY <1>1, <2>2
    <3>3. /\ DOMAIN pc' = Thread /\ DOMAIN todo' = Thread
          /\ \A u \in Thread \ {t} : pc'[u] = pc[u] /\ todo'[u] = todo[u]
          /\ ThreadInv(t)'
      BY <1>1, <2>2, <3>1, <3>2, LinksTyped
    <3>. QED
      BY <1>1, <2>2, <3>3, ThreadsKept DEF ThreadTypes
  <2>16. PoolTypes'
    BY <1>1, <2>2, PortsKept DEF PoolTypes
  <2>. QED
    BY <1>1, <2>13, <2>14, <2>15, <2>16 DEF NetInv
<1>10. CASE p # NONE
  <2>1. PICK r : r = <<p, q[y]>>
    OBVIOUS
  <2>2. /\ vars_buf' = [vars_buf EXCEPT ![c] = FREE] /\ GoOn(t, r, "link")
        /\ UNCHANGED <<node_buf, pool, nput, vput, oper>>
    BY <1>3, <1>5, <1>10, <2>1 DEF Point
  <2>3. r = <<r[1], r[2]>> /\ r[1] = p /\ r[2] = q[y]
    BY <2>1
  <2>4. q = todo[t][1]
    BY <1>2
  <2>. QED
    <3>1. PICK z, w : z = 1 /\ w = 2
      OBVIOUS
    <3>2. Follows(t, q, y, x, c, p, r, z, w)
      BY <1>1, <1>3, <1>4, <1>5, <1>10, <2>2, <2>3, <2>4, <3>1 DEF Follows
    <3>. QED
      BY <3>2, FollowKeeps
<1>. QED
  BY <1>9, <1>10

-----------------------------------------------------------------------------
(* Native operations keep the invariant.                                   *)

LEMMA OperHeld ==
  ASSUME NEW Rest, NEW t \in Thread, NEW o, o = oper[t], IsOper(t, o)
  PROVE  /\ o # <<>> /\ OperItems(t, o) = {OperItem(t, 2, o[2]), OperItem(t, 3, o[3])}
         /\ OperItem(t, 2, o[2]) \in All(Rest) /\ OperItem(t, 3, o[3]) \in All(Rest)
         /\ OperItem(t, 2, o[2])[2] = o[2] /\ OperItem(t, 3, o[3])[2] = o[3]
<1>1. o # <<>>
  <2>1. o = <<o[1], o[2], o[3], o[4]>>
    BY DEF IsOper
  <2>2. \A a, b, c, d : <<a, b, c, d>> # <<>>
    OBVIOUS
  <2>. QED
    BY <2>1, <2>2, Zenon
<1>2. OperItems(t, o) = {OperItem(t, 2, o[2]), OperItem(t, 3, o[3])}
  BY <1>1 DEF OperItems
<1>3. \A h \in OperItems(t, o) : h \in All(Rest)
  BY InOper DEF All, Held
<1>. QED
  BY <1>1, <1>2, <1>3 DEF OperItem

LEMMA OperEnterKeeps ==
  ASSUME NEW Rest, Elsewhere(Rest), NetInv(Rest), program' = program, NEW t \in Thread, OperEnter(t)
  PROVE  NetInv(Rest)'
<1>1. /\ BufTypes /\ PoolTypes /\ ThreadTypes /\ Balanced(Rest) /\ program \in DOMAIN Book
      /\ pc[t] = "oper" /\ ThreadInv(t) /\ IsList(todo[t]) /\ todo[t] = <<>> /\ IsOper(t, oper[t])
  BY DEF NetInv, ThreadTypes, ThreadInv, OperEnter
<1>2. PICK o, c, p : o = oper[t] /\ c = val(o[3]) /\ p = vars_buf[c]
  OBVIOUS
<1>3. /\ is_var(o[3]) /\ IsOper(t, o) /\ IsPort(o[3])
      /\ node_buf' = node_buf /\ pool' = pool /\ nput' = nput /\ vput' = vput /\ todo' = todo
  BY <1>1, <1>2 DEF OperEnter, IsOper
<1>4. PICK a, b : a = OperItem(t, 2, o[2]) /\ b = OperItem(t, 3, o[3])
  OBVIOUS
<1>5. /\ OperItems(t, o) = {a, b} /\ a \in All(Rest) /\ b \in All(Rest) /\ a[2] = o[2] /\ b[2] = o[3]
      /\ o # <<>>
  BY <1>1, <1>2, <1>4, OperHeld
<1>6. c \in Loc /\ p # FREE
  BY <1>1, <1>2, <1>3, <1>5, HeldPort
<1>7. CASE p \in {NONE, FREE}
  <2>1. /\ vars_buf' = [vars_buf EXCEPT ![c] = NONE] /\ pc' = [pc EXCEPT ![t] = "operate"]
        /\ oper' = oper
    BY <1>2, <1>7 DEF OperEnter
  <2>2. DOMAIN vars_buf' = Loc /\ \A e \in Loc : vars_buf'[e] = vars_buf[e]
    BY <1>1, <1>2, <1>6, <1>7, <2>1 DEF BufTypes
  <2>3. Balanced(Rest)'
    <3>1. All(Rest)' = All(Rest)
      <4>1. HeldInVars' = HeldInVars
        BY <2>2, InVars
      <4>. QED
        BY <1>3, <2>1, <4>1 DEF All, Held, HeldInNodes, HeldInPool, HeldInOper, HeldInTodo
    <3>2. \A e \in Loc : OwedVar(e)' = OwedVar(e) /\ OwedNode(e)' = OwedNode(e)
      BY <1>3, <2>2 DEF OwedVar, OwedNode
    <3>. QED
      BY <1>1, <3>1, <3>2 DEF Balanced
  <2>4. ThreadTypes'
    <3>1. IsList(todo[t])'
      BY <1>1, <1>3, PortsKept
    <3>2. IsOper(t, oper[t])'
      <4>1. IsOper(t, o)'
        BY <1>3, PortsKept DEF IsOper
      <4>. QED
        BY <1>2, <2>1, <4>1
    <3>3. /\ DOMAIN pc' = Thread /\ pc'[t] = "operate"
          /\ \A u \in Thread \ {t} : pc'[u] = pc[u]
      BY <1>1, <2>1 DEF ThreadTypes
    <3>4. ThreadInv(t)'
      BY <1>1, <1>3, <3>1, <3>2, <3>3 DEF ThreadInv
    <3>. QED
      BY <1>1, <1>3, <2>1, <3>3, <3>4, ThreadsKept DEF ThreadTypes
  <2>5. BufTypes' /\ PoolTypes'
    <3>1. \A e \in Loc : vars_buf'[e] = NONE \/ IsPort(vars_buf[e])'
      <4>. SUFFICES ASSUME NEW e \in Loc PROVE vars_buf'[e] = NONE \/ IsPort(vars_buf[e])'
        OBVIOUS
      <4>1. PICK r : r = vars_buf'[e] /\ r = vars_buf[e]
        BY <2>2
      <4>2. r = NONE \/ IsPort(r)'
        BY <1>1, <4>1, PortsKept DEF BufTypes
      <4>. QED
        BY <4>1, <4>2
    <3>2. vars_buf'[0] = FREE
      BY <1>1, <2>2, Sizes DEF BufTypes
    <3>. QED
      BY <1>1, <1>3, <2>2, <3>1, <3>2, PortsKept DEF BufTypes, PoolTypes
  <2>. QED
    BY <1>1, <2>3, <2>4, <2>5 DEF NetInv
<1>8. CASE p \notin {NONE, FREE}
  <2>1. PICK q : q = [o EXCEPT ![3] = p]
    OBVIOUS
  <2>2. /\ vars_buf' = [vars_buf EXCEPT ![c] = FREE] /\ pc' = pc /\ oper' = [oper EXCEPT ![t] = q]
    BY <1>2, <1>8, <2>1 DEF OperEnter
  <2>3. /\ Changed(HeldInVars, HeldInVars', {VarItem(c, p)}, {})
        /\ Changed(HeldInNodes, HeldInNodes', {}, {})
        /\ OwedVar(c)' = OwedVar(c) - 1
        /\ \A e \in Loc \ {c} : OwedVar(e)' = OwedVar(e)
        /\ \A e \in Loc : OwedNode(e)' = OwedNode(e)
        /\ IsPort(p) /\ BufTypes' /\ VarItem(c, p) \in All(Rest)
    BY <1>1, <1>2, <1>3, <1>6, <1>8, <2>2, Substituted
  <2>4. q = <<o[1], o[2], p, o[4]>>
    <3>1. o = <<o[1], o[2], o[3], o[4]>>
      BY <1>3 DEF IsOper
    <3>2. PICK d1, d2, d3, d4 : d1 = o[1] /\ d2 = o[2] /\ d3 = o[3] /\ d4 = o[4]
      OBVIOUS
    <3>3. o = <<d1, d2, d3, d4>>
      BY <3>1, <3>2, Zenon
    <3>4. q = <<d1, d2, p, d4>>
      BY <2>1, <3>3
    <3>. QED
      BY <3>2, <3>4
  <2>5. q[1] = o[1] /\ q[2] = o[2] /\ q[3] = p /\ q[4] = o[4] /\ q = <<q[1], q[2], q[3], q[4]>>
    BY <2>4
  <2>6. q # <<>>
    <3>1. \A d1, d2, d3, d4 : <<d1, d2, d3, d4>> # <<>>
      OBVIOUS
    <3>. QED
      BY <2>4, <3>1, Zenon
  <2>7. PICK v, n : v = VarItem(c, p) /\ n = OperItem(t, 3, p)
    OBVIOUS
  <2>8. OperItems(t, q) = {a, n} /\ n[2] = p /\ v[2] = p /\ v # b /\ a # b /\ a # n
    BY <1>4, <2>5, <2>6, <2>7 DEF OperItems, OperItem, VarItem
  <2>9. Changed(HeldInOper, HeldInOper', {b}, {n})
    <3>1. Changed(OperItems(t, oper[t]), OperItems(t, q), {b}, {n})
      BY <1>2, <1>5, <2>8 DEF Changed
    <3>. QED
      BY <1>1, <2>2, <3>1, OperChanged DEF ThreadTypes
  <2>10. Changed(All(Rest), All(Rest)', {v, b}, {n})
    <3>1. /\ HeldInPool' = HeldInPool /\ HeldInTodo' = HeldInTodo
      BY <1>3 DEF HeldInPool, HeldInTodo
    <3>2. /\ Changed(HeldInPool, HeldInPool', {}, {}) /\ Changed(HeldInTodo, HeldInTodo', {}, {})
      BY <3>1, Unchanged
    <3>3. Changed(All(Rest), All(Rest)', {} \cup {v} \cup {} \cup {} \cup {b}, {} \cup {} \cup {} \cup {} \cup {n})
      BY <2>3, <2>7, <2>9, <3>2, NetChanged
    <3>4. /\ {} \cup {v} \cup {} \cup {} \cup {b} = {v, b}
          /\ {} \cup {} \cup {} \cup {} \cup {n} = {n}
      OBVIOUS
    <3>. QED
      BY <3>3, <3>4
  <2>11. PICK at, src : at = [k \in {1} |-> n] /\ src = [k \in {1} |-> v]
    OBVIOUS
  <2>12. Rearranged(All(Rest), All(Rest)', {v, b}, {1}, at, {1}, src)
    BY <2>8, <2>10, <2>11 DEF Changed, Rearranged
  <2>13. Balanced(Rest)'
    <3>1. b \in {v, b} /\ Key(b[2]) = <<"VAR", c>>
      BY <1>2, <1>3, <1>5, Keys
    <3>2. \A k \in {1} : src[k] # b
      BY <2>8, <2>11
    <3>3. \A h \in {v, b} : (\E k \in {1} : src[k] = h) \/ h = b
      BY <2>11
    <3>. QED
      BY <1>1, <1>6, <2>3, <2>12, <3>1, <3>2, <3>3, MovedButOne
  <2>14. ThreadTypes'
    <3>1. IsList(todo[t])'
      BY <1>1, <1>3, PortsKept
    <3>2. IsOper(t, oper[t])'
      <4>1. IsOper(t, q)'
        BY <1>3, <2>3, <2>5, PortsKept DEF IsOper
      <4>2. q = oper'[t]
        BY <1>1, <2>2 DEF ThreadTypes
      <4>. QED
        BY <4>1, <4>2
    <3>3. /\ DOMAIN oper' = Thread /\ \A u \in Thread \ {t} : oper'[u] = oper[u]
      BY <1>1, <2>2 DEF ThreadTypes
    <3>4. ThreadInv(t)'
      BY <1>1, <1>3, <2>2, <3>1, <3>2 DEF ThreadInv
    <3>. QED
      BY <1>1, <1>3, <2>2, <3>3, <3>4, ThreadsKept DEF ThreadTypes
  <2>15. PoolTypes'
    BY <1>1, <1>3, PortsKept DEF PoolTypes
  <2>. QED
    BY <1>1, <2>3, <2>13, <2>14, <2>15 DEF NetInv
<1>. QED
  BY <1>7, <1>8

LEMMA ListOne ==
  ASSUME NEW t, NEW r, IsPair(r)
  PROVE  /\ IsList(<<r>>) /\ <<r>> # <<>>
         /\ ListItems(t, <<r>>) = {TodoItem(t, 0, 1, r[1]), TodoItem(t, 0, 2, r[2])}
<1>1. PICK s : s = <<r>>
  OBVIOUS
<1>2. s \in Seq({r}) /\ Len(s) = 1 /\ DOMAIN s = {1} /\ s[1] = r /\ s # <<>>
  BY <1>1
<1>3. IsList(s)
  BY <1>2 DEF IsList
<1>4. ListItems(t, s) = {TodoItem(t, 0, k, r[k]) : k \in {1, 2}}
  <2>1. \A h : h \in ListItems(t, s) <=> \E k \in {1, 2} : h = TodoItem(t, Len(s) - 1, k, s[1][k])
    BY <1>2 DEF ListItems
  <2>2. Len(s) - 1 = 0
    BY <1>2
  <2>. QED
    BY <1>2, <2>1, <2>2
<1>. QED
  BY <1>1, <1>2, <1>3, <1>4

LEMMA OperateKeeps ==
  ASSUME NEW Rest, Elsewhere(Rest), NetInv(Rest), program' = program, NEW t \in Thread, Operate(t)
  PROVE  NetInv(Rest)'
<1>1. /\ BufTypes /\ PoolTypes /\ ThreadTypes /\ Balanced(Rest) /\ program \in DOMAIN Book
      /\ pc[t] \in {"oper", "operate"}
      /\ ThreadInv(t) /\ IsList(todo[t]) /\ todo[t] = <<>> /\ IsOper(t, oper[t])
  BY DEF NetInv, ThreadTypes, ThreadInv, Operate
<1>2. PICK o : o = oper[t]
  OBVIOUS
<1>3. /\ IsOper(t, o) /\ IsPort(o[1]) /\ IsPort(o[2]) /\ IsPort(o[3]) /\ tag(o[1]) = "NUM"
      /\ o[4] \in Part(t) /\ o[4] \in Loc \ {0} /\ node_buf[o[4]] = FREE_NODE
  BY <1>1, <1>2, Sizes DEF IsOper
<1>4. /\ oper' = [oper EXCEPT ![t] = <<>>] /\ vars_buf' = vars_buf /\ pool' = pool
      /\ nput' = nput /\ vput' = vput
  BY DEF Operate
<1>5. PICK a, b : a = OperItem(t, 2, o[2]) /\ b = OperItem(t, 3, o[3])
  OBVIOUS
<1>6. /\ OperItems(t, o) = {a, b} /\ a \in All(Rest) /\ b \in All(Rest) /\ a[2] = o[2] /\ b[2] = o[3]
      /\ a # b
  <2>1. /\ OperItems(t, o) = {OperItem(t, 2, o[2]), OperItem(t, 3, o[3])}
        /\ OperItem(t, 2, o[2]) \in All(Rest) /\ OperItem(t, 3, o[3]) \in All(Rest)
    BY <1>2, <1>3, OperHeld
  <2>. QED
    BY <1>5, <2>1 DEF OperItem
<1>7. Changed(HeldInOper, HeldInOper', {a, b}, {})
  <2>1. Changed(OperItems(t, oper[t]), OperItems(t, <<>>), {a, b}, {})
    BY <1>2, <1>6 DEF Changed, OperItems
  <2>. QED
    BY <1>1, <1>4, <2>1, OperChanged DEF ThreadTypes
<1>8. Changed(HeldInVars, HeldInVars', {}, {}) /\ Changed(HeldInPool, HeldInPool', {}, {})
  <2>1. HeldInVars' = HeldInVars /\ HeldInPool' = HeldInPool
    BY <1>4 DEF HeldInVars, HeldInPool
  <2>. QED
    BY <2>1, Unchanged
<1>9. /\ DOMAIN oper' = Thread /\ oper'[t] = <<>> /\ \A u \in Thread \ {t} : oper'[u] = oper[u]
      /\ PoolTypes'
  BY <1>1, <1>4, PortsKept DEF ThreadTypes, PoolTypes
\* The pair r is linked.
<1>10. ASSUME NEW r, IsPair(r), Links(t, <<r>>)
       PROVE  /\ Changed(HeldInTodo, HeldInTodo', {}, {TodoItem(t, 0, 1, r[1]), TodoItem(t, 0, 2, r[2])})
              /\ DOMAIN pc' = Thread /\ DOMAIN todo' = Thread
              /\ \A u \in Thread \ {t} : pc'[u] = pc[u] /\ todo'[u] = todo[u]
              /\ ThreadInv(t)'
  <2>1. PICK s : s = <<r>>
    OBVIOUS
  <2>2. /\ IsList(s)
        /\ ListItems(t, s) = {TodoItem(t, 0, 1, r[1]), TodoItem(t, 0, 2, r[2])}
    BY <1>10, <2>1, ListOne
  <2>3. PICK n : n = {TodoItem(t, 0, 1, r[1]), TodoItem(t, 0, 2, r[2])}
    OBVIOUS
  <2>4. Changed(ListItems(t, todo[t]), ListItems(t, s), {}, n)
    BY <1>1, <2>2, <2>3, ListEmpty DEF Changed
  <2>5. Links(t, s) /\ todo' = [todo EXCEPT ![t] = s]
    BY <1>10, <2>1 DEF Links
  <2>6. Changed(HeldInTodo, HeldInTodo', {}, n)
    BY <1>1, <2>4, <2>5, TodoChanged DEF ThreadTypes
  <2>7. /\ DOMAIN pc' = Thread /\ DOMAIN todo' = Thread
        /\ \A u \in Thread \ {t} : pc'[u] = pc[u] /\ todo'[u] = todo[u]
        /\ ThreadInv(t)'
    BY <1>1, <1>9, <2>2, <2>5, LinksTyped
  <2>. QED
    BY <2>3, <2>6, <2>7
<1>11. CASE tag(o[2]) = "NUM"
  <2>1. PICK r : r = <<NumP(operate(val(o[1]), val(o[2]))), o[3]>>
    OBVIOUS
  <2>2. Links(t, <<r>>) /\ node_buf' = node_buf
    BY <1>2, <1>11, <2>1 DEF Operate
  <2>3. r = <<r[1], r[2]>> /\ tag(r[1]) = "NUM" /\ r[1] = <<tag(r[1]), val(r[1])>> /\ r[2] = o[3]
    BY <2>1 DEF NumP, tag, val
  <2>4. IsPair(r)
    BY <1>3, <2>3 DEF IsPair, IsPort, is_var, is_nod, Nodes, Nullary
  <2>5. PICK n, m : n = TodoItem(t, 0, 1, r[1]) /\ m = TodoItem(t, 0, 2, r[2])
    OBVIOUS
  <2>6. n[2] = r[1] /\ m[2] = o[3] /\ n # m
    BY <2>3, <2>5 DEF TodoItem
  <2>7. Changed(All(Rest), All(Rest)', {a, b}, {n, m})
    <3>1. Changed(HeldInTodo, HeldInTodo', {}, {n, m})
      BY <1>10, <2>2, <2>4, <2>5
    <3>2. HeldInNodes' = HeldInNodes
      BY <2>2 DEF HeldInNodes
    <3>3. Changed(HeldInNodes, HeldInNodes', {}, {})
      BY <3>2, Unchanged
    <3>4. Changed(All(Rest), All(Rest)', {} \cup {} \cup {} \cup {} \cup {a, b}, {} \cup {} \cup {} \cup {n, m} \cup {})
      BY <1>7, <1>8, <3>1, <3>3, NetChanged
    <3>5. /\ {} \cup {} \cup {} \cup {} \cup {a, b} = {a, b}
          /\ {} \cup {} \cup {} \cup {n, m} \cup {} = {n, m}
      OBVIOUS
    <3>. QED
      BY <3>4, <3>5
  <2>8. PICK at, src : at = [k \in {1, 2} |-> IF k = 1 THEN n ELSE m] /\ src = [k \in {2} |-> b]
    OBVIOUS
  <2>9. Rearranged(All(Rest), All(Rest)', {a, b}, {1, 2}, at, {2}, src)
    BY <1>6, <2>6, <2>7, <2>8 DEF Changed, Rearranged
  <2>10. \A x : x # NONE => /\ Lost({a, b}, {2}, src, x) = {}
                            /\ Made({1, 2}, at, {2}, x) = {}
    <3>1. Key(o[2]) = NONE /\ Key(r[1]) = NONE
      BY <1>11, <2>3 DEF Key, is_var, is_nod, Nodes
    <3>2. ASSUME NEW x, x # NONE PROVE Lost({a, b}, {2}, src, x) = {}
      BY <1>6, <2>8, <3>1, <3>2 DEF Lost
    <3>3. ASSUME NEW x, x # NONE PROVE Made({1, 2}, at, {2}, x) = {}
      BY <2>6, <2>8, <3>1, <3>3 DEF Made
    <3>. QED
      BY <3>2, <3>3
  <2>11. Balanced(Rest)'
    <3>1. \A c : <<"VAR", c>> # NONE /\ <<"NODE", c>> # NONE
      BY DEF NONE
    <3>2. \A c \in Loc : /\ Counted(Lost({a, b}, {2}, src, <<"VAR", c>>), 0)
                         /\ Counted(Made({1, 2}, at, {2}, <<"VAR", c>>), 0)
                         /\ Counted(Lost({a, b}, {2}, src, <<"NODE", c>>), 0)
                         /\ Counted(Made({1, 2}, at, {2}, <<"NODE", c>>), 0)
      BY <2>10, <3>1, CountedSmall
    <3>3. \A c \in Loc : /\ OwedVar(c)' = OwedVar(c) - 0 + 0
                         /\ OwedNode(c)' = OwedNode(c) - 0 + 0
      BY <1>4, <2>2 DEF OwedVar, OwedNode
    <3>4. TalliedVars({a, b}, {1, 2}, at, {2}, src)
      BY <3>2, <3>3 DEF TalliedVars
    <3>5. TalliedNodes({a, b}, {1, 2}, at, {2}, src)
      BY <3>2, <3>3 DEF TalliedNodes
    <3>. QED
      BY <1>1, <2>9, <3>4, <3>5, Rebalanced
  <2>12. ThreadTypes'
    <3>1. /\ DOMAIN pc' = Thread /\ DOMAIN todo' = Thread
          /\ \A u \in Thread \ {t} : pc'[u] = pc[u] /\ todo'[u] = todo[u]
          /\ ThreadInv(t)'
      BY <1>10, <2>2, <2>4
    <3>. QED
      BY <1>1, <1>9, <2>2, <3>1, ThreadsKept
  <2>13. BufTypes'
    BY <1>1, <1>4, <2>2, PortsKept DEF BufTypes
  <2>. QED
    BY <1>1, <1>9, <2>11, <2>12, <2>13 DEF NetInv
<1>12. CASE tag(o[2]) # "NUM"
  <2>1. PICK r, e, g : r = <<o[2], <<"OPR", g>> >> /\ e = <<o[1], o[3]>> /\ g = o[4]
    <3>1. PICK g : g = o[4]
      OBVIOUS
    <3>. QED
      BY <3>1
  <2>2. Links(t, <<r>>) /\ node_buf' = [node_buf EXCEPT ![g] = e]
    BY <1>2, <1>12, <2>1 DEF Operate
  <2>3. r = <<r[1], r[2]>> /\ r[1] = o[2] /\ r[2] = <<"OPR", g>> /\ e = <<e[1], e[2]>>
        /\ e[1] = o[1] /\ e[2] = o[3] /\ g \in Loc \ {0} /\ g \in Part(t) /\ node_buf[g] = FREE_NODE
    BY <1>3, <2>1
  <2>4. IsPair(r) /\ IsPair(e)
    BY <1>3, <2>3 DEF IsPair, IsPort, is_var, is_nod, Nodes, Nullary, tag, val
  <2>5. PICK n, m, v, w : /\ n = TodoItem(t, 0, 1, r[1]) /\ m = TodoItem(t, 0, 2, r[2])
                          /\ v = NodeItem(g, 1, e[1]) /\ w = NodeItem(g, 2, e[2])
    OBVIOUS
  <2>6. /\ n[2] = o[2] /\ m[2] = <<"OPR", g>> /\ v[2] = o[1] /\ w[2] = o[3]
        /\ n # m /\ n # v /\ n # w /\ m # v /\ m # w /\ v # w
    BY <2>3, <2>5 DEF TodoItem, NodeItem
  <2>7. /\ DOMAIN node_buf' = Loc /\ node_buf'[g] = e /\ e # FREE_NODE
        /\ \A c \in Loc \ {g} : node_buf'[c] = node_buf[c]
    <3>1. e # FREE_NODE
      BY <1>3, <2>3 DEF FREE_NODE, FREE, VarP, tag
    <3>. QED
      BY <1>1, <2>2, <2>3, <3>1 DEF BufTypes
  <2>8. Changed(HeldInNodes, HeldInNodes', {}, {v, w})
    <3>1. PICK T : T = {g}
      OBVIOUS
    <3>2. T \in SUBSET Loc /\ \A c \in Loc \ T : node_buf'[c] = node_buf[c]
      BY <2>3, <2>7, <3>1
    <3>3. Changed(HeldInNodes, HeldInNodes', UNION {NodeItems(c, node_buf[c]) : c \in T},
                  UNION {NodeItems(c, node_buf'[c]) : c \in T})
      BY <3>2, NodesChanged
    <3>4. NodeItems(g, node_buf[g]) = {} /\ NodeItems(g, node_buf'[g]) = {v, w}
      BY <2>3, <2>5, <2>7 DEF NodeItems
    <3>. QED
      BY <3>1, <3>3, <3>4
  <2>9. Changed(All(Rest), All(Rest)', {a, b}, {v, w, n, m})
    <3>1. Changed(HeldInTodo, HeldInTodo', {}, {n, m})
      BY <1>10, <2>2, <2>4, <2>5
    <3>2. Changed(All(Rest), All(Rest)', {} \cup {} \cup {} \cup {} \cup {a, b}, {v, w} \cup {} \cup {} \cup {n, m} \cup {})
      BY <1>7, <1>8, <2>8, <3>1, NetChanged
    <3>3. /\ {} \cup {} \cup {} \cup {} \cup {a, b} = {a, b}
          /\ {v, w} \cup {} \cup {} \cup {n, m} \cup {} = {v, w, n, m}
      OBVIOUS
    <3>. QED
      BY <3>2, <3>3
  <2>10. PICK at, src : /\ at = [k \in {1, 2, 3, 4} |-> CASE k = 1 -> v [] k = 2 -> w [] k = 3 -> n [] k = 4 -> m]
                        /\ src = [k \in {2, 3} |-> IF k = 2 THEN b ELSE a]
    OBVIOUS
  <2>11. at[1] = v /\ at[2] = w /\ at[3] = n /\ at[4] = m /\ src[2] = b /\ src[3] = a
    BY <2>10
  <2>12. Rearranged(All(Rest), All(Rest)', {a, b}, {1, 2, 3, 4}, at, {2, 3}, src)
    <3>1. {at[k] : k \in {1, 2, 3, 4}} = {v, w, n, m}
      BY <2>11
    <3>2. \A k \in {2, 3} : src[k] \in {a, b} /\ src[k][2] = at[k][2]
      BY <1>6, <2>6, <2>11
    <3>3. \A k, l \in {1, 2, 3, 4} : at[k] = at[l] => k = l
      BY <2>6, <2>11
    <3>4. \A k, l \in {2, 3} : src[k] = src[l] => k = l
      BY <1>6, <2>11
    <3>. QED
      BY <2>9, <3>1, <3>2, <3>3, <3>4 DEF Changed, Rearranged
  <2>13. \A x : /\ Lost({a, b}, {2, 3}, src, x) = {}
                /\ x # NONE => Made({1, 2, 3, 4}, at, {2, 3}, x)
                                 = IF x = <<"NODE", g>> THEN {4} ELSE {}
    <3>1. Key(v[2]) = NONE /\ Key(m[2]) = <<"NODE", g>>
      BY <1>3, <2>6 DEF Key, is_var, is_nod, Nodes, tag, val
    <3>2. ASSUME NEW x PROVE Lost({a, b}, {2, 3}, src, x) = {}
      BY <2>11 DEF Lost
    <3>3. ASSUME NEW x, x # NONE
          PROVE  Made({1, 2, 3, 4}, at, {2, 3}, x) = IF x = <<"NODE", g>> THEN {4} ELSE {}
      BY <2>11, <3>1, <3>3 DEF Made
    <3>. QED
      BY <3>2, <3>3
  <2>14. Balanced(Rest)'
    <3>1. \A c : /\ <<"VAR", c>> # NONE /\ <<"NODE", c>> # NONE /\ <<"VAR", c>> # <<"NODE", g>>
                 /\ (<<"NODE", c>> = <<"NODE", g>> <=> c = g)
      BY DEF NONE
    <3>2. \A c \in Loc : /\ Counted(Lost({a, b}, {2, 3}, src, <<"VAR", c>>), 0)
                         /\ Counted(Made({1, 2, 3, 4}, at, {2, 3}, <<"VAR", c>>), 0)
                         /\ Counted(Lost({a, b}, {2, 3}, src, <<"NODE", c>>), 0)
                         /\ c # g => Counted(Made({1, 2, 3, 4}, at, {2, 3}, <<"NODE", c>>), 0)
                         /\ c = g => Counted(Made({1, 2, 3, 4}, at, {2, 3}, <<"NODE", c>>), 1)
      BY <2>13, <3>1, CountedSmall
    <3>3. \A c \in Loc : OwedVar(c)' = OwedVar(c) - 0 + 0
      BY <1>4 DEF OwedVar
    <3>4. \A c \in Loc : OwedNode(c)' = IF c = g THEN OwedNode(c) - 0 + 1 ELSE OwedNode(c) - 0 + 0
      BY <2>3, <2>7 DEF OwedNode
    <3>5. TalliedVars({a, b}, {1, 2, 3, 4}, at, {2, 3}, src)
      BY <3>2, <3>3 DEF TalliedVars
    <3>6. TalliedNodes({a, b}, {1, 2, 3, 4}, at, {2, 3}, src)
      BY <3>2, <3>4 DEF TalliedNodes
    <3>. QED
      BY <1>1, <2>12, <3>5, <3>6, Rebalanced
  <2>15. ThreadTypes'
    <3>1. /\ DOMAIN pc' = Thread /\ DOMAIN todo' = Thread
          /\ \A u \in Thread \ {t} : pc'[u] = pc[u] /\ todo'[u] = todo[u]
          /\ ThreadInv(t)'
      BY <1>10, <2>2, <2>4
    <3>2. \A u \in Thread \ {t} : \A c \in Part(u) :
            node_buf[c] = FREE_NODE => node_buf'[c] = FREE_NODE
      BY <2>3, <2>7, Sizes
    <3>. QED
      BY <1>1, <1>9, <3>1, <3>2, ThreadsKept
  <2>16. BufTypes'
    <3>1. \A c \in Loc : IsPair(node_buf[c])'
      <4>. SUFFICES ASSUME NEW c \in Loc PROVE IsPair(node_buf[c])'
        OBVIOUS
      <4>1. PICK q : q = node_buf'[c]
        OBVIOUS
      <4>2. IsPair(q)
        BY <1>1, <2>4, <2>7, <4>1 DEF BufTypes
      <4>3. IsPair(q)'
        BY <4>2, PortsKept
      <4>. QED
        BY <4>1, <4>3
    <3>. QED
      BY <1>1, <1>4, <2>7, <3>1, PortsKept DEF BufTypes
  <2>. QED
    BY <1>1, <1>9, <2>14, <2>15, <2>16 DEF NetInv
<1>. QED
  BY <1>11, <1>12

-----------------------------------------------------------------------------
(* Rewriting a redex keeps the invariant.                                  *)

RedexItems(b, r, m) == {PoolItem(b, r, m, k) : k \in {1, 2}}

\* The redex r leaves the bag of the thread, and with it the two items of a copy.
LEMMA Taken ==
  ASSUME NEW Rest, Elsewhere(Rest), NetInv(Rest), program' = program,
         NEW t \in Thread, NEW rule, NEW r \in Redexes(t, rule), Take(t, r)
  PROVE  /\ BufTypes /\ PoolTypes /\ ThreadTypes /\ Balanced(Rest) /\ program \in DOMAIN Book
         /\ ThreadInv(t) /\ pc[t] = "idle" /\ todo[t] = <<>> /\ oper[t] = <<>>
         /\ RuleOf(r) = rule /\ IsPair(r)
         /\ PoolTypes'
         /\ \E b, m : /\ RedexItems(b, r, m) \subseteq All(Rest)
                      /\ Changed(HeldInPool, HeldInPool', RedexItems(b, r, m), {})
<1>1. /\ BufTypes /\ PoolTypes /\ ThreadTypes /\ Balanced(Rest) /\ program \in DOMAIN Book
      /\ ThreadInv(t) /\ pc[t] = "idle" /\ todo[t] = <<>> /\ oper[t] = <<>>
  BY DEF NetInv, ThreadTypes, ThreadInv, Take
<1>2. PICK b, m : b = BagOf[t] /\ m = pool[b][r]
  OBVIOUS
<1>3. b \in Bags /\ r \in DOMAIN pool[b] /\ RuleOf(r) = rule
  BY <1>2, InteractionsAssumption DEF Bags, Range, Redexes
<1>4. IsPair(r)
  BY <1>1, <1>3 DEF PoolTypes
<1>5. pool' = [pool EXCEPT ![b] = Without(@, r)]
  BY <1>2 DEF Take
<1>6. PICK items : items = {PoolItem(b, r, m, k) : k \in {1, 2}}
  OBVIOUS
<1>7. Changed(HeldInPool, HeldInPool', items, {}) /\ PoolTypes'
  BY <1>1, <1>2, <1>3, <1>5, <1>6, PoolTake
<1>8. items \subseteq All(Rest)
  BY <1>7 DEF Changed, All, Held
<1>. QED
  BY <1>1, <1>3, <1>4, <1>6, <1>7, <1>8 DEF RedexItems

LEMMA VoidKeeps ==
  ASSUME NEW Rest, Elsewhere(Rest), NetInv(Rest), program' = program, NEW t \in Thread, Void(t)
  PROVE  NetInv(Rest)' /\ Confined(t)
<1>1. PICK r \in Redexes(t, "VOID") :
        Take(t, r) /\ UNCHANGED <<node_buf, vars_buf, nput, vput, pc, todo, oper>>
  BY DEF Void
<1>2. /\ BufTypes /\ PoolTypes /\ ThreadTypes /\ Balanced(Rest) /\ program \in DOMAIN Book
      /\ ThreadInv(t) /\ RuleOf(r) = "VOID" /\ IsPair(r) /\ PoolTypes'
  BY <1>1, Taken
<1>3. PICK b, m : /\ RedexItems(b, r, m) \subseteq All(Rest)
                  /\ Changed(HeldInPool, HeldInPool', RedexItems(b, r, m), {})
  BY <1>1, Taken
<1>4. PICK o : o = RedexItems(b, r, m)
  OBVIOUS
<1>5. Changed(All(Rest), All(Rest)', o, {})
  <2>1. /\ HeldInNodes' = HeldInNodes /\ HeldInVars' = HeldInVars /\ HeldInTodo' = HeldInTodo
        /\ HeldInOper' = HeldInOper
    BY <1>1 DEF HeldInNodes, HeldInVars, HeldInTodo, HeldInOper
  <2>2. /\ Changed(HeldInNodes, HeldInNodes', {}, {}) /\ Changed(HeldInVars, HeldInVars', {}, {})
        /\ Changed(HeldInTodo, HeldInTodo', {}, {}) /\ Changed(HeldInOper, HeldInOper', {}, {})
    BY <2>1, Unchanged
  <2>3. Changed(HeldInPool, HeldInPool', o, {})
    BY <1>3, <1>4
  <2>4. Changed(All(Rest), All(Rest)', {} \cup {} \cup o \cup {} \cup {}, {} \cup {} \cup {} \cup {} \cup {})
    BY <2>2, <2>3, NetChanged
  <2>5. /\ {} \cup {} \cup o \cup {} \cup {} = o /\ {} \cup {} \cup {} \cup {} \cup {} = {}
    OBVIOUS
  <2>. QED
    BY <2>4, <2>5
<1>6. PICK e : e = <<>>
  OBVIOUS
<1>7. Rearranged(All(Rest), All(Rest)', o, {}, e, {}, e)
  BY <1>5 DEF Changed, Rearranged
<1>8. \A h \in o : Key(h[2]) = NONE
  <2>1. PICK p, q, x, y : /\ Meets(r, p, q, x, y)
                          /\ RuleOf(r) = "VOID" => tag(p) \in Nullary /\ tag(q) \in Nullary
    BY <1>2, RedexMeets
  <2>2. \A k \in {1, 2} : Key(r[k]) = NONE
    BY <1>2, <2>1 DEF Meets, Key, is_var, is_nod, Nodes, Nullary
  <2>. QED
    BY <1>4, <2>2 DEF RedexItems, PoolItem
<1>9. \A c \in Loc : OwedVar(c)' = OwedVar(c) /\ OwedNode(c)' = OwedNode(c)
  BY <1>1 DEF OwedVar, OwedNode
<1>10. Balanced(Rest)'
  BY <1>2, <1>7, <1>8, <1>9, MovedAll
<1>11. ThreadTypes'
  <2>1. \A u : IsOper(u, oper[u])' <=> IsOper(u, oper[u])
    BY <1>1, PortsKept DEF IsOper
  <2>2. \A u : IsList(todo[u])' <=> IsList(todo[u])
    BY <1>1, PortsKept
  <2>. QED
    BY <1>1, <1>2, <2>1, <2>2 DEF ThreadTypes, ThreadInv, Linking
<1>12. BufTypes'
  BY <1>1, <1>2, PortsKept DEF BufTypes
<1>13. Confined(t)
  <2>1. PoolConfined(t)
    BY <1>1, <1>2, BagConfined DEF Redexes, Take
  <2>. QED
    BY <1>1, <2>1 DEF Confined, PortsConfined, May, Reached, InHand
<1>. QED
  BY <1>2, <1>10, <1>11, <1>12, <1>13 DEF NetInv

\* An interaction of thread t takes the redex r and the nodes in the cells taken,
\* stores m nodes at the first of the cells n, creates the variables v and links
\* the pairs.
Rewrites(t, r, taken, n, v, l, stored, m, pairs) ==
  /\ program' = program /\ Take(t, r) /\ oper' = oper
  /\ RewritesCells(t, taken, n, v, l, stored, m)
  /\ \A j \in 1 .. m : IsPair(stored[j]) /\ stored[j] # FREE_NODE
  /\ IsList(pairs) /\ Links(t, pairs)
  /\ nput' \in [Thread -> Nat] /\ vput' \in [Thread -> Nat]

\* What has become of the cells.
Stored(t, taken, n, v, l, stored, m) ==
  /\ DOMAIN node_buf' = Loc /\ DOMAIN vars_buf' = Loc
  /\ \A j \in 1 .. m : /\ node_buf'[n[j]] = stored[j] /\ n[j] \notin taken
                       /\ n[j] \in Loc \ {0} /\ n[j] \in Part(t) /\ node_buf[n[j]] = FREE_NODE
  /\ \A i, j \in 1 .. m : n[i] = n[j] => i = j
  /\ \A c \in taken : node_buf'[c] = FREE_NODE /\ c \in Loc /\ node_buf[c] # FREE_NODE
  /\ \A c \in Loc : c \notin taken /\ (\A j \in 1 .. m : n[j] # c) =>
       node_buf'[c] = node_buf[c]
  /\ \A j \in 1 .. l : /\ vars_buf'[v[j]] = NONE /\ v[j] \in Loc \ {0} /\ v[j] \in Part(t)
                       /\ vars_buf[v[j]] = FREE
  /\ \A i, j \in 1 .. l : v[i] = v[j] => i = j
  /\ \A c \in Loc : (\A j \in 1 .. l : v[j] # c) => vars_buf'[c] = vars_buf[c]

LEMMA CellsStored ==
  ASSUME NEW t, NEW taken, NEW n, NEW v, NEW l, NEW stored, NEW m,
         RewritesCells(t, taken, n, v, l, stored, m)
  PROVE  Stored(t, taken, n, v, l, stored, m)
<1>2. PICK k \in Nat : m <= k /\ Fresh(n, k, t, node_buf, FREE_NODE)
  BY DEF RewritesCells
<1>3. l \in Nat /\ Fresh(v, l, t, vars_buf, FREE) /\ m \in Nat
  BY DEF RewritesCells
<1>4. /\ DOMAIN node_buf' = Loc /\ DOMAIN vars_buf' = Loc
      /\ \A j \in 1 .. m : node_buf'[n[j]] = stored[j] /\ n[j] \notin taken
      /\ \A c \in taken : node_buf'[c] = FREE_NODE
      /\ \A c \in Loc : c \notin taken /\ (\A j \in 1 .. m : n[j] # c) =>
           node_buf'[c] = node_buf[c]
      /\ \A j \in 1 .. l : vars_buf'[v[j]] = NONE
      /\ \A c \in Loc : (\A j \in 1 .. l : v[j] # c) => vars_buf'[c] = vars_buf[c]
  BY RewriteCells
<1>5. \A j \in 1 .. m : j \in 1 .. k
  BY <1>2, <1>3
<1>6. \A j \in 1 .. m : n[j] \in Loc \ {0} /\ n[j] \in Part(t) /\ node_buf[n[j]] = FREE_NODE
  BY <1>2, <1>5 DEF Fresh
<1>7. \A i, j \in 1 .. m : n[i] = n[j] => i = j
  BY <1>2, <1>5 DEF Fresh
<1>8. /\ \A j \in 1 .. l : v[j] \in Loc \ {0} /\ v[j] \in Part(t) /\ vars_buf[v[j]] = FREE
      /\ \A i, j \in 1 .. l : v[i] = v[j] => i = j
  BY <1>3 DEF Fresh
<1>9. \A c \in taken : c \in Loc /\ node_buf[c] # FREE_NODE
  BY DEF RewritesCells
<1>. QED
  BY <1>4, <1>6, <1>7, <1>8, <1>9 DEF Stored

LEMMA CellsTyped ==
  ASSUME BufTypes, program' = program, NEW t, NEW taken, NEW n, NEW v, NEW l, NEW stored, NEW m,
         Stored(t, taken, n, v, l, stored, m), \A j \in 1 .. m : IsPair(stored[j]),
         nput' \in [Thread -> Nat], vput' \in [Thread -> Nat]
  PROVE  BufTypes'
<1>. USE DEF Stored
<1>1. IsPort(FREE) /\ IsPair(FREE_NODE)
  BY Sizes DEF IsPort, IsPair, FREE_NODE, FREE, VarP, is_var, is_nod, tag, val, Nodes
<1>2. \A c \in Loc : IsPair(node_buf[c])'
  <2>. SUFFICES ASSUME NEW c \in Loc PROVE IsPair(node_buf[c])'
    OBVIOUS
  <2>1. PICK q : q = node_buf'[c]
    OBVIOUS
  <2>2. IsPair(q)
    <3>1. CASE c \in taken
      BY <1>1, <2>1, <3>1
    <3>2. CASE \E j \in 1 .. m : n[j] = c
      BY <2>1, <3>2
    <3>3. CASE c \notin taken /\ \A j \in 1 .. m : n[j] # c
      BY <2>1, <3>3 DEF BufTypes
    <3>. QED
      BY <3>1, <3>2, <3>3
  <2>3. IsPair(q)'
    BY <2>2, PortsKept
  <2>. QED
    BY <2>1, <2>3
<1>3. \A c \in Loc : vars_buf'[c] = NONE \/ IsPort(vars_buf[c])'
  <2>. SUFFICES ASSUME NEW c \in Loc PROVE vars_buf'[c] = NONE \/ IsPort(vars_buf[c])'
    OBVIOUS
  <2>1. PICK q : q = vars_buf'[c]
    OBVIOUS
  <2>2. q = NONE \/ IsPort(q)
    BY <2>1 DEF BufTypes
  <2>3. q = NONE \/ IsPort(q)'
    BY <2>2, PortsKept
  <2>. QED
    BY <2>1, <2>3
<1>4. vars_buf'[0] = FREE
  BY Sizes DEF BufTypes
<1>. QED
  BY <1>2, <1>3, <1>4 DEF BufTypes

LEMMA CellsOwed ==
  ASSUME NEW t, NEW taken, NEW n, NEW v, NEW l, NEW stored, NEW m,
         Stored(t, taken, n, v, l, stored, m), \A j \in 1 .. m : stored[j] # FREE_NODE,
         NEW c \in Loc
  PROVE  /\ c \in taken => OwedNode(c)' = OwedNode(c) - 1 + 0
         /\ (\E j \in 1 .. m : n[j] = c) => OwedNode(c)' = OwedNode(c) - 0 + 1 /\ c \notin taken
         /\ c \notin taken /\ ~(\E j \in 1 .. m : n[j] = c) => OwedNode(c)' = OwedNode(c) - 0 + 0
         /\ (\E j \in 1 .. l : v[j] = c) => OwedVar(c)' = OwedVar(c) - 0 + 2
         /\ ~(\E j \in 1 .. l : v[j] = c) => OwedVar(c)' = OwedVar(c) - 0 + 0
<1>. USE DEF Stored
<1>1. NONE # FREE
  BY DEF NONE, FREE, VarP
<1>2. c \in taken => OwedNode(c)' = OwedNode(c) - 1 + 0
  BY DEF OwedNode
<1>3. (\E j \in 1 .. m : n[j] = c) => OwedNode(c)' = OwedNode(c) - 0 + 1 /\ c \notin taken
  BY DEF OwedNode
<1>4. c \notin taken /\ ~(\E j \in 1 .. m : n[j] = c) => OwedNode(c)' = OwedNode(c) - 0 + 0
  BY DEF OwedNode
<1>5. (\E j \in 1 .. l : v[j] = c) => OwedVar(c)' = OwedVar(c) - 0 + 2
  BY <1>1 DEF OwedVar
<1>6. ~(\E j \in 1 .. l : v[j] = c) => OwedVar(c)' = OwedVar(c) - 0 + 0
  BY DEF OwedVar
<1>. QED
  BY <1>2, <1>3, <1>4, <1>5, <1>6

LEMMA RewritesTyped ==
  ASSUME NEW Rest, Elsewhere(Rest), NetInv(Rest), NEW t \in Thread, NEW rule, NEW r \in Redexes(t, rule),
         NEW taken, NEW n, NEW v, NEW l, NEW stored, NEW m, NEW pairs,
         Rewrites(t, r, taken, n, v, l, stored, m, pairs)
  PROVE  BufTypes' /\ ThreadTypes' /\ PoolTypes'
<1>1. program' = program /\ Take(t, r) /\ oper' = oper
  BY DEF Rewrites
<1>2. /\ BufTypes /\ PoolTypes /\ ThreadTypes
      /\ ThreadInv(t) /\ pc[t] = "idle" /\ todo[t] = <<>> /\ oper[t] = <<>>
      /\ PoolTypes'
  BY <1>1, Taken
<1>3. Stored(t, taken, n, v, l, stored, m)
  BY CellsStored DEF Rewrites
<1>4. BufTypes'
  BY <1>1, <1>2, <1>3, CellsTyped DEF Rewrites
<1>5. ThreadTypes'
  <2>1. /\ DOMAIN pc' = Thread /\ DOMAIN todo' = Thread
        /\ \A u \in Thread \ {t} : pc'[u] = pc[u] /\ todo'[u] = todo[u]
        /\ ThreadInv(t)'
    <3>1. IsList(pairs) /\ Links(t, pairs) /\ oper'[t] = <<>>
      BY <1>1, <1>2 DEF Rewrites
    <3>. QED
      BY <1>1, <1>2, <3>1, LinksTyped
  <2>2. \A u \in Thread \ {t} : \A c \in Part(u) :
          node_buf[c] = FREE_NODE => node_buf'[c] = FREE_NODE
    <3>. SUFFICES ASSUME NEW u \in Thread \ {t}, NEW c \in Part(u), node_buf[c] = FREE_NODE
                  PROVE  node_buf'[c] = FREE_NODE
      OBVIOUS
    <3>1. c \in Loc /\ c \notin Part(t)
      BY Sizes
    <3>2. \A j \in 1 .. m : n[j] # c
      BY <1>3, <3>1 DEF Stored
    <3>. QED
      BY <1>3, <3>1, <3>2 DEF Stored
  <2>. QED
    BY <1>1, <1>2, <2>1, <2>2, ThreadsKept DEF ThreadTypes
<1>. QED
  BY <1>2, <1>4, <1>5

\* The places of the ports it writes, the ports, and their items.
Spots(m, q) == ({"node"} \X (1 .. m) \X {1, 2}) \cup ({"pair"} \X (1 .. q) \X {1, 2})
Contents(stored, pairs, s) ==
  IF s[1] = "node" THEN stored[s[2]][s[3]] ELSE pairs[s[2]][s[3]]
ItemAt(t, n, stored, pairs, s) ==
  IF s[1] = "node" THEN NodeItem(n[s[2]], s[3], stored[s[2]][s[3]])
  ELSE TodoItem(t, Len(pairs) - s[2], s[3], pairs[s[2]][s[3]])
StoredItems(n, stored, m) == {NodeItem(n[i], k, stored[i][k]) : i \in 1 .. m, k \in {1, 2}}
Remains(taken) == {NodeItem(c, k, node_buf[c][k]) : c \in taken, k \in {1, 2}}

Replaced(H, G, Old, S, at) ==
  /\ Old \subseteq H
  /\ G = (H \ Old) \cup {at[s] : s \in S}
  /\ \A s \in S : at[s] \notin H \ Old
  /\ \A s, u \in S : at[s] = at[u] => s = u

\* The items of the step, those of the redex being in the bag b.
Placed(Rest, r, taken, stored, m, pairs, b, e, at) ==
  /\ RedexItems(b, r, e) \subseteq All(Rest)
  /\ Replaced(All(Rest), All(Rest)', Remains(taken) \cup RedexItems(b, r, e), Spots(m, Len(pairs)), at)
  /\ \A s \in Spots(m, Len(pairs)) : at[s][2] = Contents(stored, pairs, s)

LEMMA InSpots ==
  ASSUME NEW m, NEW q
  PROVE  \A s : s \in Spots(m, q) <=>
           \/ \E i \in 1 .. m, k \in {1, 2} : s = <<"node", i, k>>
           \/ \E i \in 1 .. q, k \in {1, 2} : s = <<"pair", i, k>>
BY DEF Spots

LEMMA ItemsApart ==
  ASSUME NEW t, NEW n, NEW stored, NEW pairs, NEW m, NEW q \in Nat, q = Len(pairs),
         \A i, j \in 1 .. m : n[i] = n[j] => i = j,
         NEW s \in Spots(m, q), NEW u \in Spots(m, q),
         ItemAt(t, n, stored, pairs, s) = ItemAt(t, n, stored, pairs, u)
  PROVE  s = u
<1>1. ASSUME NEW i \in 1 .. m, NEW k, s = <<"node", i, k>>,
             NEW j \in 1 .. m, NEW l, u = <<"node", j, l>>
      PROVE  s = u
  <2>1. PICK a, b : a = stored[i][k] /\ b = stored[j][l]
    OBVIOUS
  <2>2. NodeItem(n[i], k, a) = NodeItem(n[j], l, b)
    BY <1>1, <2>1 DEF ItemAt
  <2>3. n[i] = n[j] /\ k = l
    BY <2>2 DEF NodeItem
  <2>. QED
    BY <1>1, <2>3
<1>2. ASSUME NEW i \in 1 .. q, NEW k, s = <<"pair", i, k>>,
             NEW j \in 1 .. q, NEW l, u = <<"pair", j, l>>
      PROVE  s = u
  <2>1. PICK a, b, c, d : a = pairs[i][k] /\ b = pairs[j][l] /\ c = q - i /\ d = q - j
    OBVIOUS
  <2>2. TodoItem(t, c, k, a) = TodoItem(t, d, l, b)
    BY <1>2, <2>1 DEF ItemAt
  <2>3. c = d /\ k = l
    BY <2>2 DEF TodoItem
  <2>4. i = j
    BY <2>1, <2>3
  <2>. QED
    BY <1>2, <2>3, <2>4
<1>3. ASSUME NEW i, NEW k, s = <<"node", i, k>>, NEW j, NEW l, u = <<"pair", j, l>>
      PROVE  FALSE
  BY <1>3 DEF ItemAt, NodeItem, TodoItem
<1>4. ASSUME NEW i, NEW k, s = <<"pair", i, k>>, NEW j, NEW l, u = <<"node", j, l>>
      PROVE  FALSE
  BY <1>4 DEF ItemAt, NodeItem, TodoItem
<1>. QED
  BY <1>1, <1>2, <1>3, <1>4, InSpots

\* The items of the nodes stored and of the pairs.
LEMMA SpotItems ==
  ASSUME NEW t, NEW n, NEW stored, NEW m, NEW pairs, IsList(pairs),
         \A i, j \in 1 .. m : n[i] = n[j] => i = j, NEW S, S = Spots(m, Len(pairs))
  PROVE  \E at : /\ {at[s] : s \in S} = StoredItems(n, stored, m) \cup ListItems(t, pairs)
                 /\ \A s, u \in S : at[s] = at[u] => s = u
                 /\ \A s \in S : at[s][2] = Contents(stored, pairs, s)
                 /\ \A s \in S : at[s][1][1] \in {"node", "todo"}
<1>1. PICK q : q = Len(pairs) /\ S = Spots(m, q)
  OBVIOUS
<1>2. q \in Nat /\ DOMAIN pairs = 1 .. q
  <2>1. PICK V : pairs \in Seq(V)
    BY DEF IsList
  <2>. QED
    BY <1>1, <2>1
<1>3. PICK at : at = [s \in S |-> ItemAt(t, n, stored, pairs, s)]
  OBVIOUS
<1>4. \A s \in S : at[s][2] = Contents(stored, pairs, s)
  BY <1>3 DEF ItemAt, Contents, NodeItem, TodoItem
<1>5. PICK N, P : N = StoredItems(n, stored, m) /\ P = ListItems(t, pairs)
  OBVIOUS
<1>6. \A h : h \in N <=> \E i \in 1 .. m, k \in {1, 2} : h = NodeItem(n[i], k, stored[i][k])
  BY <1>5 DEF StoredItems
<1>7. {at[s] : s \in S} = N \cup P
  <2>1. \A i, k : ItemAt(t, n, stored, pairs, <<"node", i, k>>) = NodeItem(n[i], k, stored[i][k])
    BY DEF ItemAt
  <2>2. \A i, k : ItemAt(t, n, stored, pairs, <<"pair", i, k>>) = TodoItem(t, q - i, k, pairs[i][k])
    BY <1>1 DEF ItemAt
  <2>3. P = {TodoItem(t, q - i, k, pairs[i][k]) : i \in 1 .. q, k \in {1, 2}}
    BY <1>1, <1>2, <1>5 DEF ListItems
  <2>4. \A s \in S : at[s] \in N \cup P
    <3>. SUFFICES ASSUME NEW s \in S PROVE at[s] \in N \/ at[s] \in P
      OBVIOUS
    <3>1. CASE \E i \in 1 .. m, k \in {1, 2} : s = <<"node", i, k>>
      BY <1>3, <1>6, <2>1, <3>1
    <3>2. CASE \E i \in 1 .. q, k \in {1, 2} : s = <<"pair", i, k>>
      BY <1>3, <2>2, <2>3, <3>2
    <3>. QED
      BY <1>1, <3>1, <3>2, InSpots
  <2>5. \A h \in N : \E s \in S : at[s] = h
    <3>. SUFFICES ASSUME NEW i \in 1 .. m, NEW k \in {1, 2}
                  PROVE  \E s \in S : at[s] = NodeItem(n[i], k, stored[i][k])
      BY <1>6
    <3>1. <<"node", i, k>> \in S
      BY <1>1, InSpots
    <3>. QED
      BY <1>3, <2>1, <3>1
  <2>6. \A h \in P : \E s \in S : at[s] = h
    <3>. SUFFICES ASSUME NEW i \in 1 .. q, NEW k \in {1, 2}
                  PROVE  \E s \in S : at[s] = TodoItem(t, q - i, k, pairs[i][k])
      BY <2>3
    <3>1. <<"pair", i, k>> \in S
      BY <1>1, InSpots
    <3>. QED
      BY <1>3, <2>2, <3>1
  <2>. QED
    BY <2>4, <2>5, <2>6
<1>8. \A s, u \in S : at[s] = at[u] => s = u
  <2>. SUFFICES ASSUME NEW s \in S, NEW u \in S, at[s] = at[u] PROVE s = u
    OBVIOUS
  <2>1. ItemAt(t, n, stored, pairs, s) = ItemAt(t, n, stored, pairs, u)
    BY <1>3
  <2>. QED
    BY <1>1, <1>2, <2>1, ItemsApart
<1>9. \A s \in S : at[s][1][1] \in {"node", "todo"}
  BY <1>3 DEF ItemAt, NodeItem, TodoItem
<1>. QED
  BY <1>4, <1>5, <1>7, <1>8, <1>9

\* What the nodes and the variables hold.
LEMMA CellsHeld ==
  ASSUME NEW t, NEW taken, NEW n, NEW v, NEW l, NEW stored, NEW m,
         Stored(t, taken, n, v, l, stored, m), \A j \in 1 .. m : stored[j] # FREE_NODE
  PROVE  /\ Changed(HeldInNodes, HeldInNodes', Remains(taken), StoredItems(n, stored, m))
         /\ Changed(HeldInVars, HeldInVars', {}, {})
<1>0. /\ \A j \in 1 .. m : /\ node_buf'[n[j]] = stored[j] /\ n[j] \in Loc
                            /\ node_buf[n[j]] = FREE_NODE
      /\ \A c \in taken : node_buf'[c] = FREE_NODE /\ c \in Loc /\ node_buf[c] # FREE_NODE
      /\ \A c \in Loc : c \notin taken /\ (\A j \in 1 .. m : n[j] # c) =>
           node_buf'[c] = node_buf[c]
  BY DEF Stored
<1>1. PICK N : N = StoredItems(n, stored, m)
  OBVIOUS
<1>2. \A h : h \in N <=> \E i \in 1 .. m, k \in {1, 2} : h = NodeItem(n[i], k, stored[i][k])
  BY <1>1 DEF StoredItems
<1>3. Changed(HeldInNodes, HeldInNodes', Remains(taken), N)
  <2>1. PICK T : T = taken \cup {n[j] : j \in 1 .. m}
    OBVIOUS
  <2>2. T \in SUBSET Loc
    BY <1>0, <2>1
  <2>3. \A c \in Loc \ T : node_buf'[c] = node_buf[c]
    BY <1>0, <2>1
  <2>4. Changed(HeldInNodes, HeldInNodes', UNION {NodeItems(c, node_buf[c]) : c \in T},
                UNION {NodeItems(c, node_buf'[c]) : c \in T})
    BY <2>2, <2>3, NodesChanged
  <2>5. UNION {NodeItems(c, node_buf[c]) : c \in T} = Remains(taken)
    <3>1. \A c \in taken : NodeItems(c, node_buf[c]) = {NodeItem(c, k, node_buf[c][k]) : k \in {1, 2}}
      BY <1>0 DEF NodeItems
    <3>2. \A j \in 1 .. m : NodeItems(n[j], node_buf[n[j]]) = {}
      BY <1>0 DEF NodeItems
    <3>3. \A h : h \in UNION {NodeItems(c, node_buf[c]) : c \in T} <=>
                   \E c \in taken : h \in NodeItems(c, node_buf[c])
      BY <2>1, <3>2
    <3>4. \A h : h \in Remains(taken) <=> \E c \in taken, k \in {1, 2} : h = NodeItem(c, k, node_buf[c][k])
      BY DEF Remains
    <3>5. \A h : h \in UNION {NodeItems(c, node_buf[c]) : c \in T} <=> h \in Remains(taken)
      <4>1. ASSUME NEW h, NEW c \in taken
            PROVE  h \in NodeItems(c, node_buf[c]) <=> \E k \in {1, 2} : h = NodeItem(c, k, node_buf[c][k])
        BY <3>1
      <4>. QED
        BY <3>3, <3>4, <4>1
    <3>. QED
      BY <3>5
  <2>6. UNION {NodeItems(c, node_buf'[c]) : c \in T} = N
    <3>1. \A c \in taken : NodeItems(c, node_buf'[c]) = {}
      BY <1>0 DEF NodeItems
    <3>2. \A j \in 1 .. m : NodeItems(n[j], node_buf'[n[j]])
                              = {NodeItem(n[j], k, stored[j][k]) : k \in {1, 2}}
      BY <1>0 DEF NodeItems
    <3>3. \A h : h \in UNION {NodeItems(c, node_buf'[c]) : c \in T} <=>
                   \E j \in 1 .. m : h \in NodeItems(n[j], node_buf'[n[j]])
      BY <2>1, <3>1
    <3>4. \A h : h \in N <=> \E j \in 1 .. m, k \in {1, 2} : h = NodeItem(n[j], k, stored[j][k])
      BY <1>2
    <3>5. \A h : h \in UNION {NodeItems(c, node_buf'[c]) : c \in T} <=> h \in N
      <4>1. ASSUME NEW h, NEW j \in 1 .. m
            PROVE  h \in NodeItems(n[j], node_buf'[n[j]]) <=> \E k \in {1, 2} : h = NodeItem(n[j], k, stored[j][k])
        BY <3>2
      <4>. QED
        BY <3>3, <3>4, <4>1
    <3>. QED
      BY <3>5
  <2>. QED
    BY <2>4, <2>5, <2>6
<1>4. Changed(HeldInVars, HeldInVars', {}, {})
  <2>1. \A c \in Loc : VarItems(c, vars_buf'[c]) = VarItems(c, vars_buf[c])
    <3>1. \A c \in Loc : \/ vars_buf'[c] = NONE /\ vars_buf[c] = FREE
                         \/ vars_buf'[c] = vars_buf[c]
      BY DEF Stored
    <3>. QED
      BY <3>1 DEF VarItems
  <2>2. \A h : h \in HeldInVars' <=> h \in HeldInVars
    BY <2>1, InVars
  <2>3. HeldInVars' = HeldInVars
    BY <2>2
  <2>. QED
    BY <2>3, Unchanged
<1>. QED
  BY <1>1, <1>3, <1>4

LEMMA RewritesHeld ==
  ASSUME NEW Rest, Elsewhere(Rest), NetInv(Rest), NEW t \in Thread, NEW rule, NEW r \in Redexes(t, rule),
         NEW taken, NEW n, NEW v, NEW l, NEW stored, NEW m, NEW pairs,
         Rewrites(t, r, taken, n, v, l, stored, m, pairs)
  PROVE  \E b, e, at : Placed(Rest, r, taken, stored, m, pairs, b, e, at)
<1>1. program' = program /\ Take(t, r) /\ oper' = oper
  BY DEF Rewrites
<1>2. /\ BufTypes /\ ThreadTypes /\ todo[t] = <<>>
  BY <1>1, Taken
<1>3. PICK b, e : /\ RedexItems(b, r, e) \subseteq All(Rest)
                  /\ Changed(HeldInPool, HeldInPool', RedexItems(b, r, e), {})
  BY <1>1, Taken
<1>4. Stored(t, taken, n, v, l, stored, m)
  BY CellsStored DEF Rewrites
<1>5. /\ \A j \in 1 .. m : stored[j] # FREE_NODE
      /\ IsList(pairs) /\ Links(t, pairs)
  BY DEF Rewrites
<1>6. PICK S, N, P : S = Spots(m, Len(pairs)) /\ N = StoredItems(n, stored, m) /\ P = ListItems(t, pairs)
  OBVIOUS
<1>7. PICK at : /\ {at[s] : s \in S} = N \cup P
                /\ \A s, u \in S : at[s] = at[u] => s = u
                /\ \A s \in S : at[s][2] = Contents(stored, pairs, s)
  BY <1>4, <1>5, <1>6, SpotItems DEF Stored
<1>8. Changed(HeldInNodes, HeldInNodes', Remains(taken), N) /\ Changed(HeldInVars, HeldInVars', {}, {})
  BY <1>4, <1>5, <1>6, CellsHeld
<1>9. Changed(HeldInTodo, HeldInTodo', {}, P)
  <2>1. Changed(ListItems(t, todo[t]), ListItems(t, pairs), {}, P)
    BY <1>2, <1>6, ListEmpty DEF Changed
  <2>2. todo' = [todo EXCEPT ![t] = pairs]
    BY <1>5 DEF Links
  <2>. QED
    BY <1>2, <2>1, <2>2, TodoChanged DEF ThreadTypes
<1>10. Changed(HeldInOper, HeldInOper', {}, {})
  <2>1. HeldInOper' = HeldInOper
    BY <1>1 DEF HeldInOper
  <2>. QED
    BY <2>1, Unchanged
<1>11. PICK R, X : R = Remains(taken) /\ X = RedexItems(b, r, e)
  OBVIOUS
<1>12. Changed(All(Rest), All(Rest)', R \cup X, N \cup P)
  <2>1. Changed(All(Rest), All(Rest)', R \cup {} \cup X \cup {} \cup {}, N \cup {} \cup {} \cup P \cup {})
    BY <1>3, <1>8, <1>9, <1>10, <1>11, NetChanged
  <2>2. R \cup {} \cup X \cup {} \cup {} = R \cup X /\ N \cup {} \cup {} \cup P \cup {} = N \cup P
    OBVIOUS
  <2>. QED
    BY <2>1, <2>2
<1>13. Replaced(All(Rest), All(Rest)', R \cup X, S, at)
  BY <1>7, <1>12 DEF Changed, Replaced
<1>14. Placed(Rest, r, taken, stored, m, pairs, b, e, at)
  BY <1>3, <1>6, <1>7, <1>11, <1>13 DEF Placed
<1>. QED
  BY <1>14

\* The ports at the spots of I are those of the nodes taken, each once.
Moves(taken, stored, m, pairs, I, from) ==
  /\ I \subseteq Spots(m, Len(pairs))
  /\ \A s \in I : \E c \in taken, k \in {1, 2} :
       from[s] = <<c, k>> /\ Contents(stored, pairs, s) = node_buf[c][k]
  /\ \A s, u \in I : from[s] = from[u] => s = u
  /\ \A c \in taken, k \in {1, 2} : \E s \in I : from[s] = <<c, k>>

\* The other spots name each variable created twice, and each node stored once.
Written(stored, m, pairs, I, x) ==
  {s \in Spots(m, Len(pairs)) \ I : Key(Contents(stored, pairs, s)) = x}
Makes(n, v, l, stored, m, pairs, I) ==
  \A c \in Loc :
    /\ Counted(Written(stored, m, pairs, I, <<"VAR", c>>), IF \E j \in 1 .. l : v[j] = c THEN 2 ELSE 0)
    /\ Counted(Written(stored, m, pairs, I, <<"NODE", c>>), IF \E j \in 1 .. m : n[j] = c THEN 1 ELSE 0)

LEMMA PlacedMakes ==
  ASSUME NEW Rest, NEW r, NEW taken, NEW n, NEW v, NEW l, NEW stored, NEW m, NEW pairs, NEW b, NEW e, NEW at,
         Placed(Rest, r, taken, stored, m, pairs, b, e, at), NEW I, Makes(n, v, l, stored, m, pairs, I)
  PROVE  \A c \in Loc :
           /\ Counted(Made(Spots(m, Len(pairs)), at, I, <<"VAR", c>>), IF \E j \in 1 .. l : v[j] = c THEN 2 ELSE 0)
           /\ Counted(Made(Spots(m, Len(pairs)), at, I, <<"NODE", c>>), IF \E j \in 1 .. m : n[j] = c THEN 1 ELSE 0)
<1>1. \A x : Made(Spots(m, Len(pairs)), at, I, x) = Written(stored, m, pairs, I, x)
  BY DEF Made, Written, Placed
<1>. QED
  BY <1>1 DEF Makes

\* A port a step writes names what it has allocated, if it is not one it moves.
LEMMA MadeHere ==
  ASSUME NEW t \in Thread, NEW r, NEW taken, NEW n, NEW v, NEW l, NEW stored, NEW m, NEW pairs,
         Rewrites(t, r, taken, n, v, l, stored, m, pairs),
         NEW I, Makes(n, v, l, stored, m, pairs, I), NEW s \in Spots(m, Len(pairs)) \ I
  PROVE  May(t, Contents(stored, pairs, s))
<1>1. PICK p : p = Contents(stored, pairs, s)
  OBVIOUS
<1>2. IsPort(p)
  <2>1. /\ \A i \in 1 .. m : IsPair(stored[i])
        /\ \A i \in 1 .. Len(pairs) : IsPair(pairs[i])
    <3>1. PICK S : pairs \in Seq(S)
      BY DEF Rewrites, IsList
    <3>. QED
      BY <3>1 DEF Rewrites, IsList
  <2>2. \/ \E i \in 1 .. m, k \in {1, 2} : s = <<"node", i, k>>
        \/ \E i \in 1 .. Len(pairs), k \in {1, 2} : s = <<"pair", i, k>>
    BY InSpots
  <2>3. CASE \E i \in 1 .. m, k \in {1, 2} : s = <<"node", i, k>>
    BY <1>1, <2>1, <2>3 DEF Contents, IsPair
  <2>4. CASE \E i \in 1 .. Len(pairs), k \in {1, 2} : s = <<"pair", i, k>>
    BY <1>1, <2>1, <2>4 DEF Contents, IsPair
  <2>. QED
    BY <2>2, <2>3, <2>4
<1>3. Stored(t, taken, n, v, l, stored, m)
  BY CellsStored DEF Rewrites
<1>4. ASSUME NEW x, x = Key(p) PROVE ~Counted(Written(stored, m, pairs, I, x), 0)
  <2>1. s \in Written(stored, m, pairs, I, x)
    BY <1>1, <1>4 DEF Written
  <2>. QED
    BY <2>1, CountedEmpty
<1>5. ASSUME is_var(p) PROVE val(p) \in Part(t)
  <2>1. PICK c \in Loc : c = val(p) /\ Key(p) = <<"VAR", c>>
    BY <1>2, <1>5, Keys DEF IsPort
  <2>2. \E j \in 1 .. l : v[j] = c
    BY <1>4, <2>1 DEF Makes
  <2>. QED
    BY <1>3, <2>1, <2>2 DEF Stored
<1>6. ASSUME is_nod(p) PROVE val(p) \in Part(t)
  <2>1. PICK c \in Loc : c = val(p) /\ Key(p) = <<"NODE", c>>
    BY <1>2, <1>6, Keys DEF IsPort
  <2>2. \E j \in 1 .. m : n[j] = c
    BY <1>4, <2>1 DEF Makes
  <2>. QED
    BY <1>3, <2>1, <2>2 DEF Stored
<1>. QED
  BY <1>1, <1>5, <1>6 DEF May

LEMMA RewritesConfined ==
  ASSUME NEW Rest, NetInv(Rest), NEW t \in Thread, NEW r,
         NEW taken, NEW n, NEW v, NEW l, NEW stored, NEW m, NEW pairs,
         Rewrites(t, r, taken, n, v, l, stored, m, pairs), r \in DOMAIN pool[BagOf[t]],
         \A s \in Spots(m, Len(pairs)) : May(t, Contents(stored, pairs, s))
  PROVE  Confined(t)
<1>1. Stored(t, taken, n, v, l, stored, m)
  BY CellsStored DEF Rewrites
<1>2. Take(t, r) /\ oper' = oper /\ Links(t, pairs) /\ IsList(pairs)
  BY DEF Rewrites
<1>3. ASSUME NEW c \in Loc
      PROVE  \/ node_buf'[c] \in {node_buf[c], FREE_NODE}
             \/ c \in Part(t) /\ \A k \in {1, 2} : May(t, node_buf'[c][k])
  <2>1. CASE \E j \in 1 .. m : n[j] = c
    <3>1. PICK j \in 1 .. m : n[j] = c
      BY <2>1
    <3>2. ASSUME NEW k \in {1, 2} PROVE May(t, stored[j][k])
      <4>1. PICK s : s = <<"node", j, k>>
        OBVIOUS
      <4>2. s \in Spots(m, Len(pairs)) /\ Contents(stored, pairs, s) = stored[j][k]
        BY <4>1, InSpots DEF Contents
      <4>. QED
        BY <4>2
    <3>. QED
      BY <1>1, <3>1, <3>2 DEF Stored
  <2>2. CASE c \in taken
    BY <1>1, <2>2 DEF Stored
  <2>3. CASE c \notin taken /\ ~(\E j \in 1 .. m : n[j] = c)
    BY <1>1, <2>3 DEF Stored
  <2>. QED
    BY <2>1, <2>2, <2>3
<1>4. \A c \in Loc : vars_buf'[c] \in {vars_buf[c], FREE, NONE}
  BY <1>1 DEF Stored
<1>5. PoolConfined(t)
  BY <1>2, BagConfined DEF NetInv, Take
<1>6. /\ \A u \in Thread \ {t} : todo'[u] = todo[u] /\ oper'[u] = oper[u]
      /\ todo'[t] = pairs /\ oper'[t] = <<>>
  <2>1. DOMAIN todo = Thread /\ ThreadInv(t)
    BY DEF NetInv, ThreadTypes
  <2>2. oper[t] = <<>>
    BY <1>2, <2>1 DEF ThreadInv, Take
  <2>. QED
    BY <1>2, <2>1, <2>2 DEF Links
<1>7. ASSUME NEW i \in DOMAIN pairs, NEW k \in {1, 2} PROVE May(t, pairs[i][k])
  <2>1. PICK S : pairs \in Seq(S)
    BY <1>2 DEF IsList
  <2>2. PICK s : s = <<"pair", i, k>>
    OBVIOUS
  <2>3. s \in Spots(m, Len(pairs)) /\ Contents(stored, pairs, s) = pairs[i][k]
    BY <2>1, <2>2, InSpots DEF Contents
  <2>. QED
    BY <2>3
<1>. QED
  BY <1>3, <1>4, <1>5, <1>6, <1>7 DEF Confined, PortsConfined

LEMMA InteractionKeeps ==
  ASSUME NEW Rest, Elsewhere(Rest), NetInv(Rest), NEW t \in Thread, NEW rule, NEW r \in Redexes(t, rule),
         NEW taken, NEW n, NEW v, NEW l, NEW stored, NEW m, NEW pairs,
         Rewrites(t, r, taken, n, v, l, stored, m, pairs),
         NEW I, NEW from, Moves(taken, stored, m, pairs, I, from),
         Makes(n, v, l, stored, m, pairs, I),
         \A k \in {1, 2} : ~is_var(r[k]),
         \A c \in Loc : c \in taken <=> \E k \in {1, 2} : is_nod(r[k]) /\ val(r[k]) = c
  PROVE  NetInv(Rest)' /\ Confined(t)
<1>0. Stored(t, taken, n, v, l, stored, m) /\ \A j \in 1 .. m : stored[j] # FREE_NODE
  BY CellsStored DEF Rewrites
<1>1. program' = program /\ Take(t, r) /\ taken \in SUBSET Loc
  BY DEF Rewrites, RewritesCells
<1>2. Balanced(Rest) /\ program \in DOMAIN Book /\ IsPair(r)
  BY <1>1, Taken
<1>3. PICK b, e, at : Placed(Rest, r, taken, stored, m, pairs, b, e, at)
  BY RewritesHeld
<1>4. PICK S, Old : S = Spots(m, Len(pairs)) /\ Old = Remains(taken) \cup RedexItems(b, r, e)
  OBVIOUS
<1>5. /\ RedexItems(b, r, e) \subseteq All(Rest) /\ Replaced(All(Rest), All(Rest)', Old, S, at)
      /\ \A s \in S : at[s][2] = Contents(stored, pairs, s)
  BY <1>3, <1>4 DEF Placed
<1>6. PICK src : src = [s \in I |-> NodeItem(from[s][1], from[s][2], node_buf[from[s][1]][from[s][2]])]
  OBVIOUS
<1>7. \A s \in I : \E c \in taken, k \in {1, 2} :
        /\ from[s] = <<c, k>> /\ src[s] = NodeItem(c, k, node_buf[c][k])
        /\ Contents(stored, pairs, s) = node_buf[c][k]
  <2>. SUFFICES ASSUME NEW s \in I
                PROVE  \E c \in taken, k \in {1, 2} :
                         /\ from[s] = <<c, k>> /\ src[s] = NodeItem(c, k, node_buf[c][k])
                         /\ Contents(stored, pairs, s) = node_buf[c][k]
    OBVIOUS
  <2>1. PICK c \in taken, k \in {1, 2} :
          from[s] = <<c, k>> /\ Contents(stored, pairs, s) = node_buf[c][k]
    BY DEF Moves
  <2>2. from[s][1] = c /\ from[s][2] = k
    BY <2>1
  <2>3. src[s] = NodeItem(c, k, node_buf[c][k])
    BY <1>6, <2>2
  <2>. QED
    BY <2>1, <2>3
<1>8. Rearranged(All(Rest), All(Rest)', Old, S, at, I, src)
  <2>1. I \subseteq S
    BY <1>4 DEF Moves
  <2>2. \A s \in I : src[s] \in Old /\ src[s][2] = at[s][2]
    <3>. SUFFICES ASSUME NEW s \in I PROVE src[s] \in Old /\ src[s][2] = at[s][2]
      OBVIOUS
    <3>1. PICK c \in taken, k \in {1, 2} :
            /\ from[s] = <<c, k>> /\ src[s] = NodeItem(c, k, node_buf[c][k])
            /\ Contents(stored, pairs, s) = node_buf[c][k]
      BY <1>7
    <3>2. src[s] \in Remains(taken)
      BY <3>1 DEF Remains
    <3>. QED
      BY <1>4, <1>5, <2>1, <3>1, <3>2 DEF NodeItem
  <2>3. \A s, u \in I : src[s] = src[u] => s = u
    <3>. SUFFICES ASSUME NEW s \in I, NEW u \in I, src[s] = src[u] PROVE s = u
      OBVIOUS
    <3>1. PICK c \in taken, k \in {1, 2} :
            from[s] = <<c, k>> /\ src[s] = NodeItem(c, k, node_buf[c][k])
      BY <1>7
    <3>2. PICK d \in taken, j \in {1, 2} :
            from[u] = <<d, j>> /\ src[u] = NodeItem(d, j, node_buf[d][j])
      BY <1>7
    <3>3. c = d /\ k = j
      <4>1. PICK p, q : p = node_buf[c][k] /\ q = node_buf[d][j]
        OBVIOUS
      <4>2. NodeItem(c, k, p) = NodeItem(d, j, q)
        BY <3>1, <3>2, <4>1
      <4>. QED
        BY <4>2, NodeItemOf
    <3>. QED
      BY <3>1, <3>2, <3>3 DEF Moves
  <2>. QED
    BY <1>5, <2>1, <2>2, <2>3 DEF Replaced, Rearranged
<1>9. \A h \in Remains(taken) : \E s \in I : src[s] = h
  <2>. SUFFICES ASSUME NEW c \in taken, NEW k \in {1, 2}
                PROVE  \E s \in I : src[s] = NodeItem(c, k, node_buf[c][k])
    BY DEF Remains
  <2>1. PICK s \in I : from[s] = <<c, k>>
    BY DEF Moves
  <2>2. PICK d \in taken, j \in {1, 2} :
          from[s] = <<d, j>> /\ src[s] = NodeItem(d, j, node_buf[d][j])
    BY <1>7
  <2>3. c = d /\ k = j
    BY <2>1, <2>2
  <2>. QED
    BY <2>2, <2>3
<1>10. \A h \in RedexItems(b, r, e) : \A s \in I : src[s] # h
  BY <1>7 DEF RedexItems, PoolItem, NodeItem
<1>11. \A x : Lost(Old, I, src, x) = {h \in RedexItems(b, r, e) : Key(h[2]) = x}
  BY <1>4, <1>9, <1>10 DEF Lost
<1>12. PICK f : f = [k \in {1, 2} |-> PoolItem(b, r, e, k)]
  OBVIOUS
<1>13. /\ RedexItems(b, r, e) = {f[1], f[2]} /\ f[1] # f[2]
       /\ \A k \in {1, 2} : f[k] \in All(Rest) /\ f[k][2] = r[k] /\ IsPort(r[k])
  <2>1. RedexItems(b, r, e) = {f[1], f[2]} /\ f[1] # f[2] /\ \A k \in {1, 2} : f[k][2] = r[k]
    BY <1>12 DEF RedexItems, PoolItem
  <2>. QED
    BY <1>2, <1>5, <2>1 DEF IsPair
<1>14. \A c : Lost(Old, I, src, <<"VAR", c>>) = {}
  BY <1>11, <1>13, Keys
<1>15. ASSUME NEW c \in Loc, c \notin taken PROVE Lost(Old, I, src, <<"NODE", c>>) = {}
  <2>1. \A k \in {1, 2} : Key(f[k][2]) # <<"NODE", c>>
    BY <1>13, <1>15, Keys
  <2>. QED
    BY <1>11, <1>13, <2>1
<1>16. ASSUME NEW c \in taken PROVE \E h : Lost(Old, I, src, <<"NODE", c>>) = {h}
  <2>1. c \in Loc
    BY <1>1
  <2>2. PICK k \in {1, 2} : is_nod(r[k]) /\ val(r[k]) = c
    BY <2>1
  <2>3. Key(f[k][2]) = <<"NODE", c>> /\ f[k] \in RedexItems(b, r, e)
    BY <1>13, <2>2, Keys
  <2>4. ASSUME NEW j \in {1, 2}, Key(f[j][2]) = <<"NODE", c>> PROVE f[j] = f[k]
    <3>1. PICK h, g : h = f[k] /\ g = f[j]
      OBVIOUS
    <3>2. h \in All(Rest) /\ g \in All(Rest) /\ IsPort(h[2]) /\ is_nod(h[2]) /\ is_nod(g[2]) /\ val(h[2]) = val(g[2])
      BY <1>13, <2>2, <2>4, <3>1, Keys
    <3>. QED
      BY <1>2, <3>1, <3>2, HeldOnce
  <2>5. Lost(Old, I, src, <<"NODE", c>>) = {f[k]}
    BY <1>11, <1>13, <2>3, <2>4
  <2>. QED
    BY <2>5
<1>17. \A c \in Loc :
         /\ Counted(Made(S, at, I, <<"VAR", c>>), IF \E j \in 1 .. l : v[j] = c THEN 2 ELSE 0)
         /\ Counted(Made(S, at, I, <<"NODE", c>>), IF \E j \in 1 .. m : n[j] = c THEN 1 ELSE 0)
  BY <1>3, <1>4, PlacedMakes
<1>18. TalliedVars(Old, S, at, I, src)
  <2>. SUFFICES ASSUME NEW c \in Loc
                PROVE  \E i, j : /\ Counted(Lost(Old, I, src, <<"VAR", c>>), i)
                                 /\ Counted(Made(S, at, I, <<"VAR", c>>), j)
                                 /\ OwedVar(c)' = OwedVar(c) - i + j
    BY DEF TalliedVars
  <2>1. Counted(Lost(Old, I, src, <<"VAR", c>>), 0)
    BY <1>14, CountedSmall
  <2>2. CASE \E j \in 1 .. l : v[j] = c
    <3>1. OwedVar(c)' = OwedVar(c) - 0 + 2
      BY <1>0, <2>2, CellsOwed
    <3>. QED
      BY <1>17, <2>1, <2>2, <3>1
  <2>3. CASE ~(\E j \in 1 .. l : v[j] = c)
    <3>1. OwedVar(c)' = OwedVar(c) - 0 + 0
      BY <1>0, <2>3, CellsOwed
    <3>. QED
      BY <1>17, <2>1, <2>3, <3>1
  <2>. QED
    BY <2>2, <2>3
<1>19. TalliedNodes(Old, S, at, I, src)
  <2>. SUFFICES ASSUME NEW c \in Loc
                PROVE  \E i, j : /\ Counted(Lost(Old, I, src, <<"NODE", c>>), i)
                                 /\ Counted(Made(S, at, I, <<"NODE", c>>), j)
                                 /\ OwedNode(c)' = OwedNode(c) - i + j
    BY DEF TalliedNodes
  <2>1. /\ c \in taken => OwedNode(c)' = OwedNode(c) - 1 + 0
        /\ (\E j \in 1 .. m : n[j] = c) => OwedNode(c)' = OwedNode(c) - 0 + 1 /\ c \notin taken
        /\ c \notin taken /\ ~(\E j \in 1 .. m : n[j] = c) => OwedNode(c)' = OwedNode(c) - 0 + 0
    BY <1>0, CellsOwed
  <2>2. CASE c \in taken
    <3>1. Counted(Lost(Old, I, src, <<"NODE", c>>), 1)
      BY <1>16, <2>2, CountedSmall
    <3>2. Counted(Made(S, at, I, <<"NODE", c>>), 0)
      BY <1>17, <2>1, <2>2
    <3>. QED
      BY <2>1, <2>2, <3>1, <3>2
  <2>3. CASE c \notin taken
    <3>1. Counted(Lost(Old, I, src, <<"NODE", c>>), 0)
      BY <1>15, <2>3, CountedSmall
    <3>2. CASE \E j \in 1 .. m : n[j] = c
      BY <1>17, <2>1, <3>1, <3>2
    <3>3. CASE ~(\E j \in 1 .. m : n[j] = c)
      BY <1>17, <2>1, <2>3, <3>1, <3>3
    <3>. QED
      BY <3>2, <3>3
  <2>. QED
    BY <2>2, <2>3
<1>20. Balanced(Rest)'
  BY <1>2, <1>8, <1>18, <1>19, Rebalanced
<1>21. BufTypes' /\ ThreadTypes' /\ PoolTypes'
  BY RewritesTyped
<1>22. NetInv(Rest)'
  BY <1>1, <1>2, <1>20, <1>21 DEF NetInv
<1>23. r \in DOMAIN pool[BagOf[t]]
  BY DEF Redexes
<1>24. ASSUME NEW s \in I PROVE May(t, Contents(stored, pairs, s))
  <2>1. PICK c \in taken, j \in {1, 2} : Contents(stored, pairs, s) = node_buf[c][j]
    BY DEF Moves
  <2>2. PICK k \in {1, 2} : is_nod(r[k]) /\ val(r[k]) = c
    BY <1>1, <2>1
  <2>3. node_buf[c] # FREE_NODE
    BY <1>0, <2>1 DEF Stored
  <2>. QED
    BY <1>23, <2>1, <2>2, <2>3 DEF May, Reached
<1>25. \A s \in Spots(m, Len(pairs)) : May(t, Contents(stored, pairs, s))
  BY <1>24, MadeHere
<1>. QED
  BY <1>22, <1>23, <1>25, RewritesConfined

\* The ports of a redex that are nodes are there, and are two.
LEMMA RedexNodes ==
  ASSUME NEW Rest, Elsewhere(Rest), NetInv(Rest), program' = program,
         NEW t \in Thread, NEW rule, NEW r \in Redexes(t, rule), Take(t, r)
  PROVE  /\ \A k \in {1, 2} : is_nod(r[k]) =>
              /\ val(r[k]) \in Loc /\ node_buf[val(r[k])] # FREE_NODE
              /\ IsPair(node_buf[val(r[k])])
         /\ is_nod(r[1]) /\ is_nod(r[2]) => val(r[1]) # val(r[2])
<1>1. BufTypes /\ Balanced(Rest) /\ IsPair(r)
  BY Taken
<1>2. PICK b, e : RedexItems(b, r, e) \subseteq All(Rest)
  BY Taken
<1>3. PICK f, g : f = PoolItem(b, r, e, 1) /\ g = PoolItem(b, r, e, 2)
  OBVIOUS
<1>4. f \in All(Rest) /\ g \in All(Rest) /\ f[2] = r[1] /\ g[2] = r[2] /\ f # g
  BY <1>2, <1>3 DEF RedexItems, PoolItem
<1>5. IsPort(f[2]) /\ IsPort(g[2])
  BY <1>1, <1>4 DEF IsPair
<1>6. /\ is_nod(r[1]) => val(r[1]) \in Loc /\ node_buf[val(r[1])] # FREE_NODE
      /\ is_nod(r[2]) => val(r[2]) \in Loc /\ node_buf[val(r[2])] # FREE_NODE
  BY <1>1, <1>4, <1>5, HeldPort
<1>7. is_nod(r[1]) /\ is_nod(r[2]) => val(r[1]) # val(r[2])
  BY <1>1, <1>4, <1>5, HeldOnce
<1>8. \A k \in {1, 2} : is_nod(r[k]) => val(r[k]) \in Loc /\ node_buf[val(r[k])] # FREE_NODE
  BY <1>6
<1>. QED
  BY <1>1, <1>7, <1>8 DEF BufTypes

LEMMA NoCells ==
  ASSUME NEW t, NEW buf, NEW free
  PROVE  Fresh(<<>>, 0, t, buf, free) /\ DOMAIN <<>> = 1 .. 0
<1>1. <<>> \in Seq(Loc) /\ Len(<<>>) = 0 /\ DOMAIN <<>> = 1 .. 0
  OBVIOUS
<1>. QED
  BY <1>1 DEF Fresh

LEMMA ListTwo ==
  ASSUME NEW p, NEW q, IsPair(p), IsPair(q)
  PROVE  /\ IsList(<<p, q>>) /\ Len(<<p, q>>) = 2 /\ <<p, q>>[1] = p /\ <<p, q>>[2] = q
<1>1. PICK s : s = <<p, q>>
  OBVIOUS
<1>2. s \in Seq({p, q}) /\ Len(s) = 2 /\ DOMAIN s = {1, 2} /\ s[1] = p /\ s[2] = q
  BY <1>1
<1>3. IsList(s)
  BY <1>2 DEF IsList
<1>. QED
  BY <1>1, <1>2, <1>3

\* Nothing but an ERA, a number or a reference is written.
LEMMA MakesNothing ==
  ASSUME NEW stored, NEW m, NEW pairs, NEW I, NEW n, NEW v, m = 0,
         \A s \in Spots(m, Len(pairs)) \ I : Key(Contents(stored, pairs, s)) = NONE
  PROVE  Makes(n, v, 0, stored, m, pairs, I)
<1>1. \A c : /\ Written(stored, m, pairs, I, <<"VAR", c>>) = {}
             /\ Written(stored, m, pairs, I, <<"NODE", c>>) = {}
  BY DEF Written, NONE
<1>2. \A c : ~(\E j \in 1 .. 0 : v[j] = c) /\ ~(\E j \in 1 .. m : n[j] = c)
  OBVIOUS
<1>3. \A c : /\ (IF \E j \in 1 .. 0 : v[j] = c THEN 2 ELSE 0) = 0
             /\ (IF \E j \in 1 .. m : n[j] = c THEN 1 ELSE 0) = 0
  BY <1>2, Zenon
<1>4. Counted({}, 0)
  BY CountedSmall
<1>. QED
  BY <1>1, <1>3, <1>4, Zenon DEF Makes

LEMMA NullaryKey == \A p : tag(p) \in Nullary => Key(p) = NONE /\ ~is_var(p) /\ ~is_nod(p)
BY DEF Key, is_var, is_nod, Nullary, Nodes

LEMMA ErasKeeps ==
  ASSUME NEW Rest, Elsewhere(Rest), NetInv(Rest), program' = program, NEW t \in Thread, Eras(t)
  PROVE  NetInv(Rest)' /\ Confined(t)
<1>1. PICK r \in Redexes(t, "ERAS") \cup {x \in Redexes(t, "CALL") : Copies(x)} :
        LET a == PairOf(r)[1]
            b == PairOf(r)[2]
            B == node_buf[val(b)]
        IN  /\ Take(t, r)
            /\ get_resources(t, 0, 0)
            /\ Rewrite(t, {val(b)}, <<>>, <<>>, <<>>)
            /\ Links(t, << <<a, B[1]>>, <<a, B[2]>> >>)
            /\ UNCHANGED oper
  BY DEF Eras
<1>2. PICK rule : /\ r \in Redexes(t, rule) /\ rule \in {"ERAS", "CALL"}
                  /\ rule = "CALL" => Copies(r)
  BY <1>1
<1>3. Take(t, r) /\ oper' = oper
  BY <1>1
<1>4. BufTypes /\ RuleOf(r) = rule /\ IsPair(r)
  BY <1>2, <1>3, Taken
<1>5. PICK a, b, x, y : /\ Meets(r, a, b, x, y)
                        /\ RuleOf(r) = "CALL" => tag(a) = "REF" /\ (is_nod(b) \/ b = ROOT)
                        /\ RuleOf(r) = "ERAS" => tag(a) \in Nullary /\ is_nod(b)
  BY <1>4, RedexMeets
<1>6. tag(a) \in Nullary /\ is_nod(b)
  BY <1>2, <1>4, <1>5 DEF Copies, Meets, is_nod, Nodes, Nullary
<1>7. /\ x \in {1, 2} /\ y \in {1, 2} /\ x # y /\ a = r[x] /\ b = r[y]
      /\ PairOf(r)[1] = a /\ PairOf(r)[2] = b /\ IsPort(a)
  BY <1>5 DEF Meets
<1>8. PICK c, B : c = val(b) /\ B = node_buf[c]
  OBVIOUS
<1>9. c \in Loc /\ B # FREE_NODE /\ IsPair(B)
  BY <1>2, <1>3, <1>6, <1>7, <1>8, RedexNodes
<1>10. PICK p, q, pairs, e : p = <<a, B[1]>> /\ q = <<a, B[2]>> /\ pairs = <<p, q>> /\ e = <<>>
  OBVIOUS
<1>11. /\ p[1] = a /\ p[2] = B[1] /\ q[1] = a /\ q[2] = B[2] /\ IsPair(p) /\ IsPair(q)
  BY <1>7, <1>9, <1>10 DEF IsPair
<1>12. IsList(pairs) /\ Len(pairs) = 2 /\ pairs[1] = p /\ pairs[2] = q
  BY <1>10, <1>11, ListTwo
<1>13. Rewrite(t, {c}, e, e, e) /\ Links(t, pairs) /\ get_resources(t, 0, 0)
  BY <1>1, <1>7, <1>8, <1>10
<1>14. Rewrites(t, r, {c}, e, e, 0, e, 0, pairs)
  <2>1. nput' \in [Thread -> Nat] /\ vput' \in [Thread -> Nat]
    <3>1. PICK z : z = 0
      OBVIOUS
    <3>2. z \in Nat /\ get_resources(t, z, z) /\ Finds(t, z, z)
      BY <1>4, <1>13, <3>1, FindsNone
    <3>. QED
      BY <1>4, <3>2, Allocates
  <2>2. /\ Fresh(e, 0, t, node_buf, FREE_NODE) /\ Fresh(e, 0, t, vars_buf, FREE)
        /\ DOMAIN e = 1 .. 0
    BY <1>10, NoCells
  <2>3. \E k \in Nat : 0 <= k /\ Fresh(e, k, t, node_buf, FREE_NODE)
    BY <2>2
  <2>4. RewritesCells(t, {c}, e, e, 0, e, 0)
    BY <1>8, <1>9, <1>13, <2>2, <2>3 DEF RewritesCells
  <2>. QED
    BY <1>3, <1>12, <1>13, <2>1, <2>4 DEF Rewrites
<1>15. PICK I, from : /\ I = {<<"pair", 1, 2>>, <<"pair", 2, 2>>}
                      /\ from = [s \in I |-> <<c, s[2]>>]
  <2>1. PICK I : I = {<<"pair", 1, 2>>, <<"pair", 2, 2>>}
    OBVIOUS
  <2>. QED
    BY <2>1
<1>16. \A s : s \in Spots(0, Len(pairs)) <=> \E i \in {1, 2}, k \in {1, 2} : s = <<"pair", i, k>>
  BY <1>12, InSpots
<1>17. \A i, k : Contents(e, pairs, <<"pair", i, k>>) = pairs[i][k]
  BY DEF Contents
<1>18. Moves({c}, e, 0, pairs, I, from)
  <2>1. I \subseteq Spots(0, Len(pairs))
    BY <1>15, <1>16
  <2>2. /\ from[<<"pair", 1, 2>>] = <<c, 1>> /\ from[<<"pair", 2, 2>>] = <<c, 2>>
        /\ <<"pair", 1, 2>> \in I /\ <<"pair", 2, 2>> \in I
    BY <1>15
  <2>3. /\ Contents(e, pairs, <<"pair", 1, 2>>) = B[1] /\ Contents(e, pairs, <<"pair", 2, 2>>) = B[2]
    BY <1>11, <1>12, <1>17
  <2>4. \A s \in I : \E d \in {c}, k \in {1, 2} :
          from[s] = <<d, k>> /\ Contents(e, pairs, s) = node_buf[d][k]
    BY <1>8, <1>15, <2>2, <2>3
  <2>5. \A s, u \in I : from[s] = from[u] => s = u
    BY <1>15, <2>2
  <2>6. \A d \in {c}, k \in {1, 2} : \E s \in I : from[s] = <<d, k>>
    BY <2>2
  <2>. QED
    BY <2>1, <2>4, <2>5, <2>6 DEF Moves
<1>19. Makes(e, e, 0, e, 0, pairs, I)
  <2>1. \A s \in Spots(0, Len(pairs)) \ I : Key(Contents(e, pairs, s)) = NONE
    <3>1. \A s \in Spots(0, Len(pairs)) \ I : s = <<"pair", 1, 1>> \/ s = <<"pair", 2, 1>>
      BY <1>15, <1>16
    <3>2. Contents(e, pairs, <<"pair", 1, 1>>) = a /\ Contents(e, pairs, <<"pair", 2, 1>>) = a
      BY <1>11, <1>12, <1>17
    <3>3. Key(a) = NONE
      BY <1>6, NullaryKey
    <3>. QED
      BY <3>1, <3>2, <3>3
  <2>. QED
    BY <2>1, MakesNothing
<1>20. /\ \A k \in {1, 2} : ~is_var(r[k])
       /\ \A d \in Loc : d \in {c} <=> \E k \in {1, 2} : is_nod(r[k]) /\ val(r[k]) = d
  <2>1. ~is_var(a) /\ ~is_var(b) /\ ~is_nod(a)
    BY <1>6, NullaryKey DEF is_var, is_nod, Nodes
  <2>. QED
    BY <1>6, <1>7, <1>8, <2>1
<1>21. PICK taken : taken = {c}
  OBVIOUS
<1>22. PICK z : z = 0
  OBVIOUS
<1>23. /\ Rewrites(t, r, taken, e, e, z, e, z, pairs) /\ Moves(taken, e, z, pairs, I, from)
       /\ Makes(e, e, z, e, z, pairs, I)
       /\ \A d \in Loc : d \in taken <=> \E k \in {1, 2} : is_nod(r[k]) /\ val(r[k]) = d
  BY <1>14, <1>18, <1>19, <1>20, <1>21, <1>22
<1>. QED
  BY <1>2, <1>20, <1>23, InteractionKeeps

LEMMA AnniKeeps ==
  ASSUME NEW Rest, Elsewhere(Rest), NetInv(Rest), program' = program, NEW t \in Thread, Anni(t)
  PROVE  NetInv(Rest)' /\ Confined(t)
<1>1. PICK r \in Redexes(t, "ANNI") :
        LET a == PairOf(r)[1]
            b == PairOf(r)[2]
            A == node_buf[val(a)]
            B == node_buf[val(b)]
        IN  /\ Take(t, r)
            /\ get_resources(t, 0, 0)
            /\ Rewrite(t, {val(a), val(b)}, <<>>, <<>>, <<>>)
            /\ Links(t, << <<A[1], B[1]>>, <<A[2], B[2]>> >>)
            /\ UNCHANGED oper
  BY DEF Anni
<1>2. PICK rule : r \in Redexes(t, rule) /\ rule = "ANNI"
  OBVIOUS
<1>3. Take(t, r) /\ oper' = oper
  BY <1>1
<1>4. BufTypes /\ RuleOf(r) = rule /\ IsPair(r)
  BY <1>2, <1>3, Taken
<1>5. PICK a, b, x, y : /\ Meets(r, a, b, x, y)
                        /\ RuleOf(r) \in {"ANNI", "COMM"} => is_nod(a) /\ is_nod(b)
  BY <1>4, RedexMeets
<1>6. is_nod(a) /\ is_nod(b)
  BY <1>2, <1>4, <1>5
<1>7. /\ x \in {1, 2} /\ y \in {1, 2} /\ x # y /\ a = r[x] /\ b = r[y]
      /\ PairOf(r)[1] = a /\ PairOf(r)[2] = b
  BY <1>5 DEF Meets
<1>8. PICK c, d, A, B : c = val(a) /\ A = node_buf[c] /\ d = val(b) /\ B = node_buf[d]
  OBVIOUS
<1>9. /\ c \in Loc /\ A # FREE_NODE /\ IsPair(A) /\ d \in Loc /\ B # FREE_NODE /\ IsPair(B)
      /\ c # d
  BY <1>2, <1>3, <1>6, <1>7, <1>8, RedexNodes
<1>10. PICK p, q, pairs, e : p = <<A[1], B[1]>> /\ q = <<A[2], B[2]>> /\ pairs = <<p, q>> /\ e = <<>>
  OBVIOUS
<1>11. /\ p[1] = A[1] /\ p[2] = B[1] /\ q[1] = A[2] /\ q[2] = B[2] /\ IsPair(p) /\ IsPair(q)
  BY <1>9, <1>10 DEF IsPair
<1>12. IsList(pairs) /\ Len(pairs) = 2 /\ pairs[1] = p /\ pairs[2] = q
  BY <1>10, <1>11, ListTwo
<1>13. PICK taken : taken = {c, d}
  OBVIOUS
<1>14. Rewrite(t, taken, e, e, e) /\ Links(t, pairs) /\ get_resources(t, 0, 0)
  BY <1>1, <1>7, <1>8, <1>10, <1>13
<1>15. Rewrites(t, r, taken, e, e, 0, e, 0, pairs)
  <2>1. nput' \in [Thread -> Nat] /\ vput' \in [Thread -> Nat]
    <3>1. PICK z : z = 0
      OBVIOUS
    <3>2. z \in Nat /\ get_resources(t, z, z) /\ Finds(t, z, z)
      BY <1>4, <1>14, <3>1, FindsNone
    <3>. QED
      BY <1>4, <3>2, Allocates
  <2>2. /\ Fresh(e, 0, t, node_buf, FREE_NODE) /\ Fresh(e, 0, t, vars_buf, FREE)
        /\ DOMAIN e = 1 .. 0
    BY <1>10, NoCells
  <2>3. \E k \in Nat : 0 <= k /\ Fresh(e, k, t, node_buf, FREE_NODE)
    BY <2>2
  <2>4. taken \in SUBSET Loc /\ \A g \in taken : node_buf[g] # FREE_NODE
    BY <1>8, <1>9, <1>13
  <2>5. RewritesCells(t, taken, e, e, 0, e, 0)
    BY <1>14, <2>2, <2>3, <2>4 DEF RewritesCells
  <2>. QED
    BY <1>3, <1>12, <1>14, <2>1, <2>5 DEF Rewrites
<1>16. PICK S : S = Spots(0, Len(pairs))
  OBVIOUS
<1>17. \A s : s \in S <=> \E i \in {1, 2}, k \in {1, 2} : s = <<"pair", i, k>>
  BY <1>12, <1>16, InSpots
<1>18. PICK from : from = [s \in S |-> <<IF s[3] = 1 THEN c ELSE d, s[2]>>]
  OBVIOUS
<1>19. \A i, k \in {1, 2} : /\ <<"pair", i, k>> \in S
                            /\ from[<<"pair", i, k>>] = <<IF k = 1 THEN c ELSE d, i>>
                            /\ Contents(e, pairs, <<"pair", i, k>>) = IF k = 1 THEN A[i] ELSE B[i]
  BY <1>11, <1>12, <1>17, <1>18 DEF Contents
<1>20. Moves(taken, e, 0, pairs, S, from)
  <2>1. \A s \in S : \E g \in taken, k \in {1, 2} :
          from[s] = <<g, k>> /\ Contents(e, pairs, s) = node_buf[g][k]
    <3>. SUFFICES ASSUME NEW s \in S
                  PROVE  \E g \in taken, k \in {1, 2} :
                           from[s] = <<g, k>> /\ Contents(e, pairs, s) = node_buf[g][k]
      OBVIOUS
    <3>1. PICK i \in {1, 2}, k \in {1, 2} : s = <<"pair", i, k>>
      BY <1>17
    <3>2. CASE k = 1
      BY <1>8, <1>13, <1>19, <3>1, <3>2
    <3>3. CASE k = 2
      BY <1>8, <1>13, <1>19, <3>1, <3>3
    <3>. QED
      BY <3>2, <3>3
  <2>2. \A s, u \in S : from[s] = from[u] => s = u
    <3>. SUFFICES ASSUME NEW s \in S, NEW u \in S, from[s] = from[u] PROVE s = u
      OBVIOUS
    <3>1. PICK i \in {1, 2}, k \in {1, 2} : s = <<"pair", i, k>>
      BY <1>17
    <3>2. PICK j \in {1, 2}, l \in {1, 2} : u = <<"pair", j, l>>
      BY <1>17
    <3>3. i = j /\ (IF k = 1 THEN c ELSE d) = (IF l = 1 THEN c ELSE d)
      BY <1>19, <3>1, <3>2
    <3>. QED
      BY <1>9, <3>1, <3>2, <3>3
  <2>3. \A g \in taken, k \in {1, 2} : \E s \in S : from[s] = <<g, k>>
    <3>. SUFFICES ASSUME NEW g \in taken, NEW k \in {1, 2} PROVE \E s \in S : from[s] = <<g, k>>
      OBVIOUS
    <3>1. CASE g = c
      BY <1>19, <3>1
    <3>2. CASE g = d
      BY <1>19, <3>2
    <3>. QED
      BY <1>13, <3>1, <3>2
  <2>. QED
    BY <1>16, <2>1, <2>2, <2>3 DEF Moves
<1>21. Makes(e, e, 0, e, 0, pairs, S)
  <2>1. \A s \in Spots(0, Len(pairs)) \ S : Key(Contents(e, pairs, s)) = NONE
    BY <1>16
  <2>. QED
    BY <2>1, MakesNothing
<1>22. /\ \A k \in {1, 2} : ~is_var(r[k])
       /\ \A g \in Loc : g \in taken <=> \E k \in {1, 2} : is_nod(r[k]) /\ val(r[k]) = g
  <2>1. ~is_var(a) /\ ~is_var(b)
    BY <1>6 DEF is_var, is_nod, Nodes
  <2>. QED
    BY <1>6, <1>7, <1>8, <1>13, <2>1
<1>23. PICK z : z = 0
  OBVIOUS
<1>24. /\ Rewrites(t, r, taken, e, e, z, e, z, pairs) /\ Moves(taken, e, z, pairs, S, from)
       /\ Makes(e, e, z, e, z, pairs, S)
  BY <1>15, <1>20, <1>21, <1>23
<1>. QED
  BY <1>2, <1>22, <1>24, InteractionKeeps

LEMMA ListFour ==
  ASSUME NEW p, NEW q, NEW u, NEW w, IsPair(p), IsPair(q), IsPair(u), IsPair(w)
  PROVE  /\ IsList(<<p, q, u, w>>) /\ Len(<<p, q, u, w>>) = 4
         /\ <<p, q, u, w>>[1] = p /\ <<p, q, u, w>>[2] = q
         /\ <<p, q, u, w>>[3] = u /\ <<p, q, u, w>>[4] = w
<1>1. PICK s : s = <<p, q, u, w>>
  OBVIOUS
<1>2. /\ s \in Seq({p, q, u, w}) /\ Len(s) = 4 /\ DOMAIN s = {1, 2, 3, 4}
      /\ s[1] = p /\ s[2] = q /\ s[3] = u /\ s[4] = w
  BY <1>1
<1>3. IsList(s)
  BY <1>2 DEF IsList
<1>. QED
  BY <1>1, <1>2, <1>3

\* What interact_comm stores and links, of ports a and b with nodes A and B: every
\* variable at two spots, every node at one.
CommStored(v, stored) ==
  /\ DOMAIN stored = 1 .. 4
  /\ stored[1] = <<VarP(v[1]), VarP(v[2])>> /\ stored[2] = <<VarP(v[3]), VarP(v[4])>>
  /\ stored[3] = <<VarP(v[1]), VarP(v[3])>> /\ stored[4] = <<VarP(v[2]), VarP(v[4])>>
CommPairs(a, b, A, B, n, pairs) ==
  /\ Len(pairs) = 4
  /\ pairs[1] = <<<<tag(b), n[1]>>, A[1]>> /\ pairs[2] = <<<<tag(b), n[2]>>, A[2]>>
  /\ pairs[3] = <<<<tag(a), n[3]>>, B[1]>> /\ pairs[4] = <<<<tag(a), n[4]>>, B[2]>>

LEMMA CommMakes ==
  ASSUME NEW a, NEW b, NEW A, NEW B, NEW n, NEW v, NEW stored, NEW pairs, NEW I,
         is_nod(a), is_nod(b), I = {<<"pair", i, 2>> : i \in 1 .. 4},
         CommStored(v, stored), CommPairs(a, b, A, B, n, pairs),
         \A i, j \in 1 .. 4 : n[i] = n[j] => i = j,
         \A i, j \in 1 .. 4 : v[i] = v[j] => i = j
  PROVE  Makes(n, v, 4, stored, 4, pairs, I)
<1>1. PICK S : S = Spots(4, Len(pairs)) \ I
  OBVIOUS
<1>2. \A s : s \in S <=> \/ \E i \in 1 .. 4, k \in {1, 2} : s = <<"node", i, k>>
                         \/ \E i \in 1 .. 4 : s = <<"pair", i, 1>>
  <2>1. Len(pairs) = 4
    BY DEF CommPairs
  <2>2. \A s : s \in S <=> s \notin I /\ (\/ \E i \in 1 .. 4, k \in {1, 2} : s = <<"node", i, k>>
                                          \/ \E i \in 1 .. 4, k \in {1, 2} : s = <<"pair", i, k>>)
    BY <1>1, <2>1, InSpots
  <2>3. /\ \A i, k : <<"node", i, k>> \notin I
        /\ \A i \in 1 .. 4, k \in {1, 2} : <<"pair", i, k>> \in I <=> k = 2
    OBVIOUS
  <2>. QED
    BY <2>2, <2>3
<1>3. PICK u : u = << <<1, 2>>, <<3, 4>>, <<1, 3>>, <<2, 4>> >>
  OBVIOUS
<1>4. /\ u[1][1] = 1 /\ u[1][2] = 2 /\ u[2][1] = 3 /\ u[2][2] = 4
      /\ u[3][1] = 1 /\ u[3][2] = 3 /\ u[4][1] = 2 /\ u[4][2] = 4
  BY <1>3
<1>5. \A i : i \in 1 .. 4 <=> i = 1 \/ i = 2 \/ i = 3 \/ i = 4
  OBVIOUS
<1>6. \A i \in 1 .. 4, k \in {1, 2} :
        Contents(stored, pairs, <<"node", i, k>>) = VarP(v[u[i][k]]) /\ u[i][k] \in 1 .. 4
  <2>1. \A i, k : Contents(stored, pairs, <<"node", i, k>>) = stored[i][k]
    BY DEF Contents
  <2>2. \A i \in 1 .. 4, k \in {1, 2} : stored[i][k] = VarP(v[u[i][k]])
    BY <1>4, <1>5 DEF CommStored
  <2>3. \A i \in 1 .. 4, k \in {1, 2} : u[i][k] \in 1 .. 4
    BY <1>4, <1>5
  <2>. SUFFICES ASSUME NEW i \in 1 .. 4, NEW k \in {1, 2}
                PROVE  Contents(stored, pairs, <<"node", i, k>>) = VarP(v[u[i][k]]) /\ u[i][k] \in 1 .. 4
    OBVIOUS
  <2>4. Contents(stored, pairs, <<"node", i, k>>) = stored[i][k]
    BY <2>1
  <2>5. stored[i][k] = VarP(v[u[i][k]])
    BY <2>2
  <2>. QED
    BY <2>3, <2>4, <2>5
<1>7. \A i \in 1 .. 4 : Contents(stored, pairs, <<"pair", i, 1>>) \in {<<tag(a), n[i]>>, <<tag(b), n[i]>>}
  <2>1. \A i, k : Contents(stored, pairs, <<"pair", i, k>>) = pairs[i][k]
    BY DEF Contents
  <2>. QED
    BY <1>5, <2>1 DEF CommPairs
<1>8. \A i \in 1 .. 4, k \in {1, 2} :
        Key(Contents(stored, pairs, <<"node", i, k>>)) = <<"VAR", v[u[i][k]]>>
  BY <1>6 DEF Key, VarP, is_var, tag, val
<1>9. \A i \in 1 .. 4 : Key(Contents(stored, pairs, <<"pair", i, 1>>)) = <<"NODE", n[i]>>
  <2>1. \A z : Key(<<tag(a), z>>) = <<"NODE", z>> /\ Key(<<tag(b), z>>) = <<"NODE", z>>
    BY DEF Key, is_var, is_nod, tag, val, Nodes
  <2>. QED
    BY <1>7, <2>1
<1>10. \A x : Written(stored, 4, pairs, I, x) = {s \in S : Key(Contents(stored, pairs, s)) = x}
  BY <1>1 DEF Written
<1>11. ASSUME NEW j \in 1 .. 4 PROVE Counted(Written(stored, 4, pairs, I, <<"VAR", v[j]>>), 2)
  <2>1. \A s : s \in Written(stored, 4, pairs, I, <<"VAR", v[j]>>) <=>
                 \E i \in 1 .. 4, k \in {1, 2} : s = <<"node", i, k>> /\ u[i][k] = j
    <3>1. \A i \in 1 .. 4, k \in {1, 2} :
            Key(Contents(stored, pairs, <<"node", i, k>>)) = <<"VAR", v[j]>> <=> u[i][k] = j
      <4>. SUFFICES ASSUME NEW i \in 1 .. 4, NEW k \in {1, 2}
                    PROVE  Key(Contents(stored, pairs, <<"node", i, k>>)) = <<"VAR", v[j]>> <=> u[i][k] = j
        OBVIOUS
      <4>1. PICK g \in 1 .. 4 : g = u[i][k]
        BY <1>6
      <4>2. v[g] = v[j] <=> g = j
        OBVIOUS
      <4>3. Key(Contents(stored, pairs, <<"node", i, k>>)) = <<"VAR", v[g]>>
        BY <1>8, <4>1
      <4>. QED
        BY <4>1, <4>2, <4>3
    <3>2. \A i \in 1 .. 4 : Key(Contents(stored, pairs, <<"pair", i, 1>>)) # <<"VAR", v[j]>>
      BY <1>9
    <3>. QED
      BY <1>2, <1>10, <3>1, <3>2
  <2>2. \E s, w : s # w /\ Written(stored, 4, pairs, I, <<"VAR", v[j]>>) = {s, w}
    <3>1. CASE j = 1
      <4>1. Written(stored, 4, pairs, I, <<"VAR", v[j]>>) = {<<"node", 1, 1>>, <<"node", 3, 1>>}
        BY <1>4, <1>5, <2>1, <3>1
      <4>2. <<"node", 1, 1>> # <<"node", 3, 1>>
        OBVIOUS
      <4>. QED
        BY <4>1, <4>2, Zenon
    <3>2. CASE j = 2
      <4>1. Written(stored, 4, pairs, I, <<"VAR", v[j]>>) = {<<"node", 1, 2>>, <<"node", 4, 1>>}
        BY <1>4, <1>5, <2>1, <3>2
      <4>2. <<"node", 1, 2>> # <<"node", 4, 1>>
        OBVIOUS
      <4>. QED
        BY <4>1, <4>2, Zenon
    <3>3. CASE j = 3
      <4>1. Written(stored, 4, pairs, I, <<"VAR", v[j]>>) = {<<"node", 2, 1>>, <<"node", 3, 2>>}
        BY <1>4, <1>5, <2>1, <3>3
      <4>2. <<"node", 2, 1>> # <<"node", 3, 2>>
        OBVIOUS
      <4>. QED
        BY <4>1, <4>2, Zenon
    <3>4. CASE j = 4
      <4>1. Written(stored, 4, pairs, I, <<"VAR", v[j]>>) = {<<"node", 2, 2>>, <<"node", 4, 2>>}
        BY <1>4, <1>5, <2>1, <3>4
      <4>2. <<"node", 2, 2>> # <<"node", 4, 2>>
        OBVIOUS
      <4>. QED
        BY <4>1, <4>2, Zenon
    <3>. QED
      BY <1>5, <3>1, <3>2, <3>3, <3>4
  <2>3. PICK s, w : s # w /\ Written(stored, 4, pairs, I, <<"VAR", v[j]>>) = {s, w}
    BY <2>2
  <2>4. Counted({s, w}, 2)
    BY <2>3, CountedSmall
  <2>. QED
    BY <2>3, <2>4, Zenon
<1>12. ASSUME NEW j \in 1 .. 4 PROVE Counted(Written(stored, 4, pairs, I, <<"NODE", n[j]>>), 1)
  <2>1. \A i \in 1 .. 4, k \in {1, 2} :
          Key(Contents(stored, pairs, <<"node", i, k>>)) # <<"NODE", n[j]>>
    BY <1>8
  <2>2. \A i \in 1 .. 4 : Key(Contents(stored, pairs, <<"pair", i, 1>>)) = <<"NODE", n[j]>> <=> i = j
    BY <1>9
  <2>3. Written(stored, 4, pairs, I, <<"NODE", n[j]>>) = {<<"pair", j, 1>>}
    BY <1>2, <1>10, <2>1, <2>2
  <2>. QED
    BY <2>3, CountedSmall
<1>13. ASSUME NEW c, ~\E j \in 1 .. 4 : v[j] = c PROVE Counted(Written(stored, 4, pairs, I, <<"VAR", c>>), 0)
  <2>1. Written(stored, 4, pairs, I, <<"VAR", c>>) = {}
    <3>1. \A i \in 1 .. 4, k \in {1, 2} :
            Key(Contents(stored, pairs, <<"node", i, k>>)) # <<"VAR", c>>
      <4>. SUFFICES ASSUME NEW i \in 1 .. 4, NEW k \in {1, 2}
                    PROVE  Key(Contents(stored, pairs, <<"node", i, k>>)) # <<"VAR", c>>
        OBVIOUS
      <4>1. PICK g \in 1 .. 4 : g = u[i][k]
        BY <1>6
      <4>2. v[g] # c
        BY <1>13
      <4>3. Key(Contents(stored, pairs, <<"node", i, k>>)) = <<"VAR", v[g]>>
        BY <1>8, <4>1
      <4>. QED
        BY <4>2, <4>3
    <3>. QED
      BY <1>2, <1>9, <1>10, <3>1
  <2>. QED
    BY <2>1, CountedSmall
<1>14. ASSUME NEW c, ~\E j \in 1 .. 4 : n[j] = c PROVE Counted(Written(stored, 4, pairs, I, <<"NODE", c>>), 0)
  <2>1. Written(stored, 4, pairs, I, <<"NODE", c>>) = {}
    BY <1>2, <1>8, <1>9, <1>10, <1>14, SMTT(30)
  <2>. QED
    BY <2>1, CountedSmall
<1>. QED
  BY <1>11, <1>12, <1>13, <1>14 DEF Makes

LEMMA CommKeeps ==
  ASSUME NEW Rest, Elsewhere(Rest), NetInv(Rest), program' = program,
         NEW t \in Thread, t \in Bounded \/ HasRoom(t), Comm(t)
  PROVE  NetInv(Rest)' /\ Confined(t)
<1>1. PICK r \in Redexes(t, "COMM") :
        LET a == PairOf(r)[1]
            b == PairOf(r)[2]
            A == node_buf[val(a)]
            B == node_buf[val(b)]
            n == node_alloc(t, 4)
            v == vars_alloc(t, 4)
            Node(i, j) == <<VarP(v[i]), VarP(v[j])>>
        IN  /\ Take(t, r)
            /\ get_resources(t, 4, 4)
            /\ Rewrite(t, {val(a), val(b)}, n,
                       <<Node(1, 2), Node(3, 4), Node(1, 3), Node(2, 4)>>, v)
            /\ Links(t, << <<<<tag(b), n[1]>>, A[1]>>, <<<<tag(b), n[2]>>, A[2]>>,
                           <<<<tag(a), n[3]>>, B[1]>>, <<<<tag(a), n[4]>>, B[2]>> >>)
            /\ UNCHANGED oper
  BY DEF Comm
<1>2. PICK rule : r \in Redexes(t, rule) /\ rule = "COMM"
  OBVIOUS
<1>3. Take(t, r) /\ oper' = oper
  BY <1>1
<1>4. BufTypes /\ RuleOf(r) = rule /\ IsPair(r)
  BY <1>2, <1>3, Taken
<1>5. PICK a, b, x, y : /\ Meets(r, a, b, x, y)
                        /\ RuleOf(r) \in {"ANNI", "COMM"} => is_nod(a) /\ is_nod(b)
  BY <1>4, RedexMeets
<1>6. is_nod(a) /\ is_nod(b)
  BY <1>2, <1>4, <1>5
<1>7. /\ x \in {1, 2} /\ y \in {1, 2} /\ x # y /\ a = r[x] /\ b = r[y]
      /\ PairOf(r)[1] = a /\ PairOf(r)[2] = b
  BY <1>5 DEF Meets
<1>8. PICK c, d, A, B : c = val(a) /\ A = node_buf[c] /\ d = val(b) /\ B = node_buf[d]
  OBVIOUS
<1>9. /\ c \in Loc /\ A # FREE_NODE /\ IsPair(A) /\ d \in Loc /\ B # FREE_NODE /\ IsPair(B)
      /\ c # d
  BY <1>2, <1>3, <1>6, <1>7, <1>8, RedexNodes
<1>10. PICK taken, n, v, f : taken = {c, d} /\ n = node_alloc(t, f) /\ v = vars_alloc(t, f) /\ f = 4
  <2>1. PICK f : f = 4
    OBVIOUS
  <2>. QED
    BY <2>1
<1>11. PICK s1, s2, s3, s4, stored :
         /\ s1 = <<VarP(v[1]), VarP(v[2])>> /\ s2 = <<VarP(v[3]), VarP(v[4])>>
         /\ s3 = <<VarP(v[1]), VarP(v[3])>> /\ s4 = <<VarP(v[2]), VarP(v[4])>>
         /\ stored = <<s1, s2, s3, s4>>
  OBVIOUS
<1>12. PICK p1, p2, p3, p4, pairs :
         /\ p1 = <<<<tag(b), n[1]>>, A[1]>> /\ p2 = <<<<tag(b), n[2]>>, A[2]>>
         /\ p3 = <<<<tag(a), n[3]>>, B[1]>> /\ p4 = <<<<tag(a), n[4]>>, B[2]>>
         /\ pairs = <<p1, p2, p3, p4>>
  OBVIOUS
<1>13. Rewrite(t, taken, n, stored, v) /\ Links(t, pairs) /\ get_resources(t, f, f)
  BY <1>1, <1>7, <1>8, <1>10, <1>11, <1>12
<1>14. /\ Fresh(n, f, t, node_buf, FREE_NODE) /\ Fresh(v, f, t, vars_buf, FREE)
       /\ nput' \in [Thread -> Nat] /\ vput' \in [Thread -> Nat]
  <2>1. f \in Nat /\ (t \in Bounded \/ Finds(t, f, f))
    BY <1>2, <1>3, <1>10, AskedFound
  <2>. QED
    BY <1>4, <1>10, <1>13, <2>1, Allocates
<1>15. \A i : i \in 1 .. f <=> i = 1 \/ i = 2 \/ i = 3 \/ i = 4
  BY <1>10
<1>16. /\ \A i, j \in 1 .. f : n[i] = n[j] => i = j
       /\ \A i, j \in 1 .. f : v[i] = v[j] => i = j
       /\ \A i \in 1 .. f : n[i] \in Loc /\ v[i] \in Loc \ {0}
  BY <1>14 DEF Fresh
<1>17. \A i \in 1 .. f : /\ IsPort(VarP(v[i])) /\ VarP(v[i]) # FREE
                         /\ IsPort(<<tag(a), n[i]>>) /\ IsPort(<<tag(b), n[i]>>)
  <2>1. ASSUME NEW z \in Loc \ {0} PROVE IsPort(VarP(z)) /\ VarP(z) # FREE
    BY DEF IsPort, VarP, FREE, tag, val, is_var, is_nod, Nodes
  <2>2. ASSUME NEW z \in Loc, NEW g, is_nod(g) PROVE IsPort(<<tag(g), z>>)
    BY <2>2 DEF IsPort, tag, val, is_var, is_nod, Nodes
  <2>. QED
    BY <1>6, <1>16, <2>1, <2>2
<1>18. /\ IsPair(s1) /\ IsPair(s2) /\ IsPair(s3) /\ IsPair(s4)
       /\ s1 # FREE_NODE /\ s2 # FREE_NODE /\ s3 # FREE_NODE /\ s4 # FREE_NODE
  BY <1>11, <1>15, <1>17 DEF IsPair, FREE_NODE
<1>19. /\ IsPair(p1) /\ IsPair(p2) /\ IsPair(p3) /\ IsPair(p4)
       /\ p1[2] = A[1] /\ p2[2] = A[2] /\ p3[2] = B[1] /\ p4[2] = B[2]
  BY <1>9, <1>12, <1>15, <1>17 DEF IsPair
<1>20. /\ IsList(pairs) /\ Len(pairs) = 4
       /\ pairs[1] = p1 /\ pairs[2] = p2 /\ pairs[3] = p3 /\ pairs[4] = p4
  BY <1>12, <1>19, ListFour
<1>21. /\ DOMAIN stored = 1 .. f
       /\ stored[1] = s1 /\ stored[2] = s2 /\ stored[3] = s3 /\ stored[4] = s4
  BY <1>10, <1>11
<1>22. Rewrites(t, r, taken, n, v, f, stored, f, pairs)
  <2>1. \E k \in Nat : f <= k /\ Fresh(n, k, t, node_buf, FREE_NODE)
    BY <1>10, <1>14
  <2>2. taken \in SUBSET Loc /\ \A g \in taken : node_buf[g] # FREE_NODE
    BY <1>8, <1>9, <1>10
  <2>3. f \in Nat
    BY <1>10
  <2>4. RewritesCells(t, taken, n, v, f, stored, f)
    BY <1>13, <1>14, <1>21, <2>1, <2>2, <2>3 DEF RewritesCells
  <2>5. \A j \in 1 .. f : IsPair(stored[j]) /\ stored[j] # FREE_NODE
    BY <1>15, <1>18, <1>21
  <2>. QED
    BY <1>3, <1>13, <1>14, <1>20, <2>4, <2>5 DEF Rewrites
<1>23. PICK I, from : /\ I = {<<"pair", i, 2>> : i \in 1 .. 4}
                      /\ from = [s \in I |-> <<IF s[2] \in {1, 2} THEN c ELSE d,
                                               IF s[2] \in {1, 3} THEN 1 ELSE 2>>]
  <2>1. PICK I : I = {<<"pair", i, 2>> : i \in 1 .. 4}
    OBVIOUS
  <2>. QED
    BY <2>1
<1>24. \A s : s \in I <=> \E i \in 1 .. f : s = <<"pair", i, 2>>
  BY <1>10, <1>23
<1>25. /\ from[<<"pair", 1, 2>>] = <<c, 1>> /\ from[<<"pair", 2, 2>>] = <<c, 2>>
       /\ from[<<"pair", 3, 2>>] = <<d, 1>> /\ from[<<"pair", 4, 2>>] = <<d, 2>>
  BY <1>23
<1>26. Moves(taken, stored, f, pairs, I, from)
  <2>1. I \subseteq Spots(f, Len(pairs))
    <3>1. \A i \in 1 .. 4 : <<"pair", i, 2>> \in Spots(f, 4)
      BY InSpots
    <3>. QED
      BY <1>20, <1>23, <3>1
  <2>2. /\ Contents(stored, pairs, <<"pair", 1, 2>>) = A[1]
        /\ Contents(stored, pairs, <<"pair", 2, 2>>) = A[2]
        /\ Contents(stored, pairs, <<"pair", 3, 2>>) = B[1]
        /\ Contents(stored, pairs, <<"pair", 4, 2>>) = B[2]
    <3>1. \A i : Contents(stored, pairs, <<"pair", i, 2>>) = pairs[i][2]
      BY DEF Contents
    <3>. QED
      BY <1>19, <1>20, <3>1
  <2>3. \A s \in I : \E g \in taken, k \in {1, 2} :
          from[s] = <<g, k>> /\ Contents(stored, pairs, s) = node_buf[g][k]
    <3>. SUFFICES ASSUME NEW s \in I
                  PROVE  \E g \in taken, k \in {1, 2} :
                           from[s] = <<g, k>> /\ Contents(stored, pairs, s) = node_buf[g][k]
      OBVIOUS
    <3>1. c \in taken /\ d \in taken /\ A = node_buf[c] /\ B = node_buf[d]
      BY <1>8, <1>10
    <3>2. \/ s = <<"pair", 1, 2>> \/ s = <<"pair", 2, 2>>
          \/ s = <<"pair", 3, 2>> \/ s = <<"pair", 4, 2>>
      BY <1>15, <1>24
    <3>. QED
      BY <1>25, <2>2, <3>1, <3>2
  <2>4. \A s, u \in I : from[s] = from[u] => s = u
    <3>1. ASSUME NEW i \in 1 .. f, NEW j \in 1 .. f,
                 from[<<"pair", i, 2>>] = from[<<"pair", j, 2>>]
          PROVE  i = j
      BY <1>9, <1>15, <1>25, <3>1
    <3>. QED
      BY <1>24, <3>1
  <2>5. \A g \in taken, k \in {1, 2} : \E s \in I : from[s] = <<g, k>>
    BY <1>10, <1>15, <1>24, <1>25
  <2>. QED
    BY <2>1, <2>3, <2>4, <2>5 DEF Moves
<1>27. Makes(n, v, f, stored, f, pairs, I)
  <2>1. CommStored(v, stored)
    BY <1>10, <1>11, <1>21 DEF CommStored
  <2>2. CommPairs(a, b, A, B, n, pairs)
    BY <1>12, <1>20 DEF CommPairs
  <2>. QED
    BY <1>6, <1>10, <1>16, <1>23, <2>1, <2>2, CommMakes
<1>28. /\ \A k \in {1, 2} : ~is_var(r[k])
       /\ \A g \in Loc : g \in taken <=> \E k \in {1, 2} : is_nod(r[k]) /\ val(r[k]) = g
  <2>1. ~is_var(a) /\ ~is_var(b)
    BY <1>6 DEF is_var, is_nod, Nodes
  <2>. QED
    BY <1>6, <1>7, <1>8, <1>10, <2>1
<1>. QED
  BY <1>2, <1>22, <1>26, <1>27, <1>28, InteractionKeeps

\* No variable is written, and each node once.
OnlyNodes(n, stored, m, pairs, S) ==
  /\ \A s \in S : \/ Key(Contents(stored, pairs, s)) = NONE
                  \/ \E j \in 1 .. m : Key(Contents(stored, pairs, s)) = <<"NODE", n[j]>>
  /\ \A j \in 1 .. m : \E s \in S :
       \A u \in S : Key(Contents(stored, pairs, u)) = <<"NODE", n[j]>> <=> u = s

LEMMA MakesNodes ==
  ASSUME NEW stored, NEW m, NEW pairs, NEW I, NEW n, NEW v, NEW S, S = Spots(m, Len(pairs)) \ I,
         OnlyNodes(n, stored, m, pairs, S)
  PROVE  Makes(n, v, 0, stored, m, pairs, I)
<1>1. \A x : Written(stored, m, pairs, I, x) = {s \in S : Key(Contents(stored, pairs, s)) = x}
  BY DEF Written
<1>2. ASSUME NEW c PROVE Counted(Written(stored, m, pairs, I, <<"VAR", c>>), 0)
  <2>1. Written(stored, m, pairs, I, <<"VAR", c>>) = {}
    BY <1>1 DEF NONE, OnlyNodes
  <2>. QED
    BY <2>1, CountedSmall
<1>3. ASSUME NEW j \in 1 .. m PROVE Counted(Written(stored, m, pairs, I, <<"NODE", n[j]>>), 1)
  <2>1. PICK s \in S : \A u \in S : Key(Contents(stored, pairs, u)) = <<"NODE", n[j]>> <=> u = s
    BY DEF OnlyNodes
  <2>2. Written(stored, m, pairs, I, <<"NODE", n[j]>>) = {s}
    BY <1>1, <2>1
  <2>. QED
    BY <2>2, CountedSmall
<1>4. ASSUME NEW c, ~\E j \in 1 .. m : n[j] = c
      PROVE  Counted(Written(stored, m, pairs, I, <<"NODE", c>>), 0)
  <2>1. Written(stored, m, pairs, I, <<"NODE", c>>) = {}
    BY <1>1, <1>4 DEF NONE, OnlyNodes
  <2>. QED
    BY <2>1, CountedSmall
<1>5. \A c : ~(\E j \in 1 .. 0 : v[j] = c)
  OBVIOUS
<1>. QED
  BY <1>2, <1>3, <1>4, <1>5 DEF Makes

\* A number selects the branch of 0: one node is stored, of the two allocated.
LEMMA SwitZero ==
  ASSUME NEW B, NEW n, NEW c, NEW s1, NEW p, NEW stored, NEW pairs, NEW I, NEW from, NEW v,
         B = node_buf[c], s1 = <<B[2], Era>>, stored = <<s1>>,
         p = << <<"CON", n[1]>>, B[1] >>, Len(pairs) = 1, pairs[1] = p,
         I = {<<"node", 1, 1>>, <<"pair", 1, 2>>},
         from = [s \in I |-> <<c, IF s[1] = "pair" THEN 1 ELSE 2>>]
  PROVE  Moves({c}, stored, 1, pairs, I, from) /\ Makes(n, v, 0, stored, 1, pairs, I)
<1>1. /\ \A s : s \in Spots(1, Len(pairs)) <=>
           \/ s = <<"node", 1, 1>> \/ s = <<"node", 1, 2>>
           \/ s = <<"pair", 1, 1>> \/ s = <<"pair", 1, 2>>
  <2>1. \A i : i \in 1 .. 1 <=> i = 1
    OBVIOUS
  <2>2. \A s : s \in Spots(1, 1) <=> \/ \E i \in 1 .. 1, k \in {1, 2} : s = <<"node", i, k>>
                                     \/ \E i \in 1 .. 1, k \in {1, 2} : s = <<"pair", i, k>>
    BY InSpots
  <2>. QED
    BY <2>1, <2>2
<1>2. /\ Contents(stored, pairs, <<"node", 1, 1>>) = B[2]
      /\ Contents(stored, pairs, <<"node", 1, 2>>) = Era
      /\ Contents(stored, pairs, <<"pair", 1, 1>>) = <<"CON", n[1]>>
      /\ Contents(stored, pairs, <<"pair", 1, 2>>) = B[1]
  BY DEF Contents
<1>3. /\ <<"node", 1, 1>> # <<"node", 1, 2>> /\ <<"node", 1, 1>> # <<"pair", 1, 1>>
      /\ <<"pair", 1, 2>> # <<"node", 1, 2>> /\ <<"pair", 1, 2>> # <<"pair", 1, 1>>
      /\ <<"node", 1, 2>> # <<"pair", 1, 1>> /\ <<"pair", 1, 2>> # <<"node", 1, 1>>
  OBVIOUS
<1>4. Moves({c}, stored, 1, pairs, I, from)
  <2>1. from[<<"node", 1, 1>>] = <<c, 2>> /\ from[<<"pair", 1, 2>>] = <<c, 1>>
    OBVIOUS
  <2>2. \A s \in I : \E d \in {c}, k \in {1, 2} :
          from[s] = <<d, k>> /\ Contents(stored, pairs, s) = node_buf[d][k]
    BY <1>2, <2>1
  <2>3. \A s, u \in I : from[s] = from[u] => s = u
    BY <2>1
  <2>4. \A d \in {c}, k \in {1, 2} : \E s \in I : from[s] = <<d, k>>
    BY <2>1
  <2>5. I \subseteq Spots(1, Len(pairs))
    BY <1>1
  <2>. QED
    BY <2>2, <2>3, <2>4, <2>5 DEF Moves
<1>5. Makes(n, v, 0, stored, 1, pairs, I)
  <2>1. PICK S : S = Spots(1, Len(pairs)) \ I
    OBVIOUS
  <2>2. S = {<<"node", 1, 2>>, <<"pair", 1, 1>>}
    BY <1>1, <1>3, <2>1
  <2>3. Key(Era) = NONE /\ Key(<<"CON", n[1]>>) = <<"NODE", n[1]>> /\ NONE # <<"NODE", n[1]>>
    BY DEF Key, Era, NONE, is_var, is_nod, tag, val, Nodes
  <2>4. \A s \in S : \/ Key(Contents(stored, pairs, s)) = NONE
                     \/ \E j \in 1 .. 1 : Key(Contents(stored, pairs, s)) = <<"NODE", n[j]>>
    BY <1>2, <2>2, <2>3, SMTT(30)
  <2>5. \A u \in S : Key(Contents(stored, pairs, u)) = <<"NODE", n[1]>> <=> u = <<"pair", 1, 1>>
    BY <1>2, <1>3, <2>2, <2>3
  <2>6. \A j \in 1 .. 1 : \E s \in S :
          \A u \in S : Key(Contents(stored, pairs, u)) = <<"NODE", n[j]>> <=> u = s
    <3>1. <<"pair", 1, 1>> \in S
      BY <2>2
    <3>. QED
      BY <2>5, <3>1
  <2>. QED
    <3>1. OnlyNodes(n, stored, 1, pairs, S)
      BY <2>4, <2>6 DEF OnlyNodes
    <3>. QED
      BY <2>1, <3>1, MakesNodes
<1>. QED
  BY <1>4, <1>5

\* It selects the other branch, whose argument is its predecessor.
LEMMA SwitSucc ==
  ASSUME NEW B, NEW n, NEW c, NEW s1, NEW s2, NEW z, NEW p, NEW stored, NEW pairs, NEW I, NEW from,
         NEW v, B = node_buf[c], s1 = <<Era, <<"CON", n[2]>> >>, s2 = <<NumP(z), B[2]>>,
         stored = <<s1, s2>>, p = << <<"CON", n[1]>>, B[1] >>, Len(pairs) = 1, pairs[1] = p,
         n[1] # n[2],
         I = {<<"node", 2, 2>>, <<"pair", 1, 2>>},
         from = [s \in I |-> <<c, IF s[1] = "pair" THEN 1 ELSE 2>>]
  PROVE  Moves({c}, stored, 2, pairs, I, from) /\ Makes(n, v, 0, stored, 2, pairs, I)
<1>1. \A s : s \in Spots(2, Len(pairs)) <=>
         \/ s = <<"node", 1, 1>> \/ s = <<"node", 1, 2>>
         \/ s = <<"node", 2, 1>> \/ s = <<"node", 2, 2>>
         \/ s = <<"pair", 1, 1>> \/ s = <<"pair", 1, 2>>
  <2>1. (\A i : i \in 1 .. 1 <=> i = 1) /\ \A i : i \in 1 .. 2 <=> i \in {1, 2}
    OBVIOUS
  <2>2. \A s : s \in Spots(2, 1) <=> \/ \E i \in 1 .. 2, k \in {1, 2} : s = <<"node", i, k>>
                                     \/ \E i \in 1 .. 1, k \in {1, 2} : s = <<"pair", i, k>>
    BY InSpots, SMTT(30)
  <2>. QED
    BY <2>1, <2>2
<1>2. /\ Contents(stored, pairs, <<"node", 1, 1>>) = Era
      /\ Contents(stored, pairs, <<"node", 1, 2>>) = <<"CON", n[2]>>
      /\ Contents(stored, pairs, <<"node", 2, 1>>) = NumP(z)
      /\ Contents(stored, pairs, <<"node", 2, 2>>) = B[2]
      /\ Contents(stored, pairs, <<"pair", 1, 1>>) = <<"CON", n[1]>>
      /\ Contents(stored, pairs, <<"pair", 1, 2>>) = B[1]
  BY DEF Contents
<1>3. /\ <<"node", 1, 1>> # <<"node", 1, 2>> /\ <<"node", 1, 1>> # <<"pair", 1, 1>>
      /\ <<"node", 2, 1>> # <<"node", 1, 2>> /\ <<"node", 2, 1>> # <<"pair", 1, 1>>
      /\ <<"node", 1, 2>> # <<"pair", 1, 1>>
  OBVIOUS
<1>4. Moves({c}, stored, 2, pairs, I, from)
  <2>1. from[<<"node", 2, 2>>] = <<c, 2>> /\ from[<<"pair", 1, 2>>] = <<c, 1>>
    OBVIOUS
  <2>2. \A s \in I : \E d \in {c}, k \in {1, 2} :
          from[s] = <<d, k>> /\ Contents(stored, pairs, s) = node_buf[d][k]
    BY <1>2, <2>1
  <2>3. \A s, u \in I : from[s] = from[u] => s = u
    BY <2>1
  <2>4. \A d \in {c}, k \in {1, 2} : \E s \in I : from[s] = <<d, k>>
    BY <2>1
  <2>5. I \subseteq Spots(2, Len(pairs))
    BY <1>1
  <2>. QED
    BY <2>2, <2>3, <2>4, <2>5 DEF Moves
<1>5. Makes(n, v, 0, stored, 2, pairs, I)
  <2>1. PICK S : S = Spots(2, Len(pairs)) \ I
    OBVIOUS
  <2>2. \A s : s \in S <=> \/ s = <<"node", 1, 1>> \/ s = <<"node", 1, 2>>
                           \/ s = <<"node", 2, 1>> \/ s = <<"pair", 1, 1>>
    BY <1>1, <2>1
  <2>3. PICK x, y : x = n[1] /\ y = n[2]
    OBVIOUS
  <2>4. /\ Key(Contents(stored, pairs, <<"node", 1, 1>>)) = NONE
        /\ Key(Contents(stored, pairs, <<"node", 1, 2>>)) = <<"NODE", y>>
        /\ Key(Contents(stored, pairs, <<"node", 2, 1>>)) = NONE
        /\ Key(Contents(stored, pairs, <<"pair", 1, 1>>)) = <<"NODE", x>>
    BY <1>2, <2>3 DEF Key, Era, NumP, NONE, is_var, is_nod, tag, val, Nodes
  <2>5. NONE # <<"NODE", x>> /\ NONE # <<"NODE", y>> /\ <<"NODE", x>> # <<"NODE", y>>
    BY <2>3 DEF NONE
  <2>6. \A u \in S : Key(Contents(stored, pairs, u)) = <<"NODE", x>> <=> u = <<"pair", 1, 1>>
    BY <1>3, <2>2, <2>4, <2>5
  <2>7. \A u \in S : Key(Contents(stored, pairs, u)) = <<"NODE", y>> <=> u = <<"node", 1, 2>>
    BY <1>3, <2>2, <2>4, <2>5
  <2>8. \A i : i \in 1 .. 2 <=> i = 1 \/ i = 2
    OBVIOUS
  <2>9. OnlyNodes(n, stored, 2, pairs, S)
    <3>1. \A s \in S : \/ Key(Contents(stored, pairs, s)) = NONE
                       \/ \E j \in 1 .. 2 : Key(Contents(stored, pairs, s)) = <<"NODE", n[j]>>
      BY <2>2, <2>3, <2>4, <2>8
    <3>2. <<"pair", 1, 1>> \in S /\ <<"node", 1, 2>> \in S
      BY <2>2
    <3>3. ASSUME NEW j \in 1 .. 2
          PROVE  \E s \in S : \A u \in S : Key(Contents(stored, pairs, u)) = <<"NODE", n[j]>> <=> u = s
      <4>1. CASE j = 1
        BY <2>3, <2>6, <3>2, <4>1
      <4>2. CASE j = 2
        BY <2>3, <2>7, <3>2, <4>2
      <4>. QED
        BY <2>8, <4>1, <4>2
    <3>. QED
      BY <3>1, <3>3 DEF OnlyNodes
  <2>. QED
    BY <2>1, <2>9, MakesNodes
<1>. QED
  BY <1>4, <1>5

LEMMA SwitKeeps ==
  ASSUME NEW Rest, Elsewhere(Rest), NetInv(Rest), program' = program,
         NEW t \in Thread, t \in Bounded \/ HasRoom(t), Swit(t)
  PROVE  NetInv(Rest)' /\ Confined(t)
<1>1. PICK r \in Redexes(t, "SWIT") :
        LET av == val(PairOf(r)[1]).val
            b  == PairOf(r)[2]
            B  == node_buf[val(b)]
            n  == node_alloc(t, 2)
            stored == IF av = 0 THEN << <<B[2], Era>> >>
                      ELSE << <<Era, <<"CON", n[2]>> >>, <<NumP(new_u24(av - 1)), B[2]>> >>
        IN  /\ Take(t, r)
            /\ get_resources(t, 2, 0)
            /\ Rewrite(t, {val(b)}, n, stored, <<>>)
            /\ Links(t, << << <<"CON", n[1]>>, B[1] >> >>)
            /\ UNCHANGED oper
  BY DEF Swit
<1>2. PICK rule : r \in Redexes(t, rule) /\ rule = "SWIT"
  OBVIOUS
<1>3. Take(t, r) /\ oper' = oper
  BY <1>1
<1>4. BufTypes /\ RuleOf(r) = rule /\ IsPair(r)
  BY <1>2, <1>3, Taken
<1>5. PICK a, b, x, y : /\ Meets(r, a, b, x, y)
                        /\ RuleOf(r) \in {"OPER", "SWIT"} => tag(a) = "NUM" /\ is_nod(b)
  BY <1>4, RedexMeets
<1>6. ~is_nod(a) /\ ~is_var(a) /\ is_nod(b) /\ ~is_var(b)
  BY <1>2, <1>4, <1>5 DEF is_var, is_nod, Nodes
<1>7. /\ x \in {1, 2} /\ y \in {1, 2} /\ x # y /\ a = r[x] /\ b = r[y]
      /\ PairOf(r)[1] = a /\ PairOf(r)[2] = b
  BY <1>5 DEF Meets
<1>8. PICK c, B : c = val(b) /\ B = node_buf[c]
  OBVIOUS
<1>9. c \in Loc /\ B # FREE_NODE /\ IsPair(B)
  BY <1>2, <1>3, <1>6, <1>7, <1>8, RedexNodes
<1>10. PICK taken, n, e, k, z, l : /\ taken = {c} /\ n = node_alloc(t, k) /\ e = <<>> /\ k = 2
                                   /\ z = new_u24(val(a).val - 1) /\ l = 0
  <2>1. PICK k : k = 2
    OBVIOUS
  <2>. QED
    BY <2>1
<1>11. PICK s0, s1, s2, p, pairs :
         /\ s0 = <<B[2], Era>> /\ s1 = <<Era, <<"CON", n[2]>> >> /\ s2 = <<NumP(z), B[2]>>
         /\ p = << <<"CON", n[1]>>, B[1] >> /\ pairs = <<p>>
  OBVIOUS
<1>12. PICK stored : stored = IF val(a).val = 0 THEN <<s0>> ELSE <<s1, s2>>
  OBVIOUS
<1>13. Rewrite(t, taken, n, stored, e) /\ Links(t, pairs) /\ get_resources(t, k, l)
  BY <1>1, <1>7, <1>8, <1>10, <1>11, <1>12
<1>14. /\ Fresh(n, k, t, node_buf, FREE_NODE)
       /\ nput' \in [Thread -> Nat] /\ vput' \in [Thread -> Nat]
  <2>1. k \in Nat /\ l \in Nat /\ (t \in Bounded \/ Finds(t, k, l))
    BY <1>2, <1>3, <1>10, AskedFound
  <2>. QED
    BY <1>4, <1>10, <1>13, <2>1, Allocates
<1>15. n[1] \in Loc /\ n[2] \in Loc /\ n[1] # n[2]
  BY <1>10, <1>14 DEF Fresh
<1>16. /\ \A w : IsPort(NumP(w))
       /\ IsPort(Era) /\ Era # FREE /\ \A w : NumP(w) # FREE
       /\ IsPort(<<"CON", n[1]>>) /\ IsPort(<<"CON", n[2]>>)
  BY <1>15 DEF IsPort, Era, NumP, FREE, VarP, tag, val, is_var, is_nod, Nodes, Nullary
<1>17. /\ IsPair(s0) /\ IsPair(s1) /\ IsPair(s2) /\ IsPair(p)
       /\ s0 # FREE_NODE /\ s1 # FREE_NODE /\ s2 # FREE_NODE
  BY <1>9, <1>11, <1>16 DEF IsPair, FREE_NODE
<1>18. IsList(pairs) /\ Len(pairs) = 1 /\ pairs[1] = p
  BY <1>11, <1>17, ListOne
<1>19. \A k0 \in {1, 2} : ~is_var(r[k0])
  BY <1>6, <1>7
<1>20. \A g \in Loc : g \in taken <=> \E k0 \in {1, 2} : is_nod(r[k0]) /\ val(r[k0]) = g
  BY <1>6, <1>7, <1>8, <1>10
<1>21. ASSUME NEW m \in {1, 2}, DOMAIN stored = 1 .. m,
              \A j \in 1 .. m : IsPair(stored[j]) /\ stored[j] # FREE_NODE
       PROVE  Rewrites(t, r, taken, n, e, l, stored, m, pairs)
  <2>1. \E h \in Nat : m <= h /\ Fresh(n, h, t, node_buf, FREE_NODE)
    BY <1>10, <1>14
  <2>2. taken \in SUBSET Loc /\ \A g \in taken : node_buf[g] # FREE_NODE
    BY <1>8, <1>9, <1>10
  <2>3. l \in Nat /\ Fresh(e, l, t, vars_buf, FREE)
    BY <1>10, NoCells
  <2>4. RewritesCells(t, taken, n, e, l, stored, m)
    BY <1>13, <1>21, <2>1, <2>2, <2>3 DEF RewritesCells
  <2>. QED
    BY <1>3, <1>13, <1>14, <1>18, <1>21, <2>4 DEF Rewrites
<1>22. CASE val(a).val = 0
  <2>1. stored = <<s0>>
    BY <1>12, <1>22
  <2>2. PICK m, I, from : /\ m = 1 /\ I = {<<"node", 1, 1>>, <<"pair", 1, 2>>}
                          /\ from = [s \in I |-> <<c, IF s[1] = "pair" THEN 1 ELSE 2>>]
    <3>1. PICK I : I = {<<"node", 1, 1>>, <<"pair", 1, 2>>}
      OBVIOUS
    <3>. QED
      BY <3>1
  <2>3. DOMAIN stored = 1 .. m /\ \A j \in 1 .. m : stored[j] = s0
    BY <2>1, <2>2
  <2>4. Rewrites(t, r, taken, n, e, l, stored, m, pairs)
    BY <1>17, <1>21, <2>2, <2>3
  <2>5. Moves({c}, stored, 1, pairs, I, from) /\ Makes(n, e, 0, stored, 1, pairs, I)
    <3>1. B = node_buf[c] /\ s0 = <<B[2], Era>> /\ p = << <<"CON", n[1]>>, B[1] >>
      BY <1>8, <1>11
    <3>2. stored = <<s0>> /\ Len(pairs) = 1 /\ pairs[1] = p
      BY <1>18, <2>1
    <3>. QED
      BY <2>2, <3>1, <3>2, SwitZero
  <2>6. Moves(taken, stored, m, pairs, I, from) /\ Makes(n, e, l, stored, m, pairs, I)
    BY <1>10, <2>2, <2>5
  <2>. QED
    BY <1>2, <1>19, <1>20, <2>4, <2>6, InteractionKeeps
<1>23. CASE val(a).val # 0
  <2>1. stored = <<s1, s2>>
    BY <1>12, <1>23
  <2>2. PICK m, I, from : /\ m = 2 /\ I = {<<"node", 2, 2>>, <<"pair", 1, 2>>}
                          /\ from = [s \in I |-> <<c, IF s[1] = "pair" THEN 1 ELSE 2>>]
    <3>1. PICK I : I = {<<"node", 2, 2>>, <<"pair", 1, 2>>}
      OBVIOUS
    <3>. QED
      BY <3>1
  <2>3. DOMAIN stored = 1 .. m /\ \A j \in 1 .. m : stored[j] \in {s1, s2}
    BY <2>1, <2>2
  <2>4. Rewrites(t, r, taken, n, e, l, stored, m, pairs)
    BY <1>17, <1>21, <2>2, <2>3
  <2>5. Moves({c}, stored, 2, pairs, I, from) /\ Makes(n, e, 0, stored, 2, pairs, I)
    <3>1. /\ B = node_buf[c] /\ s1 = <<Era, <<"CON", n[2]>> >> /\ s2 = <<NumP(z), B[2]>>
          /\ stored = <<s1, s2>> /\ p = << <<"CON", n[1]>>, B[1] >> /\ Len(pairs) = 1
          /\ pairs[1] = p /\ n[1] # n[2]
      BY <1>8, <1>11, <1>15, <1>18, <2>1
    <3>2. /\ I = {<<"node", 2, 2>>, <<"pair", 1, 2>>}
          /\ from = [s \in I |-> <<c, IF s[1] = "pair" THEN 1 ELSE 2>>]
      BY <2>2
    <3>. QED
      BY <3>1, <3>2, SwitSucc
  <2>6. Moves(taken, stored, m, pairs, I, from) /\ Makes(n, e, l, stored, m, pairs, I)
    BY <1>10, <2>2, <2>5
  <2>. QED
    BY <1>2, <1>19, <1>20, <2>4, <2>6, InteractionKeeps
<1>. QED
  BY <1>22, <1>23

LEMMA OperTakeKeeps ==
  ASSUME NEW Rest, Elsewhere(Rest), NetInv(Rest), program' = program,
         NEW t \in Thread, t \in Bounded \/ HasRoom(t), OperTake(t)
  PROVE  NetInv(Rest)' /\ Confined(t)
<1>1. PICK r \in Redexes(t, "OPER") :
        LET a == PairOf(r)[1]
            b == PairOf(r)[2]
            B == node_buf[val(b)]
            n == node_alloc(t, 1)
        IN  /\ Take(t, r)
            /\ get_resources(t, 1, 0)
            /\ Rewrite(t, {val(b)}, <<>>, <<>>, <<>>)
            /\ oper' = [oper EXCEPT ![t] = <<a, B[1], B[2], n[1]>>]
            /\ pc' = [pc EXCEPT ![t] = "oper"]
            /\ UNCHANGED todo
  BY DEF OperTake
<1>2. PICK rule : r \in Redexes(t, rule) /\ rule = "OPER"
  OBVIOUS
<1>3. Take(t, r) /\ todo' = todo /\ pc' = [pc EXCEPT ![t] = "oper"]
  BY <1>1
<1>4. /\ BufTypes /\ PoolTypes /\ ThreadTypes /\ Balanced(Rest) /\ program \in DOMAIN Book
      /\ ThreadInv(t) /\ todo[t] = <<>> /\ oper[t] = <<>>
      /\ RuleOf(r) = rule /\ IsPair(r) /\ PoolTypes'
  BY <1>2, <1>3, Taken
<1>5. PICK a, b, x, y : /\ Meets(r, a, b, x, y)
                        /\ RuleOf(r) \in {"OPER", "SWIT"} => tag(a) = "NUM" /\ is_nod(b)
  BY <1>4, RedexMeets
<1>6. tag(a) = "NUM" /\ ~is_nod(a) /\ ~is_var(a) /\ is_nod(b) /\ ~is_var(b)
  BY <1>2, <1>4, <1>5 DEF is_var, is_nod, Nodes
<1>7. /\ x \in {1, 2} /\ y \in {1, 2} /\ x # y /\ a = r[x] /\ b = r[y]
      /\ PairOf(r)[1] = a /\ PairOf(r)[2] = b /\ IsPort(a)
  BY <1>5 DEF Meets
<1>8. PICK c, B : c = val(b) /\ B = node_buf[c]
  OBVIOUS
<1>9. c \in Loc /\ B # FREE_NODE /\ IsPair(B)
  BY <1>2, <1>3, <1>6, <1>7, <1>8, RedexNodes
<1>10. PICK taken, n, e, k, l : taken = {c} /\ n = node_alloc(t, k) /\ e = <<>> /\ k = 1 /\ l = 0
  <2>1. PICK k : k = 1
    OBVIOUS
  <2>. QED
    BY <2>1
<1>11. PICK o : o = <<a, B[1], B[2], n[1]>>
  OBVIOUS
<1>12. Rewrite(t, taken, e, e, e) /\ get_resources(t, k, l) /\ oper' = [oper EXCEPT ![t] = o]
  BY <1>1, <1>7, <1>8, <1>10, <1>11
<1>13. /\ Fresh(n, k, t, node_buf, FREE_NODE)
       /\ nput' \in [Thread -> Nat] /\ vput' \in [Thread -> Nat]
  <2>1. k \in Nat /\ l \in Nat /\ (t \in Bounded \/ Finds(t, k, l))
    BY <1>2, <1>3, <1>10, AskedFound
  <2>. QED
    BY <1>4, <1>10, <1>12, <2>1, Allocates
<1>14. n[1] \in Part(t) /\ n[1] \in Loc \ {0} /\ node_buf[n[1]] = FREE_NODE
  BY <1>10, <1>13 DEF Fresh
<1>15. /\ DOMAIN node_buf' = Loc /\ DOMAIN vars_buf' = Loc /\ node_buf'[c] = FREE_NODE
       /\ \A g \in Loc \ {c} : node_buf'[g] = node_buf[g]
       /\ \A g \in Loc : vars_buf'[g] = vars_buf[g]
  <2>1. /\ Fresh(e, l, t, node_buf, FREE_NODE) /\ Fresh(e, l, t, vars_buf, FREE)
        /\ DOMAIN e = 1 .. l /\ l \in Nat
    BY <1>10, NoCells
  <2>2. \E h \in Nat : l <= h /\ Fresh(e, h, t, node_buf, FREE_NODE)
    BY <1>10, <2>1
  <2>3. taken \in SUBSET Loc /\ \A g \in taken : node_buf[g] # FREE_NODE
    BY <1>8, <1>9, <1>10
  <2>4. RewritesCells(t, taken, e, e, l, e, l)
    BY <1>12, <2>1, <2>2, <2>3 DEF RewritesCells
  <2>5. /\ DOMAIN node_buf' = Loc /\ DOMAIN vars_buf' = Loc
        /\ \A g \in taken : node_buf'[g] = FREE_NODE
        /\ \A g \in Loc : g \notin taken /\ (\A j \in 1 .. l : e[j] # g) =>
             node_buf'[g] = node_buf[g]
        /\ \A g \in Loc : (\A j \in 1 .. l : e[j] # g) => vars_buf'[g] = vars_buf[g]
    BY <2>4, RewriteCells
  <2>6. \A g : \A j \in 1 .. l : e[j] # g
    BY <1>10
  <2>. QED
    BY <1>10, <2>5, <2>6
<1>16. o[1] = a /\ o[2] = B[1] /\ o[3] = B[2] /\ o[4] = n[1] /\ o # <<>>
  BY <1>11
<1>17. PICK u, w, f, g : /\ u = OperItem(t, 2, o[2]) /\ w = OperItem(t, 3, o[3])
                         /\ f = NodeItem(c, 1, B[1]) /\ g = NodeItem(c, 2, B[2])
  OBVIOUS
<1>18. u # w /\ f # g /\ u[2] = B[1] /\ w[2] = B[2] /\ f[2] = B[1] /\ g[2] = B[2]
  BY <1>16, <1>17 DEF OperItem, NodeItem
<1>19. Changed(HeldInOper, HeldInOper', {}, {u, w})
  <2>1. OperItems(t, oper[t]) = {} /\ OperItems(t, o) = {u, w}
    BY <1>4, <1>16, <1>17 DEF OperItems
  <2>2. Changed(OperItems(t, oper[t]), OperItems(t, o), {}, {u, w})
    BY <2>1 DEF Changed
  <2>. QED
    BY <1>4, <1>12, <2>2, OperChanged DEF ThreadTypes
<1>20. Changed(HeldInNodes, HeldInNodes', {f, g}, {})
  <2>1. PICK T : T = {c}
    OBVIOUS
  <2>2. T \in SUBSET Loc /\ \A h \in Loc \ T : node_buf'[h] = node_buf[h]
    BY <1>9, <1>15, <2>1
  <2>3. Changed(HeldInNodes, HeldInNodes', UNION {NodeItems(h, node_buf[h]) : h \in T},
                UNION {NodeItems(h, node_buf'[h]) : h \in T})
    BY <2>2, NodesChanged
  <2>4. NodeItems(c, node_buf[c]) = {f, g} /\ NodeItems(c, node_buf'[c]) = {}
    BY <1>8, <1>9, <1>15, <1>17 DEF NodeItems
  <2>. QED
    BY <2>1, <2>3, <2>4
<1>21. PICK bag, m : /\ RedexItems(bag, r, m) \subseteq All(Rest)
                     /\ Changed(HeldInPool, HeldInPool', RedexItems(bag, r, m), {})
  BY <1>2, <1>3, Taken
<1>22. PICK p, q : p = PoolItem(bag, r, m, x) /\ q = PoolItem(bag, r, m, y)
  OBVIOUS
<1>23. RedexItems(bag, r, m) = {p, q} /\ p # q /\ p[2] = a /\ q[2] = b
  <2>1. {1, 2} = {x, y}
    BY <1>7
  <2>. QED
    BY <1>7, <1>22, <2>1 DEF RedexItems, PoolItem
<1>24. Changed(All(Rest), All(Rest)', {f, g, p, q}, {u, w})
  <2>1. HeldInTodo' = HeldInTodo
    BY <1>3 DEF HeldInTodo
  <2>2. HeldInVars' = HeldInVars
    <3>1. \A h \in Loc : VarItems(h, vars_buf'[h]) = VarItems(h, vars_buf[h])
      BY <1>15 DEF VarItems
    <3>2. \A z : z \in HeldInVars' <=> z \in HeldInVars
      BY <3>1, InVars, Zenon
    <3>. QED
      BY <3>2
  <2>3. Changed(HeldInTodo, HeldInTodo', {}, {}) /\ Changed(HeldInVars, HeldInVars', {}, {})
    BY <2>1, <2>2, Unchanged
  <2>4. Changed(HeldInPool, HeldInPool', {p, q}, {})
    BY <1>21, <1>23
  <2>5. Changed(All(Rest), All(Rest)', {f, g} \cup {} \cup {p, q} \cup {} \cup {}, {} \cup {} \cup {} \cup {} \cup {u, w})
    BY <1>19, <1>20, <2>3, <2>4, NetChanged
  <2>6. /\ {f, g} \cup {} \cup {p, q} \cup {} \cup {} = {f, g, p, q}
        /\ {} \cup {} \cup {} \cup {} \cup {u, w} = {u, w}
    OBVIOUS
  <2>. QED
    BY <2>5, <2>6
<1>25. f # p /\ f # q /\ g # p /\ g # q
  BY <1>17, <1>22 DEF NodeItem, PoolItem
<1>26. PICK Old, at, src : /\ Old = {f, g, p, q} /\ at = [i \in {1, 2} |-> IF i = 1 THEN u ELSE w]
                           /\ src = [i \in {1, 2} |-> IF i = 1 THEN f ELSE g]
  OBVIOUS
<1>27. at[1] = u /\ at[2] = w /\ src[1] = f /\ src[2] = g
  BY <1>26
<1>28. Rearranged(All(Rest), All(Rest)', Old, {1, 2}, at, {1, 2}, src)
  <2>1. {at[i] : i \in {1, 2}} = {u, w}
    BY <1>27
  <2>2. \A i \in {1, 2} : src[i] \in Old /\ src[i][2] = at[i][2]
    BY <1>18, <1>26, <1>27
  <2>3. \A i, j \in {1, 2} : (at[i] = at[j] => i = j) /\ (src[i] = src[j] => i = j)
    BY <1>18, <1>27
  <2>. QED
    BY <1>24, <1>26, <2>1, <2>2, <2>3 DEF Changed, Rearranged
<1>29. \A z : /\ Lost(Old, {1, 2}, src, z) = {h \in {p, q} : Key(h[2]) = z}
              /\ Made({1, 2}, at, {1, 2}, z) = {}
  BY <1>25, <1>26, <1>27 DEF Lost, Made
<1>30. Key(a) = NONE /\ Key(b) = <<"NODE", c>>
  BY <1>6, <1>8 DEF Key
<1>31. Balanced(Rest)'
  <2>1. \A h : /\ <<"VAR", h>> # NONE /\ <<"NODE", h>> # NONE /\ <<"VAR", h>> # <<"NODE", c>>
               /\ (<<"NODE", h>> = <<"NODE", c>> <=> h = c)
    BY DEF NONE
  <2>2. \A h : /\ Lost(Old, {1, 2}, src, <<"VAR", h>>) = {}
               /\ h # c => Lost(Old, {1, 2}, src, <<"NODE", h>>) = {}
               /\ h = c => Lost(Old, {1, 2}, src, <<"NODE", h>>) = {q}
    BY <1>23, <1>29, <1>30, <2>1
  <2>3. \A h \in Loc : /\ Counted(Lost(Old, {1, 2}, src, <<"VAR", h>>), 0)
                       /\ Counted(Made({1, 2}, at, {1, 2}, <<"VAR", h>>), 0)
                       /\ h # c => Counted(Lost(Old, {1, 2}, src, <<"NODE", h>>), 0)
                       /\ h = c => Counted(Lost(Old, {1, 2}, src, <<"NODE", h>>), 1)
                       /\ Counted(Made({1, 2}, at, {1, 2}, <<"NODE", h>>), 0)
    BY <1>29, <2>2, CountedSmall
  <2>4. \A h \in Loc : OwedVar(h)' = OwedVar(h) - 0 + 0
    BY <1>15 DEF OwedVar
  <2>5. \A h \in Loc : OwedNode(h)' = IF h = c THEN OwedNode(h) - 1 + 0 ELSE OwedNode(h) - 0 + 0
    BY <1>8, <1>9, <1>15 DEF OwedNode
  <2>6. TalliedVars(Old, {1, 2}, at, {1, 2}, src)
    BY <2>3, <2>4 DEF TalliedVars
  <2>7. TalliedNodes(Old, {1, 2}, at, {1, 2}, src)
    BY <2>3, <2>5 DEF TalliedNodes
  <2>. QED
    BY <1>4, <1>28, <2>6, <2>7, Rebalanced
<1>32. IsOper(t, o)'
  <2>1. IsPort(o[1])' /\ IsPort(o[2])' /\ IsPort(o[3])'
    BY <1>7, <1>9, <1>16, PortsKept DEF IsPair
  <2>2. node_buf'[o[4]] = FREE_NODE
    BY <1>8, <1>9, <1>14, <1>15, <1>16
  <2>3. o = <<o[1], o[2], o[3], o[4]>>
    BY <1>11
  <2>. QED
    BY <1>6, <1>14, <1>16, <2>1, <2>2, <2>3 DEF IsOper
<1>33. ThreadTypes'
  <2>1. oper'[t] = o /\ \A h \in Thread \ {t} : oper'[h] = oper[h]
    BY <1>4, <1>12 DEF ThreadTypes
  <2>2. pc'[t] = "oper" /\ \A h \in Thread \ {t} : pc'[h] = pc[h]
    BY <1>3, <1>4 DEF ThreadTypes
  <2>3. IsList(todo[t])'
    BY <1>3, <1>4, PortsKept DEF ThreadInv
  <2>4. IsOper(t, oper[t])'
    BY <1>32, <2>1
  <2>5. ThreadInv(t)'
    BY <1>3, <1>4, <2>2, <2>3, <2>4 DEF ThreadInv
  <2>6. DOMAIN pc' = Thread /\ DOMAIN todo' = Thread /\ DOMAIN oper' = Thread
    BY <1>3, <1>4, <1>12 DEF ThreadTypes
  <2>7. \A h \in Thread \ {t} : \A i \in Part(h) : node_buf[i] = FREE_NODE => node_buf'[i] = FREE_NODE
    BY <1>15, Sizes
  <2>. QED
    BY <1>3, <1>4, <2>1, <2>2, <2>5, <2>6, <2>7, ThreadsKept
<1>34. BufTypes'
  <2>1. IsPort(FREE) /\ IsPair(FREE_NODE)
    BY Sizes DEF IsPort, IsPair, FREE_NODE, FREE, VarP, is_var, is_nod, tag, val, Nodes
  <2>2. \A h \in Loc : IsPair(node_buf[h])'
    <3>. SUFFICES ASSUME NEW h \in Loc PROVE IsPair(node_buf[h])'
      OBVIOUS
    <3>1. PICK z : z = node_buf'[h]
      OBVIOUS
    <3>2. IsPair(z)
      BY <1>4, <1>15, <2>1, <3>1 DEF BufTypes
    <3>3. IsPair(z)'
      BY <3>2, PortsKept
    <3>. QED
      BY <3>1, <3>3
  <2>3. \A h \in Loc : vars_buf'[h] = NONE \/ IsPort(vars_buf[h])'
    <3>. SUFFICES ASSUME NEW h \in Loc PROVE vars_buf'[h] = NONE \/ IsPort(vars_buf[h])'
      OBVIOUS
    <3>1. PICK z : z = vars_buf'[h]
      OBVIOUS
    <3>2. z = NONE \/ IsPort(z)
      BY <1>4, <1>15, <3>1 DEF BufTypes
    <3>3. z = NONE \/ IsPort(z)'
      BY <3>2, PortsKept
    <3>. QED
      BY <3>1, <3>3
  <2>4. vars_buf'[0] = FREE
    BY <1>4, <1>15, Sizes DEF BufTypes
  <2>. QED
    BY <1>13, <1>15, <2>2, <2>3, <2>4 DEF BufTypes
<1>35. Confined(t)
  <2>1. r \in DOMAIN pool[BagOf[t]] /\ PoolConfined(t)
    BY <1>3, <1>4, BagConfined DEF Redexes, Take
  <2>2. \A z \in Loc : node_buf'[z] \in {node_buf[z], FREE_NODE}
    BY <1>15
  <2>3. \A i \in {1, 2} : May(t, B[i])
    BY <1>6, <1>7, <1>8, <1>9, <2>1 DEF May, Reached
  <2>4. oper'[t] = o /\ \A h \in Thread \ {t} : oper'[h] = oper[h]
    BY <1>4, <1>12 DEF ThreadTypes
  <2>5. \A i \in {2, 3} : May(t, o[i])
    BY <1>16, <2>3
  <2>6. DOMAIN todo'[t] = {}
    BY <1>3, <1>4
  <2>. QED
    BY <1>3, <1>15, <2>1, <2>2, <2>4, <2>5, <2>6 DEF Confined, PortsConfined
<1>. QED
  BY <1>4, <1>31, <1>33, <1>34, <1>35 DEF NetInv

-----------------------------------------------------------------------------
(* A call instantiates a definition, which is a net.                       *)

LEMMA InSlots ==
  ASSUME NEW d, NEW R, NEW N, DOMAIN d.rbag = 1 .. R, DOMAIN d.node = 1 .. N
  PROVE  \A s : s \in Slots(d) <=>
           \/ s = <<"root", 1, 1>>
           \/ \E i \in 1 .. R, k \in {1, 2} : s = <<"rbag", i, k>>
           \/ \E i \in 1 .. N, k \in {1, 2} : s = <<"node", i, k>>
BY DEF Slots

LEMMA SlotsFinite ==
  ASSUME NEW d, NEW R \in Nat, NEW N \in Nat, DOMAIN d.rbag = 1 .. R, DOMAIN d.node = 1 .. N
  PROVE  IsFiniteSet(Slots(d))
<1>1. PICK K, M : K = {"root", "rbag"} \cup {"node"} /\ M = R + N + 1
  OBVIOUS
<1>2. IsFiniteSet(K)
  <2>1. IsFiniteSet({"root", "rbag"}) /\ IsFiniteSet({"node"})
    BY CountedSmall DEF Counted
  <2>. QED
    BY <1>1, <2>1, FS_Union
<1>3. IsFiniteSet((K \X (1 .. M)) \X {1, 2})
  <2>1. IsFiniteSet(1 .. M) /\ IsFiniteSet({1, 2})
    <3>1. M \in Int /\ 1 \in Int /\ 1 # 2
      BY <1>1
    <3>. QED
      BY <3>1, FS_Interval, CountedSmall DEF Counted
  <2>2. PICK P : P = K \X (1 .. M)
    OBVIOUS
  <2>3. IsFiniteSet(P)
    BY <1>2, <2>1, <2>2, FS_Product
  <2>. QED
    BY <2>1, <2>2, <2>3, FS_Product
<1>4. PICK g, T : g = [s \in Slots(d) |-> << <<s[1], s[2]>>, s[3] >>] /\ T = (K \X (1 .. M)) \X {1, 2}
  OBVIOUS
<1>5. \A s \in Slots(d) : s = <<s[1], s[2], s[3]>> /\ s[1] \in K /\ s[2] \in 1 .. M /\ s[3] \in {1, 2}
  BY <1>1, InSlots
<1>6. g \in Injection(Slots(d), T)
  <2>1. \A s \in Slots(d) : g[s] \in T
    BY <1>4, <1>5
  <2>2. \A s, u \in Slots(d) : g[s] = g[u] => s = u
    <3>. SUFFICES ASSUME NEW s \in Slots(d), NEW u \in Slots(d), g[s] = g[u] PROVE s = u
      OBVIOUS
    <3>1. s[1] = u[1] /\ s[2] = u[2] /\ s[3] = u[3]
      BY <1>4
    <3>. QED
      BY <1>5, <3>1
  <2>. QED
    BY <1>4, <2>1, <2>2, Fun_IsInj
<1>. QED
  BY <1>3, <1>4, <1>6, FS_Injection

\* What a definition d has, with R redexes, N nodes and V variables.
Definition(d, R, N, V) ==
  /\ R \in Nat /\ N \in Nat /\ V \in Nat
  /\ DOMAIN d.rbag = 1 .. R /\ DOMAIN d.node = 1 .. N
  /\ \A s \in Slots(d) :
       LET p == PortAt(d, s)
       IN  /\ p = <<tag(p), val(p)>> /\ tag(p) \in Nodes \cup Nullary \cup {"VAR"}
           /\ is_var(p) => val(p) \in 0 .. V - 1
           /\ is_nod(p) => val(p) \in 0 .. N - 1
           /\ tag(p) = "REF" => val(p) \in DOMAIN Book[program]
  /\ \A x \in 0 .. V - 1 : Counted({s \in Slots(d) : PortAt(d, s) = VarP(x)}, 2)
  /\ \A x \in 0 .. N - 1 : Counted({s \in Slots(d) : is_nod(PortAt(d, s)) /\ val(PortAt(d, s)) = x}, 1)

LEMMA Defined ==
  ASSUME program \in DOMAIN Book, NEW f \in DOMAIN Book[program], NEW d, d = Book[program][f]
  PROVE  Definition(d, Len(d.rbag), Len(d.node), d.vars)
<1>1. d.vars \in Nat /\ IsNet(d, DOMAIN Book[program])
  BY InteractionsAssumption
<1>2. PICK R, N, V : R = Len(d.rbag) /\ N = Len(d.node) /\ V = d.vars
  OBVIOUS
<1>3. IsPairs(d.rbag) /\ IsPairs(d.node)
  BY <1>1 DEF IsNet
<1>4. R \in Nat /\ N \in Nat /\ V \in Nat /\ DOMAIN d.rbag = 1 .. R /\ DOMAIN d.node = 1 .. N
  BY <1>1, <1>2, <1>3 DEF IsPairs
<1>5. IsFiniteSet(Slots(d))
  BY <1>4, SlotsFinite
<1>6. \A x \in 0 .. V - 1 : Counted({s \in Slots(d) : PortAt(d, s) = VarP(x)}, 2)
  <2>. SUFFICES ASSUME NEW x \in 0 .. V - 1
                PROVE  Counted({s \in Slots(d) : PortAt(d, s) = VarP(x)}, 2)
    OBVIOUS
  <2>1. PICK Q : Q = {s \in Slots(d) : PortAt(d, s) = VarP(x)}
    OBVIOUS
  <2>2. Cardinality(Q) = 2
    BY <1>1, <1>2, <2>1 DEF IsNet
  <2>3. IsFiniteSet(Q)
    BY <1>5, <2>1, FS_Subset
  <2>. QED
    BY <2>1, <2>2, <2>3 DEF Counted
<1>7. \A x \in 0 .. N - 1 : Counted({s \in Slots(d) : is_nod(PortAt(d, s)) /\ val(PortAt(d, s)) = x}, 1)
  <2>. SUFFICES ASSUME NEW x \in 0 .. N - 1
                PROVE  Counted({s \in Slots(d) : is_nod(PortAt(d, s)) /\ val(PortAt(d, s)) = x}, 1)
    OBVIOUS
  <2>1. PICK Q : Q = {s \in Slots(d) : is_nod(PortAt(d, s)) /\ val(PortAt(d, s)) = x}
    OBVIOUS
  <2>2. Cardinality(Q) = 1
    BY <1>1, <1>2, <2>1 DEF IsNet
  <2>3. IsFiniteSet(Q)
    BY <1>5, <2>1, FS_Subset
  <2>. QED
    BY <2>1, <2>2, <2>3 DEF Counted
<1>8. \A s \in Slots(d) :
        LET p == PortAt(d, s)
        IN  /\ p = <<tag(p), val(p)>> /\ tag(p) \in Nodes \cup Nullary \cup {"VAR"}
            /\ is_var(p) => val(p) \in 0 .. V - 1
            /\ is_nod(p) => val(p) \in 0 .. N - 1
            /\ tag(p) = "REF" => val(p) \in DOMAIN Book[program]
  BY <1>1, <1>2 DEF IsNet
<1>. QED
  BY <1>2, <1>4, <1>6, <1>7, <1>8 DEF Definition

\* Its ports, at the cells n and v.
LEMMA Adjusted ==
  ASSUME NEW d, NEW R, NEW N, NEW V, Definition(d, R, N, V), NEW t \in Thread, NEW n, NEW v,
         Fresh(n, N, t, node_buf, FREE_NODE), Fresh(v, V, t, vars_buf, FREE),
         NEW s \in Slots(d), NEW p, p = PortAt(d, s), NEW q, q = Adjust(p, n, v)
  PROVE  /\ IsPort(q) /\ q # FREE
         /\ \/ \E x \in 0 .. V - 1 : p = VarP(x) /\ Key(q) = <<"VAR", v[x + 1]>>
            \/ \E x \in 0 .. N - 1 : is_nod(p) /\ val(p) = x /\ Key(q) = <<"NODE", n[x + 1]>>
            \/ ~is_var(p) /\ ~is_nod(p) /\ Key(q) = NONE
<1>1. /\ p = <<tag(p), val(p)>> /\ tag(p) \in Nodes \cup Nullary \cup {"VAR"}
      /\ is_var(p) => val(p) \in 0 .. V - 1
      /\ is_nod(p) => val(p) \in 0 .. N - 1
      /\ tag(p) = "REF" => val(p) \in DOMAIN Book[program]
      /\ V \in Nat /\ N \in Nat
  BY DEF Definition
<1>2. /\ \A i \in 1 .. N : n[i] \in Loc
      /\ \A i \in 1 .. V : v[i] \in Loc \ {0}
  BY DEF Fresh
<1>3. CASE is_var(p)
  <2>1. PICK x \in 0 .. V - 1 : x = val(p)
    BY <1>1, <1>3
  <2>2. x + 1 \in 1 .. V
    BY <1>1, <2>1
  <2>3. PICK c \in Loc \ {0} : c = v[x + 1]
    BY <1>2, <2>2
  <2>4. q = VarP(c) /\ p = VarP(x)
    BY <1>1, <1>3, <2>1, <2>3 DEF Adjust, is_var, is_nod, Nodes, VarP
  <2>5. IsPort(q) /\ q # FREE /\ Key(q) = <<"VAR", c>>
    BY <2>3, <2>4 DEF IsPort, Key, VarP, FREE, tag, val, is_var, is_nod, Nodes
  <2>. QED
    BY <2>3, <2>4, <2>5
<1>4. CASE is_nod(p)
  <2>1. PICK x \in 0 .. N - 1 : x = val(p)
    BY <1>1, <1>4
  <2>2. x + 1 \in 1 .. N
    BY <1>1, <2>1
  <2>3. PICK c \in Loc : c = n[x + 1]
    BY <1>2, <2>2
  <2>4. q = <<tag(p), c>> /\ tag(p) \in Nodes
    BY <1>4, <2>1, <2>3 DEF Adjust, is_nod
  <2>5. IsPort(q) /\ q # FREE /\ Key(q) = <<"NODE", c>>
    BY <2>3, <2>4 DEF IsPort, Key, VarP, FREE, tag, val, is_var, is_nod, Nodes
  <2>. QED
    BY <1>4, <2>1, <2>3, <2>5
<1>5. CASE ~is_var(p) /\ ~is_nod(p)
  <2>1. q = p
    BY <1>5 DEF Adjust
  <2>2. IsPort(q) /\ Key(q) = NONE
    BY <1>1, <1>5, <2>1 DEF IsPort, Key
  <2>3. q # FREE
    BY <1>5, <2>1 DEF FREE, VarP, is_var, tag
  <2>. QED
    BY <1>5, <2>2, <2>3
<1>. QED
  BY <1>3, <1>4, <1>5

\* Where its ports are written, the root against the port b.
Spot(d, R, s) ==
  IF s[1] = "node" THEN s ELSE IF s[1] = "rbag" THEN <<"pair", s[2], s[3]>> ELSE <<"pair", R + 1, 1>>
Instance(d, R, N, b, n, v, stored, pairs) ==
  /\ DOMAIN stored = 1 .. N /\ Len(pairs) = R + 1
  /\ \A s \in Slots(d) : Contents(stored, pairs, Spot(d, R, s)) = Adjust(PortAt(d, s), n, v)
  /\ Contents(stored, pairs, <<"pair", R + 1, 2>>) = b

OpenSpots(R, N) == Spots(N, R + 1) \ {<<"pair", R + 1, 2>>}

LEMMA SpotsOfSlots ==
  ASSUME NEW d, NEW R \in Nat, NEW N \in Nat, DOMAIN d.rbag = 1 .. R, DOMAIN d.node = 1 .. N,
         NEW S, S = OpenSpots(R, N)
  PROVE  /\ \A s \in Slots(d) : Spot(d, R, s) \in S
         /\ \A u \in S : \E s \in Slots(d) : Spot(d, R, s) = u
         /\ \A s, u \in Slots(d) : Spot(d, R, s) = Spot(d, R, u) => s = u
<1>1. \A s : s \in S <=> \/ s = <<"pair", R + 1, 1>>
                         \/ \E i \in 1 .. R, k \in {1, 2} : s = <<"pair", i, k>>
                         \/ \E i \in 1 .. N, k \in {1, 2} : s = <<"node", i, k>>
  <2>1. \A s : s \in S <=> /\ s # <<"pair", R + 1, 2>>
                           /\ \/ \E i \in 1 .. N, k \in {1, 2} : s = <<"node", i, k>>
                              \/ \E i \in 1 .. R + 1, k \in {1, 2} : s = <<"pair", i, k>>
    BY InSpots DEF OpenSpots
  <2>2. \A i : i \in 1 .. R + 1 <=> i \in 1 .. R \/ i = R + 1
    OBVIOUS
  <2>3. R + 1 \notin 1 .. R
    OBVIOUS
  <2>4. /\ \A i, k : <<"node", i, k>> # <<"pair", R + 1, 2>>
        /\ \A i \in 1 .. R : \A k : <<"pair", i, k>> # <<"pair", R + 1, 2>>
        /\ <<"pair", R + 1, 1>> # <<"pair", R + 1, 2>>
    BY <2>3
  <2>. QED
    BY <2>1, <2>2, <2>4
<1>2. /\ Spot(d, R, <<"root", 1, 1>>) = <<"pair", R + 1, 1>>
      /\ \A i, k : Spot(d, R, <<"rbag", i, k>>) = <<"pair", i, k>>
      /\ \A i, k : Spot(d, R, <<"node", i, k>>) = <<"node", i, k>>
  BY DEF Spot
<1>3. \A s \in Slots(d) : Spot(d, R, s) \in S
  <2>. SUFFICES ASSUME NEW s \in Slots(d) PROVE Spot(d, R, s) \in S
    OBVIOUS
  <2>1. CASE s = <<"root", 1, 1>>
    BY <1>1, <1>2, <2>1
  <2>2. CASE \E i \in 1 .. R, k \in {1, 2} : s = <<"rbag", i, k>>
    BY <1>1, <1>2, <2>2
  <2>3. CASE \E i \in 1 .. N, k \in {1, 2} : s = <<"node", i, k>>
    BY <1>1, <1>2, <2>3
  <2>. QED
    BY <2>1, <2>2, <2>3, InSlots
<1>4. \A u \in S : \E s \in Slots(d) : Spot(d, R, s) = u
  <2>. SUFFICES ASSUME NEW u \in S PROVE \E s \in Slots(d) : Spot(d, R, s) = u
    OBVIOUS
  <2>1. CASE u = <<"pair", R + 1, 1>>
    <3>1. <<"root", 1, 1>> \in Slots(d)
      BY InSlots
    <3>. QED
      BY <1>2, <2>1, <3>1
  <2>2. ASSUME NEW i \in 1 .. R, NEW k \in {1, 2}, u = <<"pair", i, k>>
        PROVE  \E s \in Slots(d) : Spot(d, R, s) = u
    <3>1. <<"rbag", i, k>> \in Slots(d)
      BY InSlots
    <3>. QED
      BY <1>2, <2>2, <3>1
  <2>3. ASSUME NEW i \in 1 .. N, NEW k \in {1, 2}, u = <<"node", i, k>>
        PROVE  \E s \in Slots(d) : Spot(d, R, s) = u
    <3>1. <<"node", i, k>> \in Slots(d)
      BY InSlots
    <3>. QED
      BY <1>2, <2>3, <3>1
  <2>. QED
    BY <1>1, <2>1, <2>2, <2>3
<1>5. ASSUME NEW s \in Slots(d), NEW u \in Slots(d), Spot(d, R, s) = Spot(d, R, u) PROVE s = u
  <2>1. ASSUME NEW w \in Slots(d)
        PROVE  \/ w = <<"root", 1, 1>> /\ Spot(d, R, w) = <<"pair", R + 1, 1>>
               \/ \E i \in 1 .. R, k \in {1, 2} : w = <<"rbag", i, k>> /\ Spot(d, R, w) = <<"pair", i, k>>
               \/ \E i \in 1 .. N, k \in {1, 2} : w = <<"node", i, k>> /\ Spot(d, R, w) = <<"node", i, k>>
    <3>1. CASE w = <<"root", 1, 1>>
      BY <1>2, <3>1
    <3>2. CASE \E i \in 1 .. R, k \in {1, 2} : w = <<"rbag", i, k>>
      BY <1>2, <3>2
    <3>3. CASE \E i \in 1 .. N, k \in {1, 2} : w = <<"node", i, k>>
      BY <1>2, <3>3
    <3>. QED
      BY <3>1, <3>2, <3>3, InSlots
  <2>2. R + 1 \notin 1 .. R
    OBVIOUS
  <2>. QED
    BY <1>5, <2>1, <2>2
<1>. QED
  BY <1>3, <1>4, <1>5

LEMMA SlotsCounted ==
  ASSUME NEW d, NEW R \in Nat, NEW N \in Nat, DOMAIN d.rbag = 1 .. R, DOMAIN d.node = 1 .. N,
         NEW b, NEW n, NEW v, NEW stored, NEW pairs, Instance(d, R, N, b, n, v, stored, pairs),
         NEW I, I = {<<"pair", R + 1, 2>>}, NEW x, NEW Q \in SUBSET Slots(d), NEW k, Counted(Q, k),
         \A s \in Slots(d) : s \in Q <=> Key(Adjust(PortAt(d, s), n, v)) = x
  PROVE  Counted(Written(stored, N, pairs, I, x), k)
<1>1. PICK S, T : S = Spots(N, R + 1) \ I /\ T = Written(stored, N, pairs, I, x)
  OBVIOUS
<1>2. T = {s \in S : Key(Contents(stored, pairs, s)) = x}
  BY <1>1 DEF Written, Instance
<1>3. /\ \A s \in Slots(d) : Spot(d, R, s) \in S
      /\ \A u \in S : \E s \in Slots(d) : Spot(d, R, s) = u
      /\ \A s, u \in Slots(d) : Spot(d, R, s) = Spot(d, R, u) => s = u
  <2>1. S = OpenSpots(R, N)
    BY <1>1 DEF OpenSpots
  <2>. QED
    BY <2>1, SpotsOfSlots
<1>4. \A s \in Slots(d) : Contents(stored, pairs, Spot(d, R, s)) = Adjust(PortAt(d, s), n, v)
  BY DEF Instance
<1>5. PICK f : f = [s \in Q |-> Spot(d, R, s)]
  OBVIOUS
<1>6. \A s \in Q : f[s] = Spot(d, R, s) /\ s \in Slots(d)
  BY <1>5
<1>7. \A s \in Q : f[s] \in T
  BY <1>2, <1>3, <1>4, <1>6
<1>8. \A s, u \in Q : f[s] = f[u] => s = u
  BY <1>3, <1>6
<1>9. ASSUME NEW u \in T PROVE \E s \in Q : f[s] = u
  <2>1. u \in S /\ Key(Contents(stored, pairs, u)) = x
    BY <1>2
  <2>2. PICK s \in Slots(d) : Spot(d, R, s) = u
    BY <1>3, <2>1
  <2>3. s \in Q
    BY <1>4, <2>1, <2>2
  <2>. QED
    BY <1>6, <2>2, <2>3
<1>10. Counted(T, k)
  BY <1>7, <1>8, <1>9, CountedBijection
<1>. QED
  BY <1>1, <1>10

LEMMA InstanceMakes ==
  ASSUME NEW d, NEW R, NEW N, NEW V, Definition(d, R, N, V), NEW t \in Thread, NEW n, NEW v,
         Fresh(n, N, t, node_buf, FREE_NODE), Fresh(v, V, t, vars_buf, FREE),
         NEW b, NEW stored, NEW pairs, Instance(d, R, N, b, n, v, stored, pairs),
         NEW I, I = {<<"pair", R + 1, 2>>}
  PROVE  Makes(n, v, V, stored, N, pairs, I)
<1>1. R \in Nat /\ N \in Nat /\ V \in Nat /\ DOMAIN d.rbag = 1 .. R /\ DOMAIN d.node = 1 .. N
  BY DEF Definition
<1>2. \A s \in Slots(d) : LET p == PortAt(d, s) IN
        \/ \E x \in 0 .. V - 1 : p = VarP(x) /\ Key(Adjust(p, n, v)) = <<"VAR", v[x + 1]>>
        \/ \E x \in 0 .. N - 1 : is_nod(p) /\ val(p) = x /\ Key(Adjust(p, n, v)) = <<"NODE", n[x + 1]>>
        \/ ~is_var(p) /\ ~is_nod(p) /\ Key(Adjust(p, n, v)) = NONE
  BY Adjusted
<1>3. /\ \A i, j \in 1 .. N : n[i] = n[j] => i = j
      /\ \A i, j \in 1 .. V : v[i] = v[j] => i = j
  BY DEF Fresh
<1>4. \A x : ~is_nod(VarP(x)) /\ is_var(VarP(x)) /\ val(VarP(x)) = x
  BY DEF is_nod, is_var, VarP, tag, val, Nodes
<1>5. \A x, y : <<"VAR", x>> # <<"NODE", y>> /\ <<"VAR", x>> # NONE /\ <<"NODE", x>> # NONE
  BY DEF NONE
<1>6. ASSUME NEW j \in 1 .. V PROVE Counted(Written(stored, N, pairs, I, <<"VAR", v[j]>>), 2)
  <2>1. PICK x \in 0 .. V - 1 : x + 1 = j
    <3>1. j - 1 \in 0 .. V - 1 /\ (j - 1) + 1 = j
      BY <1>1
    <3>. QED
      BY <3>1
  <2>2. PICK Q, key : Q = {s \in Slots(d) : PortAt(d, s) = VarP(x)} /\ key = <<"VAR", v[j]>>
    OBVIOUS
  <2>3. Counted(Q, 2)
    BY <2>2 DEF Definition
  <2>4. \A s \in Slots(d) : s \in Q <=> Key(Adjust(PortAt(d, s), n, v)) = key
    <3>. SUFFICES ASSUME NEW s \in Slots(d)
                  PROVE  s \in Q <=> Key(Adjust(PortAt(d, s), n, v)) = key
      OBVIOUS
    <3>1. PICK p : p = PortAt(d, s)
      OBVIOUS
    <3>2. CASE \E y \in 0 .. V - 1 : p = VarP(y) /\ Key(Adjust(p, n, v)) = <<"VAR", v[y + 1]>>
      <4>1. PICK y \in 0 .. V - 1 : p = VarP(y) /\ Key(Adjust(p, n, v)) = <<"VAR", v[y + 1]>>
        BY <3>2
      <4>2. y + 1 \in 1 .. V
        BY <1>1
      <4>3. v[y + 1] = v[j] <=> y = x
        BY <1>3, <2>1, <4>2
      <4>4. s \in Q <=> y = x
        <5>1. VarP(y) = VarP(x) <=> y = x
          BY <1>4
        <5>2. s \in Q <=> VarP(y) = VarP(x)
          BY <2>2, <3>1, <4>1
        <5>. QED
          BY <5>1, <5>2
      <4>. QED
        BY <2>2, <3>1, <4>1, <4>3, <4>4
    <3>3. CASE \E y \in 0 .. N - 1 : is_nod(p) /\ val(p) = y /\ Key(Adjust(p, n, v)) = <<"NODE", n[y + 1]>>
      BY <1>4, <1>5, <2>2, <3>1, <3>3
    <3>4. CASE ~is_var(p) /\ ~is_nod(p) /\ Key(Adjust(p, n, v)) = NONE
      BY <1>4, <1>5, <2>2, <3>1, <3>4
    <3>. QED
      BY <1>2, <3>1, <3>2, <3>3, <3>4
  <2>5. Q \in SUBSET Slots(d)
    BY <2>2
  <2>6. PICK k : k = 2
    OBVIOUS
  <2>7. Counted(Written(stored, N, pairs, I, key), k)
    BY <1>1, <2>3, <2>4, <2>5, <2>6, SlotsCounted
  <2>. QED
    BY <2>2, <2>6, <2>7
<1>7. ASSUME NEW j \in 1 .. N PROVE Counted(Written(stored, N, pairs, I, <<"NODE", n[j]>>), 1)
  <2>1. PICK x \in 0 .. N - 1 : x + 1 = j
    <3>1. j - 1 \in 0 .. N - 1 /\ (j - 1) + 1 = j
      BY <1>1
    <3>. QED
      BY <3>1
  <2>2. PICK Q, key : /\ Q = {s \in Slots(d) : is_nod(PortAt(d, s)) /\ val(PortAt(d, s)) = x}
                      /\ key = <<"NODE", n[j]>>
    OBVIOUS
  <2>3. Counted(Q, 1)
    BY <2>2 DEF Definition
  <2>4. \A s \in Slots(d) : s \in Q <=> Key(Adjust(PortAt(d, s), n, v)) = key
    <3>. SUFFICES ASSUME NEW s \in Slots(d)
                  PROVE  s \in Q <=> Key(Adjust(PortAt(d, s), n, v)) = key
      OBVIOUS
    <3>1. PICK p : p = PortAt(d, s)
      OBVIOUS
    <3>2. CASE \E y \in 0 .. V - 1 : p = VarP(y) /\ Key(Adjust(p, n, v)) = <<"VAR", v[y + 1]>>
      BY <1>4, <1>5, <2>2, <3>1, <3>2
    <3>3. CASE \E y \in 0 .. N - 1 : is_nod(p) /\ val(p) = y /\ Key(Adjust(p, n, v)) = <<"NODE", n[y + 1]>>
      <4>1. PICK y \in 0 .. N - 1 : is_nod(p) /\ val(p) = y /\ Key(Adjust(p, n, v)) = <<"NODE", n[y + 1]>>
        BY <3>3
      <4>2. y + 1 \in 1 .. N
        BY <1>1
      <4>3. n[y + 1] = n[j] <=> y = x
        BY <1>3, <2>1, <4>2
      <4>4. s \in Q <=> y = x
        BY <2>2, <3>1, <4>1
      <4>. QED
        BY <2>2, <3>1, <4>1, <4>3, <4>4
    <3>4. CASE ~is_var(p) /\ ~is_nod(p) /\ Key(Adjust(p, n, v)) = NONE
      BY <1>5, <2>2, <3>1, <3>4
    <3>. QED
      BY <1>2, <3>1, <3>2, <3>3, <3>4
  <2>5. Q \in SUBSET Slots(d)
    BY <2>2
  <2>6. PICK k : k = 1
    OBVIOUS
  <2>7. Counted(Written(stored, N, pairs, I, key), k)
    BY <1>1, <2>3, <2>4, <2>5, <2>6, SlotsCounted, SMTT(30)
  <2>. QED
    BY <2>2, <2>6, <2>7
<1>8. ASSUME NEW key, key # NONE, \A j \in 1 .. V : key # <<"VAR", v[j]>>,
             \A j \in 1 .. N : key # <<"NODE", n[j]>>
      PROVE  Counted(Written(stored, N, pairs, I, key), 0)
  <2>1. \A s \in Slots(d) : Key(Adjust(PortAt(d, s), n, v)) # key
    <3>. SUFFICES ASSUME NEW s \in Slots(d) PROVE Key(Adjust(PortAt(d, s), n, v)) # key
      OBVIOUS
    <3>1. \A x \in 0 .. V - 1 : x + 1 \in 1 .. V
      BY <1>1
    <3>2. \A x \in 0 .. N - 1 : x + 1 \in 1 .. N
      BY <1>1
    <3>. QED
      BY <1>2, <1>8, <3>1, <3>2
  <2>2. PICK Q, k : Q = {} /\ k = 0
    OBVIOUS
  <2>3. Counted(Q, k) /\ Q \in SUBSET Slots(d)
    BY <2>2, CountedSmall
  <2>4. \A s \in Slots(d) : s \in Q <=> Key(Adjust(PortAt(d, s), n, v)) = key
    BY <2>1, <2>2
  <2>5. Counted(Written(stored, N, pairs, I, key), k)
    BY <1>1, <2>3, <2>4, SlotsCounted
  <2>. QED
    BY <2>2, <2>5
<1>9. ASSUME NEW c, ~\E j \in 1 .. V : v[j] = c PROVE Counted(Written(stored, N, pairs, I, <<"VAR", c>>), 0)
  BY <1>5, <1>8, <1>9
<1>10. ASSUME NEW c, ~\E j \in 1 .. N : n[j] = c PROVE Counted(Written(stored, N, pairs, I, <<"NODE", c>>), 0)
  BY <1>5, <1>8, <1>10
<1>. QED
  BY <1>6, <1>7, <1>9, <1>10 DEF Makes

\* What a call stores and links.
CallStores(d, n, v) ==
  [i \in DOMAIN d.node |-> <<Adjust(d.node[i][1], n, v), Adjust(d.node[i][2], n, v)>>]
CallLinks(d, n, v, b) ==
  [i \in DOMAIN d.rbag |-> <<Adjust(d.rbag[i][1], n, v), Adjust(d.rbag[i][2], n, v)>>]
    \o << <<Adjust(d.root, n, v), b>> >>

LEMMA Instantiated ==
  ASSUME NEW d, NEW R, NEW N, NEW V, Definition(d, R, N, V), NEW t \in Thread, NEW n, NEW v,
         Fresh(n, N, t, node_buf, FREE_NODE), Fresh(v, V, t, vars_buf, FREE), NEW b, IsPort(b),
         NEW stored, stored = CallStores(d, n, v), NEW pairs, pairs = CallLinks(d, n, v, b)
  PROVE  /\ IsList(pairs) /\ Instance(d, R, N, b, n, v, stored, pairs)
         /\ \A j \in 1 .. N : IsPair(stored[j]) /\ stored[j] # FREE_NODE
<1>1. R \in Nat /\ N \in Nat /\ DOMAIN d.rbag = 1 .. R /\ DOMAIN d.node = 1 .. N
  BY DEF Definition
<1>2. PICK q, last, e, T :
         /\ q = [i \in DOMAIN d.rbag |-> <<Adjust(d.rbag[i][1], n, v), Adjust(d.rbag[i][2], n, v)>>]
         /\ last = <<Adjust(d.root, n, v), b>> /\ e = <<last>> /\ T = {last} \cup Range(q)
  OBVIOUS
<1>3. pairs = q \o e
  BY <1>2 DEF CallLinks
<1>4. /\ pairs \in Seq(T) /\ Len(pairs) = R + 1 /\ DOMAIN pairs = 1 .. R + 1
      /\ \A i \in 1 .. R : pairs[i] = q[i]
      /\ pairs[R + 1] = last
  <2>1. q \in [1 .. R -> T]
    <3>1. DOMAIN q = 1 .. R /\ q = [i \in 1 .. R |-> q[i]]
      BY <1>1, <1>2
    <3>2. \A i \in 1 .. R : q[i] \in T
      BY <1>2, <3>1 DEF Range
    <3>. QED
      BY <3>1, <3>2
  <2>2. q \in Seq(T)
    BY <1>1, <2>1, SeqDef
  <2>3. Len(q) = R
    BY <1>1, <2>1, <2>2, LenProperties
  <2>4. e \in Seq(T) /\ Len(e) = 1 /\ e[1] = last
    BY <1>2
  <2>5. /\ q \o e \in Seq(T) /\ Len(q \o e) = Len(q) + Len(e)
        /\ \A i \in 1 .. Len(q) + Len(e) : (q \o e)[i] = IF i <= Len(q) THEN q[i] ELSE e[i - Len(q)]
    BY <2>2, <2>4, ConcatProperties
  <2>6. /\ pairs \in Seq(T) /\ Len(pairs) = R + 1
        /\ \A i \in 1 .. R + 1 : pairs[i] = IF i <= R THEN q[i] ELSE e[i - R]
    BY <1>3, <2>3, <2>4, <2>5
  <2>7. R + 1 - R = 1 /\ ~(R + 1 <= R) /\ R + 1 \in 1 .. R + 1
    BY <1>1
  <2>. QED
    BY <1>1, <2>4, <2>6, <2>7
<1>5. /\ \A i \in 1 .. R, k \in {1, 2} : q[i][k] = Adjust(d.rbag[i][k], n, v)
      /\ \A i \in 1 .. R : q[i] = <<q[i][1], q[i][2]>>
      /\ \A i \in 1 .. N, k \in {1, 2} : stored[i][k] = Adjust(d.node[i][k], n, v)
      /\ \A i \in 1 .. N : stored[i] = <<stored[i][1], stored[i][2]>>
      /\ last[1] = Adjust(d.root, n, v) /\ last[2] = b /\ last = <<last[1], last[2]>>
      /\ DOMAIN stored = 1 .. N
  BY <1>1, <1>2 DEF CallStores
<1>6. /\ PortAt(d, <<"root", 1, 1>>) = d.root
      /\ \A i, k : PortAt(d, <<"rbag", i, k>>) = d.rbag[i][k]
      /\ \A i, k : PortAt(d, <<"node", i, k>>) = d.node[i][k]
  BY DEF PortAt
<1>7. /\ <<"root", 1, 1>> \in Slots(d)
      /\ \A i \in 1 .. R, k \in {1, 2} : <<"rbag", i, k>> \in Slots(d)
      /\ \A i \in 1 .. N, k \in {1, 2} : <<"node", i, k>> \in Slots(d)
  BY <1>1, InSlots
<1>8. \A s \in Slots(d) : IsPort(Adjust(PortAt(d, s), n, v)) /\ Adjust(PortAt(d, s), n, v) # FREE
  BY Adjusted
<1>9. /\ IsPort(last[1])
      /\ \A i \in 1 .. R, k \in {1, 2} : IsPort(q[i][k])
      /\ \A i \in 1 .. N, k \in {1, 2} : IsPort(stored[i][k]) /\ stored[i][k] # FREE
  <2>1. IsPort(last[1])
    BY <1>5, <1>6, <1>7, <1>8
  <2>2. ASSUME NEW i \in 1 .. R, NEW k \in {1, 2} PROVE IsPort(q[i][k])
    <3>1. PICK s \in Slots(d) : s = <<"rbag", i, k>>
      BY <1>7
    <3>2. PortAt(d, s) = d.rbag[i][k]
      BY <1>6, <3>1
    <3>. QED
      BY <1>5, <1>8, <3>2
  <2>3. ASSUME NEW i \in 1 .. N, NEW k \in {1, 2} PROVE IsPort(stored[i][k]) /\ stored[i][k] # FREE
    <3>1. PICK s \in Slots(d) : s = <<"node", i, k>>
      BY <1>7
    <3>2. PortAt(d, s) = d.node[i][k]
      BY <1>6, <3>1
    <3>. QED
      BY <1>5, <1>8, <3>2
  <2>. QED
    BY <2>1, <2>2, <2>3
<1>10. \A j \in 1 .. N : IsPair(stored[j]) /\ stored[j] # FREE_NODE
  BY <1>5, <1>9 DEF IsPair, FREE_NODE
<1>11. IsList(pairs)
  <2>1. IsPair(last) /\ \A i \in 1 .. R : IsPair(q[i])
    BY <1>5, <1>9 DEF IsPair
  <2>2. \A i \in 1 .. R + 1 : i \in 1 .. R \/ i = R + 1
    BY <1>1
  <2>3. \A i \in DOMAIN pairs : IsPair(pairs[i])
    BY <1>4, <2>1, <2>2
  <2>. QED
    BY <1>4, <2>3 DEF IsList
<1>12. Instance(d, R, N, b, n, v, stored, pairs)
  <2>1. /\ \A i, k : Contents(stored, pairs, <<"node", i, k>>) = stored[i][k]
        /\ \A i, k : Contents(stored, pairs, <<"pair", i, k>>) = pairs[i][k]
    BY DEF Contents
  <2>2. /\ Spot(d, R, <<"root", 1, 1>>) = <<"pair", R + 1, 1>>
        /\ \A i, k : Spot(d, R, <<"rbag", i, k>>) = <<"pair", i, k>>
        /\ \A i, k : Spot(d, R, <<"node", i, k>>) = <<"node", i, k>>
    BY DEF Spot
  <2>3. ASSUME NEW s \in Slots(d)
        PROVE  Contents(stored, pairs, Spot(d, R, s)) = Adjust(PortAt(d, s), n, v)
    <3>1. CASE s = <<"root", 1, 1>>
      <4>1. Spot(d, R, s) = <<"pair", R + 1, 1>> /\ PortAt(d, s) = d.root
        BY <1>6, <2>2, <3>1
      <4>2. Contents(stored, pairs, <<"pair", R + 1, 1>>) = last[1]
        BY <1>4, <2>1
      <4>. QED
        BY <1>5, <4>1, <4>2
    <3>2. ASSUME NEW i \in 1 .. R, NEW k \in {1, 2}, s = <<"rbag", i, k>>
          PROVE  Contents(stored, pairs, Spot(d, R, s)) = Adjust(PortAt(d, s), n, v)
      <4>1. Spot(d, R, s) = <<"pair", i, k>> /\ PortAt(d, s) = d.rbag[i][k]
        BY <1>6, <2>2, <3>2
      <4>2. Contents(stored, pairs, <<"pair", i, k>>) = q[i][k]
        BY <1>4, <2>1
      <4>. QED
        BY <1>5, <4>1, <4>2
    <3>3. ASSUME NEW i \in 1 .. N, NEW k \in {1, 2}, s = <<"node", i, k>>
          PROVE  Contents(stored, pairs, Spot(d, R, s)) = Adjust(PortAt(d, s), n, v)
      <4>1. Spot(d, R, s) = <<"node", i, k>> /\ PortAt(d, s) = d.node[i][k]
        BY <1>6, <2>2, <3>3
      <4>2. Contents(stored, pairs, <<"node", i, k>>) = stored[i][k]
        BY <2>1
      <4>. QED
        BY <1>5, <4>1, <4>2
    <3>. QED
      <4>1. \/ s = <<"root", 1, 1>>
            \/ \E i \in 1 .. R, k \in {1, 2} : s = <<"rbag", i, k>>
            \/ \E i \in 1 .. N, k \in {1, 2} : s = <<"node", i, k>>
        BY <1>1, InSlots
      <4>. QED
        BY <3>1, <3>2, <3>3, <4>1, Zenon
  <2>4. Contents(stored, pairs, <<"pair", R + 1, 2>>) = b
    BY <1>4, <1>5, <2>1
  <2>. QED
    BY <1>4, <1>5, <2>3, <2>4 DEF Instance
<1>. QED
  BY <1>10, <1>11, <1>12

LEMMA CallKeeps ==
  ASSUME NEW Rest, Elsewhere(Rest), NetInv(Rest), program' = program,
         NEW t \in Thread, t \in Bounded \/ HasRoom(t), Call(t)
  PROVE  NetInv(Rest)' /\ Confined(t)
<1>1. PICK r \in {x \in Redexes(t, "CALL") : ~Copies(x)} :
        LET d    == def(PairOf(r)[1])
            nloc == node_alloc(t, Len(d.node))
            vloc == vars_alloc(t, d.vars)
            Pair(p) == <<Adjust(p[1], nloc, vloc), Adjust(p[2], nloc, vloc)>>
        IN  /\ Take(t, r)
            /\ get_resources(t, Len(d.node), d.vars)
            /\ Rewrite(t, {}, nloc, [i \in DOMAIN d.node |-> Pair(d.node[i])], vloc)
            /\ Links(t, [i \in DOMAIN d.rbag |-> Pair(d.rbag[i])]
                          \o << <<Adjust(d.root, nloc, vloc), PairOf(r)[2]>> >>)
            /\ UNCHANGED oper
  BY DEF Call
<1>2. PICK rule : r \in Redexes(t, rule) /\ rule = "CALL"
  OBVIOUS
<1>3. Take(t, r) /\ oper' = oper
  BY <1>1
<1>4. /\ BufTypes /\ Balanced(Rest) /\ program \in DOMAIN Book
      /\ RuleOf(r) = rule /\ IsPair(r) /\ PoolTypes'
  BY <1>2, <1>3, Taken
<1>5. PICK a, b, x, y : /\ Meets(r, a, b, x, y)
                        /\ RuleOf(r) = "CALL" => tag(a) = "REF" /\ (is_nod(b) \/ b = ROOT)
  BY <1>4, RedexMeets
<1>6. tag(a) = "REF"
  BY <1>2, <1>4, <1>5
<1>7. /\ x \in {1, 2} /\ y \in {1, 2} /\ x # y /\ a = r[x] /\ b = r[y]
      /\ PairOf(r)[1] = a /\ PairOf(r)[2] = b /\ IsPort(a) /\ IsPort(b)
  BY <1>5 DEF Meets
<1>8. PICK f, d : f = val(a) /\ d = Book[program][f] /\ f \in DOMAIN Book[program]
  BY <1>6, <1>7 DEF IsPort
<1>9. PICK R, N, V : R = Len(d.rbag) /\ N = Len(d.node) /\ V = d.vars /\ Definition(d, R, N, V)
  BY <1>4, <1>8, Defined
<1>10. N \in Nat /\ V \in Nat /\ R \in Nat /\ (t \in Bounded \/ Finds(t, N, V))
  <2>1. ~Copies(r)
    BY <1>1
  <2>2. d = def(PairOf(r)[1])
    BY <1>7, <1>8 DEF def
  <2>3. t \in Bounded \/ Finds(t, N, V)
    BY <1>2, <1>3, <1>9, <2>1, <2>2, AskedFound
  <2>. QED
    BY <1>9, <2>3 DEF Definition
<1>11. PICK n, v : n = node_alloc(t, N) /\ v = vars_alloc(t, V)
  OBVIOUS
<1>12. PICK stored, pairs, taken :
         stored = CallStores(d, n, v) /\ pairs = CallLinks(d, n, v, b) /\ taken = {}
  OBVIOUS
<1>13. get_resources(t, N, V) /\ Rewrite(t, taken, n, stored, v) /\ Links(t, pairs)
  BY <1>1, <1>7, <1>8, <1>9, <1>11, <1>12 DEF def, CallStores, CallLinks
<1>14. /\ Fresh(n, N, t, node_buf, FREE_NODE) /\ Fresh(v, V, t, vars_buf, FREE)
       /\ nput' \in [Thread -> Nat] /\ vput' \in [Thread -> Nat]
  BY <1>4, <1>10, <1>11, <1>13, Allocates
<1>15. /\ IsList(pairs) /\ Instance(d, R, N, b, n, v, stored, pairs)
       /\ \A j \in 1 .. N : IsPair(stored[j]) /\ stored[j] # FREE_NODE
  BY <1>7, <1>9, <1>12, <1>14, Instantiated
<1>16. Rewrites(t, r, taken, n, v, V, stored, N, pairs)
  <2>1. \E h \in Nat : N <= h /\ Fresh(n, h, t, node_buf, FREE_NODE)
    BY <1>10, <1>14
  <2>2. taken \in SUBSET Loc /\ \A g \in taken : node_buf[g] # FREE_NODE
    BY <1>12
  <2>3. DOMAIN stored = 1 .. N
    BY <1>15 DEF Instance
  <2>4. RewritesCells(t, taken, n, v, V, stored, N)
    BY <1>10, <1>13, <1>14, <2>1, <2>2, <2>3 DEF RewritesCells
  <2>. QED
    BY <1>3, <1>13, <1>14, <1>15, <2>4 DEF Rewrites
<1>17. PICK s0, I : s0 = <<"pair", R + 1, 2>> /\ I = {s0}
  OBVIOUS
<1>18. Makes(n, v, V, stored, N, pairs, I)
  BY <1>9, <1>14, <1>15, <1>17, InstanceMakes
<1>19. PICK bag, e, at : Placed(Rest, r, taken, stored, N, pairs, bag, e, at)
  BY <1>2, <1>16, RewritesHeld
<1>20. PICK g, h : g = PoolItem(bag, r, e, x) /\ h = PoolItem(bag, r, e, y)
  OBVIOUS
<1>21. RedexItems(bag, r, e) = {g, h} /\ g # h /\ g[2] = a /\ h[2] = b
  <2>1. {1, 2} = {x, y}
    BY <1>7
  <2>. QED
    BY <1>7, <1>20, <2>1 DEF RedexItems, PoolItem
<1>22. PICK S, Old, src : S = Spots(N, Len(pairs)) /\ Old = {g, h} /\ src = [s \in I |-> h]
  OBVIOUS
<1>23. Replaced(All(Rest), All(Rest)', Old, S, at) /\ \A s \in S : at[s][2] = Contents(stored, pairs, s)
  <2>1. Remains(taken) \cup RedexItems(bag, r, e) = Old
    BY <1>12, <1>21, <1>22 DEF Remains
  <2>. QED
    BY <1>19, <1>22, <2>1 DEF Placed
<1>24. s0 \in S /\ Contents(stored, pairs, s0) = b
  <2>1. Len(pairs) = R + 1 /\ R + 1 \in 1 .. R + 1
    BY <1>10, <1>15 DEF Instance
  <2>2. s0 \in Spots(N, R + 1)
    BY <1>17, <2>1, InSpots
  <2>. QED
    BY <1>15, <1>17, <1>22, <2>1, <2>2 DEF Instance
<1>25. Rearranged(All(Rest), All(Rest)', Old, S, at, I, src)
  BY <1>17, <1>21, <1>22, <1>23, <1>24 DEF Replaced, Rearranged
<1>26. \A c : Lost(Old, I, src, <<"VAR", c>>) = {} /\ Lost(Old, I, src, <<"NODE", c>>) = {}
  <2>1. Key(a) = NONE /\ src[s0] = h /\ s0 \in I
    BY <1>6, <1>17, <1>22 DEF Key, is_var, is_nod, Nodes
  <2>2. \A c : NONE # <<"VAR", c>> /\ NONE # <<"NODE", c>>
    BY DEF NONE
  <2>. QED
    BY <1>21, <1>22, <2>1, <2>2 DEF Lost
<1>27. \A c \in Loc :
         /\ Counted(Made(S, at, I, <<"VAR", c>>), IF \E j \in 1 .. V : v[j] = c THEN 2 ELSE 0)
         /\ Counted(Made(S, at, I, <<"NODE", c>>), IF \E j \in 1 .. N : n[j] = c THEN 1 ELSE 0)
  BY <1>18, <1>19, <1>22, PlacedMakes
<1>28. \A c \in Loc :
         /\ (\E j \in 1 .. N : n[j] = c) => OwedNode(c)' = OwedNode(c) - 0 + 1
         /\ ~(\E j \in 1 .. N : n[j] = c) => OwedNode(c)' = OwedNode(c) - 0 + 0
         /\ (\E j \in 1 .. V : v[j] = c) => OwedVar(c)' = OwedVar(c) - 0 + 2
         /\ ~(\E j \in 1 .. V : v[j] = c) => OwedVar(c)' = OwedVar(c) - 0 + 0
  <2>0. Stored(t, taken, n, v, V, stored, N) /\ \A j \in 1 .. N : stored[j] # FREE_NODE
    BY <1>16, CellsStored DEF Rewrites
  <2>1. \A c \in Loc :
          /\ (\E j \in 1 .. N : n[j] = c) => OwedNode(c)' = OwedNode(c) - 0 + 1
          /\ c \notin taken /\ ~(\E j \in 1 .. N : n[j] = c) => OwedNode(c)' = OwedNode(c) - 0 + 0
          /\ (\E j \in 1 .. V : v[j] = c) => OwedVar(c)' = OwedVar(c) - 0 + 2
          /\ ~(\E j \in 1 .. V : v[j] = c) => OwedVar(c)' = OwedVar(c) - 0 + 0
    BY <2>0, CellsOwed
  <2>. QED
    BY <1>12, <2>1
<1>29. \A c \in Loc : /\ Counted(Lost(Old, I, src, <<"VAR", c>>), 0)
                      /\ Counted(Lost(Old, I, src, <<"NODE", c>>), 0)
  BY <1>26, CountedSmall
<1>30. TalliedVars(Old, S, at, I, src)
  <2>. SUFFICES ASSUME NEW c \in Loc
                PROVE  \E i, j : /\ Counted(Lost(Old, I, src, <<"VAR", c>>), i)
                                 /\ Counted(Made(S, at, I, <<"VAR", c>>), j)
                                 /\ OwedVar(c)' = OwedVar(c) - i + j
    BY DEF TalliedVars
  <2>1. CASE \E j \in 1 .. V : v[j] = c
    BY <1>27, <1>28, <1>29, <2>1
  <2>2. CASE ~(\E j \in 1 .. V : v[j] = c)
    BY <1>27, <1>28, <1>29, <2>2
  <2>. QED
    BY <2>1, <2>2
<1>31. TalliedNodes(Old, S, at, I, src)
  <2>. SUFFICES ASSUME NEW c \in Loc
                PROVE  \E i, j : /\ Counted(Lost(Old, I, src, <<"NODE", c>>), i)
                                 /\ Counted(Made(S, at, I, <<"NODE", c>>), j)
                                 /\ OwedNode(c)' = OwedNode(c) - i + j
    BY DEF TalliedNodes
  <2>1. CASE \E j \in 1 .. N : n[j] = c
    BY <1>27, <1>28, <1>29, <2>1
  <2>2. CASE ~(\E j \in 1 .. N : n[j] = c)
    BY <1>27, <1>28, <1>29, <2>2
  <2>. QED
    BY <2>1, <2>2
<1>32. Balanced(Rest)'
  BY <1>4, <1>25, <1>30, <1>31, Rebalanced
<1>33. BufTypes' /\ ThreadTypes' /\ PoolTypes'
  BY <1>2, <1>16, RewritesTyped
<1>34. NetInv(Rest)'
  BY <1>4, <1>32, <1>33 DEF NetInv
<1>35. Confined(t)
  <2>1. r \in DOMAIN pool[BagOf[t]]
    BY <1>2 DEF Redexes
  <2>2. \A s \in Spots(N, Len(pairs)) : s \in I => May(t, Contents(stored, pairs, s))
    BY <1>7, <1>17, <1>24, <2>1 DEF May, Reached, InHand
  <2>3. \A s \in Spots(N, Len(pairs)) : May(t, Contents(stored, pairs, s))
    BY <1>16, <1>18, <2>2, MadeHere
  <2>. QED
    BY <1>16, <2>1, <2>3, RewritesConfined
<1>. QED
  BY <1>34, <1>35

-----------------------------------------------------------------------------
(* The net is linear at every moment.                                      *)

\* A place that is held has a port in it.
LEMMA HeldPorts ==
  ASSUME NEW Rest, NetInv(Rest), \A h \in Rest : IsPort(h[2]), NEW h \in All(Rest)
  PROVE  IsPort(h[2])
<1>1. BufTypes /\ PoolTypes /\ ThreadTypes /\ program \in DOMAIN Book
  BY DEF NetInv
<1>2. ASSUME h \in HeldInNodes PROVE IsPort(h[2])
  <2>1. PICK c \in Loc : h \in NodeItems(c, node_buf[c])
    BY <1>2, InNodes
  <2>2. PICK k \in {1, 2} : h = NodeItem(c, k, node_buf[c][k])
    BY <2>1 DEF NodeItems
  <2>. QED
    BY <1>1, <2>2 DEF NodeItem, BufTypes, IsPair
<1>3. ASSUME h \in HeldInVars PROVE IsPort(h[2])
  <2>1. PICK c \in Loc : h \in VarItems(c, vars_buf[c])
    BY <1>3, InVars
  <2>2. h = VarItem(c, vars_buf[c]) /\ vars_buf[c] # NONE
    BY <2>1 DEF VarItems
  <2>. QED
    BY <1>1, <2>2 DEF VarItem, BufTypes
<1>4. ASSUME h \in HeldInPool PROVE IsPort(h[2])
  <2>1. PICK b \in DOMAIN pool : \E r \in DOMAIN pool[b] : \E i \in 1 .. pool[b][r], k \in {1, 2} :
          h = PoolItem(b, r, i, k)
    BY <1>4, InPool
  <2>2. PICK r \in DOMAIN pool[b] : \E i \in 1 .. pool[b][r], k \in {1, 2} : h = PoolItem(b, r, i, k)
    BY <2>1
  <2>3. IsPair(r)
    BY <1>1 DEF PoolTypes
  <2>. QED
    BY <2>2, <2>3 DEF PoolItem, IsPair
<1>5. ASSUME h \in HeldInTodo PROVE IsPort(h[2])
  <2>1. PICK t \in Thread : h \in ListItems(t, todo[t])
    BY <1>5, InTodo
  <2>2. PICK q : q = todo[t]
    OBVIOUS
  <2>3. PICK i \in DOMAIN q, k \in {1, 2} : h = TodoItem(t, Len(q) - i, k, q[i][k])
    BY <2>1, <2>2, ListItemOf
  <2>4. IsPair(q[i])
    BY <1>1, <2>2 DEF ThreadTypes, ThreadInv, IsList
  <2>. QED
    BY <2>3, <2>4 DEF TodoItem, IsPair
<1>6. ASSUME h \in HeldInOper PROVE IsPort(h[2])
  <2>1. PICK t \in Thread : h \in OperItems(t, oper[t])
    BY <1>6, InOper
  <2>2. PICK o : o = oper[t]
    OBVIOUS
  <2>3. PICK k \in {2, 3} : o # <<>> /\ h = OperItem(t, k, o[k])
    BY <2>1, <2>2 DEF OperItems
  <2>4. IsOper(t, o)
    BY <1>1, <2>2, <2>3 DEF ThreadTypes, ThreadInv
  <2>. QED
    BY <2>3, <2>4 DEF OperItem, IsOper
<1>7. IsPort(ROOT)
  BY Sizes DEF ROOT, IsPort, VarP, is_var, is_nod, tag, val, Nodes
<1>. QED
  BY <1>2, <1>3, <1>4, <1>5, <1>6, <1>7 DEF All, Held

\* What the invariant counts by key is what Linear counts.
LEMMA LinearHolds ==
  ASSUME NEW Rest, NetInv(Rest), \A h \in Rest : IsPort(h[2])
  PROVE  LinearIn(All(Rest))
<1>0. PICK H : H = All(Rest)
  OBVIOUS
<1>1. BufTypes /\ Balanced(Rest)
  BY DEF NetInv
<1>2. \A h \in H : IsPort(h[2])
  BY <1>0, HeldPorts
<1>3. \A h \in H : /\ is_var(h[2]) => vars_buf[val(h[2])] # FREE
                   /\ is_nod(h[2]) => node_buf[val(h[2])] # FREE_NODE
  BY <1>0, <1>1, <1>2, HeldPort
<1>4. ASSUME NEW c \in Loc, vars_buf[c] # FREE
      PROVE  Cardinality({h \in H : h[2] = VarP(c)}) = IF vars_buf[c] = NONE THEN 2 ELSE 1
  <2>1. PICK Q, K : Q = {h \in H : h[2] = VarP(c)} /\ K = Keyed(H, <<"VAR", c>>)
    OBVIOUS
  <2>2. \A h \in H : h[2] = VarP(c) <=> Key(h[2]) = <<"VAR", c>>
    <3>. SUFFICES ASSUME NEW h \in H PROVE h[2] = VarP(c) <=> Key(h[2]) = <<"VAR", c>>
      OBVIOUS
    <3>1. PICK p : p = h[2]
      OBVIOUS
    <3>2. p = <<tag(p), val(p)>>
      BY <1>2, <3>1 DEF IsPort
    <3>3. p = VarP(c) <=> is_var(p) /\ c = val(p)
      BY <3>2 DEF VarP, is_var, tag, val
    <3>. QED
      BY <3>1, <3>3, Keys
  <2>3. Q = K
    BY <2>1, <2>2 DEF Keyed
  <2>4. Counted(K, OwedVar(c))
    BY <1>0, <1>1, <2>1 DEF Balanced
  <2>. QED
    BY <1>4, <2>1, <2>3, <2>4 DEF Counted, OwedVar
<1>5. ASSUME NEW c \in Loc, node_buf[c] # FREE_NODE
      PROVE  Cardinality({h \in H : is_nod(h[2]) /\ val(h[2]) = c}) = 1
  <2>1. PICK Q, K : /\ Q = {h \in H : is_nod(h[2]) /\ val(h[2]) = c}
                    /\ K = Keyed(H, <<"NODE", c>>)
    OBVIOUS
  <2>2. \A h \in H : is_nod(h[2]) /\ val(h[2]) = c <=> Key(h[2]) = <<"NODE", c>>
    BY Keys
  <2>3. Q = K
    BY <2>1, <2>2 DEF Keyed
  <2>4. Counted(K, OwedNode(c))
    BY <1>0, <1>1, <2>1 DEF Balanced
  <2>. QED
    BY <1>5, <2>1, <2>3, <2>4 DEF Counted, OwedNode
<1>6. \A c \in {x \in Loc : vars_buf[x] # FREE} :
        Cardinality({h \in H : h[2] = VarP(c)}) = IF vars_buf[c] = NONE THEN 2 ELSE 1
  BY <1>4
<1>7. \A c \in {x \in Loc : node_buf[x] # FREE_NODE} :
        Cardinality({h \in H : is_nod(h[2]) /\ val(h[2]) = c}) = 1
  BY <1>5
<1>8. LinearIn(H)
  BY <1>3, <1>6, <1>7 DEF LinearIn
<1>. QED
  BY <1>0, <1>8

LEMMA Stutters ==
  ASSUME BufTypes, PoolTypes, ThreadTypes, UNCHANGED vars
  PROVE  /\ BufTypes' /\ PoolTypes' /\ ThreadTypes' /\ Held' = Held
         /\ \A c : OwedVar(c)' = OwedVar(c) /\ OwedNode(c)' = OwedNode(c)
<1>1. /\ program' = program /\ node_buf' = node_buf /\ vars_buf' = vars_buf /\ pool' = pool
      /\ nput' = nput /\ vput' = vput /\ pc' = pc /\ todo' = todo /\ oper' = oper
  BY DEF vars
<1>2. BufTypes'
  BY <1>1 DEF BufTypes, IsPair, IsPort
<1>3. PoolTypes'
  BY <1>1 DEF PoolTypes, IsPair, IsPort
<1>4. ThreadTypes'
  BY <1>1 DEF ThreadTypes, ThreadInv, IsList, IsOper, IsPair, IsPort, Linking
<1>5. Held' = Held
  BY <1>1 DEF Held, HeldInNodes, HeldInVars, HeldInPool, HeldInTodo, HeldInOper
<1>. QED
  BY <1>1, <1>2, <1>3, <1>4, <1>5 DEF OwedVar, OwedNode

\* Every rule and every iteration of link and of enter keeps the invariant.
LEMMA StepKeeps ==
  ASSUME NEW Rest, Elsewhere(Rest), NetInv(Rest), Roomy, [Next]_vars
  PROVE  NetInv(Rest)'
<1>1. ASSUME NEW t \in Thread, Step(t), program' = program PROVE NetInv(Rest)'
  <2>0. t \in Bounded \/ HasRoom(t)
    BY DEF Roomy
  <2>1. CASE Call(t)
    BY <1>1, <2>0, <2>1, CallKeeps
  <2>2. CASE Void(t)
    BY <1>1, <2>2, VoidKeeps
  <2>3. CASE Eras(t)
    BY <1>1, <2>3, ErasKeeps
  <2>4. CASE Anni(t)
    BY <1>1, <2>4, AnniKeeps
  <2>5. CASE Comm(t)
    BY <1>1, <2>0, <2>5, CommKeeps
  <2>6. CASE Swit(t)
    BY <1>1, <2>0, <2>6, SwitKeeps
  <2>7. CASE OperTake(t)
    BY <1>1, <2>0, <2>7, OperTakeKeeps
  <2>8. CASE OperEnter(t)
    BY <1>1, <2>8, OperEnterKeeps
  <2>9. CASE Operate(t)
    BY <1>1, <2>9, OperateKeeps
  <2>10. CASE PushRedex(t)
    BY <1>1, <2>10, PushRedexKeeps
  <2>11. CASE Enter(t)
    BY <1>1, <2>11, EnterKeeps
  <2>12. CASE Point(t)
    BY <1>1, <2>12, PointKeeps
  <2>. QED
    BY <1>1, <2>1, <2>2, <2>3, <2>4, <2>5, <2>6, <2>7, <2>8, <2>9, <2>10, <2>11, <2>12 DEF Step
<1>2. ASSUME UNCHANGED vars PROVE NetInv(Rest)'
  <2>1. BufTypes /\ PoolTypes /\ ThreadTypes /\ Balanced(Rest) /\ program \in DOMAIN Book
    BY DEF NetInv
  <2>2. /\ BufTypes' /\ PoolTypes' /\ ThreadTypes' /\ Held' = Held
        /\ \A c : OwedVar(c)' = OwedVar(c) /\ OwedNode(c)' = OwedNode(c)
    BY <1>2, <2>1, Stutters
  <2>3. Balanced(Rest)'
    BY <2>1, <2>2 DEF Balanced, All
  <2>4. program' = program
    BY <1>2 DEF vars
  <2>. QED
    BY <2>1, <2>2, <2>3, <2>4 DEF NetInv
<1>. QED
  BY <1>1, <1>2 DEF Next

\* The bag that the evaluation starts with.
LEMMA BootBag ==
  ASSUME NEW bag, bag = SetToBag({BootRedex})
  PROVE  DOMAIN bag = {BootRedex} /\ bag[BootRedex] = 1
BY DEF SetToBag

\* A net starts with one redex, of main and the root.
LEMMA Starts ==
  ASSUME InitNet, PoolTypes, NEW Rest, NEW g, NEW h, NEW m, All(Rest) = {g, h, m},
         g[2] = BootRedex[1], h[2] = ROOT, m[2] = ROOT, h # m
  PROVE  NetInv(Rest)
<1>1. /\ program \in DOMAIN Book
      /\ DOMAIN node_buf = Loc /\ \A c \in Loc : node_buf[c] = FREE_NODE
      /\ DOMAIN vars_buf = Loc /\ \A c \in Loc : vars_buf[c] = IF VarP(c) = ROOT THEN NONE ELSE FREE
      /\ nput = [t \in Thread |-> Start] /\ vput = [t \in Thread |-> Start]
      /\ DOMAIN pc = Thread /\ \A t \in Thread : pc[t] = "idle"
      /\ DOMAIN todo = Thread /\ \A t \in Thread : todo[t] = <<>>
      /\ DOMAIN oper = Thread /\ \A t \in Thread : oper[t] = <<>>
  BY DEF InitNet
<1>2. PICK z \in Loc : z = TPC * PLEN - 1 /\ z # 0
  BY Sizes
<1>3. ROOT = VarP(z) /\ \A c : VarP(c) = ROOT <=> c = z
  BY <1>2 DEF ROOT, VarP
<1>4. vars_buf[z] = NONE /\ \A c \in Loc \ {z} : vars_buf[c] = FREE
  BY <1>1, <1>3
<1>5. NONE # FREE
  BY DEF NONE, FREE, VarP
<1>6. IsPort(ROOT) /\ IsPort(FREE) /\ IsPort(BootRedex[1]) /\ BootRedex[2] = ROOT
  <2>1. 0 \in DOMAIN Book[program]
    BY <1>1, InteractionsAssumption
  <2>2. IsPort(BootRedex[1]) /\ BootRedex[2] = ROOT
    BY <2>1 DEF BootRedex, IsPort, is_var, is_nod, tag, val, Nodes, Nullary
  <2>. QED
    BY <1>2, <1>3, <2>2, Sizes DEF IsPort, FREE, VarP, is_var, is_nod, tag, val, Nodes
<1>7. IsPair(BootRedex)
  BY <1>6 DEF IsPair, BootRedex
<1>8. BufTypes
  <2>1. IsPair(FREE_NODE)
    BY <1>6 DEF IsPair, FREE_NODE
  <2>2. vars_buf[0] = FREE
    BY <1>2, <1>4, Sizes
  <2>3. Start \in Nat
    BY InteractionsAssumption
  <2>. QED
    BY <1>1, <1>6, <2>1, <2>2, <2>3 DEF BufTypes
<1>9. ThreadTypes
  <2>1. IsList(<<>>)
    <3>1. <<>> \in Seq({}) /\ DOMAIN <<>> = {}
      OBVIOUS
    <3>. QED
      BY <3>1 DEF IsList
  <2>. QED
    BY <1>1, <2>1 DEF ThreadTypes, ThreadInv
<1>10. /\ Key(g[2]) = NONE /\ Key(h[2]) = <<"VAR", z>> /\ Key(m[2]) = <<"VAR", z>> /\ h # m
       /\ All(Rest) = {g, h, m}
  <2>1. g[2] = <<"REF", 0>>
    BY DEF BootRedex
  <2>. QED
    BY <1>3, <2>1 DEF Key, NONE, VarP, is_var, is_nod, tag, val, Nodes
<1>11. \A c \in Loc : /\ Counted(Keyed(All(Rest), <<"VAR", c>>), OwedVar(c))
                      /\ Counted(Keyed(All(Rest), <<"NODE", c>>), OwedNode(c))
  <2>. SUFFICES ASSUME NEW c \in Loc
                PROVE  /\ Counted(Keyed(All(Rest), <<"VAR", c>>), OwedVar(c))
                       /\ Counted(Keyed(All(Rest), <<"NODE", c>>), OwedNode(c))
    OBVIOUS
  <2>1. Keyed(All(Rest), <<"NODE", c>>) = {} /\ OwedNode(c) = 0
    BY <1>1, <1>10 DEF Keyed, OwedNode, NONE
  <2>2. CASE c = z
    <3>1. Keyed(All(Rest), <<"VAR", c>>) = {h, m}
      BY <1>10, <2>2 DEF Keyed, NONE
    <3>2. OwedVar(c) = 2
      BY <1>4, <1>5, <2>2 DEF OwedVar
    <3>3. Counted({h, m}, 2)
      BY <1>10, CountedSmall
    <3>. QED
      BY <2>1, <3>1, <3>2, <3>3, CountedSmall
  <2>3. CASE c # z
    <3>1. Keyed(All(Rest), <<"VAR", c>>) = {}
      BY <1>10, <2>3 DEF Keyed, NONE
    <3>2. OwedVar(c) = 0
      BY <1>4, <2>3 DEF OwedVar
    <3>. QED
      BY <2>1, <3>1, <3>2, CountedSmall
  <2>. QED
    BY <2>2, <2>3
<1>. QED
  BY <1>1, <1>8, <1>9, <1>11 DEF NetInv, Balanced

LEMMA BootPorts ==
  ASSUME program \in DOMAIN Book
  PROVE  IsPair(BootRedex)
<1>1. 0 \in DOMAIN Book[program]
  BY InteractionsAssumption
<1>2. IsPort(BootRedex[1]) /\ BootRedex[2] = ROOT
  BY <1>1 DEF BootRedex, IsPort, is_var, is_nod, tag, val, Nodes, Nullary
<1>3. IsPort(ROOT)
  BY Sizes DEF ROOT, IsPort, VarP, is_var, is_nod, tag, val, Nodes
<1>. QED
  BY <1>2, <1>3 DEF IsPair, BootRedex

LEMMA InitHolds == Init => NetInv({})
<1>. SUFFICES ASSUME Init PROVE NetInv({})
  OBVIOUS
<1>1. /\ program \in DOMAIN Book
      /\ DOMAIN node_buf = Loc /\ \A c \in Loc : node_buf[c] = FREE_NODE
      /\ DOMAIN vars_buf = Loc /\ \A c \in Loc : vars_buf[c] \in {NONE, FREE}
      /\ DOMAIN todo = Thread /\ \A t \in Thread : todo[t] = <<>>
      /\ DOMAIN oper = Thread /\ \A t \in Thread : oper[t] = <<>>
  BY DEF Init, InitNet
<1>2. PICK first : first = BagOf[0] /\ first \in Bags
  BY Sizes, InteractionsAssumption DEF Bags, Range
<1>3. /\ DOMAIN pool = Bags /\ DOMAIN pool[first] = {BootRedex} /\ pool[first][BootRedex] = 1
      /\ \A b \in Bags \ {first} : DOMAIN pool[b] = {}
  <2>1. DOMAIN pool = Bags /\ pool[first] = SetToBag({BootRedex})
        /\ \A b \in Bags \ {first} : pool[b] = EmptyBag
    BY <1>2 DEF Init
  <2>2. DOMAIN EmptyBag = {}
    BY DEF EmptyBag, SetToBag
  <2>. QED
    BY <2>1, <2>2, BootBag
<1>4. PoolTypes
  BY <1>1, <1>3, BootPorts DEF PoolTypes
<1>5. PICK g, h, m : /\ g = PoolItem(first, BootRedex, 1, 1) /\ h = PoolItem(first, BootRedex, 1, 2)
                      /\ m = << <<"main">>, ROOT>>
  OBVIOUS
<1>6. All({}) = {g, h, m}
  <2>1. HeldInNodes = {}
    BY <1>1 DEF HeldInNodes
  <2>2. HeldInVars = {}
    BY <1>1 DEF HeldInVars
  <2>3. HeldInTodo = {}
    BY <1>1 DEF HeldInTodo
  <2>4. HeldInOper = {}
    BY <1>1 DEF HeldInOper
  <2>5. \A x : x \in HeldInPool <=> x = g \/ x = h
    <3>1. \A b \in Bags : \A r \in DOMAIN pool[b] : b = first /\ r = BootRedex
      BY <1>3
    <3>2. \A i : i \in 1 .. pool[first][BootRedex] <=> i = 1
      BY <1>3
    <3>3. ASSUME NEW x \in HeldInPool PROVE x = g \/ x = h
      <4>1. PICK b \in DOMAIN pool : \E r \in DOMAIN pool[b] : \E i \in 1 .. pool[b][r], k \in {1, 2} :
              x = PoolItem(b, r, i, k)
        BY InPool
      <4>2. PICK r \in DOMAIN pool[b] : \E i \in 1 .. pool[b][r], k \in {1, 2} : x = PoolItem(b, r, i, k)
        BY <4>1
      <4>3. b = first /\ r = BootRedex
        BY <1>3, <3>1
      <4>4. PICK i \in 1 .. pool[b][r], k \in {1, 2} : x = PoolItem(b, r, i, k)
        BY <4>2
      <4>. QED
        BY <1>5, <3>2, <4>3, <4>4
    <3>4. 1 \in 1 .. pool[first][BootRedex]
      BY <1>3
    <3>. QED
      BY <1>2, <1>3, <1>5, <3>3, <3>4, InPool
  <2>6. \A x : x \in All({}) <=> x \in {g, h, m}
    BY <1>5, <2>1, <2>2, <2>3, <2>4, <2>5 DEF All, Held
  <2>. QED
    BY <2>6, Zenon
<1>7. g[2] = BootRedex[1] /\ h[2] = ROOT /\ m[2] = ROOT /\ h # m
  BY <1>5 DEF PoolItem, BootRedex
<1>. QED
  BY <1>4, <1>6, <1>7, Starts DEF Init

\* The inductive invariant: every variable and every node is named as often as its
\* cell tells, over the nodes, the substitutions, the redexes, the pairs still to
\* link and the operations under way of all threads, as long as an idle thread has
\* room for the redexes it may take.
THEOREM NetInvariant == Spec /\ []Roomy => []NetInv({})
<1>1. Init => NetInv({})
  BY InitHolds
<1>2. NetInv({}) /\ Roomy /\ [Next]_vars => NetInv({})'
  BY StepKeeps DEF Elsewhere
<1>. QED
  BY <1>1, <1>2, PTL DEF Spec

\* The net is linear at every moment, for any book of nets, any number of threads
\* and any sizes, however they rewrite and link at once, as long as the search of
\* an allocator finds the cells that the interaction asks for.
THEOREM NetStaysLinear == Spec /\ []Roomy => []Linear
<1>1. NetInv({}) => Linear
  <2>. SUFFICES ASSUME NetInv({}) PROVE Linear
    OBVIOUS
  <2>1. All({}) = Held
    BY DEF All
  <2>2. LinearIn(All({}))
    BY LinearHolds
  <2>. QED
    BY <2>1, <2>2 DEF Linear
<1>. QED
  BY <1>1, NetInvariant, PTL
=============================================================================
