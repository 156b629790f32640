---------------------------- MODULE LinkerProofs -----------------------------
(***************************************************************************)
(* Proofs about the atomic linker, for any number of threads and variables *)
(* and any net: every variable keeps its two occurrences, no thread uses a *)
(* deleted cell, no deletion destroys a substitution in use; and the       *)
(* linker implements Wires, so that once no call is in progress every root *)
(* reads back as the port at the other end of its wire.                    *)
(***************************************************************************)
EXTENDS Linker, NaturalLemmas, SequenceTheorems

-----------------------------------------------------------------------------
(* Places.  An occurrence of a port is in a pair still to link, counted    *)
(* from the last one so that a call moves none of the others; in the hands *)
(* of a thread that links; or in a cell.  A variable that is substituted   *)
(* has used one of its occurrences: its cell is a place for that one too.  *)

Place == ({"first", "second"} \X Thread \X Nat)
           \cup ({"A", "B"} \X Thread \X {0})
           \cup ({"cell", "self"} \X Var \X {0})

Linking == {"link", "enter", "point", "take_a", "take_b"}

At(k, h, j) ==
  IF k = "first" THEN IF j < Len(todo[h]) THEN todo[h][Len(todo[h]) - j][1] ELSE NONE
  ELSE IF k = "second" THEN IF j < Len(todo[h]) THEN todo[h][Len(todo[h]) - j][2] ELSE NONE
  ELSE IF k = "A" THEN IF pc[h] \in Linking THEN A[h] ELSE NONE
  ELSE IF k = "B" THEN IF pc[h] \in Linking THEN B[h] ELSE NONE
  ELSE IF k = "cell" THEN IF h \in Substituted THEN vars_buf[h] ELSE NONE
  ELSE IF h \in Substituted THEN h ELSE NONE

Held == [p \in Place |-> At(p[1], p[2], p[3])]

\* The places of m that hold x.
Tally(m, x) == {p \in Place : m[p] = x}

\* What moving, dropping and adding an occurrence makes of a map of the places.
Swap(m, p, q) == [s \in Place |-> IF s = p THEN m[q] ELSE IF s = q THEN m[p] ELSE m[s]]
Drop(m, p) == [s \in Place |-> IF s = p THEN NONE ELSE m[s]]
Put(m, p, x) == [s \in Place |-> IF s = p THEN x ELSE m[s]]

\* How many occurrences a variable has.
Owed(x) ==
  IF vars_buf[x] = FREE \/ x \in Deleting THEN 0 ELSE IF x \in Root THEN 1 ELSE 2

Tallied(m, x, n) == IsFiniteSet(Tally(m, x)) /\ Cardinality(Tally(m, x)) = n

-----------------------------------------------------------------------------
(* The inductive invariant.                                                *)

LinkTypes ==
  /\ vars_buf \in [Var -> Port \cup {FREE, NONE}]
  /\ todo \in [Thread -> Links]
  /\ pc \in [Thread -> {"idle", "create"} \cup Linking]
  /\ A \in [Thread -> Port \cup {NONE}] /\ B \in [Thread -> Port \cup {NONE}]
  /\ loc \in [Thread -> Var \cup {NONE}]

\* What a thread's label says of its ports and of the cell it is about to delete
\* or create.
LocalInv(t) ==
  /\ pc[t] \in Linking => A[t] \in Port /\ B[t] \in Port
  /\ pc[t] \in {"enter", "point", "take_b"} => A[t] \in Var
  /\ pc[t] = "take_b" => loc[t] \in Var /\ vars_buf[loc[t]] = NONE
  /\ pc[t] = "take_a" => loc[t] \in Var /\ vars_buf[loc[t]] = B[t]
  /\ pc[t] = "create" =>
       loc[t] \in Partition[t] /\ vars_buf[loc[t]] = FREE /\ todo[t] # <<>>

\* No two threads delete the same cell.
Apart ==
  \A t, u \in Thread :
    pc[t] \in {"take_a", "take_b"} /\ pc[u] \in {"take_a", "take_b"} /\ loc[t] = loc[u]
      => t = u

\* Every variable has the occurrences it is owed.
Balanced == \A x \in Var : Tallied(Held, x, Owed(x))

LinkInv == LinkTypes /\ (\A t \in Thread : LocalInv(t)) /\ Apart /\ Balanced

-----------------------------------------------------------------------------
(* How tallies change, whatever the places hold.                           *)

LEMMA SwapTally ==
  ASSUME NEW m, NEW p \in Place, NEW q \in Place, NEW x, NEW n, Tallied(m, x, n)
  PROVE  Tallied(Swap(m, p, q), x, n)
<1>. DEFINE S == Tally(m, x)
            T == Tally(Swap(m, p, q), x)
<1>1. \A s \in Place : s \in T <=> IF s = p THEN q \in S ELSE IF s = q THEN p \in S ELSE s \in S
  BY DEF Tally, Swap
<1>2. S \subseteq Place /\ T \subseteq Place /\ IsFiniteSet(S) /\ Cardinality(S) = n
  BY DEF Tally, Tallied
<1>. SUFFICES IsFiniteSet(T) /\ Cardinality(T) = n
  BY DEF Tallied
<1>. HIDE DEF S, T
<1>3. CASE p \in S <=> q \in S
  <2>1. T = S
    BY <1>1, <1>2, <1>3
  <2>. QED
    BY <1>2, <2>1
<1>4. CASE p \in S /\ q \notin S
  <2>1. T = (S \ {p}) \cup {q}
    BY <1>1, <1>2, <1>4
  <2>2. IsFiniteSet(S \ {p}) /\ Cardinality(S \ {p}) = n - 1
    BY <1>2, <1>4, FS_RemoveElement
  <2>3. IsFiniteSet(T) /\ Cardinality(T) = n - 1 + 1
    BY <1>4, <2>1, <2>2, FS_AddElement
  <2>4. n \in Nat
    BY <1>2, FS_CardinalityType
  <2>. QED
    BY <2>3, <2>4
<1>5. CASE p \notin S /\ q \in S
  <2>1. T = (S \ {q}) \cup {p}
    BY <1>1, <1>2, <1>5
  <2>2. IsFiniteSet(S \ {q}) /\ Cardinality(S \ {q}) = n - 1
    BY <1>2, <1>5, FS_RemoveElement
  <2>3. IsFiniteSet(T) /\ Cardinality(T) = n - 1 + 1
    BY <1>5, <2>1, <2>2, FS_AddElement
  <2>4. n \in Nat
    BY <1>2, FS_CardinalityType
  <2>. QED
    BY <2>3, <2>4
<1>. QED
  BY <1>3, <1>4, <1>5

LEMMA DropTally ==
  ASSUME NEW m, NEW p \in Place, NEW x, x # NONE, NEW n, Tallied(m, x, n)
  PROVE  Tallied(Drop(m, p), x, IF m[p] = x THEN n - 1 ELSE n)
<1>1. Tally(Drop(m, p), x) = Tally(m, x) \ {p}
  BY DEF Tally, Drop
<1>2. p \in Tally(m, x) <=> m[p] = x
  BY DEF Tally
<1>. QED
  BY <1>1, <1>2, FS_RemoveElement DEF Tallied

LEMMA PutTally ==
  ASSUME NEW m, NEW p \in Place, m[p] = NONE, NEW y, NEW x, x # NONE, NEW n,
         Tallied(m, x, n)
  PROVE  Tallied(Put(m, p, y), x, IF x = y THEN n + 1 ELSE n)
<1>1. Tally(Put(m, p, y), x) = IF x = y THEN Tally(m, x) \cup {p} ELSE Tally(m, x)
  BY DEF Tally, Put
<1>2. p \notin Tally(m, x)
  BY DEF Tally
<1>. QED
  BY <1>1, <1>2, FS_AddElement DEF Tallied

\* A tally with two places in it, and one with two at most.
LEMMA TwoPlaces ==
  ASSUME NEW m, NEW x, NEW n \in {0, 1, 2}, Tallied(m, x, n),
         NEW p \in Place, m[p] = x
  PROVE  n # 0 /\ \A q \in Place : m[q] = x /\ q # p => n = 2
<1>. DEFINE S == Tally(m, x)
<1>1. p \in S /\ IsFiniteSet(S) /\ Cardinality(S) = n
  BY DEF Tally, Tallied
<1>2. \A q \in Place : m[q] = x => q \in S
  BY DEF Tally
<1>. HIDE DEF S
<1>3. n # 0
  BY <1>1, FS_EmptySet
<1>4. ASSUME NEW q \in S, q # p PROVE n = 2
  <2>1. n # 1
    BY <1>1, <1>4, FS_Singleton
  <2>. QED
    BY <1>3, <2>1
<1>. QED
  BY <1>2, <1>3, <1>4

-----------------------------------------------------------------------------
(* What the places hold, before and after a step.                          *)

LEMMA PlaceKinds ==
  /\ \A t \in Thread : /\ \A j \in Nat : /\ <<"first", t, j>> \in Place
                                        /\ <<"second", t, j>> \in Place
                       /\ <<"A", t, 0>> \in Place /\ <<"B", t, 0>> \in Place
  /\ \A x \in Var : <<"cell", x, 0>> \in Place /\ <<"self", x, 0>> \in Place
  /\ \A p \in Place :
       \/ \E t \in Thread, j \in Nat : p \in {<<"first", t, j>>, <<"second", t, j>>}
       \/ \E t \in Thread : p \in {<<"A", t, 0>>, <<"B", t, 0>>}
       \/ \E x \in Var : p \in {<<"cell", x, 0>>, <<"self", x, 0>>}
BY DEF Place

LEMMA HeldPairs ==
  ASSUME NEW t \in Thread, NEW j \in Nat
  PROVE  /\ Held[<<"first", t, j>>] =
              IF j < Len(todo[t]) THEN todo[t][Len(todo[t]) - j][1] ELSE NONE
         /\ Held[<<"second", t, j>>] =
              IF j < Len(todo[t]) THEN todo[t][Len(todo[t]) - j][2] ELSE NONE
         /\ Held'[<<"first", t, j>>] =
              IF j < Len(todo'[t]) THEN todo'[t][Len(todo'[t]) - j][1] ELSE NONE
         /\ Held'[<<"second", t, j>>] =
              IF j < Len(todo'[t]) THEN todo'[t][Len(todo'[t]) - j][2] ELSE NONE
BY PlaceKinds DEF Held, At

LEMMA HeldHands ==
  ASSUME NEW t \in Thread
  PROVE  /\ Held[<<"A", t, 0>>] = IF pc[t] \in Linking THEN A[t] ELSE NONE
         /\ Held[<<"B", t, 0>>] = IF pc[t] \in Linking THEN B[t] ELSE NONE
         /\ Held'[<<"A", t, 0>>] = IF pc'[t] \in Linking THEN A'[t] ELSE NONE
         /\ Held'[<<"B", t, 0>>] = IF pc'[t] \in Linking THEN B'[t] ELSE NONE
BY PlaceKinds DEF Held, At

LEMMA HeldCells ==
  ASSUME NEW x \in Var
  PROVE  /\ Held[<<"cell", x, 0>>] = IF x \in Substituted THEN vars_buf[x] ELSE NONE
         /\ Held[<<"self", x, 0>>] = IF x \in Substituted THEN x ELSE NONE
         /\ Held'[<<"cell", x, 0>>] = IF x \in Substituted' THEN vars_buf'[x] ELSE NONE
         /\ Held'[<<"self", x, 0>>] = IF x \in Substituted' THEN x ELSE NONE
BY PlaceKinds DEF Held, At

\* Maps of the places agree that agree on every kind of place.
LEMMA SamePlaces ==
  ASSUME NEW m, NEW n,
         \A t \in Thread, j \in Nat :
           /\ m[<<"first", t, j>>] = n[<<"first", t, j>>]
           /\ m[<<"second", t, j>>] = n[<<"second", t, j>>],
         \A t \in Thread : /\ m[<<"A", t, 0>>] = n[<<"A", t, 0>>]
                           /\ m[<<"B", t, 0>>] = n[<<"B", t, 0>>],
         \A x \in Var : /\ m[<<"cell", x, 0>>] = n[<<"cell", x, 0>>]
                        /\ m[<<"self", x, 0>>] = n[<<"self", x, 0>>]
  PROVE  \A p \in Place : m[p] = n[p]
BY PlaceKinds, ZenonT(90)

\* A step that keeps the pairs, the hands, the substituted cells.
LEMMA KeptPairs ==
  ASSUME NEW t \in Thread, todo'[t] = todo[t]
  PROVE  \A j \in Nat : /\ Held'[<<"first", t, j>>] = Held[<<"first", t, j>>]
                        /\ Held'[<<"second", t, j>>] = Held[<<"second", t, j>>]
BY HeldPairs

LEMMA KeptHands ==
  ASSUME NEW t \in Thread, pc'[t] \in Linking <=> pc[t] \in Linking,
         pc[t] \in Linking => A'[t] = A[t] /\ B'[t] = B[t]
  PROVE  /\ Held'[<<"A", t, 0>>] = Held[<<"A", t, 0>>]
         /\ Held'[<<"B", t, 0>>] = Held[<<"B", t, 0>>]
BY HeldHands

LEMMA KeptCell ==
  ASSUME NEW x \in Var, x \in Substituted' <=> x \in Substituted,
         x \in Substituted => vars_buf'[x] = vars_buf[x]
  PROVE  /\ Held'[<<"cell", x, 0>>] = Held[<<"cell", x, 0>>]
         /\ Held'[<<"self", x, 0>>] = Held[<<"self", x, 0>>]
BY HeldCells

\* The tallies depend on what the places hold only.
LEMMA SameTally ==
  ASSUME NEW m, NEW n, \A p \in Place : m[p] = n[p], NEW x, NEW k, Tallied(m, x, k)
  PROVE  Tallied(n, x, k)
<1>1. Tally(m, x) = Tally(n, x)
  BY DEF Tally
<1>. QED
  BY <1>1 DEF Tallied

LEMMA OwedType == \A x : Owed(x) \in {0, 1, 2}
BY DEF Owed

\* A variable that is held is allocated, and nobody is deleting it; held twice,
\* it is nowhere else, and is no root.
LEMMA HeldLive ==
  ASSUME LinkInv, NEW x \in Var, NEW p \in Place, Held[p] = x
  PROVE  /\ vars_buf[x] # FREE /\ x \notin Deleting
         /\ \A q \in Place : Held[q] = x /\ q # p => Owed(x) = 2
<1>1. Tallied(Held, x, Owed(x)) /\ Owed(x) \in {0, 1, 2}
  BY OwedType DEF LinkInv, Balanced
<1>2. Owed(x) # 0 /\ \A q \in Place : Held[q] = x /\ q # p => Owed(x) = 2
  BY <1>1, TwoPlaces
<1>. QED
  BY <1>2 DEF Owed

-----------------------------------------------------------------------------
(* Cells being deleted.                                                    *)

Taking == {"take_a", "take_b"}

\* Those of the other threads.
Others(t) == {loc[u] : u \in {v \in Thread \ {t} : pc[v] \in Taking}}

LEMMA DeletingNow ==
  ASSUME LinkInv, NEW t \in Thread
  PROVE  /\ Deleting = Others(t) \cup (IF pc[t] \in Taking THEN {loc[t]} ELSE {})
         /\ pc[t] \in Taking => loc[t] \notin Others(t)
<1>1. Deleting = Others(t) \cup (IF pc[t] \in Taking THEN {loc[t]} ELSE {})
  BY DEF Deleting, Others, Taking
<1>2. pc[t] \in Taking => loc[t] \notin Others(t)
  BY DEF Others, Taking, LinkInv, Apart
<1>. QED
  BY <1>1, <1>2

LEMMA DeletingNext ==
  ASSUME LinkInv, NEW t \in Thread,
         \A u \in Thread \ {t} : pc'[u] = pc[u] /\ loc'[u] = loc[u]
  PROVE  Deleting' = Others(t) \cup (IF pc'[t] \in Taking THEN {loc'[t]} ELSE {})
BY DEF Deleting, Others, Taking

\* A cell being deleted is allocated.
LEMMA OthersHeld ==
  ASSUME LinkInv, NEW t \in Thread, NEW x \in Var, x \in Others(t)
  PROVE  vars_buf[x] # FREE
<1>1. PICK u \in Thread : pc[u] \in Taking /\ x = loc[u]
  BY DEF Others
<1>2. LocalInv(u) /\ NONE # FREE /\ FREE \notin Port
  BY LinkerAssumption DEF LinkInv
<1>. QED
  BY <1>1, <1>2 DEF LocalInv, Taking, Linking

-----------------------------------------------------------------------------
(* Types, and what a thread's label says of it.                            *)

LEMMA TypeStep ==
  ASSUME LinkInv, NEW t \in Thread, Step(t)
  PROVE  LinkTypes'
<1>. USE LinkerAssumption DEF Goto, LinkTypes
<1>0. /\ LinkTypes /\ LocalInv(t) /\ Links = Seq(Port \X Port) /\ todo[t] \in Links
      /\ A \in [Thread -> Port \cup {NONE}] /\ B \in [Thread -> Port \cup {NONE}]
  BY DEF LinkInv, Links
<1>1. CASE Call(t)
  <2>1. /\ Head(todo[t]) \in Port \X Port /\ Tail(todo[t]) \in Links
        /\ Head(todo[t])[1] \in Port /\ Head(todo[t])[2] \in Port
    BY <1>0, <1>1, HeadTailProperties DEF Call
  <2>2. A' \in [Thread -> Port \cup {NONE}] /\ B' \in [Thread -> Port \cup {NONE}]
    BY <1>0, <1>1, <2>1 DEF Call
  <2>3. todo' \in [Thread -> Links]
    BY <1>0, <1>1, <2>1 DEF Call
  <2>. QED
    BY <1>0, <1>1, <2>2, <2>3 DEF Call, Linking
<1>2. CASE Orient(t)
  BY <1>0, <1>2 DEF Orient, Linking
<1>3. CASE PushRedex(t)
  BY <1>0, <1>3 DEF PushRedex
<1>4. CASE EnterExchange(t)
  <2>1. vars_buf' \in [Var -> Port \cup {FREE, NONE}]
    BY <1>0, <1>4 DEF EnterExchange
  <2>2. vars_buf[B[t]] \in Port \cup {FREE, NONE}
    BY <1>0, <1>4 DEF EnterExchange
  <2>3. B' \in [Thread -> Port \cup {NONE}] /\ loc' \in [Thread -> Var \cup {NONE}]
    BY <1>0, <1>4, <2>2 DEF EnterExchange
  <2>4. pc' = [pc EXCEPT ![t] = "point"] \/ pc' = [pc EXCEPT ![t] = "take_b"]
    BY <1>4 DEF EnterExchange
  <2>5. pc' \in [Thread -> {"idle", "create"} \cup Linking]
    BY <1>0, <2>4 DEF Linking
  <2>. QED
    BY <1>0, <1>4, <2>1, <2>3, <2>5 DEF EnterExchange
<1>5. CASE EnterTake(t)
  BY <1>0, <1>5 DEF EnterTake, LocalInv, Linking
<1>6. CASE PointExchange(t)
  <2>1. A[t] \in Var /\ B[t] \in Port
    BY <1>0, <1>6 DEF PointExchange, LocalInv, Linking
  <2>2. vars_buf' \in [Var -> Port \cup {FREE, NONE}]
    BY <1>0, <1>6, <2>1 DEF PointExchange
  <2>3. vars_buf[A[t]] # FREE
    <3>1. <<"A", t, 0>> \in Place /\ Held[<<"A", t, 0>>] = A[t]
      BY <1>6, PlaceKinds, HeldHands DEF PointExchange, Linking
    <3>. QED
      BY <2>1, <3>1, HeldLive
  <2>4. vars_buf[A[t]] \in Port \cup {NONE}
    BY <1>0, <2>1, <2>3
  <2>5. A' \in [Thread -> Port \cup {NONE}] /\ loc' \in [Thread -> Var \cup {NONE}]
    BY <1>0, <1>6, <2>1, <2>4 DEF PointExchange
  <2>6. pc' = [pc EXCEPT ![t] = "idle"] \/ pc' = [pc EXCEPT ![t] = "take_a"]
    BY <1>6 DEF PointExchange
  <2>7. pc' \in [Thread -> {"idle", "create"} \cup Linking]
    BY <1>0, <2>6 DEF Linking
  <2>. QED
    BY <1>0, <1>6, <2>2, <2>5, <2>7 DEF PointExchange
<1>7. CASE PointTake(t)
  BY <1>0, <1>7 DEF PointTake, LocalInv, Linking
<1>8. CASE AllocFind(t)
  BY <1>0, <1>8 DEF AllocFind
<1>9. CASE Create(t)
  <2>1. loc[t] \in Var /\ todo[t] # <<>>
    BY <1>0, <1>9 DEF Create, LocalInv
  <2>2. Head(todo[t]) \in Port \X Port /\ Tail(todo[t]) \in Seq(Port \X Port)
    BY <1>0, <2>1, HeadTailProperties
  <2>. DEFINE two == << <<Head(todo[t])[1], loc[t]>>, <<loc[t], Head(todo[t])[2]>> >>
  <2>3. two \in Seq(Port \X Port)
    BY <2>1, <2>2 DEF Port
  <2>4. two \o Tail(todo[t]) \in Links
    BY <1>0, <2>2, <2>3, ConcatProperties
  <2>5. todo' = [todo EXCEPT ![t] = two \o Tail(todo[t])]
    BY <1>9 DEF Create
  <2>. HIDE DEF two
  <2>6. todo' \in [Thread -> Links]
    BY <1>0, <2>4, <2>5
  <2>7. vars_buf' \in [Var -> Port \cup {FREE, NONE}]
    BY <1>0, <1>9, <2>1 DEF Create
  <2>. QED
    BY <1>0, <1>9, <2>6, <2>7 DEF Create
<1>. QED
  BY <1>1, <1>2, <1>3, <1>4, <1>5, <1>6, <1>7, <1>8, <1>9 DEF Step

\* A thread that links holds its two ports; the cell it exchanges is allocated,
\* and nobody deletes it.
LEMMA HandsLive ==
  ASSUME LinkInv, NEW t \in Thread, pc[t] \in Linking
  PROVE  /\ A[t] \in Var => vars_buf[A[t]] # FREE /\ A[t] \notin Deleting
         /\ B[t] \in Var => vars_buf[B[t]] # FREE /\ B[t] \notin Deleting
<1>1. /\ <<"A", t, 0>> \in Place /\ <<"B", t, 0>> \in Place
      /\ Held[<<"A", t, 0>>] = A[t] /\ Held[<<"B", t, 0>>] = B[t]
  BY PlaceKinds, HeldHands
<1>. QED
  BY <1>1, HeldLive

\* What a step of one thread leaves of another's.
LEMMA OtherKept ==
  ASSUME LinkInv, NEW t \in Thread, Step(t), NEW u \in Thread \ {t}
  PROVE  /\ pc'[u] = pc[u] /\ A'[u] = A[u] /\ B'[u] = B[u] /\ loc'[u] = loc[u]
         /\ todo'[u] = todo[u]
<1>1. /\ todo \in [Thread -> Links] /\ DOMAIN pc = Thread
      /\ DOMAIN A = Thread /\ DOMAIN B = Thread /\ DOMAIN loc = Thread
  BY DEF LinkInv, LinkTypes
<1>. QED
  BY <1>1 DEF Step, Call, Orient, PushRedex, EnterExchange, EnterTake, PointExchange,
              PointTake, AllocFind, Create, Goto

\* No thread writes a cell that another is about to delete or create.
LEMMA OtherCell ==
  ASSUME LinkInv, NEW t \in Thread, Step(t), NEW u \in Thread \ {t},
         pc[u] \in Taking \cup {"create"}
  PROVE  loc[u] \in Var /\ vars_buf'[loc[u]] = vars_buf[loc[u]]
<1>. DEFINE x == loc[u]
<1>0. /\ LinkTypes /\ LocalInv(t) /\ LocalInv(u) /\ FREE # NONE /\ FREE \notin Port
      /\ \A v \in Thread : Partition[v] \subseteq Var
      /\ Partition[t] \cap Partition[u] = {}
      /\ vars_buf \in [Var -> Port \cup {FREE, NONE}]
  BY LinkerAssumption DEF LinkInv, LinkTypes
<1>1. x \in Var
  BY <1>0 DEF LocalInv, Taking
<1>2. \/ vars_buf[x] = FREE /\ pc[u] = "create" /\ x \in Partition[u]
      \/ vars_buf[x] # FREE /\ pc[u] \in Taking /\ x \in Deleting
  <2>1. pc[u] \in Taking => x \in Deleting
    BY DEF Deleting, Taking
  <2>2. pc[u] \in Taking => vars_buf[x] # FREE
    BY <1>0 DEF LocalInv, Taking, Linking
  <2>. QED
    BY <1>0, <2>1, <2>2 DEF LocalInv
<1>. HIDE DEF x
<1>3. CASE EnterExchange(t) \/ PointExchange(t)
  <2>1. pc[t] \in Linking /\ A[t] \in Var
    BY <1>0, <1>3 DEF EnterExchange, PointExchange, Linking, LocalInv
  <2>2. (EnterExchange(t) => B[t] \in Var /\ B[t] # x) /\ (PointExchange(t) => A[t] # x)
    BY <1>2, <2>1, HandsLive DEF EnterExchange
  <2>. QED
    BY <1>0, <1>1, <1>3, <2>2 DEF EnterExchange, PointExchange, x
<1>4. CASE EnterTake(t) \/ PointTake(t)
  <2>1. pc[t] \in Taking /\ loc[t] \in Var /\ vars_buf[loc[t]] # FREE
    BY <1>0, <1>4 DEF EnterTake, PointTake, LocalInv, Taking, Linking
  <2>2. loc[t] # x
    BY <1>2, <2>1 DEF LinkInv, Apart, Taking, x
  <2>. QED
    BY <1>0, <1>1, <1>4, <2>2 DEF EnterTake, PointTake, x
<1>5. CASE Create(t)
  <2>1. loc[t] \in Partition[t] /\ vars_buf[loc[t]] = FREE
    BY <1>0, <1>5 DEF Create, LocalInv
  <2>2. loc[t] # x
    BY <1>0, <1>2, <2>1
  <2>. QED
    BY <1>0, <1>1, <1>5, <2>2 DEF Create, x
<1>6. CASE Call(t) \/ Orient(t) \/ PushRedex(t) \/ AllocFind(t)
  BY <1>1, <1>6 DEF Call, Orient, PushRedex, AllocFind, x
<1>. QED
  BY <1>3, <1>4, <1>5, <1>6 DEF Step

LEMMA OtherLocal ==
  ASSUME LinkInv, NEW t \in Thread, Step(t), NEW u \in Thread \ {t}
  PROVE  LocalInv(u)'
<1>1. /\ pc'[u] = pc[u] /\ A'[u] = A[u] /\ B'[u] = B[u] /\ loc'[u] = loc[u]
      /\ todo'[u] = todo[u]
  BY OtherKept
<1>2. pc[u] \in Taking \cup {"create"} => vars_buf'[loc[u]] = vars_buf[loc[u]]
  BY OtherCell
<1>. QED
  BY <1>1, <1>2 DEF LinkInv, LocalInv, Taking

LEMMA OwnLocal ==
  ASSUME LinkInv, NEW t \in Thread, Step(t)
  PROVE  LocalInv(t)'
<1>0. /\ LinkTypes /\ LocalInv(t) /\ todo[t] \in Seq(Port \X Port)
      /\ DOMAIN pc = Thread /\ DOMAIN A = Thread /\ DOMAIN B = Thread
      /\ DOMAIN loc = Thread /\ todo \in [Thread -> Links]
      /\ vars_buf \in [Var -> Port \cup {FREE, NONE}]
      /\ Var \subseteq Port /\ NONE # FREE
  BY LinkerAssumption DEF LinkInv, LinkTypes, Links, Port
<1>1. CASE Call(t)
  <2>1. Head(todo[t])[1] \in Port /\ Head(todo[t])[2] \in Port
    BY <1>0, <1>1, HeadTailProperties DEF Call
  <2>2. pc'[t] = "link" /\ A'[t] = Head(todo[t])[1] /\ B'[t] = Head(todo[t])[2]
    BY <1>0, <1>1 DEF Call, Goto
  <2>. QED
    BY <2>1, <2>2 DEF LocalInv
<1>2. CASE Orient(t)
  <2>1. pc'[t] = "enter" /\ A[t] \in Port /\ B[t] \in Port
    BY <1>0, <1>2 DEF Orient, Goto, LocalInv, Linking
  <2>2. A'[t] \in Var /\ B'[t] \in Port
    BY <1>0, <1>2, <2>1 DEF Orient
  <2>. QED
    BY <1>0, <2>1, <2>2 DEF LocalInv
<1>3. CASE PushRedex(t)
  BY <1>0, <1>3 DEF PushRedex, Goto, LocalInv, Linking
<1>4. CASE EnterExchange(t)
  <2>1. /\ A[t] \in Var /\ B[t] \in Var /\ pc[t] = "enter" /\ A'[t] = A[t]
        /\ vars_buf'[B[t]] = NONE /\ vars_buf[B[t]] \in Port \cup {FREE, NONE}
    BY <1>0, <1>4 DEF EnterExchange, LocalInv
  <2>2. CASE vars_buf[B[t]] \in {NONE, FREE}
    <3>1. pc'[t] = "point" /\ B'[t] = B[t]
      BY <1>0, <1>4, <2>2 DEF EnterExchange, Goto
    <3>. QED
      BY <1>0, <2>1, <3>1 DEF LocalInv
  <2>3. CASE vars_buf[B[t]] \notin {NONE, FREE}
    <3>1. pc'[t] = "take_b" /\ B'[t] \in Port /\ loc'[t] = B[t]
      BY <1>0, <1>4, <2>1, <2>3 DEF EnterExchange, Goto
    <3>. QED
      BY <1>0, <2>1, <3>1 DEF LocalInv
  <2>. QED
    BY <2>2, <2>3
<1>5. CASE EnterTake(t)
  BY <1>0, <1>5 DEF EnterTake, Goto, LocalInv, Linking
<1>6. CASE PointExchange(t)
  <2>1. /\ A[t] \in Var /\ B[t] \in Port /\ B'[t] = B[t] /\ pc[t] \in Linking
        /\ vars_buf'[A[t]] = B[t]
    BY <1>0, <1>6 DEF PointExchange, LocalInv, Linking
  <2>2. vars_buf[A[t]] \in Port \cup {NONE}
    BY <1>0, <2>1, HandsLive
  <2>3. CASE vars_buf[A[t]] = NONE
    <3>1. pc'[t] = "idle"
      BY <1>0, <1>6, <2>3 DEF PointExchange, Goto
    <3>. QED
      BY <3>1 DEF LocalInv, Linking
  <2>4. CASE vars_buf[A[t]] # NONE
    <3>1. pc'[t] = "take_a" /\ A'[t] \in Port /\ loc'[t] = A[t]
      BY <1>0, <1>6, <2>2, <2>4 DEF PointExchange, Goto
    <3>. QED
      BY <2>1, <3>1 DEF LocalInv
  <2>. QED
    BY <2>3, <2>4
<1>7. CASE PointTake(t)
  BY <1>0, <1>7 DEF PointTake, Goto, LocalInv, Linking
<1>8. CASE AllocFind(t)
  BY <1>0, <1>8 DEF AllocFind, Goto, LocalInv, Linking
<1>9. CASE Create(t)
  BY <1>0, <1>9 DEF Create, Goto, LocalInv, Linking
<1>. QED
  BY <1>1, <1>2, <1>3, <1>4, <1>5, <1>6, <1>7, <1>8, <1>9 DEF Step

LEMMA ApartStep ==
  ASSUME LinkInv, NEW t \in Thread, Step(t)
  PROVE  Apart'
<1>1. \A u \in Thread \ {t} : pc'[u] = pc[u] /\ loc'[u] = loc[u]
  BY OtherKept
<1>2. pc'[t] \in Taking => loc'[t] \notin Others(t)
  <2>1. CASE EnterExchange(t)
    <3>1. pc[t] \in Linking /\ B[t] \in Var /\ DOMAIN loc = Thread /\ DOMAIN pc = Thread
      BY <2>1 DEF EnterExchange, Linking, LinkInv, LinkTypes
    <3>2. pc'[t] \in Taking => loc'[t] = B[t]
      BY <2>1, <3>1 DEF EnterExchange, Goto, Taking
    <3>3. B[t] \notin Others(t)
      BY <3>1, HandsLive, DeletingNow
    <3>. QED
      BY <3>2, <3>3
  <2>2. CASE PointExchange(t)
    <3>1. /\ pc[t] \in Linking /\ A[t] \in Var
          /\ DOMAIN loc = Thread /\ DOMAIN pc = Thread
      BY <2>2 DEF PointExchange, Linking, LinkInv, LinkTypes, LocalInv
    <3>2. pc'[t] \in Taking => loc'[t] = A[t]
      BY <2>2, <3>1 DEF PointExchange, Goto, Taking
    <3>3. A[t] \notin Others(t)
      BY <3>1, HandsLive, DeletingNow
    <3>. QED
      BY <3>2, <3>3
  <2>3. CASE ~EnterExchange(t) /\ ~PointExchange(t)
    <3>1. DOMAIN pc = Thread
      BY DEF LinkInv, LinkTypes
    <3>2. pc'[t] \notin Taking
      BY <2>3, <3>1 DEF Step, Call, Orient, PushRedex, EnterTake, PointTake, AllocFind,
                        Create, Goto, Taking
    <3>. QED
      BY <3>2
  <2>. QED
    BY <2>1, <2>2, <2>3
<1>3. \A u \in Thread \ {t} : pc'[u] \in Taking => loc'[u] \in Others(t)
  BY <1>1 DEF Others
<1>4. \A u, v \in Thread \ {t} :
        pc'[u] \in Taking /\ pc'[v] \in Taking /\ loc'[u] = loc'[v] => u = v
  BY <1>1 DEF LinkInv, Apart, Taking
<1>. QED
  BY <1>2, <1>3, <1>4 DEF Apart, Taking

-----------------------------------------------------------------------------
(* Every step keeps the balance: what it makes of the places is a few      *)
(* swaps, drops and puts.                                                  *)

Becomes(m) == \A p \in Place : m[p] = Held'[p]

LEMMA Rebalanced ==
  ASSUME NEW m, \A p \in Place : m[p] = Held'[p],
         \A x \in Var : Tallied(m, x, Owed(x)')
  PROVE  Balanced'
BY SameTally DEF Balanced

\* Where no cell is written and none begins or ceases to be deleted, variables
\* are owed what they were.
LEMMA SameOwed ==
  ASSUME vars_buf' = vars_buf, Deleting' = Deleting
  PROVE  Substituted' = Substituted /\ \A x : Owed(x)' = Owed(x)
BY DEF Substituted, Owed

LEMMA BalancedTallies ==
  ASSUME LinkInv, NEW x \in Var
  PROVE  Tallied(Held, x, Owed(x)) /\ x # NONE
BY LinkerAssumption DEF LinkInv, Balanced, Port

\* A pair passes from the list to the hands.
Called(t, j) ==
  /\ Held[<<"A", t, 0>>] = NONE /\ Held[<<"B", t, 0>>] = NONE
  /\ Becomes(Swap(Swap(Held, <<"first", t, j>>, <<"A", t, 0>>),
                  <<"second", t, j>>, <<"B", t, 0>>))

LEMMA CallBalanced ==
  ASSUME LinkInv, NEW t \in Thread, Call(t)
  PROVE  Balanced' /\ \E j \in Nat : Called(t, j)
<1>. DEFINE n  == Len(todo[t])
            f  == <<"first", t, n - 1>>
            s  == <<"second", t, n - 1>>
            a  == <<"A", t, 0>>
            b  == <<"B", t, 0>>
            m1 == Swap(Held, f, a)
            m2 == Swap(m1, s, b)
<1>0. /\ todo \in [Thread -> Seq(Port \X Port)] /\ todo[t] # <<>>
      /\ todo[t] \in Seq(Port \X Port)
      /\ pc[t] = "idle" /\ pc'[t] = "link"
      /\ todo' = [todo EXCEPT ![t] = Tail(todo[t])]
      /\ A'[t] = Head(todo[t])[1] /\ B'[t] = Head(todo[t])[2]
      /\ vars_buf' = vars_buf /\ loc' = loc
  BY DEF LinkInv, LinkTypes, Links, Call, Goto
<1>1. /\ n \in Nat \ {0} /\ todo'[t] = Tail(todo[t]) /\ Len(todo'[t]) = n - 1
      /\ Head(todo[t]) = todo[t][1]
      /\ \A i \in 1 .. n - 1 : todo'[t][i] = todo[t][i + 1]
  <2>1. todo'[t] = Tail(todo[t])
    BY <1>0
  <2>2. ASSUME NEW q \in Seq(Port \X Port), q # <<>>
        PROVE  /\ Len(q) \in Nat \ {0} /\ Len(Tail(q)) = Len(q) - 1 /\ Head(q) = q[1]
               /\ \A i \in 1 .. Len(q) - 1 : Tail(q)[i] = q[i + 1]
    BY <2>2
  <2>. QED
    BY <1>0, <2>1, <2>2, Zenon
<1>2. n - 1 \in Nat /\ n - 1 < n /\ n - (n - 1) = 1 /\ ~(n - 1 < n - 1)
  BY <1>1
<1>3. f \in Place /\ s \in Place /\ a \in Place /\ b \in Place
  BY <1>2, PlaceKinds, Zenon
<1>4. /\ Held[a] = NONE /\ Held[b] = NONE
      /\ Held'[a] = A'[t] /\ Held'[b] = B'[t]
  BY <1>0, HeldHands DEF Linking
<1>5. ASSUME NEW j \in Nat
      PROVE  /\ Held[<<"first", t, j>>] = IF j < n THEN todo[t][n - j][1] ELSE NONE
             /\ Held[<<"second", t, j>>] = IF j < n THEN todo[t][n - j][2] ELSE NONE
             /\ Held'[<<"first", t, j>>] = IF j < n - 1 THEN todo[t][n - j][1] ELSE NONE
             /\ Held'[<<"second", t, j>>] = IF j < n - 1 THEN todo[t][n - j][2] ELSE NONE
  <2>1. /\ Held[<<"first", t, j>>] =
             IF j < Len(todo[t]) THEN todo[t][Len(todo[t]) - j][1] ELSE NONE
        /\ Held[<<"second", t, j>>] =
             IF j < Len(todo[t]) THEN todo[t][Len(todo[t]) - j][2] ELSE NONE
        /\ Held'[<<"first", t, j>>] =
             IF j < Len(todo'[t]) THEN todo'[t][Len(todo'[t]) - j][1] ELSE NONE
        /\ Held'[<<"second", t, j>>] =
             IF j < Len(todo'[t]) THEN todo'[t][Len(todo'[t]) - j][2] ELSE NONE
    BY HeldPairs, Zenon
  <2>2. j < n - 1 => todo'[t][n - 1 - j] = todo[t][n - j]
    <3>1. j < n - 1 => n - 1 - j \in 1 .. n - 1 /\ (n - 1 - j) + 1 = n - j
      BY <1>1
    <3>. QED
      BY <1>1, <3>1, Zenon
  <2>. QED
    BY <1>1, <2>1, <2>2, Zenon
<1>6. /\ Held[f] = A'[t] /\ Held[s] = B'[t]
      /\ Held'[f] = NONE /\ Held'[s] = NONE
  BY <1>0, <1>1, <1>2, <1>5, Zenon
<1>7. Deleting' = Deleting /\ Substituted' = Substituted /\ \A x : Owed(x)' = Owed(x)
  <2>1. \A u \in Thread \ {t} : pc'[u] = pc[u] /\ loc'[u] = loc[u]
    BY OtherKept DEF Step
  <2>2. Deleting' = Deleting
    BY <1>0, <2>1, DeletingNow, DeletingNext DEF Taking
  <2>. QED
    BY <1>0, <2>2, SameOwed
<1>8. \A p \in Place : m2[p] = Held'[p]
  <2>1. ASSUME NEW u \in Thread, NEW j \in Nat
        PROVE  /\ m2[<<"first", u, j>>] = Held'[<<"first", u, j>>]
               /\ m2[<<"second", u, j>>] = Held'[<<"second", u, j>>]
    <3>1. <<"first", u, j>> \in Place /\ <<"second", u, j>> \in Place
      BY PlaceKinds, Zenon
    <3>2. CASE u = t /\ j = n - 1
      BY <1>3, <1>4, <1>6, <3>1, <3>2 DEF Swap
    <3>3. CASE u = t /\ j # n - 1
      <4>1. j < n - 1 <=> j < n
        BY <1>1, <3>3
      <4>2. /\ m2[<<"first", u, j>>] = Held[<<"first", u, j>>]
            /\ m2[<<"second", u, j>>] = Held[<<"second", u, j>>]
        BY <3>1, <3>3 DEF Swap
      <4>3. /\ Held'[<<"first", t, j>>] = Held[<<"first", t, j>>]
            /\ Held'[<<"second", t, j>>] = Held[<<"second", t, j>>]
        BY <1>5, <4>1
      <4>. QED
        BY <3>3, <4>2, <4>3
    <3>4. CASE u # t
      <4>1. todo'[u] = todo[u]
        BY <3>4, OtherKept DEF Step
      <4>2. /\ m2[<<"first", u, j>>] = Held[<<"first", u, j>>]
            /\ m2[<<"second", u, j>>] = Held[<<"second", u, j>>]
        BY <3>1, <3>4 DEF Swap
      <4>. QED
        BY <4>1, <4>2, KeptPairs
    <3>. QED
      BY <3>2, <3>3, <3>4
  <2>2. ASSUME NEW u \in Thread
        PROVE  /\ m2[<<"A", u, 0>>] = Held'[<<"A", u, 0>>]
               /\ m2[<<"B", u, 0>>] = Held'[<<"B", u, 0>>]
    <3>1. <<"A", u, 0>> \in Place /\ <<"B", u, 0>> \in Place
      BY PlaceKinds, Zenon
    <3>2. CASE u = t
      BY <1>3, <1>4, <1>6, <3>1, <3>2 DEF Swap
    <3>3. CASE u # t
      <4>1. pc'[u] = pc[u] /\ A'[u] = A[u] /\ B'[u] = B[u]
        BY <3>3, OtherKept DEF Step
      <4>2. /\ m2[<<"A", u, 0>>] = Held[<<"A", u, 0>>]
            /\ m2[<<"B", u, 0>>] = Held[<<"B", u, 0>>]
        BY <3>1, <3>3 DEF Swap
      <4>. QED
        BY <4>1, <4>2, KeptHands
    <3>. QED
      BY <3>2, <3>3
  <2>3. ASSUME NEW x \in Var
        PROVE  /\ m2[<<"cell", x, 0>>] = Held'[<<"cell", x, 0>>]
               /\ m2[<<"self", x, 0>>] = Held'[<<"self", x, 0>>]
    <3>1. <<"cell", x, 0>> \in Place /\ <<"self", x, 0>> \in Place
      BY PlaceKinds, Zenon
    <3>2. /\ m2[<<"cell", x, 0>>] = Held[<<"cell", x, 0>>]
          /\ m2[<<"self", x, 0>>] = Held[<<"self", x, 0>>]
      BY <3>1 DEF Swap
    <3>. QED
      BY <1>0, <1>7, <3>2, KeptCell
  <2>. HIDE DEF m2
  <2>. QED
    BY <2>1, <2>2, <2>3, SamePlaces
<1>9. \A x \in Var : Tallied(m2, x, Owed(x)')
  <2>. SUFFICES ASSUME NEW x \in Var PROVE Tallied(m2, x, Owed(x))
    BY <1>7
  <2>1. Tallied(Held, x, Owed(x))
    BY BalancedTallies
  <2>2. Tallied(m1, x, Owed(x))
    BY <1>3, <2>1, SwapTally
  <2>. HIDE DEF m1, f, s, a, b
  <2>. QED
    BY <1>3, <2>2, SwapTally
<1>10. Called(t, n - 1)
  BY <1>4, <1>8 DEF Called, Becomes
<1>. HIDE DEF m2
<1>. QED
  BY <1>2, <1>8, <1>9, <1>10, Rebalanced

\* A step that writes cell c at most, and begins or ends no other deletion.
LEMMA OtherCells ==
  ASSUME LinkInv, NEW c \in Var, NEW v, vars_buf' = [vars_buf EXCEPT ![c] = v],
         Deleting' \ {c} = Deleting \ {c}
  PROVE  /\ vars_buf'[c] = v
         /\ \A x \in Var \ {c} : /\ x \in Substituted' <=> x \in Substituted
                                /\ vars_buf'[x] = vars_buf[x] /\ Owed(x)' = Owed(x)
<1>1. vars_buf'[c] = v /\ \A x \in Var \ {c} : vars_buf'[x] = vars_buf[x]
  BY DEF LinkInv, LinkTypes
<1>2. \A x \in Var \ {c} : x \in Deleting' <=> x \in Deleting
  OBVIOUS
<1>. QED
  BY <1>1, <1>2 DEF Substituted, Owed

\* Such a step leaves all places but the thread's hands and those of the cell.
LEMMA OtherPlaces ==
  ASSUME LinkInv, NEW t \in Thread, Step(t), todo' = todo, NEW c,
         \A x \in Var \ {c} : /\ x \in Substituted' <=> x \in Substituted
                            /\ vars_buf'[x] = vars_buf[x]
  PROVE  \A p \in Place \ {<<"A", t, 0>>, <<"B", t, 0>>, <<"cell", c, 0>>, <<"self", c, 0>>} :
           Held'[p] = Held[p]
<1>1. \A u \in Thread, j \in Nat :
        /\ Held'[<<"first", u, j>>] = Held[<<"first", u, j>>]
        /\ Held'[<<"second", u, j>>] = Held[<<"second", u, j>>]
  BY KeptPairs
<1>2. \A u \in Thread \ {t} : /\ Held'[<<"A", u, 0>>] = Held[<<"A", u, 0>>]
                             /\ Held'[<<"B", u, 0>>] = Held[<<"B", u, 0>>]
  BY OtherKept, KeptHands
<1>3. \A x \in Var \ {c} : /\ Held'[<<"cell", x, 0>>] = Held[<<"cell", x, 0>>]
                          /\ Held'[<<"self", x, 0>>] = Held[<<"self", x, 0>>]
  BY KeptCell
<1>. SUFFICES ASSUME NEW p \in Place, p # <<"A", t, 0>>, p # <<"B", t, 0>>,
                     p # <<"cell", c, 0>>, p # <<"self", c, 0>>
              PROVE  Held'[p] = Held[p]
  BY Zenon
<1>4. CASE \E u \in Thread, j \in Nat : p \in {<<"first", u, j>>, <<"second", u, j>>}
  BY <1>1, <1>4
<1>5. CASE \E u \in Thread : p \in {<<"A", u, 0>>, <<"B", u, 0>>}
  <2>1. PICK u \in Thread : p \in {<<"A", u, 0>>, <<"B", u, 0>>}
    BY <1>5
  <2>2. u # t
    BY <2>1
  <2>. QED
    BY <1>2, <2>1, <2>2
<1>6. CASE \E x \in Var : p \in {<<"cell", x, 0>>, <<"self", x, 0>>}
  <2>1. PICK x \in Var : p \in {<<"cell", x, 0>>, <<"self", x, 0>>}
    BY <1>6
  <2>2. x # c
    BY <2>1
  <2>. QED
    BY <1>3, <2>1, <2>2
<1>. QED
  BY <1>4, <1>5, <1>6, PlaceKinds, Zenon

\* The ports in a thread's hands are exchanged, or not.
LEMMA OrientBalanced ==
  ASSUME LinkInv, NEW t \in Thread, Orient(t)
  PROVE  /\ Balanced'
         /\ Becomes(Held) \/ Becomes(Swap(Held, <<"A", t, 0>>, <<"B", t, 0>>))
<1>. DEFINE a == <<"A", t, 0>>
            b == <<"B", t, 0>>
            m == IF A[t] \notin Var /\ B[t] \in Var THEN Swap(Held, a, b) ELSE Held
<1>0. /\ pc[t] = "link" /\ pc'[t] = "enter" /\ DOMAIN A = Thread /\ DOMAIN B = Thread
      /\ vars_buf' = vars_buf /\ todo' = todo
  BY DEF LinkInv, LinkTypes, Orient, Goto
<1>1. Deleting' = Deleting /\ Substituted' = Substituted /\ \A x : Owed(x)' = Owed(x)
  <2>1. \A u \in Thread \ {t} : pc'[u] = pc[u] /\ loc'[u] = loc[u]
    BY OtherKept DEF Step
  <2>2. Deleting' = Deleting
    BY <1>0, <2>1, DeletingNow, DeletingNext DEF Taking
  <2>. QED
    BY <1>0, <2>2, SameOwed
<1>2. a \in Place /\ b \in Place /\ a # b
  BY PlaceKinds
<1>3. Held[a] = A[t] /\ Held[b] = B[t] /\ Held'[a] = A'[t] /\ Held'[b] = B'[t]
  BY <1>0, HeldHands DEF Linking
<1>4. m[a] = Held'[a] /\ m[b] = Held'[b] /\ \A p \in Place \ {a, b} : m[p] = Held[p]
  BY <1>0, <1>2, <1>3 DEF Orient, Swap
<1>5. \A p \in Place \ {a, b} : Held'[p] = Held[p]
  <2>1. \A p \in Place \ {a, b, <<"cell", NONE, 0>>, <<"self", NONE, 0>>} : Held'[p] = Held[p]
    BY <1>0, <1>1, OtherPlaces DEF Step
  <2>2. <<"cell", NONE, 0>> \notin Place /\ <<"self", NONE, 0>> \notin Place
    BY LinkerAssumption DEF Place, Port
  <2>. QED
    BY <2>1, <2>2
<1>6. \A x \in Var : Tallied(m, x, Owed(x)')
  BY <1>1, <1>2, BalancedTallies, SwapTally
<1>7. \A p \in Place : m[p] = Held'[p]
  <2>. HIDE DEF m
  <2>. QED
    BY <1>4, <1>5
<1>8. Becomes(Held) \/ Becomes(Swap(Held, a, b))
  BY <1>7 DEF Becomes
<1>. HIDE DEF m
<1>. QED
  BY <1>6, <1>7, <1>8, Rebalanced

\* Two ports that are no variables leave the linker.
LEMMA PushBalanced ==
  ASSUME LinkInv, NEW t \in Thread, PushRedex(t)
  PROVE  /\ Balanced'
         /\ Held[<<"A", t, 0>>] = A[t] /\ Held[<<"B", t, 0>>] = B[t]
         /\ Becomes(Drop(Drop(Held, <<"A", t, 0>>), <<"B", t, 0>>))
<1>. DEFINE a == <<"A", t, 0>>
            b == <<"B", t, 0>>
            m == Drop(Drop(Held, a), b)
<1>0. /\ pc[t] = "link" /\ pc'[t] = "idle" /\ vars_buf' = vars_buf /\ todo' = todo
      /\ A[t] \notin Var /\ B[t] \notin Var
  BY DEF LinkInv, LinkTypes, PushRedex, Goto
<1>1. Deleting' = Deleting /\ Substituted' = Substituted /\ \A x : Owed(x)' = Owed(x)
  <2>1. \A u \in Thread \ {t} : pc'[u] = pc[u] /\ loc'[u] = loc[u]
    BY OtherKept DEF Step
  <2>2. Deleting' = Deleting
    BY <1>0, <2>1, DeletingNow, DeletingNext DEF Taking
  <2>. QED
    BY <1>0, <2>2, SameOwed
<1>2. a \in Place /\ b \in Place /\ a # b
  BY PlaceKinds
<1>3. Held[a] = A[t] /\ Held[b] = B[t] /\ Held'[a] = NONE /\ Held'[b] = NONE
  BY <1>0, HeldHands DEF Linking
<1>4. m[a] = Held'[a] /\ m[b] = Held'[b] /\ \A p \in Place \ {a, b} : m[p] = Held[p]
  BY <1>2, <1>3 DEF Drop
<1>5. \A p \in Place \ {a, b} : Held'[p] = Held[p]
  <2>1. \A p \in Place \ {a, b, <<"cell", NONE, 0>>, <<"self", NONE, 0>>} : Held'[p] = Held[p]
    BY <1>0, <1>1, OtherPlaces DEF Step
  <2>2. <<"cell", NONE, 0>> \notin Place /\ <<"self", NONE, 0>> \notin Place
    BY LinkerAssumption DEF Place, Port
  <2>. QED
    BY <2>1, <2>2
<1>6. ASSUME NEW x \in Var PROVE Tallied(m, x, Owed(x)')
  <2>1. Tallied(Held, x, Owed(x)) /\ x # NONE
    BY BalancedTallies
  <2>2. Tallied(Drop(Held, a), x, Owed(x))
    BY <1>0, <1>2, <1>3, <2>1, DropTally
  <2>3. Drop(Held, a)[b] # x
    BY <1>0, <1>2, <1>3 DEF Drop
  <2>4. Tallied(m, x, Owed(x))
    BY <1>2, <2>1, <2>2, <2>3, DropTally
  <2>. QED
    BY <1>1, <2>4
<1>7. \A p \in Place : m[p] = Held'[p]
  <2>. HIDE DEF m
  <2>. QED
    BY <1>4, <1>5
<1>8. Becomes(Drop(Drop(Held, a), b))
  BY <1>7 DEF Becomes
<1>. HIDE DEF m
<1>. QED
  BY <1>3, <1>6, <1>7, <1>8, Rebalanced

\* What the places hold once the port of cell c has come into hand h.
Followed(c, h) ==
  Drop(Drop(Swap(Held, h, <<"cell", c, 0>>), <<"cell", c, 0>>), <<"self", c, 0>>)

\* A substituted variable that a thread follows has used both its occurrences:
\* the thread holds one, its cell stands for the other.  Their tally is empty
\* once the cell's port has come into the thread's hand h.
LEMMA FollowTallies ==
  ASSUME LinkInv, NEW c \in Substituted, NEW h \in Place, Held[h] = c,
         h # <<"cell", c, 0>>, h # <<"self", c, 0>>
  PROVE  /\ Tallied(Followed(c, h), c, 0)
         /\ \A x \in Var \ {c} : Tallied(Followed(c, h), x, Owed(x))
         /\ Followed(c, h)[h] = vars_buf[c]
         /\ Followed(c, h)[<<"cell", c, 0>>] = NONE
         /\ Followed(c, h)[<<"self", c, 0>>] = NONE
         /\ \A p \in Place \ {h, <<"cell", c, 0>>, <<"self", c, 0>>} :
              Followed(c, h)[p] = Held[p]
<1>. DEFINE m  == Followed(c, h)
            l  == <<"cell", c, 0>>
            s  == <<"self", c, 0>>
            m1 == Swap(Held, h, l)
            m2 == Drop(m1, l)
<1>0. c \in Var
  BY DEF Substituted
<1>1. l \in Place /\ s \in Place /\ l # s /\ Held[l] = vars_buf[c] /\ Held[s] = c
  BY <1>0, PlaceKinds, HeldCells
<1>2. /\ m1[h] = vars_buf[c] /\ m1[l] = c /\ m1[s] = c
      /\ \A p \in Place \ {h, l} : m1[p] = Held[p]
  BY <1>1 DEF Swap
<1>3. /\ m2[h] = vars_buf[c] /\ m2[l] = NONE /\ m2[s] = c
      /\ \A p \in Place \ {h, l} : m2[p] = Held[p]
  BY <1>1, <1>2 DEF Drop
<1>4. /\ m[h] = vars_buf[c] /\ m[l] = NONE /\ m[s] = NONE
      /\ \A p \in Place \ {h, l, s} : m[p] = Held[p]
  BY <1>1, <1>3 DEF Drop, Followed
<1>. HIDE DEF m1, l, s
<1>5. ASSUME NEW x \in Var
      PROVE  Tallied(m, x, IF x = c THEN Owed(x) - 1 - 1 ELSE Owed(x))
  <2>1. Tallied(Held, x, Owed(x)) /\ x # NONE
    BY BalancedTallies
  <2>2. Tallied(m1, x, Owed(x))
    BY <1>1, <2>1, SwapTally DEF m1
  <2>3. Tallied(m2, x, IF x = c THEN Owed(x) - 1 ELSE Owed(x))
    BY <1>1, <1>2, <2>1, <2>2, DropTally
  <2>4. m = Drop(m2, s)
    BY DEF m1, l, s, Followed
  <2>. HIDE DEF m2
  <2>5. CASE x = c
    <3>1. Tallied(m2, x, Owed(x) - 1)
      BY <2>3, <2>5
    <3>2. Tallied(m, x, IF m2[s] = x THEN Owed(x) - 1 - 1 ELSE Owed(x) - 1)
      BY <1>1, <2>1, <2>4, <3>1, DropTally
    <3>. QED
      BY <1>3, <2>5, <3>2
  <2>6. CASE x # c
    <3>1. Tallied(m2, x, Owed(x)) /\ m2[s] # x
      BY <1>3, <2>3, <2>6
    <3>. QED
      BY <1>1, <2>1, <2>4, <2>6, <3>1, DropTally
  <2>. QED
    BY <2>5, <2>6
<1>6. Owed(c) = 2
  BY <1>0, <1>1, HeldLive DEF s
<1>7. Tallied(m, c, 0) /\ \A x \in Var \ {c} : Tallied(m, x, Owed(x))
  BY <1>0, <1>5, <1>6
<1>. QED
  BY <1>4, <1>7 DEF l, s

\* enter: a cell without a substitution is left as it is; else its port comes
\* into the thread's hand, and the cell is to be deleted.
LEMMA EnterBalanced ==
  ASSUME LinkInv, NEW t \in Thread, EnterExchange(t)
  PROVE  /\ Balanced'
         /\ \/ Becomes(Held)
            \/ \E c \in Substituted : /\ Held[<<"B", t, 0>>] = c
                                     /\ Becomes(Followed(c, <<"B", t, 0>>))
<1>c. PICK c : c = B[t]
  OBVIOUS
<1>. DEFINE a == <<"A", t, 0>>
            b == <<"B", t, 0>>
            l == <<"cell", c, 0>>
            s == <<"self", c, 0>>
<1>0. /\ pc[t] = "enter" /\ c \in Var /\ Step(t) /\ todo' = todo /\ A' = A
      /\ vars_buf' = [vars_buf EXCEPT ![c] = NONE]
      /\ DOMAIN pc = Thread /\ DOMAIN B = Thread /\ DOMAIN loc = Thread
      /\ vars_buf \in [Var -> Port \cup {FREE, NONE}] /\ vars_buf[c] \in Port \cup {FREE, NONE}
      /\ NONE # FREE /\ NONE \notin Port
      /\ \A u \in Thread \ {t} : pc'[u] = pc[u] /\ loc'[u] = loc[u]
  BY <1>c, LinkerAssumption, OtherKept DEF LinkInv, LinkTypes, EnterExchange, Step
<1>1. vars_buf[c] # FREE /\ c \notin Deleting
  BY <1>0, <1>c, HandsLive DEF Linking
<1>2. a \in Place /\ b \in Place /\ l \in Place /\ s \in Place
  BY <1>0, PlaceKinds, Zenon
<1>3. Deleting = Others(t)
  BY <1>0, DeletingNow DEF Taking
<1>4. Held[b] = c
  BY <1>0, <1>c, HeldHands DEF Linking
<1>5. CASE vars_buf[c] = NONE
  <2>1. vars_buf' = vars_buf /\ pc'[t] = "point" /\ B' = B /\ loc' = loc
    BY <1>0, <1>c, <1>5 DEF EnterExchange, Goto
  <2>2. Deleting' = Deleting
    BY <1>0, <1>3, <2>1, DeletingNext, ZenonT(90) DEF Taking
  <2>3. Substituted' = Substituted /\ \A x : Owed(x)' = Owed(x)
    BY <2>1, <2>2, SameOwed
  <2>4. \A p \in Place \ {a, b, l, s} : Held'[p] = Held[p]
    BY <1>0, <2>1, <2>3, OtherPlaces
  <2>5. Held'[a] = Held[a] /\ Held'[b] = Held[b]
    BY <1>0, <2>1, KeptHands DEF Linking
  <2>6. Held'[l] = Held[l] /\ Held'[s] = Held[s]
    BY <1>0, <2>1, <2>3, KeptCell
  <2>7. \A p \in Place : Held[p] = Held'[p]
    BY <2>4, <2>5, <2>6
  <2>8. \A x \in Var : Tallied(Held, x, Owed(x)')
    BY <2>3, BalancedTallies
  <2>. QED
    BY <2>7, <2>8, Rebalanced DEF Becomes
<1>6. CASE vars_buf[c] # NONE
  <2>1. /\ vars_buf[c] \in Port /\ pc'[t] = "take_b" /\ B'[t] = vars_buf[c]
        /\ loc'[t] = c
    BY <1>0, <1>c, <1>1, <1>6 DEF EnterExchange, Goto
  <2>2. Deleting' = Others(t) \cup {c}
    BY <1>0, <2>1, DeletingNext DEF Taking
  <2>3. c \in Substituted
    BY <1>0, <1>1, <2>1 DEF Substituted
  <2>4. Deleting' \ {c} = Deleting \ {c}
    BY <1>3, <2>2
  <2>5. /\ vars_buf'[c] = NONE
        /\ \A x \in Var \ {c} : /\ x \in Substituted' <=> x \in Substituted
                               /\ vars_buf'[x] = vars_buf[x] /\ Owed(x)' = Owed(x)
    BY <1>0, <2>4, OtherCells
  <2>6. c \notin Substituted' /\ Owed(c)' = 0
    BY <2>2 DEF Substituted, Owed
  <2>7. \A p \in Place \ {a, b, l, s} : Held'[p] = Held[p]
    BY <1>0, <2>5, OtherPlaces
  <2>8. PICK m : m = Followed(c, b)
    OBVIOUS
  <2>9. /\ Tallied(m, c, 0) /\ \A x \in Var \ {c} : Tallied(m, x, Owed(x))
        /\ m[b] = vars_buf[c] /\ m[l] = NONE /\ m[s] = NONE
        /\ \A p \in Place \ {b, l, s} : m[p] = Held[p]
    <3>1. b # l /\ b # s
      OBVIOUS
    <3>. QED
      BY <1>2, <1>4, <2>3, <2>8, <3>1, FollowTallies
  <2>10. Held'[b] = vars_buf[c] /\ Held'[a] = Held[a]
    BY <1>0, <2>1, HeldHands DEF Linking
  <2>11. Held'[l] = NONE /\ Held'[s] = NONE
    BY <1>0, <2>6, HeldCells
  <2>12. \A p \in Place : m[p] = Held'[p]
    <3>1. a # b /\ a # l /\ a # s
      OBVIOUS
    <3>. HIDE DEF a, b, l, s
    <3>. QED
      BY <1>2, <2>7, <2>9, <2>10, <2>11, <3>1
  <2>13. \A x \in Var : Tallied(m, x, Owed(x)')
    BY <2>5, <2>6, <2>9
  <2>14. Becomes(Followed(c, b))
    BY <2>8, <2>12 DEF Becomes
  <2>. QED
    BY <1>4, <2>3, <2>12, <2>13, <2>14, Rebalanced
<1>. QED
  BY <1>5, <1>6

\* The cell a thread has emptied is free: nobody held it, nobody does.
LEMMA TakeBalanced ==
  ASSUME LinkInv, NEW t \in Thread, EnterTake(t) \/ PointTake(t)
  PROVE  Balanced' /\ Becomes(Held)
<1>c. PICK c : c = loc[t]
  OBVIOUS
<1>. DEFINE a == <<"A", t, 0>>
            b == <<"B", t, 0>>
            l == <<"cell", c, 0>>
            s == <<"self", c, 0>>
<1>0. /\ pc[t] \in Taking /\ pc'[t] \in Linking \ Taking /\ c \in Var /\ Step(t)
      /\ todo' = todo /\ A' = A /\ B' = B
      /\ vars_buf' = [vars_buf EXCEPT ![c] = FREE] /\ FREE \notin Port
      /\ \A u \in Thread \ {t} : pc'[u] = pc[u] /\ loc'[u] = loc[u]
  BY <1>c, LinkerAssumption, OtherKept
     DEF LinkInv, LinkTypes, LocalInv, EnterTake, PointTake, Step, Goto, Taking, Linking
<1>1. Deleting = Others(t) \cup {c} /\ c \notin Others(t) /\ Deleting' = Others(t)
  BY <1>0, <1>c, DeletingNow, DeletingNext
<1>2. Deleting' \ {c} = Deleting \ {c}
  BY <1>1
<1>3. /\ vars_buf'[c] = FREE
      /\ \A x \in Var \ {c} : /\ x \in Substituted' <=> x \in Substituted
                             /\ vars_buf'[x] = vars_buf[x] /\ Owed(x)' = Owed(x)
  BY <1>0, <1>2, OtherCells
<1>4. c \notin Substituted /\ c \notin Substituted' /\ Owed(c) = 0 /\ Owed(c)' = 0
  BY <1>0, <1>1, <1>3 DEF Substituted, Owed
<1>5. \A p \in Place \ {a, b, l, s} : Held'[p] = Held[p]
  BY <1>0, <1>3, OtherPlaces
<1>6. Held'[a] = Held[a] /\ Held'[b] = Held[b]
  BY <1>0, KeptHands DEF Linking, Taking
<1>7. Held'[l] = Held[l] /\ Held'[s] = Held[s]
  BY <1>0, <1>4, HeldCells
<1>8. \A p \in Place : Held[p] = Held'[p]
  BY <1>5, <1>6, <1>7
<1>9. \A x \in Var : Tallied(Held, x, Owed(x)')
  <2>1. \A x \in Var : Owed(x)' = Owed(x)
    BY <1>3, <1>4
  <2>. QED
    BY <2>1, BalancedTallies
<1>. QED
  BY <1>8, <1>9, Rebalanced DEF Becomes

\* Pointing A's variable at B: two occurrences pass from the hands to the cell
\* of a variable that had no substitution; else that substitution's port comes
\* into the hand that held the variable, and B keeps what the cell is given.
Stored(t, c) ==
  /\ c \in Var /\ Held[<<"A", t, 0>>] = c
  /\ Held[<<"cell", c, 0>>] = NONE /\ Held[<<"self", c, 0>>] = NONE
  /\ Becomes(Swap(Swap(Held, <<"A", t, 0>>, <<"self", c, 0>>),
                  <<"B", t, 0>>, <<"cell", c, 0>>))

LEMMA PointBalanced ==
  ASSUME LinkInv, NEW t \in Thread, PointExchange(t)
  PROVE  /\ Balanced'
         /\ \/ \E c : Stored(t, c)
            \/ \E c \in Substituted : /\ Held[<<"A", t, 0>>] = c
                                     /\ Becomes(Followed(c, <<"A", t, 0>>))
<1>c. PICK c : c = A[t]
  OBVIOUS
<1>. DEFINE a == <<"A", t, 0>>
            b == <<"B", t, 0>>
            l == <<"cell", c, 0>>
            s == <<"self", c, 0>>
<1>0. /\ pc[t] \in {"enter", "point"} /\ c \in Var /\ Step(t) /\ todo' = todo /\ B' = B
      /\ vars_buf' = [vars_buf EXCEPT ![c] = B[t]] /\ B[t] \in Port
      /\ DOMAIN pc = Thread /\ DOMAIN A = Thread /\ DOMAIN loc = Thread
      /\ vars_buf[c] \in Port \cup {FREE, NONE}
      /\ NONE # FREE /\ NONE \notin Port /\ FREE \notin Port
      /\ \A u \in Thread \ {t} : pc'[u] = pc[u] /\ loc'[u] = loc[u]
  BY <1>c, LinkerAssumption, OtherKept
     DEF LinkInv, LinkTypes, LocalInv, PointExchange, Step, Linking
<1>1. vars_buf[c] # FREE /\ c \notin Deleting
  BY <1>0, <1>c, HandsLive DEF Linking
<1>2. a \in Place /\ b \in Place /\ l \in Place /\ s \in Place
  BY <1>0, PlaceKinds, Zenon
<1>3. Deleting = Others(t)
  BY <1>0, DeletingNow DEF Taking
<1>4. Held[a] = c /\ Held[b] = B[t]
  BY <1>0, <1>c, HeldHands DEF Linking
<1>5. a # b /\ a # l /\ a # s /\ b # l /\ b # s /\ l # s
  OBVIOUS
<1>6. CASE vars_buf[c] = NONE
  <2>1. pc'[t] = "idle" /\ A' = A /\ loc' = loc
    BY <1>0, <1>c, <1>6 DEF PointExchange, Goto
  <2>2. Deleting' = Deleting
    BY <1>0, <1>3, <2>1, DeletingNext DEF Taking
  <2>3. /\ vars_buf'[c] = B[t]
        /\ \A x \in Var \ {c} : /\ x \in Substituted' <=> x \in Substituted
                               /\ vars_buf'[x] = vars_buf[x] /\ Owed(x)' = Owed(x)
    BY <1>0, <2>2, OtherCells
  <2>4. c \notin Substituted /\ c \in Substituted' /\ Owed(c)' = Owed(c)
    BY <1>0, <1>1, <1>6, <2>2, <2>3 DEF Substituted, Owed
  <2>5. \A p \in Place \ {a, b, l, s} : Held'[p] = Held[p]
    BY <1>0, <2>3, OtherPlaces
  <2>6. Held[l] = NONE /\ Held[s] = NONE /\ Held'[l] = B[t] /\ Held'[s] = c
    BY <1>0, <2>3, <2>4, HeldCells
  <2>7. Held'[a] = NONE /\ Held'[b] = NONE
    BY <2>1, HeldHands DEF Linking
  <2>8. PICK m1 : m1 = Swap(Held, a, s)
    OBVIOUS
  <2>9. PICK m2 : m2 = Swap(m1, b, l)
    OBVIOUS
  <2>. HIDE DEF a, b, l, s
  <2>10. /\ m1[a] = NONE /\ m1[s] = c /\ m1[b] = B[t] /\ m1[l] = NONE
         /\ \A p \in Place \ {a, b, l, s} : m1[p] = Held[p]
    BY <1>2, <1>4, <1>5, <2>6, <2>8 DEF Swap
  <2>11. /\ m2[a] = NONE /\ m2[s] = c /\ m2[b] = NONE /\ m2[l] = B[t]
         /\ \A p \in Place \ {a, b, l, s} : m2[p] = Held[p]
    BY <1>2, <1>5, <2>9, <2>10 DEF Swap
  <2>12. \A p \in Place : m2[p] = Held'[p]
    BY <2>5, <2>6, <2>7, <2>11
  <2>13. ASSUME NEW x \in Var PROVE Tallied(m2, x, Owed(x)')
    <3>1. Owed(x)' = Owed(x) /\ Tallied(Held, x, Owed(x))
      BY <2>3, <2>4, BalancedTallies
    <3>2. Tallied(m1, x, Owed(x))
      BY <1>2, <2>8, <3>1, SwapTally
    <3>. QED
      BY <1>2, <2>9, <3>1, <3>2, SwapTally
  <2>14. Stored(t, c)
    BY <1>0, <1>4, <2>6, <2>8, <2>9, <2>12 DEF Stored, Becomes, a, b, l, s
  <2>. QED
    BY <2>12, <2>13, <2>14, Rebalanced
<1>7. CASE vars_buf[c] # NONE
  <2>1. /\ vars_buf[c] \in Port /\ pc'[t] = "take_a" /\ A'[t] = vars_buf[c]
        /\ loc'[t] = c
    BY <1>0, <1>c, <1>1, <1>7 DEF PointExchange, Goto
  <2>2. Deleting' = Others(t) \cup {c}
    BY <1>0, <2>1, DeletingNext DEF Taking
  <2>3. c \in Substituted
    BY <1>0, <1>1, <2>1 DEF Substituted
  <2>4. Deleting' \ {c} = Deleting \ {c}
    BY <1>3, <2>2
  <2>5. \A x \in Var \ {c} : /\ x \in Substituted' <=> x \in Substituted
                            /\ vars_buf'[x] = vars_buf[x] /\ Owed(x)' = Owed(x)
    BY <1>0, <2>4, OtherCells
  <2>6. c \notin Substituted' /\ Owed(c)' = 0
    BY <2>2 DEF Substituted, Owed
  <2>7. \A p \in Place \ {a, b, l, s} : Held'[p] = Held[p]
    BY <1>0, <2>5, OtherPlaces
  <2>8. PICK m : m = Followed(c, a)
    OBVIOUS
  <2>9. /\ Tallied(m, c, 0) /\ \A x \in Var \ {c} : Tallied(m, x, Owed(x))
        /\ m[a] = vars_buf[c] /\ m[l] = NONE /\ m[s] = NONE
        /\ \A p \in Place \ {a, l, s} : m[p] = Held[p]
    BY <1>2, <1>4, <1>5, <2>3, <2>8, FollowTallies
  <2>10. Held'[a] = vars_buf[c] /\ Held'[b] = Held[b]
    BY <1>0, <2>1, HeldHands DEF Linking
  <2>11. Held'[l] = NONE /\ Held'[s] = NONE
    BY <1>0, <2>6, HeldCells
  <2>12. \A p \in Place : m[p] = Held'[p]
    <3>. HIDE DEF a, b, l, s
    <3>. QED
      BY <1>2, <1>5, <2>7, <2>9, <2>10, <2>11
  <2>13. \A x \in Var : Tallied(m, x, Owed(x)')
    BY <2>5, <2>6, <2>9
  <2>14. Becomes(Followed(c, a))
    BY <2>8, <2>12 DEF Becomes
  <2>. QED
    BY <1>4, <2>3, <2>12, <2>13, <2>14, Rebalanced
<1>. QED
  BY <1>6, <1>7

\* Finding a cell changes what no place holds.
LEMMA AllocBalanced ==
  ASSUME LinkInv, NEW t \in Thread, AllocFind(t)
  PROVE  Balanced' /\ Becomes(Held)
<1>0. /\ pc[t] = "idle" /\ pc'[t] = "create" /\ vars_buf' = vars_buf /\ todo' = todo
      /\ Step(t) /\ \A u \in Thread \ {t} : pc'[u] = pc[u] /\ loc'[u] = loc[u]
  BY OtherKept DEF LinkInv, LinkTypes, AllocFind, Goto, Step
<1>1. Deleting' = Deleting
  BY <1>0, DeletingNow, DeletingNext DEF Taking
<1>2. Substituted' = Substituted /\ \A x : Owed(x)' = Owed(x)
  BY <1>0, <1>1, SameOwed
<1>3. \A p \in Place \ {<<"A", t, 0>>, <<"B", t, 0>>} : Held'[p] = Held[p]
  <2>1. \A p \in Place \ {<<"A", t, 0>>, <<"B", t, 0>>, <<"cell", NONE, 0>>,
                         <<"self", NONE, 0>>} : Held'[p] = Held[p]
    BY <1>0, <1>2, OtherPlaces
  <2>2. <<"cell", NONE, 0>> \notin Place /\ <<"self", NONE, 0>> \notin Place
    BY LinkerAssumption DEF Place, Port
  <2>. QED
    BY <2>1, <2>2
<1>4. /\ Held'[<<"A", t, 0>>] = Held[<<"A", t, 0>>]
      /\ Held'[<<"B", t, 0>>] = Held[<<"B", t, 0>>]
  BY <1>0, KeptHands DEF Linking
<1>5. \A p \in Place : Held[p] = Held'[p]
  BY <1>3, <1>4
<1>6. \A x \in Var : Tallied(Held, x, Owed(x)')
  BY <1>2, BalancedTallies
<1>. QED
  BY <1>5, <1>6, Rebalanced DEF Becomes

\* The cell a thread creates was nobody's: its variable gets the two occurrences
\* that stand in the middle of the wire.
Created(t, j, c) ==
  /\ c \in Var \ Root /\ \A p \in Place : Held[p] # c
  /\ Held[<<"first", t, j + 1>>] = NONE /\ Held[<<"second", t, j + 1>>] = NONE
  /\ Held[<<"first", t, j>>] \in Port /\ Held[<<"second", t, j>>] \in Port
  /\ Becomes(Put(Put(Swap(Held, <<"first", t, j>>, <<"first", t, j + 1>>),
                     <<"first", t, j>>, c),
                 <<"second", t, j + 1>>, c))

LEMMA CreateBalanced ==
  ASSUME LinkInv, NEW t \in Thread, Create(t)
  PROVE  Balanced' /\ \E j \in Nat : \E c : Created(t, j, c)
<1>c. PICK c, q, n : c = loc[t] /\ q = todo[t] /\ n = Len(todo[t])
  OBVIOUS
<1>. DEFINE f == <<"first", t, n - 1>>
            g == <<"first", t, n>>
            h == <<"second", t, n>>
<1>0. /\ pc[t] = "create" /\ pc'[t] = "idle" /\ Step(t)
      /\ c \in Partition[t] /\ c \in Var /\ vars_buf[c] = FREE
      /\ q \in Seq(Port \X Port) /\ q # <<>> /\ todo \in [Thread -> Links]
      /\ vars_buf' = [vars_buf EXCEPT ![c] = NONE]
      /\ FREE # NONE /\ FREE \notin Port /\ NONE \notin Port
      /\ \A u \in Thread \ {t} : /\ pc'[u] = pc[u] /\ loc'[u] = loc[u]
                                 /\ A'[u] = A[u] /\ B'[u] = B[u] /\ todo'[u] = todo[u]
  BY <1>c, LinkerAssumption, OtherKept, ZenonT(90)
     DEF LinkInv, LinkTypes, LocalInv, Links, Create, Goto, Step
<1>1. c \notin Root
  BY <1>0, WiringAssumption
<1>2. /\ n \in Nat \ {0} /\ Len(todo'[t]) = n + 1
      /\ todo'[t][1] = <<q[1][1], c>> /\ todo'[t][2] = <<c, q[1][2]>>
      /\ \A i \in 3 .. n + 1 : todo'[t][i] = q[i - 1]
  <2>1. todo'[t] = << <<Head(q)[1], c>>, <<c, Head(q)[2]>> >> \o Tail(q)
    BY <1>0, <1>c DEF Create
  <2>2. n = Len(q)
    BY <1>c
  <2>3. /\ n \in Nat \ {0} /\ Tail(q) \in Seq(Port \X Port) /\ Len(Tail(q)) = n - 1
        /\ Head(q) = q[1] /\ \A i \in 1 .. n - 1 : Tail(q)[i] = q[i + 1]
    BY <1>0, <2>2
  <2>4. PICK two, rest : /\ two = << <<q[1][1], c>>, <<c, q[1][2]>> >>
                         /\ rest = Tail(q)
    OBVIOUS
  <2>5. /\ two \in Seq(Port \X Port) /\ Len(two) = 2
        /\ two[1] = <<q[1][1], c>> /\ two[2] = <<c, q[1][2]>>
    <3>1. q[1] \in Port \X Port
      BY <1>0, <2>2, <2>3
    <3>. QED
      BY <1>0, <2>4, <3>1 DEF Port
  <2>6. /\ Len(two \o rest) = n + 1
        /\ \A i \in 1 .. n + 1 : (two \o rest)[i] = IF i <= 2 THEN two[i] ELSE rest[i - 2]
    BY <2>3, <2>4, <2>5, ConcatProperties
  <2>7. \A i \in 3 .. n + 1 : rest[i - 2] = q[i - 1]
    <3>1. \A i \in 3 .. n + 1 : i - 2 \in 1 .. n - 1 /\ (i - 2) + 1 = i - 1
      BY <2>3
    <3>. QED
      BY <2>3, <2>4, <3>1
  <2>8. todo'[t] = two \o rest
    BY <2>1, <2>3, <2>4
  <2>. QED
    BY <2>3, <2>5, <2>6, <2>7, <2>8
<1>3. f \in Place /\ g \in Place /\ h \in Place
  <2>1. n \in Nat /\ n - 1 \in Nat
    BY <1>2
  <2>. QED
    BY <2>1, PlaceKinds, Zenon
<1>4. ASSUME NEW j \in Nat
      PROVE  /\ Held[<<"first", t, j>>] = IF j < n THEN q[n - j][1] ELSE NONE
             /\ Held[<<"second", t, j>>] = IF j < n THEN q[n - j][2] ELSE NONE
             /\ Held'[<<"first", t, j>>] =
                  IF j < n + 1 THEN todo'[t][n + 1 - j][1] ELSE NONE
             /\ Held'[<<"second", t, j>>] =
                  IF j < n + 1 THEN todo'[t][n + 1 - j][2] ELSE NONE
  <2>1. /\ Held[<<"first", t, j>>] =
             IF j < Len(todo[t]) THEN todo[t][Len(todo[t]) - j][1] ELSE NONE
        /\ Held[<<"second", t, j>>] =
             IF j < Len(todo[t]) THEN todo[t][Len(todo[t]) - j][2] ELSE NONE
        /\ Held'[<<"first", t, j>>] =
             IF j < Len(todo'[t]) THEN todo'[t][Len(todo'[t]) - j][1] ELSE NONE
        /\ Held'[<<"second", t, j>>] =
             IF j < Len(todo'[t]) THEN todo'[t][Len(todo'[t]) - j][2] ELSE NONE
    BY HeldPairs, Zenon
  <2>. QED
    BY <1>c, <1>2, <2>1
<1>5. /\ Held'[f] = c /\ Held'[g] = Held[f] /\ Held[g] = NONE
      /\ Held'[h] = c /\ Held[h] = NONE
      /\ Held'[<<"second", t, n - 1>>] = Held[<<"second", t, n - 1>>]
  <2>1. /\ n - 1 \in Nat /\ n \in Nat /\ n - 1 < n /\ ~(n < n) /\ n < n + 1
        /\ n - 1 < n + 1 /\ n - (n - 1) = 1 /\ n + 1 - (n - 1) = 2 /\ n + 1 - n = 1
    BY <1>2
  <2>2. /\ todo'[t][1][1] = q[1][1] /\ todo'[t][1][2] = c
        /\ todo'[t][2][1] = c /\ todo'[t][2][2] = q[1][2]
    BY <1>2
  <2>3. /\ Held[<<"first", t, n>>] = IF n < n THEN q[n - n][1] ELSE NONE
        /\ Held[<<"second", t, n>>] = IF n < n THEN q[n - n][2] ELSE NONE
        /\ Held'[<<"first", t, n>>] = IF n < n + 1 THEN todo'[t][n + 1 - n][1] ELSE NONE
        /\ Held'[<<"second", t, n>>] = IF n < n + 1 THEN todo'[t][n + 1 - n][2] ELSE NONE
    BY <1>4, <2>1, Zenon
  <2>4. /\ Held[<<"first", t, n - 1>>] =
             IF n - 1 < n THEN q[n - (n - 1)][1] ELSE NONE
        /\ Held[<<"second", t, n - 1>>] =
             IF n - 1 < n THEN q[n - (n - 1)][2] ELSE NONE
        /\ Held'[<<"first", t, n - 1>>] =
             IF n - 1 < n + 1 THEN todo'[t][n + 1 - (n - 1)][1] ELSE NONE
        /\ Held'[<<"second", t, n - 1>>] =
             IF n - 1 < n + 1 THEN todo'[t][n + 1 - (n - 1)][2] ELSE NONE
    BY <1>4, <2>1, Zenon
  <2>. QED
    BY <2>1, <2>2, <2>3, <2>4, Zenon
<1>6. ASSUME NEW j \in Nat, j # n, j # n - 1
      PROVE  /\ Held'[<<"first", t, j>>] = Held[<<"first", t, j>>]
             /\ Held'[<<"second", t, j>>] = Held[<<"second", t, j>>]
  <2>1. CASE j < n
    <3>1. j < n + 1 /\ n + 1 - j \in 3 .. n + 1 /\ (n + 1 - j) - 1 = n - j
      BY <1>2, <1>6, <2>1
    <3>2. todo'[t][n + 1 - j] = q[n - j]
      <4>1. todo'[t][n + 1 - j] = q[(n + 1 - j) - 1]
        BY <1>2, <3>1, Zenon
      <4>. QED
        BY <3>1, <4>1, Zenon
    <3>. QED
      BY <1>4, <2>1, <3>1, <3>2, Zenon
  <2>2. CASE ~(j < n)
    <3>1. ~(j < n + 1)
      BY <1>2, <1>6, <2>2
    <3>. QED
      BY <1>4, <2>2, <3>1, Zenon
  <2>. QED
    BY <2>1, <2>2
<1>7. /\ Deleting = Others(t) /\ Deleting' = Others(t) /\ c \notin Others(t)
  BY <1>0, DeletingNow, DeletingNext, OthersHeld, ZenonT(90) DEF Taking
<1>8. /\ vars_buf'[c] = NONE
      /\ \A x \in Var \ {c} : /\ x \in Substituted' <=> x \in Substituted
                             /\ vars_buf'[x] = vars_buf[x] /\ Owed(x)' = Owed(x)
  BY <1>0, <1>7, OtherCells
<1>9. /\ c \notin Substituted /\ c \notin Substituted'
      /\ Owed(c) = 0 /\ Owed(c)' = 2
  BY <1>0, <1>1, <1>7, <1>8 DEF Substituted, Owed
<1>10. PICK m1 : m1 = Swap(Held, f, g)
  OBVIOUS
<1>11. PICK m2 : m2 = Put(m1, f, c)
  OBVIOUS
<1>12. PICK m : m = Put(m2, h, c)
  OBVIOUS
<1>13. f # g /\ f # h /\ g # h
  BY <1>2
<1>14. /\ m1[f] = NONE /\ m2[h] = NONE
       /\ m[f] = c /\ m[g] = Held[f] /\ m[h] = c
       /\ \A p \in Place \ {f, g, h} : m[p] = Held[p]
  <2>. HIDE DEF f, g, h
  <2>1. /\ m1[f] = NONE /\ m1[g] = Held[f] /\ m1[h] = NONE
        /\ \A p \in Place \ {f, g, h} : m1[p] = Held[p]
    BY <1>3, <1>5, <1>10, <1>13 DEF Swap
  <2>2. /\ m2[f] = c /\ m2[g] = Held[f] /\ m2[h] = NONE
        /\ \A p \in Place \ {f, g, h} : m2[p] = Held[p]
    BY <1>3, <1>11, <1>13, <2>1 DEF Put
  <2>. QED
    BY <1>3, <1>12, <1>13, <2>1, <2>2 DEF Put
<1>15. \A p \in Place : m[p] = Held'[p]
  <2>1. ASSUME NEW u \in Thread, NEW j \in Nat
        PROVE  /\ m[<<"first", u, j>>] = Held'[<<"first", u, j>>]
               /\ m[<<"second", u, j>>] = Held'[<<"second", u, j>>]
    <3>1. <<"first", u, j>> \in Place /\ <<"second", u, j>> \in Place
      BY PlaceKinds, Zenon
    <3>2. CASE u = t /\ j = n
      BY <1>5, <1>14, <3>2
    <3>3. CASE u = t /\ j = n - 1
      <4>1. <<"second", u, j>> \notin {f, g, h}
        BY <1>2, <3>3
      <4>. QED
        BY <1>5, <1>14, <3>1, <3>3, <4>1
    <3>4. CASE u = t /\ j # n /\ j # n - 1
      <4>1. <<"first", u, j>> \notin {f, g, h} /\ <<"second", u, j>> \notin {f, g, h}
        BY <3>4
      <4>. QED
        BY <1>6, <1>14, <3>1, <3>4, <4>1
    <3>5. CASE u # t
      <4>1. <<"first", u, j>> \notin {f, g, h} /\ <<"second", u, j>> \notin {f, g, h}
        BY <3>5
      <4>2. /\ m[<<"first", u, j>>] = Held[<<"first", u, j>>]
            /\ m[<<"second", u, j>>] = Held[<<"second", u, j>>]
        BY <1>14, <3>1, <4>1
      <4>. QED
        BY <1>0, <3>5, <4>2, KeptPairs
    <3>. QED
      BY <3>2, <3>3, <3>4, <3>5
  <2>2. ASSUME NEW u \in Thread
        PROVE  /\ m[<<"A", u, 0>>] = Held'[<<"A", u, 0>>]
               /\ m[<<"B", u, 0>>] = Held'[<<"B", u, 0>>]
    <3>1. /\ <<"A", u, 0>> \in Place \ {f, g, h} /\ <<"B", u, 0>> \in Place \ {f, g, h}
      BY PlaceKinds
    <3>2. m[<<"A", u, 0>>] = Held[<<"A", u, 0>>] /\ m[<<"B", u, 0>>] = Held[<<"B", u, 0>>]
      BY <1>14, <3>1
    <3>3. /\ pc'[u] \in Linking <=> pc[u] \in Linking
          /\ pc[u] \in Linking => A'[u] = A[u] /\ B'[u] = B[u]
      BY <1>0 DEF Linking
    <3>. QED
      BY <3>2, <3>3, KeptHands
  <2>3. ASSUME NEW x \in Var
        PROVE  /\ m[<<"cell", x, 0>>] = Held'[<<"cell", x, 0>>]
               /\ m[<<"self", x, 0>>] = Held'[<<"self", x, 0>>]
    <3>1. /\ <<"cell", x, 0>> \in Place \ {f, g, h} /\ <<"self", x, 0>> \in Place \ {f, g, h}
      BY PlaceKinds
    <3>2. /\ m[<<"cell", x, 0>>] = Held[<<"cell", x, 0>>]
          /\ m[<<"self", x, 0>>] = Held[<<"self", x, 0>>]
      BY <1>14, <3>1
    <3>3. /\ x \in Substituted' <=> x \in Substituted
          /\ x \in Substituted => vars_buf'[x] = vars_buf[x]
      BY <1>8, <1>9
    <3>. QED
      BY <3>2, <3>3, KeptCell
  <2>. QED
    BY <2>1, <2>2, <2>3, SamePlaces
<1>16. ASSUME NEW x \in Var PROVE Tallied(m, x, Owed(x)')
  <2>. HIDE DEF f, g, h
  <2>1. Tallied(Held, x, Owed(x)) /\ x # NONE
    BY BalancedTallies
  <2>2. Tallied(m1, x, Owed(x))
    BY <1>3, <1>10, <2>1, SwapTally
  <2>3. Tallied(m2, x, IF x = c THEN Owed(x) + 1 ELSE Owed(x))
    BY <1>3, <1>11, <1>14, <2>1, <2>2, PutTally
  <2>4. CASE x = c
    <3>1. Tallied(m2, x, 1)
      BY <1>9, <2>3, <2>4
    <3>2. Tallied(m, x, IF x = c THEN 1 + 1 ELSE 1)
      BY <1>3, <1>12, <1>14, <2>1, <3>1, PutTally
    <3>. QED
      BY <1>9, <2>4, <3>2
  <2>5. CASE x # c
    <3>1. Tallied(m2, x, Owed(x))
      BY <2>3, <2>5
    <3>2. Tallied(m, x, IF x = c THEN Owed(x) + 1 ELSE Owed(x))
      BY <1>3, <1>12, <1>14, <2>1, <3>1, PutTally
    <3>. QED
      BY <1>8, <2>5, <3>2
  <2>. QED
    BY <2>4, <2>5
<1>17. PICK j : j = n - 1 /\ j \in Nat /\ j + 1 = n
  BY <1>2
<1>18. Created(t, j, c)
  <2>1. \A p \in Place : Held[p] # c
    BY <1>0, HeldLive
  <2>2. /\ Held[<<"first", t, j>>] = q[1][1] /\ Held[<<"second", t, j>>] = q[1][2]
    BY <1>2, <1>4, <1>17
  <2>3. q[1] \in Port \X Port
    BY <1>0, <1>2, <1>c
  <2>4. Held[g] = NONE /\ Held[h] = NONE
    BY <1>5
  <2>5. q[1][1] \in Port /\ q[1][2] \in Port
    BY <2>3
  <2>6. \A p \in Place : Put(Put(Swap(Held, f, g), f, c), h, c)[p] = Held'[p]
    BY <1>10, <1>11, <1>12, <1>15, Zenon
  <2>. QED
    BY <1>0, <1>1, <1>17, <2>1, <2>2, <2>4, <2>5, <2>6 DEF Created, Becomes
<1>. QED
  BY <1>15, <1>16, <1>17, <1>18, Rebalanced

-----------------------------------------------------------------------------
(* The initial states, and every step.                                     *)

LEMMA SameCount ==
  ASSUME NEW S, NEW T, NEW f \in [S -> T], IsFiniteSet(S),
         \A u, v \in S : f[u] = f[v] => u = v,
         \A v \in T : \E u \in S : f[u] = v
  PROVE  IsFiniteSet(T) /\ Cardinality(T) = Cardinality(S)
<1>1. f \in Bijection(S, T)
  BY Fun_IsBij, Zenon
<1>2. ExistsBijection(S, T)
  BY <1>1, Fun_ExistsBij, Zenon
<1>. QED
  BY <1>2, FS_Bijection, Zenon

\* The place of a use: a pair's port, counted from the last pair.
SpotOf(u) ==
  <<IF u[3] = 1 THEN "first" ELSE "second", u[1], Len(todo[u[1]]) - u[2]>>

\* At first every place that holds a port is that of a use.
LEMMA InitSpot ==
  ASSUME Init, NEW x \in Port, NEW p \in Place, Held[p] = x
  PROVE  \E u \in Uses(todo, x) : SpotOf(u) = p
<1>1. /\ todo \in [Thread -> Seq(Port \X Port)]
      /\ \A t \in Thread : pc[t] = "idle"
      /\ \A y \in Var : vars_buf[y] \in {NONE, FREE}
      /\ NONE \notin Port /\ FREE \notin Port /\ x # NONE
  BY LinkerAssumption DEF Init, Links
<1>2. Substituted = {}
  BY <1>1 DEF Substituted
<1>3. \A t \in Thread : \A i \in 1 .. Len(todo[t]), k \in {1, 2} :
        todo[t][i][k] = x => <<t, i, k>> \in Uses(todo, x)
  <2>. SUFFICES ASSUME NEW t \in Thread, NEW i \in 1 .. Len(todo[t]), NEW k \in {1, 2},
                       todo[t][i][k] = x
                PROVE  <<t, i, k>> \in Uses(todo, x)
    OBVIOUS
  <2>1. <<t, i, k>> \in {u \in {t} \X (DOMAIN todo[t]) \X {1, 2} : todo[t][u[2]][u[3]] = x}
    BY <1>1
  <2>. QED
    BY <2>1 DEF Uses
<1>4. ASSUME NEW t \in Thread, p \in {<<"A", t, 0>>, <<"B", t, 0>>} PROVE FALSE
  BY <1>1, <1>4, HeldHands DEF Linking
<1>5. ASSUME NEW y \in Var, p \in {<<"cell", y, 0>>, <<"self", y, 0>>} PROVE FALSE
  BY <1>1, <1>2, <1>5, HeldCells
<1>6. PICK t \in Thread, j \in Nat : p \in {<<"first", t, j>>, <<"second", t, j>>}
  BY <1>4, <1>5, PlaceKinds
<1>7. todo[t] \in Seq(Port \X Port)
  BY <1>1
<1>8. j < Len(todo[t])
  BY <1>1, <1>6, HeldPairs, ZenonT(90)
<1>9. PICK i \in 1 .. Len(todo[t]) : i = Len(todo[t]) - j /\ Len(todo[t]) - i = j
  <2>1. ASSUME NEW n \in Nat, j < n PROVE n - j \in 1 .. n /\ n - (n - j) = j
    BY <2>1
  <2>2. Len(todo[t]) \in Nat
    BY <1>7
  <2>. QED
    BY <1>8, <2>1, <2>2
<1>10. CASE p = <<"first", t, j>>
  <2>1. todo[t][i][1] = x
    BY <1>8, <1>9, <1>10, HeldPairs
  <2>2. SpotOf(<<t, i, 1>>) = p
    BY <1>9, <1>10 DEF SpotOf
  <2>. QED
    BY <1>3, <2>1, <2>2
<1>11. CASE p = <<"second", t, j>>
  <2>1. todo[t][i][2] = x
    BY <1>8, <1>9, <1>11, HeldPairs
  <2>2. SpotOf(<<t, i, 2>>) = p
    BY <1>9, <1>11 DEF SpotOf
  <2>. QED
    BY <1>3, <2>1, <2>2
<1>. QED
  BY <1>6, <1>10, <1>11

LEMMA InitTally ==
  ASSUME Init, NEW x \in Var
  PROVE  Tallied(Held, x, Owed(x))
<1>. DEFINE T == Tally(Held, x)
<1>0. /\ todo \in [Thread -> Seq(Port \X Port)] /\ todo \in Wirings
      /\ \A y \in Var : vars_buf[y] = IF y \in UsedBy(todo) THEN NONE ELSE FREE
      /\ \A t \in Thread : pc[t] = "idle"
      /\ FREE # NONE /\ NONE \notin Port /\ FREE \notin Port /\ x # NONE
  BY LinkerAssumption DEF Init, Links, Port
<1>1. Deleting = {} /\ Substituted = {}
  BY <1>0 DEF Deleting, Substituted
<1>2. Owed(x) = IF x \in UsedBy(todo) THEN (IF x \in Root THEN 1 ELSE 2) ELSE 0
  BY <1>0, <1>1 DEF Owed
<1>3. \A u \in Uses(todo, x) :
        \E t \in Thread : \E i \in 1 .. Len(todo[t]), k \in {1, 2} :
          u = <<t, i, k>> /\ todo[t][i][k] = x
  <2>. SUFFICES ASSUME NEW u \in Uses(todo, x)
                PROVE  \E t \in Thread : \E i \in 1 .. Len(todo[t]), k \in {1, 2} :
                         u = <<t, i, k>> /\ todo[t][i][k] = x
    OBVIOUS
  <2>1. PICK t \in Thread : /\ u \in {t} \X (DOMAIN todo[t]) \X {1, 2}
                            /\ todo[t][u[2]][u[3]] = x
    BY DEF Uses
  <2>2. DOMAIN todo[t] = 1 .. Len(todo[t])
    BY <1>0
  <2>3. PICK i \in DOMAIN todo[t], k \in {1, 2} : u = <<t, i, k>>
    BY <2>1
  <2>4. todo[t][i][k] = x
    BY <2>1, <2>3
  <2>5. i \in 1 .. Len(todo[t])
    BY <2>2
  <2>. QED
    BY <2>3, <2>4, <2>5, Zenon
<1>5. \A u \in Uses(todo, x) : SpotOf(u) \in T
  <2>. SUFFICES ASSUME NEW u \in Uses(todo, x) PROVE SpotOf(u) \in T
    OBVIOUS
  <2>1. PICK t \in Thread : \E i \in 1 .. Len(todo[t]), k \in {1, 2} :
          u = <<t, i, k>> /\ todo[t][i][k] = x
    BY <1>3
  <2>. PICK i \in 1 .. Len(todo[t]), k \in {1, 2} : u = <<t, i, k>> /\ todo[t][i][k] = x
    BY <2>1
  <2>2. PICK j \in Nat : /\ j = Len(todo[t]) - i /\ j < Len(todo[t])
                         /\ Len(todo[t]) - j = i
    <3>1. todo[t] \in Seq(Port \X Port)
      BY <1>0
    <3>. QED
      BY <3>1
  <2>3. /\ <<"first", t, j>> \in Place /\ <<"second", t, j>> \in Place
    BY PlaceKinds
  <2>4. /\ Held[<<"first", t, j>>] = todo[t][i][1]
        /\ Held[<<"second", t, j>>] = todo[t][i][2]
    BY <2>2, HeldPairs
  <2>5. SpotOf(u) = <<IF k = 1 THEN "first" ELSE "second", t, j>>
    BY <2>2 DEF SpotOf
  <2>. QED
    BY <2>3, <2>4, <2>5 DEF Tally
<1>6. \A u, v \in Uses(todo, x) : SpotOf(u) = SpotOf(v) => u = v
  <2>. SUFFICES ASSUME NEW u \in Uses(todo, x), NEW v \in Uses(todo, x),
                       SpotOf(u) = SpotOf(v)
                PROVE  u = v
    OBVIOUS
  <2>1. PICK t \in Thread : \E i \in 1 .. Len(todo[t]), k \in {1, 2} : u = <<t, i, k>>
    BY <1>3
  <2>2. PICK i \in 1 .. Len(todo[t]), k \in {1, 2} : u = <<t, i, k>>
    BY <2>1
  <2>3. PICK r \in Thread : \E e \in 1 .. Len(todo[r]), h \in {1, 2} : v = <<r, e, h>>
    BY <1>3
  <2>4. PICK e \in 1 .. Len(todo[r]), h \in {1, 2} : v = <<r, e, h>>
    BY <2>3
  <2>5. /\ t = r /\ Len(todo[t]) - i = Len(todo[r]) - e
        /\ k = 1 <=> h = 1
    BY <2>2, <2>4 DEF SpotOf
  <2>6. todo[t] \in Seq(Port \X Port)
    BY <1>0
  <2>7. i = e /\ k = h
    BY <2>5, <2>6
  <2>. QED
    BY <2>2, <2>4, <2>5, <2>7
<1>7. \A p \in T : \E u \in Uses(todo, x) : SpotOf(u) = p
  BY InitSpot DEF Tally, Port
<1>8. x \notin UsedBy(todo) => Uses(todo, x) = {}
  <2>. SUFFICES ASSUME NEW u \in Uses(todo, x) PROVE x \in UsedBy(todo)
    OBVIOUS
  <2>1. PICK t \in Thread : \E i \in 1 .. Len(todo[t]), k \in {1, 2} : todo[t][i][k] = x
    BY <1>3
  <2>. PICK i \in 1 .. Len(todo[t]), k \in {1, 2} : todo[t][i][k] = x
    BY <2>1
  <2>2. todo[t] \in Seq(Port \X Port)
    BY <1>0
  <2>3. i \in DOMAIN todo[t] /\ todo[t][i] \in Port \X Port
    BY <2>2
  <2>4. x \in Range(todo[t][i])
    BY <2>3 DEF Range
  <2>. QED
    BY <2>3, <2>4 DEF UsedBy
<1>9. IsFiniteSet(Uses(todo, x)) /\ Cardinality(Uses(todo, x)) = Owed(x)
  <2>1. CASE x \in UsedBy(todo)
    BY <1>0, <1>2, <2>1, WiringAssumption
  <2>2. CASE x \notin UsedBy(todo)
    BY <1>2, <1>8, <2>2, FS_EmptySet
  <2>. QED
    BY <2>1, <2>2
<1>. DEFINE f == [u \in Uses(todo, x) |-> SpotOf(u)]
<1>10. /\ f \in [Uses(todo, x) -> T]
       /\ \A u, v \in Uses(todo, x) : f[u] = f[v] => u = v
       /\ \A p \in T : \E u \in Uses(todo, x) : f[u] = p
  BY <1>5, <1>6, <1>7, Zenon
<1>. HIDE DEF f, T
<1>11. IsFiniteSet(T) /\ Cardinality(T) = Cardinality(Uses(todo, x))
  BY <1>9, <1>10, SameCount, Zenon
<1>. QED
  BY <1>9, <1>11 DEF Tallied, T

LEMMA InitLink == Init => LinkInv
<1>. SUFFICES ASSUME Init PROVE LinkInv
  OBVIOUS
<1>1. LinkTypes
  BY LinkerAssumption DEF Init, LinkTypes
<1>2. (\A t \in Thread : LocalInv(t)) /\ Apart
  BY DEF Init, LocalInv, Apart, Linking
<1>3. Balanced
  BY InitTally DEF Balanced
<1>. QED
  BY <1>1, <1>2, <1>3 DEF LinkInv

LEMMA NextLink == LinkInv /\ [Next]_vars => LinkInv'
<1>. SUFFICES ASSUME LinkInv, [Next]_vars PROVE LinkInv'
  OBVIOUS
<1>1. ASSUME NEW t \in Thread, Step(t) PROVE LinkInv'
  <2>1. LinkTypes'
    BY <1>1, TypeStep
  <2>2. ASSUME NEW u \in Thread PROVE LocalInv(u)'
    BY <1>1, OtherLocal, OwnLocal
  <2>3. Apart'
    BY <1>1, ApartStep
  <2>4. Balanced'
    BY <1>1, CallBalanced, OrientBalanced, PushBalanced, EnterBalanced, TakeBalanced,
       PointBalanced, AllocBalanced, CreateBalanced DEF Step
  <2>. QED
    BY <2>1, <2>2, <2>3, <2>4 DEF LinkInv
<1>2. CASE UNCHANGED vars
  <2>1. Deleting' = Deleting /\ Substituted' = Substituted
    BY <1>2 DEF vars, Deleting, Substituted
  <2>2. /\ \A t \in Thread, j \in Nat :
             /\ Held[<<"first", t, j>>] = Held'[<<"first", t, j>>]
             /\ Held[<<"second", t, j>>] = Held'[<<"second", t, j>>]
        /\ \A t \in Thread : /\ Held[<<"A", t, 0>>] = Held'[<<"A", t, 0>>]
                             /\ Held[<<"B", t, 0>>] = Held'[<<"B", t, 0>>]
        /\ \A x \in Var : /\ Held[<<"cell", x, 0>>] = Held'[<<"cell", x, 0>>]
                          /\ Held[<<"self", x, 0>>] = Held'[<<"self", x, 0>>]
    BY <1>2, <2>1, KeptPairs, KeptHands, KeptCell DEF vars
  <2>3. \A p \in Place : Held[p] = Held'[p]
    BY <2>2, SamePlaces
  <2>4. \A x \in Var : Tallied(Held, x, Owed(x)')
    BY <1>2, <2>1, SameOwed, BalancedTallies DEF vars
  <2>5. Balanced'
    BY <2>3, <2>4, Rebalanced
  <2>. QED
    BY <1>2, <2>5 DEF vars, LinkInv, LinkTypes, LocalInv, Apart
<1>. QED
  BY <1>1, <1>2 DEF Next

-----------------------------------------------------------------------------
(* The occurrences of a variable and the places that hold it.              *)

\* The occurrence in a place: the pair in a thread's hands comes after those
\* it still has to link.
OccurrenceAt(p) ==
  <<p[2],
    IF p[1] = "cell" THEN 0
    ELSE IF p[1] \in {"A", "B"} THEN Len(todo[p[2]]) + 1 ELSE Len(todo[p[2]]) - p[3],
    IF p[1] = "cell" THEN 0 ELSE IF p[1] \in {"first", "A"} THEN 1 ELSE 2,
    Held[p]>>

LEMMA HeldByPairs ==
  ASSUME LinkInv, NEW t \in Thread
  PROVE  /\ Len(todo[t]) \in Nat
         /\ DOMAIN HeldBy(t) =
              IF pc[t] \in Linking THEN 1 .. Len(todo[t]) + 1 ELSE 1 .. Len(todo[t])
         /\ \A i \in 1 .. Len(todo[t]) : HeldBy(t)[i] = todo[t][i]
         /\ pc[t] \in Linking => HeldBy(t)[Len(todo[t]) + 1] = <<A[t], B[t]>>
<1>1. PICK q, hands : /\ q = todo[t]
                      /\ hands = IF pc[t] \in Linking THEN << <<A[t], B[t]>> >> ELSE <<>>
  OBVIOUS
<1>2. q \in Seq(Port \X Port) /\ Len(q) \in Nat
  BY <1>1 DEF LinkInv, LinkTypes, Links
<1>3. HeldBy(t) = q \o hands
  BY <1>1 DEF HeldBy, Linking
<1>4. /\ hands \in Seq(Port \X Port)
      /\ pc[t] \in Linking => Len(hands) = 1 /\ hands[1] = <<A[t], B[t]>>
      /\ pc[t] \notin Linking => Len(hands) = 0
  BY <1>1 DEF LinkInv, LocalInv
<1>5. /\ q \o hands \in Seq(Port \X Port) /\ Len(q \o hands) = Len(q) + Len(hands)
      /\ \A i \in 1 .. Len(q) + Len(hands) :
           (q \o hands)[i] = IF i <= Len(q) THEN q[i] ELSE hands[i - Len(q)]
  BY <1>2, <1>4, ConcatProperties
<1>6. DOMAIN (q \o hands) = 1 .. Len(q) + Len(hands)
  BY <1>5
<1>7. \A i \in 1 .. Len(q) : (q \o hands)[i] = q[i]
  BY <1>2, <1>4, <1>5
<1>8. CASE pc[t] \in Linking
  <2>1. DOMAIN (q \o hands) = 1 .. Len(q) + 1
    BY <1>4, <1>6, <1>8
  <2>2. (q \o hands)[Len(q) + 1] = hands[1]
    <3>1. /\ Len(q) + 1 \in 1 .. Len(q) + Len(hands) /\ ~(Len(q) + 1 <= Len(q))
          /\ Len(q) + 1 - Len(q) = 1
      BY <1>2, <1>4, <1>8
    <3>2. PICK i : i = Len(q) + 1
      OBVIOUS
    <3>3. (q \o hands)[i] = hands[i - Len(q)]
      BY <1>5, <3>1, <3>2
    <3>. QED
      BY <3>1, <3>2, <3>3
  <2>. QED
    BY <1>1, <1>2, <1>3, <1>4, <1>7, <1>8, <2>1, <2>2, Zenon
<1>9. CASE pc[t] \notin Linking
  <2>1. DOMAIN (q \o hands) = 1 .. Len(q)
    BY <1>2, <1>4, <1>6, <1>9
  <2>. QED
    BY <1>1, <1>2, <1>3, <1>7, <1>9, <2>1, Zenon
<1>. QED
  BY <1>8, <1>9

LEMMA OccurrenceKinds ==
  \A o : o \in Occurrences <=>
    \/ \E t \in Thread : \E i \in DOMAIN HeldBy(t), k \in {1, 2} :
         o = <<t, i, k, HeldBy(t)[i][k]>>
    \/ \E y \in Substituted : o = <<y, 0, 0, vars_buf[y]>>
<1>1. \A o : o \in Occurrences <=>
        \/ \E t \in Thread : o \in OccurrencesOf(t)
        \/ o \in {<<y, 0, 0, vars_buf[y]>> : y \in Substituted}
  BY DEF Occurrences
<1>2. \A o, t : o \in OccurrencesOf(t) <=>
        \E i \in DOMAIN HeldBy(t), k \in {1, 2} : o = <<t, i, k, HeldBy(t)[i][k]>>
  BY DEF OccurrencesOf
<1>. SUFFICES ASSUME NEW o
              PROVE  o \in Occurrences <=>
                       \/ \E t \in Thread : \E i \in DOMAIN HeldBy(t), k \in {1, 2} :
                            o = <<t, i, k, HeldBy(t)[i][k]>>
                       \/ \E y \in Substituted : o = <<y, 0, 0, vars_buf[y]>>
  BY Zenon
<1>3. \A t : o \in OccurrencesOf(t) <=> \E i \in DOMAIN HeldBy(t), k \in {1, 2} :
                                         o = <<t, i, k, HeldBy(t)[i][k]>>
  BY <1>2, Zenon
<1>4. o \in {<<y, 0, 0, vars_buf[y]>> : y \in Substituted} <=>
        \E y \in Substituted : o = <<y, 0, 0, vars_buf[y]>>
  OBVIOUS
<1>. QED
  BY <1>1, <1>3, <1>4, Zenon

LEMMA OccurrencesHeld ==
  ASSUME LinkInv, NEW x \in Var
  PROVE  \A p \in Tally(Held, x) \ {<<"self", x, 0>>} :
           OccurrenceAt(p) \in {o \in Occurrences : o[4] = x}
<1>. SUFFICES ASSUME NEW p \in Place, Held[p] = x, p # <<"self", x, 0>>
              PROVE  OccurrenceAt(p) \in Occurrences /\ OccurrenceAt(p)[4] = x
  BY DEF Tally
<1>0. OccurrenceAt(p)[4] = x /\ x # NONE
  BY BalancedTallies DEF OccurrenceAt
<1>1. ASSUME NEW t \in Thread, NEW i \in DOMAIN HeldBy(t), NEW k \in {1, 2},
             OccurrenceAt(p) = <<t, i, k, HeldBy(t)[i][k]>>
      PROVE  OccurrenceAt(p) \in Occurrences
  BY <1>1, OccurrenceKinds, Zenon
<1>2. CASE \E t \in Thread, j \in Nat : p \in {<<"first", t, j>>, <<"second", t, j>>}
  <2>1. PICK t \in Thread, j \in Nat : p \in {<<"first", t, j>>, <<"second", t, j>>}
    BY <1>2
  <2>2. j < Len(todo[t])
    BY <1>0, <2>1, HeldPairs, ZenonT(40)
  <2>3. PICK i : i = Len(todo[t]) - j
    OBVIOUS
  <2>4. i \in 1 .. Len(todo[t]) /\ i \in DOMAIN HeldBy(t) /\ HeldBy(t)[i] = todo[t][i]
    BY <2>2, <2>3, HeldByPairs, SMTT(30)
  <2>5. /\ Held[<<"first", t, j>>] = todo[t][i][1]
        /\ Held[<<"second", t, j>>] = todo[t][i][2]
    BY <2>2, <2>3, HeldPairs
  <2>6. \/ OccurrenceAt(p) = <<t, i, 1, HeldBy(t)[i][1]>>
        \/ OccurrenceAt(p) = <<t, i, 2, HeldBy(t)[i][2]>>
    BY <2>1, <2>3, <2>4, <2>5, SMTT(30) DEF OccurrenceAt
  <2>. QED
    BY <1>0, <1>1, <2>4, <2>6, Zenon
<1>3. CASE \E t \in Thread : p \in {<<"A", t, 0>>, <<"B", t, 0>>}
  <2>1. PICK t \in Thread : p \in {<<"A", t, 0>>, <<"B", t, 0>>}
    BY <1>3
  <2>2. /\ pc[t] \in Linking
        /\ Held[<<"A", t, 0>>] = A[t] /\ Held[<<"B", t, 0>>] = B[t]
    BY <1>0, <2>1, HeldHands
  <2>3. PICK i : i = Len(todo[t]) + 1
    OBVIOUS
  <2>4. i \in DOMAIN HeldBy(t) /\ HeldBy(t)[i] = <<A[t], B[t]>>
    BY <2>2, <2>3, HeldByPairs
  <2>6. \/ OccurrenceAt(p) = <<t, i, 1, HeldBy(t)[i][1]>>
        \/ OccurrenceAt(p) = <<t, i, 2, HeldBy(t)[i][2]>>
    BY <2>1, <2>2, <2>3, <2>4 DEF OccurrenceAt
  <2>. QED
    BY <1>0, <1>1, <2>4, <2>6, Zenon
<1>4. CASE \E y \in Var : p \in {<<"cell", y, 0>>, <<"self", y, 0>>}
  <2>1. PICK y \in Var : p \in {<<"cell", y, 0>>, <<"self", y, 0>>}
    BY <1>4
  <2>2. p = <<"cell", y, 0>> /\ y \in Substituted /\ vars_buf[y] = x
    BY <1>0, <2>1, HeldCells
  <2>3. OccurrenceAt(p) = <<y, 0, 0, vars_buf[y]>>
    BY <2>2 DEF OccurrenceAt
  <2>. QED
    BY <1>0, <2>2, <2>3, OccurrenceKinds, Zenon
<1>. QED
  BY <1>0, <1>2, <1>3, <1>4, PlaceKinds

LEMMA OccurrencesApart ==
  ASSUME LinkInv, NEW x \in Var
  PROVE  \A p, q \in Tally(Held, x) \ {<<"self", x, 0>>} :
           OccurrenceAt(p) = OccurrenceAt(q) => p = q
<1>0. x # NONE
  BY BalancedTallies
<1>1. ASSUME NEW p \in Tally(Held, x) \ {<<"self", x, 0>>}
      PROVE  \/ \E t \in Thread, j \in Nat :
                  /\ j < Len(todo[t])
                  /\ \/ /\ p = <<"first", t, j>>
                        /\ OccurrenceAt(p) = <<t, Len(todo[t]) - j, 1, x>>
                     \/ /\ p = <<"second", t, j>>
                        /\ OccurrenceAt(p) = <<t, Len(todo[t]) - j, 2, x>>
             \/ \E t \in Thread :
                  \/ /\ p = <<"A", t, 0>>
                     /\ OccurrenceAt(p) = <<t, Len(todo[t]) + 1, 1, x>>
                  \/ /\ p = <<"B", t, 0>>
                     /\ OccurrenceAt(p) = <<t, Len(todo[t]) + 1, 2, x>>
             \/ \E y \in Var : p = <<"cell", y, 0>> /\ OccurrenceAt(p) = <<y, 0, 0, x>>
  <2>1. p \in Place /\ Held[p] = x /\ p # <<"self", x, 0>>
    BY DEF Tally
  <2>2. ASSUME NEW t \in Thread, NEW j \in Nat,
               p \in {<<"first", t, j>>, <<"second", t, j>>}
        PROVE  /\ j < Len(todo[t])
               /\ \/ /\ p = <<"first", t, j>>
                     /\ OccurrenceAt(p) = <<t, Len(todo[t]) - j, 1, x>>
                  \/ /\ p = <<"second", t, j>>
                     /\ OccurrenceAt(p) = <<t, Len(todo[t]) - j, 2, x>>
    <3>1. j < Len(todo[t])
      BY <1>0, <2>1, <2>2, HeldPairs, ZenonT(40)
    <3>. QED
      BY <2>1, <2>2, <3>1 DEF OccurrenceAt
  <2>3. ASSUME NEW t \in Thread, p \in {<<"A", t, 0>>, <<"B", t, 0>>}
        PROVE  \/ /\ p = <<"A", t, 0>>
                  /\ OccurrenceAt(p) = <<t, Len(todo[t]) + 1, 1, x>>
               \/ /\ p = <<"B", t, 0>>
                  /\ OccurrenceAt(p) = <<t, Len(todo[t]) + 1, 2, x>>
    BY <2>1, <2>3 DEF OccurrenceAt
  <2>4. ASSUME NEW y \in Var, p \in {<<"cell", y, 0>>, <<"self", y, 0>>}
        PROVE  p = <<"cell", y, 0>> /\ OccurrenceAt(p) = <<y, 0, 0, x>>
    <3>1. p = <<"cell", y, 0>>
      BY <1>0, <2>1, <2>4, HeldCells
    <3>. QED
      BY <2>1, <3>1 DEF OccurrenceAt
  <2>. QED
    BY <2>1, <2>2, <2>3, <2>4, PlaceKinds
<1>2. \A t \in Thread : Len(todo[t]) \in Nat
  BY HeldByPairs
<1>. QED
  BY <1>1, <1>2

LEMMA OccurrencesPlaced ==
  ASSUME LinkInv, NEW x \in Var, NEW o \in Occurrences, o[4] = x
  PROVE  \E p \in Tally(Held, x) \ {<<"self", x, 0>>} : OccurrenceAt(p) = o
<1>1. ASSUME NEW p \in Place, p[1] # "self", Held[p] = x, OccurrenceAt(p) = o
      PROVE  p \in Tally(Held, x) \ {<<"self", x, 0>>} /\ OccurrenceAt(p) = o
  BY <1>1 DEF Tally
<1>2. CASE \E t \in Thread : \E i \in DOMAIN HeldBy(t), k \in {1, 2} :
             o = <<t, i, k, HeldBy(t)[i][k]>>
  <2>1. PICK t \in Thread : \E i \in DOMAIN HeldBy(t), k \in {1, 2} :
               o = <<t, i, k, HeldBy(t)[i][k]>>
    BY <1>2
  <2>2. PICK i \in DOMAIN HeldBy(t), k \in {1, 2} : o = <<t, i, k, HeldBy(t)[i][k]>>
    BY <2>1
  <2>3. HeldBy(t)[i][k] = x
    BY <2>2
  <2>4. CASE i \in 1 .. Len(todo[t])
    <3>1. PICK j : j = Len(todo[t]) - i
      OBVIOUS
    <3>2. j \in Nat /\ j < Len(todo[t]) /\ Len(todo[t]) - j = i
      <4>1. ASSUME NEW n \in Nat, i \in 1 .. n
            PROVE  n - i \in Nat /\ n - i < n /\ n - (n - i) = i
        BY <4>1
      <4>. QED
        BY <2>4, <3>1, <4>1, HeldByPairs
    <3>3. /\ Held[<<"first", t, j>>] = todo[t][i][1]
          /\ Held[<<"second", t, j>>] = todo[t][i][2]
      BY <3>2, HeldPairs
    <3>4. todo[t][i][k] = x
      BY <2>3, <2>4, HeldByPairs
    <3>5. PICK p : p = IF k = 1 THEN <<"first", t, j>> ELSE <<"second", t, j>>
      OBVIOUS
    <3>6. p \in Place /\ p[1] # "self" /\ Held[p] = x
      BY <3>2, <3>3, <3>4, <3>5, PlaceKinds
    <3>7. OccurrenceAt(p) = o
      BY <2>2, <2>3, <3>2, <3>5, <3>6 DEF OccurrenceAt
    <3>. QED
      BY <1>1, <3>6, <3>7
  <2>5. CASE i \notin 1 .. Len(todo[t])
    <3>1. pc[t] \in Linking /\ i = Len(todo[t]) + 1
      <4>1. ASSUME NEW n \in Nat, i \in 1 .. n + 1, i \notin 1 .. n PROVE i = n + 1
        BY <4>1
      <4>2. pc[t] \in Linking /\ i \in 1 .. Len(todo[t]) + 1 /\ Len(todo[t]) \in Nat
        BY <2>5, HeldByPairs
      <4>. QED
        BY <2>5, <4>1, <4>2
    <3>0. HeldBy(t)[i] = <<A[t], B[t]>>
      BY <3>1, HeldByPairs
    <3>2. PICK p : p = IF k = 1 THEN <<"A", t, 0>> ELSE <<"B", t, 0>>
      OBVIOUS
    <3>3. p \in Place /\ p[1] # "self" /\ Held[p] = x
      BY <2>3, <3>0, <3>1, <3>2, HeldHands, PlaceKinds
    <3>4. OccurrenceAt(p) = o
      BY <2>2, <2>3, <3>1, <3>2, <3>3 DEF OccurrenceAt
    <3>. QED
      BY <1>1, <3>3, <3>4
  <2>. QED
    BY <2>4, <2>5
<1>3. CASE \E y \in Substituted : o = <<y, 0, 0, vars_buf[y]>>
  <2>1. PICK y \in Substituted : o = <<y, 0, 0, vars_buf[y]>>
    BY <1>3
  <2>2. y \in Var /\ vars_buf[y] = x
    BY <2>1 DEF Substituted
  <2>3. PICK p : p = <<"cell", y, 0>>
    OBVIOUS
  <2>4. p \in Place /\ p[1] # "self" /\ Held[p] = x
    BY <2>2, <2>3, HeldCells, PlaceKinds
  <2>5. OccurrenceAt(p) = o
    BY <2>1, <2>2, <2>3, <2>4 DEF OccurrenceAt
  <2>. QED
    BY <1>1, <2>4, <2>5
<1>. QED
  BY <1>2, <1>3, OccurrenceKinds, Zenon

LEMMA LinkLinear == LinkInv => Linear
<1>. SUFFICES ASSUME LinkInv PROVE Linear
  OBVIOUS
<1>1. ASSUME NEW x \in Var
      PROVE  Cardinality({o \in Occurrences : o[4] = x})
               = IF x \in Substituted THEN Owed(x) - 1 ELSE Owed(x)
  <2>1. PICK s, T, S, O : /\ s = <<"self", x, 0>> /\ T = Tally(Held, x) /\ S = T \ {s}
                          /\ O = {o \in Occurrences : o[4] = x}
    OBVIOUS
  <2>2. IsFiniteSet(T) /\ Cardinality(T) = Owed(x) /\ x # NONE
    BY <2>1, BalancedTallies DEF Tallied
  <2>3. s \in T <=> x \in Substituted
    BY <2>1, <2>2, HeldCells, PlaceKinds DEF Tally
  <2>4. /\ IsFiniteSet(S)
        /\ Cardinality(S) = IF x \in Substituted THEN Owed(x) - 1 ELSE Owed(x)
    <3>1. CASE x \in Substituted
      BY <2>1, <2>2, <2>3, <3>1, FS_RemoveElement
    <3>2. CASE x \notin Substituted
      <4>1. S = T
        BY <2>1, <2>3, <3>2
      <4>. QED
        BY <2>2, <3>2, <4>1
    <3>. QED
      BY <3>1, <3>2
  <2>5. PICK f : f = [p \in S |-> OccurrenceAt(p)]
    OBVIOUS
  <2>6. f \in [S -> O] /\ \A p \in S : f[p] = OccurrenceAt(p)
    BY <2>1, <2>5, OccurrencesHeld
  <2>7. \A p, q \in S : f[p] = f[q] => p = q
    BY <2>1, <2>6, OccurrencesApart
  <2>8. \A o \in O : \E p \in S : f[p] = o
    BY <2>1, <2>6, OccurrencesPlaced
  <2>9. Cardinality(O) = Cardinality(S)
    BY <2>4, <2>6, <2>7, <2>8, SameCount, Zenon
  <2>. QED
    BY <2>1, <2>4, <2>9
<1>2. ASSUME NEW x \in Var
      PROVE  IF vars_buf[x] = FREE \/ x \in Deleting
             THEN Cardinality({o \in Occurrences : o[4] = x}) = 0
             ELSE Cardinality({o \in Occurrences : o[4] = x})
                    + (IF x \in Substituted THEN 1 ELSE 0) = IF x \in Root THEN 1 ELSE 2
  <2>1. PICK n : n = Cardinality({o \in Occurrences : o[4] = x})
    OBVIOUS
  <2>2. n = IF x \in Substituted THEN Owed(x) - 1 ELSE Owed(x)
    BY <1>1, <2>1
  <2>3. vars_buf[x] = FREE \/ x \in Deleting => x \notin Substituted
    BY LinkerAssumption DEF Substituted
  <2>4. Owed(x) = IF vars_buf[x] = FREE \/ x \in Deleting THEN 0
                  ELSE IF x \in Root THEN 1 ELSE 2
    BY DEF Owed
  <2>. QED
    BY <2>1, <2>2, <2>3, <2>4
<1>. QED
  BY <1>2 DEF Linear

-----------------------------------------------------------------------------
(* The theorems.                                                           *)

\* Every reachable state of the linker satisfies the inductive invariant: each
\* variable has the occurrences it is owed, in the pairs, hands and cells of
\* enter and link (hvm.c:794-841).
THEOREM LinkerInvariant == Spec => []LinkInv
BY InitLink, NextLink, PTL DEF Spec

\* However many threads link, no call of link or enter loses or duplicates an
\* occurrence of a variable (hvm.c:794-841).
THEOREM LinkerKeepsLinear == Spec => []Linear
BY LinkerInvariant, LinkLinear, PTL

\* No call exchanges or deletes a cell that has been deleted: enter's test for
\* 0 (hvm.c:801) and link's FIXME (hvm.c:836) never apply, for any interleaving.
THEOREM LinkerNeverUsesFree == Spec => []NoUseAfterFree
<1>1. LinkInv => NoUseAfterFree
  <2>. SUFFICES ASSUME LinkInv, NEW t \in Thread
                PROVE  /\ pc[t] = "enter" /\ B[t] \in Var => vars_buf[B[t]] # FREE
                       /\ pc[t] \in {"enter", "point"} => vars_buf[A[t]] # FREE
                       /\ pc[t] \in {"take_a", "take_b"} => vars_buf[loc[t]] # FREE
    BY DEF NoUseAfterFree
  <2>1. LocalInv(t) /\ FREE # NONE /\ FREE \notin Port
    BY LinkerAssumption DEF LinkInv
  <2>2. pc[t] = "enter" /\ B[t] \in Var => vars_buf[B[t]] # FREE
    BY HandsLive DEF Linking
  <2>3. pc[t] \in {"enter", "point"} => vars_buf[A[t]] # FREE
    BY <2>1, HandsLive DEF LocalInv, Linking
  <2>4. pc[t] \in {"take_a", "take_b"} => vars_buf[loc[t]] # FREE
    BY <2>1 DEF LocalInv, Linking
  <2>. QED
    BY <2>2, <2>3, <2>4
<1>. QED
  BY <1>1, LinkerInvariant, PTL

\* The cell a thread is about to delete holds NONE, or the port it has kept in
\* B: vars_take (hvm.c:804, 837) destroys nothing, whatever the others do.
THEOREM LinkerDeletesOwned == Spec => []DeletesOwned
<1>1. LinkInv => DeletesOwned
  BY DEF LinkInv, LocalInv, DeletesOwned
<1>. QED
  BY <1>1, LinkerInvariant, PTL

-----------------------------------------------------------------------------
(* Each occurrence of a port that is no variable is in one place.          *)

Once(m) == \A n \in Node : \A p, q \in Place : m[p] = n /\ m[q] = n => p = q

WireInv == LinkInv /\ Once(Held)

LEMMA SwapOnce ==
  ASSUME NEW m, NEW p \in Place, NEW q \in Place, Once(m)
  PROVE  Once(Swap(m, p, q))
BY DEF Once, Swap

LEMMA DropOnce ==
  ASSUME NEW m, NEW p \in Place, Once(m)
  PROVE  Once(Drop(m, p))
BY LinkerAssumption DEF Once, Drop, Port

LEMMA PutOnce ==
  ASSUME NEW m, NEW p \in Place, NEW y \in Var, Once(m)
  PROVE  Once(Put(m, p, y))
BY LinkerAssumption DEF Once, Put

LEMMA BecomesOnce ==
  ASSUME NEW m, Becomes(m), Once(m)
  PROVE  Once(Held)'
BY DEF Becomes, Once

LEMMA FollowedOnce ==
  ASSUME NEW c \in Var, NEW h \in Place, Once(Held)
  PROVE  Once(Followed(c, h))
BY SwapOnce, DropOnce, PlaceKinds, Zenon DEF Followed

LEMMA InitOnce == Init => Once(Held)
<1>. SUFFICES ASSUME Init, NEW n \in Node, NEW p \in Place, NEW q \in Place,
                     Held[p] = n, Held[q] = n
              PROVE  p = q
  BY DEF Once
<1>1. n \in Port /\ todo \in Wirings
  BY DEF Port, Init
<1>2. PICK u \in Uses(todo, n) : SpotOf(u) = p
  BY <1>1, InitSpot
<1>3. PICK v \in Uses(todo, n) : SpotOf(v) = q
  BY <1>1, InitSpot
<1>4. u = v
  BY <1>1, WiringAssumption
<1>. QED
  BY <1>2, <1>3, <1>4

LEMMA NextOnce ==
  ASSUME WireInv, NEW t \in Thread, Step(t)
  PROVE  Once(Held)'
<1>0. /\ LinkInv /\ Once(Held)
      /\ \A j \in Nat : /\ <<"first", t, j>> \in Place /\ <<"second", t, j>> \in Place
                        /\ <<"first", t, j + 1>> \in Place
                        /\ <<"second", t, j + 1>> \in Place
      /\ <<"A", t, 0>> \in Place /\ <<"B", t, 0>> \in Place
      /\ \A x \in Var : <<"cell", x, 0>> \in Place /\ <<"self", x, 0>> \in Place
  BY PlaceKinds DEF WireInv
<1>1. CASE Call(t)
  <2>1. PICK j \in Nat : Called(t, j)
    BY <1>0, <1>1, CallBalanced
  <2>. QED
    BY <1>0, <2>1, SwapOnce, BecomesOnce, Zenon DEF Called
<1>2. CASE Orient(t)
  BY <1>0, <1>2, OrientBalanced, SwapOnce, BecomesOnce, Zenon
<1>3. CASE PushRedex(t)
  BY <1>0, <1>3, PushBalanced, DropOnce, BecomesOnce, Zenon
<1>4. CASE EnterExchange(t)
  <2>1. Substituted \subseteq Var
    BY DEF Substituted
  <2>. QED
    BY <1>0, <1>4, <2>1, EnterBalanced, FollowedOnce, BecomesOnce
<1>5. CASE EnterTake(t) \/ PointTake(t)
  BY <1>0, <1>5, TakeBalanced, BecomesOnce
<1>6. CASE PointExchange(t)
  <2>1. Substituted \subseteq Var
    BY DEF Substituted
  <2>2. CASE \E c : Stored(t, c)
    <3>1. PICK c \in Var : Stored(t, c)
      BY <2>2 DEF Stored
    <3>. QED
      BY <1>0, <3>1, SwapOnce, BecomesOnce, Zenon DEF Stored
  <2>. QED
    BY <1>0, <1>6, <2>1, <2>2, PointBalanced, FollowedOnce, BecomesOnce
<1>7. CASE AllocFind(t)
  BY <1>0, <1>7, AllocBalanced, BecomesOnce
<1>8. CASE Create(t)
  <2>1. PICK j \in Nat : \E c : Created(t, j, c)
    BY <1>0, <1>8, CreateBalanced
  <2>2. PICK c \in Var : Created(t, j, c)
    BY <2>1 DEF Created
  <2>. QED
    BY <1>0, <2>2, SwapOnce, PutOnce, BecomesOnce, Zenon DEF Created
<1>. QED
  BY <1>1, <1>2, <1>3, <1>4, <1>5, <1>6, <1>7, <1>8 DEF Step

-----------------------------------------------------------------------------
(* Wires: what a change of the joints makes of them.                       *)

LEMMA WiresNow == WiresOf = WiresIn(Joints)
BY DEF WiresOf

LEMMA ComponentOf ==
  ASSUME NEW J, NEW p, NEW q \in Port
  PROVE  q \in Component(J, p) <=>
           \A C \in SUBSET Port : p \in C /\ Closed(J, C) => q \in C
BY DEF Component

LEMMA ComponentPorts ==
  ASSUME NEW J, NEW p \in Port
  PROVE  Component(J, p) \subseteq Port /\ p \in Component(J, p)
BY DEF Component

LEMMA Pair ==
  ASSUME NEW a, NEW b, a # b
  PROVE  Cardinality({a, b}) = 2
<1>1. IsFiniteSet({a}) /\ Cardinality({a}) = 1
  BY FS_Singleton
<1>2. Cardinality({a} \cup {b}) = 1 + 1
  BY <1>1, FS_AddElement
<1>3. {a, b} = {a} \cup {b}
  OBVIOUS
<1>. QED
  BY <1>2, <1>3

\* Where ends have the same component, but for what is no end, wires are the same.
LEMMA SameComponents ==
  ASSUME NEW J, NEW K,
         \A e \in Ends : Component(J, e) \cap Ends = Component(K, e) \cap Ends
  PROVE  WiresIn(J) = WiresIn(K)
<1>1. {Component(J, e) \cap Ends : e \in Ends} = {Component(K, e) \cap Ends : e \in Ends}
  OBVIOUS
<1>. QED
  BY <1>1 DEF WiresIn

\* A port that two joints have, and that is no end, may be left out.
Hinge(K, a, b, c) ==
  /\ a \in Port /\ b \in Port /\ c \in Port /\ a # b /\ c # b
  /\ b \notin Ends /\ \A j \in K : b \notin j

LEMMA Contract ==
  ASSUME NEW K, NEW a, NEW b, NEW c, Hinge(K, a, b, c)
  PROVE  WiresIn(K \cup {{a, b}, {b, c}}) = WiresIn(K \cup {{a, c}})
<1>. DEFINE J == K \cup {{a, b}, {b, c}}
            L == K \cup {{a, c}}
<1>a. /\ a \in Port /\ b \in Port /\ c \in Port /\ a # b /\ c # b
      /\ b \notin Ends /\ \A j \in K : b \notin j
  BY DEF Hinge
<1>. USE <1>a
<1>0. Ends \subseteq Port \ {b}
  BY LinkerAssumption DEF Ends, Port
<1>1. ASSUME NEW e \in Port \ {b}, NEW q \in Port \ {b}
      PROVE  q \in Component(J, e) <=> q \in Component(L, e)
  <2>1. ASSUME NEW C \in SUBSET Port, Closed(J, C) PROVE Closed(L, C)
    <3>1. {a, b} \in J /\ {b, c} \in J /\ K \subseteq J
      OBVIOUS
    <3>. HIDE DEF J
    <3>2. (a \in C <=> b \in C) /\ (b \in C <=> c \in C)
      BY <2>1, <3>1 DEF Closed
    <3>3. {a, c} \subseteq C \/ {a, c} \cap C = {}
      BY <3>2
    <3>. QED
      BY <2>1, <3>1, <3>3 DEF Closed
  <2>2. ASSUME NEW C \in SUBSET Port, Closed(L, C)
        PROVE  \E D \in SUBSET Port : Closed(J, D) /\ D \ {b} = C \ {b}
    <3>. DEFINE D == (C \ {b}) \cup (IF a \in C THEN {b} ELSE {})
    <3>1. D \in SUBSET Port /\ D \ {b} = C \ {b}
      OBVIOUS
    <3>2. a \in C <=> c \in C
      <4>1. {a, c} \subseteq C \/ {a, c} \cap C = {}
        BY <2>2 DEF Closed
      <4>. QED
        BY <4>1
    <3>3. a \in D <=> b \in D
      OBVIOUS
    <3>4. c \in D <=> b \in D
      BY <3>2
    <3>5. ASSUME NEW j \in K PROVE j \subseteq D \/ j \cap D = {}
      <4>1. j \subseteq C \/ j \cap C = {}
        BY <2>2 DEF Closed
      <4>. QED
        BY <4>1
    <3>. HIDE DEF D
    <3>6. Closed(J, D)
      BY <3>3, <3>4, <3>5 DEF Closed
    <3>. QED
      BY <3>1, <3>6
  <2>3. ASSUME q \in Component(L, e) PROVE q \in Component(J, e)
    BY <2>1, <2>3, ComponentOf DEF Component
  <2>4. ASSUME q \in Component(J, e) PROVE q \in Component(L, e)
    <3>. SUFFICES ASSUME NEW C \in SUBSET Port, e \in C, Closed(L, C) PROVE q \in C
      BY ComponentOf
    <3>1. PICK D \in SUBSET Port : Closed(J, D) /\ D \ {b} = C \ {b}
      BY <2>2
    <3>2. e \in D
      BY <3>1
    <3>3. q \in D
      BY <2>4, <3>1, <3>2, ComponentOf
    <3>. QED
      BY <3>1, <3>3
  <2>. QED
    BY <2>3, <2>4
<1>. HIDE DEF J, L
<1>2. \A e \in Ends : Component(J, e) \cap Ends = Component(L, e) \cap Ends
  BY <1>0, <1>1
<1>. QED
  BY <1>2, SameComponents DEF J, L

\* Two ports that no other joint has are a wire of their own.
LEMMA Resolve ==
  ASSUME NEW K, NEW a \in Node, NEW b \in Node, a # b,
         \A j \in K : j \subseteq Port /\ a \notin j /\ b \notin j
  PROVE  /\ {a, b} \in WiresIn(K \cup {{a, b}})
         /\ WiresIn(K) = WiresIn(K \cup {{a, b}}) \ {{a, b}}
<1>. DEFINE J == K \cup {{a, b}}
<1>0. Ends \subseteq Port /\ Node \subseteq Ends /\ a \in Port /\ b \in Port
  BY LinkerAssumption DEF Ends, Port
<1>1. Closed(J, {a, b}) /\ Closed(K, {a}) /\ Closed(K, {b})
  BY DEF Closed
<1>2. Component(J, a) = {a, b} /\ Component(J, b) = {a, b}
  <2>1. Component(J, a) \subseteq {a, b} /\ Component(J, b) \subseteq {a, b}
    BY <1>0, <1>1 DEF Component
  <2>2. \A C \in SUBSET Port : Closed(J, C) => (a \in C <=> b \in C)
    BY ZenonT(90) DEF Closed
  <2>3. a \in Component(J, a) /\ b \in Component(J, a)
        /\ a \in Component(J, b) /\ b \in Component(J, b)
    BY <1>0, <2>2 DEF Component
  <2>. QED
    BY <2>1, <2>3
<1>3. Component(K, a) = {a} /\ Component(K, b) = {b}
  <2>1. Component(K, a) \subseteq {a} /\ Component(K, b) \subseteq {b}
    BY <1>0, <1>1 DEF Component
  <2>. QED
    BY <1>0, <2>1, ComponentPorts
<1>4. ASSUME NEW e \in Ends \ {a, b} PROVE Component(J, e) = Component(K, e)
  <2>1. Closed(J, Port \ {a, b}) /\ Closed(K, Port \ {a, b})
    BY DEF Closed
  <2>2. ASSUME NEW q \in {a, b} PROVE q \notin Component(J, e) /\ q \notin Component(K, e)
    BY <1>0, <2>1 DEF Component
  <2>3. ASSUME NEW q \in Port \ {a, b}
        PROVE  q \in Component(J, e) <=> q \in Component(K, e)
    <3>1. \A C \in SUBSET Port : Closed(J, C) => Closed(K, C)
      BY DEF Closed
    <3>2. \A C \in SUBSET Port : Closed(K, C) => Closed(J, C \ {a, b})
      BY DEF Closed
    <3>3. \A C \in SUBSET Port : C \ {a, b} \in SUBSET Port
      OBVIOUS
    <3>4. ASSUME q \in Component(J, e), NEW C \in SUBSET Port, e \in C, Closed(K, C)
          PROVE  q \in C
      <4>1. PICK D \in SUBSET Port : D = C \ {a, b}
        OBVIOUS
      <4>2. e \in D /\ Closed(J, D)
        BY <3>2, <3>4, <4>1
      <4>3. q \in D
        BY <3>4, <4>2, ComponentOf
      <4>. QED
        BY <4>1, <4>3
    <3>5. q \in Component(J, e) => q \in Component(K, e)
      BY <3>4, ComponentOf
    <3>6. q \in Component(K, e) => q \in Component(J, e)
      BY <3>1, ComponentOf
    <3>. QED
      BY <3>5, <3>6
  <2>. QED
    BY <1>0, <2>2, <2>3, ZenonT(90) DEF Component
<1>5. Cardinality({a, b}) = 2 /\ Cardinality({a}) = 1 /\ Cardinality({b}) = 1
  BY Pair, FS_Singleton
<1>. HIDE DEF J
<1>6. {a, b} \in WiresIn(J)
  <2>1. {a, b} = Component(J, a) \cap Ends
    BY <1>0, <1>2
  <2>. QED
    BY <1>0, <1>5, <2>1 DEF WiresIn
<1>7. ASSUME NEW w \in WiresIn(K) PROVE w \in WiresIn(J) /\ w # {a, b}
  <2>1. PICK e \in Ends : w = Component(K, e) \cap Ends /\ Cardinality(w) = 2
    BY DEF WiresIn
  <2>2. e \notin {a, b}
    <3>1. e = a => w = {a}
      BY <1>0, <1>3, <2>1
    <3>2. e = b => w = {b}
      BY <1>0, <1>3, <2>1
    <3>3. w # {a} /\ w # {b}
      <4>1. 1 # 2
        OBVIOUS
      <4>. QED
        BY <1>5, <2>1, <4>1, Zenon
    <3>. QED
      BY <3>1, <3>2, <3>3
  <2>3. w = Component(J, e) \cap Ends /\ e \in w
    BY <1>0, <1>4, <2>1, <2>2, ComponentPorts
  <2>. QED
    BY <2>1, <2>2, <2>3 DEF WiresIn
<1>8. ASSUME NEW w \in WiresIn(J), w # {a, b} PROVE w \in WiresIn(K)
  <2>1. PICK e \in Ends : w = Component(J, e) \cap Ends /\ Cardinality(w) = 2
    BY DEF WiresIn
  <2>2. e \notin {a, b}
    BY <1>0, <1>2, <1>8, <2>1
  <2>3. w = Component(K, e) \cap Ends
    BY <1>4, <2>1, <2>2
  <2>. QED
    BY <2>1, <2>3 DEF WiresIn
<1>9. WiresIn(K) = WiresIn(J) \ {{a, b}}
  BY <1>7, <1>8
<1>. QED
  BY <1>6, <1>9 DEF J

\* No closed set parts a port from its component.
LEMMA OneComponent ==
  ASSUME NEW J, \A j \in J : j \subseteq Port, NEW e \in Port, NEW q \in Component(J, e),
         NEW C \in SUBSET Port, Closed(J, C)
  PROVE  e \in C <=> q \in C
<1>1. q \in Port
  BY ComponentPorts
<1>2. e \in C => q \in C
  BY <1>1, ComponentOf
<1>3. Closed(J, Port \ C) /\ Port \ C \in SUBSET Port
  BY DEF Closed
<1>4. e \in Port \ C => q \in Port \ C
  BY <1>1, <1>3, ComponentOf
<1>. QED
  BY <1>1, <1>2, <1>4

\* Wires pair ends: no end is on two.
LEMMA WiresPair ==
  ASSUME NEW J, \A j \in J : j \subseteq Port
  PROVE  W!IsWiring(WiresIn(J))
<1>0. Ends \subseteq Port /\ W!Ends = Ends
  BY LinkerAssumption DEF Ends, Port, W!Ends
<1>1. ASSUME NEW e \in Port, NEW q \in Component(J, e)
      PROVE  Component(J, e) = Component(J, q)
  <2>1. q \in Port
    BY <1>1, ComponentPorts
  <2>2. \A C \in SUBSET Port : Closed(J, C) => (e \in C <=> q \in C)
    BY <1>1, OneComponent
  <2>. QED
    BY <2>2 DEF Component
<1>2. ASSUME NEW v \in WiresIn(J), NEW w \in WiresIn(J), v # w PROVE v \cap w = {}
  <2>. SUFFICES ASSUME NEW q \in v, q \in w PROVE FALSE
    OBVIOUS
  <2>1. PICK d \in Ends : v = Component(J, d) \cap Ends
    BY DEF WiresIn
  <2>2. PICK e \in Ends : w = Component(J, e) \cap Ends
    BY DEF WiresIn
  <2>3. Component(J, d) = Component(J, q) /\ Component(J, e) = Component(J, q)
    BY <1>0, <1>1, <2>1, <2>2
  <2>. QED
    BY <1>2, <2>1, <2>2, <2>3
<1>3. \A w \in WiresIn(J) : w \subseteq Ends /\ Cardinality(w) = 2
  BY DEF WiresIn
<1>. QED
  <2>1. \A w : W!Cardinality(w) = Cardinality(w)
    BY Zenon DEF W!Cardinality, Cardinality
  <2>. QED
    BY <1>2, <1>3, <2>1 DEF W!IsWiring, W!Ends, Ends

-----------------------------------------------------------------------------
(* Joints: the two places of a pair, of a thread's hands, of a cell.       *)

Spot == ({"pair"} \X Thread \X Nat) \cup ({"hand"} \X Thread \X {0})
          \cup ({"cell"} \X Var \X {0})

One(s) == <<IF s[1] = "pair" THEN "first" ELSE IF s[1] = "hand" THEN "A" ELSE "cell",
            s[2], s[3]>>
Two(s) == <<IF s[1] = "pair" THEN "second" ELSE IF s[1] = "hand" THEN "B" ELSE "self",
            s[2], s[3]>>

JointAt(m, s) == IF m[One(s)] = NONE THEN {} ELSE {{m[One(s)], m[Two(s)]}}
JointsIn(m, S) == UNION {JointAt(m, s) : s \in S}

LEMMA SpotKinds ==
  /\ \A t \in Thread : /\ \A j \in Nat : <<"pair", t, j>> \in Spot
                       /\ <<"hand", t, 0>> \in Spot
  /\ \A x \in Var : <<"cell", x, 0>> \in Spot
  /\ \A s \in Spot : \/ \E t \in Thread, j \in Nat : s = <<"pair", t, j>>
                     \/ \E t \in Thread : s = <<"hand", t, 0>>
                     \/ \E x \in Var : s = <<"cell", x, 0>>
BY DEF Spot

LEMMA SpotPlaces ==
  /\ \A t, j : /\ One(<<"pair", t, j>>) = <<"first", t, j>>
               /\ Two(<<"pair", t, j>>) = <<"second", t, j>>
  /\ \A t : /\ One(<<"hand", t, 0>>) = <<"A", t, 0>>
            /\ Two(<<"hand", t, 0>>) = <<"B", t, 0>>
  /\ \A x : /\ One(<<"cell", x, 0>>) = <<"cell", x, 0>>
            /\ Two(<<"cell", x, 0>>) = <<"self", x, 0>>
BY DEF One, Two

\* No place is in two spots.
LEMMA SpotsApart ==
  /\ \A s \in Spot : One(s) \in Place /\ Two(s) \in Place
  /\ \A s, u \in Spot : s # u =>
       One(s) # One(u) /\ Two(s) # Two(u) /\ One(s) # Two(u)
  /\ \A s \in Spot : One(s) # Two(s)
<1>1. ASSUME NEW s \in Spot PROVE One(s) \in Place /\ Two(s) \in Place
  <2>1. CASE \E t \in Thread, j \in Nat : s = <<"pair", t, j>>
    <3>1. PICK t \in Thread, j \in Nat : s = <<"pair", t, j>>
      BY <2>1
    <3>2. One(s) = <<"first", t, j>> /\ Two(s) = <<"second", t, j>>
      BY <3>1, SpotPlaces, Zenon
    <3>3. <<"first", t, j>> \in Place /\ <<"second", t, j>> \in Place
      BY PlaceKinds, Zenon
    <3>. QED
      BY <3>2, <3>3
  <2>2. CASE \E t \in Thread : s = <<"hand", t, 0>>
    BY <2>2, SpotPlaces, PlaceKinds
  <2>3. CASE \E x \in Var : s = <<"cell", x, 0>>
    BY <2>3, SpotPlaces, PlaceKinds
  <2>. QED
    BY <2>1, <2>2, <2>3, SpotKinds
<1>2. ASSUME NEW s \in Spot, NEW u \in Spot
      PROVE  (One(s) = One(u) => s = u) /\ (Two(s) = Two(u) => s = u) /\ One(s) # Two(u)
  <2>1. PICK k, h, j : s = <<k, h, j>> /\ k \in {"pair", "hand", "cell"}
    BY SpotKinds
  <2>2. PICK k2, h2, j2 : u = <<k2, h2, j2>> /\ k2 \in {"pair", "hand", "cell"}
    BY SpotKinds
  <2>. QED
    BY <2>1, <2>2 DEF One, Two
<1>. QED
  BY <1>1, <1>2

\* The joints of a map and of a part of the spots.
LEMMA JointIn ==
  ASSUME NEW m, NEW S, NEW j
  PROVE  j \in JointsIn(m, S) <=>
           \E s \in S : m[One(s)] # NONE /\ j = {m[One(s)], m[Two(s)]}
BY DEF JointsIn, JointAt

LEMMA JointsSplit ==
  ASSUME NEW m, NEW u \in Spot, NEW v \in Spot
  PROVE  JointsIn(m, Spot) = (JointsIn(m, Spot \ {u, v}) \cup JointAt(m, u)) \cup JointAt(m, v)
BY DEF JointsIn

\* Maps that agree on the spots have the same joints.
LEMMA JointsAgree ==
  ASSUME NEW m, NEW n, NEW S, \A s \in S : m[One(s)] = n[One(s)] /\ m[Two(s)] = n[Two(s)]
  PROVE  JointsIn(m, S) = JointsIn(n, S)
BY DEF JointsIn, JointAt

\* A spot holds two ports or none.
LEMMA SpotHolds ==
  ASSUME LinkInv, NEW s \in Spot
  PROVE  \/ Held[One(s)] = NONE /\ Held[Two(s)] = NONE
         \/ Held[One(s)] \in Port /\ Held[Two(s)] \in Port
<1>0. NONE \notin Port
  BY LinkerAssumption
<1>1. CASE \E t \in Thread, j \in Nat : s = <<"pair", t, j>>
  <2>1. PICK t \in Thread, j \in Nat : s = <<"pair", t, j>>
    BY <1>1
  <2>2. PICK q, i : q = todo[t] /\ i = Len(todo[t]) - j
    OBVIOUS
  <2>3. q \in Seq(Port \X Port)
    BY <2>2 DEF LinkInv, LinkTypes, Links
  <2>4. ASSUME j < Len(q) PROVE q[i] \in Port \X Port
    <3>1. i \in 1 .. Len(q)
      BY <2>2, <2>3, <2>4
    <3>. QED
      BY <2>3, <3>1
  <2>5. ASSUME j < Len(q) PROVE q[i][1] \in Port /\ q[i][2] \in Port
    BY <2>4, <2>5
  <2>. QED
    BY <2>1, <2>2, <2>5, HeldPairs, SpotPlaces
<1>2. CASE \E t \in Thread : s = <<"hand", t, 0>>
  BY <1>2, HeldHands, SpotPlaces DEF LinkInv, LocalInv
<1>3. CASE \E x \in Var : s = <<"cell", x, 0>>
  BY <1>3, HeldCells, SpotPlaces DEF Substituted, Port
<1>. QED
  BY <1>1, <1>2, <1>3, SpotKinds

\* The joints of a state are those of its places.
LEMMA JointsHeld == LinkInv => Joints = JointsIn(Held, Spot)
<1>. SUFFICES ASSUME LinkInv, NEW j PROVE j \in Joints <=> j \in JointsIn(Held, Spot)
  OBVIOUS
<1>0. NONE \notin Port
  BY LinkerAssumption
<1>1. j \in Joints <=> \/ \E t \in Thread : \E i \in DOMAIN HeldBy(t) : j = Range(HeldBy(t)[i])
                       \/ \E x \in Substituted : j = {x, vars_buf[x]}
  <2>1. j \in Joints <=> \/ \E t \in Thread : j \in JointsOf(t)
                         \/ j \in {{x, vars_buf[x]} : x \in Substituted}
    BY DEF Joints
  <2>2. \A t : j \in JointsOf(t) <=> \E i \in DOMAIN HeldBy(t) : j = Range(HeldBy(t)[i])
    BY DEF JointsOf
  <2>3. j \in {{x, vars_buf[x]} : x \in Substituted} <=>
          \E x \in Substituted : j = {x, vars_buf[x]}
    OBVIOUS
  <2>. QED
    BY <2>1, <2>2, <2>3, Zenon
<1>2. j \in JointsIn(Held, Spot) <=>
        \E s \in Spot : Held[One(s)] # NONE /\ j = {Held[One(s)], Held[Two(s)]}
  BY JointIn
<1>3. \A a, b : Range(<<a, b>>) = {a, b}
  BY DEF Range
<1>4. ASSUME NEW t \in Thread
      PROVE  (\E i \in DOMAIN HeldBy(t) : j = Range(HeldBy(t)[i])) <=>
               \/ \E i \in 1 .. Len(todo[t]) : j = {todo[t][i][1], todo[t][i][2]}
               \/ pc[t] \in Linking /\ j = {A[t], B[t]}
  <2>1. /\ Len(todo[t]) \in Nat
        /\ DOMAIN HeldBy(t) =
             IF pc[t] \in Linking THEN 1 .. Len(todo[t]) + 1 ELSE 1 .. Len(todo[t])
        /\ \A i \in 1 .. Len(todo[t]) : HeldBy(t)[i] = todo[t][i]
        /\ pc[t] \in Linking => HeldBy(t)[Len(todo[t]) + 1] = <<A[t], B[t]>>
    BY HeldByPairs
  <2>2. todo[t] \in Seq(Port \X Port)
    BY DEF LinkInv, LinkTypes, Links
  <2>3. \A i \in 1 .. Len(todo[t]) : Range(todo[t][i]) = {todo[t][i][1], todo[t][i][2]}
    <3>. SUFFICES ASSUME NEW i \in 1 .. Len(todo[t])
                  PROVE  Range(todo[t][i]) = {todo[t][i][1], todo[t][i][2]}
      OBVIOUS
    <3>1. PICK a, b : todo[t][i] = <<a, b>>
      BY <2>2
    <3>. QED
      BY <1>3, <3>1
  <2>4. pc[t] \in Linking => Range(HeldBy(t)[Len(todo[t]) + 1]) = {A[t], B[t]}
    BY <1>3, <2>1
  <2>5. CASE pc[t] \in Linking
    <3>1. \A i : i \in DOMAIN HeldBy(t) <=> i \in 1 .. Len(todo[t]) \/ i = Len(todo[t]) + 1
      BY <2>1, <2>5
    <3>. QED
      BY <2>1, <2>3, <2>4, <2>5, <3>1, Zenon
  <2>6. CASE pc[t] \notin Linking
    BY <2>1, <2>3, <2>6, Zenon
  <2>. QED
    BY <2>5, <2>6
<1>5. ASSUME NEW t \in Thread
      PROVE  (\E i \in 1 .. Len(todo[t]) : j = {todo[t][i][1], todo[t][i][2]}) <=>
               \E k \in Nat : LET s == <<"pair", t, k>>
                              IN  Held[One(s)] # NONE /\ j = {Held[One(s)], Held[Two(s)]}
  <2>1. todo[t] \in Seq(Port \X Port) /\ Len(todo[t]) \in Nat
    BY DEF LinkInv, LinkTypes, Links
  <2>2. ASSUME NEW k \in Nat
        PROVE  /\ Held[One(<<"pair", t, k>>)] =
                    IF k < Len(todo[t]) THEN todo[t][Len(todo[t]) - k][1] ELSE NONE
               /\ Held[Two(<<"pair", t, k>>)] =
                    IF k < Len(todo[t]) THEN todo[t][Len(todo[t]) - k][2] ELSE NONE
    BY HeldPairs, SpotPlaces, ZenonT(90)
  <2>3. ASSUME NEW i \in 1 .. Len(todo[t]), j = {todo[t][i][1], todo[t][i][2]}
        PROVE  \E k \in Nat : LET s == <<"pair", t, k>>
                              IN  Held[One(s)] # NONE /\ j = {Held[One(s)], Held[Two(s)]}
    <3>1. PICK k \in Nat : k < Len(todo[t]) /\ Len(todo[t]) - k = i
      <4>1. ASSUME NEW n \in Nat, NEW e \in 1 .. n
            PROVE  n - e \in Nat /\ n - e < n /\ n - (n - e) = e
        OBVIOUS
      <4>. QED
        BY <2>1, <4>1
    <3>2. todo[t][i] \in Port \X Port
      BY <2>1
    <3>3. todo[t][i][1] # NONE
      BY <1>0, <3>2
    <3>4. Held[One(<<"pair", t, k>>)] = todo[t][i][1] /\ Held[Two(<<"pair", t, k>>)] = todo[t][i][2]
      BY <2>2, <3>1, Zenon
    <3>. QED
      BY <2>3, <3>3, <3>4, Zenon
  <2>4. ASSUME NEW k \in Nat, Held[One(<<"pair", t, k>>)] # NONE,
               j = {Held[One(<<"pair", t, k>>)], Held[Two(<<"pair", t, k>>)]}
        PROVE  \E i \in 1 .. Len(todo[t]) : j = {todo[t][i][1], todo[t][i][2]}
    <3>1. k < Len(todo[t])
      BY <2>2, <2>4, Zenon
    <3>2. PICK i \in 1 .. Len(todo[t]) : i = Len(todo[t]) - k
      <4>1. ASSUME NEW n \in Nat, k < n PROVE n - k \in 1 .. n
        BY <4>1
      <4>. QED
        BY <2>1, <3>1, <4>1
    <3>3. Held[One(<<"pair", t, k>>)] = todo[t][i][1] /\ Held[Two(<<"pair", t, k>>)] = todo[t][i][2]
      BY <2>2, <3>1, <3>2, Zenon
    <3>. QED
      BY <2>4, <3>3
  <2>. QED
    BY <2>3, <2>4
<1>6. ASSUME NEW t \in Thread
      PROVE  (pc[t] \in Linking /\ j = {A[t], B[t]}) <=>
               LET s == <<"hand", t, 0>>
               IN  Held[One(s)] # NONE /\ j = {Held[One(s)], Held[Two(s)]}
  BY <1>0, HeldHands, SpotPlaces DEF LinkInv, LocalInv
<1>7. ASSUME NEW x \in Var
      PROVE  (x \in Substituted /\ j = {x, vars_buf[x]}) <=>
               LET s == <<"cell", x, 0>>
               IN  Held[One(s)] # NONE /\ j = {Held[One(s)], Held[Two(s)]}
  BY <1>0, HeldCells, SpotPlaces DEF Substituted
<1>. DEFINE At2(s) == Held[One(s)] # NONE /\ j = {Held[One(s)], Held[Two(s)]}
<1>8. j \in Joints <=> \/ \E t \in Thread : \/ \E k \in Nat : At2(<<"pair", t, k>>)
                                            \/ At2(<<"hand", t, 0>>)
                       \/ \E x \in Var : At2(<<"cell", x, 0>>)
  <2>1. Substituted \subseteq Var
    BY DEF Substituted
  <2>. QED
    BY <1>1, <1>4, <1>5, <1>6, <1>7, <2>1
<1>9. (\E s \in Spot : At2(s)) <=> \/ \E t \in Thread : \/ \E k \in Nat : At2(<<"pair", t, k>>)
                                                        \/ At2(<<"hand", t, 0>>)
                                   \/ \E x \in Var : At2(<<"cell", x, 0>>)
  <2>. HIDE DEF At2
  <2>. QED
    BY SpotKinds
<1>. QED
  BY <1>2, <1>8, <1>9

LEMMA JointsPorts ==
  ASSUME LinkInv, NEW j \in Joints
  PROVE  j \subseteq Port
<1>1. PICK s \in Spot : Held[One(s)] # NONE /\ j = {Held[One(s)], Held[Two(s)]}
  BY JointsHeld, JointIn
<1>. QED
  BY <1>1, SpotHolds

-----------------------------------------------------------------------------
(* What a step makes of the joints.                                        *)

\* The joints of a state whose places hold what m says.
LEMMA BecomesJoints ==
  ASSUME NEW m, Becomes(m)
  PROVE  JointsIn(Held', Spot) = JointsIn(m, Spot)
BY JointsAgree, SpotsApart DEF Becomes

JointsNow == Joints = JointsIn(Held, Spot)

LEMMA JointsHeldNext == LinkInv' => Joints' = JointsIn(Held', Spot)
<1>1. LinkInv => JointsNow
  BY JointsHeld DEF JointsNow
<1>2. LinkInv' => JointsNow'
  BY <1>1, PTL
<1>. QED
  BY <1>2 DEF JointsNow

\* Maps that agree but for two spots.
LEMMA TwoSpots ==
  ASSUME NEW m, NEW n, NEW u \in Spot, NEW v \in Spot,
         \A p \in Place \ {One(u), Two(u), One(v), Two(v)} : m[p] = n[p]
  PROVE  JointsIn(m, Spot \ {u, v}) = JointsIn(n, Spot \ {u, v})
<1>1. ASSUME NEW s \in Spot \ {u, v} PROVE m[One(s)] = n[One(s)] /\ m[Two(s)] = n[Two(s)]
  <2>1. One(s) \in Place /\ Two(s) \in Place
    BY SpotsApart
  <2>2. One(s) \notin {One(u), Two(u), One(v), Two(v)}
    BY SpotsApart
  <2>3. Two(s) \notin {One(u), Two(u), One(v), Two(v)}
    BY SpotsApart
  <2>. QED
    BY <2>1, <2>2, <2>3
<1>. QED
  BY <1>1, JointsAgree

\* A port that only the places of two spots hold is in no joint of the others.
LEMMA JointLess ==
  ASSUME NEW m, NEW u \in Spot, NEW v \in Spot, NEW x,
         \A p \in Place \ {One(u), Two(u), One(v), Two(v)} : m[p] # x,
         NEW j \in JointsIn(m, Spot \ {u, v})
  PROVE  x \notin j
<1>1. PICK s \in Spot \ {u, v} : j = {m[One(s)], m[Two(s)]}
  BY JointIn
<1>2. One(s) \in Place /\ Two(s) \in Place
  BY SpotsApart
<1>3. One(s) \notin {One(u), Two(u), One(v), Two(v)}
  BY SpotsApart
<1>4. Two(s) \notin {One(u), Two(u), One(v), Two(v)}
  BY SpotsApart
<1>. QED
  BY <1>1, <1>2, <1>3, <1>4

\* A variable held in two places is held in no third.
LEMMA NoThird ==
  ASSUME LinkInv, NEW x \in Var, NEW p \in Place, NEW q \in Place, p # q,
         Held[p] = x, Held[q] = x
  PROVE  x \notin Root /\ \A r \in Place \ {p, q} : Held[r] # x
<1>1. Owed(x) = 2 /\ Tallied(Held, x, 2)
  BY HeldLive, BalancedTallies
<1>2. x \notin Root
  BY <1>1 DEF Owed
<1>. DEFINE S == Tally(Held, x)
<1>3. p \in S /\ q \in S /\ IsFiniteSet(S) /\ Cardinality(S) = 2
  BY <1>1 DEF Tally, Tallied
<1>4. \A r \in Place : Held[r] = x => r \in S
  BY DEF Tally
<1>. HIDE DEF S
<1>5. IsFiniteSet(S \ {p}) /\ Cardinality(S \ {p}) = 2 - 1
  BY <1>3, FS_RemoveElement
<1>6. IsFiniteSet((S \ {p}) \ {q}) /\ Cardinality((S \ {p}) \ {q}) = 2 - 1 - 1
  <2>1. q \in S \ {p}
    BY <1>3
  <2>. QED
    BY <1>5, <2>1, FS_RemoveElement
<1>7. (S \ {p}) \ {q} = {}
  BY <1>6, FS_EmptySet
<1>. QED
  BY <1>2, <1>4, <1>7

\* Maps that agree but for two spots whose joints are the same together.
LEMMA SameJoints ==
  ASSUME NEW m, NEW n, NEW u \in Spot, NEW v \in Spot,
         \A p \in Place \ {One(u), Two(u), One(v), Two(v)} : m[p] = n[p],
         JointAt(m, u) \cup JointAt(m, v) = JointAt(n, u) \cup JointAt(n, v)
  PROVE  JointsIn(m, Spot) = JointsIn(n, Spot)
<1>1. JointsIn(m, Spot \ {u, v}) = JointsIn(n, Spot \ {u, v})
  BY TwoSpots
<1>2. /\ JointsIn(m, Spot) = (JointsIn(m, Spot \ {u, v}) \cup JointAt(m, u)) \cup JointAt(m, v)
      /\ JointsIn(n, Spot) = (JointsIn(n, Spot \ {u, v}) \cup JointAt(n, u)) \cup JointAt(n, v)
  BY JointsSplit
<1>. QED
  BY <1>1, <1>2

\* The joints do not change: a call, a port stored, two hands exchanged.
LEMMA CalledJoints ==
  ASSUME LinkInv, NEW t \in Thread, NEW j \in Nat, Called(t, j)
  PROVE  JointsIn(Held', Spot) = JointsIn(Held, Spot)
<1>. DEFINE f == <<"first", t, j>>
            s == <<"second", t, j>>
            a == <<"A", t, 0>>
            b == <<"B", t, 0>>
            u == <<"pair", t, j>>
            v == <<"hand", t, 0>>
            m == Swap(Swap(Held, f, a), s, b)
<1>1. /\ f \in Place /\ s \in Place /\ a \in Place /\ b \in Place
      /\ f # s /\ f # a /\ f # b /\ s # a /\ s # b /\ a # b
  BY PlaceKinds
<1>2. u \in Spot /\ v \in Spot /\ One(u) = f /\ Two(u) = s /\ One(v) = a /\ Two(v) = b
  BY SpotKinds, SpotPlaces
<1>3. Held[a] = NONE /\ Held[b] = NONE /\ Becomes(m)
  BY DEF Called
<1>4. /\ m[f] = NONE /\ m[s] = NONE /\ m[a] = Held[f] /\ m[b] = Held[s]
      /\ \A p \in Place \ {f, s, a, b} : m[p] = Held[p]
  BY <1>1, <1>3 DEF Swap
<1>. HIDE DEF f, s, a, b, u, v, m
<1>5. JointAt(m, u) \cup JointAt(m, v) = JointAt(Held, u) \cup JointAt(Held, v)
  BY <1>2, <1>3, <1>4 DEF JointAt
<1>6. JointsIn(m, Spot) = JointsIn(Held, Spot)
  BY <1>2, <1>4, <1>5, SameJoints
<1>. QED
  BY <1>3, <1>6, BecomesJoints

LEMMA StoredJoints ==
  ASSUME LinkInv, NEW t \in Thread, NEW c, Stored(t, c)
  PROVE  JointsIn(Held', Spot) = JointsIn(Held, Spot)
<1>. DEFINE a == <<"A", t, 0>>
            b == <<"B", t, 0>>
            l == <<"cell", c, 0>>
            s == <<"self", c, 0>>
            u == <<"hand", t, 0>>
            v == <<"cell", c, 0>>
            m == Swap(Swap(Held, a, s), b, l)
<1>0. c \in Var
  BY DEF Stored
<1>1. /\ a \in Place /\ b \in Place /\ l \in Place /\ s \in Place
      /\ a # b /\ a # l /\ a # s /\ b # l /\ b # s /\ l # s
  BY <1>0, PlaceKinds
<1>2. u \in Spot /\ v \in Spot /\ One(u) = a /\ Two(u) = b /\ One(v) = l /\ Two(v) = s
  BY <1>0, SpotKinds, SpotPlaces
<1>3. Held[l] = NONE /\ Held[s] = NONE /\ Held[a] = c /\ Becomes(m)
  BY DEF Stored
<1>4. /\ m[a] = NONE /\ m[b] = NONE /\ m[l] = Held[b] /\ m[s] = Held[a]
      /\ \A p \in Place \ {a, b, l, s} : m[p] = Held[p]
  BY <1>1, <1>3 DEF Swap
<1>5. Held[a] # NONE /\ Held[b] # NONE
  BY <1>0, <1>2, <1>3, SpotHolds, LinkerAssumption DEF Port
<1>. HIDE DEF a, b, l, s, u, v, m
<1>6. JointAt(m, u) \cup JointAt(m, v) = JointAt(Held, u) \cup JointAt(Held, v)
  BY <1>2, <1>3, <1>4, <1>5 DEF JointAt
<1>7. JointsIn(m, Spot) = JointsIn(Held, Spot)
  BY <1>2, <1>4, <1>6, SameJoints
<1>. QED
  BY <1>3, <1>7, BecomesJoints

LEMMA OrientedJoints ==
  ASSUME LinkInv, NEW t \in Thread,
         Becomes(Held) \/ Becomes(Swap(Held, <<"A", t, 0>>, <<"B", t, 0>>))
  PROVE  JointsIn(Held', Spot) = JointsIn(Held, Spot)
<1>. DEFINE a == <<"A", t, 0>>
            b == <<"B", t, 0>>
            u == <<"hand", t, 0>>
            m == Swap(Held, a, b)
<1>1. a \in Place /\ b \in Place /\ a # b
  BY PlaceKinds
<1>2. u \in Spot /\ One(u) = a /\ Two(u) = b
  BY SpotKinds, SpotPlaces
<1>3. m[a] = Held[b] /\ m[b] = Held[a] /\ \A p \in Place \ {a, b} : m[p] = Held[p]
  BY <1>1 DEF Swap
<1>4. Held[a] = NONE <=> Held[b] = NONE
  BY <1>2, SpotHolds, LinkerAssumption
<1>5. CASE Becomes(m)
  <2>. HIDE DEF a, b, u, m
  <2>1. JointAt(m, u) = JointAt(Held, u)
    BY <1>2, <1>3, <1>4 DEF JointAt
  <2>2. JointsIn(m, Spot) = JointsIn(Held, Spot)
    BY <1>2, <1>3, <2>1, SameJoints
  <2>. QED
    BY <1>5, <2>2, BecomesJoints
<1>6. CASE Becomes(Held)
  BY <1>6, BecomesJoints
<1>. QED
  BY <1>5, <1>6

\* Followed, a cell's substitution takes the place of its variable: the variable
\* was in the joints of the hands and of the cell only.
LEMMA FollowedWires ==
  ASSUME LinkInv, NEW t \in Thread, NEW c \in Var, c \in Substituted,
         NEW h, NEW g, h # g,
         \/ h = <<"A", t, 0>> /\ g = <<"B", t, 0>>
         \/ g = <<"A", t, 0>> /\ h = <<"B", t, 0>>,
         Held[h] = c, Becomes(Followed(c, h))
  PROVE  WiresIn(JointsIn(Held', Spot)) = WiresIn(JointsIn(Held, Spot))
<1>. DEFINE l == <<"cell", c, 0>>
            s == <<"self", c, 0>>
            u == <<"hand", t, 0>>
            v == <<"cell", c, 0>>
            m == Followed(c, h)
            S == Spot \ {u, v}
<1>1. /\ h \in Place /\ g \in Place /\ l \in Place /\ s \in Place
      /\ h # l /\ h # s /\ g # l /\ g # s /\ l # s
  <2>1. <<"A", t, 0>> \in Place /\ <<"B", t, 0>> \in Place /\ l \in Place /\ s \in Place
    BY PlaceKinds
  <2>. QED
    BY <2>1
<1>2. /\ u \in Spot /\ v \in Spot /\ One(v) = l /\ Two(v) = s
      /\ \/ One(u) = h /\ Two(u) = g
         \/ One(u) = g /\ Two(u) = h
  <2>1. /\ u \in Spot /\ v \in Spot /\ One(v) = l /\ Two(v) = s
        /\ One(u) = <<"A", t, 0>> /\ Two(u) = <<"B", t, 0>>
    BY SpotKinds, SpotPlaces, Zenon
  <2>2. CASE h = <<"A", t, 0>> /\ g = <<"B", t, 0>>
    <3>1. One(u) = h /\ Two(u) = g
      BY <2>1, <2>2, Zenon
    <3>. QED
      BY <2>1, <3>1, Zenon
  <2>3. CASE g = <<"A", t, 0>> /\ h = <<"B", t, 0>>
    BY <2>1, <2>3
  <2>. QED
    BY <2>2, <2>3
<1>3. /\ m[h] = Held[l] /\ m[l] = NONE /\ m[g] = Held[g]
      /\ \A p \in Place \ {h, g, l, s} : m[p] = Held[p]
  BY <1>1 DEF Followed, Swap, Drop
<1>4. Held[l] = vars_buf[c] /\ Held[s] = c /\ vars_buf[c] \in Port /\ vars_buf[c] # NONE
      /\ c # NONE
  BY HeldCells, LinkerAssumption DEF Substituted, Port
<1>. HIDE DEF l, s, u, v, m, S
<1>5. c \notin Root /\ \A r \in Place \ {h, s} : Held[r] # c
  BY <1>1, <1>4, NoThird
<1>6. Held[g] \in Port /\ Held[g] # c /\ Held[g] # NONE /\ vars_buf[c] # c
  <2>1. Held[g] \in Port
    BY <1>2, <1>4, SpotHolds
  <2>. QED
    BY <1>1, <1>4, <1>5, <2>1, LinkerAssumption
<1>7. JointAt(Held, u) = {{Held[g], c}} /\ JointAt(Held, v) = {{c, vars_buf[c]}}
  BY <1>2, <1>4, <1>6 DEF JointAt
<1>8. JointAt(m, u) = {{Held[g], vars_buf[c]}} /\ JointAt(m, v) = {}
  BY <1>2, <1>3, <1>4, <1>6 DEF JointAt
<1>9. JointsIn(m, S) = JointsIn(Held, S)
  BY <1>2, <1>3, TwoSpots DEF S
<1>10. \A j \in JointsIn(Held, S) : c \notin j
  BY <1>2, <1>5, JointLess DEF S
<1>11. c \in Port /\ c \notin Ends
  BY <1>5, LinkerAssumption DEF Port, Ends
<1>12. JointsIn(Held, Spot) = JointsIn(Held, S) \cup {{Held[g], c}, {c, vars_buf[c]}}
  <2>1. JointsIn(Held, Spot) = (JointsIn(Held, S) \cup JointAt(Held, u)) \cup JointAt(Held, v)
    BY <1>2, JointsSplit DEF S
  <2>. QED
    BY <1>7, <2>1
<1>13. JointsIn(m, Spot) = JointsIn(Held, S) \cup {{Held[g], vars_buf[c]}}
  <2>1. JointsIn(m, Spot) = (JointsIn(m, S) \cup JointAt(m, u)) \cup JointAt(m, v)
    BY <1>2, JointsSplit DEF S
  <2>. QED
    BY <1>8, <1>9, <2>1
<1>14. WiresIn(JointsIn(Held, S) \cup {{Held[g], c}, {c, vars_buf[c]}})
         = WiresIn(JointsIn(Held, S) \cup {{Held[g], vars_buf[c]}})
  <2>1. PICK K, a, b : K = JointsIn(Held, S) /\ a = Held[g] /\ b = vars_buf[c]
    OBVIOUS
  <2>2. Hinge(K, a, c, b)
    BY <1>4, <1>6, <1>10, <1>11, <2>1 DEF Hinge
  <2>3. WiresIn(K \cup {{a, c}, {c, b}}) = WiresIn(K \cup {{a, b}})
    BY <2>2, Contract
  <2>. QED
    BY <2>1, <2>3
<1>15. JointsIn(Held', Spot) = JointsIn(m, Spot)
  BY BecomesJoints DEF m
<1>. QED
  BY <1>12, <1>13, <1>14, <1>15

\* Created in the middle of a wire, a variable is in the two joints of its halves
\* only.
LEMMA CreatedWires ==
  ASSUME LinkInv, NEW t \in Thread, NEW j \in Nat, NEW c, Created(t, j, c)
  PROVE  WiresIn(JointsIn(Held', Spot)) = WiresIn(JointsIn(Held, Spot))
<1>. DEFINE f == <<"first", t, j>>
            s == <<"second", t, j>>
            g == <<"first", t, j + 1>>
            h == <<"second", t, j + 1>>
            u == <<"pair", t, j>>
            v == <<"pair", t, j + 1>>
            m == Put(Put(Swap(Held, f, g), f, c), h, c)
            S == Spot \ {u, v}
<1>1. /\ f \in Place /\ s \in Place /\ g \in Place /\ h \in Place
      /\ f # s /\ f # g /\ f # h /\ s # g /\ s # h /\ g # h
  <2>1. j + 1 \in Nat /\ j + 1 # j
    OBVIOUS
  <2>. QED
    BY <2>1, PlaceKinds
<1>2. /\ u \in Spot /\ v \in Spot
      /\ One(u) = f /\ Two(u) = s /\ One(v) = g /\ Two(v) = h
  <2>1. j + 1 \in Nat
    OBVIOUS
  <2>2. u \in Spot /\ v \in Spot
    BY <2>1, SpotKinds, Zenon
  <2>3. One(u) = f /\ Two(u) = s
    BY SpotPlaces, Zenon
  <2>4. One(v) = g /\ Two(v) = h
    BY SpotPlaces, Zenon
  <2>. QED
    BY <2>2, <2>3, <2>4
<1>3. /\ c \in Var \ Root /\ \A p \in Place : Held[p] # c
      /\ Held[g] = NONE /\ Held[h] = NONE /\ Held[f] \in Port /\ Held[s] \in Port
      /\ Becomes(m)
  BY DEF Created
<1>. HIDE DEF f, s, g, h, u, v, S
<1>4. /\ m[f] = c /\ m[s] = Held[s] /\ m[g] = Held[f] /\ m[h] = c
      /\ \A p \in Place \ {f, s, g, h} : m[p] = Held[p]
  BY <1>1 DEF Swap, Put
<1>. HIDE DEF m
<1>5. c \in Port /\ c # NONE /\ NONE \notin Port /\ c \notin Ends
      /\ Held[f] # c /\ Held[s] # c
  BY <1>1, <1>3, LinkerAssumption DEF Port, Ends
<1>6. JointAt(Held, u) = {{Held[f], Held[s]}} /\ JointAt(Held, v) = {}
  BY <1>2, <1>3, <1>5 DEF JointAt
<1>7. JointAt(m, u) = {{c, Held[s]}} /\ JointAt(m, v) = {{Held[f], c}}
  <2>1. m[f] # NONE /\ m[g] # NONE
    BY <1>3, <1>4, <1>5
  <2>. QED
    BY <1>2, <1>4, <2>1 DEF JointAt
<1>8. JointsIn(m, S) = JointsIn(Held, S)
  BY <1>2, <1>4, TwoSpots DEF S
<1>9. \A k \in JointsIn(Held, S) : c \notin k
  BY <1>2, <1>3, JointLess DEF S
<1>10. JointsIn(Held, Spot) = JointsIn(Held, S) \cup {{Held[f], Held[s]}}
  <2>1. JointsIn(Held, Spot) = (JointsIn(Held, S) \cup JointAt(Held, u)) \cup JointAt(Held, v)
    BY <1>2, JointsSplit DEF S
  <2>. QED
    BY <1>6, <2>1
<1>11. JointsIn(m, Spot) = JointsIn(Held, S) \cup {{Held[f], c}, {c, Held[s]}}
  <2>1. JointsIn(m, Spot) = (JointsIn(m, S) \cup JointAt(m, u)) \cup JointAt(m, v)
    BY <1>2, JointsSplit DEF S
  <2>. QED
    BY <1>7, <1>8, <2>1
<1>12. WiresIn(JointsIn(Held, S) \cup {{Held[f], c}, {c, Held[s]}})
         = WiresIn(JointsIn(Held, S) \cup {{Held[f], Held[s]}})
  <2>1. PICK K, a, b : K = JointsIn(Held, S) /\ a = Held[f] /\ b = Held[s]
    OBVIOUS
  <2>2. Hinge(K, a, c, b)
    BY <1>3, <1>5, <1>9, <2>1 DEF Hinge
  <2>3. WiresIn(K \cup {{a, c}, {c, b}}) = WiresIn(K \cup {{a, b}})
    BY <2>2, Contract
  <2>. QED
    BY <2>1, <2>3
<1>13. JointsIn(Held', Spot) = JointsIn(m, Spot)
  BY <1>3, BecomesJoints
<1>. QED
  BY <1>10, <1>11, <1>12, <1>13

\* The pair a thread pushes is a wire of its own, and the only one that goes.
LEMMA PushedWires ==
  ASSUME WireInv, NEW t \in Thread, NEW a \in Node, NEW b \in Node,
         Held[<<"A", t, 0>>] = a, Held[<<"B", t, 0>>] = b,
         Becomes(Drop(Drop(Held, <<"A", t, 0>>), <<"B", t, 0>>))
  PROVE  /\ {a, b} \in WiresIn(JointsIn(Held, Spot))
         /\ WiresIn(JointsIn(Held', Spot)) = WiresIn(JointsIn(Held, Spot)) \ {{a, b}}
<1>. DEFINE p == <<"A", t, 0>>
            q == <<"B", t, 0>>
            u == <<"hand", t, 0>>
            m == Drop(Drop(Held, p), q)
            S == Spot \ {u, u}
<1>1. p \in Place /\ q \in Place /\ p # q
  BY PlaceKinds
<1>2. u \in Spot /\ One(u) = p /\ Two(u) = q
  BY SpotKinds, SpotPlaces
<1>3. m[p] = NONE /\ m[q] = NONE /\ \A r \in Place \ {p, q} : m[r] = Held[r]
  BY <1>1 DEF Drop
<1>4. Becomes(m) /\ Held[p] = a /\ Held[q] = b /\ a # NONE /\ LinkInv
  BY LinkerAssumption DEF Port, WireInv
<1>. HIDE DEF p, q, u, m, S
<1>5. a # b /\ \A r \in Place \ {p, q} : Held[r] # a /\ Held[r] # b
  BY <1>1, <1>4 DEF WireInv, Once
<1>6. JointAt(Held, u) = {{a, b}} /\ JointAt(m, u) = {}
  BY <1>2, <1>3, <1>4 DEF JointAt
<1>7. PICK K : K = JointsIn(Held, S)
  OBVIOUS
<1>8. JointsIn(m, S) = K
  BY <1>2, <1>3, <1>7, TwoSpots DEF S
<1>9. JointsIn(Held, Spot) = K \cup {{a, b}}
  <2>1. JointsIn(Held, Spot) = (K \cup JointAt(Held, u)) \cup JointAt(Held, u)
    BY <1>2, <1>7, JointsSplit DEF S
  <2>. QED
    BY <1>6, <2>1
<1>10. JointsIn(m, Spot) = K
  <2>1. JointsIn(m, Spot) = (K \cup JointAt(m, u)) \cup JointAt(m, u)
    BY <1>2, <1>8, JointsSplit DEF S
  <2>. QED
    BY <1>6, <2>1
<1>11. ASSUME NEW j \in K PROVE j \subseteq Port /\ a \notin j /\ b \notin j
  <2>1. a \notin j
    BY <1>2, <1>5, <1>7, JointLess DEF S
  <2>2. b \notin j
    BY <1>2, <1>5, <1>7, JointLess DEF S
  <2>3. PICK s \in S : Held[One(s)] # NONE /\ j = {Held[One(s)], Held[Two(s)]}
    BY <1>7, JointIn
  <2>4. j \subseteq Port
    BY <1>4, <2>3, SpotHolds DEF S
  <2>. QED
    BY <2>1, <2>2, <2>4
<1>12. {a, b} \in WiresIn(K \cup {{a, b}}) /\ WiresIn(K) = WiresIn(K \cup {{a, b}}) \ {{a, b}}
  BY <1>5, <1>11, Resolve
<1>13. JointsIn(Held', Spot) = JointsIn(m, Spot)
  BY <1>4, BecomesJoints
<1>. QED
  BY <1>9, <1>10, <1>12, <1>13

LEMMA WiresNext == WiresOf' = WiresIn(Joints')
BY DEF WiresOf

\* A step keeps the wires, or resolves one.
LEMMA NextWires ==
  ASSUME WireInv, LinkInv', NEW t \in Thread, Step(t)
  PROVE  \/ WiresOf' = WiresOf /\ redexes' = redexes
         \/ \E w \in SUBSET Node : /\ w \in WiresOf /\ WiresOf' = WiresOf \ {w}
                                   /\ redexes' = redexes \cup {w}
<1>1. WiresOf = WiresIn(JointsIn(Held, Spot)) /\ WiresOf' = WiresIn(JointsIn(Held', Spot))
  <2>1. Joints = JointsIn(Held, Spot)
    BY JointsHeld DEF WireInv
  <2>2. Joints' = JointsIn(Held', Spot)
    BY JointsHeldNext
  <2>. QED
    BY <2>1, <2>2, WiresNow, WiresNext
<1>2. LinkInv
  BY DEF WireInv
<1>3. CASE PushRedex(t)
  <2>1. PICK a, b : a = A[t] /\ b = B[t]
    OBVIOUS
  <2>2. a \in Node /\ b \in Node /\ redexes' = redexes \cup {{a, b}}
    BY <1>2, <1>3, <2>1 DEF PushRedex, LinkInv, LocalInv, Linking, Port
  <2>3. /\ Held[<<"A", t, 0>>] = a /\ Held[<<"B", t, 0>>] = b
        /\ Becomes(Drop(Drop(Held, <<"A", t, 0>>), <<"B", t, 0>>))
    BY <1>2, <1>3, <2>1, PushBalanced
  <2>4. {a, b} \in WiresOf /\ WiresOf' = WiresOf \ {{a, b}}
    BY <1>1, <2>2, <2>3, PushedWires
  <2>. QED
    BY <2>2, <2>4
<1>4. ASSUME ~PushRedex(t) PROVE redexes' = redexes
  BY <1>4 DEF Step, Call, Orient, EnterExchange, EnterTake, PointExchange, PointTake,
              AllocFind, Create
<1>5. ASSUME ~PushRedex(t) PROVE WiresOf' = WiresOf
  <2>. SUFFICES WiresIn(JointsIn(Held', Spot)) = WiresIn(JointsIn(Held, Spot))
    BY <1>1
  <2>0. <<"A", t, 0>> # <<"B", t, 0>> /\ Substituted \subseteq Var
    BY DEF Substituted
  <2>1. CASE Call(t)
    BY <1>2, <2>1, CallBalanced, CalledJoints
  <2>2. CASE Orient(t)
    BY <1>2, <2>2, OrientBalanced, OrientedJoints
  <2>3. CASE EnterExchange(t)
    <3>1. CASE Becomes(Held)
      BY <3>1, BecomesJoints
    <3>2. CASE \E c \in Substituted : /\ Held[<<"B", t, 0>>] = c
                                     /\ Becomes(Followed(c, <<"B", t, 0>>))
      <4>1. PICK c \in Substituted : /\ Held[<<"B", t, 0>>] = c
                                    /\ Becomes(Followed(c, <<"B", t, 0>>))
        BY <3>2
      <4>. QED
        BY <1>2, <2>0, <4>1, FollowedWires
    <3>. QED
      BY <1>2, <2>3, <3>1, <3>2, EnterBalanced
  <2>4. CASE EnterTake(t) \/ PointTake(t)
    BY <1>2, <2>4, TakeBalanced, BecomesJoints
  <2>5. CASE PointExchange(t)
    <3>1. CASE \E c : Stored(t, c)
      BY <1>2, <3>1, StoredJoints
    <3>2. CASE \E c \in Substituted : /\ Held[<<"A", t, 0>>] = c
                                     /\ Becomes(Followed(c, <<"A", t, 0>>))
      <4>1. PICK c \in Substituted : /\ Held[<<"A", t, 0>>] = c
                                    /\ Becomes(Followed(c, <<"A", t, 0>>))
        BY <3>2
      <4>. QED
        BY <1>2, <2>0, <4>1, FollowedWires
    <3>. QED
      BY <1>2, <2>5, <3>1, <3>2, PointBalanced
  <2>6. CASE AllocFind(t)
    BY <1>2, <2>6, AllocBalanced, BecomesJoints
  <2>7. CASE Create(t)
    BY <1>2, <2>7, CreateBalanced, CreatedWires
  <2>. QED
    BY <1>5, <2>1, <2>2, <2>3, <2>4, <2>5, <2>6, <2>7 DEF Step
<1>. QED
  BY <1>3, <1>4, <1>5

LEMMA NextWire == WireInv /\ [Next]_vars => WireInv'
<1>. SUFFICES ASSUME WireInv, [Next]_vars PROVE WireInv'
  OBVIOUS
<1>1. LinkInv'
  BY NextLink DEF WireInv
<1>2. CASE Next
  BY <1>1, <1>2, NextOnce DEF Next, WireInv
<1>3. CASE UNCHANGED vars
  <2>1. Held' = Held
    BY <1>3 DEF vars, Held, At, Substituted, Deleting
  <2>. QED
    BY <1>1, <2>1 DEF WireInv, Once
<1>. QED
  BY <1>2, <1>3

-----------------------------------------------------------------------------
(* The theorems.                                                           *)

\* However the calls of link and enter interleave (hvm.c:794-841), no wire is lost,
\* invented, crossed or resolved twice: link is its abstract specification.
THEOREM LinkerImplementsWires == Spec => ImplementsWires
<1>1. Init => WireInv
  BY InitLink, InitOnce DEF WireInv
<1>2. Init => W!Init
  <2>. SUFFICES ASSUME Init PROVE W!Init
    OBVIOUS
  <2>1. LinkInv
    BY InitLink
  <2>2. \A j \in Joints : j \subseteq Port
    BY <2>1, JointsPorts
  <2>3. W!IsWiring(WiresOf)
    BY <2>2, WiresNow, WiresPair
  <2>. QED
    BY <2>3 DEF W!Init, Init
<1>3. WireInv /\ [Next]_vars => [W!Next]_<<WiresOf, redexes>>
  <2>. SUFFICES ASSUME WireInv, [Next]_vars PROVE [W!Next]_<<WiresOf, redexes>>
    OBVIOUS
  <2>1. LinkInv'
    BY NextLink DEF WireInv
  <2>2. CASE Next
    <3>1. PICK t \in Thread : Step(t)
      BY <2>2 DEF Next
    <3>2. CASE WiresOf' = WiresOf /\ redexes' = redexes
      BY <3>2
    <3>3. CASE \E w \in SUBSET Node : /\ w \in WiresOf /\ WiresOf' = WiresOf \ {w}
                                      /\ redexes' = redexes \cup {w}
      BY <3>3 DEF W!Next, W!Connect
    <3>. QED
      BY <2>1, <3>1, <3>2, <3>3, NextWires
  <2>3. CASE UNCHANGED vars
    <3>1. Joints' = Joints
      BY <2>3 DEF vars, Joints, JointsOf, HeldBy, Substituted, Deleting
    <3>2. WiresOf' = WiresOf
      BY <3>1, WiresNow, WiresNext
    <3>. QED
      BY <2>3, <3>2 DEF vars
  <2>. QED
    BY <2>2, <2>3
<1>. QED
  BY <1>1, <1>2, <1>3, NextWire, PTL DEF Spec, ImplementsWires, W!Spec

-----------------------------------------------------------------------------
(* What peek follows.                                                      *)

\* One step of peek, and k steps of it.
Onward(p) == IF p \in Var /\ vars_buf[p] \notin {FREE, NONE} THEN vars_buf[p] ELSE p

Path(f, v, k) == f = [n \in 0 .. k |-> IF n = 0 THEN v ELSE Onward(f[n - 1])]

LEMMA PathExists ==
  ASSUME NEW v, NEW k \in Nat
  PROVE  \E f : Path(f, v, k)
<1>. DEFINE S == {i \in Nat : ~\E f : Path(f, v, i)}
<1>. SUFFICES ASSUME S # {} PROVE FALSE
  OBVIOUS
<1>1. PICK i \in S : \A j \in S : ~(j < i)
  <2>1. S \in SUBSET Nat
    OBVIOUS
  <2>. HIDE DEF S
  <2>. QED
    BY <2>1, Least
<1>2. i \in Nat /\ ~\E f : Path(f, v, i)
  OBVIOUS
<1>3. i # 0
  <2>1. Path([n \in 0 .. 0 |-> v], v, 0)
    BY DEF Path
  <2>. QED
    BY <1>2, <2>1
<1>4. PICK f : Path(f, v, i - 1)
  <2>1. i - 1 \in Nat /\ i - 1 < i
    BY <1>2, <1>3
  <2>2. i - 1 \notin S
    BY <1>1, <2>1
  <2>. QED
    BY <2>1, <2>2
<1>5. \A n \in 0 .. i - 1 : f[n] = IF n = 0 THEN v ELSE Onward(f[n - 1])
  BY <1>4 DEF Path
<1>. DEFINE g == [n \in 0 .. i |-> IF n = i THEN Onward(f[i - 1]) ELSE f[n]]
<1>6. \A n \in 0 .. i : g[n] = IF n = 0 THEN v ELSE Onward(g[n - 1])
  <2>1. \A n \in 0 .. i : g[n] = IF n = i THEN Onward(f[i - 1]) ELSE f[n]
    OBVIOUS
  <2>2. ASSUME NEW n \in 0 .. i PROVE g[n] = IF n = 0 THEN v ELSE Onward(g[n - 1])
    <3>1. CASE n = 0
      BY <1>2, <1>3, <1>5, <3>1
    <3>2. CASE n = i
      <4>1. g[n] = Onward(f[i - 1])
        BY <1>2, <3>2
      <4>2. g[i - 1] = f[i - 1]
        BY <1>2, <1>3
      <4>. QED
        BY <1>3, <3>2, <4>1, <4>2
    <3>3. CASE n # 0 /\ n # i
      <4>1. n \in 0 .. i - 1 /\ n - 1 \in 0 .. i /\ n - 1 # i
        BY <1>2, <3>3
      <4>2. g[n] = f[n] /\ g[n - 1] = f[n - 1]
        BY <2>1, <3>3, <4>1
      <4>. QED
        BY <1>5, <3>3, <4>1, <4>2
    <3>. QED
      BY <3>1, <3>2, <3>3
  <2>. QED
    BY <2>2
<1>7. g = [n \in 0 .. i |-> g[n]]
  OBVIOUS
<1>. HIDE DEF g
<1>8. Path(g, v, i)
  <2>1. [n \in 0 .. i |-> g[n]] = [n \in 0 .. i |-> IF n = 0 THEN v ELSE Onward(g[n - 1])]
    BY <1>6
  <2>. QED
    BY <1>7, <2>1 DEF Path
<1>. QED
  BY <1>2, <1>8

LEMMA PeekIs ==
  ASSUME NEW v, NEW k, k = Cardinality(Var)
  PROVE  Peek(v) = (CHOOSE f : Path(f, v, k))[k]
BY DEF Peek, Path, Onward

-----------------------------------------------------------------------------
(* Reading back, when no call is in progress.                              *)

LEMMA QuietJoints ==
  ASSUME LinkInv, Quiescent
  PROVE  /\ \A j : j \in Joints <=> \E x \in Substituted : j = {x, vars_buf[x]}
         /\ \A x \in Var : x \in Substituted <=> vars_buf[x] \notin {FREE, NONE}
         /\ \A x \in Substituted : x \in Var /\ vars_buf[x] \in Port
<1>1. Deleting = {}
  BY DEF Quiescent, Deleting
<1>2. \A x \in Var : x \in Substituted <=> vars_buf[x] \notin {FREE, NONE}
  BY <1>1, LinkerAssumption DEF LinkInv, LinkTypes, Substituted
<1>3. ASSUME NEW t \in Thread PROVE JointsOf(t) = {}
  <2>1. HeldBy(t) = <<>>
    <3>1. todo[t] = <<>> /\ pc[t] = "idle"
      BY DEF Quiescent
    <3>. QED
      BY <3>1 DEF HeldBy
  <2>. QED
    BY <2>1 DEF JointsOf
<1>4. \A j : j \in Joints <=> \E x \in Substituted : j = {x, vars_buf[x]}
  BY <1>3 DEF Joints
<1>. QED
  BY <1>2, <1>4 DEF Substituted

\* The ports from which substitutions lead to q: the least set that has q and,
\* with a port, the variables it is the substitution of.
Backs(C) == \A x \in Substituted : vars_buf[x] \in C => x \in C
Back(q) == {p \in Port : \A C \in SUBSET Port : q \in C /\ Backs(C) => p \in C}

LEMMA BackClosed ==
  ASSUME LinkInv, Quiescent, NEW q \in Port, q \notin Substituted
  PROVE  /\ q \in Back(q) /\ Backs(Back(q)) /\ Closed(Joints, Back(q))
         /\ \A n \in Node : n \in Back(q) => n = q
<1>0. \A x \in Substituted : x \in Var /\ x \in Port /\ vars_buf[x] \in Port
  BY QuietJoints DEF Port
<1>1. q \in Back(q) /\ Back(q) \in SUBSET Port
  BY DEF Back
<1>2. \A C \in SUBSET Port : q \in C /\ Backs(C) => Back(q) \subseteq C
  BY DEF Back
<1>3. Backs(Back(q))
  <2>. SUFFICES ASSUME NEW x \in Substituted, vars_buf[x] \in Back(q),
                       NEW C \in SUBSET Port, q \in C, Backs(C)
                PROVE  x \in C
    BY <1>0 DEF Backs, Back
  <2>1. vars_buf[x] \in C
    BY <1>2
  <2>. QED
    BY <2>1 DEF Backs
<1>4. \A p \in Back(q) : p \in Substituted => vars_buf[p] \in Back(q)
  <2>. DEFINE C == {p \in Back(q) : p \in Substituted => vars_buf[p] \in Back(q)}
  <2>1. C \in SUBSET Port /\ q \in C
    BY <1>1
  <2>2. Backs(C)
    BY <1>3 DEF Backs
  <2>. HIDE DEF C
  <2>3. Back(q) \subseteq C
    BY <1>2, <2>1, <2>2
  <2>. QED
    BY <2>3 DEF C
<1>5. Closed(Joints, Back(q))
  <2>. SUFFICES ASSUME NEW j \in Joints PROVE j \subseteq Back(q) \/ j \cap Back(q) = {}
    BY DEF Closed
  <2>1. PICK x \in Substituted : j = {x, vars_buf[x]}
    BY QuietJoints
  <2>2. x \in Back(q) <=> vars_buf[x] \in Back(q)
    BY <1>3, <1>4 DEF Backs
  <2>. QED
    BY <2>1, <2>2
<1>6. ASSUME NEW n \in Node, n \in Back(q), n # q PROVE FALSE
  <2>. DEFINE C == Back(q) \ {n}
  <2>1. C \in SUBSET Port /\ q \in C
    BY <1>1, <1>6
  <2>2. Backs(C)
    BY <1>0, <1>3, LinkerAssumption DEF Backs
  <2>3. Back(q) \subseteq C
    BY <1>2, <2>1, <2>2
  <2>. QED
    BY <1>6, <2>3
<1>. QED
  BY <1>1, <1>3, <1>5, <1>6

\* From a port that is no variable no joint leads to another: no wire between two
\* is left.
LEMMA RootLeft ==
  ASSUME LinkInv, Quiescent, NEW w \in WiresOf
  PROVE  w \cap Root # {}
<1>. SUFFICES ASSUME w \cap Root = {} PROVE FALSE
  OBVIOUS
<1>1. PICK e \in Ends : w = Component(Joints, e) \cap Ends /\ Cardinality(w) = 2
  BY WiresNow DEF WiresIn
<1>2. e \in Port /\ e \in Component(Joints, e)
  BY ComponentPorts, LinkerAssumption DEF Ends, Port
<1>3. e \in Node /\ w \subseteq Node
  BY <1>1, <1>2 DEF Ends
<1>4. e \notin Substituted
  BY <1>3, LinkerAssumption DEF Substituted
<1>5. /\ e \in Back(e) /\ Closed(Joints, Back(e)) /\ Back(e) \in SUBSET Port
      /\ \A n \in Node : n \in Back(e) => n = e
  BY <1>2, <1>4, BackClosed DEF Back
<1>6. w \subseteq {e}
  BY <1>1, <1>2, <1>3, <1>5, JointsPorts, OneComponent
<1>7. w = {e}
  BY <1>1, <1>2, <1>6
<1>. QED
  <2>1. 1 # 2 /\ Cardinality({e}) = 1
    BY FS_Singleton
  <2>. QED
    BY <1>1, <1>7, <2>1, Zenon

\* A variable that is the substitution of a cell, and has one of its own, is no
\* root, nor the substitution of another cell.
LEMMA Before ==
  ASSUME LinkInv, NEW x \in Substituted, NEW y \in Substituted, NEW z \in Substituted,
         vars_buf[x] = z, vars_buf[y] = z
  PROVE  z \notin Root /\ x = y
<1>1. x \in Var /\ y \in Var /\ z \in Var
  BY DEF Substituted
<1>2. PICK p, q, r : p = <<"cell", x, 0>> /\ q = <<"cell", y, 0>> /\ r = <<"self", z, 0>>
  OBVIOUS
<1>3. p \in Place /\ q \in Place /\ r \in Place /\ p # r /\ q # r
  BY <1>1, <1>2, PlaceKinds
<1>4. Held[p] = z /\ Held[q] = z /\ Held[r] = z
  BY <1>1, <1>2, HeldCells
<1>5. z \notin Root /\ \A s \in Place \ {p, r} : Held[s] # z
  BY <1>1, <1>3, <1>4, NoThird
<1>6. p = q
  BY <1>3, <1>4, <1>5
<1>. QED
  BY <1>2, <1>5, <1>6

\* What a path does at each of its steps.
LEMMA PathSteps ==
  ASSUME NEW k \in Nat, NEW v, NEW f, Path(f, v, k)
  PROVE  /\ f[0] = v
         /\ \A i \in 0 .. k : i # 0 => i - 1 \in 0 .. k /\ f[i] = Onward(f[i - 1])
<1>1. \A i \in 0 .. k : f[i] = IF i = 0 THEN v ELSE Onward(f[i - 1])
  BY DEF Path
<1>. QED
  BY <1>1

\* A path to the end of the substitutions comes from behind that end.
LEMMA PathBack ==
  ASSUME LinkInv, Quiescent, NEW k \in Nat, NEW v, NEW f, Path(f, v, k),
         NEW C, f[k] \in C, Backs(C)
  PROVE  v \in C
<1>. DEFINE S == {i \in 0 .. k : f[k - i] \notin C}
<1>1. 0 \in 0 .. k /\ f[k - 0] = f[k]
  OBVIOUS
<1>2. S = {}
  <2>. SUFFICES ASSUME S # {} PROVE FALSE
    OBVIOUS
  <2>1. S \in SUBSET Nat
    OBVIOUS
  <2>2. PICK i \in S : \A j \in S : ~(j < i)
    <3>. HIDE DEF S
    <3>. QED
      BY <2>1, Least
  <2>3. i \in 0 .. k /\ f[k - i] \notin C /\ i # 0
    BY <1>1
  <2>4. i - 1 \in 0 .. k /\ i - 1 < i
    BY <2>3
  <2>5. f[k - (i - 1)] \in C
    BY <2>2, <2>4
  <2>6. PICK j \in 0 .. k : j = k - (i - 1) /\ j - 1 = k - i /\ j # 0
    BY <2>3
  <2>7. f[j] = Onward(f[j - 1])
    BY <2>6, PathSteps
  <2>8. Onward(f[k - i]) \in C
    BY <2>5, <2>6, <2>7
  <2>. QED
    BY <2>3, <2>8, QuietJoints DEF Onward, Backs
<1>3. f[k - k] \in C
  BY <1>2
<1>. QED
  BY <1>3, PathSteps

\* A path that ends in a substituted variable has met nothing else.
LEMMA PathOn ==
  ASSUME LinkInv, Quiescent, NEW k \in Nat, NEW v, NEW f, Path(f, v, k),
         f[k] \in Substituted
  PROVE  \A i \in 0 .. k : f[i] \in Substituted
<1>. DEFINE S == {i \in 0 .. k : f[k - i] \notin Substituted}
<1>1. 0 \in 0 .. k /\ f[k - 0] = f[k]
  OBVIOUS
<1>2. S = {}
  <2>. SUFFICES ASSUME S # {} PROVE FALSE
    OBVIOUS
  <2>1. S \in SUBSET Nat
    OBVIOUS
  <2>2. PICK i \in S : \A j \in S : ~(j < i)
    <3>. HIDE DEF S
    <3>. QED
      BY <2>1, Least
  <2>3. i \in 0 .. k /\ f[k - i] \notin Substituted /\ i # 0
    BY <1>1
  <2>4. i - 1 \in 0 .. k /\ i - 1 < i
    BY <2>3
  <2>5. f[k - (i - 1)] \in Substituted
    BY <2>2, <2>4
  <2>6. PICK j \in 0 .. k : j = k - (i - 1) /\ j - 1 = k - i /\ j # 0
    BY <2>3
  <2>7. f[j] = Onward(f[j - 1])
    BY <2>6, PathSteps
  <2>8. Onward(f[k - i]) \in Substituted
    BY <2>5, <2>6, <2>7
  <2>. QED
    BY <2>3, <2>8, QuietJoints DEF Onward
<1>3. ASSUME NEW i \in 0 .. k PROVE f[i] \in Substituted
  <2>1. PICK j \in 0 .. k : j = k - i /\ k - j = i
    OBVIOUS
  <2>. QED
    BY <1>2, <2>1
<1>. QED
  BY <1>3

\* From a root, as many steps as there are variables lead to a port that is no
\* substituted variable: a path meets none twice.
LEMMA PathEnds ==
  ASSUME LinkInv, Quiescent, NEW r \in Root, NEW k, k = Cardinality(Var),
         NEW f, Path(f, r, k)
  PROVE  f[k] \notin Substituted
<1>. SUFFICES ASSUME f[k] \in Substituted PROVE FALSE
  OBVIOUS
<1>0. k \in Nat /\ IsFiniteSet(Var)
  BY LinkerAssumption, FS_CardinalityType
<1>1. \A i \in 0 .. k : f[i] \in Substituted
  BY <1>0, PathOn
<1>2. \A i \in 0 .. k : f[i] \in Var /\ (i # 0 => f[i] = vars_buf[f[i - 1]])
  <2>. SUFFICES ASSUME NEW i \in 0 .. k
                PROVE  f[i] \in Var /\ (i # 0 => f[i] = vars_buf[f[i - 1]])
    OBVIOUS
  <2>1. f[i] \in Var
    BY <1>1, QuietJoints
  <2>2. ASSUME i # 0 PROVE f[i] = vars_buf[f[i - 1]]
    <3>1. i - 1 \in 0 .. k /\ f[i] = Onward(f[i - 1])
      BY <1>0, <2>2, PathSteps
    <3>. QED
      BY <1>1, <3>1, QuietJoints DEF Onward
  <2>. QED
    BY <2>1, <2>2
<1>3. \E i, j \in 0 .. k : i # j /\ f[i] = f[j]
  <2>1. PICK g : g = [i \in 0 .. k |-> f[i]]
    OBVIOUS
  <2>2. g \in [0 .. k -> Var]
    BY <1>2, <2>1
  <2>3. IsFiniteSet(0 .. k) /\ Cardinality(0 .. k) = k + 1
    BY <1>0, FS_Interval
  <2>4. Cardinality(Var) < Cardinality(0 .. k)
    BY <1>0, <2>3
  <2>5. PICK i, j \in 0 .. k : i # j /\ g[i] = g[j]
    BY <1>0, <2>2, <2>3, <2>4, FS_PigeonHole
  <2>. QED
    BY <2>1, <2>5
<1>. DEFINE S == {i \in 0 .. k : \E j \in 0 .. k : i < j /\ f[i] = f[j]}
<1>4. S \in SUBSET Nat /\ S # {}
  BY <1>0, <1>3
<1>5. PICK i \in S : \A h \in S : ~(h < i)
  <2>. HIDE DEF S
  <2>. QED
    BY <1>4, Least
<1>6. PICK j \in 0 .. k : i \in 0 .. k /\ i < j /\ f[i] = f[j]
  OBVIOUS
<1>7. j # 0 /\ j - 1 \in 0 .. k /\ f[j] = vars_buf[f[j - 1]]
  BY <1>0, <1>2, <1>6
<1>8. CASE i = 0
  <2>1. f[j] = r
    BY <1>0, <1>6, <1>8, PathSteps
  <2>2. f[j - 1] \in Substituted /\ f[j] \in Substituted
    BY <1>1, <1>7
  <2>3. f[j] \notin Root
    BY <1>7, <2>2, Before
  <2>. QED
    BY <2>1, <2>3
<1>9. CASE i # 0
  <2>1. i - 1 \in 0 .. k /\ f[i] = vars_buf[f[i - 1]] /\ i - 1 < j - 1 /\ i - 1 < i
    BY <1>0, <1>2, <1>6, <1>7, <1>9
  <2>2. f[i - 1] = f[j - 1]
    BY <1>1, <1>6, <1>7, <2>1, Before
  <2>3. i - 1 \in S
    BY <1>7, <2>1, <2>2
  <2>. QED
    BY <1>5, <2>1, <2>3
<1>. QED
  BY <1>8, <1>9

\* Peek leads from a root to the port at the other end of its wire.
LEMMA RootRead ==
  ASSUME LinkInv, Quiescent, NEW r \in Root, NEW n \in Node, {r, n} \in WiresOf
  PROVE  Peek(r) = n
<1>1. PICK k : k = Cardinality(Var)
  OBVIOUS
<1>2. k \in Nat
  BY <1>1, LinkerAssumption, FS_CardinalityType
<1>3. PICK f : Path(f, r, k) /\ Peek(r) = f[k]
  <2>1. Path(CHOOSE f : Path(f, r, k), r, k)
    BY <1>2, PathExists
  <2>. QED
    BY <1>1, <2>1, PeekIs
<1>4. PICK q : q = f[k] /\ q \notin Substituted
  BY <1>1, <1>3, PathEnds
<1>5. PICK e \in Ends : {r, n} = Component(Joints, e) \cap Ends
  BY WiresNow DEF WiresIn
<1>6. /\ e \in Port /\ r \in Component(Joints, e) /\ n \in Component(Joints, e)
      /\ r \in Port /\ n \in Port /\ r # n
  BY <1>5, LinkerAssumption DEF Ends, Port
<1>7. \A C \in SUBSET Port : Closed(Joints, C) => (r \in C <=> n \in C)
  BY <1>6, JointsPorts, OneComponent
<1>8. q \in Port
  <2>. SUFFICES ASSUME q \notin Port PROVE FALSE
    OBVIOUS
  <2>1. Backs({q})
    BY <1>4, QuietJoints DEF Backs
  <2>2. r \in {q}
    BY <1>2, <1>3, <1>4, <2>1, PathBack
  <2>. QED
    BY <1>6, <2>2
<1>9. /\ q \in Back(q) /\ Backs(Back(q)) /\ Closed(Joints, Back(q))
      /\ Back(q) \in SUBSET Port /\ \A m \in Node : m \in Back(q) => m = q
  BY <1>4, <1>8, BackClosed DEF Back
<1>10. r \in Back(q)
  BY <1>2, <1>3, <1>4, <1>9, PathBack
<1>11. n = q
  BY <1>7, <1>9, <1>10
<1>. QED
  BY <1>3, <1>4, <1>11

\* Once no call is in progress, every wire between two ports has been pushed, and
\* peek (hvm.c:783-792) reads a root back as the port at its wire's other end.
THEOREM RootsReadBack == Spec => []Resolved
<1>1. LinkInv => Resolved
  BY RootLeft, RootRead DEF Resolved
<1>. QED
  BY <1>1, LinkerInvariant, PTL
=============================================================================
