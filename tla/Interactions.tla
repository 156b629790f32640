---------------------------- MODULE Interactions ----------------------------
(***************************************************************************)
(* The net of the C runtime (src/src/hvm.c) and the interactions that      *)
(* rewrite it: LINK, CALL, VOID, ERAS, ANNI, COMM, OPER, SWIT, by several  *)
(* threads at once.                                                        *)
(*                                                                         *)
(* The redexes are a bag that any thread takes from: WorkPool, which the   *)
(* redex bags of the runtime implement (Evaluator).  A thread rewrites the *)
(* nodes of its redex, which nobody else holds, in one action; its calls   *)
(* of link and enter, which meet those of other threads in vars_buf, take  *)
(* one action per iteration.  Linker splits an iteration further, into its *)
(* two exchanges, and shows that nobody touches a cell between them.       *)
(***************************************************************************)
EXTENDS Numbers, Sequences, SequencesExt

CONSTANTS
  TPC,     \* number of threads
  PLEN,    \* cells of node_buf and of vars_buf a thread allocates from
  Start,   \* where the allocators' searches start; an earlier evaluation has
           \* left them anywhere
  BagOf,   \* the bag each thread takes redexes from: one, in the C runtime
  Bounded, \* threads whose search gives up before it has gone round; none, there
  Book     \* programs, by name: their definitions, by number; 0 is main

Thread == 0 .. TPC - 1
Loc == 0 .. TPC * PLEN - 1

\* Ports: a tag and a value.  FREE is the variable 0, as in the code; the root
\* is the last variable.
VarP(x) == <<"VAR", x>>
Era == <<"ERA", 0>>
NumP(n) == <<"NUM", n>>
tag(p) == p[1]
val(p) == p[2]
FREE == VarP(0)
NONE == <<"NONE", 0>>
ROOT == VarP(TPC * PLEN - 1)
FREE_NODE == <<FREE, FREE>>

Nodes == {"CON", "DUP", "OPR", "SWI"}
Nullary == {"REF", "ERA", "NUM"}
is_nod(p) == tag(p) \in Nodes
is_var(p) == tag(p) = "VAR"

\* The ports of a definition, by place: its root, its redexes and its nodes.
Slots(d) ==
  {<<"root", 1, 1>>} \cup ({"rbag"} \X (DOMAIN d.rbag) \X {1, 2})
    \cup ({"node"} \X (DOMAIN d.node) \X {1, 2})
PortAt(d, s) ==
  CASE s[1] = "root" -> d.root
    [] s[1] = "rbag" -> d.rbag[s[2]][s[3]]
    [] s[1] = "node" -> d.node[s[2]][s[3]]

IsPairs(s) == Len(s) \in Nat /\ s = [i \in 1 .. Len(s) |-> <<s[i][1], s[i][2]>>]

\* They count its nodes and its variables from 0.  It is a net: a variable occurs
\* twice in it, and a node is at the end of one wire.
IsNet(d, names) ==
  /\ IsPairs(d.rbag) /\ IsPairs(d.node)
  /\ \A s \in Slots(d) :
       LET p == PortAt(d, s)
       IN  /\ p = <<tag(p), val(p)>> /\ tag(p) \in Nodes \cup Nullary \cup {"VAR"}
           /\ is_var(p) => val(p) \in 0 .. d.vars - 1
           /\ is_nod(p) => val(p) \in 0 .. Len(d.node) - 1
           /\ tag(p) = "REF" => val(p) \in names
  /\ \A x \in 0 .. d.vars - 1 : Cardinality({s \in Slots(d) : PortAt(d, s) = VarP(x)}) = 2
  /\ \A n \in 0 .. Len(d.node) - 1 :
       Cardinality({s \in Slots(d) : is_nod(PortAt(d, s)) /\ val(PortAt(d, s)) = n}) = 1

\* safe says that a DUP may copy the reference.
ASSUME InteractionsAssumption ==
  /\ TPC \in Nat \ {0} /\ PLEN \in Nat \ {0, 1}
  /\ Start \in 0 .. PLEN - 1
  /\ DOMAIN BagOf = Thread /\ Bounded \subseteq Thread
  /\ \A p \in DOMAIN Book : 0 \in DOMAIN Book[p] /\ \A f \in DOMAIN Book[p] :
       /\ Book[p][f].safe \in BOOLEAN /\ Book[p][f].vars \in Nat
       /\ IsNet(Book[p][f], DOMAIN Book[p])

VARIABLES
  program,              \* the book that was loaded
  node_buf, vars_buf,   \* the net's nodes and substitution map
  pool,                 \* the redexes in no thread's hands, by bag
  nput, vput,           \* next index of the allocators, modulo PLEN
  pc,                   \* what a thread does next
  todo,                 \* pairs the thread has to link; the first is being linked
  oper,                 \* an OPER interaction before its links: <<a, B1, B2, node>>
  itrs                  \* interactions counted

vars == <<program, node_buf, vars_buf, pool, nput, vput, pc, todo, oper, itrs>>

def(p) == Book[program][val(p)]

-----------------------------------------------------------------------------
(* The rules.                                                              *)

\* get_rule
Rule(a, b) ==
  LET s == {tag(a), tag(b)}
  IN  CASE "VAR" \in s -> "LINK"
        [] s \subseteq Nullary -> "VOID"
        [] s \subseteq Nodes -> IF tag(a) = tag(b) THEN "ANNI" ELSE "COMM"
        [] "REF" \in s /\ s \cap Nodes # {} -> "CALL"
        [] s = {"NUM", "OPR"} -> "OPER"
        [] s = {"NUM", "SWI"} -> "SWIT"
        [] OTHER -> "ERAS"

Rank == [VAR |-> 0, REF |-> 1, ERA |-> 2, NUM |-> 3, CON |-> 4, DUP |-> 5,
         OPR |-> 6, SWI |-> 7]

\* interact: the two ports in the order of their tags, and the rule.
Oriented(r) == IF Rank[tag(r[2])] < Rank[tag(r[1])] THEN <<r[2], r[1]>> ELSE r
RuleOf(r) ==
  IF r[2] = ROOT /\ tag(r[1]) = "REF" THEN "CALL" ELSE Rule(r[1], r[2])
PairOf(r) == IF r[2] = ROOT THEN r ELSE Oriented(r)

-----------------------------------------------------------------------------
(* The allocators.                                                         *)

\* The cells of thread t's part of buf that read 0, cell 0 left out, in the
\* order a search from index put meets them.
Probes(t) == IF t \in Bounded THEN PLEN - 1 ELSE PLEN
Probe(t, put, k) == t * PLEN + ((put + k - 1) % PLEN)
Search(t, put, buf, free) ==
  LET found[k \in 0 .. Probes(t)] ==
        IF k = 0 THEN <<>>
        ELSE IF Probe(t, put, k) > 0 /\ buf[Probe(t, put, k)] = free
        THEN Append(found[k - 1], Probe(t, put, k))
        ELSE found[k - 1]
  IN  found[Probes(t)]

\* n cells of those: a search that goes round meets the same ones again.  One
\* that meets none never ends, and the thread takes no step; nor does it when the
\* search gives up, and the redex goes back in the bag.
Cycle(cells, n) == [i \in 1 .. n |-> cells[((i - 1) % Len(cells)) + 1]]
Enough(t, cells, n) == Len(cells) >= (IF t \in Bounded \/ n = 0 THEN n ELSE 1)

\* Where the next search starts.
PutAfter(t, put, locs) ==
  IF locs = <<>> THEN put ELSE (Last(locs) - t * PLEN + 1) % PLEN

node_alloc(t, n) == Cycle(Search(t, nput[t], node_buf, FREE_NODE), n)
vars_alloc(t, n) == Cycle(Search(t, vput[t], vars_buf, FREE), n)

get_resources(t, n, v) ==
  /\ Enough(t, Search(t, nput[t], node_buf, FREE_NODE), n)
  /\ Enough(t, Search(t, vput[t], vars_buf, FREE), v)
  /\ nput' = [nput EXCEPT ![t] = PutAfter(t, @, node_alloc(t, n))]
  /\ vput' = [vput EXCEPT ![t] = PutAfter(t, @, vars_alloc(t, v))]

-----------------------------------------------------------------------------
InitNet ==
  /\ program \in DOMAIN Book
  /\ node_buf = [c \in Loc |-> FREE_NODE]
  /\ vars_buf = [c \in Loc |-> IF VarP(c) = ROOT THEN NONE ELSE FREE]
  /\ nput = [t \in Thread |-> Start]
  /\ vput = [t \in Thread |-> Start]
  /\ pc = [t \in Thread |-> "idle"]
  /\ todo = [t \in Thread |-> <<>>]
  /\ oper = [t \in Thread |-> <<>>]
  /\ itrs = 0

BootRedex == << <<"REF", 0>>, ROOT >>
Bags == Range(BagOf)

Init ==
  /\ InitNet
  /\ pool = [b \in Bags |-> IF b = BagOf[0] THEN SetToBag({BootRedex}) ELSE EmptyBag]

-----------------------------------------------------------------------------
(* interact: a thread takes a redex and rewrites its nodes.                *)

\* The nodes taken, the ones stored at the first allocated cells (a later
\* store in the same cell wins), the variables created.
Rewrite(t, taken, nloc, stored, vloc) ==
  /\ node_buf' = [c \in Loc |->
       LET at == {i \in DOMAIN stored : nloc[i] = c}
       IN  IF at # {} THEN stored[Max(at)]
           ELSE IF c \in taken THEN FREE_NODE ELSE node_buf[c]]
  /\ vars_buf' = [c \in Loc |-> IF c \in Range(vloc) THEN NONE ELSE vars_buf[c]]

\* A bag with a copy more of redex r, and with one less.
With(bag, r) == bag (+) SetToBag({r})
Without(bag, r) == bag (-) SetToBag({r})

\* The redex r leaves the thread's bag and counts as an interaction.
Take(t, r) ==
  /\ pc[t] = "idle"
  /\ pool' = [pool EXCEPT ![BagOf[t]] = Without(@, r)]
  /\ itrs' = itrs + 1

\* The pairs the interaction links.
Links(t, pairs) ==
  /\ todo' = [todo EXCEPT ![t] = pairs]
  /\ pc' = [pc EXCEPT ![t] = IF pairs = <<>> THEN "idle" ELSE "link"]

\* The redexes of a rule that a thread may take.
Redexes(t, rule) == {r \in DOMAIN pool[BagOf[t]] : RuleOf(r) = rule}

\* A mutation: a DUP copies any reference.
CopiesAny(r) == tag(PairOf(r)[2]) = "DUP"

\* A DUP copies a safe reference.
Copies(r) == def(PairOf(r)[1]).safe /\ tag(PairOf(r)[2]) = "DUP"

\* adjust_port: a port of a definition, at the cells it has been given.
Adjust(p, nloc, vloc) ==
  IF is_nod(p) THEN <<tag(p), nloc[val(p) + 1]>>
  ELSE IF is_var(p) THEN VarP(vloc[val(p) + 1])
  ELSE p

Call(t) ==
  \E r \in {x \in Redexes(t, "CALL") : ~Copies(x)} :
    LET d    == def(PairOf(r)[1])
        nloc == node_alloc(t, Len(d.node))
        vloc == vars_alloc(t, d.vars)
        Pair(p) == <<Adjust(p[1], nloc, vloc), Adjust(p[2], nloc, vloc)>>
    IN  /\ Take(t, r)
        /\ get_resources(t, Len(d.node), d.vars)
        /\ Rewrite(t, {}, nloc, [i \in DOMAIN d.node |-> Pair(d.node[i])], vloc)
        /\ Links(t, [i \in DOMAIN d.rbag |-> Pair(d.rbag[i])]
                      \o << <<Adjust(d.root, nloc, vloc), PairOf(r)[2]>> >>)
        /\ UNCHANGED oper

Void(t) ==
  \E r \in Redexes(t, "VOID") :
    /\ Take(t, r)
    /\ UNCHANGED <<node_buf, vars_buf, nput, vput, pc, todo, oper>>

\* A mutation: the node is loaded and not taken.
ErasLoad(t) ==
  \E r \in Redexes(t, "ERAS") \cup {x \in Redexes(t, "CALL") : Copies(x)} :
    LET a == PairOf(r)[1]
        B == node_buf[val(PairOf(r)[2])]
    IN  /\ Take(t, r)
        /\ Links(t, << <<a, B[1]>>, <<a, B[2]>> >>)
        /\ UNCHANGED <<node_buf, vars_buf, nput, vput, oper>>

\* interact_eras, of an eraser and as the copy of a number or a reference.
Eras(t) ==
  \E r \in Redexes(t, "ERAS") \cup {x \in Redexes(t, "CALL") : Copies(x)} :
    LET a == PairOf(r)[1]
        b == PairOf(r)[2]
        B == node_buf[val(b)]
    IN  /\ Take(t, r)
        /\ get_resources(t, 0, 0)
        /\ Rewrite(t, {val(b)}, <<>>, <<>>, <<>>)
        /\ Links(t, << <<a, B[1]>>, <<a, B[2]>> >>)
        /\ UNCHANGED oper

Anni(t) ==
  \E r \in Redexes(t, "ANNI") :
    LET a == PairOf(r)[1]
        b == PairOf(r)[2]
        A == node_buf[val(a)]
        B == node_buf[val(b)]
    IN  /\ Take(t, r)
        /\ get_resources(t, 0, 0)
        /\ Rewrite(t, {val(a), val(b)}, <<>>, <<>>, <<>>)
        /\ Links(t, << <<A[1], B[1]>>, <<A[2], B[2]>> >>)
        /\ UNCHANGED oper

Comm(t) ==
  \E r \in Redexes(t, "COMM") :
    LET a == PairOf(r)[1]
        b == PairOf(r)[2]
        A == node_buf[val(a)]
        B == node_buf[val(b)]
        n == node_alloc(t, 4)
        v == vars_alloc(t, 4)
        Node(i, j) == <<VarP(v[i]), VarP(v[j])>>
    IN  /\ Take(t, r)
        /\ get_resources(t, 4, 4)
        /\ Rewrite(t, {val(a), val(b)}, n,
                   <<Node(1, 2), Node(3, 4), Node(1, 3), Node(2, 4)>>, v)
        /\ Links(t, << <<<<tag(b), n[1]>>, A[1]>>, <<<<tag(b), n[2]>>, A[2]>>,
                       <<<<tag(a), n[3]>>, B[1]>>, <<<<tag(a), n[4]>>, B[2]>> >>)
        /\ UNCHANGED oper

\* A mutation: the node is loaded and not taken.
SwitLoad(t) ==
  \E r \in Redexes(t, "SWIT") :
    LET av == val(PairOf(r)[1]).val
        B  == node_buf[val(PairOf(r)[2])]
        n  == node_alloc(t, 2)
        stored == IF av = 0 THEN << <<B[2], Era>> >>
                  ELSE << <<Era, <<"CON", n[2]>> >>, <<NumP(new_u24(av - 1)), B[2]>> >>
    IN  /\ Take(t, r)
        /\ get_resources(t, 2, 0)
        /\ Rewrite(t, {}, n, stored, <<>>)
        /\ Links(t, << << <<"CON", n[1]>>, B[1] >> >>)
        /\ UNCHANGED oper

\* A number selects a branch; the other one meets an eraser.
Swit(t) ==
  \E r \in Redexes(t, "SWIT") :
    LET av == val(PairOf(r)[1]).val
        b  == PairOf(r)[2]
        B  == node_buf[val(b)]
        n  == node_alloc(t, 2)
        stored == IF av = 0 THEN << <<B[2], Era>> >>
                  ELSE << <<Era, <<"CON", n[2]>> >>, <<NumP(new_u24(av - 1)), B[2]>> >>
    IN  /\ Take(t, r)
        /\ get_resources(t, 2, 0)
        /\ Rewrite(t, {val(b)}, n, stored, <<>>)
        /\ Links(t, << << <<"CON", n[1]>>, B[1] >> >>)
        /\ UNCHANGED oper

\* interact_oper up to its call of enter.
OperTake(t) ==
  \E r \in Redexes(t, "OPER") :
    LET a == PairOf(r)[1]
        b == PairOf(r)[2]
        B == node_buf[val(b)]
        n == node_alloc(t, 1)
    IN  /\ Take(t, r)
        /\ get_resources(t, 1, 0)
        /\ Rewrite(t, {val(b)}, <<>>, <<>>, <<>>)
        /\ oper' = [oper EXCEPT ![t] = <<a, B[1], B[2], n[1]>>]
        /\ pc' = [pc EXCEPT ![t] = "oper"]
        /\ UNCHANGED todo

\* An iteration of its enter: the return port is followed.
OperEnter(t) ==
  LET B2  == oper[t][3]
      got == vars_buf[val(B2)]
  IN  /\ pc[t] = "oper" /\ is_var(B2)
      /\ IF got \in {NONE, FREE}
         THEN /\ vars_buf' = [vars_buf EXCEPT ![val(B2)] = NONE]
              /\ pc' = [pc EXCEPT ![t] = "operate"]
              /\ UNCHANGED oper
         ELSE /\ vars_buf' = [vars_buf EXCEPT ![val(B2)] = FREE]
              /\ oper' = [oper EXCEPT ![t][3] = got]
              /\ UNCHANGED pc
      /\ UNCHANGED <<node_buf, pool, nput, vput, todo, itrs>>

\* A mutation: a native operation counts once more.
OperateCounted(t) ==
  LET a  == oper[t][1]
      B1 == oper[t][2]
      B2 == oper[t][3]
      n  == oper[t][4]
  IN  /\ pc[t] = "operate" \/ (pc[t] = "oper" /\ ~is_var(B2))
      /\ IF tag(B1) = "NUM"
         THEN /\ Links(t, << <<NumP(operate(val(a), val(B1))), B2>> >>)
              /\ itrs' = itrs + 1
              /\ UNCHANGED node_buf
         ELSE /\ node_buf' = [node_buf EXCEPT ![n] = <<a, B2>>]
              /\ Links(t, << <<B1, <<"OPR", n>> >> >>)
              /\ UNCHANGED itrs
      /\ oper' = [oper EXCEPT ![t] = <<>>]
      /\ UNCHANGED <<vars_buf, pool, nput, vput>>

\* The rest: operate if the node holds the other number, or turn it round.
Operate(t) ==
  LET a  == oper[t][1]
      B1 == oper[t][2]
      B2 == oper[t][3]
      n  == oper[t][4]
  IN  /\ pc[t] = "operate" \/ (pc[t] = "oper" /\ ~is_var(B2))
      /\ IF tag(B1) = "NUM"
         THEN /\ Links(t, << <<NumP(operate(val(a), val(B1))), B2>> >>)
              /\ UNCHANGED node_buf
         ELSE /\ node_buf' = [node_buf EXCEPT ![n] = <<a, B2>>]
              /\ Links(t, << <<B1, <<"OPR", n>> >> >>)
      /\ oper' = [oper EXCEPT ![t] = <<>>]
      /\ UNCHANGED <<vars_buf, pool, nput, vput, itrs>>

-----------------------------------------------------------------------------
(* link and enter, an iteration at a time.                                 *)

\* The pair being linked, a variable first if there is one.
Linking(t) ==
  LET A == Head(todo[t])[1]
      B == Head(todo[t])[2]
  IN  IF ~is_var(A) /\ is_var(B) THEN <<B, A>> ELSE <<A, B>>

GoOn(t, pair, label) ==
  /\ todo' = [todo EXCEPT ![t][1] = pair]
  /\ pc' = [pc EXCEPT ![t] = label]

PushRedex(t) ==
  /\ pc[t] = "link"
  /\ ~is_var(Linking(t)[1])
  /\ pool' = [pool EXCEPT ![BagOf[t]] = With(@, Linking(t))]
  /\ Links(t, Tail(todo[t]))
  /\ UNCHANGED <<node_buf, vars_buf, nput, vput, oper, itrs>>

\* A mutation: no break at a variable that has no substitution.
EnterAgain(t) ==
  LET A   == Linking(t)[1]
      B   == Linking(t)[2]
      got == vars_buf[val(B)]
  IN  /\ pc[t] = "link" /\ is_var(A) /\ is_var(B)
      /\ IF got \in {NONE, FREE}
         THEN /\ vars_buf' = [vars_buf EXCEPT ![val(B)] = NONE]
              /\ GoOn(t, <<A, B>>, "link")
         ELSE /\ vars_buf' = [vars_buf EXCEPT ![val(B)] = FREE]
              /\ GoOn(t, <<A, got>>, "link")
      /\ UNCHANGED <<node_buf, pool, nput, vput, oper, itrs>>

\* enter, on the second port.
Enter(t) ==
  LET A   == Linking(t)[1]
      B   == Linking(t)[2]
      got == vars_buf[val(B)]
  IN  /\ pc[t] = "link" /\ is_var(A) /\ is_var(B)
      /\ IF got \in {NONE, FREE}
         THEN /\ vars_buf' = [vars_buf EXCEPT ![val(B)] = NONE]
              /\ GoOn(t, <<A, B>>, "point")
         ELSE /\ vars_buf' = [vars_buf EXCEPT ![val(B)] = FREE]
              /\ GoOn(t, <<A, got>>, "link")
      /\ UNCHANGED <<node_buf, pool, nput, vput, oper, itrs>>

\* The first port, a variable, is pointed at the second.
Point(t) ==
  LET A   == Linking(t)[1]
      B   == Linking(t)[2]
      got == vars_buf[val(A)]
  IN  /\ pc[t] = "point" \/ (pc[t] = "link" /\ is_var(A) /\ ~is_var(B))
      /\ IF got = NONE
         THEN /\ vars_buf' = [vars_buf EXCEPT ![val(A)] = B]
              /\ Links(t, Tail(todo[t]))
         ELSE /\ vars_buf' = [vars_buf EXCEPT ![val(A)] = FREE]
              /\ GoOn(t, <<got, B>>, "link")
      /\ UNCHANGED <<node_buf, pool, nput, vput, oper, itrs>>

Step(t) ==
  \/ Call(t) \/ Void(t) \/ Eras(t) \/ Anni(t) \/ Comm(t) \/ Swit(t)
  \/ OperTake(t) \/ OperEnter(t) \/ Operate(t)
  \/ PushRedex(t) \/ Enter(t) \/ Point(t)

Next == \E t \in Thread : Step(t) /\ UNCHANGED program

Spec == Init /\ [][Next]_vars
FairSpec == Spec /\ \A t \in Thread : WF_vars(Step(t) /\ UNCHANGED program)

-----------------------------------------------------------------------------
(* Properties.                                                             *)

\* The places that hold a port, and it: nodes, substitutions, redexes, pairs to
\* link, operations under way; and main, which holds the root.
HeldInNodes ==
  {<< <<"node", c, k>>, node_buf[c][k]>> :
     c \in {x \in Loc : node_buf[x] # FREE_NODE}, k \in {1, 2}}
HeldInVars ==
  {<< <<"vars", c>>, vars_buf[c]>> : c \in {x \in Loc : vars_buf[x] \notin {FREE, NONE}}}
HeldInPool ==
  UNION {UNION {{<< <<"pool", b, r, i, k>>, r[k]>> : i \in 1 .. pool[b][r], k \in {1, 2}} :
                  r \in DOMAIN pool[b]} : b \in DOMAIN pool}
HeldInTodo ==
  UNION {{<< <<"todo", t, Len(todo[t]) - i, k>>, todo[t][i][k]>> :
            i \in DOMAIN todo[t], k \in {1, 2}} : t \in Thread}
HeldInOper ==
  {<< <<"oper", t, k>>, oper[t][k]>> : t \in {x \in Thread : oper[x] # <<>>}, k \in {2, 3}}

Held ==
  HeldInNodes \cup HeldInVars \cup HeldInPool \cup HeldInTodo \cup HeldInOper
    \cup {<< <<"main">>, ROOT>>}

LinearIn(held) ==
  /\ \A h \in held :
       /\ is_var(h[2]) => vars_buf[val(h[2])] # FREE
       /\ is_nod(h[2]) => node_buf[val(h[2])] # FREE_NODE
  /\ \A c \in {x \in Loc : vars_buf[x] # FREE} :
       Cardinality({h \in held : h[2] = VarP(c)}) = IF vars_buf[c] = NONE THEN 2 ELSE 1
  /\ \A c \in {x \in Loc : node_buf[x] # FREE_NODE} :
       Cardinality({h \in held : is_nod(h[2]) /\ val(h[2]) = c}) = 1

\* The net is linear at every moment, whatever threads rewrite and link at
\* once: a variable that has not been substituted occurs twice, one that has
\* been occurs once more, a deleted one nowhere, and each node is at the end
\* of one wire.
Linear == LinearIn(Held)

\* The cells of each buffer that the interaction of a redex asks for.
Asked(r) ==
  CASE RuleOf(r) = "CALL" /\ ~Copies(r) ->
         <<Len(def(PairOf(r)[1]).node), def(PairOf(r)[1]).vars>>
    [] RuleOf(r) = "COMM" -> <<4, 4>>
    [] RuleOf(r) = "SWIT" -> <<2, 0>>
    [] RuleOf(r) = "OPER" -> <<1, 0>>
    [] OTHER -> <<0, 0>>

\* The thread's searches meet n nodes and v variables that are free.
Finds(t, n, v) == /\ n <= Len(Search(t, nput[t], node_buf, FREE_NODE))
                  /\ v <= Len(Search(t, vput[t], vars_buf, FREE))

\* When it is idle, a thread has room for the redexes of its bag.
HasRoom(t) ==
  pc[t] = "idle" => \A r \in DOMAIN pool[BagOf[t]] : Finds(t, Asked(r)[1], Asked(r)[2])

\* So has every thread whose searches go all round.
Roomy == \A t \in Thread \ Bounded : HasRoom(t)

\* Nothing is left to do.
Done == (\A b \in DOMAIN pool : pool[b] = EmptyBag) /\ \A t \in Thread : pc[t] = "idle"

\* The evaluation comes to an end, however the threads' links cross.
Terminates == <>Done
=============================================================================
