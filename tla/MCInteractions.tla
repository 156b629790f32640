--------------------------- MODULE MCInteractions ---------------------------
(***************************************************************************)
(* Interactions on small programs, and what they compute.                  *)
(***************************************************************************)
EXTENDS Readback

Con(x) == <<"CON", x>>
Dup(x) == <<"DUP", x>>
Opr(x) == <<"OPR", x>>
Swi(x) == <<"SWI", x>>
Ref(x) == <<"REF", x>>
U24(x) == NumP([typ |-> "U24", val |-> x])
Sym(op) == NumP([typ |-> "SYM", val |-> op])

Def(root, rbag, node, vs) ==
  [safe |-> TRUE, root |-> root, rbag |-> rbag, node |-> node, vars |-> vs]
Unsafe(d) == [d EXCEPT !.safe = FALSE]

\* @main = r & ({(a b) (b c)} (a c)) ~ ((d d) r): the Church numeral 2
\* applied to the identity.
TwoOfIdentity ==
  0 :> Unsafe(Def(VarP(4), << <<Con(0), Con(5)>> >>,
         << <<Dup(1), Con(2)>>, <<Con(3), Con(4)>>, <<VarP(0), VarP(2)>>,
            <<VarP(0), VarP(1)>>, <<VarP(1), VarP(2)>>, <<Con(6), VarP(4)>>,
            <<VarP(3), VarP(3)>> >>, 5))

\* @main = r & [+] ~ $(a $(b r)) & 1 ~ {a b}: 1 + 1.
OnePlusOne ==
  0 :> Unsafe(Def(VarP(2), << <<Sym("OP_ADD"), Opr(0)>>, <<U24(1), Dup(2)>> >>,
         << <<VarP(0), Opr(1)>>, <<VarP(1), VarP(2)>>, <<VarP(0), VarP(1)>> >>, 3))

\* @main = r & @down ~ (1 r): counts down to 0, then gives 3.
\* @down = (?((3 @down) r) r).
CountDown ==
  (0 :> Def(VarP(0), << <<Ref(1), Con(0)>> >>, << <<U24(1), VarP(0)>> >>, 1))
    @@ (1 :> Def(Con(0), <<>>,
               << <<Swi(1), VarP(0)>>, <<Con(2), VarP(0)>>, <<U24(3), Ref(1)>> >>, 1))

\* @main = (p q) & @id ~ {(@dup {p q}) *}: a safe reference is copied by a
\* DUP, one copy is applied to an unsafe one, which the other DUP makes expand.
\* @id = (a a).  @dup = ({a a} *).
CopyReference ==
  (0 :> Unsafe(Def(Con(0), << <<Ref(1), Dup(1)>> >>,
           << <<VarP(0), VarP(1)>>, <<Con(2), Era>>, <<Ref(2), Dup(3)>>,
              <<VarP(0), VarP(1)>> >>, 2)))
    @@ (1 :> Def(Con(0), <<>>, << <<VarP(0), VarP(0)>> >>, 1))
    @@ (2 :> Unsafe(Def(Con(0), <<>>, << <<Dup(1), Era>>, <<VarP(0), VarP(0)>> >>, 1)))

Programs == [TwoOfIdentity |-> TwoOfIdentity, OnePlusOne |-> OnePlusOne,
             CountDown |-> CountDown, CopyReference |-> CopyReference]
Sum == [OnePlusOne |-> OnePlusOne]
Counting == [CountDown |-> CountDown]

-----------------------------------------------------------------------------
\* (x x)
Identity == {<< <<>>, <<"CON">> >>, << <<1>>, <<"VAR", <<1>> >> >>, << <<2>>, <<"VAR", <<1>> >> >>}
Two == {<< <<>>, U24(2) >>}
Three == {<< <<>>, U24(3) >>}
\* ((x *) (x *))
TwoCopies ==
  {<< <<>>, <<"CON">> >>, << <<1>>, <<"CON">> >>, << <<2>>, <<"CON">> >>,
   << <<1, 2>>, Era >>, << <<2, 2>>, Era >>,
   << <<1, 1>>, <<"VAR", <<1, 1>> >> >>, << <<2, 1>>, <<"VAR", <<1, 1>> >> >>}

Answer == [TwoOfIdentity |-> Identity, OnePlusOne |-> Two, CountDown |-> Three,
           CopyReference |-> TwoCopies]

\* The interactions a program takes, in any order.
Count == [TwoOfIdentity |-> 6, OnePlusOne |-> 6, CountDown |-> 11, CopyReference |-> 9]

\* All threads steal from each other.
OneBag == [t \in Thread |-> "pool"]

\* No floats.
NoFloatOp(op, v, w) == 0
NoToFloat(n) == 0
NoFromFloat(ty, w) == 0

-----------------------------------------------------------------------------
(* Properties.                                                             *)

\* Strong confluence: however interactions and links interleave, the net that
\* is left is the answer (paper/HVM2.typst:378).
Confluent == Done => Result = Answer[program]

\* The number of reductions is invariant to the order in which interaction
\* rules are applied (paper/HVM2.typst:378).
CountInvariant == Done => itrs = Count[program]

\* The memory is left with the result and no garbage: every node and every
\* variable in use is read from the root.
OnlyResult ==
  Done =>
    LET RECURSIVE Cells(_)
        Cells(p) == IF is_var(p)
                    THEN {p} \cup (IF vars_buf[val(p)] = NONE THEN {}
                                   ELSE Cells(vars_buf[val(p)]))
                    ELSE IF is_nod(p)
                    THEN {p} \cup Cells(node_buf[val(p)][1]) \cup Cells(node_buf[val(p)][2])
                    ELSE {}
        live == Cells(ROOT)
    IN  \A c \in Loc \ {0} :
          /\ vars_buf[c] # FREE => VarP(c) \in live
          /\ node_buf[c] # FREE_NODE => \E k \in Nodes : <<k, c>> \in live

\* hvm.c:771: "Gets the necessary resources for an interaction. Returns
\* success": a thread about to call gets as many cells as it asks for.
GetsResources ==
  \A t \in Thread : \A r \in {x \in Redexes(t, "CALL") : ~Copies(x)} :
    LET asked == Len(def(PairOf(r)[1]).node)
    IN  pc[t] = "idle" /\ Search(t, nput[t], node_buf, FREE_NODE) # <<>>
          => Cardinality(Range(node_alloc(t, asked))) = asked
=============================================================================
