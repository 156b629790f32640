------------------------------ MODULE Readback ------------------------------
(***************************************************************************)
(* The net read back from the root (src/src/hvm.c:783-792, 1616-1680), as  *)
(* the set of its paths.                                                   *)
(***************************************************************************)
EXTENDS Interactions

\* peek: the end of a chain of substitutions.
RECURSIVE peek(_)
peek(p) == IF is_var(p) /\ vars_buf[val(p)] \notin {NONE, FREE}
           THEN peek(vars_buf[val(p)]) ELSE p

\* The nodes under port p, each with its path.
RECURSIVE Tree(_, _)
Tree(p, path) ==
  LET q == peek(p)
  IN  {<<path, q>>} \cup
        IF is_nod(q)
        THEN Tree(node_buf[val(q)][1], Append(path, 1))
               \cup Tree(node_buf[val(q)][2], Append(path, 2))
        ELSE {}

\* A node by its tag, a number by its value, a variable by the first path
\* that leads to it.
Paths(tree, x) == {l[1] : l \in {m \in tree : m[2] = x}}
Before(p, q) == \/ Len(p) < Len(q)
                \/ Len(p) = Len(q) /\ \E i \in DOMAIN p :
                     p[i] < q[i] /\ \A j \in 1 .. i - 1 : p[j] = q[j]
First(S) == CHOOSE p \in S : \A q \in S \ {p} : Before(p, q)
Label(tree, q) ==
  CASE is_nod(q) -> <<tag(q)>>
    [] is_var(q) -> <<"VAR", First(Paths(tree, q))>>
    [] OTHER -> q
Result ==
  LET tree == Tree(ROOT, <<>>)
  IN  {<<l[1], Label(tree, l[2])>> : l \in tree}
=============================================================================
