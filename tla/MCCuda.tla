------------------------------ MODULE MCCuda ------------------------------
(***************************************************************************)
(* CudaEvaluator on small instances: trees of redexes.                     *)
(***************************************************************************)
EXTENDS CudaEvaluator, TLC

CONSTANTS leaf, pair

\* A root and two marked redexes that each produce two more: the redexes go to
\* threads of other blocks in SEED mode, to threads of their own in GROW mode.
\* Redex 20 is pushed on a low stack that it fills, and asks for two cells.
Tree ==
  (1 :> <<9, 10, 19, 2, 3>>) @@ (2 :> <<4, 5>>) @@ (3 :> <<6, 7>>) @@ (4 :> <<8>>)
    @@ (5 :> <<>>) @@ (6 :> <<11, 20>>) @@ (7 :> <<12>>) @@ (8 :> <<13>>)
    @@ (9 :> <<>>) @@ (10 :> <<14>>) @@ (11 :> <<15>>) @@ (12 :> <<16>>)
    @@ (13 :> <<>>) @@ (14 :> <<>>) @@ (15 :> <<17, 18>>) @@ (16 :> <<>>)
    @@ (17 :> <<>>) @@ (18 :> <<>>) @@ (19 :> <<>>) @@ (20 :> <<21, 22>>)
    @@ (21 :> <<>>) @@ (22 :> <<>>)
\* A marked redex with none below it.
TreeLone == (1 :> <<2>>) @@ (2 :> <<>>)
\* Two calls of gnet_normalize.
TreeTwoBoots == (1 :> <<2>>) @@ (2 :> <<>>) @@ (3 :> <<4, 5>>) @@ (4 :> <<>>) @@ (5 :> <<>>)
BootTwo == <<1, 3>>
BootOne == <<1>>
NeedExact == [r \in Redex |-> Len(Spawn[r])]
\* A redex has a node with two nodes under it and one with none.
UnderPair == (leaf :> <<>>) @@ (pair :> <<leaf, leaf>>)
PairAndLeaf == [r \in Redex |-> <<pair, leaf>>]
=============================================================================
