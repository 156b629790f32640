---------------------------- MODULE MCEvaluator -----------------------------
(***************************************************************************)
(* Evaluator on small instances: trees of redexes.                         *)
(***************************************************************************)
EXTENDS Evaluator, TLC

\* Two calls of normalize.  The first root (a REF ~ ROOT, high priority)
\* produces two low redexes, a high one between them; the last low one asks
\* for more room than its thread has left, until the bag has been robbed.
\* The second root produces a single redex.
TreeTwoBoots ==
  (1 :> <<2, 3, 4>>) @@ (2 :> <<5>>) @@ (3 :> <<>>) @@ (4 :> <<6, 7, 8>>)
    @@ (5 :> <<>>) @@ (6 :> <<>>) @@ (7 :> <<>>) @@ (8 :> <<>>)
    @@ (9 :> <<10>>) @@ (10 :> <<>>)
BootsTwo == <<1, 9>>

\* What get_resources is asked for: the pushes of the interaction.
NeedExact == [r \in Redex |-> Len(Spawn[r])]
=============================================================================
