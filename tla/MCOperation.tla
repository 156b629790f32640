---------------------------- MODULE MCOperation -----------------------------
(***************************************************************************)
(* Operation on words of a few bits, at the edges of their ranges.         *)
(***************************************************************************)
EXTENDS Operation

CONSTANT Payload

Edges == [typ : Types, val : Payload]

\* Stands for the floating-point unit: not commutative, comparisons are 0 or 1.
HashOp(op, v, w) ==
  IF op \in Compare THEN (v + 2 * w) % 2
  ELSE (3 * v + 5 * w + (CASE op = "OP_SUB" -> 1 [] op = "OP_DIV" -> 2
                           [] op = "OP_REM" -> 3 [] OTHER -> 0)) % 2^W
HashTo(n) == (7 * n) % 2^W
HashFrom(ty, w) == (w + 1) % 2^(W - 1)
=============================================================================
