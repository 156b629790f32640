----------------------------- MODULE Operation ------------------------------
(***************************************************************************)
(* An operator applied to two operands by two OPR nodes in a chain,        *)
(*    sym ~ $(x $(y r))                                                    *)
(* in the C runtime.  Each operand arrives when it is ready: an OPER       *)
(* interaction finds the number in the node (hvm.c:1027), or turns the     *)
(* node round and is taken up again from the operand's side (hvm.c:1032),  *)
(* so that operate gets its arguments in either order.                     *)
(***************************************************************************)
EXTENDS Numbers, Sequences

CONSTANTS Operand   \* the numbers x and y may be

VARIABLES
  sym, args,    \* the operation
  ready,        \* operands applied so far
  acc           \* the number at the head of the chain

chain == <<sym, args, ready, acc>>

Symbol == {[typ |-> "SYM", val |-> op] : op \in Ops}

OperationInit ==
  /\ sym \in Symbol
  /\ args \in Operand \X Operand
  /\ ready = 0
  /\ acc = sym

\* The operand was in the node when the OPER interaction took it.
OperFound ==
  /\ ready < 2 /\ acc # Trap
  /\ acc' = operate(acc, args[ready + 1])
  /\ ready' = ready + 1
  /\ UNCHANGED <<sym, args>>

\* The node was turned round; the operand came later.
OperTurned ==
  /\ ready < 2 /\ acc # Trap
  /\ acc' = operate(args[ready + 1], acc)
  /\ ready' = ready + 1
  /\ UNCHANGED <<sym, args>>

OperationNext == OperFound \/ OperTurned
OperationSpec == OperationInit /\ [][OperationNext]_chain

-----------------------------------------------------------------------------
(* What the operators mean: x op y, read in the type of y.                 *)

Flipped == {"FP_SUB", "FP_DIV", "FP_REM", "FP_SHL", "FP_SHR"}
Plain(op) == CASE op = "FP_SUB" -> "OP_SUB" [] op = "FP_DIV" -> "OP_DIV"
               [] op = "FP_REM" -> "OP_REM" [] op = "FP_SHL" -> "OP_SHL"
               [] op = "FP_SHR" -> "OP_SHR" [] OTHER -> op

\* The word congruent to n.
WordOf(n) == CHOOSE w \in Word : \E k \in -2^W .. 2^W : w = n + k * 2^W

\* The quotient is the integer of least absolute value that leaves a
\* remainder smaller than the divisor.
IsQuotient(q, x, y) == Abs(x - q * y) < Abs(y) /\ Abs(q * y) <= Abs(x)
Quotient(x, y) == CHOOSE q \in -2^W .. 2^W : IsQuotient(q, x, y)

BitOf(w, i) == (w \div 2^i) % 2
Bitwise(w, x, y, p(_, _)) == \A i \in 0 .. W - 1 : BitOf(w, i) = p(BitOf(x, i), BitOf(y, i))

\* The word x op y denotes, for integers x and y of words v and w.
Denotes(op, x, y, v, w) ==
  CASE op = "OP_ADD" -> WordOf(x + y)
    [] op = "OP_SUB" -> WordOf(x - y)
    [] op = "OP_MUL" -> WordOf(x * y)
    [] op = "OP_DIV" -> WordOf(Quotient(x, y))
    [] op = "OP_REM" -> WordOf(x - y * Quotient(x, y))
    [] op = "EQ" -> IF x = y THEN 1 ELSE 0
    [] op = "NEQ" -> IF x = y THEN 0 ELSE 1
    [] op = "LT" -> IF x < y THEN 1 ELSE 0
    [] op = "GT" -> IF y < x THEN 1 ELSE 0
    [] op = "AND" -> CHOOSE r \in Word : Bitwise(r, v, w, LAMBDA i, j : i * j)
    [] op = "OR" -> CHOOSE r \in Word : Bitwise(r, v, w, LAMBDA i, j : i + j - i * j)
    [] op = "XOR" -> CHOOSE r \in Word : Bitwise(r, v, w, LAMBDA i, j : (i + j) % 2)
    [] op = "OP_SHL" -> CHOOSE r \in Word : \A i \in 0 .. W - 1 :
                          BitOf(r, i) = IF i < w % 32 THEN 0 ELSE BitOf(v, i - (w % 32))
    [] op = "OP_SHR" -> CHOOSE r \in Word : \A i \in 0 .. W - 1 :
                          BitOf(r, i) = IF i + (w % 32) >= W THEN 0 ELSE BitOf(v, i + (w % 32))

\* Operators the paper's table gives a meaning to, and divisors.
Specified(op, ty) == op \in Shift => ty = "U24"
Divides(op, w) == Plain(op) \in {"OP_DIV", "OP_REM"} /\ w = 0

-----------------------------------------------------------------------------
(* Properties.                                                             *)

\* Whichever way each operand arrives, the chain computes x op y, with the
\* bits of x read in the type of y, and y op x for a flipped operator.
ComputesOperation ==
  LET op == sym.val
      ty == args[2].typ
      v  == IF op \in Flipped THEN args[2].val ELSE args[1].val
      w  == IF op \in Flipped THEN args[1].val ELSE args[2].val
      Int24(n) == IF ty = "I24" /\ n >= 2^(W - 1) THEN n - 2^W ELSE n
  IN  ready = 2 /\ ty # "F24" /\ Specified(op, ty) =>
        IF Divides(op, w) THEN acc = Trap
        ELSE acc = [typ |-> IF op \in Compare THEN "U24" ELSE ty,
                    val |-> Denotes(Plain(op), Int24(v), Int24(w), v, w)]

\* An operation gives the same number whether the operand was waiting or
\* came last: "op is a symmetric function" (paper/HVM2.typst, Numbers).
OrderFree == \A k \in {1, 2} : operate(acc, args[k]) = operate(args[k], acc)
=============================================================================
