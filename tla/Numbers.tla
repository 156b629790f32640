------------------------------ MODULE Numbers -------------------------------
(***************************************************************************)
(* Numbers of HVM2 and the native operations on them, in the C runtime     *)
(* (src/src/hvm.c, cast and operate).                                      *)
(*                                                                         *)
(* A number has a 5-bit type and a payload of W = 24 bits: the payload of  *)
(* a U24, of an I24 or of an F24, or the first operand of a partially      *)
(* applied operator, or, under the type SYM, an operator.  Payloads are    *)
(* integers modulo 2^W: what new_u24 and new_i24 leave above the 24th bit, *)
(* new_port shifts out.  Floats are not computed with: FloatOp, ToFloat    *)
(* and FromFloat stand for what the processor does with their bits.        *)
(***************************************************************************)
EXTENDS Integers, FiniteSetsExt

CONSTANTS
  W,                \* bits of a payload
  FloatOp(_, _, _), \* the bits of op applied to two floats
  ToFloat(_),       \* the bits of the float nearest to an integer
  FromFloat(_, _)   \* the integer nearest to a float, clamped to a type's range

ASSUME NumbersAssumption == W \in Nat \ {0}

Word == 0 .. 2^W - 1

Types == {"U24", "I24", "F24"}
Compare == {"EQ", "NEQ", "LT", "GT"}
Shift == {"OP_SHL", "FP_SHL", "OP_SHR", "FP_SHR"}
Ops == {"OP_ADD", "OP_SUB", "FP_SUB", "OP_MUL", "OP_DIV", "FP_DIV", "OP_REM",
        "FP_REM", "AND", "OR", "XOR"} \cup Compare \cup Shift

Numb == [typ : Types \cup Ops, val : Word]
          \cup [typ : {"SYM"}, val : Types \cup Ops]

\* No number: the program stops.  (A division by 0 is undefined in C, and
\* stops the processor the runtime is built for.)
Trap == [typ |-> "TRAP", val |-> 0]

new_u24(n) == [typ |-> "U24", val |-> n % 2^W]
new_i24(n) == [typ |-> "I24", val |-> n % 2^W]
new_f24(w) == [typ |-> "F24", val |-> w]

\* get_i24: the sign is the highest bit.
Signed(w) == IF w < 2^(W - 1) THEN w ELSE w - 2^W

is_num(a) == a.typ \in Types
is_cast(a) == a.typ = "SYM" /\ a.val \in Types
is_oper(a) == a.typ \in Ops

-----------------------------------------------------------------------------
(* Arithmetic of the processor.                                            *)

Bits(w) == {i \in 0 .. W - 1 : (w \div 2^i) % 2 = 1}
FromBits(S) == MapThenSumSet(LAMBDA i : 2^i, S)

Abs(n) == IF n < 0 THEN -n ELSE n

\* Division rounds towards 0; the remainder has the sign of the dividend.
Quot(x, y) == IF (x < 0) = (y < 0) THEN Abs(x) \div Abs(y) ELSE -(Abs(x) \div Abs(y))

\* A mutation: the remainder is never negative.
RemFloor(x, y) == x % Abs(y)
Rem(x, y) == x - y * Quot(x, y)

\* Shifts are by the count's low 5 bits.
ShiftL(x, n) == IF n % 32 >= W THEN 0 ELSE x * 2^(n % 32)
ShiftR(x, n) == IF n % 32 >= W THEN 0 ELSE x \div 2^(n % 32)

Truth(p) == new_u24(IF p THEN 1 ELSE 0)

-----------------------------------------------------------------------------
(* cast, partial, operate.                                                 *)

\* cast: number b to the type of symbol a.
cast(a, b) ==
  CASE a.val = b.typ -> b
    [] a.val = "U24" /\ b.typ = "I24" -> new_u24(Signed(b.val))
    [] a.val = "U24" /\ b.typ = "F24" -> new_u24(FromFloat("U24", b.val))
    [] a.val = "I24" /\ b.typ = "U24" -> new_i24(b.val)
    [] a.val = "I24" /\ b.typ = "F24" -> new_i24(FromFloat("I24", b.val))
    [] a.val = "F24" /\ b.typ = "U24" -> new_f24(ToFloat(b.val))
    [] a.val = "F24" /\ b.typ = "I24" -> new_f24(ToFloat(Signed(b.val)))

\* The partial application of symbol a to number b keeps b's bits and
\* forgets its type.
partial(a, b) == [typ |-> a.val, val |-> b.val]

new_int(ty, n) == IF ty = "U24" THEN new_u24(n) ELSE new_i24(n)

\* Operators on U24 and I24 alike, x and y the two integers.  (Overflow wraps;
\* for the product of two I24, as compiled.)
Arith(ty, op, x, y) ==
  CASE op = "OP_ADD" -> new_int(ty, x + y)
    [] op = "OP_SUB" -> new_int(ty, x - y)
    [] op = "FP_SUB" -> new_int(ty, y - x)
    [] op = "OP_MUL" -> new_int(ty, x * y)
    [] op = "OP_DIV" -> IF y = 0 THEN Trap ELSE new_int(ty, Quot(x, y))
    [] op = "FP_DIV" -> IF x = 0 THEN Trap ELSE new_int(ty, Quot(y, x))
    [] op = "OP_REM" -> IF y = 0 THEN Trap ELSE new_int(ty, Rem(x, y))
    [] op = "FP_REM" -> IF x = 0 THEN Trap ELSE new_int(ty, Rem(y, x))
    [] op = "EQ" -> Truth(x = y)
    [] op = "NEQ" -> Truth(x # y)
    [] op = "LT" -> Truth(x < y)
    [] op = "GT" -> Truth(x > y)

\* Bitwise operators, on the bits v and w.
Bitwise2(op, v, w) ==
  CASE op = "AND" -> FromBits(Bits(v) \cap Bits(w))
    [] op = "OR" -> FromBits(Bits(v) \cup Bits(w))
    [] op = "XOR" -> FromBits((Bits(v) \cup Bits(w)) \ (Bits(v) \cap Bits(w)))

\* Operators on floats.
FloatApply(op, v, w) ==
  CASE op = "FP_SUB" -> new_f24(FloatOp("OP_SUB", w, v))
    [] op = "FP_DIV" -> new_f24(FloatOp("OP_DIV", w, v))
    [] op = "FP_REM" -> new_f24(FloatOp("OP_REM", w, v))
    [] op \in Compare -> Truth(FloatOp(op, v, w) = 1)
    [] op \in {"FP_SHL", "FP_SHR"} -> new_f24(0)
    [] OTHER -> new_f24(FloatOp(op, v, w))

\* operate's switch: operator op with first operand v, second operand w of
\* type ty.  The operators that a type lacks give 0.
Native(ty, op, v, w) ==
  CASE ty = "U24" ->
         (CASE op = "OP_SHL" -> new_u24(ShiftL(v, w))
            [] op = "FP_SHL" -> new_u24(ShiftL(w, v))
            [] op = "OP_SHR" -> new_u24(ShiftR(v, w))
            [] op = "FP_SHR" -> new_u24(ShiftR(w, v))
            [] op \in {"AND", "OR", "XOR"} -> new_u24(Bitwise2(op, v, w))
            [] OTHER -> Arith(ty, op, v, w))
    [] ty = "I24" ->
         (CASE op \in Shift -> new_i24(0)
            [] op \in {"AND", "OR", "XOR"} -> new_i24(Bitwise2(op, v, w))
            [] OTHER -> Arith(ty, op, Signed(v), Signed(w)))
    [] ty = "F24" -> FloatApply(op, v, w)

\* The tests of operate: an operator and an operand go on to the native operation.
Applies(a, b) ==
  a.typ # "SYM" /\ b.typ # "SYM" /\ is_oper(a) # is_oper(b)

\* What the others give.
NotApplied(a, b) ==
  IF is_cast(a) /\ is_num(b) THEN cast(a, b)
  ELSE IF is_cast(b) /\ is_num(a) THEN cast(b, a)
  ELSE IF a.typ = "SYM" /\ b.typ # "SYM" THEN partial(a, b)
  ELSE IF a.typ # "SYM" /\ b.typ = "SYM" THEN partial(b, a)
  ELSE new_u24(0)

\* A mutation: the operands keep their places when the operator is in b.
OperandsInOrder(a, b) ==
  IF is_oper(a) THEN <<b.typ, a.typ, a.val, b.val>>
  ELSE <<a.typ, b.typ, a.val, b.val>>

\* The type, the operator and its operands: the operator's own comes first.
Operands(a, b) ==
  IF is_oper(a) THEN <<b.typ, a.typ, a.val, b.val>>
  ELSE <<a.typ, b.typ, b.val, a.val>>

operate(a, b) ==
  LET o == Operands(a, b)
  IN  IF Applies(a, b) THEN Native(o[1], o[2], o[3], o[4]) ELSE NotApplied(a, b)
=============================================================================
