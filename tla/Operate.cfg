SPECIFICATION OperationSpec
CONSTANTS
  W = 6
  FloatOp <- HashOp
  ToFloat <- HashTo
  FromFloat <- HashFrom
  Payload = {0, 1, 2, 3, 31, 32, 33, 62, 63}
  Operand <- Edges
\* Two operands and no more.
CHECK_DEADLOCK FALSE
INVARIANTS ComputesOperation OrderFree
