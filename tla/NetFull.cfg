SPECIFICATION Spec
CONSTANTS
  W = 2
  FloatOp <- NoFloatOp
  ToFloat <- NoToFloat
  FromFloat <- NoFromFloat
  TPC = 1
  PLEN = 4
  Start = 0
  BagOf <- OneBag
  Bounded = {}
  Book <- Counting
\* The evaluation ends.
CHECK_DEADLOCK FALSE
INVARIANTS GetsResources
