SPECIFICATION FairSpec
CONSTANTS
  W = 2
  FloatOp <- NoFloatOp
  ToFloat <- NoToFloat
  FromFloat <- NoFromFloat
  TPC = 2
  PLEN = 12
  Start = 10
  BagOf <- OneBag
  Bounded = {}
  Book <- Programs
\* The evaluation ends.
CHECK_DEADLOCK FALSE
INVARIANTS Linear Confluent CountInvariant OnlyResult
PROPERTIES Terminates
