SPECIFICATION CudaSpec
CONSTANTS
  W = 2
  FloatOp <- NoFloatOp
  ToFloat <- NoToFloat
  FromFloat <- NoFromFloat
  TPC = 4
  PLEN = 12
  Start = 0
  BagOf <- BlockBags
  Bounded <- LocalThreads
  Book <- Grid
  MaxLaunch = 3
\* The last launch ends.
CHECK_DEADLOCK FALSE
INVARIANTS NetLinear Private NothingLost CudaConfluent
