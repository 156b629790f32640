SPECIFICATION IOSpec
CONSTANTS
  W = 4
  FloatOp <- NoFloatOp
  ToFloat <- NoToFloat
  FromFloat <- NoFromFloat
  TPC = 1
  PLEN = 80
  Start = 0
  BagOf <- OneBag
  Bounded = {}
  Book <- Programs
  Magic <- MagicPair
  Ffns <- Functions
  Answers <- Few
\* The loop ends.
CHECK_DEADLOCK FALSE
INVARIANTS CallsMade Answered
PROPERTIES Ends
