SPECIFICATION FairSpec
CONSTANTS
  TPC = 4
  MaxSync = 3
\* The threads stop after MaxSync barriers.
CHECK_DEADLOCK FALSE
INVARIANTS TypeOK BarrierInv
PROPERTIES ImplementsBarrier AllReturn
