SPECIFICATION FairSpec
CONSTANTS
  TPC = 2
  RLEN = 3
  HLEN = 3
  TICK = 3
  Redex = {1, 2, 3, 4, 5, 6, 7, 8, 9, 10}
  High = {1, 3, 9}
  Link = {}
  Spawn <- TreeTwoBoots
  Need <- NeedExact
  Delayed = {2, 3, 6}
  Boots <- BootsTwo
  FREE = 0
\* Main boots no more redexes.
CHECK_DEADLOCK FALSE
INVARIANTS TypeOK EvalInv NothingLeft Conserved ItrsExact
PROPERTIES ImplementsPool Finishes
