SPECIFICATION FairSpec
CONSTANTS
  TPB_L2 = 2
  BPG_L2 = 2
  RLEN = 6
  TICKS = 2
  GIVES = 1
  WRAP = 1000
  Redex = {1, 2, 3, 4, 5, 6, 7, 8, 9, 10, 11, 12, 13, 14, 15, 16, 17, 18, 19, 20, 21, 22}
  High = {1, 8}
  Link = {}
  Par = {2, 4, 5, 6, 12, 15, 18, 20}
  Wide = {12, 17}
  Spawn <- Tree
  Need <- NeedExact
  Node = {leaf, pair}
  Under <- UnderPair
  Nodes <- PairAndLeaf
  Boots <- BootOne
  leaf = leaf pair = pair EMPTY = EMPTY FULL = FULL NONE = NONE
\* The host boots no more redexes.
CHECK_DEADLOCK FALSE
INVARIANTS TypeOK Conserved SpawnedIdle CountExact
PROPERTIES ImplementsPool Returns
