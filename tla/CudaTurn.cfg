SPECIFICATION Spec
CONSTANTS
  TPB_L2 = 2
  BPG_L2 = 2
  RLEN = 6
  TICKS = 2
  GIVES = 1
  WRAP = 1000
  Redex = {1, 2, 3, 4, 5}
  High = {1, 3}
  Link = {}
  Par = {}
  Wide = {}
  Spawn <- TreeTwoBoots
  Need <- NeedExact
  Node = {leaf, pair}
  Under <- UnderPair
  Nodes <- PairAndLeaf
  Boots <- BootTwo
  leaf = leaf pair = pair EMPTY = EMPTY FULL = FULL NONE = NONE
\* The host boots no more redexes.
CHECK_DEADLOCK FALSE
INVARIANTS NothingLeft
