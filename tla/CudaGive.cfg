SPECIFICATION Spec
CONSTANTS
  TPB_L2 = 2
  BPG_L2 = 2
  RLEN = 6
  TICKS = 2
  GIVES = 2
  WRAP = 1000
  Redex = {1, 2}
  High = {1}
  Link = {}
  Par = {2}
  Wide = {}
  Spawn <- TreeLone
  Need <- NeedExact
  Node = {leaf, pair}
  Under <- UnderPair
  Nodes <- PairAndLeaf
  Boots <- BootOne
  leaf = leaf pair = pair EMPTY = EMPTY FULL = FULL NONE = NONE
\* The host boots no more redexes.
CHECK_DEADLOCK FALSE
INVARIANTS Conserved
