SPECIFICATION FairSpec
CONSTANTS
  t1 = t1 t2 = t2 t3 = t3 x = x y = y r = r m = m n = n o = o
  FREE = FREE  NONE = NONE
  Thread = {t1, t2, t3}
  Var = {x, y, r}
  Node = {m, n, o}
  Root = {r}
  Partition <- Cells
  Wirings <- SixPorts
  MaxFresh = 1
\* Every thread runs out of links.
CHECK_DEADLOCK FALSE
INVARIANTS Linear NoUseAfterFree DeletesOwned Resolved
PROPERTIES ImplementsWires LinksReturn
