CONSTANTS
  t1 = t1
  t2 = t2
  t3 = t3
  Threads <- MCThreads
  Totals <- MCTotals
  Sizes <- WideSizes
  DefaultMorselSize = 2
  SizeMod = 16
  RowMod = 8
SPECIFICATION Spec
INVARIANTS
  RegionDrainsTable
