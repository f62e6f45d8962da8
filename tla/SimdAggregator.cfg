CONSTANTS
  Archs = {"AVX2", "NEON"}
  MaxThreads = 2
  MaxRows = 17
  Totals = {0, 3, 10, 17}
  Selections <- MCSelections
  PriceColumns <- MCPriceColumns
  Infinity = 9
SPECIFICATION Spec
INVARIANTS
  TypeOK
  SumConserved
  MinimumTracked
PROPERTIES
  ImplementsSequentialSimd
