CONSTANTS
  Archs = {"AVX2"}
  MaxThreads = 2
  MaxRows = 10
  Totals = {0, 3, 10}
  Selections <- MCSelections
  PriceColumns <- MCPriceColumns
  Infinity = 9
SPECIFICATION Spec
PROPERTIES
  MaximumIsLargest
