CONSTANTS
  DefaultMorselSize = 1
  SizeMod = 16
  RowMod = 8
  MaxThreads = 3
  ChunkSize = 2
  MaxRows = 3
  Selections <- MCSelections
  PriceColumns <- MCPriceColumns
  Infinity = 9
  None = None
SPECIFICATION Spec
INVARIANTS
  TypeOK
  SumConserved
  ExtremaTrack
PROPERTIES
  ImplementsSequentialAggregate
