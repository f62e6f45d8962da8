CONSTANTS
  DefaultMorselSize = 1
  SizeMod = 16
  RowMod = 8
  MaxThreads = 3
  ChunkSize = 1
  MaxRows = 4
  Selections <- MCSelections
  Categories = {5, 7}
  Tables <- MCTables
  Infinity = 9
SPECIFICATION Spec
INVARIANTS
  TypeOK
  RowsGroupedOnce
  GroupsConsistent
PROPERTIES
  ImplementsSequentialGroupBy
