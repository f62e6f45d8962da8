CONSTANTS
  DefaultMorselSize = 2
  SizeMod = 16
  RowMod = 8
  MaxThreads = 3
  ChunkSize = 2
  MaxRows = 5
  Selections <- MCSelections
SPECIFICATION Spec
INVARIANTS
  TypeOK
  PublishInBounds
  MatchesHeldOnce
  SlicesInOrder
PROPERTIES
  ImplementsSequentialFilter
