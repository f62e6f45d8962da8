CONSTANTS
  Readers = {main}
  main = main
  Main = main
  Descriptors = {3}
  Addresses = {1}
  FileSizes = {0, 1}
  MaxRows = 3
  DefaultMorselSize = 2
  SizeMod = 16
  RowMod = 8
  Files <- MCFiles
  Inspections = {0, 2, 5}
  MorselSizes = {0, 1}
SPECIFICATION Spec
INVARIANTS
  TypeOK
  ReleasedOnExit
PROPERTIES
  ImplementsBenchmark
