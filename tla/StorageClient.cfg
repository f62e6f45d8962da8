CONSTANTS
  Readers = {r1, r2}
  r1 = r1
  r2 = r2
  Descriptors <- MCDescriptors
  Addresses <- MCAddresses
  FileSizes <- MCFileSizes
  MaxRows = 2
  SizeMod = 4
  RowMod = 3
SPECIFICATION ClientSpec
INVARIANTS
  ClientTypeOK
  OwnedOnce
  NothingForgotten
  RowsWhole
  ScanInTable
