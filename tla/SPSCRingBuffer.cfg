CONSTANTS
  a = a
  b = b
  c = c
  None = None
  Items <- MCItems
  Capacity = 3
SPECIFICATION RingSpec
INVARIANTS
  RingTypeOK
  ViewsInOrder
  NoDataRace
PROPERTIES
  ImplementsFifo
