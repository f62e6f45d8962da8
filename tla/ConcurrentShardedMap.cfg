CONSTANTS
  Threads = {t1, t2}
  Keys = {0, 1, 2}
  NumShards = 2
  HashOf <- MCHashOf
  MaxUpdates = 2
SPECIFICATION Spec
INVARIANTS
  TypeOK
  OneHolder
  NoLostUpdate
  GatheredInBetween
PROPERTIES
  EveryCallReturns
