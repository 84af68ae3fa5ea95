CONSTANTS
  k1 = k1
  k2 = k2
  k3 = k3
  Keys <- MCKeys
  Vals = {v1}
  Hash <- MCHash
  Sizes <- MCSizes
  InitialSize = 2
  MinFill = 60
  Batch = 1
  ActiveRehashing = TRUE
  Iters = {i1}
  NULL = NULL
SPECIFICATION FairSpec
INVARIANTS TablesOK CursorFindsAChain NextEntryAlive NothingMissed
PROPERTIES NothingRepeated ImplementsMap RehashEnds
