SPECIFICATION FairSpec
CONSTANTS
  Names = {n1, n2, n3}
  Sync = {n1}
  Old = {n1, n2}
  Batch = 2
  MaxNew = 2
  MaxCrash = 1
  SqlFails = TRUE
INVARIANTS
  TypeOK
  LoopEndsWithLast
  ProcessingInHand
PROPERTIES
  ReadyStays
  EveryNameReady
  NewNamesAdded
