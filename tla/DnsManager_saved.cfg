SPECIFICATION FairSpec
CONSTANTS
  Names = {n1, n2}
  Sync = {n1}
  Old = {n1, n2}
  Batch = 2
  MaxNew = 2
  MaxCrash = 0
  SqlFails = FALSE
PROPERTY FinishedIsSaved
