SPECIFICATION FairSpec
CONSTANTS
  seed = seed
  a = a
  b = b
  Urls = {seed, a, b}
  Seed = seed
  Links <- MCLinks
  Workers = {w1, w2}
  Loaders = {w1}
  Collector = collector
  Batch = 2
  Wal = FALSE
  MaxFault = 1
  None = None
INVARIANTS
  TypeOK
  TransactionHasOwner
  AddedIsDurable
  FinishedLinksDurable
PROPERTIES
  IssuedOnce
  RetryEnds
