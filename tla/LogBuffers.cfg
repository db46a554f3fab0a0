SPECIFICATION FairSpec
CONSTANTS
  own = own
  b1 = b1
  b2 = b2
  b3 = b3
  Loggers = {l1, l2}
  Buffers = {own, b1, b2, b3}
  Own = own
  InitCount = 2
  MaxCount = 3
  Room = 8
  Slack = 2
  MinAvail = 3
  SizeOf <- MCSizeOf
  Direct <- MCLastOf
  LastOf <- MCLastOf
  MayFail = TRUE
  MayStop = TRUE
  None = None
INVARIANTS
  TypeOK
  OneHolder
  NoLostWakeup
  NothingLost
  ShortEntriesWhole
  SavedAfterStop
PROPERTIES
  EverythingSaved
  ImplementsChannel
CHECK_DEADLOCK FALSE
