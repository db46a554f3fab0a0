SPECIFICATION FairSpec
CONSTANTS
  u1 = u1
  u2 = u2
  u3 = u3
  u4 = u4
  Urls = {u1, u2, u3, u4}
  Seed = u1
  BadUrls = {u3}
  NoHost = {u4}
  Links <- MCLinks
  Clients = {c1, c2, c3, c4}
  Tokens = {t1, t2, t3}
  Batch = 2
  Answers = {"ok", "error", "none"}
  MaxCrash = 0
  None = None
PROPERTIES
  EveryUrlRequested
  EveryRequestEnds
CHECK_DEADLOCK FALSE
