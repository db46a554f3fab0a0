SPECIFICATION Spec
CONSTANTS
  u1 = u1
  u2 = u2
  u3 = u3
  u4 = u4
  Urls = {u1, u2, u3, u4}
  Seed = u1
  BadUrls = {u3}
  NoHost = {u4}
  Links <- MCLinks
  Clients = {c1, c2, c3, c4}
  Tokens = {t1, t2, t3}
  Batch = 2
  Answers = {"ok", "redirect", "error", "none"}
  MaxCrash = 1
  None = None
SYMMETRY Symmetry
INVARIANTS
  TypeOK
  OneOwner
  ProcessingInHand
  OneRequestPerRow
  PendingIsLive
  LiveWithinTokens
  NoClientLeaks
  FinishedHasLinks
CHECK_DEADLOCK FALSE
