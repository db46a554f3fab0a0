SPECIFICATION Spec
CONSTANTS
  Timeouts <- MCTimeouts
  MaxCalls = 2
  EFAIL = 111
  EALREADY = 114
  EISCONN = 106
INVARIANT ZeroMeansConnected
