CONSTANTS
  e1 = e1
  e2 = e2
  NULL = NULL
  MAX_EVENTS = 3
  Id <- MCId
  Timeouts <- MCTimeouts
  MULT = 2
  CLOCKS_PER_SEC = 4
  CLOCK_MOD = 32
  UINT32_MOD = 8
  MAX_CPU = 9
SPECIFICATION FairSpec
INVARIANTS
  IndicesInBounds
  NoPhantomEvent
  TimeoutNotEarly
PROPERTY WaitReturns
