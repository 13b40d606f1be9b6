CONSTANTS
  b1 = b1
  b2 = b2
  b3 = b3
  e1 = e1
  e2 = e2
  d1 = d1
  d2 = d2
  NULL = NULL
  MAX_EVENTS = 3
  Block <- MCBlock
  Id <- MCId
  Data <- MCData
SPECIFICATION Spec
SYMMETRY Symm
INVARIANTS
  OneOwner
PROPERTY ImplementsChannel
