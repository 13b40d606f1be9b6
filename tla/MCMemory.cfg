\* The program stops at undefined behaviour: CHECK_DEADLOCK is off.
CONSTANTS
  b1 = b1
  b2 = b2
  b3 = b3
  x = x
  y = y
  NULL = NULL
  Block <- MCBlock
  Var <- MCVar
  BYTE = 3
  MAX_SIZE = 3
  Value <- MCValue
CHECK_DEADLOCK FALSE
SPECIFICATION Spec
SYMMETRY Symm
INVARIANTS
  TypeOK
  OneOwner
  OverrunOnlyAfterRefusal
  BytesRight
PROPERTY ContentKept
