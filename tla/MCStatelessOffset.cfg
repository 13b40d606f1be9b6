CONSTANTS
  Bit = {0, 1}
  Name = {"a", "bcd"}
  Width <- MCWidth
  NULL = NULL
  MAX_ENTRIES = 3
  MAX_PIECES = 2
  MAX_OUT = 12
  Bad = Bad
  Garbage = Garbage
  Unknown = Unknown
  Empty = Empty
  Answer = {"answer", "other"}
  Count = {0, 1, 2}
  MAX_LINES = 3
  MAX_CHARS = 9
  NAME_SIZE = 3
  TICKS = 2
  WORD = 64
  Instant <- MCInstant
  MAX_DELAY = 3
  Quarter <- MCQuarter
  Zone <- MCZone
SPECIFICATION Spec
INVARIANT OffsetInRange
