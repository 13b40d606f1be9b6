\* One walk is followed to its end, where the program stops: CHECK_DEADLOCK is off.
CONSTANTS
  n1 = n1
  n2 = n2
  n3 = n3
  long = long
  v1 = v1
  v2 = v2
  NULL = NULL
  Key <- MCAllKeys
  Value <- MCValue
  Sys <- MCSys
  INT_MAX = 7
  LONG_MAX = 31
  MAX_SET = 2
  NO_NAME = NO_NAME
  EntryName <- MCEntryName
  LongName <- MCLongName
  EntryValue <- MCEntryValue
  MAX_ENTRIES = 3
CHECK_DEADLOCK FALSE
SPECIFICATION MCSpec
INVARIANTS
  RoundTrip
  NoneTwice
  MissesAtMostUnset
PROPERTIES
  NoInterference
  ForeachEnds
