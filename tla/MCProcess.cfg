\* Any pid and pid 0 may be used, and signals may interrupt a wait.  CHECK_DEADLOCK is off
\* because the program may stop or kill itself, and an infinite wait for a child that has
\* been suspended really blocks for good.
CONSTANTS
  NULL = NULL
  Pid <- MCPid
  SELF <- MCSelf
  ExitCodes <- MCExitCodes
  Timeouts <- MCTimeouts
  INTERVAL = 6
  INT_MAX = 15
  MAX_SLEPT = 18
  MAX_OWED = 6
  Proc <- MCProc
  ProcPid = {1, 2, 3}
  PidOf <- MCPidOf
  Parent <- MCParent
  Words <- MCWords
  UNKNOWN = UNKNOWN
  MAX = 2
CHECK_DEADLOCK FALSE
SPECIFICATION MCSpec
INVARIANTS
  TypeOK
  ChildrenKnown
  NoStrangerHit
  QueryTypeOK
  ListComplete
  FieldsOfHolder
PROPERTIES
  TimeoutNotEarly
  WaitReturns
