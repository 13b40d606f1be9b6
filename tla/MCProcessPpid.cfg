\* The parent that get_ppid reports.
CONSTANTS
  NULL = NULL
  Pid <- MCPid
  SELF <- MCSelf
  ExitCodes <- MCExitCodes
  Timeouts <- MCTimeouts
  INTERVAL = 6
  INT_MAX = 15
  MAX_SLEPT = 18
  MAX_OWED = 6
  Proc <- MCProc
  ProcPid = {1, 2, 3}
  PidOf <- MCPidOf
  Parent <- MCParent
  Words <- MCWords
  UNKNOWN = UNKNOWN
  MAX = 2
CHECK_DEADLOCK FALSE
SPECIFICATION MCSpec
INVARIANT PpidIsParent
