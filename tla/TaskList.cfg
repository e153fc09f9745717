\* Three addresses and two values of the registers.
CONSTANTS
  Addr = {a1, a2, a3}
  NULL = NULL
  MaxProcesses = 3
  Values = {0, 1}
  Entry = 0
  Flags = {0}
SPECIFICATION FairSpec
INVARIANT TypeOK
INVARIANT Scheduled
PROPERTY RegistersRestored
PROPERTY EveryTaskRuns
CHECK_DEADLOCK FALSE
