\* Three addresses: three tasks, two of which end.
CONSTANTS
  Addr = {a1, a2, a3}
  NULL = NULL
  MaxProcesses = 3
  Values = {0}
  Entry = 0
  Flags = {0}
SPECIFICATION Spec
INVARIANT NextIsTask
CHECK_DEADLOCK FALSE
