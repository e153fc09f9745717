\* Up to three processes with up to two allocations, and every way a load can end.
CONSTANTS
  Memory = 18
  MaxProcesses = 3
  MaxAllocations = 2
  MaxArguments = 2
  MaxLoads = 2
  Files = {"elf", "raw", "absent", "unreadable"}
SPECIFICATION Spec
INVARIANT TypeOK
 
INVARIANT TableLinked
PROPERTY OthersUntouched
CHECK_DEADLOCK FALSE
