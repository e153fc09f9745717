\* Two processes, of both kinds of files, on a heap that they can fill.
CONSTANTS
  PageSize = 4
  Pages = 17
  HeapAddress = 20
  HeapBlocks = 10
  MaxProcesses = 2
  MaxCalls = 5
  MaxAllocations = 2
  StackEnd = 4
  StackSize = 4
  Programs <- Files
  Sizes = {0, 3, 5}
SPECIFICATION Spec
INVARIANT TypeOK
INVARIANT WritableIsOwned
INVARIANT OwnIsReachable
INVARIANT SegmentsMapped
INVARIANT KernelIsReachable
 
PROPERTY DirectoryFollows
CHECK_DEADLOCK FALSE
