\* A program asks for no bytes, then for some, and frees them once.
CONSTANTS
  PageSize = 4
  Pages = 17
  HeapAddress = 20
  HeapBlocks = 10
  MaxProcesses = 2
  MaxCalls = 5
  MaxAllocations = 2
  StackEnd = 4
  StackSize = 4
  Programs <- Files
  Sizes = {0, 3}
SPECIFICATION Spec
PROPERTY FreedIsUnlinked
CHECK_DEADLOCK FALSE
