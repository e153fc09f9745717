\* Requests of one and two blocks.
CONSTANTS
  Total = 4
  BlockSize = 4
  HeapAddress = 16
  UintRange = 32
  Sizes = {4, 8}
SPECIFICATION Spec
INVARIANT NoOverlap
CHECK_DEADLOCK FALSE
