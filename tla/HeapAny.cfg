\* Requests of every shape: less than a block, a block and a byte,
\* and the largest size_t, which wraps to zero blocks like the request of 0.
CONSTANTS
  Total = 4
  BlockSize = 4
  HeapAddress = 16
  UintRange = 32
  Sizes = {1, 5, 31}
SPECIFICATION Spec
INVARIANT TypeOK
INVARIANT Consistent
INVARIANT LoopsAgree
PROPERTY StartBlockWasFree
PROPERTY NeverRefusedWhenEnough
CHECK_DEADLOCK FALSE
