\* Requests of one block at most.
CONSTANTS
  Total = 7
  BlockSize = 4
  HeapAddress = 16
  UintRange = 32
  Sizes = {1, 3, 4}
SPECIFICATION Spec
INVARIANT AlwaysSound
INVARIANT PanicOnlyWhenFull
PROPERTY ImplementsHeapSpec
CHECK_DEADLOCK FALSE
