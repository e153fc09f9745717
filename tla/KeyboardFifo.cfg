\* A buffer of two characters, counters that wrap after four, two slots of the process table.
CONSTANTS
  Slots = 2
  Size = 2
  IntRange = 4
  keyboard_scan_set_one <- FiveKeys
  Beyond = {0, 49}
  CAPSLOCK = 2
  KEY_RELEASED = 8
  TypeAhead = 2
SPECIFICATION FairSpec
INVARIANT TypeOK
PROPERTY ImplementsKeyQueue
 
CHECK_DEADLOCK FALSE
