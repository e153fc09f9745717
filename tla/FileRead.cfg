SPECIFICATION Spec
CONSTANTS
  SectorSize = 4
  SectorsPerCluster = 2
  ReservedSectors = 1
  FatCopies = 1
  SectorsPerFat = 6
  RootEntries = 6
  ItemSize = 2
  NameSize = 2
  ExtSize = 1
  Lower <- DiskLower
  Stray = 0
  Deleted = Deleted
  NULL = NULL
  Fat <- DiskFat
  Items <- DiskItems
  Root <- DiskRoot
  MaxDescriptors = 3
  Paths <- DiskPaths
  Sizes = {0, 2, 5}
  Blocks = {0, 1, 3}
  Offsets <- DiskOffsets
  MaxPosition = 6
INVARIANTS TypeOK ReadsFile
PROPERTY OpensNamed
