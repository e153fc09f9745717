-------------------------------- MODULE Fat16 --------------------------------
(***************************************************************************)
(* A FAT16 disk as fs/fat/fat16.c, fs/pparser.c and disk/streamer.c read    *)
(* it: the layout, cluster chains, directories and the reading of bytes.    *)
(* Nothing here has state: the driver never writes.                         *)
(*                                                                         *)
(* Every byte of the disk is its own position, so that what a read returns  *)
(* says where it was read.  Only the words of the FAT have a value.         *)
(***************************************************************************)
EXTENDS Integers, Sequences, SequencesExt, FiniteSetsExt

CONSTANTS
  SectorSize,         \* PEACHOS_SECTOR_SIZE, disk->sector_size
  SectorsPerCluster,  \* the fields of struct fat_header ...
  ReservedSectors,
  FatCopies,
  SectorsPerFat,
  RootEntries,
  ItemSize,           \* sizeof(struct fat_directory_item)
  NameSize, ExtSize,  \* the sizes of its filename and its ext
  Lower,              \* upper case letters to lower case ones
  Fat,                \* the file allocation table: cluster to next cluster
  Stray,              \* the word that is found anywhere else on the disk
  Items,              \* the files and directories of the disk
  Root,               \* the entries of the root directory, in order
  Deleted,            \* an entry whose name begins with 0xE5
  NULL

ClusterSize == SectorsPerCluster * SectorSize
Item        == DOMAIN Items

Used(entries) == {k \in DOMAIN entries : entries[k] # Deleted}

\* The root directory ends with a sector: ending_sector_pos leaves the rest out.
ASSUME LayoutAssumption ==
  /\ {SectorSize, SectorsPerCluster, ReservedSectors, FatCopies,
      SectorsPerFat, RootEntries, ItemSize, NameSize, ExtSize} \subseteq Nat \ {0}
  /\ (RootEntries * ItemSize) % SectorSize = 0

ASSUME FatAssumption ==
  /\ DOMAIN Fat \subseteq Nat
  /\ \A c \in DOMAIN Fat : Fat[c] \in Nat /\ Fat[c] < 2 ^ 16
  /\ Stray \in Nat /\ Stray < 2 ^ 16

\* A directory is a sequence of entries that ends with an empty one, within its
\* one cluster; one that is not the root has an entry in use (real ones have
\* "." and "..").
ASSUME ItemsAssumption ==
  /\ Deleted \notin Item /\ NULL \notin Item
  /\ Root \in Seq(Item \cup {Deleted}) /\ Len(Root) < RootEntries
  /\ \A i \in Item :
       /\ Items[i].cluster \in DOMAIN Fat \ {0, 1}
       /\ Items[i].size \in Nat
       /\ Items[i].filename \in Seq(STRING) /\ Len(Items[i].filename) = NameSize
       /\ Items[i].ext \in Seq(STRING) /\ Len(Items[i].ext) = ExtSize
       /\ Items[i].entries \in Seq(Item \cup {Deleted})
       /\ Len(Items[i].entries) * ItemSize < ClusterSize
       /\ \/ Items[i].type = "FILE" /\ Items[i].entries = <<>>
          \/ Items[i].type = "DIRECTORY" /\ Used(Items[i].entries) # {}

EIO == 1

-----------------------------------------------------------------------------
(* The disk                                                                *)

\* disk_read_block reads sector by sector; a read that ends with a sector
\* goes on for nothing with the next one.
diskstreamer_read[total \in Nat] ==
  [pos \in Int |->
     LET offset      == pos % SectorSize
         overflow    == offset + total >= SectorSize
         totalToRead == IF overflow THEN SectorSize - offset ELSE total
         bytes       == [i \in 1 .. totalToRead |-> pos + i - 1]
     IN  IF overflow
           THEN bytes \o diskstreamer_read[total - totalToRead][pos + totalToRead]
           ELSE bytes]

FatPosition == ReservedSectors * SectorSize

\* The 16-bit word at a position.
Word(pos) ==
  LET n == (pos - FatPosition) \div 2
  IN  IF pos % 2 = FatPosition % 2 /\ n \in DOMAIN Fat THEN Fat[n] ELSE Stray

RootSector   == FatCopies * SectorsPerFat + ReservedSectors
EndingSector == RootSector + (RootEntries * ItemSize) \div SectorSize

fat16_cluster_to_sector(cluster) ==
  EndingSector + (cluster - 2) * SectorsPerCluster

-----------------------------------------------------------------------------
(* Cluster chains                                                          *)

\* The position is a product where the entry's is the sum.
fat16_get_fat_entry(cluster) == Word(FatPosition * (cluster * 2))

\* 0xFF8, 0xFFF: the last cluster.  0xFF7: bad.  0xFF0, 0xFF6: reserved.
\* 0: the table is corrupted.
NoCluster == {4088, 4095, 4087, 4080, 4086, 0}

NextCluster(cluster) ==
  LET entry == fat16_get_fat_entry(cluster)
  IN  IF entry \in NoCluster THEN -EIO ELSE entry

fat16_get_cluster_for_offset(starting_cluster, offset) ==
  LET after[n \in 0 .. offset \div ClusterSize] ==
        IF n = 0 THEN starting_cluster
        ELSE IF after[n - 1] < 0 THEN after[n - 1]
        ELSE NextCluster(after[n - 1])
  IN  after[offset \div ClusterSize]

\* Faulty variant: the position in the cluster is left out.
FromClusterStart(cluster, offset) ==
  fat16_cluster_to_sector(cluster) * SectorSize

\* starting_pos
StartingPos(cluster, offset) ==
  fat16_cluster_to_sector(cluster) * SectorSize + (offset % ClusterSize)

\* What is read before the first failure, and the result.  A request goes up
\* to a cluster at a time, from wherever in a cluster it begins.
fat16_read_internal(starting_cluster, from, all) ==
  LET read[total \in 0 .. all] ==
        [offset \in Nat |->
           LET cluster == fat16_get_cluster_for_offset(starting_cluster, offset)
               n       == Min({total, ClusterSize})
               bytes   == diskstreamer_read[n][StartingPos(cluster, offset)]
               rest    == read[total - n][offset + n]
           IN  IF cluster < 0 THEN [res |-> cluster, bytes |-> <<>>]
               ELSE IF total > n
                 THEN [res |-> rest.res, bytes |-> bytes \o rest.bytes]
               ELSE [res |-> 0, bytes |-> bytes]]
  IN  read[all][from]

-----------------------------------------------------------------------------
(* Directories and paths                                                   *)

Space == " "

\* What is at in, up to the first space, and max characters at most: a name
\* that fills its field has no space behind it.
fat16_to_proper_string(in, max) ==
  LET end == SelectInSeq(in, LAMBDA c : c = Space)
  IN  SubSeq(in, 1, Min({max, IF end = 0 THEN Len(in) ELSE end - 1}))

\* Faulty variant: a name that fills its field runs on into the extension.
RunsOn(item) ==
  fat16_to_proper_string(item.filename \o item.ext, NameSize + ExtSize)
    \o IF item.ext[1] = Space THEN <<>>
       ELSE <<".">> \o fat16_to_proper_string(item.ext, ExtSize)

\* 'name.ext'; the extension follows the name on the disk.
fat16_get_full_relative_filename(item) ==
  fat16_to_proper_string(item.filename \o item.ext, NameSize)
    \o IF item.ext[1] = Space THEN <<>>
       ELSE <<".">> \o fat16_to_proper_string(item.ext, ExtSize)

tolower(c) == IF c \in DOMAIN Lower THEN Lower[c] ELSE c

\* Whether strncmp_insensitive finds no difference.
SameName(str1, str2) ==
  /\ Len(str1) = Len(str2)
  /\ \A k \in DOMAIN str1 : tolower(str1[k]) = tolower(str2[k])

HasName(entry, name) ==
  entry # Deleted /\ SameName(fat16_get_full_relative_filename(Items[entry]), name)

\* fat16_get_total_items_for_directory does not count deleted entries, but
\* they take up room in the array that is loaded.
Loaded(entries) == SubSeq(entries, 1, Cardinality(Used(entries)))

\* Faulty variant: deleted entries are not told apart.
AnyEntry(entries, name) ==
  LET found == {k \in DOMAIN Loaded(entries) :
                  entries[k] = Deleted \/ HasName(entries[k], name)}
  IN  IF found = {} THEN NULL ELSE entries[Max(found)]

\* The last item of that name.  A deleted one has no name a path can have.
fat16_find_item_in_directory(entries, name) ==
  LET found == {k \in DOMAIN Loaded(entries) : HasName(entries[k], name)}
  IN  IF found = {} THEN NULL ELSE entries[Max(found)]

\* Faulty variant: the rest of the path is left out.
FirstPart(parts) == fat16_find_item_in_directory(Root, parts[1])

\* The item that the parts of a path lead to.
fat16_get_directory_entry(parts) ==
  LET item[k \in 1 .. Len(parts)] ==
        IF k = 1 THEN fat16_find_item_in_directory(Root, parts[1])
        ELSE IF item[k - 1] = NULL \/ Items[item[k - 1]].type # "DIRECTORY" THEN NULL
        ELSE fat16_find_item_in_directory(Items[item[k - 1]].entries, parts[k])
  IN  item[Len(parts)]

\* The parts of a path, given as the strings between its slashes: the first
\* empty one ends it.
pathparser_parse(between) ==
  LET empty == SelectInSeq(between, LAMBDA part : part = <<>>)
  IN  IF empty = 0 THEN between ELSE SubSeq(between, 1, empty - 1)
=============================================================================
