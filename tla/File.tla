-------------------------------- MODULE File --------------------------------
(***************************************************************************)
(* The file layer, fs/file.c, on a FAT16 disk (fs/fat/fat16.c): the table   *)
(* of descriptors and the calls on them.  The kernel runs a call to its end *)
(* with interrupts masked, so that a call is one step.                      *)
(***************************************************************************)
EXTENDS Fat16

CONSTANTS
  MaxDescriptors,  \* PEACHOS_MAX_FILE_DESCRIPTORS
  Paths,           \* the paths that are opened: a drive and what the slashes part
  Sizes, Blocks,   \* the sizes and numbers of blocks that are read
  Offsets,         \* the offsets of fseek
  MaxPosition      \* bound: where SEEK_CUR stops moving in the model

ASSUME FileAssumption ==
  /\ MaxDescriptors \in Nat \ {0}
  /\ \A path \in Paths :
       path.drive \in Int /\ path.parts \in Seq(Seq(STRING)) \ {<<>>}
  /\ Sizes \cup Blocks \subseteq Nat
  /\ Offsets \subseteq Int
  /\ MaxPosition \in Nat

VARIABLES
  file_descriptors,  \* slot to NULL or the item and the position of an open file
  out                \* the last call: what it was, its result and what it read

vars == <<file_descriptors, out>>

EINVARG  == 2
EBADPATH == 4
EUNIMP   == 7

Reply(call, res) == [call |-> call, res |-> res, bytes |-> <<>>]

\* Modes by their first letter; every other one is invalid.
Modes == {"r", "w", "a", "?"}

Whences == {"SEEK_SET", "SEEK_CUR", "SEEK_END", "?"}

-----------------------------------------------------------------------------
(* The calls                                                               *)

Init ==
  /\ file_descriptors = [i \in 1 .. MaxDescriptors |-> NULL]
  /\ out = Reply("fs_init", 0)

\* NULL for every number but those of open files; the last one is refused.
file_get_descriptor(fd) ==
  IF fd <= 0 \/ fd >= MaxDescriptors THEN NULL ELSE file_descriptors[fd]

\* 0 if none is free.
file_new_descriptor ==
  LET free == {i \in DOMAIN file_descriptors : file_descriptors[i] = NULL}
  IN  IF free = {} THEN 0 ELSE Min(free)

\* Faulty variant: a slot counts as free whatever it holds.
FirstDescriptor == 1

\* NULL if it fails: a path without a valid drive, of the root or of a disk
\* that is not there, a mode other than reading, no such item.
fat16_open(path, mode) ==
  LET parts == pathparser_parse(path.parts)
  IN  IF path.drive # 0 \/ parts = <<>> \/ mode # "r" THEN NULL
      ELSE fat16_get_directory_entry(parts)

\* A failure of any kind is 0.
fopen(path, mode) ==
  LET item == fat16_open(path, mode)
      fd   == IF item = NULL THEN 0 ELSE file_new_descriptor
  IN  /\ file_descriptors' =
           IF fd = 0 THEN file_descriptors
           ELSE [file_descriptors EXCEPT ![fd] = [item |-> item, pos |-> 0]]
      /\ out' = Reply("fopen", fd)

IsFile(desc) == Items[desc.item].type = "FILE"

fstat(fd) ==
  LET desc == file_get_descriptor(fd)
  IN  /\ out' = IF desc = NULL THEN Reply("fstat", -EIO)
                ELSE IF ~IsFile(desc) THEN Reply("fstat", -EINVARG)
                ELSE [Reply("fstat", 0) EXCEPT !.bytes = <<Items[desc.item].size>>]
      /\ UNCHANGED file_descriptors

\* A negative offset is a large unsigned one.
CanSeek(desc, offset) ==
  IsFile(desc) /\ offset >= 0 /\ offset < Items[desc.item].size

fseek(fd, offset, whence) ==
  LET desc == file_get_descriptor(fd)
      Move(pos) == /\ pos <= MaxPosition
                   /\ file_descriptors' = [file_descriptors EXCEPT ![fd].pos = pos]
                   /\ out' = Reply("fseek", 0)
      Fail(err) == UNCHANGED file_descriptors /\ out' = Reply("fseek", -err)
  IN  \/ desc = NULL /\ Fail(EIO)
      \/ desc # NULL /\ ~IsFile(desc) /\ Fail(EINVARG)
      \/ desc # NULL /\ IsFile(desc) /\ ~CanSeek(desc, offset) /\ Fail(EIO)
      \/ /\ desc # NULL /\ CanSeek(desc, offset)
         /\ \/ whence = "SEEK_SET" /\ Move(offset)
            \/ whence = "SEEK_CUR" /\ Move(desc.pos + offset)
            \/ whence = "SEEK_END" /\ Fail(EUNIMP)
            \/ whence = "?" /\ Fail(EINVARG)

\* Block after block, up to the first that fails.  The size of the file and
\* its end play no part.
fat16_read(desc, size, blocks) ==
  LET cluster  == Items[desc.item].cluster
      block    == [i \in 1 .. blocks |->
                     fat16_read_internal(cluster, desc.pos + (i - 1) * size, size)]
      failed   == {i \in 1 .. blocks : block[i].res < 0}
      last     == IF failed = {} THEN blocks ELSE Min(failed)
  IN  [res   |-> IF failed = {} THEN blocks ELSE block[last].res,
       bytes |-> FlattenSeq([i \in 1 .. last |-> block[i].bytes])]

\* Faulty variant: every block is read from where the first one was.
SameBlock(desc, size, blocks) ==
  LET block == fat16_read_internal(Items[desc.item].cluster, desc.pos, size)
  IN  [res   |-> IF block.res < 0 THEN block.res ELSE blocks,
       bytes |-> FlattenSeq([i \in 1 .. blocks |-> block.bytes])]

\* The position stays where it was.  A directory has no item to read: callers
\* have seen with fstat that they read a file.
fread(size, blocks, fd) ==
  LET desc == file_get_descriptor(fd)
      read == fat16_read(desc, size, blocks)
  IN  /\ \/ /\ size = 0 \/ blocks = 0 \/ desc = NULL
            /\ out' = Reply("fread", -EINVARG)
         \/ /\ size # 0 /\ blocks # 0 /\ desc # NULL
            /\ IsFile(desc)
            /\ out' = [call |-> "fread", res |-> read.res, bytes |-> read.bytes,
                       fd |-> fd, size |-> size, blocks |-> blocks]
      /\ UNCHANGED file_descriptors

fclose(fd) ==
  IF file_get_descriptor(fd) = NULL
    THEN UNCHANGED file_descriptors /\ out' = Reply("fclose", -EINVARG)
    ELSE /\ file_descriptors' = [file_descriptors EXCEPT ![fd] = NULL]
         /\ out' = Reply("fclose", 0)

Next ==
  \/ \E path \in Paths, mode \in Modes : fopen(path, mode)
  \/ \E fd \in 0 .. MaxDescriptors :
       \/ fstat(fd)
       \/ fclose(fd)
       \/ \E offset \in Offsets, whence \in Whences : fseek(fd, offset, whence)
       \/ \E size \in Sizes, blocks \in Blocks : fread(size, blocks, fd)

Spec == Init /\ [][Next]_vars

-----------------------------------------------------------------------------
(* Properties                                                              *)

\* What is open is a file or directory of the disk, at a position the model
\* reaches, and only in the slots of the table (fs/file.c:57).
TypeOK ==
  /\ file_descriptors \in
       [1 .. MaxDescriptors -> {NULL} \cup [item : Item, pos : 0 .. MaxPosition]]
  /\ out.res \in Int

\* What a file consists of: its clusters in the order of the chain in the FAT.
Byte(item, k) ==
  LET cluster[n \in 0 .. k \div ClusterSize] ==
        IF n = 0 THEN Items[item].cluster ELSE Fat[cluster[n - 1]]
  IN  (EndingSector + (cluster[k \div ClusterSize] - 2) * SectorsPerCluster)
        * SectorSize + (k % ClusterSize)

\* The last call read, or tried to, from an open file.
Reading == "fd" \in DOMAIN out
ReadEnd == file_descriptors[out.fd].pos + out.size * out.blocks
FileEnd == Items[file_descriptors[out.fd].item].size

ReadIsRight ==
  LET desc == file_descriptors[out.fd]
  IN  /\ out.res = out.blocks
      /\ out.bytes = [k \in 1 .. out.size * out.blocks |->
                        Byte(desc.item, desc.pos + k - 1)]

\* A read that stays in the file and in its first cluster succeeds and returns
\* exactly those bytes, however it is cut into blocks, across the ends of
\* sectors and after any fseek (fs/fat/fat16.c:455, disk/streamer.c:25).
ReadsFile == Reading /\ ReadEnd <= FileEnd /\ ReadEnd <= ClusterSize => ReadIsRight

\* A read that stays in the file returns its bytes, in whichever clusters they
\* are: "looking into the next cluster if size exceeds cluster (next cluster
\* found from FAT table)" (fs/fat/fat16.c:493).
ChainsRead == Reading /\ ReadEnd <= FileEnd => ReadIsRight

\* The names of an item: its filename and its extension without the spaces
\* that pad them, with a dot between if there is an extension, in any case.
Padded(str, n) == [k \in 1 .. n |-> IF k <= Len(str) THEN tolower(str[k]) ELSE Space]
LowerCase(str) == [k \in DOMAIN str |-> tolower(str[k])]

Names(part, item) ==
  \E n \in 1 .. NameSize :
    LET ext == SubSeq(part, n + 2, Len(part))
    IN  /\ n <= Len(part) /\ Len(part) <= n + 1 + ExtSize
        /\ Space \notin Range(part)
        /\ Padded(SubSeq(part, 1, n), NameSize) = LowerCase(Items[item].filename)
        /\ Padded(ext, ExtSize) = LowerCase(Items[item].ext)
        /\ n < Len(part) => part[n + 1] = "." /\ ext # <<>>

\* A way through the disk on which each part of the path names an entry of the
\* directory before it, from the root on.
LeadsTo(parts, item) ==
  \E way \in [DOMAIN parts -> Item] :
    /\ way[Len(parts)] = item
    /\ \A k \in DOMAIN parts :
         /\ Names(parts[k], way[k])
         /\ way[k] \in Range(IF k = 1 THEN Root ELSE Items[way[k - 1]].entries)

Named == [path \in Paths |-> {item \in Item : LeadsTo(path.parts, item)}]

\* No directory on the way has a deleted entry, which can hide others.
Complete(parts) ==
  /\ Deleted \notin Range(Root)
  /\ \A i \in Item : (\E part \in Range(parts) : Names(part, i))
                       => Deleted \notin Range(Items[i].entries)

\* What fopen opens for reading is what the path leads to, at its beginning and
\* in a slot that was free, whatever was deleted; and it opens nothing only if
\* the path leads nowhere, the table is full or deleted entries hide others.
\* An empty part cuts a path off (fs/fat/fat16.c:189, fs/fat/fat16.c:308,
\* fs/fat/fat16.c:582, fs/pparser.c:87).
OpensNamed ==
  [][out'.call = "fopen" => \A path \in Paths :
       fopen(path, "r") /\ path.drive = 0 /\ <<>> \notin Range(path.parts) =>
         LET fd == out'.res
         IN  \/ /\ fd > 0
                /\ file_descriptors[fd] = NULL
                /\ file_descriptors'[fd].item \in Named[path]
                /\ file_descriptors'[fd].pos = 0
             \/ /\ fd = 0
                /\ \/ Named[path] = {}
                   \/ \A i \in DOMAIN file_descriptors : file_descriptors[i] # NULL
                   \/ ~Complete(path.parts)]_vars
=============================================================================
