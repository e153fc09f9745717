--------------------------------- MODULE Elf ---------------------------------
(***************************************************************************)
(* ELF images, loader/formats/elfloader.c, and their mapping into a         *)
(* directory, process_map_elf of task/process.c.  A file is its size,       *)
(* whether its header passes the validation, and its program headers.       *)
(***************************************************************************)
EXTENDS Paging, Sequences

Segment(type, vaddr, offset, filesz, memsz, flags) ==
  [type |-> type, vaddr |-> vaddr, offset |-> offset, filesz |-> filesz,
   memsz |-> memsz, flags |-> flags]

-----------------------------------------------------------------------------
(* What elf_load records of an image: struct elf_file                      *)

ElfFile == [virtual_base : Nat, virtual_end : Nat,
            physical_base : Nat, physical_end : Nat]

Unprocessed == [virtual_base |-> 0, virtual_end |-> 0,
                physical_base |-> 0, physical_end |-> 0]

\* Faulty variant: the start of the last segment, wherever it is.
LastBase(elf, memory, phdr) ==
  [virtual_base  |-> phdr.vaddr,
   physical_base |-> memory + phdr.offset,
   virtual_end   |-> phdr.vaddr + phdr.filesz,
   physical_end  |-> memory + phdr.offset + phdr.filesz]

\* The lowest start and the highest end so far; 0 stands for none.
elf_process_pheader_pt_load(elf, memory, phdr) ==
  LET end  == phdr.vaddr + phdr.filesz
      low  == elf.virtual_base >= phdr.vaddr \/ elf.virtual_base = 0
      high == elf.virtual_end <= end \/ elf.virtual_end = 0
  IN  [virtual_base  |-> IF low THEN phdr.vaddr ELSE elf.virtual_base,
       physical_base |-> IF low THEN memory + phdr.offset ELSE elf.physical_base,
       virtual_end   |-> IF high THEN end ELSE elf.virtual_end,
       physical_end  |-> IF high THEN memory + phdr.offset + phdr.filesz
                                 ELSE elf.physical_end]

elf_process_pheader(elf, memory, phdr) ==
  IF phdr.type = "PT_LOAD" THEN elf_process_pheader_pt_load(elf, memory, phdr)
                           ELSE elf

elf_process_pheaders(memory, file) ==
  LET elf[i \in 0 .. Len(file.headers)] ==
        IF i = 0 THEN Unprocessed
                 ELSE elf_process_pheader(elf[i - 1], memory, file.headers[i])
  IN  elf[Len(file.headers)]

\* Returns 0 in any case: what is not valid is merely not processed.
elf_process_loaded(memory, file) ==
  IF file.valid THEN elf_process_pheaders(memory, file) ELSE Unprocessed

-----------------------------------------------------------------------------
(* Mapping                                                                 *)

User == {"PRESENT", "ACCESS_FROM_ALL"}

elf_phdr_phys_address(memory, phdr) == Wrap(memory + phdr.offset)

\* Faulty variant: everything may be written to.
AllWritable(phdr) == User \cup {"WRITEABLE"}

SegmentFlags(phdr) ==
  User \cup (IF "PF_W" \in phdr.flags THEN {"WRITEABLE"} ELSE {})

MapHeader(dir, memory, phdr) ==
  LET phys == elf_phdr_phys_address(memory, phdr)
  IN  paging_map_to(dir,
                    paging_align_to_lower_page(phdr.vaddr),
                    paging_align_to_lower_page(phys),
                    paging_align_address(Wrap(phys + phdr.memsz)),
                    SegmentFlags(phdr))

\* Every header is mapped, whatever its type, up to the first that fails.
process_map_elf(dir, memory, file) ==
  LET mapped[i \in 0 .. Len(file.headers)] ==
        IF i = 0 THEN Mapped(0, dir)
        ELSE IF mapped[i - 1].res < 0 THEN mapped[i - 1]
        ELSE MapHeader(mapped[i - 1].dir, memory, file.headers[i])
  IN  mapped[Len(file.headers)]
=============================================================================
