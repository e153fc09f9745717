--------------------------- MODULE AddressSpaces ---------------------------
(***************************************************************************)
(* The address spaces of processes: the page directory of every task, what  *)
(* task/process.c, task/task.c and loader/ map into it, and the kernel heap *)
(* of the module Heap, whose table and search give out the frames.          *)
(*                                                                         *)
(* A process is its slot in the table.  Its task stands for everything the  *)
(* kernel allocates for itself with it and frees with it: the struct task   *)
(* and the directory, the struct process and the struct elf_file.           *)
(* Loads that fail and what they leave behind are in the module Process.    *)
(* A panic stops the kernel: there is no step for it.                       *)
(***************************************************************************)
EXTENDS Elf, FiniteSetsExt, Functions

CONSTANTS
  HeapAddress,     \* PEACHOS_HEAP_ADDRESS
  HeapBlocks,      \* blocks of the kernel heap, each as large as a page
  MaxProcesses,    \* PEACHOS_MAX_PROCESSES
  MaxAllocations,  \* PEACHOS_MAX_PROGRAM_ALLOCATIONS
  StackEnd,        \* PEACHOS_PROGRAM_VIRTUAL_STACK_ADDRESS_END
  StackSize,       \* PEACHOS_USER_PROGRAM_STACK_SIZE
  MaxCalls,        \* bound on the loads and the calls of malloc
  Programs,        \* the ELF files
  Sizes            \* sizes in bytes that programs ask malloc for

ASSUME AddressSpacesAssumption ==
  /\ HeapAddress \in Nat \ {0} /\ paging_is_aligned(HeapAddress)
  /\ HeapBlocks \in Nat \ {0}
  /\ PageOf(HeapAddress) + HeapBlocks <= Pages
  /\ MaxProcesses \in Nat /\ MaxAllocations \in Nat /\ MaxCalls \in Nat
  /\ StackEnd \in Address /\ StackSize \in Address
  /\ Sizes \subseteq Address
  /\ \A f \in Programs :
       /\ f.size \in Address
       /\ f.headers \in Seq(Range(f.headers))
       /\ \A phdr \in Range(f.headers) :
            {phdr.vaddr, phdr.offset, phdr.filesz, phdr.memsz} \subseteq Address

VARIABLES
  heap,         \* the table of the kernel heap
  alive,        \* the slots of processes that exist
  runner,       \* task_current()->process, NONE before the first load
  file,         \* slot to the file it was loaded from
  elf_file,     \* slot to what elf_load records of the image
  memory, stack, task,          \* slot to the address of each
  allocations,  \* slot to its allocation entries
  directory,    \* slot to page_directory
  calls,        \* how many programs were loaded and mallocs called
  sound         \* history: the heap gave out free, non-empty runs so far

image == <<file, elf_file, memory, stack, task>>
vars  == <<heap, alive, runner, image, allocations, directory, calls, sound>>

Kernel == INSTANCE Heap WITH
  Total <- HeapBlocks, BlockSize <- PageSize, UintRange <- Pages * PageSize,
  entries <- heap, live <- {}, halted <- FALSE, served <- FALSE

NULL     == 0
NONE     == 0
Slot     == 1 .. MaxProcesses
Index    == 1 .. MaxAllocations
Heap     == PageOf(HeapAddress) .. PageOf(HeapAddress) + HeapBlocks - 1
Pointer  == {NULL} \cup {v * PageSize : v \in Heap}
Empty    == [ptr |-> NULL, size |-> 0]
NoFile   == [size |-> 0, valid |-> FALSE, headers |-> <<>>]
NoAllocations == [i \in Index |-> Empty]
Writable == User \cup {"WRITEABLE"}

-----------------------------------------------------------------------------
(* The heap                                                                *)

\* Before a request: whether all requests so far succeeded (ok) and got a free,
\* non-empty run (sound), the table and the last pointer.
Now == [ok |-> TRUE, sound |-> sound, heap |-> heap, ptr |-> NULL]

kzalloc(m, size) ==
  LET n == Kernel!TotalBlocks(size)
      s == Kernel!heap_get_start_block(m.heap, n)
  IN  IF ~m.ok \/ s < 0 THEN [m EXCEPT !.ok = FALSE]
      ELSE [ok    |-> TRUE,
            sound |-> m.sound /\ Kernel!Fits(m.heap, s, n),
            heap  |-> Kernel!heap_mark_blocks_taken(m.heap, s, n),
            ptr   |-> Kernel!heap_block_to_address(s)]

\* kfree of several pointers.  A chain that meets a block freed before it ends
\* there, and the rest of it has been freed, so the order does not matter.
kfree(table, ptrs) ==
  LET freed == UNION {Kernel!Chain(table, Kernel!heap_address_to_block(ptr)) :
                        ptr \in ptrs \ {NULL}}
  IN  [b \in Kernel!Blocks |-> IF b \in freed THEN Kernel!FREE ELSE table[b]]

-----------------------------------------------------------------------------
(* Steps                                                                   *)

\* kernel_init has allocated kernel_chunk, the kernel's directory, first.
kernel_chunk == HeapAddress

Init ==
  /\ heap = Kernel!heap_mark_blocks_taken([b \in Kernel!Blocks |-> Kernel!FREE], 0, 1)
  /\ alive = {}
  /\ runner = NONE
  /\ file = [p \in Slot |-> NoFile]
  /\ elf_file = [p \in Slot |-> Unprocessed]
  /\ memory = [p \in Slot |-> NULL]
  /\ stack = [p \in Slot |-> NULL]
  /\ task = [p \in Slot |-> NULL]
  /\ allocations = [p \in Slot |-> NoAllocations]
  /\ directory = [p \in Slot |-> paging_new_4gb({})]
  /\ calls = 0
  /\ sound = TRUE

\* The program's segments, then the stack.
process_map_memory(dir, ptr, stk, f) ==
  LET mapped == process_map_elf(dir, ptr, f)
  IN  IF mapped.res < 0 THEN mapped
      ELSE paging_map_to(mapped.dir, StackEnd, stk,
                         paging_align_address(Wrap(stk + StackSize)), Writable)

process_get_free_slot == Min(Slot \ alive)

\* process_load_switch and what its callers do with the new task: the CPU goes
\* to it.  At boot it goes there once kernel_main has loaded its programs.
process_load_for_slot(f) ==
  LET p      == process_get_free_slot
      mem    == kzalloc(Now, f.size)
      stk    == kzalloc(mem, StackSize)
      tsk    == kzalloc(stk, PageSize)
      mapped == process_map_memory(paging_new_4gb(User), mem.ptr, stk.ptr, f)
  IN  /\ alive # Slot
      /\ calls < MaxCalls /\ calls' = calls + 1
      /\ tsk.ok
      /\ mapped.res >= 0
      /\ heap' = tsk.heap /\ sound' = tsk.sound
      /\ alive' = alive \cup {p}
      /\ runner' = p
      /\ file' = [file EXCEPT ![p] = f]
      /\ elf_file' = [elf_file EXCEPT ![p] = elf_process_loaded(mem.ptr, f)]
      /\ memory' = [memory EXCEPT ![p] = mem.ptr]
      /\ stack' = [stack EXCEPT ![p] = stk.ptr]
      /\ task' = [task EXCEPT ![p] = tsk.ptr]
      /\ allocations' = [allocations EXCEPT ![p] = NoAllocations]
      /\ directory' = [directory EXCEPT ![p] = mapped.dir]

task_next ==
  /\ alive # {}
  /\ runner' \in alive
  /\ UNCHANGED <<heap, alive, image, allocations, directory, calls, sound>>

MapAllocation(p, a, flags) ==
  paging_map_to(directory[p], a.ptr, a.ptr, paging_align_address(Wrap(a.ptr + a.size)), flags)

\* Entries that can be used; process_malloc panics when there is none.
process_find_free_allocation_index(p) == {i \in Index : allocations[p][i].ptr = NULL}

process_malloc(size) ==
  LET m      == kzalloc(Now, size)
      a      == [ptr |-> m.ptr, size |-> size]
      mapped == MapAllocation(runner, a, Writable)
  IN  /\ runner # NONE
      /\ calls < MaxCalls /\ calls' = calls + 1
      /\ m.ok
      /\ process_find_free_allocation_index(runner) # {}
      /\ sound' = m.sound
      /\ IF mapped.res < 0
           THEN heap' = kfree(m.heap, {a.ptr}) /\ UNCHANGED <<allocations, directory>>
           ELSE /\ heap' = m.heap
                /\ allocations' = [allocations EXCEPT
                     ![runner][Min(process_find_free_allocation_index(runner))] = a]
                /\ directory' = [directory EXCEPT ![runner] = mapped.dir]
      /\ UNCHANGED <<alive, runner, image>>

\* The allocation found, the first with that pointer; {} if there is none.
process_get_allocation_by_addr(p, ptr) ==
  LET found == {i \in Index : allocations[p][i].ptr = ptr}
  IN  IF found = {} THEN {} ELSE {allocations[p][Min(found)]}

\* Faulty variant: the pages of a freed allocation stay as they are.
UnmapNothing(p, a) == Mapped(0, directory[p])

Unmapped(p, a) == MapAllocation(p, a, {})

\* The pages keep their frame and lose their flags.  Every entry that holds
\* the pointer is cleared.
process_free(ptr) ==
  /\ runner # NONE
  /\ \E a \in process_get_allocation_by_addr(runner, ptr) :
       /\ Unmapped(runner, a).res >= 0
       /\ directory' = [directory EXCEPT ![runner] = Unmapped(runner, a).dir]
       /\ allocations' = [allocations EXCEPT ![runner] =
                            [i \in Index |-> IF @[i].ptr = ptr THEN Empty ELSE @[i]]]
       /\ heap' = kfree(heap, {ptr})
       /\ UNCHANGED <<alive, runner, image, calls, sound>>

\* What is freed is forgotten.  Without its last process the kernel panics.
Terminate(table) ==
  LET p == runner
  IN  /\ alive \ {p} # {}
      /\ heap' = kfree(table, {a.ptr : a \in Range(allocations[p])}
                               \cup {memory[p], stack[p], task[p]})
      /\ alive' = alive \ {p}
      /\ runner' \in alive'
      /\ file' = [file EXCEPT ![p] = NoFile]
      /\ elf_file' = [elf_file EXCEPT ![p] = Unprocessed]
      /\ memory' = [memory EXCEPT ![p] = NULL]
      /\ stack' = [stack EXCEPT ![p] = NULL]
      /\ task' = [task EXCEPT ![p] = NULL]
      /\ allocations' = [allocations EXCEPT ![p] = NoAllocations]
      /\ directory' = [directory EXCEPT ![p] = paging_new_4gb({})]
      /\ UNCHANGED <<calls, sound>>

\* exit, or an exception.
process_terminate == runner # NONE /\ Terminate(heap)

\* Faulty variant: the entry of tmp is not put back.
NotRestored(dir, tmp, old) == dir

\* The page of tmp gets back the entry it had.
Restored(dir, tmp, old) == paging_set(dir, tmp, old).dir

\* A string of the runner, on pages that are present or reaching one that is
\* not.  There the kernel itself faults, and idt_handle_exception ends the
\* process: tmp is lost.
copy_string_from_task(reachable) ==
  LET m      == kzalloc(Now, PageSize - 1)
      tmp    == m.ptr
      old    == paging_get(directory[runner], tmp)
      shared == paging_map(directory[runner], tmp, tmp, Writable).dir
  IN  /\ runner # NONE
      /\ m.ok
      /\ \E v \in Page : reachable = ("PRESENT" \in shared[v].flags)
      /\ \/ /\ reachable
            /\ heap' = kfree(m.heap, {tmp})
            /\ directory' = [directory EXCEPT ![runner] = Restored(shared, tmp, old)]
            /\ UNCHANGED <<alive, runner, image, allocations, calls, sound>>
         \/ /\ ~reachable
            /\ Terminate(m.heap)

Next ==
  \/ \E f \in Programs : process_load_for_slot(f)
  \/ task_next
  \/ \E size \in Sizes : process_malloc(size)
  \/ \E ptr \in Pointer : process_free(ptr)
  \/ process_terminate
  \/ \E reachable \in BOOLEAN : copy_string_from_task(reachable)

Spec == Init /\ [][Next]_vars

-----------------------------------------------------------------------------
(* Properties                                                              *)

\* Every variable has its type.
TypeOK ==
  /\ heap \in [Kernel!Blocks -> SUBSET Kernel!Flags]
  /\ alive \subseteq Slot
  /\ runner \in Slot \cup {NONE} /\ (alive # {} => runner \in alive)
  /\ file \in [Slot -> Programs \cup {NoFile}]
  /\ elf_file \in [Slot -> ElfFile]
  /\ {memory, stack, task} \subseteq [Slot -> Pointer]
  /\ allocations \in [Slot -> [Index -> [ptr : Pointer, size : Sizes \cup {0}]]]
  /\ directory \in [Slot -> [Page -> PageEntry]]
  /\ calls \in 0 .. MaxCalls /\ sound \in BOOLEAN

\* The frames that hold size bytes from ptr on.
Frames(ptr, size) ==
  IF size = 0 THEN {} ELSE PageOf(ptr) .. PageOf((ptr + size) - 1)

UserFrames(p) ==
  Frames(memory[p], file[p].size) \cup Frames(stack[p], StackSize)
    \cup UNION {Frames(a.ptr, a.size) : a \in Range(allocations[p])}

\* The image has room for every segment: none goes on behind its last page.
Covered(f) ==
  \A phdr \in Range(f.headers) : PagesFor(phdr.offset + phdr.memsz) <= PagesFor(f.size)

\* What a process can write to is its own and no other's and not the kernel's:
\* memory that was freed, by it or by a process that ended, and handed out
\* again is writable for its new owner alone, as long as the heap gave out free
\* runs and the images have room for their segments (task/process.c:292).
WritableIsOwned ==
  sound => \A p \in alive : Covered(file[p]) =>
    \A v \in Page : "WRITEABLE" \in directory[p][v].flags =>
      /\ directory[p][v].frame \in UserFrames(p)
      /\ directory[p][v].frame # PageOf(kernel_chunk)
      /\ \A q \in alive : directory[p][v].frame # PageOf(task[q])
      /\ \A q \in alive \ {p} : directory[p][v].frame \notin UserFrames(q)

\* At virtual address addr is the byte at phys, with these flags.
IsAt(p, addr, phys, flags) ==
  /\ paging_get_physical_address(directory[p], addr) = phys
  /\ paging_get(directory[p], paging_align_to_lower_page(addr)).flags = flags

\* A process reaches every byte of its allocations, under the address malloc
\* returned, which is the one the kernel uses for it, and of its stack,
\* whatever else was allocated, freed and printed (task/process.c:79).
OwnIsReachable ==
  sound => \A p \in alive :
    /\ \A i \in Index : LET a == allocations[p][i] IN
         \A k \in 0 .. a.size - 1 : IsAt(p, a.ptr + k, a.ptr + k, Writable)
    /\ \A k \in 0 .. StackSize - 1 : IsAt(p, StackEnd + k, stack[p] + k, Writable)

\* The pages that process_map_elf maps a segment to: an empty one that does not
\* begin with a page takes one.
Span(phdr)         == PagesFor((phdr.offset % PageSize) + phdr.memsz)
SegmentPages(phdr) == PageOf(phdr.vaddr) .. PageOf(phdr.vaddr) + Span(phdr) - 1

\* Segments are at the same place of a page in memory and in the file, no two
\* share a page.
Separate(f) ==
  /\ \A phdr \in Range(f.headers) : phdr.vaddr % PageSize = phdr.offset % PageSize
  /\ \A i, j \in DOMAIN f.headers :
       i # j => SegmentPages(f.headers[i]) \cap SegmentPages(f.headers[j]) = {}

\* Every byte of a segment is where the program was linked to find it, and is
\* writable only if the segment is (task/process.c:409).
SegmentsMapped ==
  \A p \in alive : Separate(file[p]) =>
    \A phdr \in Range(file[p].headers) : \A k \in 0 .. phdr.memsz - 1 :
      IsAt(p, phdr.vaddr + k, memory[p] + phdr.offset + k,
           IF "PF_W" \in phdr.flags THEN Writable ELSE User)

\* The kernel is still in the directory of a task when task_return reads its
\* registers, and when kernel_page reads kernel_chunk: both stay where the
\* kernel expects them, present, in the directory of every process, whatever
\* pages it has lost (task/task.c:195, task/task.c:145).
KernelIsReachable ==
  sound => \A p \in alive : \A ptr \in {task[p], kernel_chunk} :
    /\ paging_get_physical_address(directory[p], ptr) = ptr
    /\ "PRESENT" \in paging_get(directory[p], ptr).flags

\* A directory changes only with the allocations of its process: copying a
\* string out leaves it as it was, whether the page of tmp was ever mapped,
\* freed or never touched (task/task.c:148), and what others allocate, free or
\* print does not show in it.
DirectoryFollows ==
  [][\A p \in alive \cap alive' :
       allocations'[p] = allocations[p] => directory'[p] = directory[p]]_vars

\* The addresses recorded of an image are those of its lowest and its highest
\* loadable segment (loader/formats/elfloader.c:117).
ExtentIsTight ==
  \A p \in alive :
    LET loadable == {phdr \in Range(file[p].headers) : phdr.type = "PT_LOAD"}
    IN  file[p].valid /\ loadable # {} =>
          /\ elf_file[p].virtual_base = Min({phdr.vaddr : phdr \in loadable})
          /\ elf_file[p].virtual_end = Max({phdr.vaddr + phdr.filesz : phdr \in loadable})
          /\ \E phdr \in loadable :
               /\ phdr.vaddr = elf_file[p].virtual_base
               /\ elf_file[p].physical_base = memory[p] + phdr.offset

\* "Unlink the pages from the process for the given address by removing the
\* flags" (task/process.c:286): after free the caller cannot write there.
FreedIsUnlinked ==
  [][\A ptr \in Pointer \ {NULL} : process_free(ptr) =>
       "WRITEABLE" \notin paging_get(directory'[runner], ptr).flags]_vars
=============================================================================
