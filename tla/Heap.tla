-------------------------------- MODULE Heap --------------------------------
(***************************************************************************)
(* The kernel heap of src/src/memory/heap: a table with one byte per block  *)
(* of PEACHOS_HEAP_BLOCK_SIZE bytes, a first-fit search over it, and        *)
(* kmalloc / kzalloc / kfree.                                               *)
(*                                                                         *)
(* A table byte is the set of the flags it holds.  A pointer is a byte      *)
(* address.  The calls are atomic: the kernel runs with interrupts off.     *)
(*                                                                         *)
(* The search is written here in closed form, which the proofs can use; the *)
(* module HeapLoops translates the loops statement by statement, and        *)
(* HeapProofs shows that the two agree.                                     *)
(***************************************************************************)
EXTENDS Integers, FiniteSets, FiniteSetsExt

CONSTANTS
  Total,        \* kernel_heap_table.total: the number of blocks
  BlockSize,    \* PEACHOS_HEAP_BLOCK_SIZE
  HeapAddress,  \* PEACHOS_HEAP_ADDRESS, kernel_heap.saddr
  UintRange,    \* the number of values of a uint32_t / size_t
  Sizes         \* the sizes, in bytes, that callers ask kmalloc for

ASSUME HeapAssumption ==
  /\ Total \in Nat \ {0}
  /\ BlockSize \in Nat \ {0}
  /\ HeapAddress \in Nat \ {0}
  /\ HeapAddress % BlockSize = 0        \* heap_validate_alignment
  /\ UintRange \in Nat \ {0}
  /\ UintRange % BlockSize = 0
  /\ BlockSize < UintRange
  /\ Sizes \subseteq 0 .. UintRange - 1

VARIABLES
  entries,  \* kernel_heap_table.entries
  live,     \* the allocations callers hold: pointer and blocks asked for
  halted,   \* panic() was called: the kernel spins for ever
  served,   \* history: flips with every request that is served, so that a
            \* run given out twice is a step and not a stutter
  sound     \* history: every request so far got a non-empty run of blocks
            \* that lay in the table and were free

vars == <<entries, live, halted, served, sound>>

Blocks == 0 .. Total - 1
Flags  == {"TAKEN", "IS_FIRST", "HAS_NEXT"}
FREE   == {}                            \* HEAP_BLOCK_TABLE_ENTRY_FREE
NULL   == 0
ENOMEM == 3

-----------------------------------------------------------------------------
(* Sizes and addresses                                                     *)

\* Faulty variant: rounds down.
AlignDown(val) == val - (val % BlockSize)

\* The size rounded up to a whole number of blocks, in 32-bit arithmetic.
heap_align_value_to_upper(val) ==
  IF val % BlockSize = 0 THEN val
  ELSE ((val - (val % BlockSize)) + BlockSize) % UintRange

\* heap_malloc: how many blocks a request of size bytes asks for.
TotalBlocks(size) == heap_align_value_to_upper(size) \div BlockSize

\* Faulty variant: blocks are counted from one.
AddressFromOne(block) == HeapAddress + ((block + 1) * BlockSize)

heap_block_to_address(block) == HeapAddress + (block * BlockSize)

heap_address_to_block(address) == (address - HeapAddress) \div BlockSize

-----------------------------------------------------------------------------
(* The table                                                               *)

FreeBlocks(tbl) == {i \in Blocks : "TAKEN" \notin tbl[i]}

\* The scan stops at the n-th free block of the table - free_blocks is never
\* reset, so these n blocks need not be neighbours - or at the end of the
\* table when there are fewer.
StopBlock(tbl, n) ==
  LET nth == {i \in FreeBlocks(tbl) :
                Cardinality({j \in FreeBlocks(tbl) : j <= i}) = n}
  IN  IF nth # {} THEN Min(nth) ELSE Total - 1

\* The blocks from which every block up to the stop block is free.
RunTo(tbl, stop) == {s \in 0 .. stop : s .. stop \subseteq FreeBlocks(tbl)}

\* Faulty variants: the block after the first; block 0 taken for a failure.
StartAfter(tbl, n) ==
  LET run == RunTo(tbl, StopBlock(tbl, n))
  IN  IF run = {} THEN -ENOMEM ELSE Min(run) + 1

StartNotZero(tbl, n) ==
  LET run == RunTo(tbl, StopBlock(tbl, n))
  IN  IF run = {} \/ 0 \in run THEN -ENOMEM ELSE Min(run)

\* start_block: where the run of free blocks that contains the stop block
\* begins; -ENOMEM when the scan ended on a taken block.
heap_get_start_block(tbl, n) ==
  LET run == RunTo(tbl, StopBlock(tbl, n))
  IN  IF run = {} THEN -ENOMEM ELSE Min(run)

\* Faulty variant: the last block says that another one follows.
TakenTooLong(s, n, b) ==
  {"TAKEN"} \cup (IF b = s THEN {"IS_FIRST"} ELSE {})
            \cup (IF b # s + n THEN {"HAS_NEXT"} ELSE {})

\* The flags of block b of an allocation of n blocks that starts at s.
TakenEntry(s, n, b) ==
  {"TAKEN"} \cup (IF b = s THEN {"IS_FIRST"} ELSE {})
            \cup (IF b # s + n - 1 THEN {"HAS_NEXT"} ELSE {})

\* Faulty variant: the table grows by the blocks written past its end.
MarkGrows(tbl, s, n) ==
  [b \in Blocks \cup s .. s + n - 1 |->
     IF b \in s .. s + n - 1 THEN TakenEntry(s, n, b) ELSE tbl[b]]

\* What the loop leaves in the table; it also writes past the table when
\* s + n - 1 is not a block of it.
heap_mark_blocks_taken(tbl, s, n) ==
  [b \in Blocks |-> IF b \in s .. s + n - 1 THEN TakenEntry(s, n, b)
                                            ELSE tbl[b]]

\* The blocks reached from b by following HAS_NEXT.
Chain(tbl, b) ==
  {i \in b .. Total - 1 : \A j \in b .. i - 1 : "HAS_NEXT" \in tbl[j]}

\* Faulty variant: only the first block is freed.
FreeFirstOnly(tbl, b) ==
  IF b < 0 THEN tbl ELSE [tbl EXCEPT ![b] = FREE]

\* For kfree(NULL) the index is negative: the loop clears bytes of low memory
\* below the table and stops there (0x6E00 is cleared by the first such call,
\* and no chain of bytes with bit 7 set crosses the boot sector's 0x3C at
\* 0x7C01), so the table keeps its value.
heap_mark_blocks_free(tbl, b) ==
  IF b < 0 THEN tbl
  ELSE [i \in Blocks |-> IF i \in Chain(tbl, b) THEN FREE ELSE tbl[i]]

-----------------------------------------------------------------------------
(* The operations                                                          *)

\* kheap_init: heap_create clears the table.
Init ==
  /\ entries = [b \in Blocks |-> FREE]
  /\ live = {}
  /\ halted = FALSE
  /\ served = FALSE
  /\ sound = TRUE

\* The n blocks from s lie in the table and are free.
Fits(tbl, s, n) == n > 0 /\ s .. s + n - 1 \subseteq FreeBlocks(tbl)

\* kmalloc (and kzalloc, which also clears the bytes): panic when the search
\* fails, otherwise mark the blocks and hand out the address.
kmalloc(size) ==
  LET n == TotalBlocks(size)
      s == heap_get_start_block(entries, n)
  IN  /\ ~halted
      /\ \/ /\ s < 0
            /\ halted' = TRUE
            /\ UNCHANGED <<entries, live, served, sound>>
         \/ /\ s >= 0
            /\ entries' = heap_mark_blocks_taken(entries, s, n)
            /\ live' = live \cup {[ptr |-> heap_block_to_address(s),
                                   blocks |-> n]}
            /\ served' = ~served
            /\ sound' = (sound /\ Fits(entries, s, n))
            /\ UNCHANGED halted

\* kfree of an allocation the caller holds.
kfree(a) ==
  /\ ~halted
  /\ entries' = heap_mark_blocks_free(entries, heap_address_to_block(a.ptr))
  /\ live' = live \ {a}
  /\ UNCHANGED <<halted, served, sound>>

\* process_terminate_allocations frees every slot of the allocation array,
\* the empty ones too.
kfreeNull ==
  /\ ~halted
  /\ entries' = heap_mark_blocks_free(entries, heap_address_to_block(NULL))
  /\ UNCHANGED <<live, halted, served, sound>>

Next ==
  \/ \E size \in Sizes : kmalloc(size)
  \/ \E a \in live : kfree(a)
  \/ kfreeNull

Spec == Init /\ [][Next]_vars

-----------------------------------------------------------------------------
(* Properties                                                              *)

Allocation == [ptr : Nat, blocks : Nat]

\* Every variable has its type.
TypeOK ==
  /\ entries \in [Blocks -> SUBSET Flags]
  /\ live \subseteq Allocation
  /\ halted \in BOOLEAN
  /\ served \in BOOLEAN
  /\ sound \in BOOLEAN

\* The blocks an allocation was given.
Start(a) == heap_address_to_block(a.ptr)
Span(a)  == Start(a) .. Start(a) + a.blocks - 1

\* heap_malloc_blocks marks "the first of the available blocks" taken: no
\* block of an allocation lies outside the table ...
InTable == \A a \in live : Span(a) \subseteq Blocks

\* ... and no block belongs to two allocations that callers hold.
NoOverlap ==
  \A a1, a2 \in live : a1 # a2 => Span(a1) \cap Span(a2) = {}

\* The table says exactly which blocks the callers hold: the flags of each
\* block are those heap_mark_blocks_taken gives it, and a block is taken only
\* if it is somebody's, so that kfree releases an allocation, all of it and
\* nothing else, and nothing leaks.
TableMatchesLive ==
  /\ \A a \in live :
       a.blocks > 0 /\ \A b \in Span(a) :
                          entries[b] = TakenEntry(Start(a), a.blocks, b)
  /\ \A b \in Blocks : entries[b] # FREE => \E a \in live : b \in Span(a)

\* As long as the search has only ever handed out free blocks of the table,
\* marking and freeing keep the table and the callers' view in step.
Consistent == sound => InTable /\ NoOverlap /\ TableMatchesLive

\* The block an allocation starts at was free, whatever was asked for and
\* whatever state the table is in: two callers never get the same address
\* while the first still holds it and its block is marked.
StartBlockWasFree ==
  [][\A size \in Sizes :
       kmalloc(size) /\ served' # served
         => heap_get_start_block(entries, TotalBlocks(size))
              \in FreeBlocks(entries)]_vars

\* Requests of one block at most, the only ones that page tables, tasks,
\* file descriptors and path parts make, are always served soundly, and ...
AlwaysSound == sound

\* ... the kernel runs out of memory only when every block is held.
PanicOnlyWhenFull == halted => FreeBlocks(entries) = {}

\* A request of one block or more is never refused while the table has as
\* many free blocks as it asks for, neighbours or not.
NeverRefusedWhenEnough ==
  [][\A size \in Sizes :
       kmalloc(size) /\ halted' /\ TotalBlocks(size) > 0
         => Cardinality(FreeBlocks(entries)) < TotalBlocks(size)]_vars
=============================================================================
