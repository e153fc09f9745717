----------------------------- MODULE HeapProofs -----------------------------
(***************************************************************************)
(* Theorems about the kernel heap, for every table size, block size and set *)
(* of request sizes.                                                        *)
(***************************************************************************)
EXTENDS HeapRefinement, HeapLoops, Lemmas

-----------------------------------------------------------------------------
(* Arithmetic                                                              *)

\* heap_address_to_block undoes heap_block_to_address.
LEMMA BlockOfAddress ==
  ASSUME NEW b \in Nat
  PROVE  /\ heap_block_to_address(b) \in Nat \ {0}
         /\ heap_address_to_block(heap_block_to_address(b)) = b
<1>1. (b * BlockSize) \div BlockSize = b
  BY HeapAssumption
<1>2. b * BlockSize \in Nat
  BY HeapAssumption
<1> QED BY <1>1, <1>2, HeapAssumption
     DEF heap_block_to_address, heap_address_to_block

\* A request is a number of blocks, at least as large as it needs: the
\* rounding never yields a negative or a fractional count.
LEMMA TotalBlocksType ==
  ASSUME NEW size \in Sizes
  PROVE  TotalBlocks(size) \in Nat
<1>1. size \in Nat /\ BlockSize \in Nat \ {0} /\ UintRange \in Nat \ {0}
  BY HeapAssumption
<1>2. heap_align_value_to_upper(size) \in Nat
  BY <1>1 DEF heap_align_value_to_upper
<1> QED BY <1>1, <1>2 DEF TotalBlocks

-----------------------------------------------------------------------------
(* The search                                                              *)

\* The scan stops at a block of the table.
LEMMA StopBlockInTable ==
  ASSUME NEW tbl, NEW n
  PROVE  StopBlock(tbl, n) \in Blocks
<1> DEFINE nth == {i \in FreeBlocks(tbl) :
                     Cardinality({j \in FreeBlocks(tbl) : j <= i}) = n}
<1>1. nth \subseteq Nat /\ nth \subseteq Blocks
  BY HeapAssumption DEF FreeBlocks, Blocks
<1>2. CASE nth # {}
  <2>1. Min(nth) \in nth
    <3> HIDE DEF nth
    <3> QED BY <1>1, <1>2, LeastNat
  <2>2. StopBlock(tbl, n) = Min(nth)
    BY <1>2 DEF StopBlock
  <2> QED BY <2>1, <2>2, <1>1
<1>3. CASE nth = {}
  <2>1. StopBlock(tbl, n) = Total - 1
    BY <1>3 DEF StopBlock
  <2> QED BY <2>1, HeapAssumption DEF Blocks
<1> QED BY <1>2, <1>3

\* The search fails or returns a free block of the table: the first of a run
\* of free blocks that reaches to the block where the scan stopped.
LEMMA StartBlockIsFree ==
  ASSUME NEW tbl, NEW n
  PROVE  \/ heap_get_start_block(tbl, n) = -ENOMEM /\ RunTo(tbl, StopBlock(tbl, n)) = {}
         \/ /\ heap_get_start_block(tbl, n) \in FreeBlocks(tbl)
            /\ heap_get_start_block(tbl, n) \in RunTo(tbl, StopBlock(tbl, n))
<1> DEFINE stop == StopBlock(tbl, n)
           run  == RunTo(tbl, stop)
<1>1. stop \in Blocks
  BY StopBlockInTable
<1>2. CASE run = {}
  BY <1>2 DEF heap_get_start_block
<1>3. CASE run # {}
  <2>1. run \subseteq Nat
    BY <1>1, HeapAssumption DEF RunTo, Blocks
  <2>2. Min(run) \in run
    <3> HIDE DEF run
    <3> QED BY <2>1, <1>3, LeastNat
  <2>3. heap_get_start_block(tbl, n) = Min(run)
    BY <1>3 DEF heap_get_start_block
  <2>4. run \subseteq FreeBlocks(tbl)
    <3> SUFFICES ASSUME NEW s \in run PROVE s \in FreeBlocks(tbl)
      OBVIOUS
    <3>1. s \in 0 .. stop /\ s .. stop \subseteq FreeBlocks(tbl)
      BY DEF RunTo
    <3>2. s \in s .. stop
      BY <3>1, <1>1, HeapAssumption DEF Blocks
    <3> QED BY <3>1, <3>2
  <2> QED BY <2>2, <2>3, <2>4
<1> QED BY <1>2, <1>3

-----------------------------------------------------------------------------
(* Types                                                                   *)

LEMMA TakenEntryType ==
  ASSUME NEW s, NEW n, NEW b
  PROVE  TakenEntry(s, n, b) \in SUBSET Flags /\ TakenEntry(s, n, b) # FREE
         /\ "TAKEN" \in TakenEntry(s, n, b)
BY DEF TakenEntry, Flags, FREE

LEMMA TypeInit == Init => TypeOK
BY DEF Init, TypeOK, Flags, FREE

\* kmalloc with size bytes leaves every variable in its type.
LEMMA TypeMalloc ==
  ASSUME TypeOK, NEW size \in Sizes, kmalloc(size)
  PROVE  TypeOK'
<1> DEFINE n == TotalBlocks(size)
           s == heap_get_start_block(entries, n)
<1>1. n \in Nat
  BY TotalBlocksType
<1>2. CASE s < 0
  <2>1. halted' = TRUE /\ UNCHANGED <<entries, live, served, sound>>
    BY <1>2, StartBlockIsFree, HeapAssumption DEF kmalloc, FreeBlocks, Blocks, ENOMEM
  <2> QED BY <2>1 DEF TypeOK
<1>3. CASE s >= 0
  <2>1. s \in Nat
    BY <1>3, StartBlockIsFree, HeapAssumption DEF FreeBlocks, Blocks, ENOMEM
  <2> HIDE DEF s, n
  <2>2. /\ entries' = heap_mark_blocks_taken(entries, s, n)
        /\ live' = live \cup {[ptr |-> heap_block_to_address(s), blocks |-> n]}
        /\ sound' = (sound /\ Fits(entries, s, n))
        /\ served' = ~served
        /\ halted' = halted
    BY <2>1 DEF kmalloc, s, n
  <2>3. entries' \in [Blocks -> SUBSET Flags]
    BY <2>2, TakenEntryType DEF TypeOK, heap_mark_blocks_taken
  <2>4. live' \subseteq Allocation
    BY <2>1, <2>2, <1>1, BlockOfAddress DEF TypeOK, Allocation
  <2>5. sound' \in BOOLEAN
    BY <2>2 DEF TypeOK
  <2> QED BY <2>2, <2>3, <2>4, <2>5 DEF TypeOK
<1> QED
  <2>1. s \in Int
    BY StartBlockIsFree, HeapAssumption DEF FreeBlocks, Blocks, ENOMEM
  <2> QED BY <1>2, <1>3, <2>1

LEMMA MarkFreeType ==
  ASSUME NEW tbl \in [Blocks -> SUBSET Flags], NEW b
  PROVE  heap_mark_blocks_free(tbl, b) \in [Blocks -> SUBSET Flags]
BY DEF heap_mark_blocks_free, FREE

LEMMA TypeStep == TypeOK /\ [Next]_vars => TypeOK'
<1> SUFFICES ASSUME TypeOK, [Next]_vars PROVE TypeOK'
  OBVIOUS
<1>1. ASSUME NEW size \in Sizes, kmalloc(size) PROVE TypeOK'
  BY <1>1, TypeMalloc
<1>2. ASSUME NEW a \in live, kfree(a) PROVE TypeOK'
  BY <1>2, MarkFreeType DEF kfree, TypeOK
<1>3. CASE kfreeNull
  BY <1>3, MarkFreeType DEF kfreeNull, TypeOK
<1>4. CASE UNCHANGED vars
  BY <1>4 DEF vars, TypeOK
<1> QED BY <1>1, <1>2, <1>3, <1>4 DEF Next

\* Every variable keeps its type, whatever is asked for.
THEOREM TypeCorrect == Spec => []TypeOK
BY TypeInit, TypeStep, PTL DEF Spec

-----------------------------------------------------------------------------
(* Marking and freeing keep the table and the callers' view in step        *)

\* What the allocation of n blocks from s looks like to its holder.
LEMMA SpanOfNew ==
  ASSUME NEW s \in Nat, NEW n
  PROVE  LET a == [ptr |-> heap_block_to_address(s), blocks |-> n]
         IN  Start(a) = s /\ Span(a) = s .. s + n - 1
BY BlockOfAddress DEF Start, Span

LEMMA ConsistentInit == Init => Consistent
BY DEF Init, Consistent, InTable, NoOverlap, TableMatchesLive

\* Marking free blocks of the table taken for a new allocation.
LEMMA ConsistentMalloc ==
  ASSUME TypeOK, Consistent, NEW size \in Sizes, kmalloc(size)
  PROVE  Consistent'
<1> DEFINE n == TotalBlocks(size)
           s == heap_get_start_block(entries, n)
           new == [ptr |-> heap_block_to_address(s), blocks |-> n]
<1>1. n \in Nat
  BY TotalBlocksType
<1>2. s \in Int /\ (s >= 0 => s \in Nat)
  BY StartBlockIsFree, HeapAssumption DEF FreeBlocks, Blocks, ENOMEM
<1>3. CASE s < 0
  <2>1. UNCHANGED <<entries, live, served, sound>>
    BY <1>2, <1>3 DEF kmalloc
  <2> QED BY <2>1 DEF Consistent, InTable, NoOverlap, TableMatchesLive
<1>4. CASE s >= 0
  <2>1. /\ entries' = heap_mark_blocks_taken(entries, s, n)
        /\ live' = live \cup {new}
        /\ sound' = (sound /\ Fits(entries, s, n))
    BY <1>2, <1>4 DEF kmalloc
  <2>2. Start(new) = s /\ Span(new) = s .. s + n - 1 /\ new.blocks = n
    BY <1>2, <1>4, SpanOfNew
  <2> HIDE DEF s, n, new
  <2> SUFFICES ASSUME sound' PROVE InTable' /\ NoOverlap' /\ TableMatchesLive'
    BY DEF Consistent
  <2>3. /\ n > 0 /\ Span(new) \subseteq FreeBlocks(entries)
        /\ InTable /\ NoOverlap /\ TableMatchesLive
    BY <2>1, <2>2 DEF Consistent, Fits
  <2>4. ASSUME NEW a \in live PROVE Span(a) \cap Span(new) = {}
    BY <2>3, TakenEntryType DEF TableMatchesLive, FreeBlocks
  <2>5. ASSUME NEW b \in Blocks
        PROVE  entries'[b] = IF b \in Span(new) THEN TakenEntry(Start(new), new.blocks, b) ELSE entries[b]
    BY <2>1, <2>2 DEF heap_mark_blocks_taken
  <2>6. InTable'
    BY <2>1, <2>3 DEF InTable, FreeBlocks, Span, Start
  <2>7. NoOverlap'
    BY <2>1, <2>3, <2>4 DEF NoOverlap, Span, Start
  <2>8. TableMatchesLive'
    <3>1. ASSUME NEW a \in live'
          PROVE a.blocks > 0 /\ \A b \in Span(a) : entries'[b] = TakenEntry(Start(a), a.blocks, b)
      <4>1. CASE a = new
        BY <4>1, <2>2, <2>3, <2>5 DEF FreeBlocks
      <4>2. CASE a \in live
        BY <4>2, <2>3, <2>4, <2>5 DEF TableMatchesLive, InTable
      <4> QED BY <4>1, <4>2, <2>1
    <3>2. ASSUME NEW b \in Blocks, entries'[b] # FREE
          PROVE \E a \in live' : b \in Span(a)
      BY <3>2, <2>1, <2>3, <2>5 DEF TableMatchesLive
    <3> QED BY <3>1, <3>2 DEF TableMatchesLive, Span, Start
  <2> QED BY <2>6, <2>7, <2>8
<1> QED BY <1>2, <1>3, <1>4

\* Following HAS_NEXT from the first block of an allocation reaches all of
\* it and nothing else.
LEMMA ChainIsSpan ==
  ASSUME TypeOK, InTable, TableMatchesLive, NEW a \in live
  PROVE  Start(a) \in Blocks /\ Chain(entries, Start(a)) = Span(a)
<1> DEFINE st == Start(a)
           last == st + a.blocks - 1
<1>1. st \in Int /\ a.blocks \in Nat \ {0} /\ last \in Int /\ last >= st
  BY HeapAssumption
  DEF TypeOK, Allocation, Start, heap_address_to_block, TableMatchesLive
<1>2. Span(a) = st .. last /\ Span(a) \subseteq Blocks
  BY DEF Span, InTable
<1>3. st \in Blocks /\ last \in Blocks
  BY <1>1, <1>2
<1>4. \A b \in st .. last : entries[b] = TakenEntry(st, a.blocks, b)
  BY <1>2 DEF TableMatchesLive
<1>5. ASSUME NEW b \in st .. last
      PROVE  "HAS_NEXT" \in entries[b] <=> b # last
  BY <1>4 DEF TakenEntry
<1>6. ASSUME NEW i \in st .. last PROVE i \in Chain(entries, st)
  BY <1>1, <1>3, <1>5, HeapAssumption DEF Chain, Blocks
<1>7. ASSUME NEW i \in Chain(entries, st) PROVE i \in st .. last
  <2>1. i \in st .. Total - 1 /\ \A j \in st .. i - 1 : "HAS_NEXT" \in entries[j]
    BY DEF Chain
  <2>2. ASSUME i > last PROVE FALSE
    BY <2>1, <2>2, <1>1, <1>5, HeapAssumption
  <2> QED BY <2>1, <2>2, <1>1, HeapAssumption
<1> QED BY <1>2, <1>3, <1>6, <1>7

\* Freeing an allocation.
LEMMA ConsistentFree ==
  ASSUME TypeOK, Consistent, NEW a \in live, kfree(a)
  PROVE  Consistent'
<1> SUFFICES ASSUME sound' PROVE InTable' /\ NoOverlap' /\ TableMatchesLive'
  BY DEF Consistent
<1>1. /\ live' = live \ {a} /\ InTable /\ NoOverlap /\ TableMatchesLive
      /\ entries' = heap_mark_blocks_free(entries, Start(a))
  BY DEF kfree, Consistent, Start
<1>2. Start(a) \in Blocks /\ Chain(entries, Start(a)) = Span(a)
  BY <1>1, ChainIsSpan
<1>3. ASSUME NEW b \in Blocks
      PROVE  entries'[b] = IF b \in Span(a) THEN FREE ELSE entries[b]
  BY <1>1, <1>2, HeapAssumption DEF heap_mark_blocks_free, Blocks
<1>4. InTable' /\ NoOverlap'
  BY <1>1 DEF InTable, NoOverlap, Span, Start
<1>5. ASSUME NEW c \in live'
      PROVE c.blocks > 0 /\ \A b \in Span(c) : entries'[b] = TakenEntry(Start(c), c.blocks, b)
  <2>1. Span(c) \cap Span(a) = {}
    BY <1>1 DEF NoOverlap
  <2> QED BY <2>1, <1>1, <1>3 DEF TableMatchesLive, InTable
<1>6. ASSUME NEW b \in Blocks, entries'[b] # FREE
      PROVE \E c \in live' : b \in Span(c)
  BY <1>6, <1>1, <1>3 DEF TableMatchesLive
<1> QED BY <1>4, <1>5, <1>6 DEF TableMatchesLive, Span, Start

\* kfree(NULL) does not reach the table.
LEMMA NullIsBelowTheHeap == heap_address_to_block(NULL) < 0
BY HeapAssumption DEF heap_address_to_block, NULL

LEMMA ConsistentStep == TypeOK /\ Consistent /\ [Next]_vars => Consistent'
<1> SUFFICES ASSUME TypeOK, Consistent, [Next]_vars PROVE Consistent'
  OBVIOUS
<1>1. ASSUME NEW size \in Sizes, kmalloc(size) PROVE Consistent'
  BY <1>1, ConsistentMalloc
<1>2. ASSUME NEW a \in live, kfree(a) PROVE Consistent'
  BY <1>2, ConsistentFree
<1>3. CASE kfreeNull
  BY <1>3, NullIsBelowTheHeap
  DEF kfreeNull, heap_mark_blocks_free, Consistent, InTable, NoOverlap,
      TableMatchesLive
<1>4. CASE UNCHANGED vars
  BY <1>4 DEF vars, Consistent, InTable, NoOverlap, TableMatchesLive
<1> QED BY <1>1, <1>2, <1>3, <1>4 DEF Next

\* As long as the search handed out free blocks of the table, the table says
\* exactly what the callers hold, for any mix of request sizes.
THEOREM HeapConsistent == Spec => []Consistent
BY TypeInit, TypeStep, ConsistentInit, ConsistentStep, PTL DEF Spec

\* The first block of an allocation was free when it was handed out.
LEMMA StartBlockStep ==
  ASSUME TypeOK, [Next]_vars
  PROVE  [\A size \in Sizes :
            kmalloc(size) /\ served' # served
              => heap_get_start_block(entries, TotalBlocks(size))
                   \in FreeBlocks(entries)]_vars
<1> SUFFICES ASSUME NEW size \in Sizes, kmalloc(size), served' # served
             PROVE  heap_get_start_block(entries, TotalBlocks(size))
                      \in FreeBlocks(entries)
  OBVIOUS
<1> DEFINE s == heap_get_start_block(entries, TotalBlocks(size))
<1>1. s \in Int /\ (s >= 0 => s \in FreeBlocks(entries))
  BY StartBlockIsFree, HeapAssumption DEF FreeBlocks, Blocks, ENOMEM
<1>2. s >= 0
  BY <1>1 DEF kmalloc
<1> QED BY <1>1, <1>2

\* The search never starts an allocation at a block that somebody holds, whatever
\* is behind that block.
THEOREM StartBlockFree == Spec => StartBlockWasFree
BY TypeInit, TypeStep, StartBlockStep, PTL DEF Spec, StartBlockWasFree

-----------------------------------------------------------------------------
(* Refusals                                                                *)

\* With n free blocks in the table the scan reaches the n-th of them.
LEMMA StopBlockIsFree ==
  ASSUME NEW tbl, NEW n \in Nat \ {0}, n <= Cardinality(FreeBlocks(tbl))
  PROVE  StopBlock(tbl, n) \in FreeBlocks(tbl)
<1> DEFINE nth == {i \in FreeBlocks(tbl) :
                     Cardinality({j \in FreeBlocks(tbl) : j <= i}) = n}
<1>1. Total - 1 \in Nat /\ FreeBlocks(tbl) \subseteq 0 .. Total - 1
  BY HeapAssumption DEF FreeBlocks, Blocks
<1>2. nth # {}
  <2>1. \E i \in FreeBlocks(tbl) :
          Cardinality({j \in FreeBlocks(tbl) : j <= i}) = n
    BY <1>1, KthElement
  <2> QED BY <2>1
<1>3. nth \subseteq Nat /\ nth \subseteq FreeBlocks(tbl)
  BY <1>1
<1>4. Min(nth) \in nth
  <2> HIDE DEF nth
  <2> QED BY <1>2, <1>3, LeastNat
<1>5. StopBlock(tbl, n) = Min(nth)
  BY <1>2 DEF StopBlock
<1> QED BY <1>3, <1>4, <1>5

\* The run that ends at a free stop block is not empty: the search succeeds.
LEMMA EnoughIsServed ==
  ASSUME NEW tbl, NEW n \in Nat \ {0}, n <= Cardinality(FreeBlocks(tbl))
  PROVE  heap_get_start_block(tbl, n) >= 0
<1> DEFINE stop == StopBlock(tbl, n)
<1>1. stop \in FreeBlocks(tbl) /\ stop \in Nat
  BY StopBlockIsFree, HeapAssumption DEF FreeBlocks, Blocks
<1>2. stop \in RunTo(tbl, stop)
  <2>1. stop .. stop = {stop}
    BY <1>1
  <2> QED BY <1>1, <2>1 DEF RunTo
<1>3. heap_get_start_block(tbl, n) \in FreeBlocks(tbl)
  BY <1>2, StartBlockIsFree
<1> QED BY <1>3, HeapAssumption DEF FreeBlocks, Blocks

LEMMA RefusalStep ==
  ASSUME [Next]_vars
  PROVE  [\A size \in Sizes :
            kmalloc(size) /\ halted' /\ TotalBlocks(size) > 0
              => Cardinality(FreeBlocks(entries)) < TotalBlocks(size)]_vars
<1> SUFFICES ASSUME NEW size \in Sizes, kmalloc(size), halted', TotalBlocks(size) > 0
             PROVE  Cardinality(FreeBlocks(entries)) < TotalBlocks(size)
  OBVIOUS
<1> DEFINE n == TotalBlocks(size)
           s == heap_get_start_block(entries, n)
<1>1. n \in Nat \ {0}
  BY TotalBlocksType
<1>2. s < 0
  BY DEF kmalloc
<1>3. Cardinality(FreeBlocks(entries)) \in Nat
  <2>1. IsFiniteSet(Blocks)
    BY FS_Interval, HeapAssumption DEF Blocks
  <2>2. FreeBlocks(entries) \subseteq Blocks
    BY DEF FreeBlocks
  <2> QED BY <2>1, <2>2, FS_Subset, FS_CardinalityType
<1>4. s \in Int
  BY StartBlockIsFree, HeapAssumption DEF FreeBlocks, Blocks, ENOMEM
<1>5. ~ (n <= Cardinality(FreeBlocks(entries)))
  BY <1>1, <1>2, <1>4, EnoughIsServed
<1> QED BY <1>1, <1>3, <1>5

\* No request of a block or more is refused while as many blocks are free, in
\* any state of the table: the scan counts blocks that need not be neighbours.
THEOREM NeverRefused == Spec => NeverRefusedWhenEnough
BY RefusalStep, PTL DEF Spec, NeverRefusedWhenEnough

-----------------------------------------------------------------------------
(* Requests of one block                                                   *)

\* What page tables, tasks, file descriptors, path parts and terminal
\* strings ask for.
OneBlockRequests == \A size \in Sizes : size \in 1 .. BlockSize

LEMMA OneBlock ==
  ASSUME OneBlockRequests, NEW size \in Sizes
  PROVE  TotalBlocks(size) = 1
<1>1. size \in 1 .. BlockSize /\ BlockSize \in Nat \ {0}
      /\ UintRange \in Nat /\ BlockSize < UintRange
  BY HeapAssumption DEF OneBlockRequests
<1>2. CASE size = BlockSize
  BY <1>1, <1>2 DEF TotalBlocks, heap_align_value_to_upper
<1>3. CASE size < BlockSize
  <2>1. size % BlockSize = size
    BY <1>1, <1>3
  <2>2. (0 + BlockSize) % UintRange = BlockSize
    BY <1>1
  <2>3. heap_align_value_to_upper(size) = BlockSize
    BY <1>1, <2>1, <2>2 DEF heap_align_value_to_upper
  <2> QED BY <1>1, <2>3 DEF TotalBlocks
<1> QED BY <1>1, <1>2, <1>3

\* The search for one block returns the first free block, and fails only when
\* there is none.
LEMMA FirstFree ==
  ASSUME NEW tbl
  PROVE  heap_get_start_block(tbl, 1) =
           IF FreeBlocks(tbl) = {} THEN -ENOMEM ELSE Min(FreeBlocks(tbl))
<1> DEFINE F == FreeBlocks(tbl)
           upto(i) == {j \in F : j <= i}
           nth == {i \in F : Cardinality(upto(i)) = 1}
           stop == StopBlock(tbl, 1)
<1>1. F \subseteq Nat
  BY HeapAssumption DEF FreeBlocks, Blocks
<1>2. CASE F = {}
  <2>1. RunTo(tbl, stop) = {}
    BY <1>2, StartBlockIsFree
  <2> QED BY <1>2, <2>1 DEF heap_get_start_block
<1>3. CASE F # {}
  <2> DEFINE m == Min(F)
  <2>1. m \in F /\ \A k \in F : m <= k
    <3> HIDE DEF F
    <3> QED BY <1>1, <1>3, LeastNat
  <2> HIDE DEF m
  <2>2. upto(m) = {m}
    BY <1>1, <2>1
  <2>3. m \in nth
    <3>1. Cardinality({m}) = 1
      BY FS_Singleton
    <3> QED BY <2>1, <2>2, <3>1
  <2>4. ASSUME NEW i \in nth PROVE i = m
    <3>1. i \in F /\ Cardinality(upto(i)) = 1
      OBVIOUS
    <3>2. IsFiniteSet(0 .. i) /\ upto(i) \subseteq 0 .. i
      BY <1>1, <3>1, FS_Interval
    <3>3. IsFiniteSet(upto(i))
      BY <3>2, FS_Subset
    <3>4. \E x : upto(i) = {x}
      BY <3>1, <3>3, FS_Singleton
    <3>5. i \in upto(i) /\ m \in upto(i)
      BY <1>1, <2>1, <3>1
    <3> QED BY <3>4, <3>5
  <2>5. nth = {m}
    BY <2>3, <2>4
  <2>6. stop = m
    <3>1. stop = Min(nth)
      BY <2>3 DEF StopBlock
    <3>2. m \in Nat
      BY <1>1, <2>1
    <3>3. Min({m}) = m
      BY <3>2, LeastNat
    <3> QED BY <3>1, <3>3, <2>5
  <2>7. RunTo(tbl, stop) = {m}
    <3>1. m \in Nat
      BY <1>1, <2>1
    <3>2. ASSUME NEW t \in RunTo(tbl, m) PROVE t = m
      <4>1. t \in 0 .. m /\ t .. m \subseteq F
        BY DEF RunTo
      <4>2. t \in F
        BY <4>1, <3>1
      <4> QED BY <4>1, <4>2, <2>1, <3>1
    <3>3. m \in RunTo(tbl, m)
      BY <2>1, <3>1 DEF RunTo
    <3> QED BY <2>6, <3>2, <3>3
  <2>8. Min({m}) = m
    BY <1>1, <2>1, LeastNat
  <2> QED BY <1>3, <2>7, <2>8 DEF heap_get_start_block, m
<1> QED BY <1>2, <1>3

\* One step of kmalloc for a request of one block.
LEMMA OneBlockMalloc ==
  ASSUME TypeOK, OneBlockRequests, NEW size \in Sizes, kmalloc(size)
  PROVE  \/ /\ FreeBlocks(entries) = {} /\ halted'
            /\ UNCHANGED <<entries, live, served, sound>>
         \/ /\ ~ halted' /\ served' = ~served
            /\ \E s \in FreeBlocks(entries) :
                 /\ Fits(entries, s, 1)
                 /\ live' = live \cup {[ptr |-> heap_block_to_address(s),
                                        blocks |-> 1]}
            /\ sound' = sound
<1> DEFINE F == FreeBlocks(entries)
           s == heap_get_start_block(entries, 1)
<1>1. F \subseteq Nat
  BY HeapAssumption DEF FreeBlocks, Blocks
<1>2. TotalBlocks(size) = 1
  BY OneBlock
<1>3. CASE F = {}
  <2>1. s = -3
    BY <1>3, FirstFree DEF ENOMEM
  <2> QED BY <1>2, <1>3, <2>1 DEF kmalloc
<1>4. CASE F # {}
  <2>1. s \in F
    <3>1. Min(F) \in F
      <4> HIDE DEF F
      <4> QED BY <1>1, <1>4, LeastNat
    <3> QED BY <1>4, <3>1, FirstFree
  <2>2. s \in Nat /\ s .. s + 1 - 1 = {s}
    BY <1>1, <2>1
  <2>3. Fits(entries, s, 1)
    BY <2>1, <2>2 DEF Fits
  <2>4. /\ live' = live \cup {[ptr |-> heap_block_to_address(s), blocks |-> 1]}
        /\ sound' = (sound /\ Fits(entries, s, 1))
        /\ UNCHANGED halted /\ ~ halted /\ served' = ~served
    BY <1>2, <2>2 DEF kmalloc
  <2>5. sound' = sound /\ ~ halted'
    BY <2>3, <2>4 DEF TypeOK
  <2> HIDE DEF s
  <2> QED BY <2>1, <2>3, <2>4, <2>5
<1> QED BY <1>3, <1>4

LEMMA OneBlockInit == Init => AlwaysSound /\ PanicOnlyWhenFull
BY DEF Init, AlwaysSound, PanicOnlyWhenFull

LEMMA OneBlockStep ==
  ASSUME OneBlockRequests, TypeOK, AlwaysSound, PanicOnlyWhenFull, [Next]_vars
  PROVE  AlwaysSound' /\ PanicOnlyWhenFull'
<1>1. ASSUME NEW size \in Sizes, kmalloc(size)
      PROVE  AlwaysSound' /\ PanicOnlyWhenFull'
  BY <1>1, OneBlockMalloc DEF AlwaysSound, PanicOnlyWhenFull, FreeBlocks
<1>2. ASSUME NEW a \in live, kfree(a)
      PROVE  AlwaysSound' /\ PanicOnlyWhenFull'
  BY <1>2 DEF kfree, AlwaysSound, PanicOnlyWhenFull
<1>3. CASE kfreeNull
  BY <1>3 DEF kfreeNull, AlwaysSound, PanicOnlyWhenFull
<1>4. CASE UNCHANGED vars
  BY <1>4 DEF vars, AlwaysSound, PanicOnlyWhenFull, FreeBlocks
<1> QED BY <1>1, <1>2, <1>3, <1>4 DEF Next

\* Requests of one block are always served from free blocks of the table ...
THEOREM OneBlockSound ==
  ASSUME OneBlockRequests PROVE Spec => []AlwaysSound
BY OneBlockRequests, OneBlockInit, OneBlockStep, TypeInit, TypeStep, PTL DEF Spec

\* ... and the kernel panics only when every block is held.
THEOREM OneBlockPanic ==
  ASSUME OneBlockRequests PROVE Spec => []PanicOnlyWhenFull
BY OneBlockRequests, OneBlockInit, OneBlockStep, TypeInit, TypeStep, PTL DEF Spec

-----------------------------------------------------------------------------
(* Refinement                                                              *)

\* The inductive invariant that the refinement rests on.
HeapInv == TypeOK /\ Consistent /\ AlwaysSound /\ PanicOnlyWhenFull

RunOf(a) == [first |-> Start(a), blocks |-> a.blocks]

LEMMA RefinementInit == Init => Abstract!Init
BY DEF Init, Abstract!Init, HeldRuns

\* Two allocations that are held are two runs that are held.
LEMMA RunsDiffer ==
  ASSUME HeapInv, NEW a \in live, NEW b \in live, a # b
  PROVE  RunOf(a) # RunOf(b)
<1>1. Span(a) \cap Span(b) = {} /\ a.blocks > 0
  BY DEF HeapInv, AlwaysSound, Consistent, NoOverlap, TableMatchesLive
<1>2. Start(a) \in Span(a)
  BY <1>1, HeapAssumption
  DEF HeapInv, TypeOK, Allocation, Span, Start, heap_address_to_block
<1>3. ASSUME RunOf(a) = RunOf(b) PROVE FALSE
  <2>1. Start(a) = Start(b) /\ a.blocks = b.blocks
    BY <1>3 DEF RunOf
  <2>2. Span(a) = Span(b)
    BY <2>1 DEF Span
  <2> QED BY <1>1, <1>2, <2>2
<1> QED BY <1>3

\* A block is free in the table exactly when no run that is held has it.
LEMMA UnheldIsFree ==
  ASSUME HeapInv
  PROVE  Abstract!Unheld = FreeBlocks(entries)
<1>1. InTable /\ TableMatchesLive
  BY DEF HeapInv, AlwaysSound, Consistent
<1>2. ASSUME NEW a PROVE Abstract!BlocksOf(RunOf(a)) = Span(a)
  BY DEF Abstract!BlocksOf, RunOf, Span
<1>3. HeldRuns = {RunOf(a) : a \in live}
  BY DEF HeldRuns, RunOf
<1>4. ASSUME NEW b \in Blocks
      PROVE  (\E r \in HeldRuns : b \in Abstract!BlocksOf(r)) <=> (\E a \in live : b \in Span(a))
  BY <1>2, <1>3
<1>5. ASSUME NEW b \in Blocks
      PROVE  "TAKEN" \in entries[b] <=> (\E a \in live : b \in Span(a))
  <2>1. ASSUME "TAKEN" \in entries[b] PROVE \E a \in live : b \in Span(a)
    BY <2>1, <1>1 DEF TableMatchesLive, FREE
  <2>2. ASSUME NEW a \in live, b \in Span(a) PROVE "TAKEN" \in entries[b]
    BY <2>2, <1>1, TakenEntryType DEF TableMatchesLive
  <2> QED BY <2>1, <2>2
<1> QED BY <1>4, <1>5 DEF Abstract!Unheld, FreeBlocks

LEMMA RefinementMalloc ==
  ASSUME OneBlockRequests, HeapInv, NEW size \in Sizes, kmalloc(size)
  PROVE  Abstract!Next
<1>1. ~ halted /\ halted \in BOOLEAN /\ halted' \in BOOLEAN
  BY DEF kmalloc, HeapInv, TypeOK
<1>2. 1 \in {TotalBlocks(z) : z \in Sizes}
  BY OneBlock
<1>3. ASSUME NEW s \in FreeBlocks(entries)
      PROVE  [first |-> s, blocks |-> 1] \in Abstract!RunsOf(1)
  <2>1. s \in Blocks /\ s \in Nat
    BY HeapAssumption DEF FreeBlocks, Blocks
  <2>2. Abstract!BlocksOf([first |-> s, blocks |-> 1]) = {s}
    BY <2>1 DEF Abstract!BlocksOf
  <2> QED BY <2>1, <2>2, UnheldIsFree DEF Abstract!RunsOf
<1>4. CASE FreeBlocks(entries) = {} /\ halted' /\ UNCHANGED <<live, served>>
  <2>1. Abstract!RunsOf(1) = {}
    <3> SUFFICES ASSUME NEW r \in Abstract!RunsOf(1) PROVE FALSE
      OBVIOUS
    <3>1. /\ r.first \in Blocks /\ r.blocks = 1
          /\ Abstract!BlocksOf(r) \subseteq Abstract!Unheld
      BY DEF Abstract!RunsOf
    <3>2. r.first \in Abstract!BlocksOf(r)
      BY <3>1, HeapAssumption DEF Abstract!BlocksOf, Blocks
    <3> QED BY <3>1, <3>2, <1>4, UnheldIsFree
  <2>2. HeldRuns' = HeldRuns
    BY <1>4 DEF HeldRuns, Start
  <2>3. Abstract!GiveUp
    BY <1>1, <1>2, <1>4, <2>1, <2>2 DEF Abstract!GiveUp
  <2> QED BY <2>3 DEF Abstract!Next
<1>5. ASSUME ~ halted', served' = ~served, NEW s \in FreeBlocks(entries),
             live' = live \cup {[ptr |-> heap_block_to_address(s), blocks |-> 1]}
      PROVE  Abstract!Next
  <2>1. s \in Nat
    BY HeapAssumption DEF FreeBlocks, Blocks
  <2> DEFINE new == [ptr |-> heap_block_to_address(s), blocks |-> 1]
  <2>2. RunOf(new) = [first |-> s, blocks |-> 1]
    BY <2>1, SpanOfNew DEF RunOf
  <2>3. HeldRuns' = HeldRuns \cup {[first |-> s, blocks |-> 1]}
    <3>1. HeldRuns = {RunOf(b) : b \in live} /\ HeldRuns' = {RunOf(b) : b \in live'}
      BY DEF HeldRuns, RunOf, Start
    <3>2. live' = live \cup {new}
      BY <1>5
    <3> HIDE DEF new
    <3> QED BY <2>2, <3>1, <3>2
  <2>4. Abstract!Allocate
    BY <1>1, <1>2, <1>3, <1>5, <2>3 DEF Abstract!Allocate
  <2> QED BY <2>4 DEF Abstract!Next
<1> QED BY <1>4, <1>5, OneBlockMalloc DEF HeapInv

LEMMA RefinementFree ==
  ASSUME HeapInv, NEW a \in live, kfree(a)
  PROVE  Abstract!Next
<1>1. live' = live \ {a} /\ ~ halted /\ halted' = halted /\ served' = served
  BY DEF kfree
<1>2. HeldRuns = {RunOf(b) : b \in live} /\ HeldRuns' = {RunOf(b) : b \in live'}
  BY DEF HeldRuns, RunOf, Start
<1>3. RunOf(a) \in HeldRuns /\ HeldRuns' = HeldRuns \ {RunOf(a)}
  BY <1>1, <1>2, RunsDiffer
<1>4. Abstract!Release
  BY <1>1, <1>3 DEF Abstract!Release
<1> QED BY <1>4 DEF Abstract!Next

LEMMA RefinementStep ==
  ASSUME OneBlockRequests, HeapInv, [Next]_vars
  PROVE  [Abstract!Next]_(Abstract!specVars)
<1>1. ASSUME NEW size \in Sizes, kmalloc(size) PROVE Abstract!Next
  BY <1>1, RefinementMalloc
<1>2. ASSUME NEW a \in live, kfree(a) PROVE Abstract!Next
  BY <1>2, RefinementFree
<1>3. ASSUME live' = live, halted' = halted, served' = served PROVE UNCHANGED Abstract!specVars
  BY <1>3 DEF Abstract!specVars, HeldRuns, Start
<1> QED BY <1>1, <1>2, <1>3 DEF Next, kfreeNull, vars

\* For requests of one block the table, its flags and its search implement
\* the abstract allocator: callers get blocks that nobody else holds.
THEOREM HeapImplementsSpec ==
  ASSUME OneBlockRequests PROVE Spec => ImplementsHeapSpec
<1>1. Init => HeapInv
  BY TypeInit, ConsistentInit, OneBlockInit DEF HeapInv
<1>2. HeapInv /\ [Next]_vars => HeapInv'
  BY TypeStep, ConsistentStep, OneBlockStep DEF HeapInv
<1>3. HeapInv /\ [Next]_vars => [Abstract!Next]_(Abstract!specVars)
  BY RefinementStep
<1> QED
  BY <1>1, <1>2, <1>3, RefinementInit, PTL
  DEF Spec, ImplementsHeapSpec, Abstract!Spec

-----------------------------------------------------------------------------
(* The loops: marking                                                      *)

\* heap_mark_blocks_taken as a loop writes the flags of its closed form, for
\* any number of blocks from any block of the table.
LEMMA MarkAgrees ==
  ASSUME NEW tbl \in [Blocks -> SUBSET Flags], NEW s \in Blocks, NEW n \in Nat
  PROVE  MarkLoop(tbl, s, n) = heap_mark_blocks_taken(tbl, s, n)
<1>0. s \in Nat /\ Total \in Nat
  BY HeapAssumption DEF Blocks
<1>1. PICK end, entry :
        /\ end = (s + n) - 1
        /\ entry = {"TAKEN", "IS_FIRST"} \cup (IF n > 1 THEN {"HAS_NEXT"} ELSE {})
  OBVIOUS
<1>2. PICK Acc : Acc = [tbl : [Blocks -> SUBSET Flags], entry : SUBSET Flags]
  OBVIOUS
<1>3. ASSUME NEW acc \in Acc, NEW i PROVE MarkStep(end, acc, i) \in Acc
  BY <1>2 DEF MarkStep, Flags
<1>4. PICK after : /\ after = [k \in 0 .. n |->
                                 IF k = 0 THEN [tbl |-> tbl, entry |-> entry]
                                 ELSE MarkStep(end, after[k - 1], s + k - 1)]
                   /\ \A k \in 0 .. n : after[k] \in Acc
  <2>1. PICK step : step = [k \in 1 .. n |-> [acc \in Acc |-> MarkStep(end, acc, s + k - 1)]]
    OBVIOUS
  <2>2. PICK a : a = [tbl |-> tbl, entry |-> entry]
    OBVIOUS
  <2>3. a \in Acc
    BY <1>1, <1>2, <2>2 DEF Flags
  <2>4. \A k \in 1 .. n : \A acc \in Acc : step[k][acc] = MarkStep(end, acc, s + k - 1)
    BY <2>1
  <2>5. \A k \in 1 .. n : \A acc \in Acc : step[k][acc] \in Acc
    BY <2>4, <1>3
  <2>6. PICK g \in [0 .. n -> Acc] : g[0] = a /\ \A k \in 1 .. n : g[k] = step[k][g[k - 1]]
    <3>1. StaysIn(step, n, Acc)
      BY <2>5 DEF StaysIn
    <3>2. \E g \in [0 .. n -> Acc] : Loops(g, step, n, a)
      BY <2>3, <3>1, LoopExists
    <3> QED BY <3>2 DEF Loops
  <2>7. ASSUME NEW k \in 0 .. n
        PROVE  g[k] = IF k = 0 THEN a ELSE MarkStep(end, g[k - 1], s + k - 1)
    <3>1. k # 0 => k \in 1 .. n /\ k - 1 \in 0 .. n
      OBVIOUS
    <3> QED BY <3>1, <2>4, <2>6
  <2>8. g = [k \in 0 .. n |-> g[k]]
    BY <2>6
  <2>9. g = [k \in 0 .. n |-> IF k = 0 THEN a ELSE MarkStep(end, g[k - 1], s + k - 1)]
    BY <2>7, <2>8
  <2> QED BY <2>2, <2>6, <2>9
<1>5. PICK f : /\ f = [k \in 0 .. n |->
                         IF k = 0 THEN [tbl |-> tbl, entry |-> entry]
                         ELSE MarkStep(end, f[k - 1], s + k - 1)]
               /\ MarkLoop(tbl, s, n) = f[n].tbl
  BY <1>1, <1>4 DEF MarkLoop
<1>6. /\ f[0] = [tbl |-> tbl, entry |-> entry]
      /\ \A k \in 1 .. n : f[k] = MarkStep(end, f[k - 1], s + k - 1)
  <2>1. \A k \in 1 .. n : k \in 0 .. n /\ k # 0
    OBVIOUS
  <2> QED BY <1>5, <2>1
<1> DEFINE Marked(k) == [b \in Blocks |-> IF b \in s .. s + k - 1 THEN TakenEntry(s, n, b)
                                                                 ELSE tbl[b]]
           G == {k \in 0 .. n : /\ f[k].tbl = Marked(k)
                                /\ k < n => f[k].entry = TakenEntry(s, n, s + k)}
<1>7. 0 \in G
  <2>1. \A b \in Blocks : b \notin s .. s + 0 - 1
    BY <1>0 DEF Blocks
  <2>2. Marked(0) = [b \in Blocks |-> tbl[b]]
    BY <2>1
  <2>3. f[0].tbl = Marked(0)
    BY <1>6, <2>2
  <2>4. 0 < n => f[0].entry = TakenEntry(s, n, s + 0)
    <3>1. s + 0 = s /\ (0 < n => (n > 1 <=> s # s + n - 1))
      BY <1>0
    <3> QED BY <1>1, <1>6, <3>1 DEF TakenEntry
  <2> QED BY <2>3, <2>4
<1>8. ASSUME NEW k \in 0 .. n, k \in G, k < n PROVE k + 1 \in G
  <2>1. PICK j, i : j = k + 1 /\ i = s + k
    OBVIOUS
  <2>2. /\ j \in 1 .. n /\ j \in 0 .. n /\ j - 1 = k /\ s + j - 1 = i /\ i \in Nat
        /\ s + k - 1 = i - 1
    BY <1>0, <1>8, <2>1
  <2>3. f[j] = MarkStep(end, f[k], i)
    BY <1>6, <2>2
  <2>4. f[k].tbl = Marked(k) /\ f[k].entry = TakenEntry(s, n, i)
    BY <1>8, <2>1
  <2>5. f[j].tbl = IF i \in Blocks THEN [Marked(k) EXCEPT ![i] = TakenEntry(s, n, i)]
                   ELSE Marked(k)
    BY <2>3, <2>4 DEF MarkStep
  <2>6. ASSUME NEW b \in Blocks
        PROVE  b \in s .. i <=> b \in s .. i - 1 \/ b = i
    BY <1>0, <2>1, <2>2 DEF Blocks
  <2>7. Marked(j) = [b \in Blocks |-> IF b = i THEN TakenEntry(s, n, i) ELSE Marked(k)[b]]
    BY <2>2, <2>6
  <2>8. f[j].tbl = Marked(j)
    BY <2>5, <2>7
  <2>9. j < n => f[j].entry = TakenEntry(s, n, s + j)
    <3>1. f[j].entry = {"TAKEN"} \cup (IF i # end - 1 THEN {"HAS_NEXT"} ELSE {})
      BY <2>3 DEF MarkStep
    <3>2. s + j # s /\ (i # end - 1 <=> s + j # s + n - 1)
      BY <1>0, <1>1, <2>1, <2>2
    <3> QED BY <3>1, <3>2 DEF TakenEntry
  <2> QED BY <2>1, <2>2, <2>8, <2>9
<1>9. 0 .. n \subseteq G
  <2> HIDE DEF G
  <2> QED BY <1>7, <1>8, SetInduction
<1>10. n \in G
  BY <1>9
<1>11. f[n].tbl = Marked(n)
  BY <1>10
<1> QED BY <1>5, <1>11 DEF heap_mark_blocks_taken

-----------------------------------------------------------------------------
(* The loops: freeing                                                      *)

\* heap_mark_blocks_free as a loop clears the chain of its closed form, from
\* any block of any table.
LEMMA FreeAgrees ==
  ASSUME NEW tbl \in [Blocks -> SUBSET Flags], NEW b \in Blocks
  PROVE  FreeLoop(tbl, b) = heap_mark_blocks_free(tbl, b)
<1>1. PICK m : m = Total - b
  OBVIOUS
<1>2. b \in Nat /\ Total \in Nat /\ m \in Nat
  BY <1>1, HeapAssumption DEF Blocks
<1>3. PICK Acc : Acc = [tbl : [Blocks -> SUBSET Flags], done : BOOLEAN]
  OBVIOUS
<1>4. ASSUME NEW acc \in Acc, NEW i PROVE FreeStep(acc, i) \in Acc
  BY <1>3 DEF FreeStep, FREE
<1>5. PICK after : /\ after = [k \in 0 .. m |-> IF k = 0 THEN [tbl |-> tbl, done |-> FALSE]
                                               ELSE FreeStep(after[k - 1], b + k - 1)]
                   /\ \A k \in 0 .. m : after[k] \in Acc
  <2>1. PICK step : step = [k \in 1 .. m |-> [acc \in Acc |-> FreeStep(acc, b + k - 1)]]
    OBVIOUS
  <2>2. PICK a : a = [tbl |-> tbl, done |-> FALSE]
    OBVIOUS
  <2>3. a \in Acc
    BY <1>3, <2>2
  <2>4. \A k \in 1 .. m : \A acc \in Acc : step[k][acc] = FreeStep(acc, b + k - 1)
    BY <2>1
  <2>5. StaysIn(step, m, Acc)
    BY <2>4, <1>4 DEF StaysIn
  <2>6. PICK g \in [0 .. m -> Acc] : Loops(g, step, m, a)
    BY <1>2, <2>3, <2>5, LoopExists
  <2>7. ASSUME NEW k \in 0 .. m
        PROVE  g[k] = IF k = 0 THEN a ELSE FreeStep(g[k - 1], b + k - 1)
    <3>1. k # 0 => k \in 1 .. m /\ k - 1 \in 0 .. m
      BY <1>2
    <3> QED BY <3>1, <2>4, <2>6 DEF Loops
  <2>8. g = [k \in 0 .. m |-> g[k]]
    BY <2>6
  <2>9. g = [k \in 0 .. m |-> IF k = 0 THEN a ELSE FreeStep(g[k - 1], b + k - 1)]
    BY <2>7, <2>8
  <2> QED BY <2>2, <2>6, <2>9
<1>6. PICK f : /\ f = [k \in 0 .. m |-> IF k = 0 THEN [tbl |-> tbl, done |-> FALSE]
                                        ELSE FreeStep(f[k - 1], b + k - 1)]
               /\ FreeLoop(tbl, b) = f[m].tbl
  BY <1>1, <1>5 DEF FreeLoop
<1>7. /\ f[0] = [tbl |-> tbl, done |-> FALSE]
      /\ \A k \in 1 .. m : f[k] = FreeStep(f[k - 1], b + k - 1)
  <2>1. (\A k \in 1 .. m : k \in 0 .. m /\ k # 0) /\ 0 \in 0 .. m
    BY <1>2
  <2> QED BY <1>6, <2>1
<1> DEFINE Ends(k) == \E j \in b .. b + k - 1 : "HAS_NEXT" \notin tbl[j]
           Freed(k) == [i \in Blocks |->
                          IF i \in Chain(tbl, b) /\ i < b + k THEN FREE ELSE tbl[i]]
           G == {k \in 0 .. m : f[k].tbl = Freed(k) /\ (f[k].done <=> Ends(k))}
<1>8. 0 \in G
  <2>1. \A j \in b .. b + 0 - 1 : FALSE
    BY <1>2
  <2>2. \A i \in Chain(tbl, b) : ~ (i < b + 0)
    BY <1>2 DEF Chain
  <2>3. Freed(0) = [i \in Blocks |-> tbl[i]]
    BY <2>2
  <2>4. f[0].tbl = Freed(0) /\ ~ f[0].done
    BY <1>7, <2>3
  <2> QED BY <1>2, <2>1, <2>4
<1>9. ASSUME NEW k \in 0 .. m, k \in G, k < m PROVE k + 1 \in G
  <2>1. PICK l, i : l = k + 1 /\ i = b + k
    OBVIOUS
  <2>2. /\ l \in 1 .. m /\ l \in 0 .. m /\ l - 1 = k /\ b + l - 1 = i /\ i \in Nat
        /\ b + k - 1 = i - 1 /\ i \in Blocks /\ b + l = i + 1 /\ i \in b .. Total - 1
    BY <1>1, <1>2, <1>9, <2>1 DEF Blocks
  <2>3. f[l] = FreeStep(f[k], i)
    BY <1>7, <2>2
  <2>4. f[k].tbl = Freed(k) /\ (f[k].done <=> Ends(k))
    BY <1>9
  <2>5. i \in Chain(tbl, b) <=> ~ Ends(k)
    BY <2>2 DEF Chain
  <2>6. Ends(l) <=> Ends(k) \/ "HAS_NEXT" \notin tbl[i]
    <3>1. \A j \in Nat : j \in b .. i <=> j \in b .. i - 1 \/ j = i
      BY <1>2, <2>2
    <3> QED BY <3>1, <1>2, <2>2
  <2>7. ASSUME NEW j \in Blocks
        PROVE  j < b + l <=> j < b + k \/ j = i
    BY <1>2, <2>1, <2>2 DEF Blocks
  <2>8. Freed(l) = [j \in Blocks |-> IF j = i /\ i \in Chain(tbl, b) THEN FREE ELSE Freed(k)[j]]
    BY <2>7
  <2>9. CASE f[k].done
    <3>1. f[l] = f[k]
      BY <2>3, <2>9 DEF FreeStep
    <3>2. i \notin Chain(tbl, b)
      BY <2>4, <2>5, <2>9
    <3>3. Freed(l) = Freed(k)
      BY <2>8, <3>2
    <3> QED BY <2>1, <2>2, <2>4, <2>6, <2>9, <3>1, <3>3
  <2>10. CASE ~ f[k].done
    <3>1. f[l] = [tbl  |-> [f[k].tbl EXCEPT ![i] = FREE], done |-> "HAS_NEXT" \notin f[k].tbl[i]]
      BY <2>3, <2>10 DEF FreeStep
    <3>2. i \in Chain(tbl, b) /\ ~ Ends(k)
      BY <2>4, <2>5, <2>10
    <3>3. Freed(k)[i] = tbl[i]
      BY <1>2, <2>1, <2>2
    <3>4. f[l].tbl = Freed(l)
      <4>1. PICK t, u : t = Freed(k) /\ u = Freed(l)
        OBVIOUS
      <4>2. t = [j \in Blocks |-> t[j]]
        BY <4>1
      <4>3. u = [j \in Blocks |-> IF j = i /\ i \in Chain(tbl, b) THEN FREE ELSE t[j]]
        BY <2>8, <4>1
      <4>4. f[l].tbl = [t EXCEPT ![i] = FREE]
        BY <2>4, <3>1, <4>1
      <4>5. f[l].tbl = u
        <5> HIDE DEF Freed
        <5> QED BY <3>2, <4>2, <4>3, <4>4
      <4> QED BY <4>1, <4>5
    <3>5. f[l].done <=> Ends(l)
      <4>1. f[k].tbl[i] = tbl[i]
        BY <2>4, <3>3
      <4>2. f[l].done <=> "HAS_NEXT" \notin tbl[i]
        <5> HIDE DEF Freed, Ends
        <5>1. f[l].done = ("HAS_NEXT" \notin f[k].tbl[i])
          BY <3>1
        <5> QED BY <4>1, <5>1
      <4> QED BY <2>6, <3>2, <4>2
    <3> QED BY <2>1, <2>2, <3>4, <3>5
  <2> QED BY <2>9, <2>10
<1>10. 0 .. m \subseteq G
  <2> HIDE DEF G
  <2> QED BY <1>2, <1>8, <1>9, SetInduction
<1>11. m \in G
  BY <1>2, <1>10
<1>12. f[m].tbl = Freed(m)
  BY <1>11
<1>13. \A i \in Blocks : i < b + m
  BY <1>1, <1>2 DEF Blocks
<1>14. ~ (b < 0)
  BY <1>2
<1> QED BY <1>6, <1>12, <1>13, <1>14 DEF heap_mark_blocks_free

-----------------------------------------------------------------------------
(* The loops: searching                                                    *)

\* start_block after the iteration of block k.
RunStart(tbl, k) == IF RunTo(tbl, k) = {} THEN -1 ELSE Min(RunTo(tbl, k))

\* How many blocks up to i are free: free_blocks after the iteration of i.
FreeUpTo(tbl, i) == Cardinality({j \in FreeBlocks(tbl) : j <= i})

\* A taken block ends a run, a free one goes on with it or begins one.
LEMMA RunStep ==
  ASSUME NEW tbl, NEW k \in Blocks
  PROVE  /\ RunStart(tbl, k) \in Int
         /\ RunStart(tbl, k) = IF "TAKEN" \in tbl[k] THEN -1
                               ELSE IF RunStart(tbl, k - 1) = -1 THEN k
                               ELSE RunStart(tbl, k - 1)
<1>0. k \in Nat /\ k \in 0 .. k /\ Blocks \subseteq Nat
  BY HeapAssumption DEF Blocks
<1>1. PICK r, q : r = RunTo(tbl, k) /\ q = RunTo(tbl, k - 1)
  OBVIOUS
<1>2. r \subseteq Nat /\ q \subseteq Nat /\ (\A s \in r : s <= k) /\ (\A s \in q : s <= k - 1)
  BY <1>0, <1>1 DEF RunTo
<1>3. /\ r # {} => Min(r) \in r /\ \A s \in r : Min(r) <= s
      /\ q # {} => Min(q) \in q /\ \A s \in q : Min(q) <= s
  BY <1>2, LeastNat
<1>4. CASE "TAKEN" \in tbl[k]
  <2>1. r = {}
    <3> SUFFICES ASSUME NEW s \in r PROVE FALSE
      OBVIOUS
    <3>1. s \in 0 .. k /\ s .. k \subseteq FreeBlocks(tbl)
      BY <1>1 DEF RunTo
    <3>2. k \in s .. k
      BY <1>0, <3>1
    <3> QED BY <1>4, <3>1, <3>2 DEF FreeBlocks
  <2> QED BY <1>1, <1>4, <2>1 DEF RunStart
<1>5. CASE "TAKEN" \notin tbl[k]
  <2>1. k \in FreeBlocks(tbl)
    BY <1>5 DEF FreeBlocks
  <2>2. \A s \in 0 .. k - 1 : s .. k = (s .. k - 1) \cup {k}
    BY <1>0
  <2>3. \A s \in 0 .. k - 1 : s .. k \subseteq FreeBlocks(tbl) <=> s .. k - 1 \subseteq FreeBlocks(tbl)
    BY <2>1, <2>2
  <2>4. k .. k = {k} /\ k .. k \subseteq FreeBlocks(tbl)
    BY <1>0, <2>1
  <2>5. \A s : s \in r <=> s \in q \/ s = k
    <3>1. \A s : s \in 0 .. k <=> s \in 0 .. k - 1 \/ s = k
      BY <1>0
    <3> QED BY <1>1, <2>3, <2>4, <3>1 DEF RunTo
  <2>6. r # {} /\ k \in r
    BY <2>5
  <2>7. CASE q = {}
    <3>1. Min(r) = k
      BY <1>3, <2>5, <2>6, <2>7
    <3>2. RunStart(tbl, k) = k /\ RunStart(tbl, k - 1) = -1
      BY <1>1, <2>6, <2>7, <3>1 DEF RunStart
    <3> QED BY <1>0, <1>5, <3>2
  <2>8. CASE q # {}
    <3>1. Min(q) \in r /\ Min(r) \in Nat /\ Min(q) \in Nat /\ Min(q) <= k - 1
      BY <1>2, <1>3, <2>5, <2>6, <2>8
    <3>2. Min(r) <= Min(q)
      BY <1>3, <2>6, <3>1
    <3>3. Min(r) \in q
      BY <1>0, <1>3, <2>5, <2>6, <3>1, <3>2
    <3>4. Min(r) = Min(q)
      BY <1>3, <2>8, <3>1, <3>2, <3>3
    <3> QED BY <1>1, <1>5, <2>6, <2>8, <3>1, <3>4 DEF RunStart
  <2> QED BY <2>7, <2>8
<1> QED BY <1>4, <1>5

\* A free block is one more free block, a taken one is none.
LEMMA CountStep ==
  ASSUME NEW tbl, NEW k \in Blocks
  PROVE  /\ FreeUpTo(tbl, k - 1) \in Nat
         /\ FreeUpTo(tbl, k) = IF "TAKEN" \in tbl[k] THEN FreeUpTo(tbl, k - 1)
                               ELSE FreeUpTo(tbl, k - 1) + 1
<1>0. k \in Nat /\ \A j \in FreeBlocks(tbl) : j \in Nat
  BY HeapAssumption DEF Blocks, FreeBlocks
<1>1. PICK S, T : /\ S = {j \in FreeBlocks(tbl) : j <= k - 1}
                  /\ T = {j \in FreeBlocks(tbl) : j <= k}
  OBVIOUS
<1>2. IsFiniteSet(S)
  <2>1. S \subseteq 0 .. k
    BY <1>0, <1>1
  <2>2. IsFiniteSet(0 .. k)
    BY <1>0, FS_Interval
  <2> QED BY <2>1, <2>2, FS_Subset
<1>3. Cardinality(S) \in Nat
  BY <1>2, FS_CardinalityType
<1>4. k \notin S
  BY <1>0, <1>1
<1>5. \A j \in FreeBlocks(tbl) : j <= k <=> j <= k - 1 \/ j = k
  BY <1>0
<1>6. "TAKEN" \in tbl[k] => T = S
  BY <1>1, <1>5 DEF FreeBlocks
<1>7. "TAKEN" \notin tbl[k] => T = S \cup {k}
  BY <1>1, <1>5 DEF FreeBlocks
<1>8. "TAKEN" \notin tbl[k] => Cardinality(T) = Cardinality(S) + 1
  BY <1>2, <1>4, <1>7, OneMore
<1> QED BY <1>1, <1>3, <1>6, <1>8 DEF FreeUpTo

\* The scan stops at i: the n-th free block is found.
Stops(tbl, n, i) ==
  /\ i \in FreeBlocks(tbl) /\ FreeUpTo(tbl, i) = n
  /\ \A j \in FreeBlocks(tbl) : j < i => FreeUpTo(tbl, j) # n

\* The variables of the scan before the iteration of block k.
ScanInv(tbl, n, acc, k) ==
  /\ ~ acc.done => /\ acc.free = FreeUpTo(tbl, k - 1) /\ acc.start = RunStart(tbl, k - 1)
                   /\ \A j \in FreeBlocks(tbl) : j < k => FreeUpTo(tbl, j) # n
  /\ acc.done => \E i \in Blocks : i < k /\ Stops(tbl, n, i) /\ acc.start = RunStart(tbl, i)

ScanAcc == [start : Int, free : Nat, done : BOOLEAN]

\* One iteration keeps the invariant.
LEMMA ScanKeeps ==
  ASSUME NEW tbl, NEW n \in Nat, NEW k \in Blocks, NEW acc \in ScanAcc,
         ScanInv(tbl, n, acc, k)
  PROVE  ScanInv(tbl, n, ScanStep(tbl, n, acc, k), k + 1)
<1>0. k \in Nat /\ (k + 1) - 1 = k /\ \A j \in Blocks : j \in Nat /\ (j < k + 1 <=> j < k \/ j = k)
  BY HeapAssumption DEF Blocks
<1>1. \A j \in FreeBlocks(tbl) : j \in Blocks /\ "TAKEN" \notin tbl[j]
  BY DEF FreeBlocks
<1>2. PICK new : new = ScanStep(tbl, n, acc, k)
  OBVIOUS
<1>3. CASE acc.done
  <2>1. new = acc
    BY <1>2, <1>3 DEF ScanStep
  <2> QED BY <1>0, <1>2, <1>3, <2>1 DEF ScanInv
<1>4. CASE ~ acc.done
  <2>1. /\ acc.free = FreeUpTo(tbl, k - 1) /\ acc.start = RunStart(tbl, k - 1)
        /\ \A j \in FreeBlocks(tbl) : j < k => FreeUpTo(tbl, j) # n
    BY <1>4 DEF ScanInv
  <2>2. CASE "TAKEN" \in tbl[k]
    <3>1. new = [acc EXCEPT !.start = -1]
      BY <1>2, <1>4, <2>2 DEF ScanStep
    <3>2. new.done = acc.done /\ new.free = acc.free /\ new.start = -1
      BY <3>1 DEF ScanAcc
    <3>3. new.free = FreeUpTo(tbl, k) /\ new.start = RunStart(tbl, k)
      BY <2>1, <2>2, <3>2, CountStep, RunStep
    <3>4. k \notin FreeBlocks(tbl)
      BY <1>1, <2>2
    <3>5. \A j \in FreeBlocks(tbl) : j < k + 1 => FreeUpTo(tbl, j) # n
      BY <1>0, <1>1, <2>1, <3>4
    <3> QED BY <1>0, <1>2, <1>4, <3>2, <3>3, <3>5 DEF ScanInv
  <2>3. CASE "TAKEN" \notin tbl[k]
    <3>1. new = [start |-> IF acc.start = -1 THEN k ELSE acc.start,
                 free  |-> acc.free + 1,
                 done  |-> acc.free + 1 = n]
      BY <1>2, <1>4, <2>3 DEF ScanStep
    <3>2. new.start = RunStart(tbl, k)
      BY <2>1, <2>3, <3>1, RunStep
    <3>3. new.free = FreeUpTo(tbl, k)
      BY <2>1, <2>3, <3>1, CountStep
    <3>4. new.done = (FreeUpTo(tbl, k) = n)
      <4>1. acc.free + 1 = FreeUpTo(tbl, k)
        BY <2>1, <2>3, CountStep
      <4>2. new.done = (acc.free + 1 = n)
        BY <3>1
      <4> QED BY <4>1, <4>2
    <3>5. k \in FreeBlocks(tbl)
      BY <2>3 DEF FreeBlocks
    <3>6. CASE FreeUpTo(tbl, k) = n
      <4>1. new.done
        BY <3>4, <3>6
      <4>2. Stops(tbl, n, k)
        BY <2>1, <3>5, <3>6 DEF Stops
      <4>3. k < k + 1
        BY <1>0
      <4> QED BY <1>2, <3>2, <4>1, <4>2, <4>3 DEF ScanInv
    <3>7. CASE FreeUpTo(tbl, k) # n
      <4>1. ~ new.done
        BY <3>4, <3>7
      <4>2. \A j \in FreeBlocks(tbl) : j < k + 1 => FreeUpTo(tbl, j) # n
        BY <1>0, <1>1, <2>1, <3>7
      <4> QED BY <1>0, <1>2, <3>2, <3>3, <4>1, <4>2 DEF ScanInv
    <3> QED BY <3>6, <3>7
  <2> QED BY <2>2, <2>3
<1> QED BY <1>3, <1>4

\* What the scan ends with is where the run to the stop block begins.
LEMMA ScanEnds ==
  ASSUME NEW tbl, NEW n \in Nat, NEW acc \in ScanAcc, ScanInv(tbl, n, acc, Total)
  PROVE  acc.start = RunStart(tbl, StopBlock(tbl, n))
<1>0. Total \in Nat /\ \A j \in FreeBlocks(tbl) : j \in Nat /\ j < Total
  BY HeapAssumption DEF FreeBlocks, Blocks
<1>1. PICK nth : nth = {i \in FreeBlocks(tbl) : FreeUpTo(tbl, i) = n}
  OBVIOUS
<1>2. StopBlock(tbl, n) = IF nth # {} THEN Min(nth) ELSE Total - 1
  BY <1>1 DEF StopBlock, FreeUpTo
<1>3. nth \subseteq Nat
  BY <1>0, <1>1
<1>4. CASE ~ acc.done
  <2>1. nth = {} /\ acc.start = RunStart(tbl, Total - 1)
    BY <1>0, <1>1, <1>4 DEF ScanInv
  <2> QED BY <1>2, <2>1
<1>5. CASE acc.done
  <2>1. PICK i \in Blocks : Stops(tbl, n, i) /\ acc.start = RunStart(tbl, i)
    BY <1>5 DEF ScanInv
  <2>2. i \in nth /\ \A j \in nth : ~ (j < i)
    BY <1>1, <2>1 DEF Stops
  <2>3. Min(nth) \in nth /\ Min(nth) <= i
    BY <1>3, <2>2, LeastNat
  <2>4. Min(nth) = i
    <3>1. Min(nth) \in Nat /\ i \in Nat /\ ~ (Min(nth) < i)
      BY <1>3, <2>2, <2>3
    <3> QED BY <2>3, <3>1
  <2> QED BY <1>2, <2>1, <2>2, <2>4
<1> QED BY <1>4, <1>5

\* heap_get_start_block as a loop returns the block of its closed form, in any
\* table and for any number of blocks.
LEMMA ScanAgrees ==
  ASSUME NEW tbl, NEW n \in Nat
  PROVE  ScanLoop(tbl, n) = heap_get_start_block(tbl, n)
<1>0. Total \in Nat
  BY HeapAssumption
<1>1. PICK a : a = [start |-> -1, free |-> 0, done |-> FALSE]
  OBVIOUS
<1>2. a \in ScanAcc
  BY <1>1 DEF ScanAcc
<1>3. ASSUME NEW acc \in ScanAcc, NEW i \in Int PROVE ScanStep(tbl, n, acc, i) \in ScanAcc
  BY <1>3 DEF ScanStep, ScanAcc
<1>4. PICK after \in [0 .. Total -> ScanAcc] :
        after = [k \in 0 .. Total |->
                   IF k = 0 THEN [start |-> -1, free |-> 0, done |-> FALSE]
                   ELSE ScanStep(tbl, n, after[k - 1], k - 1)]
  <2>1. PICK step : step = [k \in 1 .. Total |-> [acc \in ScanAcc |-> ScanStep(tbl, n, acc, k - 1)]]
    OBVIOUS
  <2>2. \A k \in 1 .. Total : \A acc \in ScanAcc : step[k][acc] = ScanStep(tbl, n, acc, k - 1)
    BY <2>1
  <2>3. StaysIn(step, Total, ScanAcc)
    <3>1. \A k \in 1 .. Total : k - 1 \in Int
      BY <1>0
    <3> QED BY <2>2, <3>1, <1>3 DEF StaysIn
  <2>4. PICK g \in [0 .. Total -> ScanAcc] : Loops(g, step, Total, a)
    BY <1>0, <1>2, <2>3, LoopExists
  <2>5. ASSUME NEW k \in 0 .. Total
        PROVE  g[k] = IF k = 0 THEN a ELSE ScanStep(tbl, n, g[k - 1], k - 1)
    <3>1. k # 0 => k \in 1 .. Total /\ k - 1 \in 0 .. Total
      BY <1>0
    <3> QED BY <3>1, <2>2, <2>4 DEF Loops
  <2>6. g = [k \in 0 .. Total |-> g[k]]
    BY <2>4
  <2>7. g = [k \in 0 .. Total |-> IF k = 0 THEN a ELSE ScanStep(tbl, n, g[k - 1], k - 1)]
    BY <2>5, <2>6
  <2> QED BY <1>1, <2>7
<1>5. PICK f : /\ f = [k \in 0 .. Total |->
                         IF k = 0 THEN [start |-> -1, free |-> 0, done |-> FALSE]
                         ELSE ScanStep(tbl, n, f[k - 1], k - 1)]
               /\ ScanLoop(tbl, n) = IF f[Total].start = -1 THEN -ENOMEM ELSE f[Total].start
  BY <1>4 DEF ScanLoop
<1>6. f[0] = a /\ \A k \in 1 .. Total : f[k] = ScanStep(tbl, n, f[k - 1], k - 1)
  <2>1. (\A k \in 1 .. Total : k \in 0 .. Total /\ k # 0) /\ 0 \in 0 .. Total
    BY <1>0
  <2> QED BY <1>1, <1>5, <2>1
<1> DEFINE G == {k \in 0 .. Total : f[k] \in ScanAcc /\ ScanInv(tbl, n, f[k], k)}
<1>7. 0 \in G
  <2>1. \A j \in FreeBlocks(tbl) : ~ (j < 0) /\ ~ (j <= 0 - 1)
    BY HeapAssumption DEF FreeBlocks, Blocks
  <2>2. FreeUpTo(tbl, 0 - 1) = 0
    <3>1. {j \in FreeBlocks(tbl) : j <= 0 - 1} = {}
      BY <2>1
    <3> QED BY <3>1, FS_EmptySet DEF FreeUpTo
  <2>3. RunStart(tbl, 0 - 1) = -1
    <3>1. \A s : s \notin 0 .. 0 - 1
      OBVIOUS
    <3>2. RunTo(tbl, 0 - 1) = {}
      BY <3>1 DEF RunTo
    <3> QED BY <3>2 DEF RunStart
  <2>4. ScanInv(tbl, n, f[0], 0)
    BY <1>1, <1>6, <2>1, <2>2, <2>3 DEF ScanInv
  <2> QED BY <1>0, <1>2, <1>6, <2>4
<1>8. ASSUME NEW k \in 0 .. Total, k \in G, k < Total PROVE k + 1 \in G
  <2>1. k + 1 \in 1 .. Total /\ k + 1 \in 0 .. Total /\ (k + 1) - 1 = k /\ k \in Blocks /\ k \in Int
    BY <1>0, <1>8 DEF Blocks
  <2>2. f[k + 1] = ScanStep(tbl, n, f[k], k)
    BY <1>6, <2>1
  <2>3. f[k + 1] \in ScanAcc
    BY <1>3, <1>8, <2>1, <2>2
  <2>4. ScanInv(tbl, n, f[k + 1], k + 1)
    BY <1>8, <2>1, <2>2, ScanKeeps
  <2> QED BY <2>1, <2>3, <2>4
<1>9. 0 .. Total \subseteq G
  <2> HIDE DEF G
  <2> QED BY <1>0, <1>7, <1>8, SetInduction
<1>10. f[Total] \in ScanAcc /\ ScanInv(tbl, n, f[Total], Total)
  <2>1. Total \in G
    BY <1>0, <1>9
  <2> QED BY <2>1
<1>11. PICK run : run = RunTo(tbl, StopBlock(tbl, n))
  OBVIOUS
<1>12. f[Total].start = IF run = {} THEN -1 ELSE Min(run)
  BY <1>10, <1>11, ScanEnds DEF RunStart
<1>13. run # {} => Min(run) # -1
  <2>1. run \subseteq Nat
    BY <1>11 DEF RunTo
  <2>2. run # {} => Min(run) \in Nat
    BY <2>1, LeastNat
  <2> QED BY <2>2
<1> QED BY <1>5, <1>11, <1>12, <1>13 DEF heap_get_start_block

\* The closed forms are the loops of heap.c.
LEMMA TypeAgrees == TypeOK => LoopsAgree
<1> SUFFICES ASSUME TypeOK PROVE LoopsAgree
  OBVIOUS
<1>1. entries \in [Blocks -> SUBSET Flags] /\ \A n \in 0 .. Total + 1 : n \in Nat
  BY HeapAssumption DEF TypeOK
<1> QED BY <1>1, ScanAgrees, MarkAgrees, FreeAgrees DEF LoopsAgree

\* In every table the kernel can reach the loops of heap.c compute what the
\* closed forms say, so that what is proved here of those is true of the loops
\* (memory/heap/heap.c:65, :107, :119).
THEOREM LoopsMatch == Spec => []LoopsAgree
BY TypeCorrect, TypeAgrees, PTL
=============================================================================
