----------------------------- MODULE HeapLoops ------------------------------
(***************************************************************************)
(* The three loops of heap.c, iteration by iteration, and the agreement of   *)
(* each with the closed form that Heap uses.  after[k] is what the loop's    *)
(* variables are after k iterations.                                         *)
(***************************************************************************)
EXTENDS Heap

\* Faulty variant: a taken block also resets the count of free blocks.
ScanResets(tbl, n, acc, i) ==
  IF acc.done THEN acc
  ELSE IF "TAKEN" \in tbl[i] THEN [start |-> -1, free |-> 0, done |-> FALSE]
  ELSE [start |-> IF acc.start = -1 THEN i ELSE acc.start,
        free  |-> acc.free + 1,
        done  |-> acc.free + 1 = n]

\* One iteration of the scan of heap_get_start_block; done stands for break.
ScanStep(tbl, n, acc, i) ==
  IF acc.done THEN acc
  ELSE IF "TAKEN" \in tbl[i] THEN [acc EXCEPT !.start = -1]
  ELSE [start |-> IF acc.start = -1 THEN i ELSE acc.start,
        free  |-> acc.free + 1,
        done  |-> acc.free + 1 = n]

ScanLoop(tbl, n) ==
  LET after[k \in 0 .. Total] ==
        IF k = 0 THEN [start |-> -1, free |-> 0, done |-> FALSE]
        ELSE ScanStep(tbl, n, after[k - 1], k - 1)
      start == after[Total].start
  IN  IF start = -1 THEN -ENOMEM ELSE start

\* One iteration of heap_mark_blocks_taken; a write past the table is dropped.
MarkStep(end, acc, i) ==
  [tbl   |-> IF i \in Blocks THEN [acc.tbl EXCEPT ![i] = acc.entry]
             ELSE acc.tbl,
   entry |-> {"TAKEN"} \cup (IF i # end - 1 THEN {"HAS_NEXT"} ELSE {})]

MarkLoop(tbl, s, n) ==
  LET end == (s + n) - 1
      entry == {"TAKEN", "IS_FIRST"} \cup (IF n > 1 THEN {"HAS_NEXT"} ELSE {})
      after[k \in 0 .. n] ==
        IF k = 0 THEN [tbl |-> tbl, entry |-> entry]
        ELSE MarkStep(end, after[k - 1], s + k - 1)
  IN  after[n].tbl

\* One iteration of heap_mark_blocks_free.
FreeStep(acc, i) ==
  IF acc.done THEN acc
  ELSE [tbl  |-> [acc.tbl EXCEPT ![i] = FREE],
        done |-> "HAS_NEXT" \notin acc.tbl[i]]

FreeLoop(tbl, b) ==
  LET after[k \in 0 .. Total - b] ==
        IF k = 0 THEN [tbl |-> tbl, done |-> FALSE]
        ELSE FreeStep(after[k - 1], b + k - 1)
  IN  after[Total - b].tbl

\* In every table the kernel can reach, for every request, the loops of heap.c
\* compute what the closed forms of Heap say: the block the search returns,
\* the flags it leaves and the blocks a free releases.
LoopsAgree ==
  /\ \A n \in 0 .. Total + 1 :
       /\ ScanLoop(entries, n) = heap_get_start_block(entries, n)
       /\ \A b \in Blocks : MarkLoop(entries, b, n)
                            = heap_mark_blocks_taken(entries, b, n)
  /\ \A b \in Blocks : FreeLoop(entries, b) = heap_mark_blocks_free(entries, b)
=============================================================================
