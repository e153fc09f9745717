--------------------------- MODULE HeapRefinement ---------------------------
(***************************************************************************)
(* The heap, for requests of at most one block, implements HeapSpec: the     *)
(* pointers that callers hold are the abstract runs.                         *)
(***************************************************************************)
EXTENDS Heap

HeldRuns == {[first |-> Start(a), blocks |-> a.blocks] : a \in live}

Abstract == INSTANCE HeapSpec WITH
              Blocks    <- Blocks,
              Runs      <- {TotalBlocks(size) : size \in Sizes},
              held      <- HeldRuns,
              exhausted <- halted,
              served    <- served

\* Every behaviour of the table and its search is a behaviour of HeapSpec.
ImplementsHeapSpec == Abstract!Spec
=============================================================================
