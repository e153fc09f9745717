------------------------------ MODULE HeapSpec ------------------------------
(***************************************************************************)
(* What a caller of kmalloc and kfree may rely on: an allocation is a run of *)
(* blocks that nobody else holds until it is freed, and the kernel panics    *)
(* only when no such run is left.  No table, no flags, no search order.      *)
(***************************************************************************)
EXTENDS Integers

CONSTANTS
  Blocks,     \* the blocks of the heap, an interval of integers
  Runs        \* the numbers of blocks that callers ask for

VARIABLES
  held,       \* the runs that are held: [first, blocks]
  exhausted,  \* the kernel gave up
  served      \* flips with every request that is served

specVars == <<held, exhausted, served>>

BlocksOf(r)  == r.first .. r.first + r.blocks - 1
Unheld       == {b \in Blocks : \A r \in held : b \notin BlocksOf(r)}
RunsOf(n)    == {r \in [first : Blocks, blocks : {n}] :
                   n > 0 /\ BlocksOf(r) \subseteq Unheld}

Init == held = {} /\ exhausted = FALSE /\ served = FALSE

Allocate ==
  /\ ~exhausted
  /\ \E n \in Runs : \E r \in RunsOf(n) : held' = held \cup {r}
  /\ served' = ~served
  /\ UNCHANGED exhausted

GiveUp ==
  /\ ~exhausted
  /\ \E n \in Runs : RunsOf(n) = {}
  /\ exhausted' = TRUE
  /\ UNCHANGED <<held, served>>

Release ==
  /\ ~exhausted
  /\ \E r \in held : held' = held \ {r}
  /\ UNCHANGED <<exhausted, served>>

Next == Allocate \/ GiveUp \/ Release

Spec == Init /\ [][Next]_specVars
=============================================================================
