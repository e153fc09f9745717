---------------------------- MODULE ProcessProofs ----------------------------
(***************************************************************************)
(* Theorems about processes and the memory they own, for every size of the  *)
(* heap, of the process table and of the allocation table of a process.     *)
(***************************************************************************)
EXTENDS Process, Lemmas

-----------------------------------------------------------------------------
(* The inductive invariant                                                 *)

\* What the kernel allocated for process p itself, beside its allocations.
Fixed(p) ==
  {p, object[p].elf_file, object[p].elf_memory, object[p].stack}
    \cup (IF p \in tasks THEN {object[p].task} ELSE {})

\* Every allocation of p has an address of its own.  Accounted counts them; a
\* step needs to know which differ.
Distinct(p) ==
  /\ NULL \notin Fixed(p)
  /\ Cardinality(Fixed(p)) = IF p \in tasks THEN 5 ELSE 4
  /\ Fixed(p) \cap Allocations(p) = {}
  /\ \A i, j \in Index :
       object[p].allocations[i] = object[p].allocations[j]
         => i = j \/ object[p].allocations[i] = NULL

\* The heap is shared out among the processes and what loads have lost.
SharedOut ==
  /\ heap = lost \cup UNION {Owned(p) : p \in Table}
  /\ \A p \in Table :
       /\ Owned(p) \cap lost = {}
       /\ \A q \in Table \ {p} : Owned(p) \cap Owned(q) = {}

\* kernel_main loads into the first slot first, and nothing has ended before
\* the first task runs.
Booting ==
  phase = "boot" =>
    /\ tasks = Table
    /\ \A i \in Slot \ {0} : processes[i] = NULL

ProcessInv ==
  /\ TypeOK
  /\ SharedOut
  /\ \A p \in Table : Distinct(p)
  /\ TableLinked
  /\ Booting

-----------------------------------------------------------------------------
(* Memory                                                                  *)

\* kzalloc gives out addresses that nobody holds, and no two of them alike.
Fresh(a, n) ==
  /\ a \in [1 .. n -> Addr \ heap]
  /\ \A i, j \in 1 .. n : a[i] = a[j] => i = j

\* n allocations on a heap that has room are n different addresses that were
\* free.
LEMMA FreshAddresses ==
  ASSUME NEW n \in Nat, Enough(n)
  PROVE  Fresh(kzalloc(n), n)
<1> DEFINE S == Addr \ heap
           Rank(a) == Cardinality({b \in S : b <= a})
<1>1. Memory \in Nat /\ S \subseteq 0 .. Memory
  BY ProcessAssumption DEF Addr
<1>2. ASSUME NEW k \in 1 .. n PROVE kzalloc(n)[k] \in S /\ Rank(kzalloc(n)[k]) = k
  <2>1. k \in Nat \ {0} /\ k <= Cardinality(S)
    <3>1. n <= Cardinality(S)
      BY DEF Enough
    <3>2. IsFiniteSet(S)
      <4>1. IsFiniteSet(0 .. Memory)
        BY <1>1, FS_Interval
      <4> QED BY <4>1, <1>1, FS_Subset
    <3>3. Cardinality(S) \in Nat
      BY <3>2, FS_CardinalityType
    <3> QED BY <3>1, <3>3
  <2>2. \E a \in S : Rank(a) = k
    BY <1>1, <2>1, KthElement
  <2>3. kzalloc(n)[k] = CHOOSE a \in S : Rank(a) = k
    BY DEF kzalloc
  <2> HIDE DEF Rank, S
  <2> QED BY <2>2, <2>3
<1>3. kzalloc(n) = [k \in 1 .. n |-> kzalloc(n)[k]]
  BY DEF kzalloc
<1> HIDE DEF Rank
<1> QED BY <1>2, <1>3 DEF Fresh

-----------------------------------------------------------------------------
(* One process at a time                                                   *)

\* A step that changes what process p holds, from old to new: what is new was
\* free, or was p's before, and what is lost besides was free.  It keeps the
\* heap shared out.
Changes(p, old, new, left) ==
  /\ Table' \ {p} = Table \ {p}
  /\ \A q \in Table \ {p} : Owned(q)' = Owned(q)
  /\ old = IF p \in Table THEN Owned(p) ELSE {}
  /\ new = IF p \in Table' THEN Owned(p)' ELSE {}
  /\ new \cap left = {} /\ left \cap heap = {} /\ new \cap (heap \ old) = {}
  /\ lost' = lost \cup left
  /\ heap' = (heap \ old) \cup new \cup left

\* If one process changes what it holds and shares none of it, nothing is
\* shared.
LEMMA OneChanges ==
  ASSUME SharedOut, NEW p, NEW old, NEW new, NEW left, Changes(p, old, new, left)
  PROVE  SharedOut'
<1> USE DEF Changes
<1> DEFINE Others == UNION {Owned(q) : q \in Table \ {p}}
<1>1. /\ heap = lost \cup old \cup Others
      /\ old \cap lost = {} /\ old \cap Others = {}
      /\ Others \cap lost = {}
  BY DEF SharedOut
<1>2. UNION {Owned(q)' : q \in Table'} = new \cup Others
  OBVIOUS
<1>3. heap' = lost' \cup UNION {Owned(q)' : q \in Table'}
  <2> HIDE DEF Others
  <2> QED BY <1>1, <1>2
<1>4. ASSUME NEW q \in Table'
      PROVE  /\ Owned(q)' \cap lost' = {}
             /\ \A r \in Table' \ {q} : Owned(q)' \cap Owned(r)' = {}
  <2>1. CASE q = p
    <3>1. Owned(q)' = new
      BY <2>1
    <3>2. new \cap lost' = {} /\ new \cap Others = {}
      <4> HIDE DEF Others
      <4> QED BY <1>1
    <3>3. ASSUME NEW r \in Table' \ {q} PROVE Owned(r)' \subseteq Others
      BY <2>1
    <3> HIDE DEF Others
    <3> QED BY <3>1, <3>2, <3>3
  <2>2. CASE q # p
    <3>1. q \in Table \ {p} /\ Owned(q)' = Owned(q) /\ Owned(q) \subseteq Others
      BY <2>2
    <3>2. Owned(q)' \cap lost' = {} /\ Owned(q)' \cap new = {}
      <4> HIDE DEF Others
      <4> QED BY <1>1, <3>1
    <3>3. ASSUME NEW r \in Table' \ {q} PROVE Owned(q)' \cap Owned(r)' = {}
      <4>1. CASE r = p
        BY <4>1, <3>2
      <4>2. CASE r # p
        <5>1. r \in Table \ {q}
          BY <4>2
        <5> QED BY <5>1, <4>2, <3>1 DEF SharedOut
      <4> QED BY <4>1, <4>2
    <3> QED BY <3>2, <3>3
  <2> QED BY <2>1, <2>2
<1> QED BY <1>3, <1>4 DEF SharedOut

\* What a process holds depends on its struct and on whether it has a task.
LEMMA SameStruct ==
  ASSUME NEW q, object'[q] = object[q], q \in tasks' <=> q \in tasks
  PROVE  Owned(q)' = Owned(q) /\ (Distinct(q) => Distinct(q)')
BY DEF Owned, Allocations, Distinct, Fixed

\* Every process of the table has a slot, and its own address is allocated.
LEMMA TableAllocated ==
  ASSUME ProcessInv, NEW p \in Table
  PROVE  /\ p \in Addr /\ p \in heap
         /\ object[p].id \in Slot /\ processes[object[p].id] = p
         /\ Owned(p) \subseteq heap
<1>1. PICK i \in Slot : processes[i] = p /\ p # NULL
  BY DEF Table
<1>2. object[p].id = i
  BY <1>1 DEF ProcessInv, TableLinked
<1>3. p \in Addr
  BY <1>1 DEF ProcessInv, TypeOK, Pointer
<1>4. p \in Owned(p) /\ Owned(p) \subseteq heap
  BY DEF ProcessInv, SharedOut, Owned
<1> QED BY <1>1, <1>2, <1>3, <1>4

-----------------------------------------------------------------------------
(* Loading                                                                 *)

\* The free slot exists and is free.
LEMMA FreeSlot ==
  ASSUME NEW j \in Slot, processes[j] = NULL
  PROVE  process_get_free_slot \in Slot /\ processes[process_get_free_slot] = NULL
<1> DEFINE free == {i \in Slot : processes[i] = NULL}
<1>1. free \subseteq Nat /\ free # {}
  BY ProcessAssumption DEF Slot
<1>2. Min(free) \in free
  <2> HIDE DEF free
  <2> QED BY <1>1, LeastNat
<1> QED BY <1>2 DEF process_get_free_slot

\* What a load needs to know of the struct process q that it builds from the
\* addresses a: the process of slot i, its allocations are among the addresses
\* behind the first six.
Built(q, a, i) ==
  /\ q.id = i /\ q.elf_file = a[2] /\ q.elf_memory = a[4]
  /\ q.stack = a[5] /\ q.task = a[6]
  /\ \A k \in Index : q.allocations[k] # NULL =>
       6 + k \in DOMAIN a /\ q.allocations[k] = a[6 + k]

\* The addresses a process is built on are four, and five with its task.
Parts(a) == {a[1], a[2], a[4], a[5]}

\* The parts of a load are different allocations.
LEMMA PartsCounted ==
  ASSUME NEW n \in Nat, n >= 6, NEW a, Fresh(a, n)
  PROVE  /\ a[6] \notin Parts(a) /\ Cardinality(Parts(a)) = 4
         /\ Cardinality(Parts(a) \cup {a[6]}) = 5
<1>1. {1, 2, 3, 4, 5, 6} \subseteq 1 .. n
  OBVIOUS
<1>2. /\ a[2] \notin {a[1]} /\ a[4] \notin {a[1], a[2]} /\ a[5] \notin {a[1], a[2], a[4]}
      /\ a[6] \notin Parts(a)
  BY <1>1 DEF Fresh, Parts
<1>3. IsFiniteSet({a[1]}) /\ Cardinality({a[1]}) = 1
  BY FS_Singleton
<1>4. IsFiniteSet({a[1], a[2]}) /\ Cardinality({a[1], a[2]}) = 2
  <2>1. {a[1], a[2]} = {a[1]} \cup {a[2]}
    OBVIOUS
  <2> QED BY <1>2, <1>3, <2>1, OneMore
<1>5. IsFiniteSet({a[1], a[2], a[4]}) /\ Cardinality({a[1], a[2], a[4]}) = 3
  <2>1. {a[1], a[2], a[4]} = {a[1], a[2]} \cup {a[4]}
    OBVIOUS
  <2> QED BY <1>2, <1>4, <2>1, OneMore
<1>6. IsFiniteSet(Parts(a)) /\ Cardinality(Parts(a)) = 4
  <2>1. Parts(a) = {a[1], a[2], a[4]} \cup {a[5]}
    BY DEF Parts
  <2> QED BY <1>2, <1>5, <2>1, OneMore
<1> QED BY <1>2, <1>6, OneMore

\* A process built on fresh addresses joins the table, with a task or without.
Joins(n, a, i, p, q) ==
  /\ n \in Nat /\ n >= 6 /\ Fresh(a, n)
  /\ i \in Slot /\ processes[i] = NULL
  /\ p = a[1] /\ Built(q, a, i)
  /\ object' = [object EXCEPT ![p] = q]
  /\ processes' = [processes EXCEPT ![i] = p]
  /\ tasks' = tasks \/ tasks' = tasks \cup {p}

\* A process that joins the table owns what its load allocated, and leaves the
\* others as they are.
LEMMA JoinsTable ==
  ASSUME ProcessInv, NEW n, NEW a, NEW i, NEW p, NEW q, Joins(n, a, i, p, q)
  PROVE  /\ p \notin Table /\ p \in Addr \ heap /\ Table' = Table \cup {p}
         /\ \A r \in Table : Owned(r)' = Owned(r)
         /\ \A r \in Table' : Distinct(r)'
         /\ \A j \in Slot : processes'[j] # NULL => object'[processes'[j]].id = j
         /\ Owned(p)' = Fixed(p)' \cup Allocations(p)'
         /\ Fixed(p)' = {a[1], a[2], a[4], a[5]}
                          \cup IF p \in tasks' THEN {a[6]} ELSE {}
         /\ Allocations(p)' = {q.allocations[k] : k \in Index} \ {NULL}
<1> USE DEF Joins
<1>0. Fresh(a, n)
  OBVIOUS
<1>1. a \in [1 .. n -> Addr \ heap] /\ \A j, k \in 1 .. n : a[j] = a[k] => j = k
  BY <1>0 DEF Fresh
<1>2. {1, 2, 3, 4, 5, 6} \subseteq 1 .. n
  OBVIOUS
<1>3. p \in Addr \ heap /\ NULL \notin Addr
  BY <1>1, <1>2, ProcessAssumption DEF Addr, NULL
<1>4. p \notin Table /\ p \notin tasks
  BY <1>3, TableAllocated DEF ProcessInv, TableLinked
<1>5. Table' = Table \cup {p}
  BY <1>3 DEF Table, ProcessInv, TypeOK
<1>6. object'[p] = q /\ \A r \in Table : object'[r] = object[r]
  BY <1>3, <1>4, TableAllocated DEF ProcessInv, TypeOK
<1>7. ASSUME NEW r \in Table
      PROVE  Owned(r)' = Owned(r) /\ Distinct(r)'
  <2>1. r \in tasks' <=> r \in tasks
    BY <1>4
  <2> QED BY <1>6, <2>1, SameStruct DEF ProcessInv
<1>8. /\ Fixed(p)' = {a[1], a[2], a[4], a[5]} \cup IF p \in tasks' THEN {a[6]} ELSE {}
      /\ Allocations(p)' = {q.allocations[k] : k \in Index} \ {NULL}
      /\ Owned(p)' = Fixed(p)' \cup Allocations(p)'
  BY <1>6 DEF Fixed, Allocations, Owned, Built
<1>9. Distinct(p)'
  <2>1. NULL \notin Fixed(p)'
    BY <1>1, <1>2, <1>3, <1>8
  <2>2. Cardinality(Fixed(p)') = IF p \in tasks' THEN 5 ELSE 4
    <3>1. Cardinality(Parts(a)) = 4 /\ Cardinality(Parts(a) \cup {a[6]}) = 5
      BY <1>0, PartsCounted
    <3>2. CASE p \in tasks'
      BY <3>1, <3>2, <1>8 DEF Parts
    <3>3. CASE p \notin tasks'
      <4>1. Fixed(p)' = Parts(a)
        BY <3>3, <1>8 DEF Parts
      <4> QED BY <4>1, <3>1, <3>3
    <3> QED BY <3>2, <3>3
  <2>3. ASSUME NEW k \in Index, q.allocations[k] # NULL
        PROVE  6 + k \in 1 .. n /\ 6 + k > 6 /\ q.allocations[k] = a[6 + k]
    BY <2>3, <1>1, ProcessAssumption DEF Built, Index
  <2>4. Fixed(p)' \cap Allocations(p)' = {}
    <3> SUFFICES ASSUME NEW k \in Index, q.allocations[k] # NULL
                 PROVE  q.allocations[k] \notin Fixed(p)'
      BY <1>8
    <3> QED BY <2>3, <1>1, <1>2, <1>8, ProcessAssumption DEF Index
  <2>5. \A j, k \in Index : q.allocations[j] = q.allocations[k]
                              => j = k \/ q.allocations[j] = NULL
    BY <2>3, <1>1, ProcessAssumption DEF Index
  <2> QED BY <2>1, <2>2, <2>4, <2>5, <1>6 DEF Distinct
<1>10. ASSUME NEW j \in Slot, processes'[j] # NULL PROVE object'[processes'[j]].id = j
  <2>1. CASE j = i
    BY <2>1, <1>6 DEF ProcessInv, TypeOK, Built
  <2>2. CASE j # i
    <3>1. processes'[j] = processes[j] /\ processes[j] \in Table
      BY <2>2, <1>10 DEF ProcessInv, TypeOK, Table
    <3> QED BY <3>1, <1>6 DEF ProcessInv, TableLinked, Table
  <2> QED BY <2>1, <2>2
<1> QED BY <1>3, <1>4, <1>5, <1>7, <1>8, <1>9, <1>10

Struct ==
  [id : Slot, task : Pointer, allocations : [Index -> Pointer],
   filetype : {"ELF", "BINARY"}, elf_file : Pointer, elf_memory : Pointer,
   stack : Pointer, argc : Nat, argv : Pointer]

\* The struct process that a load builds has its type, with arguments or
\* without.
LEMMA BuiltType ==
  ASSUME NEW n \in Nat, NEW m \in Nat, m = 6 + (IF n = 0 THEN 0 ELSE n + 1),
         n < MaxAllocations, NEW a, Fresh(a, m), NEW i \in Slot
  PROVE  LET q == process_inject_arguments(process_load_for_slot(a, i), a, n)
         IN  /\ q \in Struct /\ Built(q, a, i)
             /\ {q.allocations[k] : k \in Index} \ {NULL}
                  = IF n = 0 THEN {} ELSE {a[k] : k \in 7 .. m}
<1> DEFINE q == process_inject_arguments(process_load_for_slot(a, i), a, n)
<1>1. a \in [1 .. m -> Addr \ heap] /\ {1, 2, 3, 4, 5, 6} \subseteq 1 .. m
  BY DEF Fresh
<1>2. Addr \subseteq Pointer /\ NULL \in Pointer /\ NULL \notin Addr /\ Index \subseteq Nat \ {0}
  BY ProcessAssumption DEF Addr, Pointer, NULL, Index
<1>3. CASE n = 0
  <2>1. q = [id |-> i, task |-> a[6], allocations |-> [k \in Index |-> NULL],
             filetype |-> "ELF", elf_file |-> a[2], elf_memory |-> a[4],
             stack |-> a[5], argc |-> 0, argv |-> NULL]
    BY <1>3 DEF process_inject_arguments, process_load_for_slot, Zeroed
  <2>2. q \in Struct
    BY <2>1, <1>1, <1>2 DEF Struct
  <2>3. \A k \in Index : q.allocations[k] = NULL
    BY <2>1
  <2>4. Built(q, a, i)
    BY <2>1, <2>3 DEF Built
  <2>5. {q.allocations[k] : k \in Index} \ {NULL} = {}
    BY <2>3
  <2> QED BY <2>2, <2>4, <2>5, <1>3
<1>4. CASE n # 0
  <2> DEFINE args == [k \in Index |-> IF k <= n + 1 THEN a[6 + k] ELSE NULL]
  <2>1. q = [id |-> i, task |-> a[6], allocations |-> args,
             filetype |-> "ELF", elf_file |-> a[2], elf_memory |-> a[4],
             stack |-> a[5], argc |-> n, argv |-> a[7]]
    BY <1>4 DEF process_inject_arguments, process_load_for_slot, Zeroed
  <2>2. ASSUME NEW k \in Index, k <= n + 1
        PROVE  6 + k \in 7 .. m /\ 6 + k \in 1 .. m /\ a[6 + k] \in Addr /\ args[k] = a[6 + k]
    BY <2>2, <1>1, <1>2, <1>4
  <2>3. args \in [Index -> Pointer]
    BY <2>2, <1>2
  <2>4. 7 \in 1 .. m /\ a[7] \in Addr
    BY <1>1, <1>4
  <2>5. q.allocations = args
    BY <2>1
  <2> HIDE DEF args
  <2>6. q \in Struct
    BY <2>1, <2>3, <2>4, <1>1, <1>2 DEF Struct
  <2>7. \A k \in Index : args[k] # NULL => 6 + k \in 1 .. m /\ args[k] = a[6 + k]
    BY <2>2 DEF args
  <2>8. Built(q, a, i)
    BY <2>1, <2>5, <2>7, <1>1 DEF Built
  <2>9. {args[k] : k \in Index} \ {NULL} = {a[k] : k \in 7 .. m}
    <3>1. ASSUME NEW k \in 7 .. m PROVE \E j \in Index : args[j] = a[k] /\ a[k] # NULL
      <4>1. k - 6 \in Index /\ k - 6 <= n + 1 /\ 6 + (k - 6) = k
        BY <1>4, ProcessAssumption DEF Index
      <4> QED BY <4>1, <2>2, <1>2
    <3>2. ASSUME NEW j \in Index, args[j] # NULL PROVE args[j] \in {a[k] : k \in 7 .. m}
      BY <3>2, <2>2 DEF args
    <3> QED BY <3>1, <3>2
  <2> QED BY <2>5, <2>6, <2>8, <2>9, <1>4
<1> QED BY <1>3, <1>4

-----------------------------------------------------------------------------
(* The steps                                                               *)

\* The part of the invariant that is about memory and the table ...
Ledger ==
  /\ heap \subseteq Addr /\ lost \subseteq Addr
  /\ object \in [Addr -> Struct] /\ processes \in [Slot -> Pointer]
  /\ tasks \subseteq Table
  /\ SharedOut
  /\ \A p \in Table : Distinct(p)
  /\ \A i \in Slot : processes[i] # NULL => object[processes[i]].id = i

\* ... and the part about who runs and who has the focus.
Control ==
  /\ focus \in Pointer /\ runner \in Pointer
  /\ phase \in {"boot", "user", "halted"} /\ loads \in 0 .. MaxLoads
  /\ Table # {} => focus \in Table
  /\ phase = "user" => runner \in tasks \cup {NULL}
  /\ Booting

\* The invariant is about memory (Ledger) and about the table (Control).
LEMMA TwoParts == ProcessInv <=> Ledger /\ Control
<1>1. processes \in [Slot -> Pointer] => Table \subseteq Addr
  BY DEF Table, Pointer
<1> QED
  BY <1>1 DEF ProcessInv, Ledger, Control, TypeOK, TableLinked, Struct

\* Both parts hold at the start.
LEMMA LedgerInit == Init => Ledger /\ Control
<1> SUFFICES ASSUME Init PROVE Ledger /\ Control
  OBVIOUS
<1>1. Table = {}
  BY DEF Init, Table
<1>2. Zeroed \in Struct
  BY ProcessAssumption DEF Zeroed, Struct, Slot, Pointer
<1>3. SharedOut
  BY <1>1 DEF SharedOut, Init
<1> QED
  BY <1>1, <1>2, <1>3, ProcessAssumption
  DEF Ledger, Control, Init, Pointer, Booting, Slot

\* What every step leaves alone: the processes other than p.
OthersKept(p) ==
  \A q \in Table \ {p} : q \in Table' /\ object'[q] = object[q] /\ Owned(q) \subseteq heap'

\* What a load needs is there when it does not panic.
LEMMA LoadFits ==
  ASSUME NEW n \in Nat, NEW file \in {"elf", "raw"}, ~ LoadPanics(file, n)
  PROVE  /\ Enough(Kept(file, n)) /\ n < MaxAllocations
         /\ Kept(file, n) \in Nat /\ Kept(file, n) >= 6
         /\ Kept(file, n) = 6 + (IF n = 0 THEN 0 ELSE n + 1)
BY ProcessAssumption DEF LoadPanics, Needed, Kept

\* A load that succeeds.
LEMMA LoadsStep ==
  ASSUME ProcessInv, NEW n \in Nat, NEW file, ~ LoadPanics(file, n),
         NEW j \in Slot, processes[j] = NULL, Loads(file, n)
  PROVE  /\ Ledger' /\ OthersKept(NULL)
         /\ focus' \in Table' /\ tasks' = tasks \cup {focus'} /\ Table' = Table \cup {focus'}
         /\ processes' = [processes EXCEPT ![process_get_free_slot] = focus']
<1>1. file \in {"elf", "raw"}
  BY DEF Loads
<1>2. PICK m : m = Kept(file, n)
  OBVIOUS
<1>3. /\ Enough(m) /\ n < MaxAllocations /\ m \in Nat /\ m >= 6
      /\ m = 6 + (IF n = 0 THEN 0 ELSE n + 1)
  BY <1>1, <1>2, LoadFits
<1>4. PICK a : a = kzalloc(m)
  OBVIOUS
<1>5. Fresh(a, m)
  BY <1>3, <1>4, FreshAddresses
<1>6. PICK i : i = process_get_free_slot
  OBVIOUS
<1>7. i \in Slot /\ processes[i] = NULL
  BY <1>6, FreeSlot
<1>8. PICK q : q = process_inject_arguments(process_load_for_slot(a, i), a, n)
  OBVIOUS
<1>9. /\ q \in Struct /\ Built(q, a, i)
      /\ {q.allocations[k] : k \in Index} \ {NULL} = IF n = 0 THEN {} ELSE {a[k] : k \in 7 .. m}
  <2>1. LET r == process_inject_arguments(process_load_for_slot(a, i), a, n)
        IN  /\ r \in Struct /\ Built(r, a, i)
            /\ {r.allocations[k] : k \in Index} \ {NULL}
                 = IF n = 0 THEN {} ELSE {a[k] : k \in 7 .. m}
    BY <1>3, <1>5, <1>7, BuiltType
  <2> QED BY <2>1, <1>8
<1>10. PICK p : p = a[1]
  OBVIOUS
<1>11. /\ heap' = heap \cup Range(a) /\ object' = [object EXCEPT ![p] = q]
       /\ processes' = [processes EXCEPT ![i] = p]
       /\ focus' = p /\ tasks' = tasks \cup {p} /\ lost' = lost \cup {a[3]}
  BY <1>2, <1>4, <1>6, <1>8, <1>10 DEF Loads
<1>12. /\ p \notin Table /\ p \in Addr \ heap /\ Table' = Table \cup {p}
       /\ \A r \in Table : Owned(r)' = Owned(r)
       /\ \A r \in Table' : Distinct(r)'
       /\ \A k \in Slot : processes'[k] # NULL => object'[processes'[k]].id = k
       /\ Owned(p)' = Fixed(p)' \cup Allocations(p)'
       /\ Fixed(p)' = {a[1], a[2], a[4], a[5]} \cup IF p \in tasks' THEN {a[6]} ELSE {}
       /\ Allocations(p)' = {q.allocations[k] : k \in Index} \ {NULL}
  <2>1. Joins(m, a, i, p, q)
    BY <1>3, <1>5, <1>7, <1>9, <1>10, <1>11 DEF Joins
  <2> QED BY <2>1, JoinsTable
<1>13. /\ a \in [1 .. m -> Addr \ heap] /\ \A k, l \in 1 .. m : a[k] = a[l] => k = l
       /\ {1, 2, 3, 4, 5, 6} \subseteq 1 .. m
       /\ Range(a) = {a[k] : k \in 1 .. m}
  BY <1>3, <1>5 DEF Fresh, Range
<1>14. Owned(p)' \cup {a[3]} = Range(a) /\ a[3] \notin Owned(p)'
  <2>1. Fixed(p)' = {a[1], a[2], a[4], a[5], a[6]}
    BY <1>11, <1>12
  <2> DEFINE Others == {a[k] : k \in 7 .. m}
  <2>2. Owned(p)' = {a[1], a[2], a[4], a[5], a[6]} \cup Others
    <3>1. n = 0 => 7 .. m = {}
      BY <1>3
    <3>2. Allocations(p)' = Others
      BY <3>1, <1>9, <1>12
    <3> QED BY <2>1, <3>2, <1>12
  <2>3. Range(a) = {a[1], a[2], a[3], a[4], a[5], a[6]} \cup Others
    <3>1. \A k \in 1 .. m : k \in {1, 2, 3, 4, 5, 6} \/ k \in 7 .. m
      BY <1>3
    <3>2. 7 .. m \subseteq 1 .. m
      BY <1>3
    <3>3. ASSUME NEW x \in Range(a)
          PROVE  x \in {a[1], a[2], a[3], a[4], a[5], a[6]} \cup Others
      BY <3>1, <1>13
    <3>4. Others \subseteq Range(a)
      BY <3>2, <1>13
    <3> QED BY <3>3, <3>4, <1>13
  <2>4. a[3] \notin {a[1], a[2], a[4], a[5], a[6]}
    BY <1>13
  <2>5. a[3] \notin Others
    <3>1. \A k \in 7 .. m : k \in 1 .. m /\ k # 3
      BY <1>3
    <3> QED BY <3>1, <1>13
  <2> HIDE DEF Others
  <2> QED BY <2>2, <2>3, <2>4, <2>5
<1>15. Range(a) \subseteq Addr \ heap
  BY <1>13
<1>16. SharedOut'
  <2>1. PICK new : new = Owned(p)'
    OBVIOUS
  <2>2. heap' = (heap \ {}) \cup new \cup {a[3]} /\ new \cap {a[3]} = {}
        /\ {a[3]} \cap heap = {} /\ new \cap (heap \ {}) = {}
    BY <2>1, <1>11, <1>14, <1>15
  <2>3. Changes(p, {}, new, {a[3]})
    BY <2>1, <2>2, <1>11, <1>12 DEF Changes
  <2> QED BY <2>3, OneChanges DEF ProcessInv
<1>17. Ledger'
  <2>1. heap' \subseteq Addr /\ lost' \subseteq Addr
    BY <1>11, <1>13, <1>15 DEF ProcessInv, TypeOK
  <2>2. object' \in [Addr -> Struct] /\ processes' \in [Slot -> Pointer]
    BY <1>9, <1>11, <1>12, <1>7 DEF ProcessInv, TypeOK, Struct, Pointer
  <2>3. tasks' \subseteq Table'
    BY <1>11, <1>12 DEF ProcessInv, TableLinked
  <2> QED BY <2>1, <2>2, <2>3, <1>12, <1>16 DEF Ledger
<1>18. OthersKept(NULL)
  <2>1. \A r \in Table : r \in Table' /\ object'[r] = object[r] /\ Owned(r) \subseteq heap'
    BY <1>11, <1>12, TableAllocated
  <2> QED BY <2>1 DEF OthersKept
<1> QED BY <1>6, <1>11, <1>12, <1>17, <1>18

\* A load that fails once the process is in the table.
LEMMA MapFailsStep ==
  ASSUME ProcessInv, NEW file \in Files, ~ LoadPanics(file, 0),
         NEW j \in Slot, processes[j] = NULL, MapFails(file)
  PROVE  /\ Ledger' /\ OthersKept(NULL) /\ Table \subseteq Table'
<1>1. file \in {"elf", "raw"} /\ Kept(file, 0) = 6
  BY DEF MapFails, Kept
<1>2. Enough(6)
  BY <1>1, LoadFits
<1>4. PICK a : a = kzalloc(6)
  OBVIOUS
<1>5. Fresh(a, 6)
  BY <1>2, <1>4, FreshAddresses
<1>6. PICK i : i = process_get_free_slot
  OBVIOUS
<1>7. i \in Slot /\ processes[i] = NULL
  BY <1>6, FreeSlot
<1>8. PICK q : q = process_load_for_slot(a, i)
  OBVIOUS
<1>9. q \in Struct /\ Built(q, a, i) /\ {q.allocations[k] : k \in Index} \ {NULL} = {}
  <2>1. 0 < MaxAllocations /\ 6 = 6 + (IF 0 = 0 THEN 0 ELSE 0 + 1)
    BY ProcessAssumption
  <2>2. q = process_inject_arguments(process_load_for_slot(a, i), a, 0)
    BY <1>8 DEF process_inject_arguments
  <2> QED BY <2>1, <2>2, <1>5, <1>7, BuiltType
<1>10. PICK p : p = a[1]
  OBVIOUS
<1>11. /\ heap' = heap \cup {a[1], a[2], a[3], a[4], a[5]}
       /\ object' = [object EXCEPT ![p] = q]
       /\ processes' = [processes EXCEPT ![i] = p]
       /\ tasks' = tasks /\ lost' = lost \cup {a[3]}
  BY <1>4, <1>6, <1>8, <1>10 DEF MapFails
<1>12. /\ p \notin Table /\ p \in Addr \ heap /\ Table' = Table \cup {p}
       /\ \A r \in Table : Owned(r)' = Owned(r)
       /\ \A r \in Table' : Distinct(r)'
       /\ \A k \in Slot : processes'[k] # NULL => object'[processes'[k]].id = k
       /\ Owned(p)' = Fixed(p)' \cup Allocations(p)'
       /\ Fixed(p)' = {a[1], a[2], a[4], a[5]} \cup IF p \in tasks' THEN {a[6]} ELSE {}
       /\ Allocations(p)' = {q.allocations[k] : k \in Index} \ {NULL}
  <2>1. Joins(6, a, i, p, q)
    BY <1>5, <1>7, <1>9, <1>10, <1>11 DEF Joins
  <2> QED BY <2>1, JoinsTable
<1>13. /\ a \in [1 .. 6 -> Addr \ heap] /\ \A k, l \in 1 .. 6 : a[k] = a[l] => k = l
       /\ {1, 2, 3, 4, 5, 6} \subseteq 1 .. 6
  BY <1>5 DEF Fresh
<1>14. Owned(p)' = {a[1], a[2], a[4], a[5]} /\ a[3] \notin {a[1], a[2], a[4], a[5]}
       /\ {a[1], a[2], a[3], a[4], a[5]} \subseteq Addr \ heap
  <2>1. p \notin tasks'
    BY <1>11, <1>12 DEF ProcessInv, TableLinked
  <2> QED BY <2>1, <1>9, <1>12, <1>13
<1>16. SharedOut'
  <2>1. PICK new : new = Owned(p)'
    OBVIOUS
  <2>2. heap' = (heap \ {}) \cup new \cup {a[3]} /\ new \cap {a[3]} = {}
        /\ {a[3]} \cap heap = {} /\ new \cap (heap \ {}) = {}
    BY <2>1, <1>11, <1>14
  <2>3. Changes(p, {}, new, {a[3]})
    BY <2>1, <2>2, <1>11, <1>12 DEF Changes
  <2> QED BY <2>3, OneChanges DEF ProcessInv
<1>17. Ledger'
  <2>1. heap' \subseteq Addr /\ lost' \subseteq Addr
    BY <1>11, <1>14 DEF ProcessInv, TypeOK
  <2>2. object' \in [Addr -> Struct] /\ processes' \in [Slot -> Pointer]
    BY <1>9, <1>11, <1>12, <1>7 DEF ProcessInv, TypeOK, Struct, Pointer
  <2>3. tasks' \subseteq Table'
    BY <1>11, <1>12 DEF ProcessInv, TableLinked
  <2> QED BY <2>1, <2>2, <2>3, <1>12, <1>16 DEF Ledger
<1>18. OthersKept(NULL)
  <2>1. \A r \in Table : r \in Table' /\ object'[r] = object[r] /\ Owned(r) \subseteq heap'
    <3>1. ASSUME NEW r \in Table PROVE object'[r] = object[r]
      BY <1>11, <1>12, TableAllocated DEF ProcessInv, TypeOK
    <3> QED BY <3>1, <1>11, <1>12, TableAllocated
  <2> QED BY <2>1 DEF OthersKept
<1> QED BY <1>12, <1>17, <1>18

\* A load that fails before: nothing but the heap changes.
LEMMA LoadFailsStep ==
  ASSUME ProcessInv, NEW file \in Files, ~ LoadPanics(file, 0), LoadFails(file)
  PROVE  Ledger' /\ OthersKept(NULL)
<1>1. PICK m : m = Kept(file, 0)
  OBVIOUS
<1>2. m \in Nat /\ Enough(m)
  <2>1. m \in {3, 4} /\ Enough(m + 1)
    BY <1>1 DEF LoadFails, LoadPanics, Needed, Kept
  <2>2. Cardinality(Addr \ heap) \in Nat
    <3>1. IsFiniteSet(Addr)
      BY ProcessAssumption, FS_Interval DEF Addr
    <3> QED BY <3>1, FS_Difference, FS_CardinalityType
  <2> QED BY <2>1, <2>2 DEF Enough
<1>3. PICK left : left = Range(kzalloc(m))
  OBVIOUS
<1>4. left \subseteq Addr \ heap
  BY <1>2, <1>3, FreshAddresses DEF Fresh, Range
<1>5. heap' = heap \cup left /\ lost' = lost \cup left /\ UNCHANGED <<object, processes, tasks>>
  BY <1>1, <1>3 DEF LoadFails
<1>6. Table' = Table /\ \A q \in Table : Owned(q)' = Owned(q) /\ Distinct(q)'
  <2>1. Table' = Table
    BY <1>5 DEF Table
  <2> QED BY <2>1, <1>5, SameStruct DEF ProcessInv
<1>7. SharedOut'
  <2>1. NULL \notin Table
    BY DEF Table
  <2>2. Changes(NULL, {}, {}, left)
    BY <2>1, <1>4, <1>5, <1>6 DEF Changes
  <2> QED BY <2>2, OneChanges DEF ProcessInv
<1>8. Ledger'
  <2>1. Ledger
    BY TwoParts
  <2> QED BY <2>1, <1>4, <1>5, <1>6, <1>7 DEF Ledger
<1>9. OthersKept(NULL)
  BY <1>5, <1>6, TableAllocated DEF OthersKept
<1> QED BY <1>8, <1>9

\* A process that runs has a task, a slot and an address.
LEMMA RunnerIsThere ==
  ASSUME ProcessInv, InUser
  PROVE  runner \in tasks /\ runner \in Table /\ runner \in Addr /\ runner \in heap
BY TableAllocated DEF InUser, ProcessInv, TableLinked

\* A change to the struct of a process that keeps all but its allocations
\* leaves what the kernel allocated for it.
LEMMA OnlyAllocations ==
  ASSUME NEW p, tasks' = tasks, object'[p].elf_file = object[p].elf_file,
         object'[p].elf_memory = object[p].elf_memory,
         object'[p].stack = object[p].stack, object'[p].task = object[p].task
  PROVE  Fixed(p)' = Fixed(p) /\ Owned(p)' = Fixed(p) \cup Allocations(p)'
BY DEF Fixed, Owned

\* malloc with memory and an entry left.
LEMMA MallocStep ==
  ASSUME ProcessInv, process_malloc, phase' # "halted"
  PROVE  Ledger' /\ OthersKept(runner) /\ UNCHANGED <<processes, focus, tasks, runner, phase, loads>>
<1>1. PICK p : p = runner
  OBVIOUS
<1>2. p \in tasks /\ p \in Table /\ p \in Addr /\ p \in heap
  BY <1>1, RunnerIsThere DEF process_malloc
<1> DEFINE free == process_find_free_allocation_index(p)
<1>3. PICK x : x = kzalloc(1)[1]
  OBVIOUS
<1>4. PICK i : i = Min(free)
  OBVIOUS
<1>5. /\ Enough(1) /\ free # {} /\ heap' = heap \cup {x}
      /\ object' = [object EXCEPT ![p].allocations[i] = x]
      /\ UNCHANGED <<processes, focus, tasks, runner, phase, loads, lost>>
  BY <1>1, <1>3, <1>4 DEF process_malloc, panic, Caller
<1>6. i \in Index /\ object[p].allocations[i] = NULL
  <2>1. free \subseteq Nat
    BY ProcessAssumption DEF process_find_free_allocation_index, Index
  <2>2. Min(free) \in free
    <3> HIDE DEF free
    <3> QED BY <1>5, <2>1, LeastNat
  <2> QED BY <1>4, <2>2 DEF process_find_free_allocation_index
<1>7. x \in Addr \ heap /\ x # NULL
  <2>1. Fresh(kzalloc(1), 1)
    BY <1>5, FreshAddresses
  <2>2. 1 \in 1 .. 1
    OBVIOUS
  <2> QED BY <1>3, <2>1, <2>2, ProcessAssumption DEF Fresh, Addr, NULL
<1>8. object \in [Addr -> Struct]
  BY DEF ProcessInv, TypeOK, Struct
<1>9. /\ object'[p] = [object[p] EXCEPT !.allocations[i] = x]
      /\ \A q \in Table \ {p} : object'[q] = object[q]
  BY <1>2, <1>5, <1>8
<1>10. object[p] \in Struct /\ object[p].allocations \in [Index -> Pointer]
  BY <1>2, <1>8 DEF Struct
<1>11. /\ object'[p].id = object[p].id /\ object'[p].elf_file = object[p].elf_file
       /\ object'[p].elf_memory = object[p].elf_memory
       /\ object'[p].stack = object[p].stack /\ object'[p].task = object[p].task
       /\ object'[p].allocations = [object[p].allocations EXCEPT ![i] = x]
  BY <1>9, <1>10 DEF Struct
<1>12. Fixed(p)' = Fixed(p) /\ Owned(p)' = Fixed(p) \cup Allocations(p)'
  BY <1>5, <1>11, OnlyAllocations
<1>13. Allocations(p)' = Allocations(p) \cup {x}
  BY <1>6, <1>7, <1>10, <1>11 DEF Allocations
<1>14. Owned(p) = Fixed(p) \cup Allocations(p) /\ Owned(p) \subseteq heap
  BY <1>2, TableAllocated DEF Owned, Fixed
<1>15. Table' = Table /\ \A q \in Table \ {p} : Owned(q)' = Owned(q) /\ Distinct(q)'
  <2>1. Table' = Table
    BY <1>5 DEF Table
  <2> QED BY <2>1, <1>5, <1>9, SameStruct DEF ProcessInv
<1>16. Distinct(p)'
  <2>1. Distinct(p)
    BY <1>2 DEF ProcessInv
  <2>2. Fixed(p)' \cap Allocations(p)' = {}
    BY <2>1, <1>7, <1>12, <1>13, <1>14 DEF Distinct
  <2>3. ASSUME NEW j \in Index, NEW k \in Index,
               object'[p].allocations[j] = object'[p].allocations[k]
        PROVE  j = k \/ object'[p].allocations[j] = NULL
    <3>1. \A l \in Index : object[p].allocations[l] # x
      BY <1>7, <1>14 DEF Allocations
    <3> QED BY <2>1, <2>3, <3>1, <1>6, <1>10, <1>11 DEF Distinct
  <2>4. NULL \notin Fixed(p)' /\ Cardinality(Fixed(p)') = IF p \in tasks' THEN 5 ELSE 4
    BY <2>1, <1>5, <1>12 DEF Distinct
  <2> QED BY <2>2, <2>3, <2>4 DEF Distinct
<1>17. SharedOut'
  <2>1. PICK old, new : old = Owned(p) /\ new = Owned(p)'
    OBVIOUS
  <2>2. heap' = (heap \ old) \cup new \cup {} /\ new \cap (heap \ old) = {}
    BY <2>1, <1>5, <1>7, <1>12, <1>13, <1>14
  <2>3. Changes(p, old, new, {})
    BY <2>1, <2>2, <1>2, <1>5, <1>15 DEF Changes
  <2> QED BY <2>3, OneChanges DEF ProcessInv
<1>18. Ledger'
  <2>1. Ledger
    BY TwoParts
  <2>2. heap' \subseteq Addr
    BY <2>1, <1>5, <1>7 DEF Ledger
  <2>3. object' \in [Addr -> Struct]
    <3>1. object'[p] \in Struct
      BY <1>7, <1>9, <1>10 DEF Struct, Pointer
    <3> QED BY <3>1, <1>2, <1>5, <1>8
  <2>4. \A k \in Slot : processes'[k] # NULL => object'[processes'[k]].id = k
    BY <2>1, <1>5, <1>9, <1>11 DEF Ledger, Table
  <2> QED BY <2>1, <2>2, <2>3, <2>4, <1>5, <1>15, <1>16, <1>17 DEF Ledger
<1>19. OthersKept(runner)
  BY <1>1, <1>5, <1>9, <1>15, TableAllocated DEF OthersKept
<1> QED BY <1>5, <1>18, <1>19

\* free of a pointer that the process holds, or of NULL.
LEMMA FreeStep ==
  ASSUME ProcessInv, NEW ptr \in Pointer, process_free(ptr)
  PROVE  Ledger' /\ OthersKept(runner) /\ UNCHANGED <<processes, focus, tasks, runner, phase, loads>>
<1>1. PICK p : p = runner
  OBVIOUS
<1>2. p \in tasks /\ p \in Table /\ p \in Addr /\ p \in heap
  BY <1>1, RunnerIsThere DEF process_free
<1>3. PICK rest : rest = process_allocation_unjoin(object[p].allocations, ptr)
  OBVIOUS
<1>4. \E i \in Index : object[p].allocations[i] = ptr
  BY <1>1 DEF process_free, Caller, process_get_allocation_by_addr
<1>5. /\ heap' = heap \ {ptr}
      /\ object' = [object EXCEPT ![p].allocations = rest]
      /\ UNCHANGED <<processes, focus, tasks, runner, phase, loads, lost>>
  BY <1>1, <1>3 DEF process_free, Caller
<1>8. object \in [Addr -> Struct]
  BY DEF ProcessInv, TypeOK, Struct
<1>9. /\ object'[p] = [object[p] EXCEPT !.allocations = rest]
      /\ \A q \in Table \ {p} : object'[q] = object[q]
  BY <1>2, <1>5, <1>8
<1>10. object[p] \in Struct /\ object[p].allocations \in [Index -> Pointer]
  BY <1>2, <1>8 DEF Struct
<1>11. /\ object'[p].id = object[p].id /\ object'[p].elf_file = object[p].elf_file
       /\ object'[p].elf_memory = object[p].elf_memory
       /\ object'[p].stack = object[p].stack /\ object'[p].task = object[p].task
       /\ object'[p].allocations = rest
  BY <1>9, <1>10 DEF Struct
<1>12. Fixed(p)' = Fixed(p) /\ Owned(p)' = Fixed(p) \cup Allocations(p)'
  BY <1>5, <1>11, OnlyAllocations
<1>13. \A i \in Index : rest[i] = IF object[p].allocations[i] = ptr THEN NULL
                                  ELSE object[p].allocations[i]
  BY <1>3 DEF process_allocation_unjoin
<1>14. Allocations(p)' = Allocations(p) \ {ptr}
  BY <1>11, <1>13 DEF Allocations
<1>15. Owned(p) = Fixed(p) \cup Allocations(p) /\ Owned(p) \subseteq heap /\ Distinct(p)
  BY <1>2, TableAllocated DEF Owned, Fixed, ProcessInv
<1>16. ptr \notin Fixed(p)
  BY <1>4, <1>15 DEF Distinct, Allocations
<1>17. Owned(p)' = Owned(p) \ {ptr} /\ (ptr \in heap => ptr \in Owned(p))
  <2>1. NULL \notin heap
    BY ProcessAssumption DEF ProcessInv, TypeOK, Addr, NULL
  <2> QED BY <2>1, <1>4, <1>12, <1>14, <1>15, <1>16 DEF Allocations
<1>18. Table' = Table /\ \A q \in Table \ {p} : Owned(q)' = Owned(q) /\ Distinct(q)'
  <2>1. Table' = Table
    BY <1>5 DEF Table
  <2> QED BY <2>1, <1>5, <1>9, SameStruct DEF ProcessInv
<1>19. Distinct(p)'
  <2>1. Fixed(p)' \cap Allocations(p)' = {} /\ NULL \notin Fixed(p)'
        /\ Cardinality(Fixed(p)') = IF p \in tasks' THEN 5 ELSE 4
    BY <1>5, <1>12, <1>14, <1>15 DEF Distinct
  <2>2. \A i, j \in Index : rest[i] = rest[j] => i = j \/ rest[i] = NULL
    BY <1>13, <1>15 DEF Distinct
  <2> QED BY <2>1, <2>2, <1>11 DEF Distinct
<1>20. SharedOut'
  <2>1. PICK old, new : old = Owned(p) /\ new = Owned(p)'
    OBVIOUS
  <2>2. heap' = (heap \ old) \cup new \cup {} /\ new \cap (heap \ old) = {}
    BY <2>1, <1>5, <1>15, <1>17
  <2>3. Changes(p, old, new, {})
    BY <2>1, <2>2, <1>2, <1>5, <1>18 DEF Changes
  <2> QED BY <2>3, OneChanges DEF ProcessInv
<1>21. Ledger'
  <2>1. Ledger
    BY TwoParts
  <2>2. object' \in [Addr -> Struct]
    <3>1. rest \in [Index -> Pointer]
      BY <1>3, <1>10 DEF process_allocation_unjoin, Pointer
    <3>2. object'[p] \in Struct
      BY <3>1, <1>9, <1>10 DEF Struct
    <3> QED BY <3>2, <1>2, <1>5, <1>8
  <2>3. \A k \in Slot : processes'[k] # NULL => object'[processes'[k]].id = k
    BY <2>1, <1>5, <1>9, <1>11 DEF Ledger, Table
  <2> QED BY <2>1, <2>2, <2>3, <1>5, <1>18, <1>19, <1>20 DEF Ledger
<1>22. OthersKept(runner)
  <2>1. \A q \in Table \ {p} : Owned(q) \subseteq heap /\ Owned(q) \cap Owned(p) = {}
    BY <1>2, TableAllocated DEF ProcessInv, SharedOut
  <2>2. \A q \in Table \ {p} : Owned(q) \subseteq heap'
    BY <2>1, <1>5, <1>17
  <2> QED BY <2>2, <1>1, <1>9, <1>18 DEF OthersKept
<1> QED BY <1>5, <1>21, <1>22

\* The running process ends, and the kernel goes on.
LEMMA TerminateStep ==
  ASSUME ProcessInv, process_terminate, phase' # "halted"
  PROVE  /\ Ledger' /\ OthersKept(runner) /\ UNCHANGED <<phase, loads>>
         /\ Table' # {} => focus' \in Table'
         /\ runner' \in tasks' \cup {NULL} /\ focus' \in Pointer
<1>1. PICK p : p = runner
  OBVIOUS
<1>2. p \in tasks /\ p \in Table /\ p \in Addr /\ p \in heap
  BY <1>1, RunnerIsThere DEF process_terminate
<1>3. /\ ~ (focus = p /\ Table = {p})
      /\ heap' = heap \ Owned(p) /\ processes' = Unlinked(p)
      /\ focus' = process_switch_to_any(p) /\ tasks' = tasks \ {p}
      /\ runner' \in IF tasks' = {} THEN {NULL} ELSE tasks'
      /\ object' = [object EXCEPT ![p] = Zeroed]
      /\ UNCHANGED <<phase, lost, loads>>
  BY <1>1 DEF process_terminate, panic
<1>4. PICK i : i = object[p].id
  OBVIOUS
<1>5. i \in Slot /\ processes[i] = p /\ p # NULL
  BY <1>2, <1>4, TableAllocated DEF Table
<1>6. processes' = [processes EXCEPT ![i] = NULL] /\ processes \in [Slot -> Pointer]
  BY <1>3, <1>4 DEF Unlinked, ProcessInv, TypeOK
<1>7. \A k \in Slot \ {i} : processes[k] # p
  BY <1>4, <1>5 DEF ProcessInv, TableLinked
<1>8. Table' = Table \ {p}
  <2>1. \A k \in Slot : processes'[k] = IF k = i THEN NULL ELSE processes[k]
    BY <1>6
  <2> QED BY <2>1, <1>5, <1>7 DEF Table
<1>9. \A q \in Table \ {p} : object'[q] = object[q]
  BY <1>3, TableAllocated DEF ProcessInv, TypeOK
<1>10. \A q \in Table \ {p} : Owned(q)' = Owned(q) /\ Distinct(q)'
  <2>1. \A q \in Table \ {p} : q \in tasks' <=> q \in tasks
    BY <1>3
  <2> QED BY <2>1, <1>9, SameStruct DEF ProcessInv
<1>11. SharedOut'
  <2>1. PICK old : old = Owned(p)
    OBVIOUS
  <2>2. heap' = (heap \ old) \cup {} \cup {}
    BY <2>1, <1>3
  <2>3. Changes(p, old, {}, {})
    BY <2>1, <2>2, <1>2, <1>3, <1>8, <1>10 DEF Changes
  <2> QED BY <2>3, OneChanges DEF ProcessInv
<1>12. Ledger'
  <2>1. Ledger
    BY TwoParts
  <2>2. heap' \subseteq Addr /\ lost' \subseteq Addr
    BY <2>1, <1>3 DEF Ledger
  <2>3. object' \in [Addr -> Struct] /\ processes' \in [Slot -> Pointer]
    <3>1. Zeroed \in Struct
      BY ProcessAssumption DEF Zeroed, Struct, Slot, Pointer
    <3> QED BY <2>1, <3>1, <1>3, <1>6 DEF Ledger, Pointer
  <2>4. tasks' \subseteq Table'
    BY <2>1, <1>3, <1>8 DEF Ledger
  <2>5. ASSUME NEW k \in Slot, processes'[k] # NULL PROVE object'[processes'[k]].id = k
    <3>1. processes'[k] = processes[k] /\ processes[k] \in Table \ {p}
      BY <2>5, <1>6, <1>7 DEF Table
    <3> QED BY <2>1, <2>5, <3>1, <1>9 DEF Ledger
  <2> QED BY <2>2, <2>3, <2>4, <2>5, <1>8, <1>10, <1>11 DEF Ledger
<1>13. OthersKept(runner)
  <2>1. \A q \in Table \ {p} : Owned(q) \subseteq heap /\ Owned(q) \cap Owned(p) = {}
    BY <1>2, TableAllocated DEF ProcessInv, SharedOut
  <2>2. \A q \in Table \ {p} : Owned(q) \subseteq heap'
    BY <2>1, <1>3
  <2> QED BY <2>2, <1>1, <1>8, <1>9 DEF OthersKept
<1>14. focus' \in Pointer /\ (Table' # {} => focus' \in Table')
  <2>1. focus \in Table
    BY <1>2 DEF ProcessInv, TableLinked
  <2>2. CASE focus # p
    <3>1. focus' = focus
      BY <2>2, <1>3 DEF process_switch_to_any
    <3> QED BY <2>1, <2>2, <3>1, <1>8 DEF ProcessInv, TypeOK
  <2>3. CASE focus = p
    <3> DEFINE rest == {k \in Slot : processes'[k] # NULL}
    <3>1. focus' = processes'[Min(rest)]
      BY <2>3, <1>3 DEF process_switch_to_any
    <3>2. rest # {} /\ rest \subseteq Nat
      <4>1. Table' # {}
        BY <2>3, <1>2, <1>3, <1>8
      <4> QED BY <4>1, ProcessAssumption DEF Table, Slot
    <3>3. Min(rest) \in rest
      <4> HIDE DEF rest
      <4> QED BY <3>2, LeastNat
    <3>4. focus' \in Table'
      BY <3>1, <3>3 DEF Table
    <3> QED BY <3>4, <1>12 DEF Ledger, Table
  <2> QED BY <2>2, <2>3
<1> QED BY <1>1, <1>3, <1>12, <1>13, <1>14

\* No step leaves the others alone and spares the runner less than nobody.
LEMMA NobodyRuns == ASSUME OthersKept(NULL) PROVE OthersKept(runner)
BY DEF OthersKept, Table

\* A step that changes neither memory nor the table.
LEMMA NothingHeld ==
  ASSUME ProcessInv, UNCHANGED <<heap, object, processes, tasks, lost>>
  PROVE  Ledger' /\ Table' = Table /\ OthersKept(runner)
<1>1. Table' = Table
  BY DEF Table
<1>2. \A q \in Table : Owned(q)' = Owned(q) /\ Distinct(q)'
  BY SameStruct DEF ProcessInv
<1>3. SharedOut'
  BY <1>1, <1>2 DEF SharedOut, ProcessInv
<1>4. Ledger'
  BY TwoParts, <1>1, <1>2, <1>3 DEF Ledger
<1> QED BY <1>1, <1>2, <1>4, TableAllocated DEF OthersKept

\* A panic changes nothing the invariant is about.
LEMMA PanicStep ==
  ASSUME ProcessInv, panic, loads' \in 0 .. MaxLoads
  PROVE  Ledger' /\ Control' /\ OthersKept(runner)
<1>1. Ledger' /\ Table' = Table /\ OthersKept(runner)
  BY NothingHeld DEF panic
<1>2. Control'
  BY TwoParts, <1>1 DEF Control, panic, Booting
<1> QED BY <1>1, <1>2

\* kernel_main loads a program or starts the first task.
LEMMA BootStep ==
  ASSUME ProcessInv, NEW n \in 1 .. MaxArguments, kernel_main(n)
  PROVE  Ledger' /\ Control' /\ OthersKept(runner)
<1>1. CASE panic
  BY <1>1, PanicStep DEF kernel_main, ProcessInv, TypeOK
<1>2. CASE ~ panic
  <2>1. /\ phase = "boot" /\ UNCHANGED loads /\ ~ LoadPanics("elf", n) /\ Loads("elf", n)
        /\ \/ tasks = {} /\ UNCHANGED <<runner, phase>>
           \/ tasks # {} /\ runner' = processes[0] /\ phase' = "user"
    BY <1>2 DEF kernel_main
  <2>3. tasks = Table /\ \A i \in Slot \ {0} : processes[i] = NULL
    BY <2>1 DEF ProcessInv, Booting
  <2>4. 1 \in Slot /\ 0 \in Slot /\ processes[1] = NULL
    BY <2>3, ProcessAssumption DEF Slot
  <2>5. n \in Nat
    BY ProcessAssumption
  <2>6. /\ Ledger' /\ OthersKept(NULL)
        /\ focus' \in Table' /\ tasks' = tasks \cup {focus'} /\ Table' = Table \cup {focus'}
        /\ processes' = [processes EXCEPT ![process_get_free_slot] = focus']
    BY <2>1, <2>4, <2>5, LoadsStep
  <2>7. focus' \in Addr
    BY <2>6 DEF Ledger, Table, Pointer
  <2>8. CASE tasks = {}
    <3>1. processes[0] = NULL
      BY <2>3, <2>4, <2>8 DEF Table
    <3>2. process_get_free_slot = 0
      <4> DEFINE free == {i \in Slot : processes[i] = NULL}
      <4>1. 0 \in free /\ free \subseteq Nat
        BY <2>4, <3>1, ProcessAssumption DEF Slot
      <4>2. Min(free) \in free /\ \A k \in free : Min(free) <= k
        <5> HIDE DEF free
        <5> QED BY <4>1, LeastNat
      <4>3. Min(free) <= 0 /\ Min(free) \in Nat
        <5> HIDE DEF free
        <5> QED BY <4>1, <4>2
      <4> QED BY <4>3 DEF process_get_free_slot
    <3>3. \A i \in Slot \ {0} : processes'[i] = NULL
      BY <2>3, <2>6, <3>2 DEF ProcessInv, TypeOK
    <3>4. tasks' = Table' /\ UNCHANGED <<runner, phase>>
      BY <2>1, <2>3, <2>6, <2>8
    <3>5. Booting'
      BY <3>3, <3>4 DEF Booting
    <3>6. Control
      BY TwoParts
    <3> QED BY <2>1, <2>6, <2>7, <3>4, <3>5, <3>6, NobodyRuns DEF Control, Pointer
  <2>9. CASE tasks # {}
    <3>1. processes[0] \in Table
      <4>1. PICK i \in Slot : processes[i] # NULL
        BY <2>3, <2>9 DEF Table
      <4> QED BY <2>3, <2>4, <4>1 DEF Table
    <3>2. runner' \in tasks' /\ phase' = "user" /\ runner' \in Addr
      BY <2>1, <2>3, <2>6, <2>9, <3>1, TableAllocated
    <3>3. Control
      BY TwoParts
    <3> QED BY <2>1, <2>6, <2>7, <3>2, <3>3, NobodyRuns DEF Control, Pointer, Booting
  <2> QED BY <2>8, <2>9
<1> QED BY <1>1, <1>2

\* A program loads another one, which runs, or goes on itself.
LEMMA StartStep ==
  ASSUME ProcessInv, NEW file \in Files, NEW n \in Nat, StartProgram(file, n)
  PROVE  Ledger' /\ Control' /\ OthersKept(runner)
<1>1. loads' \in 0 .. MaxLoads
  BY ProcessAssumption DEF StartProgram, ProcessInv, TypeOK
<1>2. PICK j \in Slot : processes[j] = NULL
  BY DEF StartProgram
<1>3. phase = "user" /\ runner \in tasks /\ Control /\ focus \in Table
  BY TwoParts, RunnerIsThere DEF StartProgram, InUser, Control
<1>4. CASE panic
  BY <1>1, <1>4, PanicStep
<1>5. CASE ~ LoadPanics(file, 0) /\ LoadFails(file)
  <2>1. Ledger' /\ OthersKept(NULL) /\ UNCHANGED <<processes, focus, tasks, runner, phase>>
    BY <1>5, LoadFailsStep DEF LoadFails
  <2> QED BY <2>1, <1>1, <1>3, NobodyRuns DEF Control, Booting, Table
<1>6. CASE ~ LoadPanics(file, 0) /\ MapFails(file)
  <2>1. Ledger' /\ OthersKept(NULL) /\ Table \subseteq Table'
    BY <1>2, <1>6, MapFailsStep
  <2>2. UNCHANGED <<focus, tasks, runner, phase>>
    BY <1>6 DEF MapFails
  <2> QED BY <2>1, <2>2, <1>1, <1>3, NobodyRuns DEF Control, Booting
<1>7. CASE ~ LoadPanics(file, n) /\ Loads(file, n) /\ runner' = focus' /\ UNCHANGED phase
  <2>1. /\ Ledger' /\ OthersKept(NULL) /\ focus' \in Table'
        /\ tasks' = tasks \cup {focus'}
    BY <1>2, <1>7, LoadsStep
  <2>2. focus' \in Pointer
    BY <2>1 DEF Ledger, Table
  <2> QED BY <2>1, <2>2, <1>1, <1>3, <1>7, NobodyRuns DEF Control, Booting
<1> QED BY <1>4, <1>5, <1>6, <1>7 DEF StartProgram

\* Every step keeps the invariant and leaves the other processes alone.
LEMMA ProcessStep ==
  ASSUME ProcessInv, [Next]_vars
  PROVE  ProcessInv' /\ OthersKept(runner)
<1> SUFFICES Ledger' /\ Control' /\ OthersKept(runner)
  <2>1. processes' \in [Slot -> Pointer] => Table' \subseteq Addr
    BY DEF Table, Pointer
  <2> QED BY <2>1 DEF ProcessInv, Ledger, Control, TypeOK, TableLinked, Struct
<1>1. Control
  BY TwoParts
<1>2. ASSUME NEW n \in 1 .. MaxArguments, kernel_main(n)
      PROVE  Ledger' /\ Control' /\ OthersKept(runner)
  BY <1>2, BootStep
<1>3. ASSUME NEW file \in Files, isr80h_command6_process_load_start(file)
      PROVE  Ledger' /\ Control' /\ OthersKept(runner)
  BY <1>3, StartStep DEF isr80h_command6_process_load_start
<1>4. ASSUME NEW file \in Files, NEW n \in 1 .. MaxArguments,
             isr80h_command7_invoke_system_command(file, n)
      PROVE  Ledger' /\ Control' /\ OthersKept(runner)
  <2>1. n \in Nat
    BY ProcessAssumption
  <2> QED BY <2>1, <1>4, StartStep DEF isr80h_command7_invoke_system_command
<1>5. CASE task_next
  <2>1. Ledger' /\ Table' = Table /\ OthersKept(runner)
    BY <1>5, NothingHeld DEF task_next
  <2>2. tasks \subseteq Addr
    BY DEF ProcessInv, TypeOK
  <2> QED BY <2>1, <2>2, <1>1, <1>5 DEF task_next, InUser, Control, Booting, Pointer
<1>6. CASE process_malloc
  <2>1. CASE panic
    BY <2>1, <1>1, <1>6, PanicStep DEF process_malloc, Control
  <2>2. CASE ~ panic
    <3>1. phase' # "halted"
      BY <2>2, <1>6 DEF process_malloc, InUser
    <3>2. Ledger' /\ OthersKept(runner) /\ UNCHANGED <<processes, focus, tasks, runner, phase, loads>>
      BY <3>1, <1>6, MallocStep
    <3> QED BY <3>2, <1>1 DEF Control, Booting, Table
  <2> QED BY <2>1, <2>2
<1>7. ASSUME NEW ptr \in Pointer, process_free(ptr)
      PROVE  Ledger' /\ Control' /\ OthersKept(runner)
  <2>1. Ledger' /\ OthersKept(runner) /\ UNCHANGED <<processes, focus, tasks, runner, phase, loads>>
    BY <1>7, FreeStep
  <2> QED BY <2>1, <1>1 DEF Control, Booting, Table
<1>8. CASE process_terminate
  <2>1. CASE panic
    BY <2>1, <1>1, <1>8, PanicStep DEF process_terminate, Control
  <2>2. CASE ~ panic
    <3>1. phase = "user" /\ phase' = "user"
      BY <2>2, <1>8 DEF process_terminate, InUser
    <3>2. /\ Ledger' /\ OthersKept(runner) /\ UNCHANGED <<phase, loads>>
          /\ Table' # {} => focus' \in Table'
          /\ runner' \in tasks' \cup {NULL} /\ focus' \in Pointer
      BY <3>1, <1>8, TerminateStep
    <3>3. runner' \in Pointer
      BY <3>2 DEF Ledger, Table, Pointer
    <3> QED BY <3>1, <3>2, <3>3, <1>1 DEF Control, Booting
  <2> QED BY <2>1, <2>2
<1>9. CASE UNCHANGED vars
  BY <1>1, <1>9, NothingHeld DEF vars, Control, Booting
<1> QED BY <1>2, <1>3, <1>4, <1>5, <1>6, <1>7, <1>8, <1>9 DEF Next

-----------------------------------------------------------------------------
(* The theorems                                                            *)

\* What a process holds for its program is as much as it has entries in use.
LEMMA AllocationsCounted ==
  ASSUME NEW p, Distinct(p)
  PROVE  /\ IsFiniteSet(Allocations(p))
         /\ Cardinality(Allocations(p)) =
              Cardinality({i \in Index : object[p].allocations[i] # NULL})
<1> DEFINE S == {i \in Index : object[p].allocations[i] # NULL}
           f == [i \in S |-> object[p].allocations[i]]
<1>1. IsFiniteSet(S)
  <2>1. IsFiniteSet(Index)
    BY ProcessAssumption, FS_Interval DEF Index
  <2> QED BY <2>1, FS_Subset
<1>2. f \in Surjection(S, Allocations(p))
  BY DEF Surjection, Allocations
<1>3. f \in Injection(S, Allocations(p))
  BY DEF Injection, IsInjective, Allocations, Distinct
<1> QED BY <1>1, <1>2, <1>3, FS_Surjection

\* What the processes hold and what is lost adds up to what is allocated.
LEMMA InvAccounted == ProcessInv => Accounted
<1> SUFFICES ASSUME ProcessInv, NEW p \in Table
             PROVE  Cardinality(Owned(p)) =
                      Cardinality({i \in Index : object[p].allocations[i] # NULL})
                      + (IF p \in tasks THEN 5 ELSE 4)
  BY DEF Accounted, ProcessInv, SharedOut
<1>1. Distinct(p) /\ Owned(p) = Fixed(p) \cup Allocations(p)
  BY DEF ProcessInv, Owned, Fixed
<1>2. IsFiniteSet(Fixed(p))
  <2>1. IsFiniteSet(Addr)
    BY ProcessAssumption, FS_Interval DEF Addr
  <2>2. Fixed(p) \subseteq Addr
    BY <1>1, TableAllocated DEF ProcessInv, TypeOK
  <2> QED BY <2>1, <2>2, FS_Subset
<1>3. Fixed(p) \cap Allocations(p) = {} /\ Cardinality(Fixed(p)) = IF p \in tasks THEN 5 ELSE 4
  BY <1>1 DEF Distinct
<1>4. /\ IsFiniteSet(Allocations(p))
      /\ Cardinality(Allocations(p)) =
           Cardinality({i \in Index : object[p].allocations[i] # NULL})
  BY <1>1, AllocationsCounted
<1>5. Cardinality(Owned(p)) =
        Cardinality(Fixed(p)) + Cardinality(Allocations(p)) - Cardinality({})
  BY <1>1, <1>2, <1>3, <1>4, FS_Union
<1>6. Cardinality(Allocations(p)) \in Nat /\ Cardinality({}) = 0
  BY <1>4, FS_CardinalityType, FS_EmptySet
<1> QED BY <1>3, <1>4, <1>5, <1>6

\* The invariant holds at the start.
LEMMA InvInit == Init => ProcessInv
BY LedgerInit, TwoParts

\* The memory, the table and the focus stay in step, however many programs are
\* loaded and end, in whatever order, and however their loads fail.
THEOREM ProcessInvariant == Spec => []ProcessInv
<1>1. ProcessInv /\ [Next]_vars => ProcessInv'
  BY ProcessStep
<1> QED BY <1>1, InvInit, PTL DEF Spec

\* Every variable keeps its type.
THEOREM TypeCorrect == Spec => []TypeOK
<1>1. ProcessInv => TypeOK
  BY DEF ProcessInv
<1> QED BY <1>1, ProcessInvariant, PTL

\* Memory has one owner: what the processes hold and what loads have lost is
\* all that is allocated, and no two processes share any of it.
THEOREM MemoryAccounted == Spec => []Accounted
BY InvAccounted, ProcessInvariant, PTL

\* The table, the ids, the task list and the focus name the same processes.
THEOREM TableConsistent == Spec => []TableLinked
<1>1. ProcessInv => TableLinked
  BY DEF ProcessInv
<1> QED BY <1>1, ProcessInvariant, PTL

\* Whatever the running process does, even to its end, and whatever its loads
\* do, the other processes keep their entry, their struct and their memory.
THEOREM OthersAreUntouched == Spec => OthersUntouched
<1>1. ProcessInv /\ [Next]_vars => [OthersKept(runner)]_vars
  BY ProcessStep
<1> QED BY <1>1, ProcessInvariant, PTL DEF Spec, OthersUntouched, OthersKept

=============================================================================
