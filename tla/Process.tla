------------------------------ MODULE Process -------------------------------
(***************************************************************************)
(* Processes: the process table and current_process of task/process.c, and  *)
(* who owns which memory.  Loading, the injection of arguments, the malloc  *)
(* and free system calls and termination, with every kzalloc and kfree they *)
(* make.                                                                    *)
(*                                                                         *)
(* The kernel heap is taken as HeapSpec describes it: kzalloc gives memory  *)
(* that nobody holds, the first free address, and panics when there is      *)
(* none.  An address stands for one allocation, whatever its size, or for   *)
(* several that come and go together: a task and its page directory, a      *)
(* parsed path, what fopen holds until fclose.                              *)
(* active_allocations, which the code counts and never reads, is left out.  *)
(***************************************************************************)
EXTENDS Integers, FiniteSetsExt, Functions

CONSTANTS
  Memory,          \* number of allocations the heap can hold
  MaxProcesses,    \* PEACHOS_MAX_PROCESSES
  MaxAllocations,  \* PEACHOS_MAX_PROGRAM_ALLOCATIONS
  MaxArguments,    \* bound on the arguments of a command
  MaxLoads,        \* bound on the programs that programs load
  Files            \* kinds of the files programs are loaded from

ASSUME ProcessAssumption ==
  /\ Memory \in Nat /\ MaxAllocations \in Nat \ {0}
  /\ MaxProcesses \in Nat \ {0, 1} /\ MaxArguments \in Nat \ {0}
  /\ MaxLoads \in Nat
  /\ Files \subseteq {"elf", "raw", "absent", "unreadable"}

VARIABLES
  heap,      \* addresses that kzalloc has given out and kfree not taken back
  object,    \* the struct process at an address
  processes, \* the process table
  focus,     \* current_process
  tasks,     \* the processes that have a task in the task list
  runner,    \* task_current()->process
  phase,     \* "boot" in kernel_main, "user", or "halted" in panic
  loads,     \* how many programs have been loaded by programs
  lost       \* history: what loads have left behind

vars == <<heap, object, processes, focus, tasks, runner, phase, loads, lost>>

NULL    == 0
Addr    == 1 .. Memory
Pointer == Addr \cup {NULL}
Slot    == 0 .. MaxProcesses - 1
Index   == 1 .. MaxAllocations
Table   == {processes[i] : i \in Slot} \ {NULL}

-----------------------------------------------------------------------------
(* Memory                                                                  *)

\* The next n addresses kzalloc gives out; it panics unless Enough(n).
Enough(n)  == Cardinality(Addr \ heap) >= n
kzalloc(n) ==
  [k \in 1 .. n |-> CHOOSE a \in Addr \ heap :
                      Cardinality({b \in Addr \ heap : b <= a}) = k]

panic ==
  /\ phase' = "halted"
  /\ UNCHANGED <<heap, object, processes, focus, tasks, runner, lost>>

Allocations(p) == {object[p].allocations[i] : i \in Index} \ {NULL}

process_find_free_allocation_index(p) ==
  {i \in Index : object[p].allocations[i] = NULL}

\* Everything process_terminate frees, the struct process itself included.
Owned(p) ==
  Allocations(p) \cup {p, object[p].elf_file, object[p].elf_memory,
                       object[p].stack}
                 \cup (IF p \in tasks THEN {object[p].task} ELSE {})

-----------------------------------------------------------------------------
(* Loading                                                                 *)

Zeroed ==
  [id |-> 0, task |-> NULL, allocations |-> [i \in Index |-> NULL],
   filetype |-> "ELF", elf_file |-> NULL, elf_memory |-> NULL,
   stack |-> NULL, argc |-> 0, argv |-> NULL]

process_get_free_slot == Min({i \in Slot : processes[i] = NULL})

\* n arguments: the array of pointers first, then the strings.
process_inject_arguments(p, a, n) ==
  IF n = 0 THEN p
  ELSE [p EXCEPT !.allocations = [i \in Index |-> IF i <= n + 1 THEN a[6 + i]
                                                                ELSE NULL],
                 !.argc = n, !.argv = a[7]]

\* Faulty variant: the file type is not set.
LoadUntyped(a, i) ==
  [Zeroed EXCEPT !.id = i, !.filetype = "UNKNOWN", !.elf_file = a[2],
                 !.elf_memory = a[4], !.stack = a[5], !.task = a[6]]

\* The struct process that a load builds at a[1].  elf_process_loaded returns
\* 0 for any file, so every file that can be read is taken for an ELF image.
process_load_for_slot(a, i) ==
  [Zeroed EXCEPT !.id = i, !.elf_file = a[2], !.elf_memory = a[4],
                 !.stack = a[5], !.task = a[6]]

\* What a load keeps: the struct process, the struct elf_file, the parsed
\* path, which fopen never frees, then the image, the stack and the task, and
\* for n arguments n + 1 allocations.
Kept(file, n) ==
  CASE file = "absent"     -> 3
    [] file = "unreadable" -> 4
    [] OTHER               -> 6 + (IF n = 0 THEN 0 ELSE n + 1)

\* What it takes at its peak: a load that fails does so with the file open.
Needed(file, n) ==
  IF file \in {"absent", "unreadable"} THEN Kept(file, n) + 1 ELSE Kept(file, n)

\* elf_load fails: nothing of what it and its callers allocated is freed.
LoadFails(file) ==
  LET a == Range(kzalloc(Kept(file, 0)))
  IN  /\ file \in {"absent", "unreadable"}
      /\ heap' = heap \cup a
      /\ lost' = lost \cup a
      /\ UNCHANGED <<object, processes, focus, tasks, runner, phase>>

\* process_map_memory fails, as it may on what is no ELF image: the process
\* stays in the table, without its task.
MapFails(file) ==
  LET a == kzalloc(6)
      i == process_get_free_slot
  IN  /\ file = "raw"
      /\ heap' = heap \cup {a[1], a[2], a[3], a[4], a[5]}
      /\ lost' = lost \cup {a[3]}
      /\ object' = [object EXCEPT ![a[1]] = process_load_for_slot(a, i)]
      /\ processes' = [processes EXCEPT ![i] = a[1]]
      /\ UNCHANGED <<focus, tasks, runner, phase>>

\* process_load_switch and the injection of n arguments succeed.
Loads(file, n) ==
  LET a == kzalloc(Kept(file, n))
      i == process_get_free_slot
      p == process_inject_arguments(process_load_for_slot(a, i), a, n)
  IN  /\ file \in {"elf", "raw"}
      /\ n < MaxAllocations
      /\ heap' = heap \cup Range(a)
      /\ object' = [object EXCEPT ![a[1]] = p]
      /\ processes' = [processes EXCEPT ![i] = a[1]]
      /\ focus' = a[1]
      /\ tasks' = tasks \cup {a[1]}
      /\ lost' = lost \cup {a[3]}

\* kzalloc finds no memory, or process_malloc no entry for an argument.
LoadPanics(file, n) ==
  \/ ~Enough(Needed(file, n))
  \/ file \in {"elf", "raw"} /\ n >= MaxAllocations

-----------------------------------------------------------------------------
(* Steps                                                                   *)

Init ==
  /\ heap = {}
  /\ object = [a \in Addr |-> Zeroed]
  /\ processes = [i \in Slot |-> NULL]
  /\ focus = NULL
  /\ tasks = {}
  /\ runner = NULL
  /\ phase = "boot"
  /\ loads = 0
  /\ lost = {}

\* kernel_main loads blank.elf twice, each with as many arguments as the
\* uninitialised next of its root_argument makes it, and runs the first one;
\* it panics when the file cannot be loaded.
kernel_main(n) ==
  /\ phase = "boot"
  /\ UNCHANGED loads
  /\ \/ /\ LoadPanics("elf", n) \/ Files \ {"elf", "raw"} # {}
        /\ panic
     \/ /\ ~LoadPanics("elf", n)
        /\ Loads("elf", n)
        /\ \/ tasks = {} /\ UNCHANGED <<runner, phase>>
           \/ tasks # {} /\ runner' = processes[0] /\ phase' = "user"

InUser == phase = "user" /\ runner \in tasks

\* A program is loaded and runs; on failure its caller goes on.
StartProgram(file, n) ==
  /\ InUser
  /\ loads < MaxLoads
  /\ loads' = loads + 1
  /\ \E i \in Slot : processes[i] = NULL
  /\ \/ LoadPanics(file, n) /\ panic
     \/ /\ ~LoadPanics(file, 0)
        /\ LoadFails(file) \/ MapFails(file)
     \/ /\ ~LoadPanics(file, n)
        /\ Loads(file, n)
        /\ runner' = focus'
        /\ UNCHANGED phase

isr80h_command6_process_load_start(file) == StartProgram(file, 0)

isr80h_command7_invoke_system_command(file, n) == StartProgram(file, n)

\* The timer, and the module Task's choice of the next task.
task_next ==
  /\ InUser
  /\ runner' \in tasks
  /\ UNCHANGED <<heap, object, processes, focus, tasks, phase, loads, lost>>

\* Faulty variant: the process in focus.
CallerInFocus == focus

\* The process malloc and free work for.
Caller == runner

\* Sizes are of a block or more; AddressSpaces has those of none.
process_malloc ==
  LET a == kzalloc(1)
      i == Min(process_find_free_allocation_index(Caller))
  IN  /\ InUser
      /\ \/ /\ ~Enough(1) \/ process_find_free_allocation_index(Caller) = {}
            /\ panic
         \/ /\ Enough(1)
            /\ process_find_free_allocation_index(Caller) # {}
            /\ heap' = heap \cup {a[1]}
            /\ object' = [object EXCEPT ![Caller].allocations[i] = a[1]]
            /\ UNCHANGED <<processes, focus, tasks, runner, phase, lost>>
      /\ UNCHANGED loads

process_get_allocation_by_addr(p, ptr) ==
  {i \in Index : object[p].allocations[i] = ptr}

\* Faulty variant: the entry is not cleared.
UnjoinNothing(allocations, ptr) == allocations

process_allocation_unjoin(allocations, ptr) ==
  [i \in Index |-> IF allocations[i] = ptr THEN NULL ELSE allocations[i]]

\* Any pointer may be passed; one that is not the caller's is ignored.  NULL
\* is the pointer of every empty entry, and freeing it changes nothing here.
process_free(ptr) ==
  /\ InUser
  /\ process_get_allocation_by_addr(Caller, ptr) # {}
  /\ object' = [object EXCEPT
                  ![Caller].allocations = process_allocation_unjoin(@, ptr)]
  /\ heap' = heap \ {ptr}
  /\ UNCHANGED <<processes, focus, tasks, runner, phase, loads, lost>>

\* process_unlink: the table without p, and the process that gets its focus.
Unlinked(p) == [processes EXCEPT ![object[p].id] = NULL]

\* Faulty variant: the focus stays where it is.
SwitchToNone(p) == focus

process_switch_to_any(p) ==
  LET rest == {i \in Slot : Unlinked(p)[i] # NULL}
  IN  IF focus # p THEN focus ELSE Unlinked(p)[Min(rest)]

\* The running process ends, by exit or by an exception.  Its struct is
\* zeroed before it is used again.
process_terminate ==
  LET p == runner
  IN  /\ InUser
      /\ \/ focus = p /\ Table = {p} /\ panic
         \/ /\ ~(focus = p /\ Table = {p})
            /\ heap' = heap \ Owned(p)
            /\ processes' = Unlinked(p)
            /\ focus' = process_switch_to_any(p)
            /\ tasks' = tasks \ {p}
            /\ runner' \in IF tasks' = {} THEN {NULL} ELSE tasks'
            /\ object' = [object EXCEPT ![p] = Zeroed]
            /\ UNCHANGED <<phase, lost>>
      /\ UNCHANGED loads

Next ==
  \/ \E n \in 1 .. MaxArguments : kernel_main(n)
  \/ \E file \in Files : isr80h_command6_process_load_start(file)
  \/ \E file \in Files, n \in 1 .. MaxArguments :
       isr80h_command7_invoke_system_command(file, n)
  \/ task_next
  \/ process_malloc
  \/ \E ptr \in Pointer : process_free(ptr)
  \/ process_terminate

Spec == Init /\ [][Next]_vars

-----------------------------------------------------------------------------
(* Properties                                                              *)

\* Every variable has its type.
TypeOK ==
  /\ heap \subseteq Addr
  /\ object \in [Addr -> [id : Slot, task : Pointer,
                          allocations : [Index -> Pointer],
                          filetype : {"ELF", "BINARY"}, elf_file : Pointer,
                          elf_memory : Pointer, stack : Pointer,
                          argc : Nat, argv : Pointer]]
  /\ processes \in [Slot -> Pointer]
  /\ focus \in Pointer /\ runner \in Pointer
  /\ tasks \subseteq Addr
  /\ phase \in {"boot", "user", "halted"}
  /\ loads \in 0 .. MaxLoads
  /\ lost \subseteq Addr

\* What the heap holds is what the processes of the table own, each address
\* exactly once, and what loads left behind: nothing else leaks, nothing is
\* freed twice and no two processes share memory, however loads, allocations,
\* frees and exits alternate.
Accounted ==
  /\ heap = lost \cup UNION {Owned(p) : p \in Table}
  /\ \A p \in Table :
       /\ Owned(p) \cap lost = {}
       /\ \A q \in Table \ {p} : Owned(p) \cap Owned(q) = {}
       /\ Cardinality(Owned(p)) =
            Cardinality({i \in Index : object[p].allocations[i] # NULL})
            + (IF p \in tasks THEN 5 ELSE 4)

\* Every process of the table is there once, under its id, the tasks are tasks
\* of such processes, and the focus is on one of them after any exit.
TableLinked ==
  /\ \A i \in Slot : processes[i] # NULL => object[processes[i]].id = i
  /\ tasks \subseteq Table
  /\ Table # {} => focus \in Table
  /\ phase = "user" => runner \in tasks \cup {NULL}

\* What one process does leaves the others with their table entry, their
\* struct and their memory.
OthersUntouched ==
  [][\A q \in Table \ {runner} :
       q \in Table' /\ object'[q] = object[q] /\ Owned(q) \subseteq heap']_vars
=============================================================================
