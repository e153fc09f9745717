-------------------------------- MODULE Task --------------------------------
(***************************************************************************)
(* Tasks and their scheduling: the linked list of task.c, the switch of     *)
(* task.asm, and the interrupt and system call entries of idt.c that save,  *)
(* switch, create and terminate tasks.                                      *)
(*                                                                         *)
(* A struct task is known by its address.  kfree leaves its fields as they  *)
(* are and a later kzalloc may hand the same address out again, so the      *)
(* fields of freed tasks are part of the state.  Every kernel entry runs    *)
(* with interrupts off: one entry is one step, from the instruction of user *)
(* code that was interrupted to the next one that runs.                     *)
(***************************************************************************)
EXTENDS Integers, Sequences, SequencesExt, FiniteSets

CONSTANTS
  Addr,           \* addresses the heap can give to a struct task
  NULL,
  MaxProcesses,   \* PEACHOS_MAX_PROCESSES
  Values,         \* contents of the registers, flags excepted
  Entry,          \* the contents task_init gives to a new task
  Flags           \* contents of EFLAGS, the interrupt bit excepted

ASSUME TaskAssumption ==
  /\ NULL \notin Addr
  /\ MaxProcesses \in Nat \ {0, 1}
  /\ Entry \in Values
  /\ NULL \notin Flags /\ Flags # {}

VARIABLES
  list,      \* next and prev of every struct task, task_head, task_tail and
             \* current_task
  regs,      \* task->registers
  cr3,       \* the task whose page directory is loaded
  cpu,       \* the registers of the running user program ...
  eflags,    \* ... and its flags
  phase,     \* "boot" in kernel_main, "user", or "halted" in panic
  orphans,   \* processes that are in the process table without a task
  order,     \* history: the tasks that exist, oldest first
  left,      \* history: the registers and flags each task had when the kernel
             \* last saved them
  damaged    \* history: a task was removed whose prev no longer was its
             \* predecessor, or no task was left to be current

vars == <<list, regs, cr3, cpu, eflags, phase, orphans, order, left, damaged>>

Pointer == Addr \cup {NULL}
Live    == Range(order)

-----------------------------------------------------------------------------
(* The list                                                                *)

\* Faulty variant: always the head of the list.
AlwaysHead(l) == l.head

\* Loops around at the end of the list.
task_get_next(l) ==
  IF l.next[l.current] = NULL THEN l.head ELSE l.next[l.current]

\* Faulty variant: task_tail is not changed.
RemoveKeepsTail(l, t) ==
  LET unlinked ==
        [l EXCEPT !.next = [b \in Addr |-> IF b = l.prev[t] THEN l.next[t]
                                                             ELSE l.next[b]],
                  !.head = IF t = l.head THEN l.next[t] ELSE l.head]
  IN  IF t = l.current
        THEN [unlinked EXCEPT !.current = task_get_next(unlinked)]
        ELSE unlinked

\* The next task's prev field is not changed.
task_list_remove(l, t) ==
  LET unlinked ==
        [next |-> [b \in Addr |-> IF b = l.prev[t] THEN l.next[t]
                                                   ELSE l.next[b]],
         prev |-> l.prev,
         head |-> IF t = l.head THEN l.next[t] ELSE l.head,
         tail |-> IF t = l.tail THEN l.prev[t] ELSE l.tail,
         current |-> l.current]
  IN  IF t = l.current
        THEN [unlinked EXCEPT !.current = task_get_next(unlinked)]
        ELSE unlinked

\* The fields are zero when the task is linked in at the end.
task_new(l, t) ==
  IF l.head = NULL
    THEN [next |-> [l.next EXCEPT ![t] = NULL],
          prev |-> [l.prev EXCEPT ![t] = NULL],
          head |-> t, tail |-> t, current |-> t]
    ELSE [l EXCEPT !.next = [b \in Addr |-> IF b = l.tail THEN t
                                            ELSE IF b = t THEN NULL
                                            ELSE l.next[b]],
                   !.prev[t] = l.tail,
                   !.tail = t]

task_switch(l, t) == [l EXCEPT !.current = t]

\* Where an existing task stands, and the task before it.
Position(t) == CHOOSE k \in DOMAIN order : order[k] = t
Before(t)   == IF Position(t) = 1 THEN NULL ELSE order[Position(t) - 1]

-----------------------------------------------------------------------------
(* Entering the kernel and leaving it                                      *)

\* User code runs and may enter the kernel.  What the CPU does with a task
\* that has been freed is outside the model.
InUser == phase = "user" /\ list.current \in Live

\* Faulty variants: a null frame is saved; nothing is saved.
SavesNull   == [regs EXCEPT ![list.current] = NULL]
SavesNothing == regs

\* task_current_save_state: the interrupt frame goes into the current task.
Saved == [regs EXCEPT ![list.current] = cpu]
Leave == left' = [left EXCEPT ![list.current] =
                    [cpu |-> cpu, eflags |-> eflags]]

\* task_return: the registers come from the struct, the flags from whatever
\* the kernel computed last.
task_return(r, t) ==
  /\ cpu' = r[t]
  /\ eflags' \in Flags

\* A new task has its entry point and no flags of its own yet.
Fresh == [cpu |-> Entry, eflags |-> NULL]

panic ==
  /\ phase' = "halted"
  /\ UNCHANGED <<cr3, cpu, eflags>>

\* Take the task after the current one of the list l and return to it.
task_next(l, r) ==
  LET next == task_get_next(l)
  IN  \/ /\ next = NULL
         /\ list' = l
         /\ panic
      \/ /\ next # NULL
         /\ list' = task_switch(l, next)
         /\ cr3' = next
         /\ task_return(r, next)
         /\ UNCHANGED phase

-----------------------------------------------------------------------------
(* Steps                                                                   *)

Init ==
  /\ list = [next |-> [a \in Addr |-> NULL], prev |-> [a \in Addr |-> NULL],
             head |-> NULL, tail |-> NULL, current |-> NULL]
  /\ regs = [a \in Addr |-> Entry]
  /\ cr3 = NULL
  /\ cpu = Entry
  /\ eflags \in Flags
  /\ phase = "boot"
  /\ orphans = 0
  /\ order = <<>>
  /\ left = [a \in Addr |-> Fresh]
  /\ damaged = FALSE

\* The task t is created and linked in.
Created(t) ==
  /\ t \notin Live
  /\ order' = Append(order, t)

\* kernel_main loads blank.elf twice; process_load_switch does not switch the
\* task.
kernel_main_load(t) ==
  /\ phase = "boot"
  /\ Len(order) < 2
  /\ Created(t)
  /\ list' = task_new(list, t)
  /\ regs' = [regs EXCEPT ![t] = Entry]
  /\ left' = [left EXCEPT ![t] = Fresh]
  /\ UNCHANGED <<cr3, cpu, eflags, phase, orphans, damaged>>

task_run_first_ever_task ==
  /\ phase = "boot"
  /\ Len(order) = 2
  /\ list' = task_switch(list, list.head)
  /\ cr3' = list.head
  /\ task_return(regs, list.head)
  /\ phase' = "user"
  /\ UNCHANGED <<regs, orphans, order, left, damaged>>

\* The running program computes.
compute ==
  /\ InUser
  /\ cpu' \in Values
  /\ eflags' \in Flags
  /\ UNCHANGED <<list, regs, cr3, phase, orphans, order, left, damaged>>

\* The timer: save, take the next task and return to it.
idt_clock ==
  /\ InUser
  /\ regs' = Saved
  /\ Leave
  /\ task_next(list, Saved)
  /\ UNCHANGED <<orphans, order, damaged>>

\* An interrupt that returns to the task it interrupted, by task_page and the
\* frame on the stack: the keyboard, or one without a callback, for which
\* nothing is saved.
interrupt_handler ==
  /\ InUser
  /\ \/ regs' = Saved /\ Leave
     \/ UNCHANGED <<regs, left>>
  /\ list' = task_switch(list, list.current)
  /\ cr3' = list.current
  /\ UNCHANGED <<cpu, eflags, phase, orphans, order, damaged>>

\* A system call that returns to its caller, with the result in eax.  A load
\* that finds no slot, no file or no valid ELF image is one.
isr80h_handler ==
  /\ InUser
  /\ regs' = Saved
  /\ Leave
  /\ list' = task_switch(list, list.current)
  /\ cr3' = list.current
  /\ cpu' \in Values
  /\ UNCHANGED <<eflags, phase, orphans, order, damaged>>

\* A program is loaded: isr80h_command6_process_load_start and
\* isr80h_command7_invoke_system_command switch to its task.
process_load_start(t) ==
  LET r == [Saved EXCEPT ![t] = Entry]
  IN  /\ InUser
      /\ Len(order) + orphans < MaxProcesses
      /\ Created(t)
      /\ list' = task_switch(task_new(list, t), t)
      /\ regs' = r
      /\ cr3' = t
      /\ task_return(r, t)
      /\ left' = [left EXCEPT ![list.current] =
                                [cpu |-> cpu, eflags |-> eflags],
                              ![t] = Fresh]
      /\ UNCHANGED <<phase, orphans, damaged>>

\* The task of a program whose memory cannot be mapped is created and freed
\* again; process_load_for_slot leaves the process in the table.
process_load_unmapped(t) ==
  /\ InUser
  /\ Len(order) + orphans < MaxProcesses
  /\ t \notin Live
  /\ list' = task_list_remove(task_new(list, t), t)
  /\ regs' = [Saved EXCEPT ![t] = Entry]
  /\ Leave
  /\ cr3' = list'.current
  /\ cpu' \in Values
  /\ orphans' = orphans + 1
  /\ UNCHANGED <<eflags, phase, order, damaged>>

\* The running task ends, by isr80h_command0_process_exit or by an exception
\* (idt_handle_exception): process_terminate frees the task, which already
\* makes the next one current, and task_next takes the one after that.
process_terminate ==
  LET t == list.current
      l == task_list_remove(list, t)
      lastProcess == Len(order) = 1 /\ orphans = 0
  IN  /\ InUser
      /\ regs' = Saved
      /\ Leave
      /\ order' = RemoveAt(order, Position(t))
      /\ damaged' = \/ damaged
                    \/ list.prev[t] # Before(t)
                    \/ l.current = NULL /\ ~lastProcess
      /\ \/ /\ lastProcess              \* process_switch_to_any finds none
            /\ list' = l
            /\ panic
         \/ /\ ~lastProcess
            /\ l.current = NULL         \* task_next reads through NULL
            /\ list' = l
            /\ cr3' = NULL
            /\ UNCHANGED <<cpu, eflags, phase>>
         \/ /\ ~lastProcess
            /\ l.current # NULL
            /\ task_next(l, Saved)
      /\ UNCHANGED orphans

\* kzalloc finds no memory in a system call, or the program divides by zero
\* (idt_zero): the kernel spins with interrupts off.
kernel_panic ==
  /\ InUser
  /\ regs' = Saved
  /\ Leave
  /\ panic
  /\ UNCHANGED <<list, orphans, order, damaged>>

Next ==
  \/ \E t \in Addr : kernel_main_load(t)
  \/ task_run_first_ever_task
  \/ compute
  \/ idt_clock
  \/ interrupt_handler
  \/ isr80h_handler
  \/ \E t \in Addr : process_load_start(t)
  \/ \E t \in Addr : process_load_unmapped(t)
  \/ process_terminate
  \/ kernel_panic

Spec == Init /\ [][Next]_vars

\* The timer keeps ticking while user code runs: task_return sets the
\* interrupt bit.
Fairness == WF_vars(idt_clock) /\ WF_vars(task_run_first_ever_task)
            /\ WF_vars(\E t \in Addr : kernel_main_load(t))

FairSpec == Spec /\ Fairness

-----------------------------------------------------------------------------
(* Properties                                                              *)

Context == [cpu : Values, eflags : Flags \cup {NULL}]
List    == [next : [Addr -> Pointer], prev : [Addr -> Pointer],
            head : Pointer, tail : Pointer, current : Pointer]

\* Every variable has its type.
TypeOK ==
  /\ list \in List
  /\ regs \in [Addr -> Values]
  /\ cr3 \in Pointer
  /\ cpu \in Values
  /\ eflags \in Flags
  /\ phase \in {"boot", "user", "halted"}
  /\ orphans \in Nat
  /\ order \in Seq(Addr)
  /\ left \in [Addr -> Context]
  /\ damaged \in BOOLEAN

\* The tasks of the sequence s, each exactly once, are what task_head, next
\* and task_tail chain together.
Chains(l, s) ==
  /\ \A i, j \in DOMAIN s : s[i] = s[j] => i = j
  /\ l.head = IF s = <<>> THEN NULL ELSE s[1]
  /\ l.tail = IF s = <<>> THEN NULL ELSE s[Len(s)]
  /\ \A i \in DOMAIN s :
       l.next[s[i]] = IF i = Len(s) THEN NULL ELSE s[i + 1]

\* The list holds the existing tasks, oldest first.
ListIsOrder == Chains(list, order)

\* While user code runs, the current task exists and its page directory is
\* the one that is loaded.
RunsCurrent ==
  phase = "user" => list.current \in Live /\ cr3 = list.current

\* As long as no task has ended whose predecessor ended before it, appending
\* and removing keep the list exact and the CPU on a task that exists.
Scheduled == ~damaged => ListIsOrder /\ RunsCurrent

\* A task that gets the CPU back goes on with the registers the kernel saved
\* for it (task_current_save_state), a new one at its entry point: nothing
\* that ran meanwhile changed them.
RegistersRestored ==
  [][\A a \in Live' :
       list.current # a /\ list'.current = a /\ phase' = "user" /\ InUser
         => cpu' = left'[a].cpu]_vars

\* "The next task in the linked list": following next from a task that exists
\* leads to a task that exists, or to the end.
NextIsTask == \A a \in Live : list.next[a] \in Live \cup {NULL}

\* If the tasks eventually stop ending, every task that exists gets the CPU
\* again and again, whatever is loaded and called, unless the kernel panics
\* or the list is damaged.
EveryTaskRuns ==
  (<>[][Len(order') >= Len(order)]_vars) =>
    \A a \in Addr :
      [](a \in Live => <>(list.current = a \/ a \notin Live
                          \/ phase = "halted" \/ damaged))
=============================================================================
