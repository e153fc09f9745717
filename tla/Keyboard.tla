------------------------------ MODULE Keyboard ------------------------------
(***************************************************************************)
(* The keyboard: the PS/2 driver of keyboard/classic.c, the ring buffer in  *)
(* every struct process that keyboard/keyboard.c fills and empties, and the *)
(* system call that reads it.                                               *)
(*                                                                         *)
(* The interrupt pushes to the process in focus (current_process), whatever *)
(* task it interrupted; the system call pops for the process of the running *)
(* task.  Interrupts are off in the kernel, so each of them is one step.    *)
(***************************************************************************)
EXTENDS Integers, Sequences, FiniteSetsExt

CONSTANTS
  Slots,                  \* PEACHOS_MAX_PROCESSES
  Size,                   \* PEACHOS_KEYBOARD_BUFFER_SIZE
  IntRange,               \* the number of values of an int
  keyboard_scan_set_one,  \* the table, from scan codes to characters
  Beyond,                 \* what the byte after the table may hold
  CAPSLOCK,               \* CLASSIC_KEYBOARD_CAPSLOCK
  KEY_RELEASED,           \* CLASSIC_KEYBOARD_KEY_RELEASED
  TypeAhead               \* unread characters after which the user waits

TableSize == Cardinality(DOMAIN keyboard_scan_set_one)
Byte      == 0 .. 2 * KEY_RELEASED - 1

ASSUME KeyboardAssumption ==
  /\ Slots \in Nat \ {0, 1}
  /\ Size \in Nat \ {0}
  /\ IntRange \in Nat /\ IntRange > Size /\ IntRange % Size = 0
  /\ KEY_RELEASED \in Nat \ {0}
  /\ IsFiniteSet(DOMAIN keyboard_scan_set_one)
  /\ DOMAIN keyboard_scan_set_one = 0 .. TableSize - 1
  /\ TableSize < KEY_RELEASED
  /\ \A s \in 0 .. TableSize - 1 : keyboard_scan_set_one[s] \in 0 .. 127
  /\ Beyond \subseteq 0 .. 127
  /\ CAPSLOCK \in 0 .. KEY_RELEASED - 1
  /\ TypeAhead \in 1 .. IntRange - 1

VARIABLES
  keyboard,  \* process->keyboard of every slot of the process table
  alive,     \* slots of the processes that exist
  focus,     \* current_process
  runner,    \* task_current()->process
  capslock,  \* classic_keyboard.capslock_state
  key        \* what the last getkey returned, and to whom

vars == <<keyboard, alive, focus, runner, capslock, key>>

Slot  == 0 .. Slots - 1
Cells == 0 .. Size - 1

Empty == [buffer |-> [i \in Cells |-> 0], head |-> 0, tail |-> 0]
None  == [slot |-> -1, char |-> 0]

-----------------------------------------------------------------------------
(* The ring buffer                                                         *)

keyboard_get_tail_index(k) == k.tail % Size

\* There is no test for a full buffer.
keyboard_push(k, c) ==
  IF c = 0 THEN k
  ELSE [k EXCEPT !.buffer[keyboard_get_tail_index(k)] = c,
                 !.tail = (@ + 1) % IntRange]

\* What keyboard_pop returns, and what it leaves.
HeadChar(k) == k.buffer[k.head % Size]

\* Faulty variants: the character stays in the buffer; head stays put.
PopLeavesChar(k) ==
  IF HeadChar(k) = 0 THEN k ELSE [k EXCEPT !.head = (@ + 1) % IntRange]

PopKeepsHead(k) ==
  IF HeadChar(k) = 0 THEN k ELSE [k EXCEPT !.buffer[k.head % Size] = 0]

keyboard_pop(k) ==
  IF HeadChar(k) = 0 THEN k
  ELSE [k EXCEPT !.buffer[k.head % Size] = 0,
                 !.head = (@ + 1) % IntRange]

\* The characters between head and tail, oldest first.
Unread(k)   == (k.tail - k.head) % IntRange
Contents(k) == [i \in 1 .. Unread(k) |-> k.buffer[(k.head + i - 1) % Size]]

-----------------------------------------------------------------------------
(* Scan codes                                                              *)

is_ascii_char(c) == c \in 65 .. 122
tolower(c)       == IF c \in 65 .. 90 THEN c + 32 ELSE c

Cased(c) == IF ~capslock /\ is_ascii_char(c) THEN tolower(c) ELSE c

\* The characters a scan code can stand for: the code that equals the size of
\* the table is let through and reads the byte after it.
classic_keyboard_scancode_to_char(scancode) ==
  IF scancode > TableSize THEN {0}
  ELSE IF scancode = TableSize THEN {Cased(c) : c \in Beyond}
  ELSE {Cased(keyboard_scan_set_one[scancode])}

-----------------------------------------------------------------------------
(* Steps                                                                   *)

\* kernel_main has loaded two programs; the second has the focus and the
\* first runs.
Init ==
  /\ keyboard = [p \in Slot |-> Empty]
  /\ alive = {0, 1}
  /\ focus = 1
  /\ runner = 0
  /\ capslock = FALSE
  /\ key = None

Released(scancode) ==
  /\ scancode >= KEY_RELEASED
  /\ UNCHANGED <<keyboard, capslock>>

Capslock(scancode) ==
  /\ scancode = CAPSLOCK
  /\ capslock' = ~capslock
  /\ UNCHANGED keyboard

Pressed(scancode) ==
  /\ scancode < KEY_RELEASED
  /\ scancode # CAPSLOCK
  /\ Unread(keyboard[focus]) < TypeAhead
  /\ \E c \in classic_keyboard_scancode_to_char(scancode) :
       keyboard' = [keyboard EXCEPT ![focus] = keyboard_push(@, c)]
  /\ UNCHANGED capslock

\* A key goes down or up while some task runs.
classic_keyboard_handle_interrupt(scancode) ==
  /\ runner \in alive
  /\ Released(scancode) \/ Capslock(scancode) \/ Pressed(scancode)
  /\ UNCHANGED <<alive, focus, runner, key>>

\* The system call of the running process p.
isr80h_command3_getkey(p) ==
  /\ runner = p
  /\ p \in alive
  /\ key' = [slot |-> p, char |-> HeadChar(keyboard[p])]
  /\ keyboard' = [keyboard EXCEPT ![p] = keyboard_pop(@)]
  /\ UNCHANGED <<alive, focus, runner, capslock>>

\* The timer gives the CPU to another task; the module Task says to which.
task_next(p) ==
  /\ runner \in alive
  /\ p \in alive
  /\ p # runner
  /\ runner' = p
  /\ UNCHANGED <<keyboard, alive, focus, capslock, key>>

\* A program is loaded into the first free slot: its struct process comes from
\* kzalloc, it takes the focus and runs.
process_load_switch(p) ==
  /\ runner \in alive
  /\ alive # Slot
  /\ p = Min(Slot \ alive)
  /\ keyboard' = [keyboard EXCEPT ![p] = Empty]
  /\ alive' = alive \cup {p}
  /\ focus' = p
  /\ runner' = p
  /\ UNCHANGED <<capslock, key>>

\* Faulty variant: the focus stays on the process that ended.
FocusStays(rest) == focus

\* The focus goes to the first process of the table if it was the running
\* process's.
process_unlink(rest) ==
  IF focus = runner /\ rest # {} THEN Min(rest) ELSE focus

\* The running process ends.  After the last one the kernel has panicked.
process_terminate ==
  /\ runner \in alive
  /\ alive' = alive \ {runner}
  /\ focus' = process_unlink(alive')
  /\ runner' \in IF alive' = {} THEN {runner} ELSE alive'
  /\ UNCHANGED <<keyboard, capslock, key>>

Next ==
  \/ \E scancode \in Byte : classic_keyboard_handle_interrupt(scancode)
  \/ \E p \in Slot : isr80h_command3_getkey(p)
  \/ \E p \in Slot : task_next(p)
  \/ \E p \in Slot : process_load_switch(p)
  \/ process_terminate

Spec == Init /\ [][Next]_vars

\* Every task gets the CPU again (Task!EveryTaskRuns), and a program that waits
\* in peachos_getkeyblock asks for a key whenever it has it.
Fairness ==
  \A p \in Slot : WF_vars(task_next(p)) /\ SF_vars(isr80h_command3_getkey(p))

FairSpec == Spec /\ Fairness

-----------------------------------------------------------------------------
(* Properties                                                              *)

\* Every variable has its type; the focus is on a process that exists.
TypeOK ==
  /\ keyboard \in [Slot -> [buffer : [Cells -> 0 .. 127],
                            head : 0 .. IntRange - 1,
                            tail : 0 .. IntRange - 1]]
  /\ alive \subseteq Slot
  /\ focus \in Slot /\ runner \in Slot
  /\ alive # {} => focus \in alive /\ runner \in alive
  /\ capslock \in BOOLEAN
  /\ key \in [slot : Slot \cup {-1}, char : 0 .. 127]

\* The characters the keys of this keyboard produce.
KeyChars ==
  LET codes == {keyboard_scan_set_one[s] : s \in 0 .. TableSize - 1} \cup Beyond
  IN  (codes \cup {tolower(c) : c \in codes}) \ {0}

Queues == INSTANCE KeyQueue WITH
            Chars <- KeyChars,
            queue <- [p \in Slot |-> Contents(keyboard[p])]

\* As long as no more than the buffer's size is typed ahead, the ring buffers
\* are first-in first-out queues, one for each process: no key is lost,
\* repeated, reordered or read by a process that did not have the focus,
\* around the end of the buffer and around the end of the int as well.
ImplementsKeyQueue == Queues!Spec

\* A process that waits for keys gets all that were typed for it, once the
\* user pauses: as long as no more than the buffer's size is typed ahead.
TypedIsRead ==
  (<>[][\A p \in Slot : keyboard'[p].tail \in {keyboard[p].tail, 0}]_vars) =>
    \A p \in Slot :
      [](p \in alive => <>(Unread(keyboard[p]) = 0 \/ p \notin alive))
=============================================================================
