------------------------------ MODULE KeyQueue ------------------------------
(***************************************************************************)
(* What the keyboard promises: every process has a queue of unread          *)
(* characters.  A key goes to the process in focus, a running process reads *)
(* its own oldest one.                                                      *)
(***************************************************************************)
EXTENDS Integers, Sequences, FiniteSetsExt

CONSTANTS
  Slot,   \* positions of the process table
  Chars   \* characters a key can produce

VARIABLES
  queue,  \* the unread characters of each process, oldest first
  alive,  \* slots of the processes that exist
  focus,  \* the process in focus
  runner, \* the process whose task runs
  key     \* what the last request for a key returned, and to whom

vars == <<queue, alive, focus, runner, key>>

None == [slot |-> -1, char |-> 0]

Init ==
  /\ queue = [p \in Slot |-> <<>>]
  /\ alive = {0, 1} /\ focus = 1 /\ runner = 0
  /\ key = None

Type(c) ==
  /\ queue' = [queue EXCEPT ![focus] = Append(@, c)]
  /\ UNCHANGED <<alive, focus, runner, key>>

Read ==
  LET unread == queue[runner]
  IN  /\ queue' = [queue EXCEPT ![runner] =
                     IF unread = <<>> THEN <<>> ELSE Tail(unread)]
      /\ key' = [slot |-> runner,
                 char |-> IF unread = <<>> THEN 0 ELSE Head(unread)]
      /\ UNCHANGED <<alive, focus, runner>>

Run(p) ==
  /\ p \in alive
  /\ runner' = p
  /\ UNCHANGED <<queue, alive, focus, key>>

\* A new process starts with nothing to read and takes the focus.
Start(p) ==
  /\ p \notin alive
  /\ queue' = [queue EXCEPT ![p] = <<>>]
  /\ alive' = alive \cup {p} /\ focus' = p /\ runner' = p
  /\ UNCHANGED key

End ==
  /\ alive' = alive \ {runner}
  /\ focus' = IF focus = runner /\ alive' # {} THEN Min(alive') ELSE focus
  /\ runner' \in IF alive' = {} THEN {runner} ELSE alive'
  /\ UNCHANGED <<queue, key>>

Next ==
  /\ alive # {}
  /\ \/ \E c \in Chars : Type(c)
     \/ Read
     \/ \E p \in Slot : Run(p) \/ Start(p)
     \/ End

Spec == Init /\ [][Next]_vars
=============================================================================
