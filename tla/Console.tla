------------------------------- MODULE Console -------------------------------
(***************************************************************************)
(* The shell at its terminal: programs/shell/src/shell.c with the readline  *)
(* and the command parser of the user library, and other programs that      *)
(* print on the same terminal.  A system call is one step; between the      *)
(* calls of the shell any other program may run.  Keys are those that       *)
(* getkey returns; the module Keyboard says which those are.                *)
(***************************************************************************)
EXTENDS Terminal, FiniteSetsExt

CONSTANTS
  Chars,        \* characters on keys
  Outputs,      \* strings that other programs print with one call
  Codes,        \* exit codes
  Greeting,     \* what the kernel prints when the terminal is initialised
  Banner,       \* what the shell prints when it starts
  Prefix,       \* current_path
  LineSize,     \* size of the part of buf that readline fills
  MaxArgument,  \* size of struct command_argument's argument
  MaxKeys,      \* bound on the keys that are read
  MaxOutputs    \* bound on what other programs print

CR  == "CR"
NUL == "NUL"

ASSUME ConsoleAssumption ==
  /\ Codes \subseteq Int32 /\ TextSize < Width
  /\ LineSize \in Nat \ {0} /\ MaxArgument \in Nat \ {0}
  /\ MaxKeys \in Nat /\ MaxOutputs \in Nat
  /\ {Greeting, Banner, Prefix} \cup Outputs \subseteq Seq(STRING)
  /\ BS \notin Range(Greeting)
  /\ Prefix # <<>> /\ Prefix[1] # Blank
  /\ {NL, BS, CR, NUL} \cap (Chars \cup Range(Prefix)) = {}

VARIABLES
  screen,   \* video_mem, terminal_row, terminal_col
  phase,    \* "read" in readline, "run" between readline and system_run
  pending,  \* strings the shell is about to print, a call each
  line,     \* what readline has put into buf behind the path
  args,     \* the arguments of the last command
  sp,       \* the static position of strtok, 0 for NULL
  keys, outputs,  \* how many keys were read, how often others printed
  command,  \* history: the last command
  page,     \* history: the lines printed so far, as they should look
  strayed,  \* history: a backspace was printed in the first two columns
  mixed     \* history: since the prompt was begun another program printed, or
            \* a backspace was typed on the empty line, which erases the prompt

shell == <<phase, pending, line, args, sp, keys, command>>
vars  == <<screen, shell, outputs, page, strayed, mixed>>

Key    == Chars \cup {BS, CR}
Prompt == Prefix \o <<">", Blank>>

-----------------------------------------------------------------------------
(* What a reader expects on a terminal                                     *)

\* A line that is full is followed by another; backspace removes a character
\* of the last line.
Written(lines, c) ==
  LET n     == Len(lines)
      added == [lines EXCEPT ![n] = Append(@, c)]
  IN  CASE c = NL -> Append(lines, <<>>)
        [] c = BS -> IF lines[n] = <<>> THEN lines
                     ELSE [lines EXCEPT ![n] = Front(@)]
        [] OTHER  -> IF Len(lines[n]) = Width - 2 THEN Append(added, <<>>) ELSE added

\* The lines after each character of a string.
Writing(lines, str) ==
  LET after[k \in 0 .. Len(str)] ==
        IF k = 0 THEN lines ELSE Written(after[k - 1], str[k])
  IN  after

written(lines, str) == Writing(lines, str)[Len(str)]

\* A backspace in the first two columns, but not in the corner.
Strays(t, c) == c = BS /\ t.col \in {0, 1} /\ <<t.row, t.col>> # <<0, 0>>

Prints(str) ==
  /\ screen' = print(screen, str)
  /\ page' = written(page, str)
  /\ strayed' = \/ strayed
                \/ \E k \in 1 .. Len(str) : Strays(Printing(screen, str)[k - 1], str[k])

-----------------------------------------------------------------------------
(* Parsing                                                                 *)

\* From position i on, the first that holds one of chars, or one not in chars.
FirstIn(buf, i, chars)  == Min({j \in i .. Len(buf) : buf[j] \in chars})
FirstNot(buf, i, chars) == Min({j \in i .. Len(buf) : buf[j] \notin chars})

\* Faulty variant: sp stays at the end of the string.
EndStays(s, str) ==
  LET start == FirstNot(s.buf, IF s.sp = 0 THEN str ELSE s.sp, {Blank})
      stop  == FirstIn(s.buf, start, {Blank, NUL})
  IN  IF str = 0 /\ s.sp = 0 THEN [s EXCEPT !.token = 0]
      ELSE IF s.buf[start] = NUL THEN [s EXCEPT !.sp = start, !.token = 0]
      ELSE [buf   |-> [s.buf EXCEPT ![stop] = NUL],
            sp    |-> IF s.buf[stop] = NUL THEN stop ELSE stop + 1,
            token |-> start]

\* The buffer, sp and the token found, as positions; 0 is NULL.  A string that
\* is given counts only when sp is NULL.
strtok(s, str) ==
  LET start == FirstNot(s.buf, IF s.sp = 0 THEN str ELSE s.sp, {Blank})
      stop  == FirstIn(s.buf, start, {Blank, NUL})
  IN  IF str = 0 /\ s.sp = 0 THEN [s EXCEPT !.token = 0]
      ELSE IF s.buf[start] = NUL THEN [s EXCEPT !.sp = 0, !.token = 0]
      ELSE [buf   |-> [s.buf EXCEPT ![stop] = NUL],
            sp    |-> IF s.buf[stop] = NUL THEN stop ELSE stop + 1,
            token |-> start]

\* strncpy into an array of size bytes.
strncpy(str, size) == SubSeq(str, 1, Min({Len(str), size - 1}))

\* Tokens are taken until there is none; the arguments and the sp that is left.
peachos_parse_command(str) ==
  LET buf == Append(str, NUL)
      s[k \in 0 .. Len(buf)] ==
        IF k = 0 THEN strtok([buf |-> buf, sp |-> sp, token |-> 0], 1)
                 ELSE strtok(s[k - 1], 0)
      count == Min({k \in 0 .. Len(buf) : s[k].token = 0})
      argument(k) == LET at == s[k].token
                     IN  SubSeq(s[k].buf, at, FirstIn(s[k].buf, at, {NUL}) - 1)
  IN  [arguments |-> [k \in 1 .. count |-> strncpy(argument(k - 1), MaxArgument)],
       sp |-> s[count].sp]

-----------------------------------------------------------------------------
(* Steps                                                                   *)

\* printf("%s> ", current_path)
PromptCalls == <<Prefix, <<">">>, <<Blank>>>>

Init ==
  /\ screen = terminal_initialize(Greeting)
  /\ page = written(<<<<>>>>, Append(Greeting, NL))
  /\ phase = "read"
  /\ pending = <<Banner, <<NL>>>> \o PromptCalls
  /\ line = <<>>
  /\ args = <<>> /\ sp = 0 /\ command = <<>>
  /\ keys = 0 /\ outputs = 0
  /\ strayed = FALSE /\ mixed = FALSE

\* print and putchar of the shell.
shell_prints ==
  /\ pending # <<>>
  /\ Prints(Head(pending))
  /\ pending' = Tail(pending)
  /\ UNCHANGED <<phase, line, args, sp, keys, command, outputs, mixed>>

Interferes(str) ==
  /\ outputs < MaxOutputs /\ outputs' = outputs + 1
  /\ Prints(str)
  /\ mixed' = TRUE
  /\ UNCHANGED shell

\* print and putchar of another program.
other_prints(str) == Interferes(str)

\* Another process ends, and the kernel says with which exit code.
isr80h_command0_process_exit(code) == Interferes(<<NL>> \o itoa(code) \o <<NL>>)

\* The end of the line, and println("").
LineEnds ==
  /\ phase' = "run"
  /\ pending' = <<<<NL>>, <<NL>>>>
  /\ UNCHANGED line

\* Faulty variant: the character stays in the buffer.
KeepLast(str) == str

Shortened(str) == Front(str)

\* One iteration: a key is read and echoed.  A backspace on the empty line is
\* a character like any other.
readline_key(key) ==
  /\ phase = "read" /\ pending = <<>>
  /\ Len(line) < LineSize - 1
  /\ keys < MaxKeys /\ keys' = keys + 1
  /\ \/ key = CR /\ LineEnds
     \/ /\ key = BS /\ line # <<>>
        /\ line' = Shortened(line)
        /\ pending' = <<<<BS>>>>
        /\ UNCHANGED phase
     \/ /\ key # CR /\ ~(key = BS /\ line # <<>>)
        /\ line' = Append(line, key)
        /\ pending' = <<<<key>>>>
        /\ UNCHANGED phase
  /\ mixed' = (mixed \/ (key = BS /\ line = <<>>))
  /\ UNCHANGED <<screen, args, sp, command, outputs, page, strayed>>

\* The buffer is full: the line ends without Enter.
readline_full ==
  /\ phase = "read" /\ pending = <<>>
  /\ Len(line) = LineSize - 1
  /\ LineEnds
  /\ UNCHANGED <<screen, args, sp, command, keys, outputs, page, strayed, mixed>>

\* The command is parsed and handed to the kernel.  The shell goes on, whether
\* or not a program was started: println("") and the next prompt.
peachos_system_run ==
  /\ phase = "run" /\ pending = <<>>
  /\ command' = Prefix \o line
  /\ LET parsed == peachos_parse_command(Prefix \o line)
     IN  args' = parsed.arguments /\ sp' = parsed.sp
  /\ phase' = "read"
  /\ line' = <<>>
  /\ pending' = <<<<NL>>>> \o PromptCalls
  /\ mixed' = FALSE
  /\ UNCHANGED <<screen, keys, outputs, page, strayed>>

Next ==
  \/ shell_prints
  \/ \E str \in Outputs : other_prints(str)
  \/ \E code \in Codes : isr80h_command0_process_exit(code)
  \/ \E key \in Key : readline_key(key)
  \/ readline_full
  \/ peachos_system_run

Spec == Init /\ [][Next]_vars

-----------------------------------------------------------------------------
(* Properties                                                              *)

\* What can be on the screen.
Shown == Chars \cup {Blank, Left, "-"} \cup Range(Digits) \cup Range(Greeting)
           \cup Range(Banner) \cup Range(Prompt) \cup UNION {Range(str) : str \in Outputs}

Uint16 == 0 .. Range16 - 1

\* Every variable has its type, the cursor that of a uint16_t, and strtok's
\* position lies in the string that was parsed.
TypeOK ==
  /\ screen \in [video : [Cells -> Shown], row : Uint16, col : Uint16]
  /\ phase \in {"read", "run"}
  /\ Len(line) <= LineSize - 1 /\ Range(line) \subseteq Chars \cup {BS}
  /\ sp \in 0 .. Len(Prefix) + LineSize
  /\ keys \in 0 .. MaxKeys /\ outputs \in 0 .. MaxOutputs
  /\ {strayed, mixed} \subseteq BOOLEAN

\* What a reader expects in a column of a line, counted from 0.  Behind the end
\* of line Height there may be what its row was left with.
Expected(lines, l, x) ==
  IF l < Len(lines) /\ x < Len(lines[l + 1]) THEN {lines[l + 1][x + 1]}
  ELSE IF l = Height THEN {Blank, Left} ELSE {Blank}

ShowsLines(t, lines) ==
  LET last == Len(lines) - 1
      top  == last - t.row
  IN  /\ t.col = Len(lines[last + 1])
      /\ 0 <= top /\ t.row <= Height + 1
      /\ top > 0 => t.row >= Height
      /\ \A y \in 0 .. Height, x \in 0 .. Width - 3 :
           t.video[Cell(y, x)] \in Expected(lines, top + y, x)

\* The screen shows the end of what was printed, line by line, whoever printed
\* it, through wrapped lines, backspaces and scrolling, and the cursor is
\* behind its last character, as long as no backspace was printed in the first
\* two columns; the last column that is written to is left out, since it is
\* not scrolled (terminal/terminal.c:12, terminal/terminal.c:43).
ScreenShowsPage == ~strayed => ShowsLines(screen, page)

\* The user sees what will be run: while a line is read, the page ends with
\* the prompt and what readline holds, unless another program printed in
\* between or the prompt was erased (programs/stdlib/src/peachos.c:33).
EchoIsLine ==
  phase = "read" /\ pending = <<>> /\ ~mixed /\ ~strayed
    => IsSuffix(Prompt \o line, FlattenSeq(page))

\* Where the words of a string begin, and the word that begins there.
Starts(str) ==
  {i \in DOMAIN str : str[i] # Blank /\ (i = 1 \/ str[i - 1] = Blank)}
Word(str, i) ==
  SubSeq(str, i, Max({j \in i .. Len(str) : \A l \in i .. j : str[l] # Blank}))

\* The arguments of a command are its words in their order, cut to the size of
\* an argument, however many spaces are around them, and whatever was parsed
\* before (programs/stdlib/src/string.c:301).
ArgumentsAreWords ==
  LET Place(i) == Cardinality({j \in Starts(command) : j <= i})
  IN  /\ Len(args) = Cardinality(Starts(command))
      /\ \A i \in Starts(command) :
           args[Place(i)] = strncpy(Word(command, i), MaxArgument)

\* The number that digits stand for.
Value(digits) ==
  LET digit(c) == CHOOSE d \in 0 .. 9 : Digits[d + 1] = c
      value[k \in 0 .. Len(digits)] ==
        IF k = 0 THEN 0 ELSE (10 * value[k - 1]) + digit(digits[k])
  IN  value[Len(digits)]

\* The line of an exit code is its decimal numeral, the smallest int and 0
\* included, and with its end it fits into text (string/string.c:129).
CodeIsShown ==
  [][\A code \in Codes : isr80h_command0_process_exit(code) =>
       LET text   == page'[Len(page') - 1]
           digits == IF code < 0 THEN Tail(text) ELSE text
       IN  /\ Len(text) < TextSize
           /\ digits # <<>> /\ Range(digits) \subseteq Range(Digits)
           /\ digits[1] = "0" => code = 0 /\ Len(digits) = 1
           /\ code < 0 <=> text[1] = "-"
           /\ Value(digits) = IF code < 0 THEN -code ELSE code]_vars
=============================================================================
