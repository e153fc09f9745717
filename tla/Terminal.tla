------------------------------ MODULE Terminal ------------------------------
(***************************************************************************)
(* The text terminal, terminal/terminal.c: what a character does to the     *)
(* cursor and to video memory.  Colours are left out, and the two kinds of  *)
(* empty cell, the space and the 0 of scrolled rows, look the same.         *)
(***************************************************************************)
EXTENDS Integers, SequencesExt

CONSTANTS
  Width,    \* VGA_WIDTH
  Height,   \* VGA_HEIGHT
  Range16,  \* number of values of a uint16_t
  Left,     \* what is on the screen's last row, which the kernel never clears
  MaxInt,   \* the largest int
  TextSize  \* size of itoa's text

\* The powers of 10.
Power[j \in 0 .. TextSize] == IF j = 0 THEN 1 ELSE 10 * Power[j - 1]

\* text has room for a sign, the digits of any int and the 0 at its end.
ASSUME TerminalAssumption ==
  /\ Width \in Nat \ (0 .. 2) /\ Height \in Nat \ {0}
  /\ MaxInt \in Nat /\ TextSize \in Nat \ {0, 1} /\ MaxInt + 1 < Power[TextSize - 2]
  /\ Range16 \in Nat /\ Range16 > (Height + 2) * Width

NL    == "NL"   \* and 0x0D
BS    == "BS"   \* 0x08
Blank == " "

\* Rows 0 .. Height are used; what is written elsewhere is not on the screen.
Cells    == 0 .. (Height + 1) * Width - 1
Cell(y, x) == (y * Width) + x

\* Faulty variant: the last row is not cleared.
ScrollKeepsLast(video) ==
  [i \in Cells |-> IF i % Width < Width - 2 /\ i \div Width < Height
                     THEN video[i + Width] ELSE video[i]]

\* The columns from Width - 2 on are not scrolled.
terminal_scroll_down(video) ==
  [i \in Cells |-> IF i % Width >= Width - 2 THEN video[i]
                   ELSE IF i \div Width < Height THEN video[i + Width]
                   ELSE Blank]

Scrolled(t) ==
  IF t.row <= Height THEN t
  ELSE [t EXCEPT !.video = terminal_scroll_down(@), !.row = @ - 1]

terminal_putchar(video, x, y, c) ==
  [i \in Cells |-> IF i = Cell(y, x) THEN c ELSE video[i]]

\* Faulty variant: the column comes back one later.
WrapsLate(t) ==
  IF t.col < Width - 1 THEN [t EXCEPT !.col = @ + 1]
  ELSE [t EXCEPT !.col = 0, !.row = (@ + 1) % Range16]

Advanced(t) ==
  IF t.col < Width - 2 THEN [t EXCEPT !.col = @ + 1]
  ELSE [t EXCEPT !.col = 0, !.row = (@ + 1) % Range16]

\* A character that is shown.
Show(t, c) ==
  LET s == Scrolled(t)
  IN  Advanced([s EXCEPT !.video = terminal_putchar(@, s.col, s.row, c)])

\* Faulty variant: the columns are not of 16 bits.
BackspaceUnbounded(t) ==
  LET back == IF t.col = 1 THEN [t EXCEPT !.col = Width - 2, !.row = @ - 1]
              ELSE [t EXCEPT !.col = @ - 1]
  IN  IF t.row = 0 /\ t.col = 0 THEN t
      ELSE [Show(back, Blank) EXCEPT !.col = @ - 1]

\* A space is shown one column back, and the cursor goes back over it; both
\* columns are 16-bit subtractions.
terminal_backspace(t) ==
  LET back == IF t.col = 1
                THEN [t EXCEPT !.col = Width - 2, !.row = (@ - 1) % Range16]
                ELSE [t EXCEPT !.col = (@ - 1) % Range16]
  IN  IF t.row = 0 /\ t.col = 0 THEN t
      ELSE [Show(back, Blank) EXCEPT !.col = (@ - 1) % Range16]

terminal_writechar(t, c) ==
  LET s == Scrolled(t)
  IN  CASE c = NL -> [s EXCEPT !.row = (@ + 1) % Range16, !.col = 0]
        [] c = BS -> terminal_backspace(s)
        [] OTHER  -> Show(s, c)

\* The terminal after each character of a string.
Printing(t, str) ==
  LET after[k \in 0 .. Len(str)] ==
        IF k = 0 THEN t ELSE terminal_writechar(after[k - 1], str[k])
  IN  after

print(t, str) == Printing(t, str)[Len(str)]

Int32  == (-MaxInt - 1) .. MaxInt
Digits == <<"0", "1", "2", "3", "4", "5", "6", "7", "8", "9">>

\* Faulty variant: the case of no digits is left out.
ZeroIsEmpty(i) ==
  LET digits[n \in -MaxInt - 1 .. 0] ==
        IF n = 0 THEN <<>>
        ELSE Append(digits[-((-n) \div 10)], Digits[((-n) % 10) + 1])
  IN  (IF i < 0 THEN <<"-">> ELSE <<>>) \o digits[IF i >= 0 THEN -i ELSE i]

\* Of i and -i the one that is not positive, which no int is too small for,
\* digit by digit; / and % cut towards 0.
itoa(i) ==
  LET digits[n \in -MaxInt - 1 .. 0] ==
        IF n = 0 THEN <<>>
        ELSE Append(digits[-((-n) \div 10)], Digits[((-n) % 10) + 1])
      text == digits[IF i >= 0 THEN -i ELSE i]
  IN  (IF i < 0 THEN <<"-">> ELSE <<>>) \o (IF text = <<>> THEN <<"0">> ELSE text)

\* Rows 0 .. Height - 1 are cleared, and the greeting is printed.
terminal_initialize(greeting) ==
  print([video |-> [i \in Cells |-> IF i < Height * Width THEN Blank ELSE Left],
         row |-> 0, col |-> 0],
        Append(greeting, NL))
=============================================================================
