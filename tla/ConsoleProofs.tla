----------------------------- MODULE ConsoleProofs -----------------------------
(***************************************************************************)
(* Theorems about the terminal and the shell, for every size of the screen, *)
(* every alphabet and all that is printed and typed.                        *)
(***************************************************************************)
EXTENDS Console, Lemmas, SequenceTheorems

-----------------------------------------------------------------------------
(* Cells                                                                   *)

Sized == /\ Width \in Nat /\ Width > 2 /\ Height \in Nat /\ Height > 0
         /\ Range16 \in Nat /\ Range16 > Height + 2 /\ Range16 > Width

\* The screen is smaller than the numbers of its rows and columns can be.
LEMMA Sizes == Sized
<1>1. /\ Width \in Nat \ (0 .. 2) /\ Height \in Nat \ {0} /\ Range16 \in Nat
      /\ Range16 > (Height + 2) * Width
  BY TerminalAssumption
<1>2. Width \in Nat /\ Width > 2 /\ Height \in Nat /\ Height > 0
  BY <1>1
<1>3. PICK w : w = Width - 1
  OBVIOUS
<1>4. w \in Nat /\ Width = w + 1 /\ (Height + 2) * w \in Nat
  BY <1>2, <1>3
<1>5. (Height + 2) * Width = (Height + 2) * w + (Height + 2)
  BY <1>2, <1>4
<1>6. Range16 > Height + 2
  BY <1>1, <1>2, <1>4, <1>5
<1>7. (Height + 2) * Width = Height * Width + 2 * Width /\ Height * Width \in Nat
  BY <1>2
<1>8. Range16 > Width
  BY <1>1, <1>2, <1>7
<1> QED BY <1>1, <1>2, <1>6, <1>8 DEF Sized

\* A cell is in one row and one column.
LEMMA CellAt ==
  ASSUME NEW y \in 0 .. Height, NEW x \in 0 .. Width - 1
  PROVE  /\ Cell(y, x) \in Cells
         /\ Cell(y, x) % Width = x /\ Cell(y, x) \div Width = y
<1>1. Width \in Nat \ {0} /\ Height \in Nat
  BY Sizes DEF Sized
<1>2. PICK i : i = Width * y + x
  OBVIOUS
<1>3. Cell(y, x) = i
  BY <1>1, <1>2 DEF Cell
<1>4. i % Width = x /\ i \div Width = y
  BY <1>1, <1>2, DivMod
<1>5. i \in 0 .. (Height + 1) * Width - 1
  <2>1. PICK d : d = Height - y
    OBVIOUS
  <2>2. d \in Nat /\ Height = y + d /\ d * Width \in Nat /\ y * Width \in Nat
    BY <1>1, <2>1
  <2>3. (Height + 1) * Width = y * Width + d * Width + Width
    BY <1>1, <2>2
  <2> QED BY <1>1, <1>2, <2>2, <2>3
<1> QED BY <1>3, <1>4, <1>5 DEF Cells

\* A cell with a row below it.
LEMMA CellBelow ==
  ASSUME NEW y \in 0 .. Height - 1, NEW x \in 0 .. Width - 1
  PROVE  Cell(y, x) + Width = Cell(y + 1, x)
<1>1. Width \in Nat /\ y \in Nat
  BY Sizes DEF Sized
<1>2. (y + 1) * Width = y * Width + Width
  BY <1>1
<1> QED BY <1>1, <1>2 DEF Cell

-----------------------------------------------------------------------------
(* The terminal keeps its type                                             *)

Screens == [video : [Cells -> Shown], row : Uint16, col : Uint16]

\* What is printed: characters, the ends of lines and backspaces.
Printed == Shown \cup {NL, BS}

\* 16-bit arithmetic stays in 16 bits.
LEMMA Wraps ==
  ASSUME NEW i \in Int
  PROVE  i % Range16 \in Uint16
<1>1. Range16 \in Nat \ {0}
  BY Sizes DEF Sized
<1> QED BY <1>1 DEF Uint16

LEMMA ScrolledType ==
  ASSUME NEW t \in Screens
  PROVE  Scrolled(t) \in Screens
<1>1. t.video \in [Cells -> Shown] /\ t.row \in Uint16 /\ t.col \in Uint16
  BY DEF Screens
<1>2. PICK v : v = terminal_scroll_down(t.video)
  OBVIOUS
<1>3. v \in [Cells -> Shown]
  <2>1. \A i \in Cells : i % Width < Width - 2 /\ i \div Width < Height => i + Width \in Cells
    <3>1. ASSUME NEW i \in Cells, i % Width < Width - 2, i \div Width < Height
          PROVE  i + Width \in Cells
      <4>1. PICK y, x : y = i \div Width /\ x = i % Width
        OBVIOUS
      <4>2. Width \in Nat \ {0} /\ Height \in Nat
        BY Sizes DEF Sized
      <4>3. i \in Nat
        BY <4>2 DEF Cells
      <4>4. x \in 0 .. Width - 1 /\ i = Width * y + x /\ y \in Int
        BY <4>1, <4>2, <4>3
      <4>5. y >= 0
        BY <4>1, <4>2, <4>3
      <4>6. y \in 0 .. Height - 1 /\ y + 1 \in 0 .. Height
        BY <3>1, <4>1, <4>2, <4>4, <4>5
      <4>7. Cell(y, x) = i
        BY <4>2, <4>4 DEF Cell
      <4> QED BY <4>4, <4>6, <4>7, CellAt, CellBelow
    <3> QED BY <3>1
  <2>2. Blank \in Shown
    BY DEF Shown
  <2>3. \A i \in Cells : i % Width \in Int /\ i \div Width \in Int
    BY Sizes DEF Sized, Cells
  <2>4. PICK f : f = [i \in Cells |-> IF i % Width >= Width - 2 THEN t.video[i]
                                      ELSE IF i \div Width < Height THEN t.video[i + Width]
                                      ELSE Blank]
    OBVIOUS
  <2>5. v = f
    BY <1>2, <2>4 DEF terminal_scroll_down
  <2>6. \A i \in Cells : f[i] \in Shown
    <3>1. ASSUME NEW i \in Cells PROVE f[i] \in Shown
      <4>1. CASE i % Width >= Width - 2
        BY <1>1, <2>4, <4>1
      <4>2. CASE ~ (i % Width >= Width - 2) /\ i \div Width < Height
        <5>1. i + Width \in Cells
          BY <2>1, <2>3, <4>2, Sizes DEF Sized
        <5> QED BY <1>1, <2>4, <4>2, <5>1
      <4>3. CASE ~ (i % Width >= Width - 2) /\ ~ (i \div Width < Height)
        BY <2>2, <2>4, <4>3
      <4> QED BY <4>1, <4>2, <4>3
    <3> QED BY <3>1
  <2> QED BY <2>4, <2>5, <2>6
<1>4. ~ (t.row <= Height) => t.row - 1 \in Uint16
  BY <1>1, Sizes DEF Sized, Uint16
<1>5. CASE t.row <= Height
  BY <1>5 DEF Scrolled
<1>6. CASE ~ (t.row <= Height)
  <2>1. Scrolled(t) = [t EXCEPT !.video = v, !.row = @ - 1]
    BY <1>2, <1>6 DEF Scrolled
  <2> QED BY <1>3, <1>4, <1>6, <2>1 DEF Screens
<1> QED BY <1>5, <1>6

LEMMA ShowType ==
  ASSUME NEW t \in Screens, NEW c \in Shown
  PROVE  Show(t, c) \in Screens
<1>1. PICK s : s = Scrolled(t)
  OBVIOUS
<1>2. s \in Screens
  BY <1>1, ScrolledType
<1>3. PICK v : v = terminal_putchar(s.video, s.col, s.row, c)
  OBVIOUS
<1>4. v \in [Cells -> Shown]
  BY <1>2, <1>3 DEF terminal_putchar, Screens
<1>5. PICK u : u = [s EXCEPT !.video = v]
  OBVIOUS
<1>6. u \in Screens /\ u.col \in Uint16 /\ u.row \in Uint16
  BY <1>2, <1>4, <1>5 DEF Screens
<1>7. Advanced(u) \in Screens
  <2>1. (u.row + 1) % Range16 \in Uint16
    BY <1>6, Wraps, Sizes DEF Uint16, Sized
  <2>2. u.col < Width - 2 => u.col + 1 \in Uint16
    BY <1>6, Sizes DEF Uint16, Sized
  <2>3. 0 \in Uint16
    BY Sizes DEF Uint16, Sized
  <2> QED BY <1>6, <2>1, <2>2, <2>3 DEF Advanced, Screens
<1>8. Show(t, c) = Advanced(u)
  BY <1>1, <1>3, <1>5 DEF Show
<1> QED BY <1>7, <1>8

\* terminal_writechar, case by case.
LEMMA WriteCases ==
  ASSUME NEW t, NEW c
  PROVE  LET s == Scrolled(t)
         IN  /\ c = NL => terminal_writechar(t, c)
                            = [s EXCEPT !.row = (s.row + 1) % Range16, !.col = 0]
             /\ c = BS => terminal_writechar(t, c) = terminal_backspace(s)
             /\ c # NL /\ c # BS => terminal_writechar(t, c) = Show(s, c)
<1>1. NL # BS
  BY DEF NL, BS
<1>2. PICK s : s = Scrolled(t)
  OBVIOUS
<1>3. PICK a, b : a = [s EXCEPT !.row = (s.row + 1) % Range16, !.col = 0] /\ b = terminal_backspace(s)
  OBVIOUS
<1>4. terminal_writechar(t, c) = CASE c = NL -> a [] c = BS -> b [] OTHER -> Show(s, c)
  BY <1>2, <1>3 DEF terminal_writechar
<1> QED BY <1>1, <1>2, <1>3, <1>4

LEMMA WriteType ==
  ASSUME NEW t \in Screens, NEW c \in Printed
  PROVE  terminal_writechar(t, c) \in Screens
<1>1. PICK s : s = Scrolled(t)
  OBVIOUS
<1>2. s \in Screens /\ s.row \in Uint16 /\ s.col \in Uint16 /\ s.row \in Int /\ s.col \in Int
  BY <1>1, ScrolledType, Sizes DEF Screens, Uint16, Sized
<1>3. CASE c = NL
  <2>1. (s.row + 1) % Range16 \in Uint16 /\ 0 \in Uint16
    BY <1>2, Wraps, Sizes DEF Uint16, Sized
  <2>2. terminal_writechar(t, c) = [s EXCEPT !.row = (s.row + 1) % Range16, !.col = 0]
    BY <1>1, <1>3, WriteCases
  <2> QED BY <1>2, <2>1, <2>2 DEF Screens
<1>4. CASE c = BS
  <2>1. (s.row - 1) % Range16 \in Uint16 /\ (s.col - 1) % Range16 \in Uint16 /\ Width - 2 \in Uint16
    <3>1. s.row - 1 \in Int /\ s.col - 1 \in Int
      BY <1>2
    <3>2. (s.row - 1) % Range16 \in Uint16 /\ (s.col - 1) % Range16 \in Uint16
      BY <3>1, Wraps
    <3>3. Width - 2 \in Uint16
      BY Sizes DEF Uint16, Sized
    <3> QED BY <3>2, <3>3
  <2>2. PICK b : b = IF s.col = 1
                       THEN [s EXCEPT !.col = Width - 2, !.row = (@ - 1) % Range16]
                       ELSE [s EXCEPT !.col = (@ - 1) % Range16]
    OBVIOUS
  <2>3. b \in Screens
    BY <1>2, <2>1, <2>2 DEF Screens
  <2>4. PICK u : u = Show(b, Blank)
    OBVIOUS
  <2>5. u \in Screens /\ u.col \in Int
    BY <2>3, <2>4, ShowType, Sizes DEF Shown, Screens, Uint16, Sized
  <2>6. [u EXCEPT !.col = (@ - 1) % Range16] \in Screens
    <3>1. (u.col - 1) % Range16 \in Uint16
      BY <2>5, Wraps
    <3> QED BY <2>5, <3>1 DEF Screens
  <2>7. terminal_backspace(s) \in Screens
    BY <1>2, <2>2, <2>4, <2>6 DEF terminal_backspace
  <2> QED BY <1>1, <1>4, <2>7, WriteCases
<1>5. CASE c # NL /\ c # BS
  <2>1. Show(s, c) \in Screens
    BY <1>2, <1>5, ShowType DEF Printed
  <2> QED BY <1>1, <1>5, <2>1, WriteCases
<1> QED BY <1>3, <1>4, <1>5

-----------------------------------------------------------------------------
(* Lines                                                                   *)

\* Lines of text, the last of which is not full.
Pages == {lines \in Seq(Seq(Shown)) : lines # <<>> /\ Len(lines[Len(lines)]) <= Width - 2}

LEMMA PageParts ==
  ASSUME NEW lines \in Pages
  PROVE  LET n == Len(lines)
         IN  /\ n \in Nat /\ n > 0 /\ DOMAIN lines = 1 .. n
             /\ \A l \in 1 .. n : lines[l] \in Seq(Shown) /\ Len(lines[l]) \in Nat
             /\ Len(lines[n]) <= Width - 2
<1>1. PICK n : n = Len(lines)
  OBVIOUS
<1>2. lines \in Seq(Seq(Shown)) /\ lines # <<>> /\ Len(lines[n]) <= Width - 2
  BY <1>1 DEF Pages
<1>3. n \in Nat /\ n > 0 /\ DOMAIN lines = 1 .. n
  BY <1>1, <1>2
<1>4. \A l \in 1 .. n : lines[l] \in Seq(Shown)
  BY <1>1, <1>2
<1>5. \A l \in 1 .. n : Len(lines[l]) \in Nat
  BY <1>4
<1> QED BY <1>1, <1>2, <1>3, <1>4, <1>5

\* An empty line more changes nothing on the screen.
LEMMA EmptyLine ==
  ASSUME NEW lines \in Seq(Seq(Shown))
  PROVE  LET new == Append(lines, <<>>)
         IN  /\ new \in Pages
             /\ Len(new) = Len(lines) + 1 /\ Len(new[Len(lines) + 1]) = 0
             /\ \A l, x \in Nat : Expected(new, l, x) = Expected(lines, l, x)
<1>1. PICK n, new, S : n = Len(lines) /\ new = Append(lines, <<>>) /\ S = Seq(Shown)
  OBVIOUS
<1>2. lines \in Seq(S) /\ <<>> \in S /\ n \in Nat
  BY <1>1
<1>3. /\ new \in Seq(S) /\ new # <<>> /\ Len(new) = n + 1
      /\ \A l \in 1 .. n : new[l] = lines[l]
      /\ new[n + 1] = <<>>
  BY <1>1, <1>2, AppendProperties
<1>4. Len(new[n + 1]) = 0
  BY <1>3
<1>5. new \in Pages
  <2>1. 0 <= Width - 2
    BY Sizes DEF Sized
  <2> QED BY <1>1, <1>3, <1>4, <2>1 DEF Pages
<1>6. ASSUME NEW l \in Nat, NEW x \in Nat PROVE Expected(new, l, x) = Expected(lines, l, x)
  <2>1. CASE l < n
    <3>1. l < n + 1 /\ l + 1 \in 1 .. n
      BY <1>2, <2>1
    <3>2. new[l + 1] = lines[l + 1]
      BY <1>3, <3>1
    <3> QED BY <1>1, <1>3, <2>1, <3>1, <3>2 DEF Expected
  <2>2. CASE l = n
    <3>1. ~ (x < Len(new[l + 1])) /\ ~ (l < n)
      BY <1>2, <1>4, <2>2
    <3> QED BY <1>1, <1>3, <3>1 DEF Expected
  <2>3. CASE l > n
    <3>1. ~ (l < n + 1) /\ ~ (l < n)
      BY <1>2, <2>3
    <3> QED BY <1>1, <1>3, <3>1 DEF Expected
  <2> QED BY <1>2, <2>1, <2>2, <2>3
<1> QED BY <1>1, <1>3, <1>4, <1>5, <1>6

\* A last line that is another one at most at column m.
SameBut(lines, now, m) ==
  \A x \in Nat : x # m => /\ x < Len(now) <=> x < Len(lines[Len(lines)])
                          /\ x < Len(now) => now[x + 1] = lines[Len(lines)][x + 1]

Replaced(lines, new, now, m) ==
  /\ new \in Seq(Seq(Shown)) /\ Len(new) = Len(lines) /\ new[Len(lines)] = now
  /\ \A l, x \in Nat : Expected(new, l, x)
       = IF l = Len(lines) - 1 /\ x = m
           THEN IF m < Len(now) THEN {now[m + 1]}
                ELSE IF l = Height THEN {Blank, Left} ELSE {Blank}
           ELSE Expected(lines, l, x)

LEMMA LastLine ==
  ASSUME NEW lines \in Pages, NEW now \in Seq(Shown), NEW m \in Nat,
         SameBut(lines, now, m),
         NEW new, new = [lines EXCEPT ![Len(lines)] = now]
  PROVE  Replaced(lines, new, now, m)
<1>1. PICK n : n = Len(lines) /\ new = [lines EXCEPT ![n] = now]
  OBVIOUS
<1>2. n \in Nat /\ n > 0 /\ DOMAIN lines = 1 .. n /\ \A l \in 1 .. n : lines[l] \in Seq(Shown)
  BY <1>1, PageParts
<1>3. lines \in Seq(Seq(Shown))
  BY DEF Pages
<1>4. /\ new \in Seq(Seq(Shown)) /\ Len(new) = n
      /\ \A l \in 1 .. n : new[l] = IF l = n THEN now ELSE lines[l]
  <2>1. PICK S : S = Seq(Shown)
    OBVIOUS
  <2>2. lines \in Seq(S) /\ now \in S /\ n \in 1 .. Len(lines)
    BY <1>1, <1>2, <1>3, <2>1
  <2>3. new \in Seq(S) /\ Len(new) = Len(lines)
    BY <1>1, <2>2
  <2>4. \A l \in 1 .. n : new[l] = IF l = n THEN now ELSE lines[l]
    BY <1>1, <1>2
  <2> QED BY <1>1, <2>1, <2>3, <2>4
<1>5. ASSUME NEW l \in Nat, NEW x \in Nat
      PROVE  Expected(new, l, x)
               = IF l = n - 1 /\ x = m
                   THEN IF m < Len(now) THEN {now[m + 1]}
                        ELSE IF l = Height THEN {Blank, Left} ELSE {Blank}
                   ELSE Expected(lines, l, x)
  <2>1. CASE l = n - 1
    <3>1. l + 1 = n /\ l < n /\ l + 1 \in 1 .. n
      BY <1>2, <2>1
    <3>2. new[l + 1] = now /\ lines[l + 1] = lines[n]
      BY <1>4, <3>1
    <3>3. CASE x = m
      BY <1>4, <2>1, <3>1, <3>2, <3>3 DEF Expected
    <3>4. CASE x # m
      <4>1. (x < Len(now) <=> x < Len(lines[n])) /\ (x < Len(now) => now[x + 1] = lines[n][x + 1])
        BY <1>1, <3>4 DEF SameBut
      <4> QED BY <1>1, <1>4, <2>1, <3>1, <3>2, <3>4, <4>1 DEF Expected
    <3> QED BY <3>3, <3>4
  <2>2. CASE l # n - 1
    <3>1. l < n => l + 1 \in 1 .. n /\ l + 1 # n
      BY <1>2, <2>2
    <3>2. l < n => new[l + 1] = lines[l + 1]
      BY <1>4, <3>1
    <3> QED BY <1>1, <1>4, <2>2, <3>2 DEF Expected
  <2> QED BY <2>1, <2>2
<1>6. new[n] = now
  BY <1>2, <1>4
<1> QED BY <1>1, <1>4, <1>5, <1>6 DEF Replaced

\* What a character changes of what is expected on the screen.
LEMMA NewlineWrites ==
  ASSUME NEW lines \in Pages
  PROVE  LET n   == Len(lines)
             new == Written(lines, NL)
         IN  /\ new \in Pages /\ Len(new) = n + 1 /\ Len(new[n + 1]) = 0
             /\ \A l, x \in Nat : Expected(new, l, x) = Expected(lines, l, x)
<1>1. lines \in Seq(Seq(Shown))
  BY DEF Pages
<1>2. Written(lines, NL) = Append(lines, <<>>)
  <2>1. BS # NL
    BY DEF BS, NL
  <2>2. PICK a, b, d : /\ a = Append(lines, <<>>)
                       /\ Written(lines, NL) = CASE NL = NL -> a [] NL = BS -> b [] OTHER -> d
    BY DEF Written
  <2> QED BY <2>1, <2>2
<1> QED BY <1>1, <1>2, EmptyLine

LEMMA BackspaceWrites ==
  ASSUME NEW lines \in Pages
  PROVE  LET n   == Len(lines)
             m   == Len(lines[n])
             new == Written(lines, BS)
         IN  /\ new \in Pages /\ Len(new) = n
             /\ m = 0 => new = lines
             /\ m # 0 => /\ Len(new[n]) = m - 1
                         /\ \A l, x \in Nat :
                              IF l = n - 1 /\ x = m - 1 THEN Blank \in Expected(new, l, x)
                              ELSE Expected(new, l, x) = Expected(lines, l, x)
<1>1. PICK n : n = Len(lines)
  OBVIOUS
<1>2. PICK last : last = lines[n]
  OBVIOUS
<1>3. PICK m : m = Len(last)
  OBVIOUS
<1>4. n \in Nat /\ n > 0 /\ last \in Seq(Shown) /\ m \in Nat /\ m <= Width - 2
  BY <1>1, <1>2, <1>3, PageParts
<1>5. BS # NL
  BY DEF BS, NL
<1>6. PICK new : new = Written(lines, BS)
  OBVIOUS
<1>7. new = IF last = <<>> THEN lines ELSE [lines EXCEPT ![n] = Front(last)]
  BY <1>1, <1>2, <1>5, <1>6 DEF Written
<1>8. last = <<>> <=> m = 0
  BY <1>3, <1>4
<1>9. CASE m = 0
  BY <1>1, <1>2, <1>3, <1>6, <1>7, <1>8, <1>9
<1>10. CASE m # 0
  <2>1. PICK now : now = Front(last)
    OBVIOUS
  <2>2. now \in Seq(Shown) /\ Len(now) = m - 1 /\ \A k \in 1 .. m - 1 : now[k] = last[k]
    <3>1. PICK e : e = m - 1
      OBVIOUS
    <3>2. \A k \in 1 .. e : last[k] \in Shown
      BY <1>3, <1>4, <1>10, <3>1
    <3>3. now = SubSeq(last, 1, e) /\ e \in Nat
      BY <1>3, <1>4, <1>10, <2>1, <3>1 DEF Front
    <3>4. /\ now \in Seq(Shown) /\ Len(now) = IF 1 <= e THEN e - 1 + 1 ELSE 0
          /\ \A k \in 1 .. e - 1 + 1 : now[k] = last[1 + k - 1]
      BY <3>2, <3>3, SubSeqProperties
    <3>5. \A k \in 1 .. e : k \in 1 .. e - 1 + 1 /\ 1 + k - 1 = k
      BY <3>3
    <3> QED BY <3>1, <3>3, <3>4, <3>5
  <2>3. PICK p : p = m - 1
    OBVIOUS
  <2>4. SameBut(lines, now, p)
    BY <1>1, <1>2, <1>3, <1>4, <2>2, <2>3 DEF SameBut
  <2>5. p \in Nat
    BY <1>4, <1>10, <2>3
  <2>6. Replaced(lines, new, now, p)
    <3>1. new = [lines EXCEPT ![n] = now]
      BY <1>7, <1>8, <1>10, <2>1
    <3> QED BY <1>1, <2>2, <2>4, <2>5, <3>1, LastLine
  <2>8. ~ (p < Len(now))
    BY <2>2, <2>3, <2>5
  <2>9. /\ new \in Seq(Seq(Shown)) /\ Len(new) = n /\ new[n] = now
        /\ \A l, x \in Nat : Expected(new, l, x)
             = IF l = n - 1 /\ x = p
                 THEN IF l = Height THEN {Blank, Left} ELSE {Blank}
                 ELSE Expected(lines, l, x)
    BY <1>1, <2>6, <2>8 DEF Replaced
  <2>10. new \in Pages
    <3>1. Len(new[Len(new)]) <= Width - 2 /\ new # <<>>
      BY <1>4, <2>2, <2>9, Sizes DEF Sized
    <3> QED BY <2>9, <3>1 DEF Pages
  <2>11. ASSUME NEW l \in Nat, NEW x \in Nat
         PROVE  IF l = n - 1 /\ x = p THEN Blank \in Expected(new, l, x)
                ELSE Expected(new, l, x) = Expected(lines, l, x)
    BY <2>9
  <2> QED BY <1>1, <1>2, <1>3, <1>6, <1>10, <2>2, <2>3, <2>9, <2>10, <2>11
<1> QED BY <1>9, <1>10

LEMMA CharacterWrites ==
  ASSUME NEW lines \in Pages, NEW c \in Shown, c # NL, c # BS
  PROVE  LET n   == Len(lines)
             m   == Len(lines[n])
             new == Written(lines, c)
         IN  /\ new \in Pages
             /\ IF m = Width - 2 THEN Len(new) = n + 1 /\ Len(new[n + 1]) = 0
                ELSE Len(new) = n /\ Len(new[n]) = m + 1
             /\ \A l, x \in Nat : Expected(new, l, x)
                  = IF l = n - 1 /\ x = m THEN {c} ELSE Expected(lines, l, x)
<1>1. PICK n : n = Len(lines)
  OBVIOUS
<1>2. PICK last : last = lines[n]
  OBVIOUS
<1>3. PICK m : m = Len(last)
  OBVIOUS
<1>4. n \in Nat /\ n > 0 /\ last \in Seq(Shown) /\ m \in Nat /\ m <= Width - 2
  BY <1>1, <1>2, <1>3, PageParts
<1>5. PICK now : now = Append(last, c)
  OBVIOUS
<1>6. /\ now \in Seq(Shown) /\ Len(now) = m + 1 /\ now[m + 1] = c
      /\ \A k \in 1 .. m : now[k] = last[k]
  BY <1>3, <1>4, <1>5, AppendProperties
<1>7. PICK added : added = [lines EXCEPT ![n] = now]
  OBVIOUS
<1>8. SameBut(lines, now, m)
  BY <1>1, <1>2, <1>3, <1>4, <1>6 DEF SameBut
<1>9. Replaced(lines, added, now, m) /\ added \in Seq(Seq(Shown)) /\ Len(added) = n /\ added[n] = now
  <2>1. Replaced(lines, added, now, m)
    BY <1>1, <1>4, <1>6, <1>7, <1>8, LastLine
  <2> QED BY <1>1, <2>1 DEF Replaced
<1>10. m < Len(now)
  BY <1>4, <1>6
<1>11. \A l, x \in Nat : Expected(added, l, x)
           = IF l = n - 1 /\ x = m THEN {c} ELSE Expected(lines, l, x)
  BY <1>1, <1>6, <1>9, <1>10 DEF Replaced
<1>12. PICK new : new = Written(lines, c)
  OBVIOUS
<1>13. new = IF m = Width - 2 THEN Append(added, <<>>) ELSE added
  <2>1. Written(lines, c) =
          CASE c = NL -> Append(lines, <<>>)
            [] c = BS -> IF last = <<>> THEN lines ELSE [lines EXCEPT ![n] = Front(last)]
            [] OTHER  -> IF m = Width - 2 THEN Append(added, <<>>) ELSE added
    BY <1>1, <1>2, <1>3, <1>5, <1>7 DEF Written
  <2> QED BY <1>12, <2>1
<1>14. CASE m = Width - 2
  <2>1. new = Append(added, <<>>)
    BY <1>13, <1>14
  <2>2. /\ new \in Pages /\ Len(new) = n + 1 /\ Len(new[n + 1]) = 0
        /\ \A l, x \in Nat : Expected(new, l, x) = Expected(added, l, x)
    BY <1>9, <2>1, EmptyLine
  <2>3. \A l, x \in Nat : Expected(new, l, x)
           = IF l = n - 1 /\ x = m THEN {c} ELSE Expected(lines, l, x)
    BY <1>11, <2>2
  <2> QED BY <1>1, <1>2, <1>3, <1>12, <1>14, <2>2, <2>3
<1>15. CASE m # Width - 2
  <2>1. new = added
    BY <1>13, <1>15
  <2>2. Len(new) = n /\ Len(new[n]) = m + 1
    BY <1>6, <1>9, <2>1
  <2>3. m + 1 <= Width - 2
    BY <1>4, <1>15, Sizes DEF Sized
  <2>4. new \in Pages
    BY <1>4, <1>6, <1>9, <2>1, <2>2, <2>3 DEF Pages
  <2> QED BY <1>1, <1>2, <1>3, <1>11, <1>12, <1>15, <2>1, <2>2, <2>4
<1> QED BY <1>14, <1>15

-----------------------------------------------------------------------------
(* The screen shows the lines                                              *)

\* The rows of a screen, the first of which is line top.
Displays(video, lines, top) ==
  \A y \in 0 .. Height, x \in 0 .. Width - 3 : video[Cell(y, x)] \in Expected(lines, top + y, x)

\* The cursor of a screen that has lines to show, and its first row.
Cursor(t, lines, top) ==
  /\ top \in Nat /\ top = (Len(lines) - 1) - t.row
  /\ t.row \in Nat /\ t.row <= Height + 1
  /\ t.col \in Nat /\ t.col = Len(lines[Len(lines)]) /\ t.col <= Width - 2
  /\ top > 0 => t.row >= Height
  /\ t.row = Height + 1 => t.col = 0

\* What is kept while nothing strays: a screen is scrolled as late as a
\* character is printed on the row that is missing, which is then empty.
Follows(t, lines) == ShowsLines(t, lines) /\ (t.row = Height + 1 => t.col = 0)

LEMMA FollowsParts ==
  ASSUME NEW t \in Screens, NEW lines \in Pages
  PROVE  /\ Follows(t, lines) => \E top : Cursor(t, lines, top) /\ Displays(t.video, lines, top)
         /\ \A top : Cursor(t, lines, top) /\ Displays(t.video, lines, top) => Follows(t, lines)
<1>1. PICK n, row, col : n = Len(lines) /\ row = t.row /\ col = t.col
  OBVIOUS
<1>2. n \in Nat /\ n > 0 /\ row \in Nat /\ col \in Nat /\ Len(lines[n]) <= Width - 2
  BY <1>1, PageParts, Sizes DEF Screens, Uint16, Sized
<1>3. ((n - 1) + 1) = n
  BY <1>2
<1>4. PICK top : top = (n - 1) - row
  OBVIOUS
<1>5. ShowsLines(t, lines) <=>
        /\ col = Len(lines[n])
        /\ 0 <= top /\ row <= Height + 1
        /\ top > 0 => row >= Height
        /\ Displays(t.video, lines, top)
  BY <1>1, <1>3, <1>4 DEF ShowsLines, Displays
<1>6. 0 <= top => top \in Nat
  BY <1>2, <1>4
<1>7. ASSUME Follows(t, lines)
      PROVE  Cursor(t, lines, top) /\ Displays(t.video, lines, top)
  BY <1>1, <1>2, <1>4, <1>5, <1>6, <1>7 DEF Follows, Cursor
<1>8. ASSUME NEW k, Cursor(t, lines, k), Displays(t.video, lines, k)
      PROVE  Follows(t, lines)
  <2>1. k = top
    BY <1>1, <1>4, <1>8 DEF Cursor
  <2>2. /\ col = Len(lines[n]) /\ 0 <= top /\ row <= Height + 1
        /\ top > 0 => row >= Height
        /\ row = Height + 1 => col = 0
    BY <1>1, <1>8, <2>1 DEF Cursor
  <2> QED BY <1>1, <1>5, <1>8, <2>1, <2>2 DEF Follows
<1> QED BY <1>7, <1>8

\* A character on the screen, if it is all that is expected to be another.
ChangedAt(lines, new, at, col, c) ==
  \A l, x \in Nat : IF l = at /\ x = col THEN c \in Expected(new, l, x)
                    ELSE Expected(new, l, x) = Expected(lines, l, x)

LEMMA PutDisplays ==
  ASSUME NEW video \in [Cells -> Shown], NEW lines, NEW new, NEW top \in Nat,
         Displays(video, lines, top),
         NEW row \in 0 .. Height, NEW col \in 0 .. Width - 1, NEW c,
         ChangedAt(lines, new, top + row, col, c)
  PROVE  Displays(terminal_putchar(video, col, row, c), new, top)
<1>1. PICK v : v = terminal_putchar(video, col, row, c)
  OBVIOUS
<1>2. ASSUME NEW y \in 0 .. Height, NEW x \in 0 .. Width - 3
      PROVE  v[Cell(y, x)] \in Expected(new, top + y, x)
  <2>1. x \in 0 .. Width - 1 /\ x \in Nat /\ top + y \in Nat /\ row \in Nat /\ y \in Nat /\ col \in Nat
    BY Sizes DEF Sized
  <2>2. PICK i, j, l : i = Cell(y, x) /\ j = Cell(row, col) /\ l = top + y
    OBVIOUS
  <2>3. i \in Cells /\ (i = j <=> y = row /\ x = col)
    <3>1. i \in Cells /\ i % Width = x /\ i \div Width = y
      BY <2>1, <2>2, CellAt
    <3>2. j % Width = col /\ j \div Width = row
      BY <2>2, CellAt
    <3> QED BY <2>2, <3>1, <3>2
  <2>4. v[i] = IF i = j THEN c ELSE video[i]
    BY <1>1, <2>2, <2>3 DEF terminal_putchar
  <2>5. video[i] \in Expected(lines, l, x)
    BY <2>2 DEF Displays
  <2>6. l = top + row <=> y = row
    BY <2>1, <2>2
  <2>7. IF l = top + row /\ x = col THEN c \in Expected(new, l, x)
        ELSE Expected(new, l, x) = Expected(lines, l, x)
    BY <2>1, <2>2 DEF ChangedAt
  <2>8. v[i] \in Expected(new, l, x)
    BY <2>3, <2>4, <2>5, <2>6, <2>7
  <2> QED BY <2>2, <2>8
<1> QED BY <1>1, <1>2 DEF Displays

\* Scrolling keeps what is shown and makes room.
LEMMA ScrolledFollows ==
  ASSUME NEW t \in Screens, NEW lines \in Pages, Follows(t, lines)
  PROVE  Follows(Scrolled(t), lines) /\ Scrolled(t).row <= Height
<1>1. PICK top : Cursor(t, lines, top) /\ Displays(t.video, lines, top)
  BY FollowsParts
<1>2. PICK row, col, n : row = t.row /\ col = t.col /\ n = Len(lines)
  OBVIOUS
<1>3. /\ top \in Nat /\ top = (n - 1) - row /\ row \in Nat /\ row <= Height + 1
      /\ col \in Nat /\ col = Len(lines[n]) /\ col <= Width - 2
      /\ top > 0 => row >= Height
      /\ row = Height + 1 => col = 0
  BY <1>1, <1>2 DEF Cursor
<1>4. n \in Nat /\ n > 0 /\ Height \in Nat /\ Width \in Nat /\ Width > 2
  BY <1>2, PageParts, Sizes DEF Sized
<1>5. CASE row <= Height
  <2>1. Scrolled(t) = t
    BY <1>2, <1>5 DEF Scrolled
  <2> QED BY <1>2, <1>5, <2>1
<1>6. CASE ~ (row <= Height)
  <2>1. row = Height + 1 /\ col = 0
    BY <1>3, <1>4, <1>6
  <2>2. PICK s, v : s = Scrolled(t) /\ v = terminal_scroll_down(t.video)
    OBVIOUS
  <2>3. s = [t EXCEPT !.video = v, !.row = @ - 1]
    BY <1>2, <1>6, <2>2 DEF Scrolled
  <2>4. s \in Screens /\ s.video = v /\ s.row = Height /\ s.col = 0
    <3>1. s \in Screens
      BY <2>2, ScrolledType
    <3>2. s.video = v /\ s.row = t.row - 1 /\ s.col = t.col
      BY <2>3 DEF Screens
    <3>3. t.row = Height + 1 /\ t.col = 0
      BY <1>2, <2>1
    <3>4. (Height + 1) - 1 = Height
      BY <1>4
    <3> QED BY <3>1, <3>2, <3>3, <3>4
  <2>5. Cursor(s, lines, top + 1)
    <3>1. top + 1 \in Nat /\ top + 1 = (n - 1) - Height
      BY <1>3, <1>4, <2>1
    <3>2. 0 = Len(lines[n]) /\ 0 <= Width - 2 /\ Height <= Height + 1 /\ Height >= Height /\ Height # Height + 1
      BY <1>3, <1>4, <2>1
    <3> QED BY <1>2, <1>4, <2>4, <3>1, <3>2 DEF Cursor
  <2>6. ASSUME NEW y \in 0 .. Height, NEW x \in 0 .. Width - 3
        PROVE  v[Cell(y, x)] \in Expected(lines, top + 1 + y, x)
    <3>1. x \in 0 .. Width - 1 /\ x < Width - 2 /\ ~ (x >= Width - 2) /\ x \in Nat
      BY <1>4
    <3>2. PICK i : i = Cell(y, x)
      OBVIOUS
    <3>3. i \in Cells /\ i % Width = x /\ i \div Width = y
      BY <3>1, <3>2, CellAt
    <3>4. v[i] = IF y < Height THEN t.video[i + Width] ELSE Blank
      BY <2>2, <3>1, <3>3 DEF terminal_scroll_down
    <3>5. CASE y < Height
      <4>1. y \in 0 .. Height - 1 /\ y + 1 \in 0 .. Height /\ top + (y + 1) = top + 1 + y
        BY <1>3, <1>4, <3>5
      <4>2. i + Width = Cell(y + 1, x)
        BY <3>1, <3>2, <4>1, CellBelow
      <4>3. t.video[Cell(y + 1, x)] \in Expected(lines, top + (y + 1), x)
        BY <1>1, <4>1 DEF Displays
      <4> QED BY <3>2, <3>4, <3>5, <4>1, <4>2, <4>3
    <3>6. CASE ~ (y < Height)
      <4>1. top + 1 + y = n - 1 /\ (n - 1) + 1 = n
        BY <1>3, <1>4, <2>1, <3>6
      <4>2. ~ (x < Len(lines[n]))
        BY <1>3, <2>1, <3>1
      <4>3. Blank \in Expected(lines, n - 1, x)
        BY <1>4, <4>1, <4>2 DEF Expected
      <4> QED BY <3>2, <3>4, <3>6, <4>1, <4>3
    <3> QED BY <3>5, <3>6
  <2>7. Displays(v, lines, top + 1)
    BY <2>6 DEF Displays
  <2> QED BY <1>4, <2>2, <2>4, <2>5, <2>7, FollowsParts
<1> QED BY <1>5, <1>6

\* The end of a line.
LEMMA NewlineFollows ==
  ASSUME NEW s \in Screens, NEW lines \in Pages, Follows(s, lines), s.row <= Height,
         NEW u, u = [s EXCEPT !.row = (s.row + 1) % Range16, !.col = 0]
  PROVE  Follows(u, Written(lines, NL))
<1>1. PICK top : Cursor(s, lines, top) /\ Displays(s.video, lines, top)
  BY FollowsParts
<1>2. PICK row, n, new : row = s.row /\ n = Len(lines) /\ new = Written(lines, NL)
  OBVIOUS
<1>3. /\ top \in Nat /\ top = (n - 1) - row /\ row \in Nat /\ row <= Height
      /\ top > 0 => row >= Height
  BY <1>1, <1>2 DEF Cursor
<1>4. /\ n \in Nat /\ n > 0 /\ Height \in Nat /\ Width \in Nat /\ Width > 2
      /\ Range16 \in Nat /\ Range16 > Height + 2
  BY <1>2, PageParts, Sizes DEF Sized
<1>5. /\ new \in Pages /\ Len(new) = n + 1 /\ Len(new[n + 1]) = 0
      /\ \A l, x \in Nat : Expected(new, l, x) = Expected(lines, l, x)
  BY <1>2, NewlineWrites
<1>6. (row + 1) % Range16 = row + 1
  BY <1>3, <1>4
<1>7. u \in Screens /\ u.video = s.video /\ u.row = row + 1 /\ u.col = 0
  <2>1. row + 1 \in Uint16 /\ 0 \in Uint16
    BY <1>3, <1>4 DEF Uint16
  <2> QED BY <1>2, <1>6, <2>1 DEF Screens
<1>8. Cursor(u, new, top)
  <2>1. /\ top = ((n + 1) - 1) - (row + 1) /\ row + 1 \in Nat /\ row + 1 <= Height + 1
        /\ 0 <= Width - 2 /\ (top > 0 => row + 1 >= Height)
    BY <1>3, <1>4
  <2> QED BY <1>3, <1>5, <1>7, <2>1 DEF Cursor
<1>9. Displays(u.video, new, top)
  <2>1. ASSUME NEW y \in 0 .. Height, NEW x \in 0 .. Width - 3
        PROVE  u.video[Cell(y, x)] \in Expected(new, top + y, x)
    <3>1. top + y \in Nat /\ x \in Nat
      BY <1>3, <1>4
    <3>2. s.video[Cell(y, x)] \in Expected(lines, top + y, x)
      BY <1>1 DEF Displays
    <3> QED BY <1>5, <1>7, <3>1, <3>2
  <2> QED BY <2>1 DEF Displays
<1> QED BY <1>2, <1>5, <1>7, <1>8, <1>9, FollowsParts

\* A character that is shown.
LEMMA ShowFollows ==
  ASSUME NEW s \in Screens, NEW lines \in Pages, Follows(s, lines), s.row <= Height,
         NEW c \in Shown, c # NL, c # BS
  PROVE  Follows(Show(s, c), Written(lines, c))
<1>1. PICK top : Cursor(s, lines, top) /\ Displays(s.video, lines, top)
  BY FollowsParts
<1>2. PICK row, col, n, new : row = s.row /\ col = s.col /\ n = Len(lines) /\ new = Written(lines, c)
  OBVIOUS
<1>3. /\ top \in Nat /\ top = (n - 1) - row /\ row \in Nat /\ row <= Height
      /\ col \in Nat /\ col = Len(lines[n]) /\ col <= Width - 2
      /\ top > 0 => row >= Height
  BY <1>1, <1>2 DEF Cursor
<1>4. /\ n \in Nat /\ n > 0 /\ Height \in Nat /\ Width \in Nat /\ Width > 2
      /\ Range16 \in Nat /\ Range16 > Height + 2 /\ Range16 > Width
  BY <1>2, PageParts, Sizes DEF Sized
<1>5. /\ new \in Pages
      /\ IF col = Width - 2 THEN Len(new) = n + 1 /\ Len(new[n + 1]) = 0
         ELSE Len(new) = n /\ Len(new[n]) = col + 1
      /\ \A l, x \in Nat : Expected(new, l, x)
           = IF l = n - 1 /\ x = col THEN {c} ELSE Expected(lines, l, x)
  <2>1. PICK last : last = lines[n]
    OBVIOUS
  <2>2. Len(last) = col
    BY <1>3, <2>1
  <2>3. LET m == Len(last)
        IN  /\ new \in Pages
            /\ IF m = Width - 2 THEN Len(new) = n + 1 /\ Len(new[n + 1]) = 0
               ELSE Len(new) = n /\ Len(new[n]) = m + 1
            /\ \A l, x \in Nat : Expected(new, l, x)
                 = IF l = n - 1 /\ x = m THEN {c} ELSE Expected(lines, l, x)
    BY <1>2, <2>1, CharacterWrites
  <2> QED BY <2>2, <2>3
<1>6. PICK v : v = terminal_putchar(s.video, col, row, c)
  OBVIOUS
<1>7. PICK u : u = Show(s, c)
  OBVIOUS
<1>8. u \in Screens
  BY <1>7, ShowType
<1>9. u = IF col < Width - 2 THEN [s EXCEPT !.video = v, !.col = col + 1]
          ELSE [s EXCEPT !.video = v, !.col = 0, !.row = (row + 1) % Range16]
  <2>1. Scrolled(s) = s
    BY DEF Scrolled
  <2>2. PICK w : w = [s EXCEPT !.video = v]
    OBVIOUS
  <2>3. w \in [video : {v}, row : Uint16, col : Uint16] /\ w.row = row /\ w.col = col
    BY <1>2, <2>2 DEF Screens
  <2>4. u = Advanced(w)
    BY <1>2, <1>6, <1>7, <2>1, <2>2 DEF Show
  <2>5. Advanced(w) = IF col < Width - 2 THEN [w EXCEPT !.col = col + 1]
                      ELSE [w EXCEPT !.col = 0, !.row = (row + 1) % Range16]
    BY <2>3 DEF Advanced
  <2> QED BY <2>2, <2>4, <2>5 DEF Screens
<1>10. (row + 1) % Range16 = row + 1
  BY <1>3, <1>4
<1>11. /\ u.video = v
       /\ u.row = IF col < Width - 2 THEN row ELSE row + 1
       /\ u.col = IF col < Width - 2 THEN col + 1 ELSE 0
  BY <1>2, <1>9, <1>10 DEF Screens
<1>12. Displays(v, new, top)
  <2>1. top + row = n - 1
    BY <1>3, <1>4
  <2>2. ChangedAt(lines, new, top + row, col, c)
    BY <1>5, <2>1 DEF ChangedAt
  <2>3. s.video \in [Cells -> Shown] /\ row \in 0 .. Height /\ col \in 0 .. Width - 1
    BY <1>3, <1>4 DEF Screens
  <2> QED BY <1>1, <1>3, <1>6, <2>2, <2>3, PutDisplays
<1>13. Cursor(u, new, top)
  <2>1. CASE col < Width - 2
    <3>1. Len(new) = n /\ Len(new[n]) = col + 1 /\ col + 1 <= Width - 2 /\ col + 1 \in Nat
      BY <1>3, <1>4, <1>5, <2>1
    <3>2. row <= Height + 1 /\ row # Height + 1
      BY <1>3, <1>4
    <3> QED BY <1>3, <1>11, <2>1, <3>1, <3>2 DEF Cursor
  <2>2. CASE ~ (col < Width - 2)
    <3>1. Len(new) = n + 1 /\ Len(new[n + 1]) = 0
      BY <1>3, <1>4, <1>5, <2>2
    <3>2. /\ top = ((n + 1) - 1) - (row + 1) /\ row + 1 \in Nat /\ row + 1 <= Height + 1
          /\ 0 <= Width - 2 /\ (top > 0 => row + 1 >= Height)
      BY <1>3, <1>4
    <3> QED BY <1>3, <1>11, <2>2, <3>1, <3>2 DEF Cursor
  <2> QED BY <2>1, <2>2
<1> QED BY <1>2, <1>5, <1>7, <1>8, <1>11, <1>12, <1>13, FollowsParts

\* A backspace that does not stray.
LEMMA BackspaceFollows ==
  ASSUME NEW s \in Screens, NEW lines \in Pages, Follows(s, lines), s.row <= Height,
         ~ Strays(s, BS)
  PROVE  Follows(terminal_backspace(s), Written(lines, BS))
<1>1. PICK top : Cursor(s, lines, top) /\ Displays(s.video, lines, top)
  BY FollowsParts
<1>2. PICK row, col, n, new : row = s.row /\ col = s.col /\ n = Len(lines) /\ new = Written(lines, BS)
  OBVIOUS
<1>3. /\ top \in Nat /\ top = (n - 1) - row /\ row \in Nat /\ row <= Height
      /\ col \in Nat /\ col = Len(lines[n]) /\ col <= Width - 2
      /\ top > 0 => row >= Height
  BY <1>1, <1>2 DEF Cursor
<1>4. /\ n \in Nat /\ n > 0 /\ Height \in Nat /\ Width \in Nat /\ Width > 2
      /\ Range16 \in Nat /\ Range16 > Height + 2 /\ Range16 > Width
  BY <1>2, PageParts, Sizes DEF Sized
<1>5. (row = 0 /\ col = 0) \/ col > 1
  <2>1. ~ (col \in {0, 1}) \/ <<row, col>> = <<0, 0>>
    BY <1>2 DEF Strays
  <2>2. <<row, col>> = <<0, 0>> => row = 0 /\ col = 0
    OBVIOUS
  <2>3. col \in Nat
    BY ONLY <1>3
  <2>4. col # 0 /\ col # 1 => col > 1
    BY ONLY <2>3
  <2> QED BY <2>1, <2>2, <2>4
<1>6. /\ new \in Pages /\ Len(new) = n
      /\ col = 0 => new = lines
      /\ col # 0 => /\ Len(new[n]) = col - 1
                    /\ \A l, x \in Nat :
                         IF l = n - 1 /\ x = col - 1 THEN Blank \in Expected(new, l, x)
                         ELSE Expected(new, l, x) = Expected(lines, l, x)
  BY <1>2, <1>3, BackspaceWrites
<1>7. CASE row = 0 /\ col = 0
  <2>1. terminal_backspace(s) = s
    BY <1>2, <1>7 DEF terminal_backspace
  <2> QED BY <1>2, <1>6, <1>7, <2>1
<1>8. CASE col > 1
  <2>1. PICK k : k = col - 1
    OBVIOUS
  <2>2. k \in Nat /\ k > 0 /\ k < Width - 2 /\ k + 1 = col /\ (col - 1) % Range16 = k /\ k \in Uint16
    <3>1. k \in Nat /\ k > 0 /\ k < Width - 2 /\ k + 1 = col
      BY ONLY <1>3, <1>4, <1>8, <2>1
    <3>2. k < Range16 /\ k \in 0 .. Range16 - 1
      BY ONLY <1>4, <3>1
    <3>3. k % Range16 = k
      BY ONLY <1>4, <3>1, <3>2
    <3> QED BY ONLY <2>1, <3>1, <3>2, <3>3 DEF Uint16
  <2>3. PICK b : b = [s EXCEPT !.col = k]
    OBVIOUS
  <2>4. b \in Screens /\ b.row = row /\ b.col = k /\ b.video = s.video
    BY <1>2, <2>2, <2>3 DEF Screens
  <2>5. PICK v : v = terminal_putchar(s.video, k, row, Blank)
    OBVIOUS
  <2>6. PICK w : w = [b EXCEPT !.video = v]
    OBVIOUS
  <2>7. Scrolled(b) = b
    BY <1>2, <2>4 DEF Scrolled
  <2>8. w.col = k /\ w.video = v /\ w.row = row /\ w \in Screens
    <3>1. v \in [Cells -> Shown]
      BY <2>5 DEF terminal_putchar, Screens, Shown
    <3> QED BY <2>4, <2>6, <3>1 DEF Screens
  <2>9. Show(b, Blank) = [w EXCEPT !.col = k + 1]
    <3>1. Show(b, Blank) = Advanced(w)
      BY <2>4, <2>5, <2>6, <2>7 DEF Show
    <3> QED BY <2>2, <2>8, <3>1 DEF Advanced
  <2>10. PICK u : u = terminal_backspace(s)
    OBVIOUS
  <2>11. u = [[w EXCEPT !.col = k + 1] EXCEPT !.col = (@ - 1) % Range16]
    <3>1. col # 1 /\ ~ (row = 0 /\ col = 0)
      <4>1. col \in Nat
        BY ONLY <1>3
      <4>2. col > 1 => col # 1 /\ col # 0
        BY ONLY <4>1
      <4> QED BY <1>8, <4>2
    <3>2. b = [s EXCEPT !.col = (@ - 1) % Range16]
      BY <1>2, <2>2, <2>3
    <3>3. PICK a : a = [s EXCEPT !.col = Width - 2, !.row = (@ - 1) % Range16]
      OBVIOUS
    <3>4. u = IF s.row = 0 /\ s.col = 0 THEN s
              ELSE [Show(IF s.col = 1 THEN a ELSE b, Blank) EXCEPT !.col = (@ - 1) % Range16]
      BY <2>10, <3>2, <3>3 DEF terminal_backspace
    <3>5. u = [Show(b, Blank) EXCEPT !.col = (@ - 1) % Range16]
      BY <1>2, <3>1, <3>4
    <3> QED BY <2>9, <3>5
  <2>12. u \in Screens /\ u.video = v /\ u.row = row /\ u.col = k
    <3>1. PICK w1 : w1 = [w EXCEPT !.col = k + 1]
      OBVIOUS
    <3>2. w1 \in [video : [Cells -> Shown], row : Uint16, col : Int] /\ w1.col = col
          /\ w1.video = v /\ w1.row = row
      BY <2>2, <2>8, <3>1 DEF Screens
    <3>3. u = [w1 EXCEPT !.col = k]
      BY <2>2, <2>11, <3>1, <3>2
    <3> QED BY <2>2, <3>2, <3>3 DEF Screens
  <2>13. Displays(v, new, top)
    <3>1. top + row = n - 1 /\ col # 0
      BY <1>3, <1>4, <1>8
    <3>2. ChangedAt(lines, new, top + row, k, Blank)
      BY <1>6, <2>1, <3>1 DEF ChangedAt
    <3>3. s.video \in [Cells -> Shown] /\ row \in 0 .. Height /\ k \in 0 .. Width - 1
      BY <1>3, <1>4, <2>2 DEF Screens
    <3> QED BY <1>1, <1>3, <2>5, <3>2, <3>3, PutDisplays
  <2>14. Cursor(u, new, top)
    <3>1. Len(new[n]) = k /\ k <= Width - 2 /\ row <= Height + 1 /\ row # Height + 1
      BY <1>3, <1>4, <1>6, <1>8, <2>1, <2>2
    <3> QED BY <1>3, <1>6, <2>2, <2>12, <3>1 DEF Cursor
  <2> QED BY <1>2, <1>6, <2>10, <2>12, <2>13, <2>14, FollowsParts
<1> QED BY <1>5, <1>7, <1>8

\* Whatever is printed, as long as it does not stray.
LEMMA WriteFollows ==
  ASSUME NEW t \in Screens, NEW lines \in Pages, Follows(t, lines),
         NEW c \in Printed, ~ Strays(t, c)
  PROVE  Follows(terminal_writechar(t, c), Written(lines, c))
<1>1. PICK s : s = Scrolled(t)
  OBVIOUS
<1>2. s \in Screens /\ Follows(s, lines) /\ s.row <= Height
  BY <1>1, ScrolledType, ScrolledFollows
<1>3. CASE c = NL
  <2>1. PICK u : u = [s EXCEPT !.row = (s.row + 1) % Range16, !.col = 0]
    OBVIOUS
  <2>2. terminal_writechar(t, c) = u
    BY <1>1, <1>3, <2>1, WriteCases
  <2>3. Follows(u, Written(lines, NL))
    BY <1>2, <2>1, NewlineFollows
  <2> QED BY <1>3, <2>2, <2>3
<1>4. CASE c = BS
  <2>1. terminal_writechar(t, c) = terminal_backspace(s)
    BY <1>1, <1>4, WriteCases
  <2>2. ~ Strays(s, BS)
    <3>1. CASE t.row <= Height
      BY <1>1, <1>4, <3>1 DEF Scrolled
    <3>2. CASE ~ (t.row <= Height)
      <4>1. PICK top : Cursor(t, lines, top)
        BY FollowsParts
      <4>2. t.row = Height + 1 /\ t.col = 0 /\ t.row # 0
        BY <3>2, <4>1, Sizes DEF Cursor, Sized
      <4> QED BY <1>4, <4>2 DEF Strays
    <3> QED BY <3>1, <3>2
  <2> QED BY <1>2, <1>4, <2>1, <2>2, BackspaceFollows
<1>5. CASE c # NL /\ c # BS
  <2>1. terminal_writechar(t, c) = Show(s, c)
    BY <1>1, <1>5, WriteCases
  <2>2. c \in Shown
    BY <1>5 DEF Printed
  <2> QED BY <1>2, <1>5, <2>1, <2>2, ShowFollows
<1> QED BY <1>3, <1>4, <1>5

-----------------------------------------------------------------------------
(* Strings                                                                 *)

\* The characters of a string.
LEMMA CharactersOf ==
  ASSUME NEW S, NEW str \in Seq(S)
  PROVE  Len(str) \in Nat /\ \A k \in 1 .. Len(str) : str[k] \in S
OBVIOUS

\* What print does, character by character.
Steps(after, t, str) ==
  /\ after[0] = t
  /\ \A k \in 1 .. Len(str) : after[k] = terminal_writechar(after[k - 1], str[k])

LEMMA PrintingSteps ==
  ASSUME NEW t \in Screens, NEW str \in Seq(Printed)
  PROVE  /\ Printing(t, str) \in [0 .. Len(str) -> Screens]
         /\ Steps(Printing(t, str), t, str)
<1>1. PICK m : m = Len(str)
  OBVIOUS
<1>2. m \in Nat /\ \A k \in 1 .. m : str[k] \in Printed
  BY <1>1, CharactersOf
<1>3. PICK s : s = [k \in 1 .. m |-> [u \in Screens |-> terminal_writechar(u, str[k])]]
  OBVIOUS
<1>4. StaysIn(s, m, Screens)
  <2>1. ASSUME NEW k \in 1 .. m, NEW u \in Screens PROVE s[k][u] \in Screens
    <3>1. terminal_writechar(u, str[k]) \in Screens
      BY <1>2, WriteType
    <3> QED BY <1>3, <3>1
  <2> QED BY <2>1 DEF StaysIn
<1>5. PICK g \in [0 .. m -> Screens] : Loops(g, s, m, t)
  BY <1>2, <1>4, LoopExists
<1>6. g[0] = t
  BY <1>5 DEF Loops
<1>7. \A k \in 1 .. m : g[k] = terminal_writechar(g[k - 1], str[k])
  <2>1. ASSUME NEW k \in 1 .. m PROVE g[k] = terminal_writechar(g[k - 1], str[k])
    <3>1. k - 1 \in 0 .. m
      BY <1>2
    <3>2. g[k - 1] \in Screens
      BY <1>5, <3>1
    <3>3. g[k] = s[k][g[k - 1]]
      BY <1>5 DEF Loops
    <3> QED BY <1>3, <3>2, <3>3
  <2> QED BY <2>1
<1>8. g = [k \in 0 .. m |-> IF k = 0 THEN t ELSE terminal_writechar(g[k - 1], str[k])]
  <2>1. ASSUME NEW k \in 0 .. m
        PROVE  g[k] = IF k = 0 THEN t ELSE terminal_writechar(g[k - 1], str[k])
    <3>1. k # 0 => k \in 1 .. m
      BY <1>2
    <3> QED BY <1>6, <1>7, <3>1
  <2>2. g = [k \in 0 .. m |-> g[k]]
    OBVIOUS
  <2> QED BY <2>1, <2>2
<1>9. PICK p : p = Printing(t, str)
  OBVIOUS
<1>10. p = [k \in 0 .. m |-> IF k = 0 THEN t ELSE terminal_writechar(p[k - 1], str[k])]
  <2>1. p = CHOOSE f : f = [k \in 0 .. m |-> IF k = 0 THEN t
                                            ELSE terminal_writechar(f[k - 1], str[k])]
    BY <1>1, <1>9 DEF Printing
  <2> QED BY <1>8, <2>1
<1>11. ASSUME NEW k \in 0 .. m
       PROVE  p[k] = IF k = 0 THEN t ELSE terminal_writechar(p[k - 1], str[k])
  BY <1>10
<1>12. p[0] = t
  <2>1. 0 \in 0 .. m
    BY <1>2
  <2> QED BY <1>11, <2>1
<1>13. \A k \in 1 .. m : p[k] = terminal_writechar(p[k - 1], str[k])
  <2>1. ASSUME NEW k \in 1 .. m PROVE p[k] = terminal_writechar(p[k - 1], str[k])
    <3>1. k \in 0 .. m /\ k # 0
      BY <1>2
    <3> QED BY <1>11, <3>1
  <2> QED BY <2>1
<1>14. \A k \in 0 .. m : p[k] \in Screens
  <2> DEFINE G == {k \in 0 .. m : p[k] \in Screens}
  <2>1. 0 \in G
    BY <1>2, <1>12
  <2>2. ASSUME NEW k \in 0 .. m, k \in G, k < m PROVE k + 1 \in G
    <3>1. k + 1 \in 1 .. m /\ (k + 1) - 1 = k /\ k + 1 \in 0 .. m
      BY <1>2, <2>2
    <3>2. p[k + 1] = terminal_writechar(p[k], str[k + 1])
      BY <1>13, <3>1
    <3>3. terminal_writechar(p[k], str[k + 1]) \in Screens
      BY <1>2, <2>2, <3>1, WriteType
    <3> QED BY <3>1, <3>2, <3>3
  <2>3. 0 .. m \subseteq G
    <3> HIDE DEF G
    <3> QED BY <1>2, <2>1, <2>2, SetInduction
  <2> QED BY <2>3
<1>15. p \in [0 .. m -> Screens]
  <2>1. DOMAIN p = 0 .. m /\ p = [k \in DOMAIN p |-> p[k]]
    BY <1>10
  <2> QED BY <1>14, <2>1
<1> QED BY <1>1, <1>9, <1>12, <1>13, <1>15 DEF Steps

\* What a reader makes of it.
LEMMA WrittenType ==
  ASSUME NEW lines \in Pages, NEW c \in Printed
  PROVE  Written(lines, c) \in Pages
<1>1. CASE c = NL
  BY <1>1, NewlineWrites
<1>2. CASE c = BS
  BY <1>2, BackspaceWrites
<1>3. CASE c # NL /\ c # BS
  <2>1. c \in Shown
    BY <1>3 DEF Printed
  <2> QED BY <1>3, <2>1, CharacterWrites
<1> QED BY <1>1, <1>2, <1>3

Reads(after, lines, str) ==
  /\ after[0] = lines
  /\ \A k \in 1 .. Len(str) : after[k] = Written(after[k - 1], str[k])

LEMMA WritingReads ==
  ASSUME NEW lines \in Pages, NEW str \in Seq(Printed)
  PROVE  /\ \A k \in 0 .. Len(str) : Writing(lines, str)[k] \in Pages
         /\ Reads(Writing(lines, str), lines, str)
<1>1. PICK m : m = Len(str)
  OBVIOUS
<1>2. m \in Nat /\ \A k \in 1 .. m : str[k] \in Printed
  BY <1>1, CharactersOf
<1>3. PICK s : s = [k \in 1 .. m |-> [u \in Pages |-> Written(u, str[k])]]
  OBVIOUS
<1>4. StaysIn(s, m, Pages)
  <2>1. ASSUME NEW k \in 1 .. m, NEW u \in Pages PROVE s[k][u] \in Pages
    <3>1. Written(u, str[k]) \in Pages
      BY <1>2, WrittenType
    <3> QED BY <1>3, <3>1
  <2> QED BY <2>1 DEF StaysIn
<1>5. PICK g \in [0 .. m -> Pages] : Loops(g, s, m, lines)
  BY <1>2, <1>4, LoopExists
<1>6. g[0] = lines
  BY <1>5 DEF Loops
<1>7. \A k \in 1 .. m : g[k] = Written(g[k - 1], str[k])
  <2>1. ASSUME NEW k \in 1 .. m PROVE g[k] = Written(g[k - 1], str[k])
    <3>1. k - 1 \in 0 .. m
      BY <1>2
    <3>2. g[k - 1] \in Pages
      BY <1>5, <3>1
    <3>3. g[k] = s[k][g[k - 1]]
      BY <1>5 DEF Loops
    <3> QED BY <1>3, <3>2, <3>3
  <2> QED BY <2>1
<1>8. g = [k \in 0 .. m |-> IF k = 0 THEN lines ELSE Written(g[k - 1], str[k])]
  <2>1. ASSUME NEW k \in 0 .. m
        PROVE  g[k] = IF k = 0 THEN lines ELSE Written(g[k - 1], str[k])
    <3>1. k # 0 => k \in 1 .. m
      BY <1>2
    <3> QED BY <1>6, <1>7, <3>1
  <2>2. g = [k \in 0 .. m |-> g[k]]
    OBVIOUS
  <2> QED BY <2>1, <2>2
<1>9. PICK p : p = Writing(lines, str)
  OBVIOUS
<1>10. p = [k \in 0 .. m |-> IF k = 0 THEN lines ELSE Written(p[k - 1], str[k])]
  <2>1. p = CHOOSE f : f = [k \in 0 .. m |-> IF k = 0 THEN lines ELSE Written(f[k - 1], str[k])]
    BY <1>1, <1>9 DEF Writing
  <2> QED BY <1>8, <2>1
<1>11. ASSUME NEW k \in 0 .. m
       PROVE  p[k] = IF k = 0 THEN lines ELSE Written(p[k - 1], str[k])
  BY <1>10
<1>12. p[0] = lines
  <2>1. 0 \in 0 .. m
    BY <1>2
  <2> QED BY <1>11, <2>1
<1>13. \A k \in 1 .. m : p[k] = Written(p[k - 1], str[k])
  <2>1. ASSUME NEW k \in 1 .. m PROVE p[k] = Written(p[k - 1], str[k])
    <3>1. k \in 0 .. m /\ k # 0
      BY <1>2
    <3> QED BY <1>11, <3>1
  <2> QED BY <2>1
<1>14. \A k \in 0 .. m : p[k] \in Pages
  <2> DEFINE G == {k \in 0 .. m : p[k] \in Pages}
  <2>1. 0 \in G
    BY <1>2, <1>12
  <2>2. ASSUME NEW k \in 0 .. m, k \in G, k < m PROVE k + 1 \in G
    <3>1. k + 1 \in 1 .. m /\ (k + 1) - 1 = k /\ k + 1 \in 0 .. m
      BY <1>2, <2>2
    <3>2. p[k + 1] = Written(p[k], str[k + 1])
      BY <1>13, <3>1
    <3>3. Written(p[k], str[k + 1]) \in Pages
      BY <1>2, <2>2, <3>1, WrittenType
    <3> QED BY <3>1, <3>2, <3>3
  <2>3. 0 .. m \subseteq G
    <3> HIDE DEF G
    <3> QED BY <1>2, <2>1, <2>2, SetInduction
  <2> QED BY <2>3
<1> QED BY <1>1, <1>9, <1>12, <1>13, <1>14 DEF Reads

\* A string keeps the screen and the lines together.
LEMMA PrintFollows ==
  ASSUME NEW t \in Screens, NEW lines \in Pages, NEW str \in Seq(Printed)
  PROVE  /\ print(t, str) \in Screens /\ written(lines, str) \in Pages
         /\ Follows(t, lines) /\ (\A k \in 1 .. Len(str) : ~ Strays(Printing(t, str)[k - 1], str[k]))
              => Follows(print(t, str), written(lines, str))
<1>1. PICK m, p, w : m = Len(str) /\ p = Printing(t, str) /\ w = Writing(lines, str)
  OBVIOUS
<1>2. m \in Nat /\ \A k \in 1 .. m : str[k] \in Printed
  BY <1>1, CharactersOf
<1>3. /\ \A k \in 0 .. m : p[k] \in Screens
      /\ p[0] = t /\ \A k \in 1 .. m : p[k] = terminal_writechar(p[k - 1], str[k])
  BY <1>1, PrintingSteps DEF Steps
<1>4. /\ \A k \in 0 .. m : w[k] \in Pages
      /\ w[0] = lines /\ \A k \in 1 .. m : w[k] = Written(w[k - 1], str[k])
  BY <1>1, WritingReads DEF Reads
<1>5. print(t, str) = p[m] /\ written(lines, str) = w[m] /\ m \in 0 .. m
  BY <1>1, <1>2 DEF print, written
<1>6. ASSUME Follows(t, lines), \A k \in 1 .. m : ~ Strays(p[k - 1], str[k])
      PROVE  Follows(p[m], w[m])
  <2> DEFINE G == {k \in 0 .. m : Follows(p[k], w[k])}
  <2>1. 0 \in G
    BY <1>2, <1>3, <1>4, <1>6
  <2>2. ASSUME NEW k \in 0 .. m, k \in G, k < m PROVE k + 1 \in G
    <3>1. PICK l : l = k + 1
      OBVIOUS
    <3>2. l \in 1 .. m /\ l - 1 = k /\ l \in 0 .. m
      BY <1>2, <2>2, <3>1
    <3>3. p[l] = terminal_writechar(p[k], str[l]) /\ w[l] = Written(w[k], str[l])
      BY <1>3, <1>4, <3>2
    <3>4. p[k] \in Screens /\ w[k] \in Pages /\ str[l] \in Printed /\ ~ Strays(p[k], str[l])
      BY <1>2, <1>3, <1>4, <1>6, <3>2
    <3>5. Follows(p[k], w[k])
      BY <2>2
    <3>6. Follows(terminal_writechar(p[k], str[l]), Written(w[k], str[l]))
      BY <3>4, <3>5, WriteFollows
    <3> QED BY <3>1, <3>2, <3>3, <3>6
  <2>3. 0 .. m \subseteq G
    <3> HIDE DEF G
    <3> QED BY <1>2, <2>1, <2>2, SetInduction
  <2> QED BY <1>5, <2>3
<1> QED BY <1>1, <1>3, <1>4, <1>5, <1>6

-----------------------------------------------------------------------------
(* Numerals                                                                *)

Numerals == Seq(Range(Digits))

\* The digits of the numbers from -m to 0.
Numbers(d, m) ==
  d = [n \in -m .. 0 |->
         IF n = 0 THEN <<>> ELSE Append(d[-((-n) \div 10)], Digits[((-n) % 10) + 1])]

LEMMA NumbersExist ==
  ASSUME NEW m \in Nat
  PROVE  \E d : Numbers(d, m)
<1> DEFINE G == {l \in 0 .. m : \E d : Numbers(d, l)}
           Next10(d, n) == Append(d[-((-n) \div 10)], Digits[((-n) % 10) + 1])
<1>1. 0 \in G
  <2>1. PICK d : d = [n \in -0 .. 0 |-> <<>>]
    OBVIOUS
  <2>3. \A n \in -0 .. 0 : n = 0
    OBVIOUS
  <2>4. d = [n \in -0 .. 0 |-> IF n = 0 THEN <<>> ELSE Next10(d, n)]
    <3> HIDE DEF Next10
    <3> QED BY <2>1, <2>3
  <2> QED BY <2>4 DEF Numbers
<1>2. ASSUME NEW l \in 0 .. m, l \in G, l < m PROVE l + 1 \in G
  <2>1. PICK d : Numbers(d, l)
    BY <1>2
  <2>2. \A n \in -l .. 0 : d[n] = IF n = 0 THEN <<>> ELSE Next10(d, n)
    <3>1. d = [n \in -l .. 0 |-> IF n = 0 THEN <<>> ELSE Next10(d, n)]
      BY <2>1 DEF Numbers
    <3> HIDE DEF Next10
    <3> QED BY <2>1, <3>1 DEF Numbers
  <2>3. PICK k : k = l + 1
    OBVIOUS
  <2>4. PICK h : h = [n \in -k .. 0 |-> IF n = 0 THEN <<>> ELSE Next10(d, n)]
    OBVIOUS
  <2>5. k \in Nat /\ l \in Nat
    BY <2>3
  <2>6. ASSUME NEW n \in -k .. 0, n # 0
        PROVE  /\ -((-n) \div 10) \in -l .. 0 /\ -((-n) \div 10) \in -k .. 0
               /\ ((-n) % 10) + 1 \in 1 .. 10
    <3>1. PICK i : i = -n
      OBVIOUS
    <3>2. i \in 1 .. k /\ i \in Nat
      BY <2>5, <2>6, <3>1
    <3>3. i \div 10 \in 0 .. l /\ i % 10 \in 0 .. 9
      BY <2>3, <2>5, <3>2
    <3> QED BY <2>3, <2>5, <3>1, <3>3
  <2>8. ASSUME NEW n \in -l .. 0 PROVE h[n] = d[n]
    <3>1. n \in -k .. 0
      BY <2>3, <2>5
    <3> HIDE DEF Next10
    <3> QED BY <2>2, <2>4, <3>1
  <2>9. ASSUME NEW n \in -k .. 0 PROVE h[n] = IF n = 0 THEN <<>> ELSE Next10(h, n)
    <3>1. CASE n = 0
      BY <2>4, <3>1
    <3>2. CASE n # 0
      <4>1. h[n] = Next10(d, n)
        <5> HIDE DEF Next10
        <5> QED BY <2>4, <3>2
      <4>2. h[-((-n) \div 10)] = d[-((-n) \div 10)]
        BY <2>6, <2>8, <3>2
      <4> QED BY <3>2, <4>1, <4>2
    <3> QED BY <3>1, <3>2
  <2>10. h = [n \in -k .. 0 |-> IF n = 0 THEN <<>> ELSE Next10(h, n)]
    <3>1. h = [n \in -k .. 0 |-> h[n]]
      BY <2>4
    <3> HIDE DEF Next10
    <3> QED BY <2>9, <3>1
  <2>12. Numbers(h, k)
    BY <2>10 DEF Numbers
  <2>13. k \in 0 .. m
    BY <1>2, <2>3
  <2> QED BY <2>3, <2>12, <2>13
<1>3. 0 .. m \subseteq G
  <2> HIDE DEF G
  <2> QED BY <1>1, <1>2, SetInduction
<1>4. m \in G
  BY <1>3
<1> QED BY <1>4

\* Whatever function has the digits so has numerals.
LEMMA NumbersType ==
  ASSUME NEW m \in Nat, NEW e,
         Numbers(e, m)
  PROVE  \A n \in -m .. 0 : e[n] \in Numerals
<1> DEFINE G == {l \in 0 .. m : \A j \in 0 .. l : e[-j] \in Numerals}
<1>1. e[0] = <<>>
  <2>1. 0 \in -m .. 0
    OBVIOUS
  <2> QED BY <2>1 DEF Numbers
<1>2. ASSUME NEW i \in 1 .. m
      PROVE  e[-i] = Append(e[-(i \div 10)], Digits[(i % 10) + 1])
  <2>1. PICK n : n = -i
    OBVIOUS
  <2>2. n \in -m .. 0 /\ n # 0 /\ -n = i
    BY <2>1
  <2>3. e[n] = Append(e[-((-n) \div 10)], Digits[((-n) % 10) + 1])
    BY <2>2 DEF Numbers
  <2> QED BY <2>1, <2>2, <2>3
<1>3. 0 \in G
  <2>1. ASSUME NEW j \in 0 .. 0 PROVE -j = 0
    <3>1. PICK i : i = -j
      OBVIOUS
    <3>2. i \in Int /\ i <= 0 /\ i >= 0
      BY <3>1
    <3>3. i = 0
      BY ONLY <3>2
    <3> QED BY ONLY <3>1, <3>3
  <2>2. <<>> \in Numerals
    BY DEF Numerals
  <2> QED BY <1>1, <2>1, <2>2
<1>4. ASSUME NEW l \in 0 .. m, l \in G, l < m PROVE l + 1 \in G
  <2>1. PICK i : i = l + 1
    OBVIOUS
  <2>2. i \in 1 .. m /\ i \in Nat
    BY <1>4, <2>1
  <2>3. PICK q, r : q = i \div 10 /\ r = (i % 10) + 1
    OBVIOUS
  <2>4. q \in 0 .. l /\ r \in 1 .. 10
    BY <2>1, <2>2, <2>3
  <2>5. e[-q] \in Numerals
    BY <1>4, <2>4
  <2>6. PICK c : c = Digits[r]
    OBVIOUS
  <2>7. c \in Range(Digits)
    <3>1. DOMAIN Digits = 1 .. 10
      BY DEF Digits
    <3> QED BY <2>4, <2>6, <3>1 DEF Range
  <2>8. Append(e[-q], c) \in Numerals
    BY <2>5, <2>7 DEF Numerals
  <2>9. e[-i] \in Numerals
    BY <1>2, <2>2, <2>3, <2>6, <2>8
  <2>10. \A j \in 0 .. l + 1 : j \in 0 .. l \/ j = i
    BY <2>1
  <2>11. \A j \in 0 .. l : e[-j] \in Numerals
    BY <1>4
  <2>12. l + 1 \in 0 .. m
    BY <1>4
  <2> QED BY <2>9, <2>10, <2>11, <2>12
<1>5. 0 .. m \subseteq G
  <2> HIDE DEF G
  <2> QED BY <1>3, <1>4, SetInduction
<1>6. ASSUME NEW j \in 0 .. m PROVE e[-j] \in Numerals
  <2>1. j \in G /\ j \in 0 .. j
    BY <1>5
  <2>2. \A i \in 0 .. j : e[-i] \in Numerals
    BY <2>1
  <2> QED BY <2>1, <2>2
<1>7. ASSUME NEW n \in -m .. 0 PROVE e[n] \in Numerals
  <2>1. PICK j : j = -n
    OBVIOUS
  <2>2. j \in 0 .. m /\ -j = n
    BY <2>1
  <2> QED BY <1>6, <2>2
<1> QED BY <1>7

\* The text of i, from the digits at n.
TextFrom(e, i, n, text) ==
  text = (IF i < 0 THEN <<"-">> ELSE <<>>) \o (IF e[n] = <<>> THEN <<"0">> ELSE e[n])

LEMMA ItoaParts ==
  ASSUME NEW i \in Int32, NEW m, m = MaxInt + 1, NEW l, l = IF i >= 0 THEN -i ELSE i
  PROVE  /\ m \in Nat /\ l \in -m .. 0
         /\ \E e : Numbers(e, m) /\ TextFrom(e, i, l, itoa(i))
<1>1. MaxInt \in Nat /\ m \in Nat /\ -m = -MaxInt - 1
  BY TerminalAssumption
<1>2. PICK d : Numbers(d, m)
  BY <1>1, NumbersExist
<1>3. PICK e : /\ itoa(i) = (IF i < 0 THEN <<"-">> ELSE <<>>)
                             \o (IF e[IF i >= 0 THEN -i ELSE i] = <<>> THEN <<"0">>
                                 ELSE e[IF i >= 0 THEN -i ELSE i])
               /\ e = CHOOSE f : f = [n \in -MaxInt - 1 .. 0 |->
                        IF n = 0 THEN <<>>
                        ELSE Append(f[-((-n) \div 10)], Digits[((-n) % 10) + 1])]
  BY DEF itoa
<1>4. Numbers(e, m)
  <2>1. d = [n \in -m .. 0 |->
              IF n = 0 THEN <<>> ELSE Append(d[-((-n) \div 10)], Digits[((-n) % 10) + 1])]
    BY <1>2 DEF Numbers
  <2>2. e = CHOOSE f : f = [n \in -m .. 0 |->
              IF n = 0 THEN <<>> ELSE Append(f[-((-n) \div 10)], Digits[((-n) % 10) + 1])]
    BY <1>1, <1>3
  <2> QED BY <2>1, <2>2 DEF Numbers
<1>5. l \in -m .. 0
  BY <1>1 DEF Int32
<1> QED BY <1>1, <1>3, <1>4, <1>5 DEF TextFrom

\* The line of a number consists of digits and a sign.
LEMMA ItoaType ==
  ASSUME NEW i \in Int32
  PROVE  itoa(i) \in Seq(Shown)
<1>1. PICK m, n : m = MaxInt + 1 /\ n = IF i >= 0 THEN -i ELSE i
  OBVIOUS
<1>2. m \in Nat /\ n \in -m .. 0 /\ \E e : Numbers(e, m) /\ TextFrom(e, i, n, itoa(i))
  BY ONLY i \in Int32, <1>1, ItoaParts
<1>3. PICK e : Numbers(e, m) /\ TextFrom(e, i, n, itoa(i))
  BY <1>2
<1>4. \A l \in -m .. 0 : e[l] \in Numerals
  BY <1>2, <1>3, NumbersType
<1>5. Range(Digits) \subseteq Shown /\ "-" \in Shown /\ "0" \in Shown
  <2>1. "0" = Digits[1] /\ 1 \in DOMAIN Digits
    BY DEF Digits
  <2> QED BY <2>1 DEF Shown, Range
<1>6. e[n] \in Seq(Shown)
  BY <1>2, <1>4, <1>5 DEF Numerals
<1>7. PICK u, v : u = (IF i < 0 THEN <<"-">> ELSE <<>>)
                   /\ v = (IF e[n] = <<>> THEN <<"0">> ELSE e[n])
  OBVIOUS
<1>8. u \in Seq(Shown) /\ v \in Seq(Shown)
  BY <1>5, <1>6, <1>7
<1>9. itoa(i) = u \o v
  BY <1>3, <1>7 DEF TextFrom
<1> QED BY <1>8, <1>9

-----------------------------------------------------------------------------
(* The screen shows what was printed                                       *)

\* The strings of the shell and of other programs can be printed.
LEMMA Strings ==
  /\ Prefix \in Seq(Shown) /\ Greeting \in Seq(Shown) /\ Banner \in Seq(Shown)
  /\ \A str \in Outputs : str \in Seq(Shown)
  /\ \A code \in Codes : itoa(code) \in Seq(Shown)
  /\ {">", Blank} \subseteq Shown
<1>1. ASSUME NEW str \in Seq(STRING), Range(str) \subseteq Shown PROVE str \in Seq(Shown)
  <2>1. \A k \in 1 .. Len(str) : str[k] \in Shown
    BY <1>1 DEF Range
  <2> QED BY <2>1
<1>2. Prefix \in Seq(STRING) /\ Greeting \in Seq(STRING) /\ Banner \in Seq(STRING)
      /\ \A str \in Outputs : str \in Seq(STRING)
  BY ConsoleAssumption
<1>3. /\ Len(Prompt) = Len(Prefix) + 2
      /\ \A k \in 1 .. Len(Prefix) : Prompt[k] = Prefix[k]
      /\ Prompt[Len(Prefix) + 1] = ">" /\ Prompt[Len(Prefix) + 2] = Blank
      /\ DOMAIN Prompt = 1 .. Len(Prefix) + 2
  <2>1. PICK S, tail : S = STRING \cup {">", Blank} /\ tail = <<">", Blank>>
    OBVIOUS
  <2>2. tail \in Seq(S) /\ Len(tail) = 2 /\ tail[1] = ">" /\ tail[2] = Blank
    BY <2>1
  <2>3. Prompt = Prefix \o tail /\ Len(Prefix) \in Nat /\ Prefix \in Seq(S)
    BY <1>2, <2>1 DEF Prompt
  <2>4. /\ Prompt \in Seq(S) /\ Len(Prompt) = Len(Prefix) + 2
        /\ \A k \in 1 .. Len(Prefix) + 2 :
             Prompt[k] = IF k <= Len(Prefix) THEN Prefix[k] ELSE tail[k - Len(Prefix)]
    <3>1. /\ Prefix \o tail \in Seq(S) /\ Len(Prefix \o tail) = Len(Prefix) + Len(tail)
          /\ \A k \in 1 .. Len(Prefix) + Len(tail) :
               (Prefix \o tail)[k] = IF k <= Len(Prefix) THEN Prefix[k] ELSE tail[k - Len(Prefix)]
      BY ONLY <2>2, <2>3, ConcatProperties
    <3> QED BY <2>2, <2>3, <3>1
  <2>5. Prompt[Len(Prefix) + 1] = ">" /\ Prompt[Len(Prefix) + 2] = Blank
    <3>1. PICK n : n = Len(Prefix)
      OBVIOUS
    <3>2. n + 1 \in 1 .. n + 2 /\ n + 2 \in 1 .. n + 2 /\ (n + 1) - n = 1 /\ (n + 2) - n = 2
          /\ ~ (n + 1 <= n) /\ ~ (n + 2 <= n)
      BY <2>3, <3>1
    <3> QED BY <2>2, <2>4, <3>1, <3>2
  <2> QED BY <2>3, <2>4, <2>5
<1>4. Range(Prompt) \subseteq Shown
  BY DEF Shown
<1>5. Range(Prefix) \subseteq Shown
  <2>1. ASSUME NEW k \in 1 .. Len(Prefix) PROVE Prefix[k] \in Shown
    <3>1. k \in DOMAIN Prompt /\ Prompt[k] = Prefix[k]
      BY <1>2, <1>3
    <3>2. Prompt[k] \in Range(Prompt)
      BY <3>1 DEF Range
    <3> QED BY <1>4, <3>1, <3>2
  <2> QED BY <1>2, <2>1 DEF Range
<1>6. ">" \in Shown
  <2>1. PICK k : k = Len(Prefix) + 1
    OBVIOUS
  <2>2. k \in DOMAIN Prompt /\ Prompt[k] = ">"
    BY <1>2, <1>3, <2>1
  <2>3. ">" \in Range(Prompt)
    BY <2>2 DEF Range
  <2> QED BY <1>4, <2>3
<1>7. Blank \in Shown
  BY DEF Shown
<1>8. Range(Greeting) \subseteq Shown /\ Range(Banner) \subseteq Shown
      /\ \A str \in Outputs : Range(str) \subseteq Shown
  <2>1. Range(Greeting) \subseteq Shown /\ Range(Banner) \subseteq Shown
    BY DEF Shown
  <2>2. \A str \in Outputs : Range(str) \subseteq UNION {Range(o) : o \in Outputs}
    OBVIOUS
  <2>3. UNION {Range(o) : o \in Outputs} \subseteq Shown
    BY DEF Shown
  <2> QED BY <2>1, <2>2, <2>3
<1>9. \A code \in Codes : itoa(code) \in Seq(Shown)
  BY ConsoleAssumption, ItoaType
<1> QED BY <1>1, <1>2, <1>5, <1>6, <1>7, <1>8, <1>9

LEMMA PromptType == PromptCalls \in Seq(Seq(Printed)) /\ Seq(Shown) \subseteq Seq(Printed)
<1>1. Shown \subseteq Printed
  BY DEF Printed
<1>2. Seq(Shown) \subseteq Seq(Printed)
  BY <1>1
<1>3. Prefix \in Seq(Printed) /\ ">" \in Printed /\ Blank \in Printed
  BY <1>1, <1>2, Strings
<1>4. <<">">> \in Seq(Printed) /\ <<Blank>> \in Seq(Printed)
  BY <1>3
<1> QED BY <1>2, <1>3, <1>4 DEF PromptCalls

\* What all steps keep: what is about to be printed can be, and the screen
\* follows the page until a backspace strays.
Together ==
  /\ screen \in Screens /\ page \in Pages
  /\ pending \in Seq(Seq(Printed))
  /\ ~ strayed => Follows(screen, page)

LEMMA InitTogether == Init => Together
<1> SUFFICES ASSUME Init PROVE Together
  OBVIOUS
<1>1. PICK str, t, lines :
        /\ str = Append(Greeting, NL) /\ lines = <<<<>>>>
        /\ t = [video |-> [i \in Cells |-> IF i < Height * Width THEN Blank ELSE Left],
                row |-> 0, col |-> 0]
  OBVIOUS
<1>2. Greeting \in Seq(Printed) /\ str \in Seq(Printed)
  <2>1. Greeting \in Seq(Printed)
    BY Strings, PromptType
  <2> QED BY <1>1, <2>1 DEF Printed
<1>3. Blank \in Shown /\ Left \in Shown
  BY DEF Shown
<1>4. t \in Screens
  <2>1. 0 \in Uint16
    BY Sizes DEF Sized, Uint16
  <2>2. [i \in Cells |-> IF i < Height * Width THEN Blank ELSE Left] \in [Cells -> Shown]
    BY <1>3
  <2> QED BY <1>1, <2>1, <2>2 DEF Screens
<1>5. lines \in Pages /\ Len(lines) = 1 /\ Len(lines[1]) = 0
  <2>1. 0 <= Width - 2
    BY Sizes DEF Sized
  <2> QED BY <1>1, <2>1 DEF Pages
<1>6. Follows(t, lines)
  <2>1. Cursor(t, lines, 0)
    <3>1. t.row = 0 /\ t.col = 0
      BY <1>1
    <3>2. 0 <= Height + 1 /\ 0 <= Width - 2 /\ 0 # Height + 1
      BY Sizes DEF Sized
    <3> QED BY <1>5, <3>1, <3>2 DEF Cursor
  <2>2. ASSUME NEW y \in 0 .. Height, NEW x \in 0 .. Width - 3
        PROVE  t.video[Cell(y, x)] \in Expected(lines, 0 + y, x)
    <3>1. Height \in Nat /\ Width \in Nat /\ Height > 0 /\ Width > 2
      BY Sizes DEF Sized
    <3>2. PICK i : i = Cell(y, x)
      OBVIOUS
    <3>3. i \in Cells
      BY <3>1, <3>2, CellAt
    <3>4. t.video[i] = IF i < Height * Width THEN Blank ELSE Left
      BY <1>1, <3>3
    <3>5. y < Height => i < Height * Width
      <4>1. SUFFICES ASSUME y < Height PROVE i < Height * Width
        OBVIOUS
      <4>2. PICK d : d = Height - (y + 1)
        OBVIOUS
      <4>3. d \in Nat /\ Height = y + 1 + d /\ d * Width \in Nat /\ y * Width \in Nat
        BY <3>1, <4>1, <4>2
      <4>4. Height * Width = y * Width + Width + d * Width
        BY <3>1, <4>3
      <4> QED BY <3>1, <3>2, <4>3, <4>4 DEF Cell
    <3>6. 0 + y = y /\ x < Width
      BY <3>1
    <3>7. ~ (y < Len(lines) /\ x < Len(lines[y + 1]))
      <4>1. CASE y = 0
        <5>1. y + 1 = 1
          BY <4>1
        <5> QED BY <1>5, <5>1
      <4>2. CASE y # 0
        BY <1>5, <4>2
      <4> QED BY <4>1, <4>2
    <3>8. Expected(lines, y, x) = IF y = Height THEN {Blank, Left} ELSE {Blank}
      BY <3>7 DEF Expected
    <3>9. y = Height \/ y < Height
      BY <3>1
    <3> QED BY <3>2, <3>4, <3>5, <3>6, <3>8, <3>9
  <2>3. Displays(t.video, lines, 0)
    BY <2>2 DEF Displays
  <2> QED BY <1>4, <1>5, <2>1, <2>3, FollowsParts
<1>7. screen = print(t, str) /\ page = written(lines, str)
  BY <1>1 DEF Init, terminal_initialize
<1>8. ASSUME NEW k \in 1 .. Len(str), NEW u PROVE ~ Strays(u, str[k])
  <2>1. str[k] # BS
    <3>1. NL # BS
      BY DEF NL, BS
    <3>2. Greeting \in Seq(Printed) /\ BS \notin Range(Greeting)
      BY <1>2, ConsoleAssumption
    <3>3. k \in 1 .. Len(Greeting) => Greeting[k] # BS
      BY <3>2 DEF Range
    <3> QED BY <1>1, <3>1, <3>2, <3>3
  <2> QED BY <2>1 DEF Strays
<1>9. /\ print(t, str) \in Screens /\ written(lines, str) \in Pages
      /\ Follows(print(t, str), written(lines, str))
  BY <1>2, <1>4, <1>5, <1>6, <1>8, PrintFollows
<1>10. pending \in Seq(Seq(Printed))
  <2>1. Banner \in Seq(Printed) /\ <<NL>> \in Seq(Printed)
    BY Strings, PromptType DEF Printed
  <2>2. <<Banner, <<NL>>>> \in Seq(Seq(Printed))
    BY <2>1
  <2> QED BY <2>2, PromptType DEF Init
<1> QED BY <1>7, <1>9, <1>10 DEF Together

\* Printing keeps the screen with the page.
LEMMA PrintsTogether ==
  ASSUME Together, NEW str \in Seq(Printed), Prints(str)
  PROVE  screen' \in Screens /\ page' \in Pages /\ (~ strayed' => Follows(screen', page'))
<1>1. screen' = print(screen, str) /\ page' = written(page, str)
  BY DEF Prints
<1>2. ~ strayed' => /\ ~ strayed
                    /\ \A k \in 1 .. Len(str) : ~ Strays(Printing(screen, str)[k - 1], str[k])
  BY DEF Prints
<1>3. screen \in Screens /\ page \in Pages /\ (~ strayed => Follows(screen, page))
  BY DEF Together
<1> QED BY <1>1, <1>2, <1>3, PrintFollows

LEMMA NextTogether == Together /\ [Next]_vars => Together'
<1> SUFFICES ASSUME Together, [Next]_vars PROVE Together'
  OBVIOUS
<1>1. pending \in Seq(Seq(Printed)) /\ NL \in Printed /\ BS \in Printed
      /\ \A key \in Chars : key \in Printed
  BY DEF Together, Printed, Shown
<1>2. CASE shell_prints
  <2>1. Head(pending) \in Seq(Printed) /\ Tail(pending) \in Seq(Seq(Printed))
    <3>1. pending # <<>>
      BY <1>2 DEF shell_prints
    <3> QED BY <1>1, <3>1, HeadTailProperties
  <2>2. Prints(Head(pending)) /\ pending' = Tail(pending)
    BY <1>2 DEF shell_prints
  <2> QED BY <2>1, <2>2, PrintsTogether DEF Together
<1>3. ASSUME NEW str \in Seq(Printed), Interferes(str) PROVE Together'
  <2>1. Prints(str) /\ pending' = pending
    BY <1>3 DEF Interferes, shell
  <2> QED BY <1>1, <2>1, PrintsTogether DEF Together
<1>4. CASE \E str \in Outputs : other_prints(str)
  <2>1. PICK str \in Outputs : Interferes(str)
    BY <1>4 DEF other_prints
  <2> QED BY <1>3, <2>1, Strings, PromptType
<1>5. CASE \E code \in Codes : isr80h_command0_process_exit(code)
  <2>1. PICK code \in Codes : Interferes(<<NL>> \o itoa(code) \o <<NL>>)
    BY <1>5 DEF isr80h_command0_process_exit
  <2>2. <<NL>> \o itoa(code) \o <<NL>> \in Seq(Printed)
    <3>1. itoa(code) \in Seq(Printed)
      BY Strings, PromptType
    <3> QED BY <1>1, <3>1
  <2> QED BY <1>3, <2>1, <2>2
<1>6. <<NL>> \in Seq(Printed) /\ <<<<NL>>, <<NL>>>> \in Seq(Seq(Printed))
      /\ <<<<NL>>>> \o PromptCalls \in Seq(Seq(Printed))
  BY <1>1, PromptType
<1>7. ASSUME UNCHANGED <<screen, page, strayed>>, pending' \in Seq(Seq(Printed))
      PROVE  Together'
  BY <1>7 DEF Together
<1>8. CASE \E key \in Key : readline_key(key)
  <2>1. PICK key \in Key : readline_key(key)
    BY <1>8
  <2>2. UNCHANGED <<screen, page, strayed>>
    BY <2>1 DEF readline_key
  <2>3. pending' \in {<<<<NL>>, <<NL>>>>, <<<<BS>>>>} \/ (key # CR /\ pending' = <<<<key>>>>)
    BY <2>1 DEF readline_key, LineEnds
  <2>4. <<<<BS>>>> \in Seq(Seq(Printed))
    BY <1>1
  <2>5. key # CR => <<<<key>>>> \in Seq(Seq(Printed))
    <3>1. key # CR => key \in Printed
      BY <1>1 DEF Key
    <3> QED BY <3>1
  <2>6. pending' \in Seq(Seq(Printed))
    BY <1>6, <2>3, <2>4, <2>5
  <2> QED BY <1>7, <2>2, <2>6
<1>9. CASE readline_full
  BY <1>6, <1>7, <1>9 DEF readline_full, LineEnds
<1>10. CASE peachos_system_run
  BY <1>6, <1>7, <1>10 DEF peachos_system_run
<1>11. CASE UNCHANGED vars
  BY <1>1, <1>7, <1>11 DEF vars, shell
<1> QED BY <1>2, <1>4, <1>5, <1>8, <1>9, <1>10, <1>11 DEF Next

\* As long as no backspace was printed in the first two columns, the screen
\* shows the end of all that was printed by anyone, and the cursor is behind
\* its last character, after whatever wrapped lines, backspaces and scrolling
\* (terminal/terminal.c:12, terminal/terminal.c:43).
THEOREM ScreenShows == Spec => []ScreenShowsPage
<1>1. Together => ScreenShowsPage
  BY DEF Together, ScreenShowsPage, Follows
<1> QED BY <1>1, InitTogether, NextTogether, PTL DEF Spec

-----------------------------------------------------------------------------
(* Words                                                                   *)

\* The text of a C string, and where it has words.
Text(S, str) == NUL \in S /\ str \in Seq(S) /\ \A k \in 1 .. Len(str) : str[k] # NUL

\* Where a word ends.
EndsAt(str, i, e) ==
  /\ e \in i .. Len(str) /\ \A l \in i .. e : str[l] # Blank
  /\ e = Len(str) \/ str[e + 1] = Blank

LEMMA StartsAre ==
  ASSUME NEW S, NEW str, Text(S, str)
  PROVE  /\ Len(str) \in Nat /\ Starts(str) \subseteq 1 .. Len(str)
         /\ IsFiniteSet(Starts(str)) /\ Cardinality(Starts(str)) \in Nat
         /\ Cardinality(Starts(str)) <= Len(str)
         /\ \A i \in 1 .. Len(str) :
              i \in Starts(str) <=> str[i] # Blank /\ (i = 1 \/ str[i - 1] = Blank)
<1>1. Len(str) \in Nat /\ DOMAIN str = 1 .. Len(str)
  BY DEF Text
<1>2. Starts(str) \subseteq 1 .. Len(str)
  BY <1>1 DEF Starts
<1>3. IsFiniteSet(1 .. Len(str)) /\ Cardinality(1 .. Len(str)) = Len(str)
  <2>1. PICK n : n = Len(str)
    OBVIOUS
  <2>2. 1 \in Int /\ n \in Int /\ n >= 0
    BY <1>1, <2>1
  <2>3. IsFiniteSet(1 .. n) /\ Cardinality(1 .. n) = IF 1 > n THEN 0 ELSE n - 1 + 1
    BY <2>2, FS_Interval
  <2> QED BY <2>1, <2>2, <2>3
<1>4. IsFiniteSet(Starts(str)) /\ Cardinality(Starts(str)) <= Len(str)
  BY <1>2, <1>3, FS_Subset
<1>5. Cardinality(Starts(str)) \in Nat
  BY <1>4, FS_CardinalityType
<1> QED BY <1>1, <1>2, <1>4, <1>5 DEF Starts

LEMMA WordIs ==
  ASSUME NEW S, NEW str, Text(S, str), NEW i \in Starts(str), NEW e, EndsAt(str, i, e)
  PROVE  Word(str, i) = SubSeq(str, i, e)
<1>1. PICK n : n = Len(str)
  OBVIOUS
<1>2. n \in Nat /\ i \in 1 .. n /\ str[i] # Blank
  BY <1>1, StartsAre DEF Text
<1>3. /\ e \in i .. n /\ (\A l \in i .. e : str[l] # Blank)
      /\ e = n \/ str[e + 1] = Blank
  BY <1>1 DEF EndsAt
<1>4. PICK T : T = {j \in i .. n : \A l \in i .. j : str[l] # Blank}
  OBVIOUS
<1>5. e \in T /\ T \subseteq 0 .. n
  BY <1>2, <1>3, <1>4
<1>6. Max(T) \in T /\ \A k \in T : k <= Max(T)
  BY <1>2, <1>5, GreatestNat
<1>7. PICK x : x = Max(T)
  OBVIOUS
<1>8. x \in i .. n /\ e <= x /\ \A l \in i .. x : str[l] # Blank
  BY <1>4, <1>5, <1>6, <1>7
<1>9. x = e
  <2>1. CASE e = n
    BY <1>2, <1>3, <1>8, <2>1
  <2>2. CASE str[e + 1] = Blank
    <3>1. ~ (e + 1 \in i .. x)
      BY <1>8, <2>2
    <3> QED BY <1>2, <1>3, <1>8, <3>1
  <2> QED BY <1>3, <2>1, <2>2
<1> QED BY <1>1, <1>4, <1>7, <1>9 DEF Word

\* How many words begin before a position, and which one begins at one.
Before(str, p)  == {j \in Starts(str) : j < p}
Place(str, i)   == Cardinality({j \in Starts(str) : j <= i})

LEMMA NextWord ==
  ASSUME NEW S, NEW str, Text(S, str), NEW p \in Nat, NEW i \in Starts(str), i >= p,
         \A j \in Starts(str) : j >= p => j >= i
  PROVE  /\ Cardinality(Before(str, p)) \in Nat
         /\ Place(str, i) = Cardinality(Before(str, p)) + 1
<1>1. IsFiniteSet(Starts(str)) /\ \A j \in Starts(str) : j \in Nat
  BY StartsAre
<1>2. IsFiniteSet(Before(str, p))
  BY <1>1, FS_Subset DEF Before
<1>3. {j \in Starts(str) : j <= i} = Before(str, p) \cup {i} /\ i \notin Before(str, p)
  <2>1. \A j \in Starts(str) : j <= i <=> j < p \/ j = i
    BY <1>1
  <2>2. ~ (i < p)
    BY <1>1
  <2> QED BY <2>1, <2>2 DEF Before
<1> QED BY <1>2, <1>3, OneMore, FS_CardinalityType DEF Place

\* Different words have different places.
LEMMA PlacesDiffer ==
  ASSUME NEW S, NEW str, Text(S, str), NEW i \in Starts(str), NEW j \in Starts(str), i < j
  PROVE  Place(str, i) \in Nat /\ Place(str, i) < Place(str, j)
<1>1. IsFiniteSet(Starts(str)) /\ \A k \in Starts(str) : k \in Nat
  BY StartsAre
<1>2. PICK A, B : A = {k \in Starts(str) : k <= i} /\ B = {k \in Starts(str) : k <= j}
  OBVIOUS
<1>3. IsFiniteSet(A) /\ IsFiniteSet(B)
  BY <1>1, <1>2, FS_Subset
<1>4. A \cup {j} \subseteq B /\ j \notin A
  BY <1>1, <1>2
<1>5. Cardinality(A \cup {j}) = Cardinality(A) + 1
  BY <1>3, <1>4, FS_AddElement
<1>6. Cardinality(A \cup {j}) <= Cardinality(B)
  BY <1>3, <1>4, FS_Subset
<1>7. Cardinality(A) \in Nat /\ Cardinality(B) \in Nat
  BY <1>3, FS_CardinalityType
<1> QED BY <1>2, <1>5, <1>6, <1>7 DEF Place

LEMMA PlaceBounds ==
  ASSUME NEW S, NEW str, Text(S, str), NEW i \in Starts(str)
  PROVE  Place(str, i) \in 1 .. Cardinality(Starts(str))
<1>1. IsFiniteSet(Starts(str)) /\ Cardinality(Starts(str)) \in Nat
      /\ \A k \in Starts(str) : k \in Nat
  BY StartsAre
<1>2. PICK A : A = {k \in Starts(str) : k <= i}
  OBVIOUS
<1>3. A \subseteq Starts(str) /\ i \in A
  BY <1>1, <1>2
<1>4. IsFiniteSet(A) /\ Cardinality(A) \in Nat /\ Cardinality(A) <= Cardinality(Starts(str))
  BY <1>1, <1>3, FS_Subset, FS_CardinalityType
<1>5. Cardinality(A) # 0
  BY <1>3, <1>4, FS_EmptySet
<1> QED BY <1>1, <1>2, <1>4, <1>5 DEF Place

\* A buffer that holds a string from position p on, where no word goes on.
Holds(S, str, b, p) ==
  /\ p \in 1 .. Len(str) + 1
  /\ b \in Seq(S) /\ Len(b) = Len(str) + 1
  /\ \A j \in p .. Len(str) + 1 : b[j] = IF j = Len(str) + 1 THEN NUL ELSE str[j]
  /\ p = 1 \/ p = Len(str) + 1 \/ str[p - 1] = Blank

\* What a call of strtok finds behind position p: no word, and sp is NULL, or
\* the next one.
NoneFrom(str, p, r) ==
  /\ r.token = 0 /\ r.sp = 0
  /\ \A j \in Starts(str) : ~ (j >= p)

NextFrom(S, str, p, r) ==
  /\ r.token \in Starts(str) /\ r.token >= p
  /\ \A j \in Starts(str) : j >= p => j >= r.token
  /\ r.sp \in Nat /\ r.sp > r.token
  /\ \A j \in Starts(str) : j > r.token => j >= r.sp
  /\ Holds(S, str, r.buf, r.sp)
  /\ SubSeq(r.buf, r.token, FirstIn(r.buf, r.token, {NUL}) - 1) = Word(str, r.token)

IsFirst(str, b, p, i) ==
  /\ i \in p .. Len(str) + 1
  /\ b[i] # Blank /\ \A j \in p .. i - 1 : b[j] = Blank

IsStop(str, b, i, stop) ==
  /\ stop \in i + 1 .. Len(str) + 1
  /\ EndsAt(str, i, stop - 1)
  /\ b[stop] = NUL <=> stop = Len(str) + 1
  /\ stop # Len(str) + 1 => str[stop] = Blank

\* The first character of a word, or the end of the string.
LEMMA FirstNotBlank ==
  ASSUME NEW S, NEW str, Text(S, str), NEW b, NEW p, Holds(S, str, b, p)
  PROVE  IsFirst(str, b, p, FirstNot(b, p, {Blank}))
<1>1. PICK n : n = Len(str)
  OBVIOUS
<1>2. /\ n \in Nat /\ p \in 1 .. n + 1 /\ Len(b) = n + 1
      /\ \A j \in p .. n + 1 : b[j] = IF j = n + 1 THEN NUL ELSE str[j]
  BY <1>1 DEF Text, Holds
<1>3. PICK T : T = {j \in p .. n + 1 : b[j] \notin {Blank}}
  OBVIOUS
<1>4. n + 1 \in T /\ T \subseteq Nat
  <2>1. NUL # Blank
    BY DEF NUL, Blank
  <2>2. n + 1 \in p .. n + 1 /\ p \in Nat
    BY <1>2
  <2>3. b[n + 1] = NUL
    BY <1>2, <2>2
  <2> QED BY <1>3, <2>1, <2>2, <2>3
<1>5. PICK i : i = Min(T)
  OBVIOUS
<1>6. i \in T /\ \A k \in T : i <= k
  BY <1>4, <1>5, LeastNat
<1>7. FirstNot(b, p, {Blank}) = i
  BY <1>2, <1>3, <1>5 DEF FirstNot
<1>8. i \in p .. n + 1 /\ b[i] # Blank
  BY <1>3, <1>6
<1>9. ASSUME NEW j \in p .. i - 1 PROVE b[j] = Blank
  <2>1. j \in p .. n + 1 /\ ~ (i <= j)
    BY <1>2, <1>8
  <2> QED BY <1>3, <1>6, <2>1
<1> QED BY <1>1, <1>7, <1>8, <1>9 DEF IsFirst

\* The end of a word.
LEMMA FirstStop ==
  ASSUME NEW S, NEW str, Text(S, str), NEW b, NEW p, Holds(S, str, b, p),
         NEW i \in p .. Len(str), str[i] # Blank
  PROVE  IsStop(str, b, i, FirstIn(b, i, {Blank, NUL}))
<1>1. PICK n : n = Len(str)
  OBVIOUS
<1>2. /\ n \in Nat /\ p \in 1 .. n + 1 /\ Len(b) = n + 1 /\ i \in p .. n
      /\ \A j \in p .. n + 1 : b[j] = IF j = n + 1 THEN NUL ELSE str[j]
      /\ \A j \in 1 .. n : str[j] # NUL
  BY <1>1 DEF Text, Holds
<1>3. PICK T : T = {j \in i .. n + 1 : b[j] \in {Blank, NUL}}
  OBVIOUS
<1>4. n + 1 \in T /\ T \subseteq Nat
  <2>1. b[n + 1] = NUL /\ n + 1 \in i .. n + 1 /\ i \in Nat
    BY <1>2
  <2> QED BY <1>3, <2>1
<1>5. PICK x : x = Min(T)
  OBVIOUS
<1>6. x \in T /\ \A k \in T : x <= k
  BY <1>4, <1>5, LeastNat
<1>7. FirstIn(b, i, {Blank, NUL}) = x
  BY <1>2, <1>3, <1>5 DEF FirstIn
<1>8. x \in i .. n + 1 /\ b[x] \in {Blank, NUL}
  BY <1>3, <1>6
<1>9. i \notin T
  <2>1. b[i] = str[i] /\ str[i] # NUL
    BY <1>2
  <2> QED BY <1>3, <2>1
<1>10. x \in i + 1 .. n + 1 /\ x \in Int
  <2>1. x # i
    BY <1>6, <1>9
  <2> QED BY <1>2, <1>8, <2>1
<1>11. ASSUME NEW l \in i .. x - 1 PROVE str[l] # Blank
  <2>1. l \in i .. n + 1 /\ ~ (x <= l) /\ l \in p .. n + 1 /\ l # n + 1
    BY <1>2, <1>10
  <2>2. l \notin T
    BY <1>6, <2>1
  <2> QED BY <1>2, <1>3, <2>1, <2>2
<1>12. b[x] = IF x = n + 1 THEN NUL ELSE str[x]
  BY <1>2, <1>10
<1>13. x # n + 1 => str[x] = Blank /\ b[x] # NUL
  <2>1. x # n + 1 => x \in 1 .. n
    BY <1>2, <1>10
  <2> QED BY <1>2, <1>8, <1>12, <2>1
<1>14. b[x] = NUL <=> x = n + 1
  BY <1>12, <1>13
<1>15. EndsAt(str, i, x - 1)
  <2>1. x - 1 \in i .. n /\ (x - 1 = n \/ x # n + 1) /\ (x - 1) + 1 = x
    BY <1>2, <1>10
  <2> QED BY <1>1, <1>11, <1>13, <2>1 DEF EndsAt
<1> QED BY <1>1, <1>7, <1>10, <1>13, <1>14, <1>15 DEF IsStop

\* A buffer with the end of a word marked.
Marked(S, str, r, i, stop) ==
  /\ i \in 1 .. Len(str) /\ stop \in i + 1 .. Len(str) + 1
  /\ r \in Seq(S) /\ Len(r) = Len(str) + 1 /\ r[stop] = NUL
  /\ \A j \in i .. stop - 1 : r[j] = str[j]

LEMMA MarkedWord ==
  ASSUME NEW S, NEW str, Text(S, str), NEW r, NEW i, NEW stop, Marked(S, str, r, i, stop)
  PROVE  FirstIn(r, i, {NUL}) = stop /\ SubSeq(r, i, stop - 1) = SubSeq(str, i, stop - 1)
<1>1. PICK n : n = Len(str)
  OBVIOUS
<1>2. /\ n \in Nat /\ Len(r) = n + 1 /\ i \in 1 .. n
      /\ \A j \in 1 .. n : str[j] # NUL
      /\ stop \in i + 1 .. n + 1 /\ str \in Seq(S)
      /\ r \in Seq(S) /\ r[stop] = NUL /\ \A j \in i .. stop - 1 : r[j] = str[j]
  BY <1>1 DEF Text, Marked
<1>3. PICK T : T = {j \in i .. n + 1 : r[j] \in {NUL}}
  OBVIOUS
<1>4. stop \in T /\ T \subseteq Nat
  BY <1>2, <1>3
<1>5. PICK x : x = Min(T)
  OBVIOUS
<1>6. x \in T /\ \A k \in T : x <= k
  BY <1>4, <1>5, LeastNat
<1>7. \A j \in i .. stop - 1 : r[j] = str[j] /\ r[j] # NUL
  <2>1. ASSUME NEW j \in i .. stop - 1 PROVE r[j] = str[j] /\ r[j] # NUL
    <3>1. j \in 1 .. n
      BY <1>2
    <3> QED BY <1>2, <3>1
  <2> QED BY <2>1
<1>8. x = stop
  <2>1. x \in i .. n + 1 /\ r[x] = NUL /\ x <= stop
    BY <1>3, <1>4, <1>6
  <2>2. ~ (x \in i .. stop - 1)
    BY <1>7, <2>1
  <2> QED BY <1>2, <2>1, <2>2
<1>9. FirstIn(r, i, {NUL}) = stop
  BY <1>2, <1>3, <1>5, <1>8 DEF FirstIn
<1>10. PICK e : e = stop - 1
  OBVIOUS
<1>11. i \in Int /\ e \in Int /\ i \in 1 .. n /\ e \in i .. n
  BY <1>2, <1>10
<1>12. PICK u, v : u = SubSeq(r, i, e) /\ v = SubSeq(str, i, e)
  OBVIOUS
<1>13. /\ u \in Seq(S) /\ Len(u) = e - i + 1 /\ \A k \in 1 .. e - i + 1 : u[k] = r[i + k - 1]
  <2>1. \A k \in i .. e : r[k] \in S
    BY <1>2, <1>11
  <2> QED BY <1>11, <1>12, <2>1, SubSeqProperties
<1>14. /\ v \in Seq(S) /\ Len(v) = e - i + 1 /\ \A k \in 1 .. e - i + 1 : v[k] = str[i + k - 1]
  <2>1. \A k \in i .. e : str[k] \in S
    BY <1>1, <1>2, <1>11
  <2> QED BY <1>2, <1>11, <1>12, <2>1, SubSeqProperties
<1>15. \A k \in 1 .. e - i + 1 : u[k] = v[k]
  <2>1. ASSUME NEW k \in 1 .. e - i + 1 PROVE u[k] = v[k]
    <3>1. i + k - 1 \in i .. stop - 1
      BY <1>10, <1>11
    <3> QED BY <1>7, <1>13, <1>14, <3>1
  <2> QED BY <2>1
<1>16. u = v
  BY <1>13, <1>14, <1>15, SeqEqual
<1> QED BY <1>9, <1>10, <1>12, <1>16

\* A call of strtok.
LEMMA StrtokFinds ==
  ASSUME NEW S, NEW str, Text(S, str), NEW s \in [buf : Seq(S), sp : Nat, token : Nat],
         NEW from, NEW p, p = IF s.sp = 0 THEN from ELSE s.sp, p # 0,
         Holds(S, str, s.buf, p)
  PROVE  LET r == strtok(s, from)
         IN  /\ r \in [buf : Seq(S), sp : Nat, token : Nat]
             /\ NoneFrom(str, p, r) \/ NextFrom(S, str, p, r)
<1>1. PICK n, b : n = Len(str) /\ b = s.buf
  OBVIOUS
<1>2. /\ n \in Nat /\ p \in 1 .. n + 1 /\ b \in Seq(S) /\ Len(b) = n + 1 /\ DOMAIN b = 1 .. n + 1
      /\ \A j \in p .. n + 1 : b[j] = IF j = n + 1 THEN NUL ELSE str[j]
      /\ p = 1 \/ p = n + 1 \/ str[p - 1] = Blank
      /\ \A j \in 1 .. n : str[j] # NUL
      /\ NUL \in S
  BY <1>1 DEF Text, Holds
<1>3. PICK i : i = FirstNot(b, p, {Blank})
  OBVIOUS
<1>4. i \in p .. n + 1 /\ b[i] # Blank /\ \A j \in p .. i - 1 : b[j] = Blank
  <2>1. Holds(S, str, b, p)
    BY <1>1
  <2>2. IsFirst(str, b, p, i)
    BY <1>3, <2>1, FirstNotBlank
  <2> QED BY <1>1, <2>2 DEF IsFirst
<1>5. PICK stop : stop = FirstIn(b, i, {Blank, NUL})
  OBVIOUS
<1>6. ~ (from = 0 /\ s.sp = 0)
  OBVIOUS
<1>7. PICK r : r = strtok(s, from)
  OBVIOUS
<1>8. r = IF b[i] = NUL THEN [s EXCEPT !.sp = 0, !.token = 0]
          ELSE [buf   |-> [b EXCEPT ![stop] = NUL],
                sp    |-> IF b[stop] = NUL THEN stop ELSE stop + 1,
                token |-> i]
  BY <1>1, <1>3, <1>5, <1>6, <1>7 DEF strtok
<1>9. ASSUME NEW j \in p .. i - 1 PROVE j \in 1 .. n /\ str[j] = Blank
  <2>1. j \in p .. n + 1 /\ j # n + 1 /\ j \in 1 .. n
    BY <1>2, <1>4
  <2> QED BY <1>2, <1>4, <2>1
<1>10. \A j \in Starts(str) : j \in 1 .. n /\ str[j] # Blank
  BY <1>1, StartsAre
<1>11. \A j \in Starts(str) : j >= p => j >= i
  <2>1. ASSUME NEW j \in Starts(str), j >= p, ~ (j >= i) PROVE FALSE
    <3>1. j \in p .. i - 1
      BY <1>2, <1>4, <1>10, <2>1
    <3> QED BY <1>9, <1>10, <3>1
  <2> QED BY <2>1
<1>12. CASE b[i] = NUL
  <2>1. r = [s EXCEPT !.sp = 0, !.token = 0]
    BY <1>8, <1>12
  <2>2. r \in [buf : Seq(S), sp : Nat, token : Nat] /\ r.sp = 0 /\ r.token = 0
    BY <2>1
  <2>3. i = n + 1
    <3>1. b[i] = IF i = n + 1 THEN NUL ELSE str[i]
      BY <1>4, <1>2
    <3>2. i # n + 1 => i \in 1 .. n
      BY <1>2, <1>4
    <3> QED BY <1>2, <1>12, <3>1, <3>2
  <2>4. \A j \in Starts(str) : ~ (j >= p)
    <3>1. ASSUME NEW j \in Starts(str), j >= p PROVE FALSE
      BY <1>2, <1>10, <1>11, <2>3, <3>1
    <3> QED BY <3>1
  <2> QED BY <1>7, <2>2, <2>4 DEF NoneFrom
<1>13. CASE b[i] # NUL
  <2>1. i \in p .. n /\ i \in 1 .. n /\ str[i] = b[i]
    <3>1. b[i] = IF i = n + 1 THEN NUL ELSE str[i]
      BY <1>4, <1>2
    <3> QED BY <1>2, <1>4, <1>13, <3>1
  <2>2. /\ stop \in i + 1 .. n + 1 /\ EndsAt(str, i, stop - 1)
        /\ b[stop] = NUL <=> stop = n + 1
        /\ stop # n + 1 => str[stop] = Blank
    <3>1. i \in p .. Len(str) /\ str[i] # Blank /\ Holds(S, str, b, p)
      BY <1>1, <1>4, <2>1
    <3>2. IsStop(str, b, i, stop)
      BY <1>5, <3>1, FirstStop
    <3> QED BY <1>1, <3>2 DEF IsStop
  <2>3. PICK q, d : q = (IF b[stop] = NUL THEN stop ELSE stop + 1) /\ d = [b EXCEPT ![stop] = NUL]
    OBVIOUS
  <2>4. r = [buf |-> d, sp |-> q, token |-> i]
    BY <1>8, <1>13, <2>3
  <2>5. q = IF stop = n + 1 THEN stop ELSE stop + 1
    BY <2>2, <2>3
  <2>6. q \in Nat /\ q > i /\ q \in 1 .. n + 1 /\ stop \in 1 .. n + 1
    BY <1>2, <2>1, <2>2, <2>5
  <2>7. d \in Seq(S) /\ Len(d) = n + 1 /\ \A j \in 1 .. n + 1 : d[j] = IF j = stop THEN NUL ELSE b[j]
    <3>1. stop \in 1 .. Len(b)
      BY <1>2, <2>6
    <3>2. d \in Seq(S) /\ Len(d) = Len(b)
      BY <1>2, <2>3, <3>1, ExceptSeq
    <3> QED BY <1>2, <2>3, <3>2
  <2>8. i \in Starts(str)
    <3>1. i = 1 \/ str[i - 1] = Blank
      <4>1. CASE i = p
        BY <1>2, <2>1, <4>1
      <4>2. CASE i # p
        <5>1. i - 1 \in p .. i - 1
          BY <1>2, <1>4, <4>2
        <5> QED BY <1>9, <5>1
      <4> QED BY <4>1, <4>2
    <3> QED BY <1>1, <1>4, <2>1, <3>1, StartsAre
  <2>9. Holds(S, str, d, q)
    <3>1. ASSUME NEW j \in q .. n + 1 PROVE d[j] = IF j = n + 1 THEN NUL ELSE str[j]
      <4>1. j \in p .. n + 1 /\ j \in 1 .. n + 1
        BY <1>2, <2>1, <2>6
      <4>2. j = stop => j = n + 1
        BY <1>2, <2>2, <2>5, <2>6
      <4> QED BY <1>2, <2>7, <4>1, <4>2
    <3>2. q = n + 1 \/ str[q - 1] = Blank
      <4>1. CASE stop = n + 1
        BY <2>5, <4>1
      <4>2. CASE stop # n + 1
        <5>1. q - 1 = stop
          BY <2>2, <2>5, <4>2
        <5> QED BY <2>2, <4>2, <5>1
      <4> QED BY <4>1, <4>2
    <3> QED BY <1>1, <2>6, <2>7, <3>1, <3>2 DEF Holds
  <2>10. \A j \in Starts(str) : j > i => j >= q
    <3>1. ASSUME NEW j \in Starts(str), j > i, ~ (j >= q) PROVE FALSE
      <4>1. j \in 1 .. n /\ str[j] # Blank /\ (j = 1 \/ str[j - 1] = Blank)
        BY <1>1, <1>10, StartsAre
      <4>2. j \in i + 1 .. stop
        <5>1. j \in Int /\ i \in Int /\ q \in Int /\ stop \in Int
          BY <1>2, <2>1, <2>6, <4>1
        <5>2. j < q /\ j <= n
          BY <1>2, <3>1, <4>1, <5>1
        <5>3. j <= stop
          BY <1>2, <2>5, <5>1, <5>2
        <5> QED BY <3>1, <5>1, <5>3
      <4>3. j # stop
        <5>1. j # n + 1
          BY <1>2, <4>1
        <5> QED BY <2>2, <4>1, <5>1
      <4>4. j - 1 \in i .. stop - 1 /\ j # 1
        BY <2>1, <2>2, <4>1, <4>2, <4>3
      <4>5. str[j - 1] # Blank
        BY <2>2, <4>4 DEF EndsAt
      <4> QED BY <4>1, <4>4, <4>5
    <3> QED BY <3>1
  <2>11. SubSeq(d, i, FirstIn(d, i, {NUL}) - 1) = Word(str, i)
    <3>1. ASSUME NEW j \in i .. stop - 1 PROVE d[j] = str[j]
      <4>1. j \in 1 .. n + 1 /\ j # stop /\ j \in p .. n + 1 /\ j # n + 1
        BY <1>2, <2>1, <2>2
      <4> QED BY <1>2, <2>7, <4>1
    <3>2. Marked(S, str, d, i, stop)
      BY <1>1, <1>2, <2>1, <2>2, <2>6, <2>7, <3>1 DEF Marked
    <3>3. FirstIn(d, i, {NUL}) = stop /\ SubSeq(d, i, stop - 1) = SubSeq(str, i, stop - 1)
      BY <3>2, MarkedWord
    <3>4. Word(str, i) = SubSeq(str, i, stop - 1)
      BY <2>2, <2>8, WordIs
    <3> QED BY <3>3, <3>4
  <2>12. r.token = i /\ r.sp = q /\ r.buf = d
    BY <2>4
  <2>13. r \in [buf : Seq(S), sp : Nat, token : Nat]
    BY <2>1, <2>4, <2>6, <2>7
  <2>14. i >= p
    BY <1>2, <2>1
  <2>15. NextFrom(S, str, p, r)
    BY <1>11, <2>6, <2>8, <2>9, <2>10, <2>11, <2>12, <2>14 DEF NextFrom
  <2> QED BY <1>7, <2>13, <2>15
<1> QED BY <1>12, <1>13

\* What the k-th call of strtok after the first has found.
Tokens(S) == [buf : Seq(S), sp : Nat, token : Nat]

Good(S, str, k, r) ==
  /\ r \in Tokens(S)
  /\ \/ r.token = 0 /\ r.sp = 0 /\ Cardinality(Starts(str)) = k
     \/ /\ r.token \in Starts(str) /\ Place(str, r.token) = k + 1
        /\ Cardinality(Before(str, r.sp)) = k + 1
        /\ Holds(S, str, r.buf, r.sp)
        /\ SubSeq(r.buf, r.token, FirstIn(r.buf, r.token, {NUL}) - 1) = Word(str, r.token)

LEMMA GoodCall ==
  ASSUME NEW S, NEW str, Text(S, str), NEW s \in Tokens(S),
         NEW from, NEW p, p = IF s.sp = 0 THEN from ELSE s.sp, p # 0,
         Holds(S, str, s.buf, p),
         NEW k, Cardinality(Before(str, p)) = k
  PROVE  Good(S, str, k, strtok(s, from))
<1>1. PICK r : r = strtok(s, from)
  OBVIOUS
<1>2. s \in [buf : Seq(S), sp : Nat, token : Nat]
  BY DEF Tokens
<1>3. r \in [buf : Seq(S), sp : Nat, token : Nat] /\ (NoneFrom(str, p, r) \/ NextFrom(S, str, p, r))
  BY <1>1, <1>2, StrtokFinds
<1>4. p \in Nat /\ \A j \in Starts(str) : j \in Nat
  BY StartsAre DEF Holds, Text
<1>5. CASE NoneFrom(str, p, r)
  <2>1. r.token = 0 /\ r.sp = 0 /\ \A j \in Starts(str) : ~ (j >= p)
    BY <1>5 DEF NoneFrom
  <2>2. \A j \in Starts(str) : j < p
    BY <1>4, <2>1
  <2>3. Before(str, p) = Starts(str)
    BY <2>2 DEF Before
  <2> QED BY <1>1, <1>3, <2>1, <2>3 DEF Good, Tokens
<1>6. CASE NextFrom(S, str, p, r)
  <2>1. PICK i, q : i = r.token /\ q = r.sp
    OBVIOUS
  <2>2. /\ i \in Starts(str) /\ i >= p /\ \A j \in Starts(str) : j >= p => j >= i
        /\ q \in Nat /\ q > i /\ \A j \in Starts(str) : j > i => j >= q
        /\ Holds(S, str, r.buf, q)
        /\ SubSeq(r.buf, i, FirstIn(r.buf, i, {NUL}) - 1) = Word(str, i)
    BY <1>6, <2>1 DEF NextFrom
  <2>3. Place(str, i) = k + 1
    BY <1>4, <2>2, NextWord
  <2>4. Before(str, q) = {j \in Starts(str) : j <= i}
    <3>1. ASSUME NEW j \in Starts(str) PROVE j < q <=> j <= i
      <4>1. j \in Nat /\ i \in Nat /\ q \in Nat
        BY <1>4, <2>2
      <4>2. j <= i => j < q
        BY <2>2, <4>1
      <4>3. j > i => ~ (j < q)
        BY <2>2, <4>1
      <4> QED BY <4>1, <4>2, <4>3
    <3> QED BY <3>1 DEF Before
  <2>5. Cardinality(Before(str, q)) = k + 1
    BY <2>3, <2>4 DEF Place
  <2> QED BY <1>1, <1>3, <2>1, <2>2, <2>3, <2>5 DEF Good, Tokens
<1> QED BY <1>3, <1>5, <1>6

\* The calls of a parse.
Call(c, a, k)  == IF k = 0 THEN a ELSE strtok(c[k - 1], 0)
Calls(c, m, a) == c = [k \in 0 .. m |-> Call(c, a, k)]

LEMMA CallsExist ==
  ASSUME NEW a, NEW m \in Nat
  PROVE  \E c : Calls(c, m, a)
<1> DEFINE G == {l \in 0 .. m : \E c : Calls(c, l, a)}
<1>1. 0 \in G
  <2>1. PICK c : c = [k \in 0 .. 0 |-> a]
    OBVIOUS
  <2>2. \A k \in 0 .. 0 : Call(c, a, k) = a
    BY DEF Call
  <2>3. Calls(c, 0, a)
    BY <2>1, <2>2 DEF Calls
  <2> QED BY <2>3
<1>2. ASSUME NEW l \in 0 .. m, l \in G, l < m PROVE l + 1 \in G
  <2>1. PICK c : Calls(c, l, a)
    BY <1>2
  <2>2. PICK h : h = [k \in 0 .. l + 1 |-> Call(c, a, k)]
    OBVIOUS
  <2>3. ASSUME NEW k \in 0 .. l + 1 PROVE h[k] = Call(h, a, k)
    <3>1. h[k] = Call(c, a, k)
      BY <2>2
    <3>2. ASSUME k # 0 PROVE h[k - 1] = c[k - 1]
      <4>1. k - 1 \in 0 .. l /\ k - 1 \in 0 .. l + 1
        BY <3>2
      <4>2. c[k - 1] = Call(c, a, k - 1)
        BY <4>1, <2>1 DEF Calls
      <4> QED BY <4>1, <4>2, <2>2
    <3> QED BY <3>1, <3>2 DEF Call
  <2>4. h = [k \in 0 .. l + 1 |-> h[k]]
    BY <2>2
  <2>5. Calls(h, l + 1, a)
    <3> HIDE <2>2
    <3> QED BY <2>3, <2>4 DEF Calls
  <2>6. l + 1 \in 0 .. m
    BY <1>2
  <2> QED BY <2>5, <2>6
<1>3. 0 .. m \subseteq G
  <2> HIDE DEF G
  <2> QED BY <1>1, <1>2, SetInduction
<1>4. m \in G
  BY <1>3
<1> QED BY <1>4

\* Every call of a parse is a good one, until there is no word left.
LEMMA AllCallsGood ==
  ASSUME NEW S, NEW str, Text(S, str), NEW m, m = Len(str) + 1, NEW a, NEW c, Calls(c, m, a),
         Good(S, str, 0, a),
         NEW k \in 0 .. m, \A l \in 0 .. k - 1 : c[l].token # 0
  PROVE  Good(S, str, k, c[k])
<1>1. m \in Nat
  BY DEF Text
<1>2. ASSUME NEW l \in 0 .. m PROVE c[l] = Call(c, a, l)
  BY DEF Calls
<1> DEFINE G == {l \in 0 .. k : Good(S, str, l, c[l])}
<1>3. 0 \in G
  <2>1. 0 \in 0 .. m /\ 0 \in 0 .. k
    BY <1>1
  <2>2. c[0] = a
    BY <1>2, <2>1 DEF Call
  <2> QED BY <2>1, <2>2
<1>4. ASSUME NEW l \in 0 .. k, l \in G, l < k PROVE l + 1 \in G
  <2>1. PICK r : r = c[l]
    OBVIOUS
  <2>2. Good(S, str, l, r)
    BY <1>4, <2>1
  <2>3. PICK i : i = l + 1
    OBVIOUS
  <2>4. i \in 0 .. m /\ i \in 0 .. k /\ i # 0 /\ i - 1 = l /\ l \in 0 .. k - 1
    BY <1>1, <1>4, <2>3
  <2>5. c[i] = strtok(r, 0)
    BY <1>2, <2>1, <2>4 DEF Call
  <2>6. r.token # 0
    BY <2>1, <2>4
  <2>7. /\ r \in Tokens(S) /\ Cardinality(Before(str, r.sp)) = i
        /\ Holds(S, str, r.buf, r.sp)
    BY <2>2, <2>3, <2>6 DEF Good
  <2>8. PICK p : p = r.sp
    OBVIOUS
  <2>9. p # 0 /\ p = IF r.sp = 0 THEN 0 ELSE r.sp
    BY <2>7, <2>8 DEF Holds
  <2>10. Good(S, str, i, strtok(r, 0))
    BY <2>7, <2>8, <2>9, GoodCall
  <2> QED BY <2>3, <2>4, <2>5, <2>10
<1>5. 0 .. k \subseteq G
  <2>1. k \in Nat
    BY <1>1
  <2> HIDE DEF G
  <2> QED BY <1>3, <1>4, <2>1, SetInduction
<1> QED BY <1>1, <1>5

\* A parse finds all words and forgets its position.
Parsed(str, r) ==
  /\ r.sp = 0
  /\ Len(r.arguments) = Cardinality(Starts(str))
  /\ \A i \in Starts(str) : r.arguments[Place(str, i)] = strncpy(Word(str, i), MaxArgument)

LEMMA ParseFinds ==
  ASSUME NEW S, NEW str, Text(S, str), sp = 0
  PROVE  Parsed(str, peachos_parse_command(str))
<1>1. PICK n, b, m, a :
        /\ n = Len(str) /\ b = Append(str, NUL) /\ m = n + 1
        /\ a = strtok([buf |-> b, sp |-> sp, token |-> 0], 1)
  OBVIOUS
<1>2. n \in Nat /\ m \in Nat /\ NUL \in S /\ str \in Seq(S)
  BY <1>1 DEF Text
<1>3. b \in Seq(S) /\ Len(b) = m /\ \A j \in 1 .. m : b[j] = IF j = m THEN NUL ELSE str[j]
  BY <1>1, <1>2, AppendProperties
<1>4. Holds(S, str, b, 1)
  <2>1. 1 \in 1 .. n + 1
    BY <1>2
  <2> QED BY <1>1, <1>3, <2>1 DEF Holds
<1>5. Good(S, str, 0, a)
  <2>1. PICK s : s = [buf |-> b, sp |-> sp, token |-> 0]
    OBVIOUS
  <2>2. s \in Tokens(S) /\ s.sp = 0 /\ s.buf = b
    BY <1>3, <2>1 DEF Tokens
  <2>3. Cardinality(Before(str, 1)) = 0
    <3>1. \A j \in Starts(str) : ~ (j < 1)
      BY StartsAre
    <3>2. Before(str, 1) = {}
      BY <3>1 DEF Before
    <3> QED BY <3>2, FS_EmptySet
  <2>4. 1 = IF s.sp = 0 THEN 1 ELSE s.sp
    BY <2>2
  <2>5. Good(S, str, 0, strtok(s, 1))
    BY <1>4, <2>2, <2>3, <2>4, GoodCall
  <2> QED BY <1>1, <2>1, <2>5
<1>6. PICK c :
        c = CHOOSE f : f = [k \in 0 .. Len(Append(str, NUL)) |->
                              IF k = 0 THEN strtok([buf |-> Append(str, NUL), sp |-> sp, token |-> 0], 1)
                              ELSE strtok(f[k - 1], 0)]
  OBVIOUS
<1>7. Calls(c, m, a)
  <2>1. c = CHOOSE f : f = [k \in 0 .. m |-> IF k = 0 THEN a ELSE strtok(f[k - 1], 0)]
    BY <1>1, <1>3, <1>6
  <2>2. PICK f : Calls(f, m, a)
    BY <1>2, CallsExist
  <2>3. f = [k \in 0 .. m |-> IF k = 0 THEN a ELSE strtok(f[k - 1], 0)]
    BY <2>2 DEF Calls, Call
  <2>4. c = [k \in 0 .. m |-> IF k = 0 THEN a ELSE strtok(c[k - 1], 0)]
    BY <2>1, <2>3
  <2> QED BY <2>4 DEF Calls, Call
<1>8. PICK z : z = Min({k \in 0 .. Len(Append(str, NUL)) : c[k].token = 0})
  OBVIOUS
<1>9. peachos_parse_command(str)
        = [arguments |-> [k \in 1 .. z |->
                            strncpy(SubSeq(c[k - 1].buf, c[k - 1].token,
                                           FirstIn(c[k - 1].buf, c[k - 1].token, {NUL}) - 1),
                                    MaxArgument)],
           sp |-> c[z].sp]
  BY <1>6, <1>8 DEF peachos_parse_command
<1>10. ASSUME NEW k \in 0 .. m, \A l \in 0 .. k - 1 : c[l].token # 0
      PROVE  Good(S, str, k, c[k])
  BY <1>1, <1>5, <1>7, <1>10, AllCallsGood
<1>11. PICK T : T = {k \in 0 .. m : c[k].token = 0}
  OBVIOUS
<1>12. T # {} /\ T \subseteq Nat
  <2> SUFFICES ASSUME T = {} PROVE FALSE
    BY <1>2, <1>11
  <2>1. \A l \in 0 .. m : c[l].token # 0
    BY <1>11
  <2>2. m \in 0 .. m /\ \A l \in 0 .. m - 1 : l \in 0 .. m
    BY <1>2
  <2>3. Good(S, str, m, c[m])
    BY <1>10, <2>1, <2>2
  <2>4. PICK i : i = c[m].token
    OBVIOUS
  <2>5. i \in Starts(str) /\ Place(str, i) = m + 1
    BY <2>1, <2>2, <2>3, <2>4 DEF Good
  <2>6. Place(str, i) \in 1 .. Cardinality(Starts(str))
    BY <2>5, PlaceBounds
  <2>7. Cardinality(Starts(str)) \in Nat /\ Cardinality(Starts(str)) <= n
    BY <1>1, StartsAre
  <2> QED BY <1>1, <1>2, <2>5, <2>6, <2>7
<1>13. PICK count : count = Min(T)
  OBVIOUS
<1>14. count \in T /\ \A k \in T : count <= k
  BY <1>12, <1>13, LeastNat
<1>15. count \in 0 .. m /\ c[count].token = 0
  BY <1>11, <1>14
<1>16. \A l \in 0 .. count - 1 : c[l].token # 0
  <2>1. ASSUME NEW l \in 0 .. count - 1 PROVE c[l].token # 0
    <3>1. l \in 0 .. m /\ ~ (count <= l)
      BY <1>2, <1>15
    <3>2. l \notin T
      BY <1>14, <3>1
    <3> QED BY <1>11, <3>1, <3>2
  <2> QED BY <2>1
<1>17. c[count].sp = 0 /\ Cardinality(Starts(str)) = count
  <2>1. Good(S, str, count, c[count])
    BY <1>10, <1>15, <1>16
  <2>2. c[count].token \notin Starts(str)
    <3>1. \A j \in Starts(str) : j # 0
      BY StartsAre
    <3> QED BY <1>15, <3>1
  <2> QED BY <2>1, <2>2 DEF Good
<1>18. PICK r : r = peachos_parse_command(str)
  OBVIOUS
<1>19. PICK x : x = [k \in 1 .. count |->
                       strncpy(SubSeq(c[k - 1].buf, c[k - 1].token,
                                      FirstIn(c[k - 1].buf, c[k - 1].token, {NUL}) - 1),
                               MaxArgument)]
  OBVIOUS
<1>20. r.sp = 0 /\ r.arguments = x
  <2>1. r = [arguments |-> x, sp |-> c[count].sp]
    BY <1>1, <1>3, <1>11, <1>13, <1>18, <1>19, <1>8, <1>9
  <2> QED BY <1>17, <2>1
<1>21. ASSUME NEW i \in Starts(str)
       PROVE  x[Place(str, i)] = strncpy(Word(str, i), MaxArgument)
  <2>1. PICK k : k = Place(str, i) - 1
    OBVIOUS
  <2>2. Place(str, i) \in 1 .. count
    BY <1>17, PlaceBounds
  <2>3. k \in 0 .. count - 1 /\ k \in 0 .. m /\ Place(str, i) = k + 1 /\ k + 1 \in 1 .. count
        /\ (k + 1) - 1 = k /\ \A l \in 0 .. k - 1 : l \in 0 .. count - 1
    BY <1>2, <1>15, <2>1, <2>2
  <2>4. PICK s : s = c[k]
    OBVIOUS
  <2>5. Good(S, str, k, s) /\ s.token # 0
    BY <1>10, <1>16, <2>3, <2>4
  <2>6. /\ s.token \in Starts(str) /\ Place(str, s.token) = k + 1
        /\ SubSeq(s.buf, s.token, FirstIn(s.buf, s.token, {NUL}) - 1) = Word(str, s.token)
    BY <2>5 DEF Good
  <2>7. s.token = i
    <3>1. PICK j : j = s.token
      OBVIOUS
    <3>2. j \in Nat /\ i \in Nat /\ j \in Starts(str)
      BY <2>6, <3>1, StartsAre
    <3>3. ~ (j < i) /\ ~ (i < j)
      <4>1. j < i => Place(str, j) \in Nat /\ Place(str, j) < Place(str, i)
        BY <3>2, PlacesDiffer
      <4>2. i < j => Place(str, i) \in Nat /\ Place(str, i) < Place(str, j)
        BY <3>2, PlacesDiffer
      <4>3. Place(str, j) = k + 1 /\ Place(str, i) = k + 1 /\ k \in Nat
        BY <2>3, <2>6, <3>1
      <4> QED BY <4>1, <4>2, <4>3
    <3> QED BY <3>1, <3>2, <3>3
  <2>8. x[k + 1] = strncpy(SubSeq(s.buf, s.token, FirstIn(s.buf, s.token, {NUL}) - 1), MaxArgument)
    BY <1>19, <2>3, <2>4
  <2> QED BY <2>3, <2>6, <2>7, <2>8
<1>22. Len(x) = count
  <2>1. count \in Nat
    BY <1>2, <1>15
  <2> QED BY <1>19, <2>1
<1> QED BY <1>17, <1>18, <1>20, <1>21, <1>22 DEF Parsed

-----------------------------------------------------------------------------
(* Types, and the arguments of a command                                   *)

\* What all steps keep of the shell's own variables: strtok's position is NULL
\* between two commands.
Typed ==
  /\ phase \in {"read", "run"}
  /\ line \in Seq(Chars \cup {BS}) /\ Len(line) <= LineSize - 1
  /\ sp = 0
  /\ keys \in 0 .. MaxKeys /\ outputs \in 0 .. MaxOutputs
  /\ strayed \in BOOLEAN /\ mixed \in BOOLEAN

\* A command is text, so its parse is a good one.
LEMMA CommandParses ==
  ASSUME Typed
  PROVE  Parsed(Prefix \o line, peachos_parse_command(Prefix \o line))
<1>1. PICK S : S = Chars \cup {BS, NUL} \cup Range(Prefix)
  OBVIOUS
<1>2. Prefix \in Seq(S) /\ \A k \in 1 .. Len(Prefix) : Prefix[k] # NUL
  <2>1. Prefix \in Seq(STRING) /\ NUL \notin Range(Prefix)
    BY ConsoleAssumption
  <2>2. \A k \in 1 .. Len(Prefix) : Prefix[k] \in Range(Prefix)
    BY <2>1 DEF Range
  <2> QED BY <1>1, <2>1, <2>2
<1>3. line \in Seq(S) /\ \A k \in 1 .. Len(line) : line[k] # NUL
  <2>1. \A c \in Chars \cup {BS} : c \in S /\ c # NUL
    BY <1>1, ConsoleAssumption DEF BS, NUL
  <2>2. line \in Seq(Chars \cup {BS})
    BY DEF Typed
  <2> QED BY <2>1, <2>2
<1>4. PICK str : str = Prefix \o line
  OBVIOUS
<1>5. /\ str \in Seq(S) /\ Len(str) = Len(Prefix) + Len(line)
      /\ \A k \in 1 .. Len(str) : str[k] = IF k <= Len(Prefix) THEN Prefix[k] ELSE line[k - Len(Prefix)]
  <2>1. /\ Prefix \o line \in Seq(S) /\ Len(Prefix \o line) = Len(Prefix) + Len(line)
        /\ \A k \in 1 .. Len(Prefix) + Len(line) :
             (Prefix \o line)[k] = IF k <= Len(Prefix) THEN Prefix[k] ELSE line[k - Len(Prefix)]
    BY ONLY <1>2, <1>3, ConcatProperties
  <2> QED BY <1>4, <2>1
<1>6. ASSUME NEW k \in 1 .. Len(str) PROVE str[k] # NUL
  <2>1. PICK m, n : m = Len(Prefix) /\ n = Len(line)
    OBVIOUS
  <2>2. m \in Nat /\ n \in Nat /\ k \in 1 .. m + n
    BY <1>2, <1>3, <1>5, <2>1
  <2>3. CASE k <= m
    BY <1>2, <1>5, <2>1, <2>2, <2>3
  <2>4. CASE ~ (k <= m)
    <3>1. k - m \in 1 .. n
      BY <2>2, <2>4
    <3> QED BY <1>3, <1>5, <2>1, <2>4, <3>1
  <2> QED BY <2>3, <2>4
<1>7. Text(S, str)
  BY <1>1, <1>5, <1>6 DEF Text
<1>8. sp = 0
  BY DEF Typed
<1> QED BY <1>4, <1>7, <1>8, ParseFinds

LEMMA InitTyped == Init => Typed
<1> SUFFICES ASSUME Init PROVE Typed
  OBVIOUS
<1>1. LineSize \in Nat \ {0} /\ MaxKeys \in Nat /\ MaxOutputs \in Nat
  BY ConsoleAssumption
<1>2. line \in Seq(Chars \cup {BS}) /\ Len(line) = 0
  BY DEF Init
<1>3. 0 <= LineSize - 1 /\ 0 \in 0 .. MaxKeys /\ 0 \in 0 .. MaxOutputs
  BY <1>1
<1> QED BY <1>2, <1>3 DEF Init, Typed

LEMMA NextTyped == Typed /\ [Next]_vars => Typed'
<1> SUFFICES ASSUME Typed, [Next]_vars PROVE Typed'
  OBVIOUS
<1>1. LineSize \in Nat \ {0} /\ MaxKeys \in Nat /\ MaxOutputs \in Nat
  BY ConsoleAssumption
<1>2. ASSUME NEW str, Prints(str) PROVE strayed' \in BOOLEAN
  BY <1>2 DEF Prints, Typed
<1>3. CASE shell_prints
  <2>1. strayed' \in BOOLEAN
    BY <1>2, <1>3 DEF shell_prints
  <2> QED BY <1>3, <2>1 DEF shell_prints, Typed
<1>4. ASSUME NEW str, Interferes(str) PROVE Typed'
  <2>1. strayed' \in BOOLEAN
    BY <1>2, <1>4 DEF Interferes
  <2>2. outputs' \in 0 .. MaxOutputs
    BY <1>1, <1>4 DEF Interferes, Typed
  <2>3. mixed' = TRUE /\ UNCHANGED shell
    BY <1>4 DEF Interferes
  <2> QED BY <2>1, <2>2, <2>3 DEF Typed, shell
<1>5. CASE \E str \in Outputs : other_prints(str)
  BY <1>4, <1>5 DEF other_prints
<1>6. CASE \E code \in Codes : isr80h_command0_process_exit(code)
  BY <1>4, <1>6 DEF isr80h_command0_process_exit
<1>7. CASE \E key \in Key : readline_key(key)
  <2>1. PICK key \in Key : readline_key(key)
    BY <1>7
  <2>2. /\ line \in Seq(Chars \cup {BS}) /\ Len(line) <= LineSize - 1
        /\ strayed \in BOOLEAN /\ mixed \in BOOLEAN
    BY DEF Typed
  <2>3. keys' \in 0 .. MaxKeys
    BY <1>1, <2>1 DEF readline_key, Typed
  <2>4. mixed' \in BOOLEAN
    <3>1. mixed' = (mixed \/ (key = BS /\ line = <<>>))
      BY <2>1 DEF readline_key
    <3> QED BY <2>2, <3>1
  <2>5. line' \in Seq(Chars \cup {BS}) /\ Len(line') <= LineSize - 1 /\ phase' \in {"read", "run"}
    <3>1. CASE key = CR /\ LineEnds
      BY <2>2, <3>1 DEF LineEnds
    <3>2. CASE line # <<>> /\ line' = Shortened(line) /\ UNCHANGED phase
      <4>1. PICK n : n = Len(line)
        OBVIOUS
      <4>2. n \in Nat \ {0} /\ 1 \in Int /\ n - 1 \in Int /\ \A k \in 1 .. n - 1 : line[k] \in Chars \cup {BS}
        BY <2>2, <3>2, <4>1
      <4>3. line' = SubSeq(line, 1, n - 1)
        BY <3>2, <4>1 DEF Shortened, Front
      <4>4. /\ line' \in Seq(Chars \cup {BS})
            /\ Len(line') = IF 1 <= n - 1 THEN n - 1 - 1 + 1 ELSE 0
        BY <4>2, <4>3, SubSeqProperties
      <4>5. Len(line') <= LineSize - 1
        BY <1>1, <2>2, <4>1, <4>2, <4>4
      <4> QED BY <3>2, <4>4, <4>5 DEF Typed
    <3>3. CASE key # CR /\ line' = Append(line, key) /\ UNCHANGED phase
      <4>1. key \in Chars \cup {BS}
        BY <3>3 DEF Key
      <4>2. line' \in Seq(Chars \cup {BS}) /\ Len(line') = Len(line) + 1
        BY <2>2, <3>3, <4>1, AppendProperties
      <4>3. Len(line) < LineSize - 1 /\ Len(line) \in Nat
        BY <2>1, <2>2 DEF readline_key
      <4>4. Len(line') <= LineSize - 1
        BY <1>1, <4>2, <4>3
      <4> QED BY <3>3, <4>2, <4>4 DEF Typed
    <3> QED BY <2>1, <3>1, <3>2, <3>3 DEF readline_key
  <2> QED BY <2>1, <2>2, <2>3, <2>4, <2>5 DEF readline_key, Typed
<1>8. CASE readline_full
  BY <1>8 DEF readline_full, LineEnds, Typed
<1>9. CASE peachos_system_run
  <2>1. sp' = 0
    <3>1. sp' = peachos_parse_command(Prefix \o line).sp
      BY <1>9 DEF peachos_system_run
    <3> QED BY <3>1, CommandParses DEF Parsed
  <2>2. line' \in Seq(Chars \cup {BS}) /\ Len(line') = 0
    BY <1>9 DEF peachos_system_run
  <2>3. Len(line') <= LineSize - 1
    BY <1>1, <2>2
  <2> QED BY <1>9, <2>1, <2>2, <2>3 DEF peachos_system_run, Typed
<1>10. CASE UNCHANGED vars
  BY <1>10 DEF vars, shell, Typed
<1> QED BY <1>3, <1>5, <1>6, <1>7, <1>8, <1>9, <1>10 DEF Next

\* Every variable has its type, and strtok's position is NULL whenever a parse
\* is over (programs/stdlib/src/string.c:301).
THEOREM TypeCorrect == Spec => []TypeOK
<1>1. Together /\ Typed => TypeOK
  <2> SUFFICES ASSUME Together, Typed PROVE TypeOK
    OBVIOUS
  <2>1. Range(line) \subseteq Chars \cup {BS}
    <3>1. line \in Seq(Chars \cup {BS})
      BY DEF Typed
    <3>2. DOMAIN line = 1 .. Len(line) /\ \A k \in 1 .. Len(line) : line[k] \in Chars \cup {BS}
      BY <3>1
    <3> QED BY <3>2 DEF Range
  <2>2. 0 \in 0 .. Len(Prefix) + LineSize
    <3>1. Len(Prefix) \in Nat /\ LineSize \in Nat
      BY ConsoleAssumption
    <3> QED BY <3>1
  <2> QED BY <2>1, <2>2 DEF Together, Typed, TypeOK, Screens
<1> QED BY <1>1, InitTogether, NextTogether, InitTyped, NextTyped, PTL DEF Spec

\* The arguments of a command are its words in their order, cut to the size of
\* an argument, whatever was parsed before (programs/stdlib/src/string.c:301).
THEOREM WordsAreFound == Spec => []ArgumentsAreWords
<1>1. Init => ArgumentsAreWords
  <2> SUFFICES ASSUME Init PROVE ArgumentsAreWords
    OBVIOUS
  <2>1. command = <<>> /\ args = <<>>
    BY DEF Init
  <2>2. Starts(command) = {}
    BY <2>1 DEF Starts
  <2> QED BY <2>1, <2>2, FS_EmptySet DEF ArgumentsAreWords
<1>2. Typed /\ ArgumentsAreWords /\ [Next]_vars => ArgumentsAreWords'
  <2> SUFFICES ASSUME Typed, ArgumentsAreWords, [Next]_vars PROVE ArgumentsAreWords'
    OBVIOUS
  <2>1. CASE peachos_system_run
    <3>1. command' = Prefix \o line /\ args' = peachos_parse_command(Prefix \o line).arguments
      BY <2>1 DEF peachos_system_run
    <3>2. PICK str, r : str = Prefix \o line /\ r = peachos_parse_command(Prefix \o line)
      OBVIOUS
    <3>3. Parsed(str, r) /\ command' = str /\ args' = r.arguments
      BY <3>1, <3>2, CommandParses
    <3> QED BY <3>3 DEF Parsed, Place, ArgumentsAreWords
  <2>2. CASE UNCHANGED <<command, args>>
    BY <2>2 DEF ArgumentsAreWords
  <2>3. ~ peachos_system_run => UNCHANGED <<command, args>>
    BY DEF Next, vars, shell, shell_prints, other_prints, isr80h_command0_process_exit,
           Interferes, readline_key, readline_full
  <2> QED BY <2>1, <2>2, <2>3
<1> QED BY <1>1, <1>2, InitTyped, NextTyped, PTL DEF Spec

-----------------------------------------------------------------------------
(* All that is on the page, line after line                                *)

\* Written, case by case.
WrittenTo(lines, c, n, last, new) ==
  /\ c = NL => new = Append(lines, <<>>)
  /\ c = BS => new = IF last = <<>> THEN lines ELSE [lines EXCEPT ![n] = Front(last)]
  /\ c # NL /\ c # BS =>
       LET added == [lines EXCEPT ![n] = Append(last, c)]
       IN  new = IF Len(last) = Width - 2 THEN Append(added, <<>>) ELSE added

LEMMA WrittenCases ==
  ASSUME NEW lines, NEW c, NEW n, n = Len(lines), NEW last, last = lines[n]
  PROVE  WrittenTo(lines, c, n, last, Written(lines, c))
<1> DEFINE added == [lines EXCEPT ![n] = Append(last, c)]
<1>1. NL # BS
  BY DEF NL, BS
<1>2. PICK x, y, z : /\ x = Append(lines, <<>>)
                     /\ y = (IF last = <<>> THEN lines ELSE [lines EXCEPT ![n] = Front(last)])
                     /\ z = (IF Len(last) = Width - 2 THEN Append(added, <<>>) ELSE added)
  OBVIOUS
<1>3. Written(lines, c) = CASE c = NL -> x [] c = BS -> y [] OTHER -> z
  BY <1>2 DEF Written
<1>4. /\ c = NL => Written(lines, c) = x
      /\ c = BS => Written(lines, c) = y
      /\ c # NL /\ c # BS => Written(lines, c) = z
  BY <1>1, <1>3
<1> QED BY <1>2, <1>4 DEF WrittenTo

Joint(f, lines, i)  == IF i = 1 THEN lines[1] ELSE f[i - 1] \o lines[i]
Joins(f, lines, n)  == \A i \in 1 .. n : f[i] = Joint(f, lines, i)
Alike(a, b, n)      == \A i \in 1 .. n : a[i] = b[i]

\* Joining begins alike where the lines do.
LEMMA SameJoints ==
  ASSUME NEW n \in Nat, NEW a, NEW b, Alike(a, b, n),
         NEW f, NEW g, Joins(f, a, n), Joins(g, b, n)
  PROVE  Alike(f, g, n)
<1> DEFINE G == {i \in 0 .. n : i # 0 => f[i] = g[i]}
<1>1. 0 \in G
  OBVIOUS
<1>2. ASSUME NEW i \in 0 .. n, i \in G, i < n PROVE i + 1 \in G
  <2>1. PICK j : j = i + 1
    OBVIOUS
  <2>2. j \in 1 .. n /\ j - 1 = i /\ j \in 0 .. n /\ (j = 1 <=> i = 0)
    BY <1>2, <2>1
  <2>3. f[j] = Joint(f, a, j) /\ g[j] = Joint(g, b, j) /\ a[j] = b[j]
    BY <2>2 DEF Joins, Alike
  <2>4. j # 1 => f[j - 1] = g[j - 1]
    BY <1>2, <2>2
  <2>5. f[j] = g[j]
    <3>1. CASE j = 1
      <4>1. a[1] = b[1]
        BY <2>3, <3>1
      <4> QED BY <2>3, <3>1, <4>1 DEF Joint
    <3>2. CASE j # 1
      BY <2>3, <2>4, <3>2 DEF Joint
    <3> QED BY <3>1, <3>2
  <2> QED BY <2>1, <2>2, <2>5
<1>3. 0 .. n \subseteq G
  <2> HIDE DEF G
  <2> QED BY <1>1, <1>2, SetInduction
<1>4. \A i \in 1 .. n : i \in 0 .. n /\ i # 0
  OBVIOUS
<1> QED BY <1>3, <1>4 DEF Alike

IsFlat(S, lines, n, f) == /\ Joins(f, lines, n) /\ (\A i \in 1 .. n : f[i] \in Seq(S))
                          /\ FlattenSeq(lines) = f[n]

LEMMA Flat ==
  ASSUME NEW S, NEW lines \in Seq(Seq(S)), lines # <<>>, NEW n, n = Len(lines)
  PROVE  \E f : IsFlat(S, lines, n, f)
<1>1. PICK m, A : m = n - 1 /\ A = Seq(S)
  OBVIOUS
<1>2. n \in Nat \ {0} /\ m \in Nat /\ \A i \in 1 .. n : lines[i] \in A
  BY <1>1
<1>3. PICK s : s = [k \in 1 .. m |-> [x \in A |-> x \o lines[k + 1]]]
  OBVIOUS
<1>4. StaysIn(s, m, A)
  <2>1. ASSUME NEW k \in 1 .. m, NEW x \in A PROVE s[k][x] \in A
    <3>1. k + 1 \in 1 .. n
      BY <1>1, <1>2
    <3>2. lines[k + 1] \in A
      BY <1>2, <3>1
    <3>3. x \o lines[k + 1] \in A
      BY <1>1, <3>2, ConcatProperties
    <3> QED BY <1>3, <3>3
  <2> QED BY <2>1 DEF StaysIn
<1>5. lines[1] \in A
  <2>1. 1 \in 1 .. n
    BY <1>2
  <2> QED BY <1>2, <2>1
<1>6. PICK g \in [0 .. m -> A] : Loops(g, s, m, lines[1])
  BY <1>2, <1>4, <1>5, LoopExists
<1>7. PICK f : f = [i \in 1 .. n |-> g[i - 1]]
  OBVIOUS
<1>8. ASSUME NEW i \in 1 .. n PROVE f[i] \in A /\ f[i] = Joint(f, lines, i)
  <2>1. i - 1 \in 0 .. m /\ f[i] = g[i - 1]
    BY <1>1, <1>2, <1>7
  <2>2. f[i] \in A
    BY <1>6, <2>1
  <2>3. CASE i = 1
    <3>1. g[0] = lines[1] /\ i - 1 = 0
      BY <1>6, <2>3 DEF Loops
    <3> QED BY <2>1, <2>2, <2>3, <3>1 DEF Joint
  <2>4. CASE i # 1
    <3>1. PICK k : k = i - 1
      OBVIOUS
    <3>2. k \in 1 .. m /\ k + 1 = i /\ k \in 1 .. n /\ k - 1 \in 0 .. m
      BY <1>1, <1>2, <2>4, <3>1
    <3>3. g[k] = s[k][g[k - 1]]
      BY <1>6, <3>2 DEF Loops
    <3>4. g[k - 1] \in A /\ f[k] = g[k - 1]
      BY <1>6, <1>7, <3>2
    <3>5. g[k] = g[k - 1] \o lines[i]
      BY <1>3, <3>2, <3>3, <3>4
    <3> QED BY <2>1, <2>2, <2>4, <3>1, <3>4, <3>5 DEF Joint
  <2> QED BY <2>3, <2>4
<1>9. PICK h : h = CHOOSE e : e = [i \in 1 .. n |-> IF i = 1 THEN lines[i] ELSE e[i - 1] \o lines[i]]
  OBVIOUS
<1>10. FlattenSeq(lines) = h[n]
  BY <1>1, <1>2, <1>9 DEF FlattenSeq
<1>11. h = [i \in 1 .. n |-> IF i = 1 THEN lines[i] ELSE h[i - 1] \o lines[i]]
  <2>1. ASSUME NEW i \in 1 .. n
        PROVE  f[i] = IF i = 1 THEN lines[i] ELSE f[i - 1] \o lines[i]
    BY <1>8 DEF Joint
  <2>2. f = [i \in 1 .. n |-> f[i]]
    BY <1>7
  <2>3. f = [i \in 1 .. n |-> IF i = 1 THEN lines[i] ELSE f[i - 1] \o lines[i]]
    BY <2>1, <2>2
  <2> QED BY <1>9, <2>3
<1>12. Joins(h, lines, n)
  <2>1. ASSUME NEW i \in 1 .. n PROVE h[i] = Joint(h, lines, i)
    BY <1>11 DEF Joint
  <2> QED BY <2>1 DEF Joins
<1>13. Joins(f, lines, n)
  BY <1>8 DEF Joins
<1>14. \A i \in 1 .. n : h[i] = f[i]
  <2>1. Alike(lines, lines, n)
    BY DEF Alike
  <2>2. Alike(h, f, n)
    BY <1>2, <1>12, <1>13, <2>1, SameJoints
  <2> QED BY <2>2 DEF Alike
<1> QED BY <1>1, <1>2, <1>8, <1>10, <1>13, <1>14 DEF IsFlat

\* A line more is added at the end.
LEMMA FlatAppend ==
  ASSUME NEW S, NEW lines \in Seq(Seq(S)), lines # <<>>, NEW x \in Seq(S)
  PROVE  FlattenSeq(lines) \in Seq(S) /\ FlattenSeq(Append(lines, x)) = FlattenSeq(lines) \o x
<1>1. PICK n, A, new : n = Len(lines) /\ A = Seq(S) /\ new = Append(lines, x)
  OBVIOUS
<1>2. n \in Nat \ {0} /\ lines \in Seq(A) /\ x \in A
  BY <1>1
<1>3. new \in Seq(A) /\ Len(new) = n + 1 /\ new # <<>>
      /\ (\A i \in 1 .. n : new[i] = lines[i]) /\ new[n + 1] = x
  BY <1>1, <1>2, AppendProperties
<1>4. PICK f : /\ Joins(f, lines, n) /\ (\A i \in 1 .. n : f[i] \in A)
               /\ FlattenSeq(lines) = f[n]
  <2>1. n = Len(lines)
    BY <1>1
  <2>2. PICK f : IsFlat(S, lines, n, f)
    BY ONLY lines \in Seq(Seq(S)), lines # <<>>, <2>1, Flat
  <2> QED BY <1>1, <2>2 DEF IsFlat
<1>5. PICK g : Joins(g, new, n + 1) /\ FlattenSeq(new) = g[n + 1]
  <2>1. PICK l : l = n + 1
    OBVIOUS
  <2>2. new \in Seq(Seq(S)) /\ new # <<>> /\ l = Len(new)
    BY <1>1, <1>3, <2>1
  <2>3. PICK g : IsFlat(S, new, l, g)
    BY ONLY <2>2, Flat
  <2> QED BY <2>1, <2>3 DEF IsFlat
<1>6. Joins(g, new, n)
  <2>1. \A i \in 1 .. n : i \in 1 .. n + 1
    BY <1>2
  <2> QED BY <1>5, <2>1 DEF Joins
<1>7. \A i \in 1 .. n : f[i] = g[i]
  <2>1. Alike(lines, new, n)
    BY <1>3 DEF Alike
  <2>2. Alike(f, g, n)
    BY <1>2, <1>4, <1>6, <2>1, SameJoints
  <2> QED BY <2>2 DEF Alike
<1>8. g[n + 1] = g[n] \o x
  <2>1. n + 1 \in 1 .. n + 1 /\ n + 1 # 1 /\ (n + 1) - 1 = n
    BY <1>2
  <2> QED BY <1>3, <1>5, <2>1 DEF Joins, Joint
<1>9. n \in 1 .. n
  BY <1>2
<1> QED BY <1>1, <1>4, <1>5, <1>7, <1>8, <1>9

\* The last line is at the end.
SameFront(S, lines, last, new, now) ==
  \E front \in Seq(S) : FlattenSeq(lines) = front \o last /\ FlattenSeq(new) = front \o now

LEMMA FlatLast ==
  ASSUME NEW S, NEW lines \in Seq(Seq(S)), lines # <<>>, NEW now \in Seq(S),
         NEW len, len = Len(lines), NEW last, last = lines[len],
         NEW new, new = [lines EXCEPT ![len] = now]
  PROVE  SameFront(S, lines, last, new, now)
<1>1. PICK n, A : n = len /\ A = Seq(S)
  OBVIOUS
<1>2. n \in Nat \ {0} /\ lines \in Seq(A) /\ now \in A /\ n \in 1 .. n
      /\ n = Len(lines) /\ last = lines[n] /\ new = [lines EXCEPT ![n] = now]
      /\ \A i \in 1 .. n : lines[i] \in A
  BY <1>1
<1>3. new \in Seq(A) /\ Len(new) = n /\ new # <<>>
      /\ \A i \in 1 .. n : new[i] = IF i = n THEN now ELSE lines[i]
  <2>1. new \in Seq(A) /\ Len(new) = Len(lines)
        /\ \A i \in 1 .. Len(lines) : new[i] = IF i = n THEN now ELSE lines[i]
    BY <1>1, <1>2, ExceptSeq
  <2> QED BY <1>1, <1>2, <2>1
<1>4. PICK f : /\ Joins(f, lines, n) /\ (\A i \in 1 .. n : f[i] \in A)
               /\ FlattenSeq(lines) = f[n]
  <2>1. n = Len(lines)
    BY <1>2
  <2>2. PICK f : IsFlat(S, lines, n, f)
    BY ONLY lines \in Seq(Seq(S)), lines # <<>>, <2>1, Flat
  <2> QED BY <1>1, <2>2 DEF IsFlat
<1>5. PICK g : /\ Joins(g, new, n) /\ FlattenSeq(new) = g[n]
  <2>1. new \in Seq(Seq(S)) /\ new # <<>> /\ n = Len(new)
    BY <1>1, <1>3
  <2>2. PICK g : IsFlat(S, new, n, g)
    BY ONLY <2>1, Flat
  <2> QED BY <2>2 DEF IsFlat
<1>6. f[n] = Joint(f, lines, n) /\ g[n] = Joint(g, new, n) /\ new[n] = now
  BY <1>2, <1>3, <1>4, <1>5 DEF Joins
<1>7. CASE n = 1
  <2>1. f[n] = lines[n] /\ g[n] = now
    BY <1>6, <1>7 DEF Joint
  <2>2. lines[n] \in Seq(S) /\ now \in Seq(S)
    BY <1>1, <1>2
  <2>3. <<>> \o lines[n] = lines[n] /\ <<>> \o now = now /\ <<>> \in Seq(S)
    BY <2>2, ConcatEmptySeq
  <2>4. FlattenSeq(lines) = <<>> \o lines[n] /\ FlattenSeq(new) = <<>> \o now
    BY <1>4, <1>5, <2>1, <2>3
  <2> QED BY <1>2, <2>3, <2>4 DEF SameFront
<1>8. CASE n # 1
  <2>1. PICK m : m = n - 1
    OBVIOUS
  <2>2. m \in Nat /\ m \in 1 .. n /\ m \in 1 .. m /\ \A i \in 1 .. m : i \in 1 .. n /\ i # n
    BY <1>2, <1>8, <2>1
  <2>3. f[n] = f[m] \o lines[n] /\ g[n] = g[m] \o now
    BY <1>6, <1>8, <2>1 DEF Joint
  <2>4. f[m] = g[m]
    <3>1. Joins(f, lines, m) /\ Joins(g, new, m)
      BY <1>4, <1>5, <2>2 DEF Joins
    <3>2. Alike(lines, new, m)
      BY <1>3, <2>2 DEF Alike
    <3>3. Alike(f, g, m)
      BY <2>2, <3>1, <3>2, SameJoints
    <3> QED BY <2>2, <3>3 DEF Alike
  <2>5. f[m] \in Seq(S)
    BY <1>1, <1>4, <2>2
  <2> QED BY <1>2, <1>4, <1>5, <2>3, <2>4, <2>5 DEF SameFront
<1> QED BY <1>7, <1>8

\* What a character does to all that is on the page.
Becomes(f, g, c, last) ==
  /\ f \in Seq(Shown) /\ g \in Seq(Shown)
  /\ c = NL => g = f
  /\ c # NL /\ c # BS => g = f \o <<c>>
  /\ c = BS /\ last # <<>> => \E d \in Shown : f = g \o <<d>>

LEMMA FlatWritten ==
  ASSUME NEW lines \in Pages, NEW c \in Printed,
         NEW f, f = FlattenSeq(lines), NEW g, g = FlattenSeq(Written(lines, c))
  PROVE  Becomes(f, g, c, lines[Len(lines)])
<1>1. PICK n : n = Len(lines)
  OBVIOUS
<1>2. PICK last : last = lines[n]
  OBVIOUS
<1>3. lines \in Seq(Seq(Shown)) /\ lines # <<>> /\ n \in Nat \ {0} /\ last \in Seq(Shown)
  <2>1. n \in 1 .. n
    BY <1>1, PageParts
  <2> QED BY <1>1, <1>2, <2>1, PageParts DEF Pages
<1>10. WrittenTo(lines, c, n, last, Written(lines, c))
  BY ONLY <1>1, <1>2, WrittenCases
<1>4. <<>> \in Seq(Shown)
  OBVIOUS
<1>5. f \in Seq(Shown)
  BY <1>3, <1>4, FlatAppend
<1>6. g \in Seq(Shown)
  <2>1. Written(lines, c) \in Pages
    BY WrittenType
  <2>2. Written(lines, c) \in Seq(Seq(Shown)) /\ Written(lines, c) # <<>>
    BY <2>1 DEF Pages
  <2> QED BY <1>4, <2>2, FlatAppend
<1>7. ASSUME c = NL PROVE g = f
  <2>1. Written(lines, c) = Append(lines, <<>>)
    BY ONLY <1>7, <1>10 DEF WrittenTo
  <2>2. g = f \o <<>>
    BY <1>3, <1>4, <2>1, FlatAppend
  <2> QED BY <1>5, <2>2, ConcatEmptySeq
<1>8. ASSUME c # NL, c # BS PROVE g = f \o <<c>>
  <2>1. PICK now, added : now = Append(last, c) /\ added = [lines EXCEPT ![n] = now]
    OBVIOUS
  <2>2. Written(lines, c) = IF Len(last) = Width - 2 THEN Append(added, <<>>) ELSE added
    <3>1. added = [lines EXCEPT ![n] = Append(last, c)]
      BY <2>1
    <3> QED BY ONLY <1>8, <1>10, <3>1 DEF WrittenTo
  <2>3. c \in Shown
    BY <1>8 DEF Printed
  <2>4. now \in Seq(Shown) /\ now = last \o <<c>> /\ <<c>> \in Seq(Shown)
    BY <1>3, <2>1, <2>3, AppendProperties, AppendIsConcat
  <2>5. PICK front \in Seq(Shown) : f = front \o last /\ FlattenSeq(added) = front \o now
    <3>1. added = [lines EXCEPT ![n] = now] /\ now \in Seq(Shown)
      BY <2>1, <2>4
    <3>2. SameFront(Shown, lines, last, added, now)
      BY ONLY <1>1, <1>2, <1>3, <3>1, FlatLast
    <3> QED BY <3>2 DEF SameFront
  <2>6. FlattenSeq(added) = f \o <<c>>
    <3>1. PICK x : x = <<c>>
      OBVIOUS
    <3>2. front \in Seq(Shown) /\ last \in Seq(Shown) /\ x \in Seq(Shown)
      BY <1>3, <2>4, <2>5, <3>1
    <3>3. (front \o last) \o x = front \o (last \o x)
      BY ONLY <3>2, ConcatAssociative
    <3> QED BY <2>4, <2>5, <3>1, <3>3
  <2>7. added \in Seq(Seq(Shown)) /\ added # <<>>
    <3>1. PICK A : A = Seq(Shown)
      OBVIOUS
    <3>2. lines \in Seq(A) /\ n \in 1 .. Len(lines) /\ now \in A
      BY <1>1, <1>3, <2>4, <3>1
    <3>3. added \in Seq(A) /\ Len(added) = Len(lines)
      BY <2>1, <3>2, ExceptSeq
    <3> QED BY <1>1, <1>3, <3>1, <3>3
  <2>8. FlattenSeq(Append(added, <<>>)) = FlattenSeq(added)
    <3>1. /\ FlattenSeq(added) \in Seq(Shown)
          /\ FlattenSeq(Append(added, <<>>)) = FlattenSeq(added) \o <<>>
      BY <1>4, <2>7, FlatAppend
    <3> QED BY <3>1, ConcatEmptySeq
  <2> QED BY <2>2, <2>6, <2>8
<1>9. ASSUME c = BS, last # <<>> PROVE \E d \in Shown : f = g \o <<d>>
  <2>1. PICK m, now : m = Len(last) /\ now = SubSeq(last, 1, m - 1)
    OBVIOUS
  <2>2. m \in Nat \ {0}
    BY <1>3, <1>9, <2>1
  <2>3. PICK new : new = [lines EXCEPT ![n] = now]
    OBVIOUS
  <2>4. Written(lines, c) = new
    <3>1. Front(last) = now
      BY <2>1 DEF Front
    <3>2. Written(lines, c) = [lines EXCEPT ![n] = Front(last)]
      BY ONLY <1>9, <1>10 DEF WrittenTo
    <3> QED BY <2>3, <3>1, <3>2
  <2>5. last = now \o <<last[m]>> /\ last[m] \in Shown /\ now \in Seq(Shown)
    <3>1. 1 \in 1 .. Len(last) /\ m \in 1 .. Len(last)
      BY <2>1, <2>2
    <3>2. SubSeq(last, 1, m) = SubSeq(last, 1, m - 1) \o <<last[m]>>
      BY <1>3, <3>1, SubSeqRecursiveSecond
    <3>3. SubSeq(last, 1, m) = last
      BY <1>3, <2>1, SubSeqFull
    <3>4. now \in Seq(Shown)
      <4>1. \A k \in 1 .. m - 1 : last[k] \in Shown
        BY <1>3, <2>1, <2>2
      <4>2. 1 \in Int /\ m - 1 \in Int
        BY <2>2
      <4> QED BY <2>1, <4>1, <4>2, SubSeqProperties
    <3>5. last[m] \in Shown
      BY <1>3, <3>1
    <3> QED BY <2>1, <3>2, <3>3, <3>4, <3>5
  <2>6. PICK d : d = last[m]
    OBVIOUS
  <2>7. PICK front \in Seq(Shown) : f = front \o last /\ FlattenSeq(new) = front \o now
    <3>1. now \in Seq(Shown)
      BY <2>5
    <3>2. SameFront(Shown, lines, last, new, now)
      BY ONLY <1>1, <1>2, <1>3, <2>3, <3>1, FlatLast
    <3> QED BY <3>2 DEF SameFront
  <2>8. d \in Shown /\ last = now \o <<d>> /\ <<d>> \in Seq(Shown) /\ now \in Seq(Shown)
    BY <2>5, <2>6
  <2>9. front \o (now \o <<d>>) = (front \o now) \o <<d>>
    BY ONLY front \in Seq(Shown), <2>8, ConcatAssociative
  <2>10. f = g \o <<d>>
    BY <2>4, <2>7, <2>8, <2>9
  <2> QED BY <2>8, <2>10
<1> QED BY <1>1, <1>2, <1>5, <1>6, <1>7, <1>8, <1>9 DEF Becomes

-----------------------------------------------------------------------------
(* The line that is shown                                                  *)

\* A text ends with another.
Ends(f, s) == \E u \in Seq(Printed) : f = u \o s

LEMMA EndsOnce ==
  ASSUME NEW f \in Seq(Printed), NEW s \in Seq(Printed), NEW c \in Printed
  PROVE  /\ Ends(f, <<>>)
         /\ Ends(f, s) => Ends(f \o <<c>>, s \o <<c>>)
         /\ Ends(f \o s, s)
<1>1. f = f \o <<>>
  BY ConcatEmptySeq
<1>2. ASSUME Ends(f, s) PROVE Ends(f \o <<c>>, s \o <<c>>)
  <2>1. PICK u \in Seq(Printed) : f = u \o s
    BY <1>2 DEF Ends
  <2>2. PICK x : x = <<c>>
    OBVIOUS
  <2>3. x \in Seq(Printed)
    BY <2>2
  <2>4. (u \o s) \o x = u \o (s \o x)
    BY ONLY s \in Seq(Printed), u \in Seq(Printed), <2>3, ConcatAssociative
  <2> QED BY <2>1, <2>2, <2>4 DEF Ends
<1> QED BY <1>1, <1>2 DEF Ends

\* What ends with two more ends with the first one less.
LEMMA EndsLess ==
  ASSUME NEW f \in Seq(Printed), NEW s \in Seq(Printed), NEW c \in Printed, NEW d \in Printed,
         Ends(f \o <<d>>, s \o <<c>>)
  PROVE  Ends(f, s)
<1>1. PICK u \in Seq(Printed) : f \o <<d>> = u \o (s \o <<c>>)
  BY DEF Ends
<1>2. PICK x : x = <<c>>
  OBVIOUS
<1>3. x \in Seq(Printed)
  BY <1>2
<1>4. u \o (s \o x) = (u \o s) \o x
  BY ONLY s \in Seq(Printed), u \in Seq(Printed), <1>3, ConcatAssociative
<1>5. PICK v : v = u \o s
  OBVIOUS
<1>6. v \in Seq(Printed)
  BY <1>1, <1>5, ConcatProperties
<1>7. Append(f, d) = f \o <<d>> /\ Append(v, c) = v \o <<c>>
  BY <1>6, AppendIsConcat
<1>8. Append(f, d) = Append(v, c)
  BY <1>1, <1>2, <1>4, <1>5, <1>7
<1>9. f = v
  BY <1>6, <1>8, AppendInjective
<1> QED BY <1>1, <1>5, <1>9 DEF Ends

LEMMA ReverseIs ==
  ASSUME NEW S, NEW s \in Seq(S), NEW n, n = Len(s)
  PROVE  Reverse(s) \in Seq(S) /\ Len(Reverse(s)) = n
         /\ \A k \in 1 .. n : Reverse(s)[k] = s[(n - k) + 1]
<1>1. PICK r : r = Reverse(s)
  OBVIOUS
<1>2. n \in Nat /\ r = [k \in 1 .. n |-> s[(n - k) + 1]]
  BY <1>1 DEF Reverse
<1>3. ASSUME NEW k \in 1 .. n PROVE s[(n - k) + 1] \in S
  <2>1. (n - k) + 1 \in 1 .. n
    BY <1>2
  <2> QED BY <2>1
<1>4. r \in Seq(S) /\ Len(r) = n /\ \A k \in 1 .. n : r[k] = s[(n - k) + 1]
  BY ONLY <1>2, <1>3
<1> QED BY <1>1, <1>4

LEMMA EndsIsSuffix ==
  ASSUME NEW f, NEW s \in Seq(Printed), Ends(f, s)
  PROVE  IsSuffix(s, f)
<1>1. PICK u \in Seq(Printed) : f = u \o s
  BY DEF Ends
<1>2. PICK m, n : m = Len(u) /\ n = Len(s)
  OBVIOUS
<1>3. m \in Nat /\ n \in Nat /\ Len(f) = m + n /\ f \in Seq(Printed)
      /\ \A k \in 1 .. m + n : f[k] = IF k <= m THEN u[k] ELSE s[k - m]
  BY <1>1, <1>2, ConcatProperties
<1>4. PICK a, b : a = Reverse(s) /\ b = Reverse(f)
  OBVIOUS
<1>5. a \in Seq(Printed) /\ Len(a) = n /\ \A k \in 1 .. n : a[k] = s[(n - k) + 1]
  <2>1. /\ Reverse(s) \in Seq(Printed) /\ Len(Reverse(s)) = n
        /\ \A k \in 1 .. n : Reverse(s)[k] = s[(n - k) + 1]
    BY ONLY s \in Seq(Printed), <1>2, ReverseIs
  <2> QED BY <1>4, <2>1
<1>6. b \in Seq(Printed) /\ Len(b) = m + n /\ \A k \in 1 .. m + n : b[k] = f[((m + n) - k) + 1]
  <2>1. PICK l : l = m + n
    OBVIOUS
  <2>2. l = Len(f) /\ f \in Seq(Printed)
    BY <1>3, <2>1
  <2>3. /\ Reverse(f) \in Seq(Printed) /\ Len(Reverse(f)) = l
        /\ \A k \in 1 .. l : Reverse(f)[k] = f[(l - k) + 1]
    BY ONLY <2>2, ReverseIs
  <2> QED BY <1>4, <2>1, <2>3
<1>7. ASSUME NEW k \in 1 .. n PROVE a[k] = b[k]
  <2>1. PICK j : j = ((m + n) - k) + 1
    OBVIOUS
  <2>2. j \in 1 .. m + n /\ ~ (j <= m) /\ j - m = (n - k) + 1 /\ k \in 1 .. m + n
    BY <1>3, <2>1
  <2> QED BY <1>3, <1>5, <1>6, <2>1, <2>2
<1>8. PICK x, y : x = SubSeq(a, 1, n) /\ y = SubSeq(b, 1, n)
  OBVIOUS
<1>9. /\ x \in Seq(Printed) /\ Len(x) = (IF 1 <= n THEN n - 1 + 1 ELSE 0)
      /\ \A k \in 1 .. n - 1 + 1 : x[k] = a[1 + k - 1]
  <2>1. 1 \in Int /\ n \in Int /\ \A k \in 1 .. n : a[k] \in Printed
    BY <1>3, <1>5
  <2> QED BY <1>8, <2>1, SubSeqProperties
<1>10. /\ y \in Seq(Printed) /\ Len(y) = (IF 1 <= n THEN n - 1 + 1 ELSE 0)
       /\ \A k \in 1 .. n - 1 + 1 : y[k] = b[1 + k - 1]
  <2>1. 1 \in Int /\ n \in Int /\ \A k \in 1 .. n : b[k] \in Printed
    <3>1. \A k \in 1 .. n : k \in 1 .. m + n
      BY <1>3
    <3> QED BY <1>3, <1>6, <3>1
  <2> QED BY <1>8, <2>1, SubSeqProperties
<1>11. Len(x) = n /\ Len(y) = n
  BY <1>3, <1>9, <1>10
<1>12. ASSUME NEW k \in 1 .. n PROVE x[k] = y[k]
  <2>1. k \in 1 .. n - 1 + 1 /\ 1 + k - 1 = k
    BY <1>3
  <2> QED BY <1>7, <1>9, <1>10, <2>1
<1>13. x = y
  BY <1>9, <1>10, <1>11, <1>12, SeqEqual
<1>14. n <= m + n
  BY <1>3
<1> QED BY <1>4, <1>5, <1>6, <1>8, <1>13, <1>14 DEF IsSuffix, IsPrefix

\* The lines after a single character.
LEMMA WrittenOne ==
  ASSUME NEW lines \in Pages, NEW c \in Printed
  PROVE  written(lines, <<c>>) = Written(lines, c)
<1>1. PICK str : str = <<c>>
  OBVIOUS
<1>2. str \in Seq(Printed) /\ Len(str) = 1 /\ str[1] = c
  BY <1>1
<1>3. Reads(Writing(lines, str), lines, str)
  BY <1>2, WritingReads
<1>4. 1 \in 1 .. Len(str) /\ 1 - 1 = 0
  BY <1>2
<1>5. Writing(lines, str)[1] = Written(lines, c)
  BY <1>2, <1>3, <1>4 DEF Reads
<1> QED BY <1>1, <1>2, <1>5 DEF written

Plain(str) == str \in Seq(Shown) /\ \A k \in 1 .. Len(str) : str[k] # NL /\ str[k] # BS

\* Characters that are shown are added to all that is on the page.
LEMMA PlainWritten ==
  ASSUME NEW lines \in Pages, NEW str, Plain(str),
         NEW f, f = FlattenSeq(lines)
  PROVE  f \in Seq(Shown) /\ FlattenSeq(written(lines, str)) = f \o str
<1>1. PICK n, a : n = Len(str) /\ a = Writing(lines, str)
  OBVIOUS
<1>2. /\ str \in Seq(Shown) /\ str \in Seq(Printed) /\ n \in Nat
      /\ \A k \in 1 .. n : str[k] \in Shown /\ str[k] \in Printed /\ str[k] # NL /\ str[k] # BS
  BY <1>1, PromptType DEF Plain, Printed
<1>3. (\A k \in 0 .. n : a[k] \in Pages) /\ Reads(a, lines, str)
  BY <1>1, <1>2, WritingReads
<1>4. f \in Seq(Shown)
  <2>1. lines \in Seq(Seq(Shown)) /\ lines # <<>> /\ <<>> \in Seq(Shown)
    BY DEF Pages
  <2> QED BY <2>1, FlatAppend
<1> DEFINE Upto(k) == SubSeq(str, 1, k)
           G == {k \in 0 .. n : FlattenSeq(a[k]) = f \o Upto(k)}
<1>5. 0 \in G
  <2>1. a[0] = lines
    BY <1>3 DEF Reads
  <2>2. Upto(0) = <<>>
    BY <1>2, SubSeqEmpty
  <2>3. f \o <<>> = f
    BY <1>4, ConcatEmptySeq
  <2> HIDE DEF Upto
  <2>4. FlattenSeq(a[0]) = f \o Upto(0)
    BY <2>1, <2>2, <2>3
  <2> QED BY <1>2, <2>4
<1>6. ASSUME NEW i \in 0 .. n, i \in G, i < n PROVE i + 1 \in G
  <2>1. PICK j : j = i + 1
    OBVIOUS
  <2>2. j \in 1 .. n /\ j - 1 = i /\ j \in 0 .. n
    BY <1>2, <1>6, <2>1
  <2>3. PICK c, b : c = str[j] /\ b = a[i]
    OBVIOUS
  <2>4. a[j] = Written(b, c) /\ b \in Pages /\ c \in Printed /\ c \in Shown /\ c # NL /\ c # BS
    BY <1>1, <1>2, <1>3, <2>2, <2>3 DEF Reads
  <2>5. FlattenSeq(Written(b, c)) = FlattenSeq(b) \o <<c>>
    <3>1. Becomes(FlattenSeq(b), FlattenSeq(Written(b, c)), c, b[Len(b)])
      BY ONLY <2>4, FlatWritten
    <3> QED BY <2>4, <3>1 DEF Becomes
  <2>6. FlattenSeq(b) = f \o Upto(i)
    BY <1>6, <2>3
  <2>7. Upto(j) = Upto(i) \o <<c>>
    <3>1. 1 \in 1 .. Len(str) /\ j \in 1 .. Len(str)
      BY <1>1, <1>2, <2>2
    <3>2. SubSeq(str, 1, j) = SubSeq(str, 1, j - 1) \o <<str[j]>>
      BY <1>2, <3>1, SubSeqRecursiveSecond
    <3> QED BY <2>2, <2>3, <3>2
  <2>8. Upto(i) \in Seq(Shown)
    <3>1. \A k \in 1 .. i : str[k] \in Shown
      BY <1>2
    <3>2. 1 \in Int /\ i \in Int
      OBVIOUS
    <3> QED BY <3>1, <3>2, SubSeqProperties
  <2>9. <<c>> \in Seq(Shown)
    BY <2>4
  <2> HIDE DEF Upto
  <2>10. (f \o Upto(i)) \o <<c>> = f \o (Upto(i) \o <<c>>)
    BY ONLY <1>4, <2>8, <2>9, ConcatAssociative
  <2>11. FlattenSeq(a[j]) = f \o Upto(j)
    BY <2>4, <2>5, <2>6, <2>7, <2>10
  <2> QED BY <2>1, <2>2, <2>11
<1>7. 0 .. n \subseteq G
  <2> HIDE DEF G
  <2> QED BY <1>2, <1>5, <1>6, SetInduction
<1>8. FlattenSeq(a[n]) = f \o Upto(n)
  BY <1>2, <1>7
<1>9. Upto(n) = str
  BY <1>1, <1>2, SubSeqFull
<1> QED BY <1>1, <1>4, <1>8, <1>9 DEF written

LEMMA PromptText ==
  /\ Prompt \in Seq(Printed) /\ Prefix \in Seq(Printed) /\ {">", Blank} \subseteq Printed
  /\ Prompt = (Prefix \o <<">">>) \o <<Blank>>
  /\ Plain(Prefix) /\ Plain(<<">">>) /\ Plain(<<Blank>>)
  /\ \A c \in Chars : Plain(<<c>>) /\ c \in Printed
  /\ Chars \cup {BS} \subseteq Printed
<1>1. Prefix \in Seq(Shown) /\ {">", Blank} \subseteq Shown
  BY Strings
<1>2. PICK x, y : x = <<">">> /\ y = <<Blank>>
  OBVIOUS
<1>3. x \in Seq(Shown) /\ y \in Seq(Shown) /\ x \o y = <<">", Blank>>
  <2>1. x \in Seq(Shown) /\ y \in Seq(Shown)
    BY <1>1, <1>2
  <2>2. x \o y = Append(x, Blank)
    BY <1>1, <1>2, <2>1, AppendIsConcat
  <2>3. Append(x, Blank) = <<">", Blank>>
    <3>1. PICK u, v : u = Append(x, Blank) /\ v = <<">", Blank>>
      OBVIOUS
    <3>2. Len(x) = 1 /\ x[1] = ">"
      BY <1>2
    <3>3. u \in Seq(Shown) /\ Len(u) = 2 /\ u[1] = ">" /\ u[2] = Blank
      <4>1. x \in Seq(Shown) /\ Blank \in Shown
        BY <1>1, <2>1
      <4>2. /\ u \in Seq(Shown) /\ Len(u) = Len(x) + 1
            /\ (\A k \in 1 .. Len(x) : u[k] = x[k]) /\ u[Len(x) + 1] = Blank
        BY ONLY <3>1, <4>1, AppendProperties
      <4> QED BY <3>2, <4>2
    <3>4. v \in Seq(Shown) /\ Len(v) = 2 /\ v[1] = ">" /\ v[2] = Blank
      BY <1>1, <3>1
    <3>5. \A k \in 1 .. 2 : u[k] = v[k]
      BY <3>3, <3>4
    <3>6. u = v
      BY <3>3, <3>4, <3>5, SeqEqual
    <3> QED BY <3>1, <3>6
  <2> QED BY <2>1, <2>2, <2>3
<1>4. (Prefix \o x) \o y = Prefix \o (x \o y)
  <2>1. Prefix \in Seq(Shown) /\ x \in Seq(Shown) /\ y \in Seq(Shown)
    BY <1>1, <1>3
  <2> QED BY ONLY <2>1, ConcatAssociative
<1>5. Prompt = (Prefix \o x) \o y
  BY <1>3, <1>4 DEF Prompt
<1>6. Prefix \o x \in Seq(Shown) /\ Prompt \in Seq(Shown)
  <2>1. Prefix \o x \in Seq(Shown)
    BY <1>1, <1>3, ConcatProperties
  <2> QED BY <1>3, <1>5, <2>1, ConcatProperties
<1>7. Plain(Prefix)
  <2>1. ASSUME NEW k \in 1 .. Len(Prefix) PROVE Prefix[k] # NL /\ Prefix[k] # BS
    <3>1. Prefix[k] \in Range(Prefix)
      BY <1>1 DEF Range
    <3> QED BY <3>1, ConsoleAssumption
  <2> QED BY <1>1, <2>1 DEF Plain
<1>8. Plain(<<">">>) /\ Plain(<<Blank>>)
  <2>1. ">" # NL /\ ">" # BS /\ Blank # NL /\ Blank # BS
    BY DEF NL, BS, Blank
  <2> QED BY <1>1, <2>1 DEF Plain
<1>9. ASSUME NEW c \in Chars PROVE Plain(<<c>>) /\ c \in Shown
  <2>1. c # NL /\ c # BS
    BY ConsoleAssumption
  <2>2. c \in Shown
    BY DEF Shown
  <2> QED BY <2>1, <2>2 DEF Plain
<1>10. Seq(Shown) \subseteq Seq(Printed) /\ Shown \subseteq Printed /\ BS \in Printed
  BY PromptType DEF Printed
<1> QED BY <1>1, <1>2, <1>5, <1>6, <1>7, <1>8, <1>9, <1>10

LEMMA CallsLeft ==
  /\ Head(<<Banner, <<NL>>>> \o PromptCalls) = Banner
  /\ Tail(<<Banner, <<NL>>>> \o PromptCalls) = <<<<NL>>>> \o PromptCalls
  /\ Tail(<<<<NL>>>> \o PromptCalls) = PromptCalls
  /\ Head(PromptCalls) = Prefix
  /\ Tail(PromptCalls) = <<<<">">>, <<Blank>>>>
<1>1. PICK b, e, q, r, s : b = Banner /\ e = <<NL>> /\ q = Prefix /\ r = <<">">> /\ s = <<Blank>>
  OBVIOUS
<1>2. PromptCalls = <<q, r, s>>
  BY <1>1 DEF PromptCalls
<1>3. <<e>> \o <<q, r, s>> = <<e, q, r, s>> /\ <<b, e>> \o <<q, r, s>> = <<b, e, q, r, s>>
  <2>1. PICK S, t, x, y : S = {b, e, q, r, s} /\ t = <<q, r, s>> /\ x = <<e>> /\ y = <<b, e>>
    OBVIOUS
  <2>2. t \in Seq(S) /\ x \in Seq(S) /\ y \in Seq(S) /\ Len(t) = 3 /\ Len(x) = 1 /\ Len(y) = 2
    BY <2>1
  <2>3. /\ x \o t \in Seq(S) /\ Len(x \o t) = 4
        /\ \A k \in 1 .. 4 : (x \o t)[k] = IF k <= 1 THEN x[k] ELSE t[k - 1]
    <3>1. /\ x \o t \in Seq(S) /\ Len(x \o t) = Len(x) + Len(t)
          /\ \A k \in 1 .. Len(x) + Len(t) :
               (x \o t)[k] = IF k <= Len(x) THEN x[k] ELSE t[k - Len(x)]
      BY ONLY <2>2, ConcatProperties
    <3>2. Len(x) + Len(t) = 4
      BY <2>2
    <3> QED BY <2>2, <3>1, <3>2
  <2>4. /\ y \o t \in Seq(S) /\ Len(y \o t) = 5
        /\ \A k \in 1 .. 5 : (y \o t)[k] = IF k <= 2 THEN y[k] ELSE t[k - 2]
    <3>1. /\ y \o t \in Seq(S) /\ Len(y \o t) = Len(y) + Len(t)
          /\ \A k \in 1 .. Len(y) + Len(t) :
               (y \o t)[k] = IF k <= Len(y) THEN y[k] ELSE t[k - Len(y)]
      BY ONLY <2>2, ConcatProperties
    <3>2. Len(y) + Len(t) = 5
      BY <2>2
    <3> QED BY <2>2, <3>1, <3>2
  <2>5. PICK u, v : u = <<e, q, r, s>> /\ v = <<b, e, q, r, s>>
    OBVIOUS
  <2>6. u \in Seq(S) /\ Len(u) = 4 /\ v \in Seq(S) /\ Len(v) = 5
    BY <2>1, <2>5
  <2>7. \A k \in 1 .. 4 : (x \o t)[k] = u[k]
    BY <2>1, <2>3, <2>5
  <2>8. \A k \in 1 .. 5 : (y \o t)[k] = v[k]
    BY <2>1, <2>4, <2>5
  <2>9. x \o t = u
    BY <2>3, <2>6, <2>7, SeqEqual
  <2>10. y \o t = v
    BY <2>4, <2>6, <2>8, SeqEqual
  <2> QED BY <2>1, <2>5, <2>9, <2>10
<1>4. /\ Head(<<b, e, q, r, s>>) = b /\ Tail(<<b, e, q, r, s>>) = <<e, q, r, s>>
      /\ Tail(<<e, q, r, s>>) = <<q, r, s>>
      /\ Head(<<q, r, s>>) = q /\ Tail(<<q, r, s>>) = <<r, s>>
  OBVIOUS
<1> QED BY <1>1, <1>2, <1>3, <1>4

\* The prompt, as far as it is printed.
AtPrompt(calls, f) ==
  \/ calls \in {<<Banner, <<NL>>>> \o PromptCalls, <<<<NL>>>> \o PromptCalls, PromptCalls}
  \/ calls = <<<<">">>, <<Blank>>>> /\ Ends(f, Prefix)
  \/ calls = <<<<Blank>>>> /\ Ends(f, Prefix \o <<">">>)

\* With the calls that are left, the page that is f ends with the prompt and l.
Echoed(calls, l, f) ==
  \/ calls = <<>> /\ Ends(f, Prompt \o l)
  \/ calls = <<<<BS>>>> /\ \E c \in Printed : Ends(f, (Prompt \o l) \o <<c>>)
  \/ \E c \in Chars, k \in Seq(Printed) :
       calls = <<<<c>>>> /\ l = k \o <<c>> /\ Ends(f, Prompt \o k)
  \/ l = <<>> /\ AtPrompt(calls, f)

Echo == phase = "read" /\ ~ mixed /\ ~ strayed => Echoed(pending, line, FlattenSeq(page))

TakesOne(f, g) == g \in Seq(Shown) /\ \E d \in Shown : f = g \o <<d>>

\* A backspace that does not stray takes the last character.
LEMMA BackspaceTakes ==
  ASSUME NEW t, NEW lines \in Pages, Follows(t, lines), t \in Screens, ~ Strays(t, BS),
         NEW f, f = FlattenSeq(lines), f # <<>>,
         NEW g, g = FlattenSeq(written(lines, <<BS>>))
  PROVE  TakesOne(f, g)
<1>1. g = FlattenSeq(Written(lines, BS))
  BY WrittenOne DEF Printed
<1>2. lines[Len(lines)] # <<>>
  <2> SUFFICES ASSUME lines[Len(lines)] = <<>> PROVE FALSE
    OBVIOUS
  <2>1. PICK n : n = Len(lines)
    OBVIOUS
  <2>2. PICK top : Cursor(t, lines, top)
    BY FollowsParts
  <2>3. t.col = 0
    BY <2>2 DEF Cursor
  <2>4. t.row = 0
    BY <2>3 DEF Strays
  <2>5. n = 1
    BY <2>1, <2>2, <2>4, Sizes, PageParts DEF Cursor, Sized
  <2>6. lines \in Seq(Seq(Shown)) /\ lines # <<>>
    BY DEF Pages
  <2>7. PICK h : Joins(h, lines, n) /\ f = h[n]
    <3>1. PICK h : IsFlat(Shown, lines, n, h)
      BY ONLY <2>1, <2>6, Flat
    <3> QED BY <3>1 DEF IsFlat
  <2>8. h[1] = lines[1]
    BY <2>5, <2>7 DEF Joins, Joint
  <2> QED BY <2>1, <2>5, <2>7, <2>8
<1>3. BS \in Printed
  BY DEF Printed
<1>4. Becomes(f, g, BS, lines[Len(lines)])
  BY ONLY lines \in Pages, f = FlattenSeq(lines), <1>1, <1>3, FlatWritten
<1>5. BS # NL
  BY DEF BS, NL
<1> QED BY <1>2, <1>4 DEF Becomes, TakesOne

\* Text that is plain is printed behind what a text ends with.
LEMMA PlainEnds ==
  ASSUME NEW lines \in Pages, NEW str, Plain(str), NEW s \in Seq(Printed),
         NEW f, f = FlattenSeq(lines), NEW g, g = FlattenSeq(written(lines, str))
  PROVE  /\ f \in Seq(Printed) /\ g = f \o str
         /\ Ends(g, str)
         /\ \A c \in Printed : str = <<c>> /\ Ends(f, s) => Ends(g, s \o <<c>>)
<1>1. f \in Seq(Shown) /\ g = f \o str
  BY ONLY lines \in Pages, Plain(str), f = FlattenSeq(lines),
          g = FlattenSeq(written(lines, str)), PlainWritten
<1>2. f \in Seq(Printed) /\ str \in Seq(Printed)
  BY <1>1, PromptType DEF Plain
<1>3. Ends(g, str)
  BY <1>1, <1>2 DEF Ends
<1>4. ASSUME NEW c \in Printed, str = <<c>>, Ends(f, s) PROVE Ends(g, s \o <<c>>)
  <2>1. Ends(f \o <<c>>, s \o <<c>>)
    BY <1>2, <1>4, EndsOnce
  <2> QED BY <1>1, <1>4, <2>1
<1> QED BY <1>1, <1>2, <1>3, <1>4

LEMMA CharacterEchoed ==
  ASSUME NEW lines \in Pages, NEW c \in Chars, NEW k \in Seq(Printed),
         Ends(FlattenSeq(lines), Prompt \o k)
  PROVE  Ends(FlattenSeq(written(lines, <<c>>)), Prompt \o (k \o <<c>>))
<1>1. PICK x, s : x = <<c>> /\ s = Prompt \o k
  OBVIOUS
<1>2. Plain(x) /\ c \in Printed /\ Prompt \in Seq(Printed)
  BY <1>1, PromptText
<1>3. x \in Seq(Printed)
  BY <1>1, <1>2
<1>4. s \in Seq(Printed)
  BY <1>1, <1>2, ConcatProperties
<1>5. (Prompt \o k) \o x = Prompt \o (k \o x)
  BY ONLY k \in Seq(Printed), <1>2, <1>3, ConcatAssociative
<1>6. Ends(FlattenSeq(lines), s)
  BY <1>1
<1>7. PICK f, g : f = FlattenSeq(lines) /\ g = FlattenSeq(written(lines, x))
  OBVIOUS
<1>8. \A d \in Printed : x = <<d>> /\ Ends(f, s) => Ends(g, s \o <<d>>)
  BY ONLY lines \in Pages, <1>2, <1>4, <1>7, PlainEnds
<1>9. Ends(g, s \o x)
  BY <1>1, <1>2, <1>6, <1>7, <1>8
<1> QED BY <1>1, <1>5, <1>7, <1>9

\* The prompt, call after call.
LEMMA PromptEchoed ==
  ASSUME NEW lines \in Pages, NEW calls, calls # <<>>, AtPrompt(calls, FlattenSeq(lines))
  PROVE  Echoed(Tail(calls), <<>>, FlattenSeq(written(lines, Head(calls))))
<1>1. PICK f, str, g : /\ f = FlattenSeq(lines) /\ str = Head(calls)
                       /\ g = FlattenSeq(written(lines, str))
  OBVIOUS
<1>2. CASE calls \in {<<Banner, <<NL>>>> \o PromptCalls, <<<<NL>>>> \o PromptCalls}
  BY <1>2, CallsLeft DEF AtPrompt, Echoed
<1>3. CASE calls = PromptCalls
  <2>1. str = Prefix /\ Tail(calls) = <<<<">">>, <<Blank>>>> /\ Plain(str)
    BY <1>1, <1>3, CallsLeft, PromptText
  <2>2. Prefix \in Seq(Printed)
    BY PromptText
  <2>3. Ends(g, str)
    BY ONLY lines \in Pages, <1>1, <2>1, <2>2, PlainEnds
  <2> QED BY <1>1, <2>1, <2>3 DEF AtPrompt, Echoed
<1>4. CASE calls = <<<<">">>, <<Blank>>>> /\ Ends(f, Prefix)
  <2>1. str = <<">">> /\ Tail(calls) = <<<<Blank>>>> /\ Plain(str) /\ ">" \in Printed
        /\ Prefix \in Seq(Printed)
    BY <1>1, <1>4, PromptText
  <2>2. \A d \in Printed : str = <<d>> /\ Ends(f, Prefix) => Ends(g, Prefix \o <<d>>)
    BY ONLY lines \in Pages, <1>1, <2>1, PlainEnds
  <2>3. Ends(g, Prefix \o <<">">>)
    BY <1>4, <2>1, <2>2
  <2> QED BY <1>1, <2>1, <2>3 DEF AtPrompt, Echoed
<1>5. CASE calls = <<<<Blank>>>> /\ Ends(f, Prefix \o <<">">>)
  <2>1. PICK s : s = Prefix \o <<">">>
    OBVIOUS
  <2>2. /\ str = <<Blank>> /\ Tail(calls) = <<>> /\ Plain(str) /\ Blank \in Printed
        /\ Prompt = s \o <<Blank>> /\ Prompt \in Seq(Printed)
    BY <1>1, <1>5, <2>1, PromptText
  <2>3. s \in Seq(Printed)
    <3>1. PICK x : x = <<">">>
      OBVIOUS
    <3>2. x \in Seq(Printed) /\ Prefix \in Seq(Printed)
      BY <3>1, PromptText
    <3> QED BY <2>1, <3>1, <3>2, ConcatProperties
  <2>4. \A d \in Printed : str = <<d>> /\ Ends(f, s) => Ends(g, s \o <<d>>)
    BY ONLY lines \in Pages, <1>1, <2>2, <2>3, PlainEnds
  <2>5. Ends(g, Prompt)
    BY <1>5, <2>1, <2>2, <2>4
  <2>6. Prompt \o <<>> = Prompt
    BY <2>2, ConcatEmptySeq
  <2> QED BY <1>1, <2>2, <2>5, <2>6 DEF Echoed
<1> QED BY <1>1, <1>2, <1>3, <1>4, <1>5 DEF AtPrompt

\* A character of the line is erased where it was echoed.
LEMMA BackspaceEchoed ==
  ASSUME NEW t \in Screens, NEW lines \in Pages, Follows(t, lines), ~ Strays(t, BS),
         NEW s \in Seq(Printed), NEW c \in Printed, Ends(FlattenSeq(lines), s \o <<c>>)
  PROVE  Ends(FlattenSeq(written(lines, <<BS>>)), s)
<1>1. PICK f, g : f = FlattenSeq(lines) /\ g = FlattenSeq(written(lines, <<BS>>))
  OBVIOUS
<1>2. f # <<>>
  <2>1. PICK u \in Seq(Printed) : f = u \o (s \o <<c>>)
    BY <1>1 DEF Ends
  <2>2. PICK x, y : x = <<c>> /\ y = s \o x
    OBVIOUS
  <2>3. x \in Seq(Printed) /\ Len(x) = 1
    BY <2>2
  <2>4. y \in Seq(Printed) /\ Len(y) = Len(s) + 1
    BY <2>2, <2>3, ConcatProperties
  <2>5. Len(f) = Len(u) + Len(y)
    BY <2>1, <2>2, <2>4, ConcatProperties
  <2>6. Len(s) \in Nat /\ Len(u) \in Nat
    BY <2>1
  <2> QED BY <2>4, <2>5, <2>6
<1>3. g \in Seq(Shown) /\ \E d \in Shown : f = g \o <<d>>
  <2>1. TakesOne(f, g)
    BY ONLY t \in Screens, lines \in Pages, Follows(t, lines), ~ Strays(t, BS),
            <1>1, <1>2, BackspaceTakes
  <2> QED BY <2>1 DEF TakesOne
<1>4. PICK d \in Shown : f = g \o <<d>>
  BY <1>3
<1>5. g \in Seq(Printed) /\ d \in Printed
  BY <1>3, PromptType DEF Printed
<1>6. Ends(g \o <<d>>, s \o <<c>>)
  BY <1>1, <1>4
<1> QED BY <1>1, <1>5, <1>6, EndsLess

LEMMA ShellEchoes ==
  ASSUME Together, Typed, Echo, shell_prints
  PROVE  Echo'
<1> SUFFICES ASSUME phase' = "read", ~ mixed', ~ strayed'
             PROVE  Echoed(pending', line', FlattenSeq(page'))
  BY DEF Echo
<1>1. PICK calls, str, l, lines : calls = pending /\ str = Head(calls) /\ l = line /\ lines = page
  OBVIOUS
<1>2. /\ calls # <<>> /\ pending' = Tail(calls) /\ line' = l /\ page' = written(lines, str)
      /\ phase = "read" /\ ~ mixed
  BY <1>1 DEF shell_prints, Prints
<1>3. /\ ~ strayed
      /\ \A k \in 1 .. Len(str) : ~ Strays(Printing(screen, str)[k - 1], str[k])
  BY <1>1 DEF shell_prints, Prints
<1>4. PICK f, g : f = FlattenSeq(lines) /\ g = FlattenSeq(written(lines, str))
  OBVIOUS
<1>5. Echoed(calls, l, f)
  BY <1>1, <1>2, <1>3, <1>4 DEF Echo
<1>6. screen \in Screens /\ lines \in Pages /\ Follows(screen, lines)
  BY <1>1, <1>3 DEF Together
<1>7. l \in Seq(Printed)
  <2>1. line \in Seq(Chars \cup {BS}) /\ Chars \cup {BS} \subseteq Printed
    BY PromptText DEF Typed
  <2>2. line \in Seq(Printed)
    BY <2>1
  <2> QED BY <1>1, <2>2
<1> SUFFICES Echoed(Tail(calls), l, g)
  BY <1>2, <1>4
<1>8. ASSUME calls = <<<<BS>>>>, NEW c \in Printed, Ends(f, (Prompt \o l) \o <<c>>)
      PROVE  Echoed(Tail(calls), l, g)
  <2>1. str = <<BS>> /\ Tail(calls) = <<>> /\ str \in Seq(Printed)
    BY <1>1, <1>8 DEF Printed
  <2>2. ~ Strays(screen, BS)
    <3>1. Steps(Printing(screen, str), screen, str)
      BY <1>6, <2>1, PrintingSteps
    <3>2. 1 \in 1 .. Len(str) /\ 1 - 1 = 0 /\ str[1] = BS
      BY <2>1
    <3>3. Printing(screen, str)[0] = screen
      BY <3>1 DEF Steps
    <3> QED BY <1>3, <3>2, <3>3
  <2>3. PICK s : s = Prompt \o l
    OBVIOUS
  <2>4. s \in Seq(Printed)
    BY <1>7, <2>3, PromptText, ConcatProperties
  <2>5. Ends(FlattenSeq(lines), s \o <<c>>) /\ c \in Printed
    BY <1>4, <1>8, <2>3
  <2>6. Ends(FlattenSeq(written(lines, <<BS>>)), s)
    BY ONLY <1>6, <2>2, <2>4, <2>5, BackspaceEchoed
  <2> QED BY <1>4, <2>1, <2>3, <2>6 DEF Echoed
<1>9. ASSUME NEW c \in Chars, NEW k \in Seq(Printed),
             calls = <<<<c>>>>, l = k \o <<c>>, Ends(f, Prompt \o k)
      PROVE  Echoed(Tail(calls), l, g)
  <2>1. str = <<c>> /\ Tail(calls) = <<>>
    BY <1>1, <1>9
  <2>2. Ends(FlattenSeq(lines), Prompt \o k)
    BY <1>4, <1>9
  <2>3. Ends(FlattenSeq(written(lines, <<c>>)), Prompt \o (k \o <<c>>))
    BY ONLY <1>6, c \in Chars, k \in Seq(Printed), <2>2, CharacterEchoed
  <2> QED BY <1>4, <1>9, <2>1, <2>3 DEF Echoed
<1>10. ASSUME l = <<>>, AtPrompt(calls, f)
       PROVE  Echoed(Tail(calls), l, g)
  <2>1. Echoed(Tail(calls), <<>>, FlattenSeq(written(lines, Head(calls))))
    BY <1>2, <1>4, <1>6, <1>10, PromptEchoed
  <2> QED BY <1>1, <1>4, <1>10, <2>1
<1>11. ~ (calls = <<>> /\ Ends(f, Prompt \o l))
  BY <1>2
<1> QED BY ONLY <1>5, <1>8, <1>9, <1>10, <1>11 DEF Echoed

LEMMA NothingLeft ==
  ASSUME NEW f
  PROVE  ~ AtPrompt(<<>>, f)
<1>1. Len(PromptCalls) = 3
  BY DEF PromptCalls
<1>2. PromptCalls # <<>>
  BY <1>1
<1>3. <<<<NL>>>> \o PromptCalls # <<>> /\ <<Banner, <<NL>>>> \o PromptCalls # <<>>
  <2>1. PICK b, e, q, r, s : b = Banner /\ e = <<NL>> /\ q = Prefix /\ r = <<">">> /\ s = <<Blank>>
    OBVIOUS
  <2>2. PICK T, x, y, t : T = {b, e, q, r, s} /\ x = <<e>> /\ y = <<b, e>> /\ t = <<q, r, s>>
    OBVIOUS
  <2>3. x \in Seq(T) /\ Len(x) = 1 /\ y \in Seq(T) /\ Len(y) = 2 /\ t \in Seq(T) /\ Len(t) = 3
    BY <2>2
  <2>4. Len(x \o t) = Len(x) + Len(t) /\ Len(y \o t) = Len(y) + Len(t)
    BY ONLY <2>3, ConcatProperties
  <2>5. x \o t # <<>> /\ y \o t # <<>>
    BY <2>3, <2>4
  <2> QED BY <2>1, <2>2, <2>5 DEF PromptCalls
<1>4. <<<<">">>, <<Blank>>>> # <<>> /\ <<<<Blank>>>> # <<>>
  OBVIOUS
<1> QED BY <1>2, <1>3, <1>4 DEF AtPrompt

LEMMA KeyEchoes ==
  ASSUME Together, Typed, Echo, NEW key \in Key, readline_key(key)
  PROVE  Echo'
<1> SUFFICES ASSUME phase' = "read", ~ mixed', ~ strayed'
             PROVE  Echoed(pending', line', FlattenSeq(page'))
  BY DEF Echo
<1>1. PICK l, f : l = line /\ f = FlattenSeq(page)
  OBVIOUS
<1>2. page' = page /\ pending = <<>> /\ phase = "read" /\ ~ mixed /\ ~ strayed
      /\ ~ (key = BS /\ l = <<>>)
  BY <1>1 DEF readline_key
<1>3. l \in Seq(Printed)
  <2>1. line \in Seq(Chars \cup {BS}) /\ Chars \cup {BS} \subseteq Printed
    BY PromptText DEF Typed
  <2>2. line \in Seq(Printed)
    BY <2>1
  <2> QED BY <1>1, <2>2
<1>4. Ends(f, Prompt \o l)
  <2>1. Echoed(<<>>, l, f)
    BY <1>1, <1>2 DEF Echo
  <2>3. \A c : <<>> # <<<<c>>>>
    OBVIOUS
  <2>4. ~ AtPrompt(<<>>, f)
    BY NothingLeft
  <2> QED BY <2>1, <2>3, <2>4 DEF Echoed
<1>5. CASE key = BS /\ line # <<>>
  <2>1. line' = Front(l) /\ pending' = <<<<BS>>>>
    <3>1. BS # CR
      BY DEF BS, CR
    <3> QED BY <1>1, <1>5, <3>1 DEF readline_key, Shortened
  <2>2. PICK m, k : m = Len(l) /\ k = SubSeq(l, 1, m - 1)
    OBVIOUS
  <2>3. m \in Nat \ {0} /\ line' = k
    BY <1>1, <1>3, <1>5, <2>1, <2>2 DEF Front
  <2>4. PICK c : c = l[m]
    OBVIOUS
  <2>5. l = k \o <<c>> /\ c \in Printed /\ k \in Seq(Printed)
    <3>1. 1 \in 1 .. Len(l) /\ m \in 1 .. Len(l)
      BY <2>2, <2>3
    <3>2. SubSeq(l, 1, m) = SubSeq(l, 1, m - 1) \o <<l[m]>>
      BY <1>3, <3>1, SubSeqRecursiveSecond
    <3>3. SubSeq(l, 1, m) = l
      BY <1>3, <2>2, SubSeqFull
    <3>4. k \in Seq(Printed)
      <4>1. \A i \in 1 .. m - 1 : l[i] \in Printed
        BY <1>3, <2>2, <2>3
      <4>2. 1 \in Int /\ m - 1 \in Int
        BY <2>3
      <4> QED BY <2>2, <4>1, <4>2, SubSeqProperties
    <3>5. l[m] \in Printed
      BY <1>3, <3>1
    <3> QED BY <2>2, <2>4, <3>2, <3>3, <3>4, <3>5
  <2>6. PICK x : x = <<c>>
    OBVIOUS
  <2>7. x \in Seq(Printed) /\ Prompt \in Seq(Printed) /\ k \in Seq(Printed)
    BY <2>5, <2>6, PromptText
  <2>8. (Prompt \o k) \o x = Prompt \o (k \o x)
    BY ONLY <2>7, ConcatAssociative
  <2>9. Ends(f, (Prompt \o k) \o <<c>>)
    BY <1>4, <2>5, <2>6, <2>8
  <2> QED BY <1>1, <1>2, <2>1, <2>3, <2>5, <2>9 DEF Echoed
<1>6. CASE key # CR /\ ~ (key = BS /\ line # <<>>)
  <2>1. key \in Chars
    BY <1>1, <1>2, <1>6 DEF Key
  <2>2. line' = Append(l, key) /\ pending' = <<<<key>>>>
    BY <1>1, <1>6 DEF readline_key
  <2>3. key \in Printed
    BY <2>1, PromptText
  <2>4. line' = l \o <<key>>
    BY <1>3, <2>2, <2>3, AppendIsConcat
  <2> QED BY <1>1, <1>2, <1>3, <1>4, <2>1, <2>2, <2>4 DEF Echoed
<1>7. CASE key = CR
  <2>1. phase' = "run"
    <3>1. BS # CR
      BY DEF BS, CR
    <3> QED BY <1>7, <3>1 DEF readline_key, LineEnds
  <2> QED BY <2>1
<1> QED BY <1>5, <1>6, <1>7

LEMMA InitEcho == Init => Echo
BY DEF Init, Echo, Echoed, AtPrompt

LEMMA NextEcho == Together /\ Typed /\ Echo /\ [Next]_vars => Echo'
<1> SUFFICES ASSUME Together, Typed, Echo, [Next]_vars PROVE Echo'
  OBVIOUS
<1>1. CASE shell_prints
  BY <1>1, ShellEchoes
<1>2. ASSUME NEW str, Interferes(str) PROVE Echo'
  BY <1>2 DEF Interferes, Echo
<1>3. ASSUME NEW key \in Key, readline_key(key) PROVE Echo'
  BY <1>3, KeyEchoes
<1>4. CASE readline_full
  <2>1. phase' # "read"
    BY <1>4 DEF readline_full, LineEnds
  <2> QED BY <2>1 DEF Echo
<1>5. CASE peachos_system_run
  <2>1. line' = <<>> /\ pending' = <<<<NL>>>> \o PromptCalls
    BY <1>5 DEF peachos_system_run
  <2> QED BY <2>1 DEF Echo, Echoed, AtPrompt
<1>6. CASE UNCHANGED vars
  BY <1>6 DEF vars, shell, Echo
<1> QED BY <1>1, <1>2, <1>3, <1>4, <1>5, <1>6 DEF Next, other_prints, isr80h_command0_process_exit

\* While a line is read, the page ends with the prompt and what readline holds,
\* unless another program printed in between or the prompt was erased
\* (programs/stdlib/src/peachos.c:33).
THEOREM LineIsShown == Spec => []EchoIsLine
<1>1. Typed /\ Echo => EchoIsLine
  <2> SUFFICES ASSUME Typed, Echo, phase = "read", pending = <<>>, ~ mixed, ~ strayed
               PROVE  IsSuffix(Prompt \o line, FlattenSeq(page))
    BY DEF EchoIsLine
  <2>1. PICK f, s : f = FlattenSeq(page) /\ s = Prompt \o line
    OBVIOUS
  <2>2. Ends(f, s)
    <3>1. Echoed(<<>>, line, f)
      BY <2>1 DEF Echo
    <3>2. ~ AtPrompt(<<>>, f)
      BY NothingLeft
    <3>3. \A c : <<>> # <<<<c>>>>
      OBVIOUS
    <3> QED BY <2>1, <3>1, <3>2, <3>3 DEF Echoed
  <2>3. s \in Seq(Printed)
    <3>1. line \in Seq(Chars \cup {BS}) /\ Chars \cup {BS} \subseteq Printed
      BY PromptText DEF Typed
    <3>2. line \in Seq(Printed) /\ Prompt \in Seq(Printed)
      BY <3>1, PromptText
    <3> QED BY <2>1, <3>2, ConcatProperties
  <2> QED BY <2>1, <2>2, <2>3, EndsIsSuffix
<1> QED BY <1>1, InitTogether, NextTogether, InitTyped, NextTyped, InitEcho, NextEcho, PTL DEF Spec

-----------------------------------------------------------------------------
(* The numeral of an exit code                                             *)

LEMMA PowerIs ==
  /\ TextSize \in Nat /\ TextSize >= 2
  /\ Power[0] = 1 /\ \A j \in 0 .. TextSize : Power[j] \in Nat
  /\ \A j \in 1 .. TextSize : Power[j] = 10 * Power[j - 1]
<1>1. PICK m : m = TextSize
  OBVIOUS
<1>2. m \in Nat /\ m >= 2
  BY <1>1, TerminalAssumption
<1>3. PICK s : s = [k \in 1 .. m |-> [u \in Nat |-> 10 * u]]
  OBVIOUS
<1>4. StaysIn(s, m, Nat)
  BY <1>3 DEF StaysIn
<1>5. PICK g \in [0 .. m -> Nat] : Loops(g, s, m, 1)
  BY <1>2, <1>4, LoopExists
<1>6. g[0] = 1
  BY <1>5 DEF Loops
<1>7. \A k \in 1 .. m : g[k] = 10 * g[k - 1]
  <2>1. ASSUME NEW k \in 1 .. m PROVE g[k] = 10 * g[k - 1]
    <3>1. k - 1 \in 0 .. m
      BY <1>2
    <3>2. g[k - 1] \in Nat
      BY <1>5, <3>1
    <3>3. g[k] = s[k][g[k - 1]]
      BY <1>5 DEF Loops
    <3> QED BY <1>3, <3>2, <3>3
  <2> QED BY <2>1
<1>8. g = [k \in 0 .. m |-> IF k = 0 THEN 1 ELSE 10 * g[k - 1]]
  <2>1. ASSUME NEW k \in 0 .. m
        PROVE  g[k] = IF k = 0 THEN 1 ELSE 10 * g[k - 1]
    <3>1. k # 0 => k \in 1 .. m
      BY <1>2
    <3> QED BY <1>6, <1>7, <3>1
  <2>2. g = [k \in 0 .. m |-> g[k]]
    OBVIOUS
  <2> QED BY <2>1, <2>2
<1>9. PICK p : p = Power
  OBVIOUS
<1>10. p = [k \in 0 .. m |-> IF k = 0 THEN 1 ELSE 10 * p[k - 1]]
  <2>1. p = CHOOSE f : f = [k \in 0 .. m |-> IF k = 0 THEN 1 ELSE 10 * f[k - 1]]
    BY <1>1, <1>9 DEF Power
  <2> QED BY <1>8, <2>1
<1>11. p[0] = 1 /\ \A k \in 1 .. m : p[k] = 10 * p[k - 1]
  <2>1. 0 \in 0 .. m /\ \A k \in 1 .. m : k \in 0 .. m /\ k # 0
    BY <1>2
  <2>2. ASSUME NEW k \in 0 .. m PROVE p[k] = IF k = 0 THEN 1 ELSE 10 * p[k - 1]
    BY <1>10
  <2> QED BY <2>1, <2>2
<1>12. \A k \in 0 .. m : p[k] \in Nat
  <2> DEFINE G == {k \in 0 .. m : p[k] \in Nat}
  <2>1. 0 \in G
    BY <1>2, <1>11
  <2>2. ASSUME NEW k \in 0 .. m, k \in G, k < m PROVE k + 1 \in G
    <3>1. PICK j : j = k + 1
      OBVIOUS
    <3>2. j \in 1 .. m /\ j - 1 = k /\ j \in 0 .. m
      BY <1>2, <2>2, <3>1
    <3>3. p[j] = 10 * p[k] /\ p[k] \in Nat
      BY <1>11, <2>2, <3>2
    <3>4. p[j] \in Nat
      BY <3>3
    <3> QED BY <3>1, <3>2, <3>4
  <2>3. 0 .. m \subseteq G
    <3> HIDE DEF G
    <3> QED BY <1>2, <2>1, <2>2, SetInduction
  <2> QED BY <2>3
<1> QED BY <1>1, <1>2, <1>9, <1>11, <1>12

DigitOf(c) == CHOOSE d \in 0 .. 9 : Digits[d + 1] = c

LEMMA DigitIs ==
  /\ \A d \in 0 .. 9 : Digits[d + 1] \in Range(Digits) /\ DigitOf(Digits[d + 1]) = d
  /\ \A c \in Range(Digits) : DigitOf(c) \in 0 .. 9 /\ c # "-" /\ c # NL /\ c # BS
  /\ \A d \in 0 .. 9 : Digits[d + 1] = "0" => d = 0
  /\ Digits[1] = "0" /\ "0" \in Range(Digits)
<1>1. DOMAIN Digits = 1 .. 10
  BY DEF Digits
<1>2. \A d \in 0 .. 9 : d + 1 \in 1 .. 10
  OBVIOUS
<1>3. \A d \in 0 .. 9 : Digits[d + 1] \in Range(Digits)
  BY <1>1, <1>2 DEF Range
<1>4. ASSUME NEW d \in 0 .. 9, NEW e \in 0 .. 9, Digits[d + 1] = Digits[e + 1] PROVE d = e
  BY <1>4 DEF Digits
<1>5. ASSUME NEW d \in 0 .. 9 PROVE DigitOf(Digits[d + 1]) = d
  BY <1>4 DEF DigitOf
<1>6. ASSUME NEW c \in Range(Digits) PROVE \E d \in 0 .. 9 : c = Digits[d + 1]
  <2>1. PICK k \in 1 .. 10 : c = Digits[k]
    BY <1>1 DEF Range
  <2>2. PICK d : d = k - 1
    OBVIOUS
  <2>3. d \in 0 .. 9 /\ d + 1 = k
    BY <2>2
  <2> QED BY <2>1, <2>3
<1>7. ASSUME NEW d \in 0 .. 9
      PROVE  Digits[d + 1] # "-" /\ Digits[d + 1] # NL /\ Digits[d + 1] # BS
  BY DEF Digits, NL, BS
<1>8. Digits[1] = "0" /\ Digits[0 + 1] = "0"
  BY DEF Digits
<1>9. \A d \in 0 .. 9 : Digits[d + 1] = "0" => d = 0
  BY <1>4, <1>8
<1> QED BY <1>3, <1>5, <1>6, <1>7, <1>8, <1>9

\* What digits stand for, from the first on.
Counts(f, digits, n) ==
  /\ f[0] = 0
  /\ \A k \in 1 .. n : f[k] = (10 * f[k - 1]) + DigitOf(digits[k])

IsValue(f, digits, n) ==
  Counts(f, digits, n) /\ (\A k \in 0 .. n : f[k] \in Nat) /\ Value(digits) = f[n]

LEMMA ValueIs ==
  ASSUME NEW digits \in Numerals, NEW n, n = Len(digits)
  PROVE  \E f : IsValue(f, digits, n)
<1>1. n \in Nat /\ \A k \in 1 .. n : digits[k] \in Range(Digits)
  BY CharactersOf DEF Numerals
<1>2. PICK v : v = [k \in 1 .. n |-> DigitOf(digits[k])]
  OBVIOUS
<1>3. \A k \in 1 .. n : v[k] \in Nat /\ v[k] = DigitOf(digits[k])
  <2>1. ASSUME NEW k \in 1 .. n PROVE DigitOf(digits[k]) \in 0 .. 9
    BY <1>1, DigitIs
  <2> QED BY <1>2, <2>1
<1>4. PICK s : s = [k \in 1 .. n |-> [u \in Nat |-> (10 * u) + v[k]]]
  OBVIOUS
<1>5. StaysIn(s, n, Nat)
  <2>1. ASSUME NEW k \in 1 .. n, NEW u \in Nat PROVE s[k][u] \in Nat
    <3>1. PICK d : d = v[k]
      OBVIOUS
    <3>2. s[k][u] = (10 * u) + d /\ d \in Nat
      BY <1>3, <1>4, <3>1
    <3> QED BY <3>2
  <2> QED BY <2>1 DEF StaysIn
<1>6. PICK g \in [0 .. n -> Nat] : Loops(g, s, n, 0)
  BY <1>1, <1>5, LoopExists
<1>7. \A k \in 1 .. n : g[k] = (10 * g[k - 1]) + v[k]
  <2>1. ASSUME NEW k \in 1 .. n PROVE g[k] = (10 * g[k - 1]) + v[k]
    <3>1. k - 1 \in 0 .. n
      BY <1>1
    <3>2. g[k - 1] \in Nat
      BY <1>6, <3>1
    <3>3. g[k] = s[k][g[k - 1]]
      BY <1>6 DEF Loops
    <3> QED BY <1>4, <3>2, <3>3
  <2> QED BY <2>1
<1>8. g[0] = 0
  BY <1>6 DEF Loops
<1>9. g = [k \in 0 .. n |-> IF k = 0 THEN 0 ELSE (10 * g[k - 1]) + DigitOf(digits[k])]
  <2>1. ASSUME NEW k \in 0 .. n
        PROVE  g[k] = IF k = 0 THEN 0 ELSE (10 * g[k - 1]) + DigitOf(digits[k])
    <3>1. k # 0 => k \in 1 .. n
      BY <1>1
    <3> QED BY <1>3, <1>7, <1>8, <3>1
  <2>2. g = [k \in 0 .. n |-> g[k]]
    OBVIOUS
  <2> QED BY <2>1, <2>2
<1>10. PICK p : /\ p = CHOOSE f : f = [k \in 0 .. n |-> IF k = 0 THEN 0
                                        ELSE (10 * f[k - 1]) + DigitOf(digits[k])]
                /\ Value(digits) = p[n]
  BY DEF Value, DigitOf
<1>11. p = [k \in 0 .. n |-> IF k = 0 THEN 0 ELSE (10 * p[k - 1]) + DigitOf(digits[k])]
  BY <1>9, <1>10
<1>12. ASSUME NEW k \in 0 .. n
       PROVE  p[k] = IF k = 0 THEN 0 ELSE (10 * p[k - 1]) + DigitOf(digits[k])
  BY <1>11
<1>13. p[0] = 0 /\ \A k \in 1 .. n : p[k] = (10 * p[k - 1]) + DigitOf(digits[k])
  <2>1. 0 \in 0 .. n /\ \A k \in 1 .. n : k \in 0 .. n /\ k # 0
    BY <1>1
  <2> QED BY <1>12, <2>1
<1>14. \A k \in 0 .. n : p[k] \in Nat
  <2> DEFINE G == {k \in 0 .. n : p[k] \in Nat}
  <2>1. 0 \in G
    BY <1>1, <1>13
  <2>2. ASSUME NEW k \in 0 .. n, k \in G, k < n PROVE k + 1 \in G
    <3>1. PICK j : j = k + 1
      OBVIOUS
    <3>2. j \in 1 .. n /\ j - 1 = k /\ j \in 0 .. n
      BY <1>1, <2>2, <3>1
    <3>3. p[j] = (10 * p[k]) + v[j] /\ p[k] \in Nat /\ v[j] \in Nat
      BY <1>3, <1>13, <2>2, <3>2
    <3>4. p[j] \in Nat
      BY <3>3
    <3> QED BY <3>1, <3>2, <3>4
  <2>3. 0 .. n \subseteq G
    <3> HIDE DEF G
    <3> QED BY <1>1, <2>1, <2>2, SetInduction
  <2> QED BY <2>3
<1> QED BY <1>10, <1>13, <1>14 DEF IsValue, Counts

\* Counting begins alike where the digits do.
LEMMA SameCounts ==
  ASSUME NEW n \in Nat, NEW a, NEW b, Alike(a, b, n),
         NEW f, NEW g, Counts(f, a, n), Counts(g, b, n)
  PROVE  f[n] = g[n]
<1> DEFINE G == {i \in 0 .. n : f[i] = g[i]}
<1>1. 0 \in G
  BY DEF Counts
<1>2. ASSUME NEW i \in 0 .. n, i \in G, i < n PROVE i + 1 \in G
  <2>1. PICK j : j = i + 1
    OBVIOUS
  <2>2. j \in 1 .. n /\ j - 1 = i /\ j \in 0 .. n
    BY <1>2, <2>1
  <2>3. /\ f[j] = (10 * f[i]) + DigitOf(a[j]) /\ g[j] = (10 * g[i]) + DigitOf(b[j])
        /\ a[j] = b[j] /\ f[i] = g[i]
    BY <1>2, <2>2 DEF Counts, Alike
  <2>4. f[j] = g[j]
    BY <2>3
  <2> QED BY <2>1, <2>2, <2>4
<1>3. 0 .. n \subseteq G
  <2> HIDE DEF G
  <2> QED BY <1>1, <1>2, SetInduction
<1> QED BY <1>3

LEMMA ValueAppend ==
  ASSUME NEW s \in Numerals, NEW c \in Range(Digits)
  PROVE  /\ Value(<<>>) = 0 /\ Value(s) \in Nat
         /\ Value(Append(s, c)) = (10 * Value(s)) + DigitOf(c)
<1>1. PICK n, new : n = Len(s) /\ new = Append(s, c)
  OBVIOUS
<1>2. n \in Nat /\ n \in 0 .. n
  BY <1>1 DEF Numerals
<1>3. new \in Numerals /\ Len(new) = n + 1
      /\ (\A i \in 1 .. n : new[i] = s[i]) /\ new[n + 1] = c
  <2>1. /\ new \in Seq(Range(Digits)) /\ Len(new) = Len(s) + 1
        /\ (\A i \in 1 .. Len(s) : new[i] = s[i]) /\ new[Len(s) + 1] = c
    BY ONLY s \in Numerals, c \in Range(Digits), <1>1, AppendProperties DEF Numerals
  <2> QED BY <1>1, <2>1 DEF Numerals
<1>4. PICK f : IsValue(f, s, n)
  BY ONLY s \in Numerals, <1>1, ValueIs
<1>5. PICK l : l = n + 1
  OBVIOUS
<1>6. PICK g : IsValue(g, new, l)
  <2>1. l = Len(new) /\ new \in Numerals
    BY <1>3, <1>5
  <2> QED BY ONLY <2>1, ValueIs
<1>7. f[n] = g[n]
  <2>1. Alike(s, new, n)
    BY <1>3 DEF Alike
  <2>2. Counts(g, new, n)
    <3>1. \A k \in 1 .. n : k \in 1 .. l
      BY <1>2, <1>5
    <3> QED BY <1>6, <3>1 DEF IsValue, Counts
  <2>3. Counts(f, s, n)
    BY <1>4 DEF IsValue
  <2> QED BY <1>2, <2>1, <2>2, <2>3, SameCounts
<1>8. g[l] = (10 * g[n]) + DigitOf(c)
  <2>1. l \in 1 .. l /\ l - 1 = n /\ new[l] = c
    BY <1>2, <1>3, <1>5
  <2> QED BY <1>6, <2>1 DEF IsValue, Counts
<1>9. Value(s) = f[n] /\ Value(new) = g[l] /\ f[n] \in Nat
  BY <1>2, <1>4, <1>6 DEF IsValue
<1>10. Value(<<>>) = 0
  <2>1. <<>> \in Numerals /\ 0 = Len(<<>>)
    BY DEF Numerals
  <2>2. PICK h : IsValue(h, <<>>, 0)
    BY ONLY <2>1, ValueIs
  <2> QED BY <2>2 DEF IsValue, Counts
<1> QED BY <1>1, <1>7, <1>8, <1>9, <1>10

\* The digits of a number, without any for 0.
IsNumeral(s, i) ==
  /\ s \in Numerals /\ Value(s) = i
  /\ i = 0 <=> s = <<>>
  /\ i # 0 => s[1] # "0"
  /\ \A j \in 0 .. TextSize : i < Power[j] => Len(s) <= j

LEMMA LongerNumeral ==
  ASSUME NEW i \in Nat, i # 0, NEW q, NEW r, q = i \div 10, r = i % 10,
         NEW s, IsNumeral(s, q)
  PROVE  IsNumeral(Append(s, Digits[r + 1]), i)
<1>1. q \in Nat /\ r \in 0 .. 9 /\ (10 * q) + r = i
  OBVIOUS
<1>2. PICK c : c = Digits[r + 1]
  OBVIOUS
<1>3. c \in Range(Digits) /\ DigitOf(c) = r /\ (c = "0" => r = 0)
  BY <1>1, <1>2, DigitIs
<1>4. PICK n, new : n = Len(s) /\ new = Append(s, c)
  OBVIOUS
<1>5. s \in Numerals /\ Value(s) = q /\ n \in Nat
  BY <1>4 DEF IsNumeral, Numerals
<1>6. new \in Numerals /\ Len(new) = n + 1
      /\ (\A k \in 1 .. n : new[k] = s[k]) /\ new[n + 1] = c
  <2>1. /\ new \in Seq(Range(Digits)) /\ Len(new) = Len(s) + 1
        /\ (\A k \in 1 .. Len(s) : new[k] = s[k]) /\ new[Len(s) + 1] = c
    BY ONLY <1>3, <1>4, <1>5, AppendProperties DEF Numerals
  <2> QED BY <1>4, <2>1 DEF Numerals
<1>7. Value(new) = i
  <2>1. Value(Append(s, c)) = (10 * Value(s)) + DigitOf(c)
    BY ONLY <1>3, <1>5, ValueAppend
  <2> QED BY <1>1, <1>3, <1>4, <1>5, <2>1
<1>8. new # <<>>
  BY <1>5, <1>6
<1>9. new[1] # "0"
  <2>1. CASE q = 0
    <3>1. s = <<>>
      BY <2>1 DEF IsNumeral
    <3>2. n = 0
      BY <1>4, <3>1
    <3>3. new[1] = c
      BY <1>6, <3>2
    <3>4. r # 0
      BY <1>1, <2>1
    <3> QED BY <1>3, <3>3, <3>4
  <2>2. CASE q # 0
    <3>1. s # <<>> /\ s[1] # "0"
      BY <2>2 DEF IsNumeral
    <3>2. n # 0
      BY <1>4, <1>5, <3>1 DEF Numerals
    <3>3. 1 \in 1 .. n
      BY <1>5, <3>2
    <3> QED BY <1>6, <3>1, <3>3
  <2> QED BY <2>1, <2>2
<1>10. ASSUME NEW j \in 0 .. TextSize, i < Power[j] PROVE Len(new) <= j
  <2>1. j # 0
    BY <1>10, PowerIs
  <2>2. PICK k : k = j - 1
    OBVIOUS
  <2>3. j \in 1 .. TextSize /\ k \in 0 .. TextSize
    BY <2>1, <2>2, PowerIs
  <2>4. PICK x, y : x = Power[j] /\ y = Power[k]
    OBVIOUS
  <2>5. x = 10 * y /\ y \in Nat /\ i < x
    BY <1>10, <2>2, <2>3, <2>4, PowerIs
  <2>6. q < y
    BY <1>1, <2>5
  <2>7. n <= k
    BY <1>4, <2>3, <2>4, <2>6 DEF IsNumeral
  <2> QED BY <1>5, <1>6, <2>2, <2>3, <2>7
<1> QED BY <1>2, <1>4, <1>6, <1>7, <1>8, <1>9, <1>10 DEF IsNumeral

LEMMA NumeralOf ==
  ASSUME NEW m \in Nat, NEW e, Numbers(e, m), NEW i \in 0 .. m
  PROVE  IsNumeral(e[-i], i)
<1> DEFINE G == {l \in 0 .. m : \A j \in 0 .. l : IsNumeral(e[-j], j)}
<1>1. e[0] = <<>>
  <2>1. 0 \in -m .. 0
    OBVIOUS
  <2> QED BY <2>1 DEF Numbers
<1>2. ASSUME NEW j \in 1 .. m
      PROVE  e[-j] = Append(e[-(j \div 10)], Digits[(j % 10) + 1])
  <2>1. PICK n : n = -j
    OBVIOUS
  <2>2. n \in -m .. 0 /\ n # 0 /\ -n = j
    BY <2>1
  <2>3. e[n] = Append(e[-((-n) \div 10)], Digits[((-n) % 10) + 1])
    BY <2>2 DEF Numbers
  <2> QED BY <2>1, <2>2, <2>3
<1>3. 0 \in G
  <2>1. ASSUME NEW j \in 0 .. 0 PROVE -j = 0 /\ j = 0
    <3>1. PICK n : n = -j
      OBVIOUS
    <3>2. n \in Int /\ n <= 0 /\ n >= 0
      BY <3>1
    <3>3. n = 0
      BY ONLY <3>2
    <3>4. j = 0
      OBVIOUS
    <3> QED BY ONLY <3>1, <3>3, <3>4
  <2>2. IsNumeral(<<>>, 0)
    <3>1. <<>> \in Numerals /\ Len(<<>>) = 0
      BY DEF Numerals
    <3>2. Value(<<>>) = 0
      BY <3>1, DigitIs, ValueAppend
    <3> QED BY <3>1, <3>2 DEF IsNumeral
  <2> QED BY <1>1, <2>1, <2>2
<1>4. ASSUME NEW l \in 0 .. m, l \in G, l < m PROVE l + 1 \in G
  <2>1. PICK j : j = l + 1
    OBVIOUS
  <2>2. j \in 1 .. m /\ j \in Nat /\ j # 0
    BY <1>4, <2>1
  <2>3. PICK q, r, s : q = j \div 10 /\ r = j % 10 /\ s = e[-q]
    OBVIOUS
  <2>4. q \in 0 .. l
    BY <2>1, <2>2, <2>3
  <2>5. IsNumeral(s, q)
    BY <1>4, <2>3, <2>4
  <2>6. IsNumeral(Append(s, Digits[r + 1]), j)
    BY ONLY <2>2, <2>3, <2>5, LongerNumeral
  <2>7. e[-j] = Append(s, Digits[r + 1])
    BY <1>2, <2>2, <2>3
  <2>8. IsNumeral(e[-j], j)
    BY <2>6, <2>7
  <2>9. \A k \in 0 .. l + 1 : k \in 0 .. l \/ k = j
    BY <2>1
  <2>10. \A k \in 0 .. l : IsNumeral(e[-k], k)
    BY <1>4
  <2>11. l + 1 \in 0 .. m
    BY <1>4
  <2> QED BY <2>8, <2>9, <2>10, <2>11
<1>5. 0 .. m \subseteq G
  <2> HIDE DEF G
  <2> QED BY <1>3, <1>4, SetInduction
<1>6. i \in G /\ i \in 0 .. i
  BY <1>5
<1> QED BY <1>6

\* What CodeIsShown says of the text of a number.
IsText(text, i) ==
  LET digits == IF i < 0 THEN Tail(text) ELSE text
  IN  /\ Len(text) < TextSize
      /\ digits # <<>> /\ Range(digits) \subseteq Range(Digits)
      /\ digits[1] = "0" => i = 0 /\ Len(digits) = 1
      /\ i < 0 <=> text[1] = "-"
      /\ Value(digits) = IF i < 0 THEN -i ELSE i

\* The text of a number without its sign.
IsDigits(v, p) ==
  /\ v \in Numerals /\ v # <<>> /\ Value(v) = p
  /\ v[1] = "0" => p = 0 /\ Len(v) = 1
  /\ Len(v) <= TextSize - 2

LEMMA DigitsOf ==
  ASSUME NEW p \in Nat, p <= MaxInt + 1, NEW s, IsNumeral(s, p)
  PROVE  IsDigits(IF s = <<>> THEN <<"0">> ELSE s, p)
<1>1. PICK j : j = TextSize - 2
  OBVIOUS
<1>2. j \in 1 .. TextSize /\ p < Power[j]
  <2>1. j \in 0 .. TextSize
    BY <1>1, PowerIs
  <2>2. MaxInt \in Nat /\ MaxInt + 1 < Power[j]
    BY <1>1, TerminalAssumption
  <2>3. PICK x : x = Power[j]
    OBVIOUS
  <2>4. x \in Nat /\ MaxInt + 1 < x
    BY <2>1, <2>2, <2>3, PowerIs
  <2>5. x # 1 /\ p < x
    BY <2>2, <2>4
  <2>6. j # 0
    BY <2>3, <2>5, PowerIs
  <2> QED BY <2>1, <2>3, <2>5, <2>6
<1>3. CASE s = <<>>
  <2>1. p = 0
    BY <1>3 DEF IsNumeral
  <2>2. "0" \in Range(Digits) /\ DigitOf("0") = 0 /\ <<>> \in Numerals
    <3>1. 0 \in 0 .. 9 /\ 0 + 1 = 1
      OBVIOUS
    <3>2. DigitOf(Digits[0 + 1]) = 0 /\ Digits[1] = "0"
      BY <3>1, DigitIs
    <3> QED BY <3>1, <3>2, DigitIs DEF Numerals
  <2>3. Value(Append(<<>>, "0")) = (10 * Value(<<>>)) + DigitOf("0") /\ Value(<<>>) = 0
    BY ONLY <2>2, ValueAppend
  <2>4. Append(<<>>, "0") = <<"0">>
    OBVIOUS
  <2>5. Value(<<"0">>) = 0
    BY <2>2, <2>3, <2>4
  <2>6. <<"0">> \in Numerals /\ Len(<<"0">>) = 1 /\ <<"0">> # <<>>
    BY <2>2 DEF Numerals
  <2> QED BY <1>1, <1>2, <1>3, <2>1, <2>5, <2>6 DEF IsDigits
<1>4. CASE s # <<>>
  <2>1. s \in Numerals /\ Value(s) = p /\ p # 0 /\ s[1] # "0"
    BY <1>4 DEF IsNumeral
  <2>2. Len(s) <= j
    BY <1>2 DEF IsNumeral
  <2> QED BY <1>1, <1>4, <2>1, <2>2 DEF IsDigits
<1> QED BY <1>3, <1>4

\* The text of a number is its numeral.
LEMMA ItoaIs ==
  ASSUME NEW i \in Int32
  PROVE  IsText(itoa(i), i) /\ Plain(itoa(i)) /\ Len(itoa(i)) <= Width - 2
<1>1. PICK m, n : m = MaxInt + 1 /\ n = IF i >= 0 THEN -i ELSE i
  OBVIOUS
<1>2. m \in Nat /\ n \in -m .. 0 /\ \E e : Numbers(e, m) /\ TextFrom(e, i, n, itoa(i))
  BY ONLY i \in Int32, <1>1, ItoaParts
<1>3. PICK e : Numbers(e, m) /\ TextFrom(e, i, n, itoa(i))
  BY <1>2
<1>4. PICK p : p = IF i < 0 THEN -i ELSE i
  OBVIOUS
<1>5. p \in 0 .. m /\ p \in Nat /\ n = -p /\ i \in Int /\ (i < 0 => p # 0)
  BY <1>1, <1>2, <1>4, TerminalAssumption DEF Int32
<1>6. PICK s, v, t : s = e[n] /\ v = (IF s = <<>> THEN <<"0">> ELSE s) /\ t = itoa(i)
  OBVIOUS
<1>7. IsDigits(v, p)
  <2>1. IsNumeral(s, p)
    BY <1>2, <1>3, <1>5, <1>6, NumeralOf
  <2>2. p \in Nat /\ p <= MaxInt + 1
    BY <1>1, <1>5
  <2>3. IsDigits(IF s = <<>> THEN <<"0">> ELSE s, p)
    BY ONLY <2>1, <2>2, DigitsOf
  <2> QED BY <1>6, <2>3
<1>8. t = (IF i < 0 THEN <<"-">> ELSE <<>>) \o v
  BY <1>3, <1>6 DEF TextFrom
<1>9. PICK l : l = Len(v)
  OBVIOUS
<1>10. l \in Nat /\ l # 0 /\ l <= TextSize - 2 /\ v \in Seq(Range(Digits))
  BY <1>7, <1>9 DEF IsDigits, Numerals
<1>11. TextSize \in Nat /\ Width \in Nat /\ TextSize < Width
  BY TerminalAssumption, ConsoleAssumption
<1>12. Range(v) \subseteq Range(Digits)
  BY <1>10 DEF Range
<1>13. t \in Seq(Shown)
  BY <1>6, ItoaType
<1>14. ASSUME i < 0
       PROVE  /\ t[1] = "-" /\ Tail(t) = v /\ Len(t) = l + 1
              /\ \A k \in 1 .. l + 1 : t[k] = "-" \/ t[k] \in Range(Digits)
  <2>1. PICK u, S : u = <<"-">> /\ S = {"-"} \cup Range(Digits)
    OBVIOUS
  <2>2. u \in Seq(S) /\ v \in Seq(S) /\ Len(u) = 1 /\ u[1] = "-" /\ t = u \o v
    BY <1>8, <1>10, <1>14, <2>1
  <2>3. /\ t \in Seq(S) /\ Len(t) = Len(u) + Len(v)
        /\ \A k \in 1 .. Len(u) + Len(v) :
             t[k] = IF k <= Len(u) THEN u[k] ELSE v[k - Len(u)]
    <3>1. /\ u \o v \in Seq(S) /\ Len(u \o v) = Len(u) + Len(v)
          /\ \A k \in 1 .. Len(u) + Len(v) :
               (u \o v)[k] = IF k <= Len(u) THEN u[k] ELSE v[k - Len(u)]
      BY ONLY <2>2, ConcatProperties
    <3> QED BY <2>2, <3>1
  <2>4. Len(t) = l + 1 /\ t[1] = "-"
    <3>1. Len(t) = 1 + l /\ 1 \in 1 .. 1 + l
      BY <1>9, <1>10, <2>2, <2>3
    <3> QED BY <1>9, <1>10, <2>2, <2>3, <3>1
  <2>5. \A k \in 1 .. l : t[k + 1] = v[k]
    <3>1. ASSUME NEW k \in 1 .. l PROVE t[k + 1] = v[k]
      <4>1. PICK h : h = k + 1
        OBVIOUS
      <4>2. h \in 1 .. 1 + l /\ ~ (h <= 1) /\ h - 1 = k
        BY <1>10, <4>1
      <4> QED BY <1>9, <2>2, <2>3, <4>1, <4>2
    <3> QED BY <3>1
  <2>6. Tail(t) = v
    <3>1. t # <<>>
      BY <1>10, <2>3, <2>4
    <3>2. Tail(t) \in Seq(S) /\ Len(Tail(t)) = Len(t) - 1
          /\ \A k \in 1 .. Len(Tail(t)) : Tail(t)[k] = t[k + 1]
      BY <2>3, <3>1, HeadTailProperties
    <3>3. Len(Tail(t)) = Len(v)
      BY <1>9, <1>10, <2>4, <3>2
    <3>4. \A k \in 1 .. Len(v) : Tail(t)[k] = v[k]
      BY <1>9, <2>5, <3>2, <3>3
    <3> QED BY ONLY <2>2, <3>2, <3>3, <3>4, SeqEqual
  <2>7. \A k \in 1 .. l + 1 : t[k] \in S
    BY <2>3, <2>4, CharactersOf
  <2> QED BY <2>1, <2>4, <2>6, <2>7
<1>15. ASSUME ~ (i < 0) PROVE t = v
  <2>1. t = <<>> \o v
    BY <1>8, <1>15
  <2> QED BY <1>10, <2>1, ConcatEmptySeq
<1>16. \A c \in Range(Digits) : c # "-" /\ c # NL /\ c # BS
  BY DigitIs
<1>17. "-" # NL /\ "-" # BS
  BY DEF NL, BS
<1>18. \A k \in 1 .. l : v[k] \in Range(Digits)
  BY <1>9, <1>10, CharactersOf
<1>19. IsText(t, i)
  <2>1. CASE i < 0
    <3>1. Len(t) < TextSize /\ t[1] = "-" /\ Tail(t) = v
      BY <1>10, <1>11, <1>14, <2>1
    <3>2. /\ v # <<>> /\ Range(v) \subseteq Range(Digits) /\ Value(v) = -i
          /\ v[1] = "0" => i = 0 /\ Len(v) = 1
      BY <1>4, <1>5, <1>7, <1>12, <2>1 DEF IsDigits
    <3> QED BY ONLY <2>1, <3>1, <3>2 DEF IsText
  <2>2. CASE ~ (i < 0)
    <3>1. 1 \in 1 .. l
      BY <1>10
    <3>2. t[1] # "-" /\ t = v
      BY <1>15, <1>16, <1>18, <2>2, <3>1
    <3>3. Len(t) < TextSize
      BY <1>9, <1>10, <1>11, <3>2
    <3> QED BY <1>4, <1>5, <1>7, <1>12, <2>2, <3>2, <3>3 DEF IsText, IsDigits
  <2> QED BY <2>1, <2>2
<1>20. Len(t) <= Width - 2 /\ \A k \in 1 .. Len(t) : t[k] # NL /\ t[k] # BS
  <2>1. CASE i < 0
    BY <1>10, <1>11, <1>14, <1>16, <1>17, <2>1
  <2>2. CASE ~ (i < 0)
    BY <1>9, <1>10, <1>11, <1>15, <1>16, <1>18, <2>2
  <2> QED BY <2>1, <2>2
<1> QED BY <1>6, <1>13, <1>19, <1>20 DEF Plain

\* What is printed on an empty line is that line, if it fits.
LEMMA LineWritten ==
  ASSUME NEW lines \in Pages, NEW n, n = Len(lines), lines[n] = <<>>,
         NEW str, Plain(str), Len(str) <= Width - 2,
         NEW new, new = written(lines, str)
  PROVE  new \in Pages /\ Len(new) = n /\ new[n] = str
<1>1. PICK l, a : l = Len(str) /\ a = Writing(lines, str)
  OBVIOUS
<1>2. /\ str \in Seq(Shown) /\ str \in Seq(Printed) /\ l \in Nat /\ l <= Width - 2
      /\ \A k \in 1 .. l : str[k] \in Shown /\ str[k] # NL /\ str[k] # BS
  BY <1>1, PromptType DEF Plain
<1>3. (\A k \in 0 .. l : a[k] \in Pages) /\ Reads(a, lines, str)
  BY <1>1, <1>2, WritingReads
<1>4. n \in Nat /\ n > 0 /\ Width \in Nat
  BY PageParts, TerminalAssumption
<1> DEFINE Upto(k) == SubSeq(str, 1, k)
           G == {k \in 0 .. l : Len(a[k]) = n /\ a[k][n] = Upto(k)}
<1>5. 0 \in G
  <2>1. a[0] = lines
    BY <1>3 DEF Reads
  <2>2. Upto(0) = <<>>
    BY <1>2, SubSeqEmpty
  <2> HIDE DEF Upto
  <2> QED BY <1>2, <2>1, <2>2
<1>6. ASSUME NEW i \in 0 .. l, i \in G, i < l PROVE i + 1 \in G
  <2>1. PICK j : j = i + 1
    OBVIOUS
  <2>2. j \in 1 .. l /\ j - 1 = i /\ j \in 0 .. l
    BY <1>2, <1>6, <2>1
  <2>3. PICK c, b, u : c = str[j] /\ b = a[i] /\ u = Upto(i)
    OBVIOUS
  <2>4. /\ a[j] = Written(b, c) /\ b \in Pages /\ c # NL /\ c # BS
        /\ Len(b) = n /\ b[n] = u
    BY <1>1, <1>2, <1>3, <1>6, <2>2, <2>3 DEF Reads
  <2>5. Upto(j) = u \o <<c>>
    <3>1. 1 \in 1 .. Len(str) /\ j \in 1 .. Len(str)
      BY <1>1, <1>2, <2>2
    <3>2. SubSeq(str, 1, j) = SubSeq(str, 1, j - 1) \o <<str[j]>>
      BY <1>2, <3>1, SubSeqRecursiveSecond
    <3> QED BY <2>2, <2>3, <3>2
  <2>6. u \in Seq(Shown) /\ Len(u) = i /\ Len(u) # Width - 2
    <3>1. \A k \in 1 .. i : str[k] \in Shown
      BY <1>2
    <3>2. 1 \in Int /\ i \in Int
      OBVIOUS
    <3>3. u \in Seq(Shown)
      BY <2>3, <3>1, <3>2, SubSeqProperties
    <3>4. Len(u) = i
      BY <1>1, <1>2, <2>3
    <3> QED BY <1>2, <1>4, <1>6, <3>3, <3>4
  <2>7. PICK v : v = Append(u, c)
    OBVIOUS
  <2>8. a[j] = [b EXCEPT ![n] = v]
    <3>1. WrittenTo(b, c, n, u, Written(b, c))
      BY <2>4, WrittenCases
    <3> QED BY <2>4, <2>6, <2>7, <3>1 DEF WrittenTo
  <2>9. Len(a[j]) = n /\ a[j][n] = v
    <3>1. PICK S : S = Seq(Shown)
      OBVIOUS
    <3>2. b \in Seq(S)
      BY <2>4, <3>1 DEF Pages
    <3>3. n \in DOMAIN b /\ DOMAIN [b EXCEPT ![n] = v] = DOMAIN b
      BY <1>4, <2>4, <3>2
    <3>4. [b EXCEPT ![n] = v][n] = v
      BY <3>3
    <3>5. a[j] \in Pages
      BY <1>3, <2>2
    <3>6. Len(a[j]) \in Nat /\ DOMAIN a[j] = 1 .. Len(a[j]) /\ DOMAIN b = 1 .. Len(b)
      BY <2>4, <3>5, PageParts
    <3>7. 1 .. Len(a[j]) = 1 .. n
      BY <2>4, <2>8, <3>3, <3>6
    <3>8. Len(a[j]) = n
      BY <1>4, <3>6, <3>7
    <3> QED BY <2>8, <3>4, <3>8
  <2>10. v = Upto(j)
    <3>1. Append(u, c) = u \o <<c>>
      BY <2>6
    <3> QED BY <2>5, <2>7, <3>1
  <2> HIDE DEF Upto
  <2> QED BY <2>1, <2>2, <2>9, <2>10
<1>7. 0 .. l \subseteq G
  <2> HIDE DEF G
  <2> QED BY <1>2, <1>5, <1>6, SetInduction
<1>8. l \in 0 .. l /\ Len(a[l]) = n /\ a[l][n] = Upto(l)
  BY <1>2, <1>7
<1>9. Upto(l) = str
  BY <1>1, <1>2, SubSeqFull
<1>10. new = a[l]
  BY <1>1 DEF written
<1> QED BY <1>3, <1>8, <1>9, <1>10

\* From d on, a reads what b reads.
ReadAlike(a, d, b, n, s) ==
  /\ a[d] = b[0]
  /\ \A k \in 1 .. n : /\ b[k] = Written(b[k - 1], s[k])
                       /\ a[d + k] = Written(a[(d + k) - 1], s[k])

LEMMA SameReads ==
  ASSUME NEW n \in Nat, NEW d \in Nat, NEW a, NEW b, NEW s, ReadAlike(a, d, b, n, s)
  PROVE  a[d + n] = b[n]
<1> DEFINE G == {i \in 0 .. n : a[d + i] = b[i]}
<1>1. 0 \in G
  <2>1. d + 0 = d /\ 0 \in 0 .. n
    OBVIOUS
  <2> QED BY <2>1 DEF ReadAlike
<1>2. ASSUME NEW i \in 0 .. n, i \in G, i < n PROVE i + 1 \in G
  <2>1. PICK j, e : j = i + 1 /\ e = d + j
    OBVIOUS
  <2>2. j \in 1 .. n /\ j - 1 = i /\ j \in 0 .. n /\ e - 1 = d + i
    BY <1>2, <2>1
  <2>3. a[e] = Written(a[e - 1], s[j]) /\ b[j] = Written(b[j - 1], s[j])
    BY <2>1, <2>2 DEF ReadAlike
  <2>4. a[d + i] = b[i]
    BY <1>2
  <2>5. a[e] = b[j]
    BY <2>2, <2>3, <2>4
  <2> QED BY <2>1, <2>2, <2>5
<1>3. 0 .. n \subseteq G
  <2> HIDE DEF G
  <2> QED BY <1>1, <1>2, SetInduction
<1> QED BY <1>3

\* One string after another.
LEMMA WrittenConcat ==
  ASSUME NEW lines \in Pages, NEW s \in Seq(Printed), NEW t \in Seq(Printed)
  PROVE  written(lines, s \o t) = written(written(lines, s), t)
<1>1. PICK m, n, c : m = Len(s) /\ n = Len(t) /\ c = s \o t
  OBVIOUS
<1>2. m \in Nat /\ n \in Nat
  BY <1>1
<1>3. /\ c \in Seq(Printed) /\ Len(c) = m + n
      /\ \A k \in 1 .. m + n : c[k] = IF k <= m THEN s[k] ELSE t[k - m]
  <2>1. /\ s \o t \in Seq(Printed) /\ Len(s \o t) = Len(s) + Len(t)
        /\ \A k \in 1 .. Len(s) + Len(t) :
             (s \o t)[k] = IF k <= Len(s) THEN s[k] ELSE t[k - Len(s)]
    BY ONLY s \in Seq(Printed), t \in Seq(Printed), ConcatProperties
  <2> QED BY <1>1, <2>1
<1>4. PICK a, b, w, d : /\ a = Writing(lines, c) /\ b = Writing(lines, s)
                        /\ w = b[m] /\ d = Writing(w, t)
  OBVIOUS
<1>5. Reads(a, lines, c)
  BY <1>3, <1>4, WritingReads
<1>6. Reads(b, lines, s) /\ w \in Pages
  <2>1. m \in 0 .. m
    BY <1>2
  <2> QED BY <1>1, <1>4, <2>1, WritingReads
<1>7. Reads(d, w, t)
  BY <1>4, <1>6, WritingReads
<1>8. a[m] = b[m]
  <2>1. a[0] = b[0]
    BY <1>5, <1>6 DEF Reads
  <2>2. ASSUME NEW k \in 1 .. m
        PROVE  /\ b[k] = Written(b[k - 1], s[k])
               /\ a[0 + k] = Written(a[(0 + k) - 1], s[k])
    <3>1. k \in 1 .. m + n /\ k <= m /\ 0 + k = k
      BY <1>2
    <3>2. c[k] = s[k] /\ a[k] = Written(a[k - 1], c[k]) /\ b[k] = Written(b[k - 1], s[k])
      BY <1>1, <1>3, <1>5, <1>6, <3>1 DEF Reads
    <3> QED BY <3>1, <3>2
  <2>3. 0 \in Nat
    OBVIOUS
  <2>4. ReadAlike(a, 0, b, m, s)
    BY <2>1, <2>2 DEF ReadAlike
  <2>5. a[0 + m] = b[m]
    BY ONLY <1>2, <2>3, <2>4, SameReads
  <2> QED BY <1>2, <2>5
<1>9. a[m + n] = d[n]
  <2>1. a[m] = d[0]
    BY <1>4, <1>7, <1>8 DEF Reads
  <2>2. ASSUME NEW k \in 1 .. n
        PROVE  /\ d[k] = Written(d[k - 1], t[k])
               /\ a[m + k] = Written(a[(m + k) - 1], t[k])
    <3>1. PICK h : h = m + k
      OBVIOUS
    <3>2. h \in 1 .. m + n /\ ~ (h <= m) /\ h - m = k
      BY <1>2, <3>1
    <3>3. c[h] = t[k] /\ a[h] = Written(a[h - 1], c[h]) /\ d[k] = Written(d[k - 1], t[k])
      BY <1>1, <1>3, <1>5, <1>7, <3>2 DEF Reads
    <3> QED BY <3>1, <3>3
  <2>3. ReadAlike(a, m, d, n, t)
    BY <2>1, <2>2 DEF ReadAlike
  <2> QED BY ONLY <1>2, <2>3, SameReads
<1>10. written(lines, c) = a[m + n]
  BY <1>3, <1>4 DEF written
<1>11. written(lines, s) = w /\ written(w, t) = d[n]
  BY <1>1, <1>4 DEF written
<1> QED BY <1>1, <1>9, <1>10, <1>11

\* The page after an exit code.
LEMMA CodeWritten ==
  ASSUME NEW lines \in Pages, NEW text, Plain(text), Len(text) <= Width - 2,
         NEW new, new = written(lines, <<NL>> \o text \o <<NL>>)
  PROVE  new[Len(new) - 1] = text
<1>1. PICK u : u = <<NL>>
  OBVIOUS
<1>2. NL \in Printed /\ u \in Seq(Printed) /\ text \in Seq(Printed) /\ u \o text \in Seq(Printed)
  <2>1. NL \in Printed
    BY DEF Printed
  <2>2. u \in Seq(Printed) /\ text \in Seq(Printed)
    BY <1>1, <2>1, PromptType DEF Plain
  <2> QED BY <2>1, <2>2, ConcatProperties
<1>3. PICK a, b, n : a = written(lines, u) /\ b = written(a, text) /\ n = Len(a)
  OBVIOUS
<1>4. a = Written(lines, NL)
  BY <1>1, <1>2, <1>3, WrittenOne
<1>5. a \in Pages /\ a[n] = <<>>
  <2>1. a \in Pages /\ Len(a) = Len(lines) + 1 /\ Len(a[Len(lines) + 1]) = 0
    BY <1>4, NewlineWrites
  <2>2. Len(a[n]) = 0
    BY <1>3, <2>1
  <2>3. n \in Nat /\ n > 0 /\ \A k \in 1 .. n : a[k] \in Seq(Shown)
    BY <1>3, <2>1, PageParts
  <2>4. a[n] \in Seq(Shown)
    BY <2>3
  <2> QED BY <2>1, <2>2, <2>4, EmptySeq
<1>6. b \in Pages /\ Len(b) = n /\ b[n] = text
  BY ONLY <1>3, <1>5, Plain(text), Len(text) <= Width - 2, LineWritten
<1>7. new = Written(b, NL)
  <2>1. new = written(written(lines, u \o text), u)
    BY <1>1, <1>2, WrittenConcat
  <2>2. written(lines, u \o text) = b
    BY <1>2, <1>3, WrittenConcat
  <2>3. written(b, u) = Written(b, NL)
    BY <1>1, <1>2, <1>6, WrittenOne
  <2> QED BY <2>1, <2>2, <2>3
<1>8. new = Append(b, <<>>)
  <2>1. WrittenTo(b, NL, n, text, new)
    BY <1>6, <1>7, WrittenCases
  <2> QED BY <2>1 DEF WrittenTo
<1>9. Len(new) = n + 1 /\ new[n] = b[n]
  <2>1. PICK S : S = Seq(Shown)
    OBVIOUS
  <2>2. b \in Seq(S) /\ <<>> \in S
    BY <1>6, <2>1 DEF Pages
  <2>3. Len(new) = Len(b) + 1 /\ \A k \in 1 .. Len(b) : new[k] = b[k]
    BY <1>8, <2>2, AppendProperties
  <2>4. n \in Nat /\ n > 0
    BY <1>6, PageParts
  <2>5. n \in 1 .. Len(b)
    BY <1>6, <2>4
  <2> QED BY <1>6, <2>3, <2>5
<1>10. n \in Nat
  BY <1>6, PageParts
<1>11. Len(new) - 1 = n
  BY <1>9, <1>10
<1> QED BY <1>6, <1>9, <1>11

\* When a process ends, the line that is printed is the decimal numeral of its
\* exit code, the smallest int and 0 included, and it fits into text with its
\* end (string/string.c:129).
THEOREM CodesAreShown == Spec => CodeIsShown
<1>1. ASSUME Together, NEW code \in Codes, isr80h_command0_process_exit(code)
      PROVE  IsText(page'[Len(page') - 1], code)
  <2>1. code \in Int32
    BY ConsoleAssumption
  <2>2. PICK text : text = itoa(code)
    OBVIOUS
  <2>3. IsText(text, code) /\ Plain(text) /\ Len(text) <= Width - 2
    BY <2>1, <2>2, ItoaIs
  <2>4. page' = written(page, <<NL>> \o text \o <<NL>>)
    BY <1>1, <2>2 DEF isr80h_command0_process_exit, Interferes, Prints
  <2>5. page \in Pages
    BY <1>1 DEF Together
  <2>6. page'[Len(page') - 1] = text
    BY <2>3, <2>4, <2>5, CodeWritten
  <2> QED BY <2>3, <2>6
<1>2. Together => [\A code \in Codes : isr80h_command0_process_exit(code) =>
                     LET text   == page'[Len(page') - 1]
                         digits == IF code < 0 THEN Tail(text) ELSE text
                     IN  /\ Len(text) < TextSize
                         /\ digits # <<>> /\ Range(digits) \subseteq Range(Digits)
                         /\ digits[1] = "0" => code = 0 /\ Len(digits) = 1
                         /\ code < 0 <=> text[1] = "-"
                         /\ Value(digits) = IF code < 0 THEN -code ELSE code]_vars
  BY <1>1 DEF IsText
<1> QED BY <1>2, InitTogether, NextTogether, PTL DEF Spec, CodeIsShown
===============================================================================
