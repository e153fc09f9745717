--------------------------- MODULE KeyboardProofs ---------------------------
(***************************************************************************)
(* Theorems about the keyboard, for every buffer size, every width of its   *)
(* counters that the size divides, and every table of scan codes.           *)
(***************************************************************************)
EXTENDS Keyboard, Lemmas

\* The premise of the refinement: nobody types further ahead than the buffer
\* has room.
FitsBuffer == TypeAhead <= Size

Ring == [buffer : [Cells -> 0 .. 127], head : 0 .. IntRange - 1,
         tail : 0 .. IntRange - 1]

\* The j-th cell from head.
Cell(k, j) == k.buffer[(k.head + j) % Size]

\* The unread characters stand between head and tail, every other cell is
\* empty: keyboard_pop takes a zero for an empty buffer.
InOrder(k) ==
  /\ Unread(k) <= TypeAhead
  /\ \A j \in Cells : IF j < Unread(k) THEN Cell(k, j) \in KeyChars
                                       ELSE Cell(k, j) = 0

-----------------------------------------------------------------------------
(* Counters                                                                *)

\* The counters wrap at most once in one step.
LEMMA NearRange ==
  ASSUME NEW x \in -IntRange .. 2 * IntRange - 1
  PROVE  x % IntRange = IF x < 0 THEN x + IntRange
                        ELSE IF x < IntRange THEN x ELSE x - IntRange
<1>1. IntRange \in Nat \ {0}
  BY KeyboardAssumption
<1> QED BY <1>1, ModNear

\* So do the cells.
LEMMA NearSize ==
  ASSUME NEW x \in -Size .. 2 * Size - 1
  PROVE  x % Size = IF x < 0 THEN x + Size
                    ELSE IF x < Size THEN x ELSE x - Size
<1>1. Size \in Nat \ {0}
  BY KeyboardAssumption
<1> QED BY <1>1, ModNear

\* Whole turns around the ring leave the cell as it is.
LEMMA SizeTimes ==
  ASSUME NEW x \in Int, NEW a \in Int, NEW y, y = x + Size * a
  PROVE  y % Size = x % Size
<1>1. Size \in Nat \ {0}
  BY KeyboardAssumption
<1> QED BY <1>1, AddMultiple

\* The size divides the range of the counters, so reducing a counter does not
\* move its cell.
LEMMA CellOfCounter ==
  ASSUME NEW x \in 0 .. 2 * IntRange - 1
  PROVE  (x % IntRange) % Size = x % Size
<1>1. IntRange \in Nat \ {0} /\ Size \in Nat \ {0} /\ IntRange % Size = 0
  BY KeyboardAssumption
<1>2. PICK q \in Int : IntRange = Size * q
  BY <1>1
<1>3. x % IntRange = IF x < IntRange THEN x ELSE x - IntRange
  <2>1. x \in -IntRange .. 2 * IntRange - 1 /\ x >= 0
    BY <1>1
  <2> QED BY <2>1, NearRange
<1>4. PICK y : y = x - IntRange
  OBVIOUS
<1>5. y \in Int /\ x = y + Size * q
  BY <1>1, <1>2, <1>4
<1>6. x % Size = y % Size
  BY <1>2, <1>5, SizeTimes
<1> QED BY <1>3, <1>4, <1>6

\* Where the l-th cell after a counter stands.
LEMMA CellAfter ==
  ASSUME NEW h \in Nat, NEW l \in 0 .. Size
  PROVE  (h + l) % Size = IF (h % Size) + l < Size THEN (h % Size) + l
                                                 ELSE (h % Size) + l - Size
<1>1. Size \in Nat \ {0}
  BY KeyboardAssumption
<1>2. PICK a, b : a = h \div Size /\ b = h % Size
  OBVIOUS
<1>3. a \in Int /\ b \in 0 .. Size - 1 /\ h = Size * a + b
  BY <1>1, <1>2
<1>4. PICK x : x = b + l
  OBVIOUS
<1>5. x \in -Size .. 2 * Size - 1 /\ x >= 0 /\ x \in Int
  BY <1>1, <1>3, <1>4
<1>6. x % Size = IF x < Size THEN x ELSE x - Size
  BY <1>5, NearSize
<1>7. PICK y : y = h + l
  OBVIOUS
<1>8. y = x + Size * a
  BY <1>1, <1>3, <1>4, <1>7
<1>9. y % Size = x % Size
  BY <1>3, <1>5, <1>8, SizeTimes
<1> QED BY <1>1, <1>2, <1>3, <1>4, <1>5, <1>6, <1>7, <1>9

\* The cells from head on are all different, and one round further is head
\* again.
LEMMA CellsDiffer ==
  ASSUME NEW h \in Nat, NEW i \in Cells, NEW j \in 0 .. Size
  PROVE  /\ (h + i) % Size \in Cells
         /\ (h + i) % Size = (h + j) % Size <=> (i = j \/ (i = 0 /\ j = Size))
<1>1. Size \in Nat \ {0}
  BY KeyboardAssumption
<1>2. PICK b : b = h % Size
  OBVIOUS
<1>3. b \in 0 .. Size - 1
  BY <1>1, <1>2
<1>4. i \in 0 .. Size /\ i < Size
  BY <1>1 DEF Cells
<1>5. /\ (h + i) % Size = IF b + i < Size THEN b + i ELSE b + i - Size
      /\ (h + j) % Size = IF b + j < Size THEN b + j ELSE b + j - Size
  BY <1>2, <1>4, CellAfter
<1> QED BY <1>1, <1>3, <1>4, <1>5 DEF Cells

\* What the counters say of each other.
LEMMA Counters ==
  ASSUME NEW h \in 0 .. IntRange - 1, NEW t \in 0 .. IntRange - 1,
         NEW u, u = (t - h) % IntRange
  PROVE  /\ u \in 0 .. IntRange - 1
         /\ (h + u) % IntRange = t
         /\ u + 1 < IntRange => ((((t + 1) % IntRange) - h) % IntRange) = u + 1
         /\ u > 0 => ((t - ((h + 1) % IntRange)) % IntRange) = u - 1
<1>1. IntRange \in Nat \ {0}
  BY KeyboardAssumption
<1>2. u = IF t < h THEN t - h + IntRange ELSE t - h
  <2>1. PICK x : x = t - h
    OBVIOUS
  <2>2. x \in -IntRange .. 2 * IntRange - 1 /\ x < IntRange
    BY <1>1, <2>1
  <2>3. x % IntRange = IF x < 0 THEN x + IntRange ELSE x
    BY <2>2, NearRange
  <2> QED BY <2>1, <2>2, <2>3
<1>3. u \in 0 .. IntRange - 1
  BY <1>1, <1>2
<1>4. (h + u) % IntRange = t
  <2>1. PICK x : x = h + u
    OBVIOUS
  <2>2. x \in -IntRange .. 2 * IntRange - 1 /\ x >= 0
    BY <1>1, <1>3, <2>1
  <2>3. x % IntRange = IF x < IntRange THEN x ELSE x - IntRange
    BY <2>2, NearRange
  <2> QED BY <1>1, <1>2, <2>1, <2>3
<1>5. ASSUME NEW c \in 0 .. IntRange - 1
      PROVE  (c + 1) % IntRange = IF c + 1 < IntRange THEN c + 1 ELSE 0
  <2>1. PICK x : x = c + 1
    OBVIOUS
  <2>2. x \in -IntRange .. 2 * IntRange - 1 /\ x > 0 /\ x <= IntRange
    BY <1>1, <2>1
  <2>3. x % IntRange = IF x < IntRange THEN x ELSE x - IntRange
    BY <2>2, NearRange
  <2> QED BY <1>1, <2>1, <2>2, <2>3
<1>6. ASSUME u + 1 < IntRange
      PROVE  ((((t + 1) % IntRange) - h) % IntRange) = u + 1
  <2>1. PICK x : x = ((t + 1) % IntRange) - h
    OBVIOUS
  <2>2. x = (IF t + 1 < IntRange THEN t + 1 ELSE 0) - h
    BY <2>1, <1>5
  <2>3. x \in -IntRange .. 2 * IntRange - 1 /\ x < IntRange
    BY <2>2, <1>1
  <2>4. x % IntRange = IF x < 0 THEN x + IntRange ELSE x
    BY <2>3, NearRange
  <2> QED BY <2>1, <2>2, <2>4, <1>1, <1>2, <1>6
<1>7. ASSUME u > 0
      PROVE  ((t - ((h + 1) % IntRange)) % IntRange) = u - 1
  <2>1. PICK x : x = t - ((h + 1) % IntRange)
    OBVIOUS
  <2>2. x = t - (IF h + 1 < IntRange THEN h + 1 ELSE 0)
    BY <2>1, <1>5
  <2>3. x \in -IntRange .. 2 * IntRange - 1 /\ x < IntRange
    BY <2>2, <1>1
  <2>4. x % IntRange = IF x < 0 THEN x + IntRange ELSE x
    BY <2>3, NearRange
  <2> QED BY <2>1, <2>2, <2>4, <1>1, <1>2, <1>7
<1> QED BY <1>3, <1>4, <1>6, <1>7

-----------------------------------------------------------------------------
(* The ring buffer as a queue                                              *)

\* What the assumptions say of the constants.
LEMMA Sizes ==
  /\ Size \in Nat \ {0} /\ IntRange \in Nat \ {0}
  /\ TypeAhead \in Nat \ {0} /\ TypeAhead < IntRange
  /\ TableSize \in Nat /\ KEY_RELEASED \in Nat \ {0}
  /\ Slots \in Nat /\ Slots >= 2
<1>1. TableSize \in Nat
  BY KeyboardAssumption, FS_CardinalityType DEF TableSize
<1> QED BY <1>1, KeyboardAssumption

\* The keys stand for non-zero characters of one byte.
LEMMA CharsAreBytes == KeyChars \subseteq 1 .. 127
<1> DEFINE codes == {keyboard_scan_set_one[s] : s \in 0 .. TableSize - 1} \cup Beyond
<1>1. ASSUME NEW c \in codes PROVE c \in 0 .. 127
  <2>1. CASE c \in Beyond
    BY <2>1, KeyboardAssumption
  <2>2. CASE c \notin Beyond
    <3>1. PICK s \in 0 .. TableSize - 1 : c = keyboard_scan_set_one[s]
      BY <2>2
    <3> QED BY <3>1, KeyboardAssumption
  <2> QED BY <2>1, <2>2
<1>2. \A c \in codes : tolower(c) \in 0 .. 127
  BY <1>1 DEF tolower
<1>3. KeyChars = (codes \cup {tolower(c) : c \in codes}) \ {0}
  BY DEF KeyChars
<1> QED BY <1>1, <1>2, <1>3

\* What a scan code stands for is such a character, or nothing.
LEMMA CharsOfKeys ==
  ASSUME NEW scancode \in Byte,
         NEW c \in classic_keyboard_scancode_to_char(scancode)
  PROVE  c \in KeyChars \cup {0}
<1> DEFINE codes == {keyboard_scan_set_one[s] : s \in 0 .. TableSize - 1} \cup Beyond
<1>1. KeyChars = (codes \cup {tolower(b) : b \in codes}) \ {0}
  BY DEF KeyChars
<1>2. c = 0 \/ \E b \in codes : c = Cased(b)
  <2>1. CASE scancode > TableSize
    BY <2>1 DEF classic_keyboard_scancode_to_char
  <2>2. CASE scancode = TableSize
    BY <2>2, Sizes DEF classic_keyboard_scancode_to_char
  <2>3. CASE ~ (scancode > TableSize) /\ scancode # TableSize
    <3>1. scancode \in 0 .. TableSize - 1
      BY <2>3, Sizes DEF Byte
    <3>2. c = Cased(keyboard_scan_set_one[scancode])
      BY <2>3 DEF classic_keyboard_scancode_to_char
    <3> QED BY <3>1, <3>2
  <2> QED BY <2>1, <2>2, <2>3
<1> QED BY <1>1, <1>2 DEF Cased

\* The fields of a ring, and its contents.
LEMMA RingFields ==
  ASSUME NEW k \in Ring
  PROVE  /\ k.head \in 0 .. IntRange - 1 /\ k.tail \in 0 .. IntRange - 1
         /\ k.buffer \in [Cells -> 0 .. 127]
         /\ Unread(k) \in 0 .. IntRange - 1
         /\ (k.head + Unread(k)) % IntRange = k.tail
         /\ \A i \in 1 .. Unread(k) : Contents(k)[i] = Cell(k, i - 1)
         /\ HeadChar(k) = Cell(k, 0)
<1>1. /\ k.head \in 0 .. IntRange - 1 /\ k.tail \in 0 .. IntRange - 1
      /\ k.buffer \in [Cells -> 0 .. 127]
  BY DEF Ring
<1>2. /\ Unread(k) \in 0 .. IntRange - 1
      /\ (k.head + Unread(k)) % IntRange = k.tail
  <2>1. PICK h, t, u : h = k.head /\ t = k.tail /\ u = (t - h) % IntRange
    OBVIOUS
  <2>2. u \in 0 .. IntRange - 1 /\ (h + u) % IntRange = t
    BY <1>1, <2>1, Counters
  <2> QED BY <2>1, <2>2 DEF Unread
<1>3. \A i \in 1 .. Unread(k) : k.head + i - 1 = k.head + (i - 1)
  BY <1>1, <1>2
<1>4. k.head + 0 = k.head
  BY <1>1
<1> QED BY <1>1, <1>2, <1>3, <1>4 DEF Contents, Cell, HeadChar

\* The contents are a sequence of keys.
LEMMA ContentsAreKeys ==
  ASSUME FitsBuffer, NEW k \in Ring, InOrder(k)
  PROVE  Contents(k) \in Seq(KeyChars) /\ Len(Contents(k)) = Unread(k)
<1>1. Unread(k) \in Nat
  BY RingFields, Sizes
<1>2. ASSUME NEW i \in 1 .. Unread(k) PROVE Contents(k)[i] \in KeyChars
  <2>1. i - 1 \in Cells /\ i - 1 < Unread(k)
    BY <1>1, Sizes DEF Cells, InOrder, FitsBuffer
  <2> QED BY <2>1, RingFields DEF InOrder
<1>3. DOMAIN Contents(k) = 1 .. Unread(k) /\ Contents(k) = [i \in DOMAIN Contents(k) |-> Contents(k)[i]]
  BY DEF Contents
<1>4. Contents(k) \in [1 .. Unread(k) -> KeyChars]
  BY <1>2, <1>3
<1> HIDE DEF Contents
<1> QED BY <1>1, <1>3, <1>4

\* keyboard_push appends to what the ring holds.
LEMMA PushRing ==
  ASSUME FitsBuffer, NEW k \in Ring, InOrder(k), Unread(k) < TypeAhead,
         NEW c \in KeyChars
  PROVE  /\ keyboard_push(k, c) \in Ring
         /\ InOrder(keyboard_push(k, c))
         /\ Contents(keyboard_push(k, c)) = Append(Contents(k), c)
<1>1. PICK n : n = keyboard_push(k, c)
  OBVIOUS
<1>2. PICK h, t, u : h = k.head /\ t = k.tail /\ u = Unread(k)
  OBVIOUS
<1>3. /\ h \in 0 .. IntRange - 1 /\ t \in 0 .. IntRange - 1
      /\ u \in 0 .. IntRange - 1 /\ (h + u) % IntRange = t
  BY <1>2, RingFields
<1>4. c \in 1 .. 127 /\ t % Size \in Cells
  BY <1>3, Sizes, CharsAreBytes DEF Cells
<1>5. n = [k EXCEPT !.buffer[t % Size] = c, !.tail = (t + 1) % IntRange]
  BY <1>1, <1>2, <1>4 DEF keyboard_push, keyboard_get_tail_index
<1>6. /\ n.head = h /\ n.tail = (t + 1) % IntRange
      /\ n.buffer = [k.buffer EXCEPT ![t % Size] = c]
  BY <1>2, <1>5 DEF Ring
<1>7. n \in Ring
  <2>1. (t + 1) % IntRange \in 0 .. IntRange - 1
    BY <1>3, Sizes
  <2>2. k.buffer \in [Cells -> 0 .. 127]
    BY RingFields
  <2>3. [k.buffer EXCEPT ![t % Size] = c] \in [Cells -> 0 .. 127]
    BY <2>2, <1>4
  <2> QED BY <2>1, <2>3, <1>5 DEF Ring
<1>8. Unread(n) = u + 1 /\ u + 1 <= TypeAhead
  <2>1. u + 1 < IntRange /\ u + 1 <= TypeAhead
    BY <1>2, <1>3, Sizes
  <2>2. u = (t - h) % IntRange
    BY <1>2 DEF Unread
  <2> QED BY <1>3, <1>6, <2>1, <2>2, Counters DEF Unread
<1>9. u \in Cells /\ u \in 0 .. Size
  BY <1>2, <1>3, Sizes DEF Cells, FitsBuffer
<1>10. t % Size = (h + u) % Size
  <2>1. h + u \in 0 .. 2 * IntRange - 1
    BY <1>3, Sizes
  <2> QED BY <2>1, <1>3, CellOfCounter
<1>11. ASSUME NEW j \in Cells
       PROVE  Cell(n, j) = IF j = u THEN c ELSE Cell(k, j)
  <2>1. h \in Nat /\ k.buffer \in [Cells -> 0 .. 127]
    BY <1>3, RingFields
  <2>2. (h + j) % Size \in Cells
    BY <2>1, <1>9, CellsDiffer
  <2>3. (h + j) % Size = (h + u) % Size <=> j = u
    <3>1. u # Size
      BY <1>9, Sizes DEF Cells
    <3> QED BY <2>1, <1>9, <3>1, CellsDiffer
  <2> QED BY <1>2, <1>6, <1>10, <2>1, <2>2, <2>3 DEF Cell
<1>12. InOrder(n)
  <2>1. ASSUME NEW j \in Cells
        PROVE  IF j < u + 1 THEN Cell(n, j) \in KeyChars ELSE Cell(n, j) = 0
    <3>1. j \in Int /\ (j < u + 1 <=> j < u \/ j = u)
      BY <1>3, Sizes DEF Cells
    <3>2. IF j < u THEN Cell(k, j) \in KeyChars ELSE Cell(k, j) = 0
      BY <1>2 DEF InOrder
    <3> QED BY <3>1, <3>2, <1>3, <1>11
  <2> QED BY <2>1, <1>8 DEF InOrder
<1>13. Contents(n) = Append(Contents(k), c)
  <2>1. Contents(k) \in Seq(KeyChars) /\ Len(Contents(k)) = u
    BY <1>2, ContentsAreKeys
  <2>2. Contents(n) \in Seq(KeyChars) /\ Len(Contents(n)) = u + 1
    BY <1>7, <1>8, <1>12, ContentsAreKeys
  <2>3. ASSUME NEW i \in 1 .. u + 1
        PROVE  Contents(n)[i] = IF i = u + 1 THEN c ELSE Contents(k)[i]
    <3>1. i - 1 \in Cells /\ (i - 1 = u <=> i = u + 1) /\ (i # u + 1 => i \in 1 .. u)
      BY <1>3, <1>9, Sizes DEF Cells
    <3>2. Contents(n)[i] = Cell(n, i - 1)
      BY <1>7, <1>8, RingFields
    <3>3. i # u + 1 => Contents(k)[i] = Cell(k, i - 1)
      BY <1>2, <3>1, RingFields
    <3> QED BY <3>1, <3>2, <3>3, <1>11
  <2> HIDE DEF Contents
  <2> QED BY <2>1, <2>2, <2>3
<1> QED BY <1>1, <1>7, <1>12, <1>13

\* keyboard_pop removes the first of what the ring holds, and returns it.
LEMMA PopRing ==
  ASSUME FitsBuffer, NEW k \in Ring, InOrder(k)
  PROVE  /\ keyboard_pop(k) \in Ring
         /\ InOrder(keyboard_pop(k))
         /\ HeadChar(k) = IF Contents(k) = <<>> THEN 0 ELSE Head(Contents(k))
         /\ Contents(keyboard_pop(k)) =
              IF Contents(k) = <<>> THEN <<>> ELSE Tail(Contents(k))
<1>1. PICK n : n = keyboard_pop(k)
  OBVIOUS
<1>2. PICK h, t, u : h = k.head /\ t = k.tail /\ u = Unread(k)
  OBVIOUS
<1>3. /\ h \in 0 .. IntRange - 1 /\ t \in 0 .. IntRange - 1
      /\ u \in 0 .. IntRange - 1 /\ u <= Size /\ u <= TypeAhead
  BY <1>2, RingFields, Sizes DEF FitsBuffer, InOrder
<1>4. Contents(k) \in Seq(KeyChars) /\ Len(Contents(k)) = u
  BY <1>2, ContentsAreKeys
<1>5. 0 \in Cells /\ h % Size \in Cells
  BY <1>3, Sizes DEF Cells
<1>6. HeadChar(k) = Cell(k, 0)
  BY RingFields
<1>7. CASE u = 0
  <2>1. HeadChar(k) = 0
    BY <1>2, <1>5, <1>6, <1>7 DEF InOrder
  <2>2. Contents(k) = <<>>
    BY <1>4, <1>7
  <2> QED BY <2>1, <2>2 DEF keyboard_pop
<1>8. CASE u # 0
  <2>1. HeadChar(k) \in KeyChars /\ HeadChar(k) # 0
    BY <1>2, <1>3, <1>5, <1>6, <1>8, CharsAreBytes DEF InOrder
  <2>2. n = [k EXCEPT !.buffer[h % Size] = 0, !.head = (h + 1) % IntRange]
    BY <1>1, <1>2, <2>1 DEF keyboard_pop
  <2>3. /\ n.tail = t /\ n.head = (h + 1) % IntRange
        /\ n.buffer = [k.buffer EXCEPT ![h % Size] = 0]
    BY <1>2, <2>2 DEF Ring
  <2>4. n.head \in 0 .. IntRange - 1 /\ k.buffer \in [Cells -> 0 .. 127]
    BY <2>3, <1>3, Sizes, RingFields
  <2>5. n \in Ring
    <3>1. [k.buffer EXCEPT ![h % Size] = 0] \in [Cells -> 0 .. 127]
      BY <2>4, <1>5
    <3> QED BY <3>1, <2>2, <2>3, <2>4 DEF Ring
  <2>6. Unread(n) = u - 1
    <3>1. u = (t - h) % IntRange
      BY <1>2 DEF Unread
    <3> QED BY <1>3, <1>8, <2>3, <3>1, Counters DEF Unread
  <2>7. ASSUME NEW j \in Cells
        PROVE  Cell(n, j) = IF j + 1 = Size THEN 0 ELSE Cell(k, j + 1)
    <3>1. j \in 0 .. Size /\ j + 1 \in 0 .. Size /\ j + 1 # 0 /\ h \in Nat /\ h + 1 \in Nat
          /\ n.head \in Nat
      BY <1>3, <2>4, Sizes DEF Cells
    <3>2. n.head % Size = (h + 1) % Size
      <4>1. h + 1 \in 0 .. 2 * IntRange - 1
        BY <1>3, Sizes
      <4> QED BY <4>1, <2>3, CellOfCounter
    <3>3. (n.head + j) % Size = ((h + 1) + j) % Size
      BY <3>1, <3>2, CellAfter
    <3>4. (h + 1) + j = h + (j + 1) /\ h + 0 = h
      BY <3>1
    <3>5. /\ (h + 0) % Size = (h + (j + 1)) % Size <=> j + 1 = Size
      BY <3>1, <1>5, CellsDiffer
    <3>6. j + 1 # Size => (h + (j + 1)) % Size \in Cells
      <4>1. j + 1 # Size => j + 1 \in Cells
        BY <3>1, Sizes DEF Cells
      <4> QED BY <3>1, <4>1, CellsDiffer
    <3>7. (n.head + j) % Size \in Cells
      BY <3>1, CellsDiffer
    <3> QED BY <1>2, <2>3, <2>4, <3>3, <3>4, <3>5, <3>6, <3>7 DEF Cell
  <2>8. InOrder(n)
    <3>1. ASSUME NEW j \in Cells
          PROVE  IF j < u - 1 THEN Cell(n, j) \in KeyChars ELSE Cell(n, j) = 0
      <4>1. /\ j \in Int /\ (j < u - 1 <=> j + 1 < u)
            /\ j + 1 # Size => j + 1 \in Cells
            /\ j + 1 = Size => ~ (j < u - 1)
        BY <1>3, Sizes DEF Cells
      <4>2. j + 1 # Size =>
              IF j + 1 < u THEN Cell(k, j + 1) \in KeyChars ELSE Cell(k, j + 1) = 0
        BY <1>2, <4>1 DEF InOrder
      <4> QED BY <4>1, <4>2, <2>7
    <3>2. u - 1 <= TypeAhead
      BY <1>3, Sizes
    <3> QED BY <3>1, <3>2, <2>6 DEF InOrder
  <2>9. Contents(n) \in Seq(KeyChars) /\ Len(Contents(n)) = u - 1
    BY <2>5, <2>6, <2>8, ContentsAreKeys
  <2>10. ASSUME NEW i \in 1 .. u - 1
         PROVE  Contents(n)[i] = Contents(k)[i + 1]
    <3>1. /\ i - 1 \in Cells /\ i - 1 + 1 = i /\ i + 1 - 1 = i
          /\ i # Size /\ i + 1 \in 1 .. u /\ i \in Int
      BY <1>3, Sizes DEF Cells
    <3>2. Contents(n)[i] = Cell(n, i - 1)
      BY <2>5, <2>6, RingFields
    <3>3. Contents(k)[i + 1] = Cell(k, i)
      <4>1. Contents(k)[i + 1] = Cell(k, i + 1 - 1)
        BY <1>2, <3>1, RingFields
      <4> QED BY <3>1, <4>1
    <3>4. Cell(n, i - 1) = Cell(k, i - 1 + 1)
      <4>1. i - 1 + 1 # Size
        BY <3>1
      <4> QED BY <4>1, <3>1, <2>7
    <3> QED BY <3>1, <3>2, <3>3, <3>4
  <2>11. Contents(k) # <<>> /\ Head(Contents(k)) = HeadChar(k)
    <3>1. Contents(k) # <<>> /\ 1 \in 1 .. u
      BY <1>3, <1>4, <1>8
    <3>2. Contents(k)[1] = Cell(k, 1 - 1)
      BY <3>1, <1>2, RingFields
    <3> QED BY <3>1, <3>2, <1>4, <1>6
  <2>12. Contents(n) = Tail(Contents(k))
    <3> HIDE DEF Contents
    <3>1. Tail(Contents(k)) \in Seq(KeyChars) /\ Len(Tail(Contents(k))) = u - 1
      BY <1>4, <2>11
    <3>2. \A i \in 1 .. u - 1 : Tail(Contents(k))[i] = Contents(k)[i + 1]
      BY <1>4, <2>11
    <3> QED BY <3>1, <3>2, <2>9, <2>10
  <2> QED BY <1>1, <2>5, <2>8, <2>11, <2>12
<1> QED BY <1>7, <1>8

-----------------------------------------------------------------------------
(* Types                                                                   *)

\* Both operations of the ring keep its type, full or not.
LEMMA RingTyped ==
  ASSUME NEW k \in Ring, NEW c \in KeyChars \cup {0}
  PROVE  /\ keyboard_push(k, c) \in Ring
         /\ keyboard_pop(k) \in Ring
         /\ HeadChar(k) \in 0 .. 127
<1>1. k.head \in 0 .. IntRange - 1 /\ k.tail \in 0 .. IntRange - 1
      /\ k.buffer \in [Cells -> 0 .. 127]
  BY DEF Ring
<1>2. /\ k.tail % Size \in Cells /\ k.head % Size \in Cells
      /\ (k.tail + 1) % IntRange \in 0 .. IntRange - 1
      /\ (k.head + 1) % IntRange \in 0 .. IntRange - 1
  BY <1>1, Sizes DEF Cells
<1>3. c \in 0 .. 127
  BY CharsAreBytes
<1>4. keyboard_push(k, c) \in Ring
  BY <1>1, <1>2, <1>3 DEF Ring, keyboard_push, keyboard_get_tail_index
<1>5. keyboard_pop(k) \in Ring
  <2>1. [k.buffer EXCEPT ![k.head % Size] = 0] \in [Cells -> 0 .. 127]
    BY <1>1, <1>2
  <2>2. CASE HeadChar(k) # 0
    <3>1. keyboard_pop(k) = [k EXCEPT !.buffer[k.head % Size] = 0,
                                      !.head = (@ + 1) % IntRange]
      BY <2>2 DEF keyboard_pop
    <3> QED BY <3>1, <2>1, <1>2 DEF Ring
  <2> QED BY <2>2 DEF keyboard_pop
<1> QED BY <1>1, <1>2, <1>4, <1>5 DEF HeadChar

\* process_get_free_slot finds a slot that is free.
LEMMA FirstSlot ==
  ASSUME NEW S, S \subseteq Slot, S # {}
  PROVE  Min(S) \in S
<1>1. S \subseteq Nat
  BY Sizes DEF Slot
<1> QED BY <1>1, LeastNat

\* The types hold at the start.
LEMMA TypeInit == Init => TypeOK
<1> SUFFICES ASSUME Init PROVE TypeOK
  OBVIOUS
<1>1. Empty \in Ring
  BY Sizes DEF Empty, Ring
<1>2. 0 \in Slot /\ 1 \in Slot
  BY Sizes DEF Slot
<1>3. keyboard \in [Slot -> Ring]
  BY <1>1 DEF Init
<1>4. key \in [slot : Slot \cup {-1}, char : 0 .. 127]
  BY DEF Init, None
<1> QED BY <1>2, <1>3, <1>4 DEF Init, TypeOK, Ring

\* TypeOK is inductive.
LEMMA TypeNext == TypeOK /\ [Next]_vars => TypeOK'
<1> SUFFICES ASSUME TypeOK, [Next]_vars PROVE TypeOK'
  OBVIOUS
<1>1. ASSUME NEW scancode \in Byte, classic_keyboard_handle_interrupt(scancode)
      PROVE  TypeOK'
  <2>1. CASE Released(scancode)
    BY <1>1, <2>1 DEF classic_keyboard_handle_interrupt, Released, TypeOK
  <2>2. CASE Capslock(scancode)
    BY <1>1, <2>2 DEF classic_keyboard_handle_interrupt, Capslock, TypeOK
  <2>3. CASE Pressed(scancode)
    <3>1. PICK c \in KeyChars \cup {0} :
            keyboard' = [keyboard EXCEPT ![focus] = keyboard_push(@, c)]
      BY <2>3, CharsOfKeys DEF Pressed
    <3>2. keyboard \in [Slot -> Ring] /\ keyboard' \in [Slot -> Ring]
      BY <3>1, RingTyped DEF TypeOK, Ring
    <3> QED BY <1>1, <2>3, <3>2
      DEF classic_keyboard_handle_interrupt, Pressed, TypeOK, Ring
  <2> QED BY <1>1, <2>1, <2>2, <2>3 DEF classic_keyboard_handle_interrupt
<1>2. ASSUME NEW p \in Slot, isr80h_command3_getkey(p) PROVE TypeOK'
  <2>1. keyboard \in [Slot -> Ring]
    BY DEF TypeOK, Ring
  <2>2. keyboard[p] \in Ring
    BY <2>1
  <2>3. keyboard_pop(keyboard[p]) \in Ring /\ HeadChar(keyboard[p]) \in 0 .. 127
    BY <2>2, RingTyped
  <2>4. keyboard' \in [Slot -> Ring]
    BY <1>2, <2>1, <2>3 DEF isr80h_command3_getkey
  <2> QED BY <1>2, <2>3, <2>4 DEF isr80h_command3_getkey, TypeOK, Ring
<1>3. ASSUME NEW p \in Slot, task_next(p) PROVE TypeOK'
  BY <1>3 DEF task_next, TypeOK
<1>4. ASSUME NEW p \in Slot, process_load_switch(p) PROVE TypeOK'
  <2>1. Empty \in Ring
    BY Sizes DEF Empty, Ring
  <2>2. keyboard \in [Slot -> Ring] /\ keyboard' \in [Slot -> Ring]
    BY <1>4, <2>1 DEF TypeOK, Ring, process_load_switch
  <2> QED BY <1>4, <2>2 DEF process_load_switch, TypeOK, Ring
<1>5. ASSUME process_terminate PROVE TypeOK'
  <2>1. alive' \subseteq Slot /\ (alive' # {} => Min(alive') \in alive')
    BY <1>5, FirstSlot DEF process_terminate, TypeOK
  <2> QED BY <1>5, <2>1 DEF process_terminate, process_unlink, TypeOK
<1>6. CASE UNCHANGED vars
  BY <1>6 DEF vars, TypeOK
<1> QED BY <1>1, <1>2, <1>3, <1>4, <1>5, <1>6 DEF Next

\* The counters and the characters stay in range whatever is typed, and the
\* focus and the CPU are with processes that exist: isr80h_command3_getkey and
\* the interrupt handler dereference both.
THEOREM TypeCorrect == Spec => []TypeOK
<1> QED BY TypeInit, TypeNext, PTL DEF Spec

-----------------------------------------------------------------------------
(* The ring buffers are queues                                             *)

\* The queues of a table of ring buffers.
QueuesOf(K) == [p \in Slot |-> Contents(K[p])]

Ordered(K) == K \in [Slot -> Ring] /\ \A p \in Slot : InOrder(K[p])

\* A new ring holds nothing.
LEMMA EmptyRing ==
  ASSUME FitsBuffer
  PROVE  Empty \in Ring /\ InOrder(Empty) /\ Contents(Empty) = <<>>
<1>1. Empty \in Ring
  BY Sizes DEF Empty, Ring
<1>2. Unread(Empty) = 0
  <2>1. 0 \in -IntRange .. 2 * IntRange - 1
    BY Sizes
  <2>2. 0 % IntRange = 0
    BY <2>1, Sizes, NearRange
  <2> QED BY <2>2 DEF Unread, Empty
<1>3. InOrder(Empty)
  <2>1. ASSUME NEW j \in Cells PROVE Cell(Empty, j) = 0 /\ ~ (j < 0)
    <3>1. (0 + j) % Size \in Cells /\ ~ (j < 0)
      BY Sizes DEF Cells
    <3> QED BY <3>1 DEF Cell, Empty
  <2> QED BY <1>2, <2>1, Sizes DEF InOrder
<1>4. Contents(Empty) = <<>>
  <2>1. Contents(Empty) \in Seq(KeyChars) /\ Len(Contents(Empty)) = 0
    BY <1>1, <1>2, <1>3, ContentsAreKeys
  <2> QED BY <2>1
<1> QED BY <1>1, <1>3, <1>4

\* One ring changes, and its queue.
LEMMA OneRing ==
  ASSUME NEW K, Ordered(K), NEW p \in Slot, NEW n \in Ring, InOrder(n)
  PROVE  /\ Ordered([K EXCEPT ![p] = n])
         /\ QueuesOf([K EXCEPT ![p] = n]) = [QueuesOf(K) EXCEPT ![p] = Contents(n)]
         /\ QueuesOf(K)[p] = Contents(K[p])
         /\ K[p] \in Ring /\ InOrder(K[p])
<1> PICK J : J = [K EXCEPT ![p] = n]
  OBVIOUS
<1>1. J \in [Slot -> Ring] /\ \A q \in Slot : J[q] = IF q = p THEN n ELSE K[q]
  BY DEF Ordered
<1>2. Ordered(J)
  BY <1>1 DEF Ordered
<1>3. QueuesOf(J) = [QueuesOf(K) EXCEPT ![p] = Contents(n)]
  BY <1>1 DEF QueuesOf
<1> QED BY <1>2, <1>3 DEF QueuesOf, Ordered

\* The strengthening of the type that the refinement needs: the cells outside
\* the unread ones hold zeros.
RingsInv == TypeOK /\ Ordered(keyboard)

\* At the start the rings are empty queues.
LEMMA RingsInit == ASSUME FitsBuffer PROVE Init => RingsInv /\ Queues!Init
<1> SUFFICES ASSUME Init PROVE RingsInv /\ Queues!Init
  OBVIOUS
<1>1. Ordered(keyboard)
  BY EmptyRing DEF Init, Ordered
<1>2. [p \in Slot |-> Contents(keyboard[p])] = [p \in Slot |-> <<>>]
  BY EmptyRing DEF Init
<1> QED BY <1>1, <1>2, TypeInit DEF Init, RingsInv, Queues!Init, None, Queues!None

\* A key is typed into the queue of the focus, or it is no character.
LEMMA PressedIsTyped ==
  ASSUME FitsBuffer, RingsInv, NEW scancode \in Byte, runner \in alive,
         Pressed(scancode), UNCHANGED <<alive, focus, runner, key>>
  PROVE  /\ Ordered(keyboard')
         /\ Queues!Next \/ keyboard' = keyboard
<1>1. PICK c \in KeyChars \cup {0} :
        keyboard' = [keyboard EXCEPT ![focus] = keyboard_push(@, c)]
  BY CharsOfKeys DEF Pressed
<1>2. /\ Ordered(keyboard) /\ focus \in Slot
      /\ keyboard[focus] \in Ring /\ InOrder(keyboard[focus])
  BY DEF RingsInv, TypeOK, Ordered
<1>3. CASE c = 0
  <2>1. keyboard' = keyboard
    BY <1>1, <1>2, <1>3 DEF keyboard_push, Ordered
  <2> QED BY <2>1, <1>2
<1>4. CASE c # 0
  <2>1. PICK n : n = keyboard_push(keyboard[focus], c)
    OBVIOUS
  <2>2. n \in Ring /\ InOrder(n) /\ Contents(n) = Append(Contents(keyboard[focus]), c)
    BY <1>2, <1>4, <2>1, PushRing DEF Pressed
  <2>3. keyboard' = [keyboard EXCEPT ![focus] = n]
    BY <1>1, <2>1
  <2>4. /\ Ordered(keyboard')
        /\ QueuesOf(keyboard') = [QueuesOf(keyboard) EXCEPT ![focus] = Contents(n)]
        /\ QueuesOf(keyboard)[focus] = Contents(keyboard[focus])
    BY <1>2, <2>2, <2>3, OneRing
  <2>5. Queues!Type(c)
    BY <2>2, <2>4 DEF QueuesOf, Queues!Type
  <2> QED BY <1>4, <2>4, <2>5 DEF Queues!Next
<1> QED BY <1>3, <1>4

\* getkey reads from the queue of the process that calls it.
LEMMA GetkeyReads ==
  ASSUME FitsBuffer, RingsInv, NEW p \in Slot, isr80h_command3_getkey(p)
  PROVE  Ordered(keyboard') /\ Queues!Next
<1>1. Ordered(keyboard) /\ keyboard[p] \in Ring /\ InOrder(keyboard[p])
  BY DEF RingsInv, Ordered
<1>2. PICK n, q : n = keyboard_pop(keyboard[p]) /\ q = Contents(keyboard[p])
  OBVIOUS
<1>3. /\ n \in Ring /\ InOrder(n)
      /\ HeadChar(keyboard[p]) = IF q = <<>> THEN 0 ELSE Head(q)
      /\ Contents(n) = IF q = <<>> THEN <<>> ELSE Tail(q)
  BY <1>1, <1>2, PopRing
<1>4. keyboard' = [keyboard EXCEPT ![p] = n]
  BY <1>2 DEF isr80h_command3_getkey
<1>5. /\ Ordered(keyboard')
      /\ QueuesOf(keyboard') = [QueuesOf(keyboard) EXCEPT ![p] = Contents(n)]
      /\ QueuesOf(keyboard)[p] = q
  <2>1. /\ Ordered([keyboard EXCEPT ![p] = n])
        /\ QueuesOf([keyboard EXCEPT ![p] = n])
             = [QueuesOf(keyboard) EXCEPT ![p] = Contents(n)]
        /\ QueuesOf(keyboard)[p] = Contents(keyboard[p])
    BY <1>1, <1>3, OneRing
  <2> QED BY <2>1, <1>2, <1>4
<1>6. Queues!Read
  BY <1>3, <1>5 DEF QueuesOf, Queues!Read, isr80h_command3_getkey
<1> QED BY <1>5, <1>6 DEF Queues!Next, isr80h_command3_getkey

\* A program that is loaded starts with an empty queue.
LEMMA LoadStarts ==
  ASSUME FitsBuffer, RingsInv, NEW p \in Slot, process_load_switch(p)
  PROVE  Ordered(keyboard') /\ Queues!Next
<1>1. Ordered(keyboard) /\ Empty \in Ring /\ InOrder(Empty) /\ Contents(Empty) = <<>>
  BY EmptyRing DEF RingsInv
<1>2. keyboard' = [keyboard EXCEPT ![p] = Empty]
  BY DEF process_load_switch
<1>3. /\ Ordered(keyboard')
      /\ QueuesOf(keyboard') = [QueuesOf(keyboard) EXCEPT ![p] = <<>>]
  <2>1. /\ Ordered([keyboard EXCEPT ![p] = Empty])
        /\ QueuesOf([keyboard EXCEPT ![p] = Empty])
             = [QueuesOf(keyboard) EXCEPT ![p] = Contents(Empty)]
    BY <1>1, OneRing
  <2> QED BY <2>1, <1>1, <1>2
<1>4. p \notin alive
  <2>1. Slot \ alive # {}
    BY DEF process_load_switch, RingsInv, TypeOK
  <2> QED BY <2>1, FirstSlot DEF process_load_switch
<1>5. Queues!Start(p)
  BY <1>3, <1>4 DEF QueuesOf, Queues!Start, process_load_switch
<1> QED BY <1>3, <1>5 DEF Queues!Next, process_load_switch

\* Every step keeps the rings in order and is a step of the queues.
LEMMA RingsNext ==
  ASSUME FitsBuffer
  PROVE  RingsInv /\ [Next]_vars => RingsInv' /\ [Queues!Next]_Queues!vars
<1> SUFFICES ASSUME RingsInv, [Next]_vars
             PROVE  Ordered(keyboard') /\ [Queues!Next]_Queues!vars
  BY TypeNext DEF RingsInv
<1>1. ASSUME NEW scancode \in Byte, classic_keyboard_handle_interrupt(scancode)
      PROVE  Ordered(keyboard') /\ [Queues!Next]_Queues!vars
  <2>1. CASE keyboard' = keyboard
    BY <1>1, <2>1 DEF classic_keyboard_handle_interrupt, RingsInv, Queues!vars
  <2>2. CASE Pressed(scancode) /\ keyboard' # keyboard
    BY <1>1, <2>2, PressedIsTyped DEF classic_keyboard_handle_interrupt
  <2> QED BY <1>1, <2>1, <2>2
    DEF classic_keyboard_handle_interrupt, Released, Capslock
<1>2. ASSUME NEW p \in Slot, isr80h_command3_getkey(p)
      PROVE  Ordered(keyboard') /\ [Queues!Next]_Queues!vars
  BY <1>2, GetkeyReads
<1>3. ASSUME NEW p \in Slot, task_next(p)
      PROVE  Ordered(keyboard') /\ [Queues!Next]_Queues!vars
  <2>1. Queues!Run(p)
    BY <1>3 DEF task_next, Queues!Run
  <2> QED BY <1>3, <2>1 DEF task_next, RingsInv, Queues!Next
<1>4. ASSUME NEW p \in Slot, process_load_switch(p)
      PROVE  Ordered(keyboard') /\ [Queues!Next]_Queues!vars
  BY <1>4, LoadStarts
<1>5. ASSUME process_terminate
      PROVE  Ordered(keyboard') /\ [Queues!Next]_Queues!vars
  <2>1. Queues!End
    <3>1. /\ alive' = alive \ {runner} /\ keyboard' = keyboard /\ key' = key
          /\ focus' = IF focus = runner /\ alive' # {} THEN Min(alive') ELSE focus
          /\ runner' \in IF alive' = {} THEN {runner} ELSE alive'
      BY <1>5 DEF process_terminate, process_unlink
    <3> QED BY <3>1 DEF Queues!End, Queues!Min, Min
  <2> QED BY <1>5, <2>1 DEF process_terminate, RingsInv, Queues!Next
<1>6. CASE UNCHANGED vars
  BY <1>6 DEF vars, RingsInv, Queues!vars
<1> QED BY <1>1, <1>2, <1>3, <1>4, <1>5, <1>6 DEF Next

\* As long as nobody types further ahead than the buffer has room, the ring
\* buffers of keyboard_push and keyboard_pop are first-in first-out queues, one
\* for each process, whatever their size and however often the counters have
\* wrapped around.
THEOREM RingsAreQueues == ASSUME FitsBuffer PROVE Spec => ImplementsKeyQueue
<1> QED BY RingsInit, RingsNext, PTL DEF Spec, ImplementsKeyQueue, Queues!Spec

=============================================================================
