------------------------------ MODULE FileProofs ------------------------------
(***************************************************************************)
(* Theorems about the file layer: what a read returns, what a descriptor    *)
(* holds, and what a path opens.                                            *)
(***************************************************************************)
EXTENDS File, Lemmas, SequenceTheorems

-----------------------------------------------------------------------------
(* Reading across sectors                                                  *)

\* The bytes of the disk from a position on.
Bytes(pos, total) == [i \in 1 .. total |-> pos + i - 1]

\* They are a sequence of that length, each at its own position.
LEMMA BytesType ==
  ASSUME NEW pos \in Int, NEW total \in Nat
  PROVE  /\ Bytes(pos, total) \in Seq(Int) /\ Len(Bytes(pos, total)) = total
         /\ \A i \in 1 .. total : Bytes(pos, total)[i] = pos + i - 1
BY DEF Bytes

\* Bytes that follow each other on the disk follow each other.
LEMMA BytesJoin ==
  ASSUME NEW pos \in Int, NEW m \in Nat, NEW n \in Nat
  PROVE  Bytes(pos, m) \o Bytes(pos + m, n) = Bytes(pos, m + n)
<1>1. PICK p, k, s, t, u : /\ p = pos + m /\ k = m + n
                           /\ s = Bytes(pos, m) /\ t = Bytes(p, n) /\ u = Bytes(pos, k)
  OBVIOUS
<1>2. /\ s \in Seq(Int) /\ Len(s) = m /\ \A i \in 1 .. m : s[i] = pos + i - 1
      /\ t \in Seq(Int) /\ Len(t) = n /\ \A i \in 1 .. n : t[i] = p + i - 1
      /\ u \in Seq(Int) /\ Len(u) = k /\ \A i \in 1 .. k : u[i] = pos + i - 1
  <2>1. p \in Int /\ k \in Nat
    BY <1>1
  <2> QED BY <2>1, <1>1, BytesType
<1>3. PICK w : w = s \o t
  OBVIOUS
<1>4. /\ w \in Seq(Int) /\ Len(w) = k
      /\ \A i \in 1 .. k : w[i] = IF i <= m THEN s[i] ELSE t[i - m]
  <2>1. /\ w \in Seq(Int) /\ Len(w) = Len(s) + Len(t)
        /\ \A i \in 1 .. Len(s) + Len(t) : w[i] = IF i <= Len(s) THEN s[i] ELSE t[i - Len(s)]
    BY <1>2, <1>3, ConcatProperties
  <2> QED BY <2>1, <1>1, <1>2
<1>5. ASSUME NEW i \in 1 .. k PROVE w[i] = u[i]
  <2>1. CASE i <= m
    BY <2>1, <1>1, <1>2, <1>4
  <2>2. CASE ~ (i <= m)
    <3>1. i - m \in 1 .. n /\ p + (i - m) - 1 = pos + i - 1
      BY <2>2, <1>1
    <3> QED BY <2>2, <3>1, <1>2, <1>4
  <2> QED BY <2>1, <2>2
<1>6. w = u
  BY <1>2, <1>4, <1>5, SeqEqual
<1> QED BY <1>1, <1>3, <1>6

\* A function that does what diskstreamer_read does.
ToSectorEnd(pos, total) ==
  IF (pos % SectorSize) + total >= SectorSize THEN SectorSize - (pos % SectorSize) ELSE total

Streams(f) ==
  f = [total \in Nat |->
        [pos \in Int |->
           LET offset      == pos % SectorSize
               overflow    == offset + total >= SectorSize
               totalToRead == IF overflow THEN SectorSize - offset ELSE total
               bytes       == [i \in 1 .. totalToRead |-> pos + i - 1]
           IN  IF overflow
                 THEN bytes \o f[total - totalToRead][pos + totalToRead]
                 ELSE bytes]]

\* A turn stays in a sector, and reads something if it reaches its end.
LEMMA ToSectorEndType ==
  ASSUME NEW pos \in Int, NEW total \in Nat
  PROVE  /\ pos % SectorSize \in 0 .. SectorSize - 1 /\ SectorSize \in Nat \ {0}
         /\ ToSectorEnd(pos, total) \in 0 .. total
         /\ (pos % SectorSize) + total >= SectorSize => ToSectorEnd(pos, total) > 0
         /\ pos + ToSectorEnd(pos, total) \in Int /\ total - ToSectorEnd(pos, total) \in Nat
<1>1. SectorSize \in Nat \ {0}
  BY LayoutAssumption
<1>2. PICK r : r = pos % SectorSize
  OBVIOUS
<1>3. r \in 0 .. SectorSize - 1
  BY <1>1, <1>2
<1> QED BY <1>1, <1>2, <1>3 DEF ToSectorEnd

\* What one turn of diskstreamer_read returns, if f returns the rest.
StreamTurn(f, total, pos) ==
  IF (pos % SectorSize) + total >= SectorSize
    THEN Bytes(pos, ToSectorEnd(pos, total))
           \o f[total - ToSectorEnd(pos, total)][pos + ToSectorEnd(pos, total)]
    ELSE Bytes(pos, ToSectorEnd(pos, total))

\* What diskstreamer_read satisfies, turn by turn.
LEMMA StreamTurns ==
  ASSUME NEW f
  PROVE  Streams(f) <=> f = [total \in Nat |-> [pos \in Int |-> StreamTurn(f, total, pos)]]
BY DEF Streams, StreamTurn, Bytes, ToSectorEnd

\* With the rest in order, the turn returns all of it in order.
LEMMA StreamBytes ==
  ASSUME NEW f, NEW pos \in Int, NEW total \in Nat,
         ToSectorEnd(pos, total) # 0 =>
           f[total - ToSectorEnd(pos, total)][pos + ToSectorEnd(pos, total)]
             = Bytes(pos + ToSectorEnd(pos, total), total - ToSectorEnd(pos, total))
  PROVE  StreamTurn(f, total, pos) = Bytes(pos, total)
<1>1. PICK t : t = ToSectorEnd(pos, total)
  OBVIOUS
<1>2. /\ t \in Nat /\ total - t \in Nat /\ t + (total - t) = total
      /\ (pos % SectorSize) + total >= SectorSize => t # 0
  <2>1. /\ t \in 0 .. total
        /\ (pos % SectorSize) + total >= SectorSize => t > 0
    BY <1>1, ToSectorEndType
  <2> QED BY <2>1
<1>3. Bytes(pos, t) \o Bytes(pos + t, total - t) = Bytes(pos, total)
  BY <1>2, BytesJoin
<1>4. ~ ((pos % SectorSize) + total >= SectorSize) => t = total
  BY <1>1 DEF ToSectorEnd
<1> QED BY <1>1, <1>2, <1>3, <1>4 DEF StreamTurn

\* The recursion of diskstreamer_read defines a function.
LEMMA StreamExists == \E f : Streams(f)
<1>1. PICK f : f = [total \in Nat |-> [pos \in Int |-> Bytes(pos, total)]]
  OBVIOUS
<1>2. ASSUME NEW pos \in Int, NEW total \in Nat
      PROVE  StreamTurn(f, total, pos) = Bytes(pos, total)
  <2>1. PICK t : t = ToSectorEnd(pos, total)
    OBVIOUS
  <2>2. pos + t \in Int /\ total - t \in Nat
    BY <2>1, ToSectorEndType
  <2>3. f[total - t][pos + t] = Bytes(pos + t, total - t)
    BY <2>2, <1>1
  <2> QED BY <2>1, <2>3, StreamBytes
<1>3. f = [total \in Nat |-> [pos \in Int |-> StreamTurn(f, total, pos)]]
  BY <1>1, <1>2
<1> QED BY <1>3, StreamTurns

\* The streamer returns the bytes of the disk from the position on, however many
\* sectors they take and wherever in a sector they begin and end.
LEMMA StreamReads ==
  ASSUME NEW total \in Nat, NEW pos \in Int
  PROVE  diskstreamer_read[total][pos] = Bytes(pos, total)
<1>1. PICK f : f = diskstreamer_read
  OBVIOUS
<1>2. Streams(f)
  BY <1>1, StreamExists DEF Streams, diskstreamer_read
<1>3. \A t \in Nat : \A p \in Int : f[t][p] = StreamTurn(f, t, p)
  BY <1>2, StreamTurns
<1> DEFINE G == {n \in 0 .. total : \A t \in 0 .. n : \A p \in Int : f[t][p] = Bytes(p, t)}
<1>4. ASSUME NEW n \in Nat, NEW p \in Int,
             \A t \in 0 .. n - 1 : \A q \in Int : f[t][q] = Bytes(q, t)
      PROVE  f[n][p] = Bytes(p, n)
  <2>1. PICK t : t = ToSectorEnd(p, n)
    OBVIOUS
  <2>2. p + t \in Int /\ t \in 0 .. n
    BY <2>1, ToSectorEndType
  <2>3. t # 0 => f[n - t][p + t] = Bytes(p + t, n - t)
    <3>1. t # 0 => n - t \in 0 .. n - 1
      BY <2>2
    <3> QED BY <3>1, <2>2, <1>4
  <2>4. StreamTurn(f, n, p) = Bytes(p, n)
    BY <2>1, <2>3, StreamBytes
  <2> QED BY <2>4, <1>3
<1>5. 0 \in G
  <2>1. \A t \in 0 .. 0 : t = 0 /\ t \in Nat
    OBVIOUS
  <2>2. 0 .. 0 - 1 = {}
    OBVIOUS
  <2>3. \A p \in Int : f[0][p] = Bytes(p, 0)
    BY <2>2, <1>4
  <2> QED BY <2>1, <2>3
<1>6. ASSUME NEW n \in 0 .. total, n \in G, n < total
      PROVE  n + 1 \in G
  <2>1. \A t \in 0 .. (n + 1) - 1 : \A q \in Int : f[t][q] = Bytes(q, t)
    BY <1>6
  <2>2. n + 1 \in Nat
    OBVIOUS
  <2>3. \A p \in Int : f[n + 1][p] = Bytes(p, n + 1)
    BY <2>1, <2>2, <1>4
  <2>4. \A t \in 0 .. n + 1 : t \in 0 .. (n + 1) - 1 \/ t = n + 1
    OBVIOUS
  <2>5. n + 1 \in 0 .. total
    BY <1>6
  <2> QED BY <2>1, <2>3, <2>4, <2>5
<1>7. 0 .. total \subseteq G
  <2> HIDE DEF G
  <2> QED BY <1>5, <1>6, SetInduction
<1>8. total \in G /\ total \in 0 .. total
  BY <1>7
<1> QED BY <1>1, <1>8

-----------------------------------------------------------------------------
(* Reading across clusters                                                 *)

\* A function that iterates s from a on exists.
Iterates(g, m, a, s) == g = [n \in 0 .. m |-> IF n = 0 THEN a ELSE s[g[n - 1]]]

LEMMA IterationExists ==
  ASSUME NEW m \in Nat, NEW a, NEW s
  PROVE  \E g : Iterates(g, m, a, s)
<1> DEFINE G == {l \in 0 .. m : \E g : Iterates(g, l, a, s)}
<1>1. 0 \in G
  <2>1. PICK g : g = [n \in 0 .. 0 |-> a]
    OBVIOUS
  <2>2. \A n \in 0 .. 0 : n = 0
    OBVIOUS
  <2>3. Iterates(g, 0, a, s)
    BY <2>1, <2>2 DEF Iterates
  <2> QED BY <2>3
<1>2. ASSUME NEW l \in 0 .. m, l \in G, l < m
      PROVE  l + 1 \in G
  <2>1. PICK g : Iterates(g, l, a, s)
    BY <1>2
  <2>2. PICK h : h = [n \in 0 .. l + 1 |-> IF n <= l THEN g[n] ELSE s[g[l]]]
    OBVIOUS
  <2>3. ASSUME NEW n \in 0 .. l + 1
        PROVE  h[n] = IF n = 0 THEN a ELSE s[h[n - 1]]
    <3>1. CASE n <= l
      <4>1. n \in 0 .. l /\ (n # 0 => n - 1 \in 0 .. l /\ n - 1 \in 0 .. l + 1 /\ n - 1 <= l)
        BY <3>1
      <4>2. g[n] = IF n = 0 THEN a ELSE s[g[n - 1]]
        BY <4>1, <2>1 DEF Iterates
      <4> QED BY <4>1, <4>2, <2>2, <3>1
    <3>2. CASE n = l + 1
      <4>1. l \in 0 .. l + 1 /\ l <= l /\ n - 1 = l /\ ~ (n <= l) /\ n # 0
        BY <3>2
      <4> QED BY <4>1, <3>2, <2>2
    <3> QED BY <3>1, <3>2
  <2>4. Iterates(h, l + 1, a, s)
    <3>1. h = [n \in 0 .. l + 1 |-> h[n]]
      BY <2>2
    <3> HIDE <2>2
    <3> QED BY <3>1, <2>3 DEF Iterates
  <2>5. l + 1 \in 0 .. m
    BY <1>2
  <2> QED BY <2>4, <2>5
<1>3. 0 .. m \subseteq G
  <2> HIDE DEF G
  <2> QED BY <1>1, <1>2, SetInduction
<1>4. m \in G
  BY <1>3
<1> QED BY <1>4

\* The constants of the layout.
LEMMA Layout ==
  /\ SectorSize \in Nat \ {0} /\ SectorsPerCluster \in Nat \ {0}
  /\ ClusterSize \in Nat \ {0} /\ ClusterSize = SectorsPerCluster * SectorSize
  /\ EndingSector \in Int /\ FatPosition \in Nat
<1>1. PICK s, c : s = SectorSize /\ c = SectorsPerCluster
  OBVIOUS
<1>2. s \in Nat \ {0} /\ c \in Nat \ {0}
  BY <1>1, LayoutAssumption
<1>3. c * s \in Nat \ {0}
  BY <1>2
<1>4. EndingSector \in Int /\ FatPosition \in Nat
  BY LayoutAssumption DEF EndingSector, RootSector, FatPosition
<1> QED BY <1>1, <1>2, <1>3, <1>4 DEF ClusterSize

\* A word of the table or elsewhere is a number, so is a cluster or an error.
LEMMA NextType ==
  ASSUME NEW cluster
  PROVE  NextCluster(cluster) \in Int
<1>1. PICK pos : pos = FatPosition * (cluster * 2)
  OBVIOUS
<1>2. PICK n : n = (pos - FatPosition) \div 2
  OBVIOUS
<1>3. n \in DOMAIN Fat => Fat[n] \in Int
  BY FatAssumption
<1>4. Stray \in Int
  BY FatAssumption
<1>5. Word(pos) = Stray \/ (n \in DOMAIN Fat /\ Word(pos) = Fat[n])
  BY <1>2 DEF Word
<1>6. Word(pos) \in Int
  BY <1>3, <1>4, <1>5
<1> QED BY <1>1, <1>6 DEF NextCluster, fat16_get_fat_entry, EIO

ClusterTurn(g, start, n) ==
  IF n = 0 THEN start
  ELSE IF g[n - 1] < 0 THEN g[n - 1]
  ELSE NextCluster(g[n - 1])

Clusters(g, start, m) == g = [n \in 0 .. m |-> ClusterTurn(g, start, n)]

\* The walk along a chain defines a function, whatever words it meets.
LEMMA ClustersExist ==
  ASSUME NEW start \in Int, NEW m \in Nat
  PROVE  \E g : Clusters(g, start, m)
<1>0. PICK s : s = [c \in Int |-> IF c < 0 THEN c ELSE NextCluster(c)]
  OBVIOUS
<1>1. PICK g : g = [n \in 0 .. m |-> IF n = 0 THEN start ELSE s[g[n - 1]]]
  <2>1. PICK g : Iterates(g, m, start, s)
    BY IterationExists
  <2> QED BY <2>1 DEF Iterates
<1> DEFINE G == {n \in 0 .. m : g[n] \in Int}
<1>2. \A c \in Int : s[c] \in Int /\ s[c] = IF c < 0 THEN c ELSE NextCluster(c)
  BY <1>0, NextType
<1>3. 0 \in G
  BY <1>1
<1>4. ASSUME NEW n \in 0 .. m, n \in G, n < m PROVE n + 1 \in G
  <2>1. n + 1 \in 0 .. m /\ n + 1 # 0 /\ (n + 1) - 1 = n
    BY <1>4
  <2>2. g[n + 1] = s[g[n]]
    BY <1>1, <2>1
  <2> QED BY <2>1, <2>2, <1>2, <1>4
<1>5. 0 .. m \subseteq G
  <2> HIDE DEF G
  <2> QED BY <1>3, <1>4, SetInduction
<1>6. ASSUME NEW n \in 0 .. m
      PROVE  (IF n = 0 THEN start ELSE s[g[n - 1]]) = ClusterTurn(g, start, n)
  <2>1. CASE n = 0
    BY <2>1 DEF ClusterTurn
  <2>2. CASE n # 0
    <3>1. n - 1 \in 0 .. m
      BY <2>2
    <3>2. g[n - 1] \in Int
      BY <3>1, <1>5
    <3> QED BY <2>2, <3>2, <1>2 DEF ClusterTurn
  <2> QED BY <2>1, <2>2
<1>7. g = [n \in 0 .. m |-> ClusterTurn(g, start, n)]
  BY <1>1, <1>6
<1> QED BY <1>7 DEF Clusters

\* The cluster of an offset is a number; within the first cluster it is the
\* one the item starts with.
LEMMA ClusterAt ==
  ASSUME NEW start \in Int, NEW offset \in Nat
  PROVE  /\ fat16_get_cluster_for_offset(start, offset) \in Int
         /\ offset < ClusterSize => fat16_get_cluster_for_offset(start, offset) = start
<1>1. PICK m : m = offset \div ClusterSize
  OBVIOUS
<1>2. m \in Nat /\ (offset < ClusterSize => m = 0)
  <2>1. PICK d : d = ClusterSize
    OBVIOUS
  <2>2. d \in Nat \ {0}
    BY <2>1, Layout
  <2> QED BY <1>1, <2>1, <2>2
<1>3. PICK g : /\ Clusters(g, start, m)
               /\ fat16_get_cluster_for_offset(start, offset) = g[m]
  <2>1. \E g : Clusters(g, start, m)
    BY <1>2, ClustersExist
  <2> QED BY <2>1, <1>1 DEF fat16_get_cluster_for_offset, Clusters, ClusterTurn
<1>4. \A n \in 0 .. m : g[n] = ClusterTurn(g, start, n)
  BY <1>3 DEF Clusters
<1> DEFINE G == {n \in 0 .. m : g[n] \in Int}
<1>5. 0 \in G /\ g[0] = start
  BY <1>2, <1>4 DEF ClusterTurn
<1>6. ASSUME NEW n \in 0 .. m, n \in G, n < m PROVE n + 1 \in G
  <2>1. n + 1 \in 0 .. m /\ n + 1 # 0 /\ (n + 1) - 1 = n
    BY <1>2, <1>6
  <2>2. g[n + 1] = IF g[n] < 0 THEN g[n] ELSE NextCluster(g[n])
    BY <1>4, <2>1 DEF ClusterTurn
  <2> QED BY <2>1, <2>2, <1>6, NextType
<1>7. 0 .. m \subseteq G
  <2> HIDE DEF G
  <2> QED BY <1>2, <1>5, <1>6, SetInduction
<1>8. m \in G
  BY <1>2, <1>7
<1> QED BY <1>2, <1>3, <1>5, <1>8

\* One turn of fat16_read_internal, if f returns the rest.
ReadTurn(f, start, total, offset) ==
  LET cluster == fat16_get_cluster_for_offset(start, offset)
      n       == Min({total, ClusterSize})
      bytes   == diskstreamer_read[n][StartingPos(cluster, offset)]
      rest    == f[total - n][offset + n]
  IN  IF cluster < 0 THEN [res |-> cluster, bytes |-> <<>>]
      ELSE IF total > n THEN [res |-> rest.res, bytes |-> bytes \o rest.bytes]
      ELSE [res |-> 0, bytes |-> bytes]

Reads(f, start, all) ==
  f = [total \in 0 .. all |-> [offset \in Nat |-> ReadTurn(f, start, total, offset)]]

\* A turn reads up to a cluster, and something if anything is left.
LEMMA TurnSize ==
  ASSUME NEW total \in Nat
  PROVE  /\ Min({total, ClusterSize}) \in Nat /\ total - Min({total, ClusterSize}) \in Nat
         /\ total <= ClusterSize => Min({total, ClusterSize}) = total
         /\ total > Min({total, ClusterSize}) =>
              total - Min({total, ClusterSize}) \in 0 .. total - 1
<1>1. PICK d, m : d = ClusterSize /\ m = Min({total, ClusterSize})
  OBVIOUS
<1>2. d \in Nat \ {0}
  BY <1>1, Layout
<1>3. m \in {total, d} /\ \A k \in {total, d} : m <= k
  <2>1. PICK T : T = {total, d}
    OBVIOUS
  <2>2. T \subseteq Nat /\ T # {} /\ m = Min(T)
    BY <1>1, <1>2, <2>1
  <2>3. m \in T /\ \A k \in T : m <= k
    BY <2>2, LeastNat
  <2> QED BY <2>1, <2>3
<1>4. m \in Nat /\ m <= total /\ m <= d /\ (m = total \/ m = d)
  BY <1>2, <1>3
<1> QED BY <1>1, <1>2, <1>4

\* A turn depends on nothing but turns for less.
LEMMA TurnSame ==
  ASSUME NEW f, NEW g, NEW start, NEW total \in Nat, NEW offset \in Nat,
         \A k \in 0 .. total - 1 : f[k] = g[k]
  PROVE  ReadTurn(f, start, total, offset) = ReadTurn(g, start, total, offset)
<1>1. PICK n : n = Min({total, ClusterSize})
  OBVIOUS
<1>2. total > n => f[total - n] = g[total - n]
  BY <1>1, TurnSize
<1> QED BY <1>1, <1>2 DEF ReadTurn

\* Turns for less than l give turns for l.
LEMMA OneTurn ==
  ASSUME NEW start, NEW l \in Nat, NEW g,
         \A k \in 0 .. l - 1 : g[k] = [offset \in Nat |-> ReadTurn(g, start, k, offset)]
  PROVE  \E f : Reads(f, start, l)
<1>1. PICK h : h = [k \in 0 .. l |-> [offset \in Nat |-> ReadTurn(g, start, k, offset)]]
  OBVIOUS
<1>2. \A k \in 0 .. l - 1 : h[k] = g[k]
  <2>1. \A k \in 0 .. l - 1 : k \in 0 .. l
    OBVIOUS
  <2> QED BY <1>1, <2>1
<1>3. ASSUME NEW k \in 0 .. l, NEW offset \in Nat
      PROVE  ReadTurn(g, start, k, offset) = ReadTurn(h, start, k, offset)
  <2>1. \A j \in 0 .. k - 1 : j \in 0 .. l - 1
    OBVIOUS
  <2>2. \A j \in 0 .. k - 1 : g[j] = h[j]
    BY <2>1, <1>2
  <2>3. k \in Nat
    OBVIOUS
  <2> QED BY <2>2, <2>3, TurnSame
<1>4. h = [k \in 0 .. l |-> [offset \in Nat |-> ReadTurn(h, start, k, offset)]]
  <2>1. PICK e : e = [k \in 0 .. l |-> [offset \in Nat |-> ReadTurn(h, start, k, offset)]]
    OBVIOUS
  <2>2. ASSUME NEW k \in 0 .. l PROVE h[k] = e[k]
    <3>1. h[k] = [offset \in Nat |-> ReadTurn(g, start, k, offset)]
      BY <1>1
    <3>2. e[k] = [offset \in Nat |-> ReadTurn(h, start, k, offset)]
      BY <2>1
    <3> QED BY <3>1, <3>2, <1>3
  <2>3. h = [k \in 0 .. l |-> h[k]] /\ e = [k \in 0 .. l |-> e[k]]
    BY <1>1, <2>1
  <2>4. h = e
    BY <2>2, <2>3
  <2> QED BY <2>1, <2>4
<1> QED BY <1>4 DEF Reads

\* The recursion of fat16_read_internal defines a function.
LEMMA ReadsExist ==
  ASSUME NEW start, NEW all \in Nat
  PROVE  \E f : Reads(f, start, all)
<1> DEFINE G == {l \in 0 .. all : \E f : Reads(f, start, l)}
<1>1. 0 \in G
  <2>1. \A g : \A k \in 0 .. 0 - 1 : g[k] = [offset \in Nat |-> ReadTurn(g, start, k, offset)]
    OBVIOUS
  <2>2. \E f : Reads(f, start, 0)
    BY <2>1, OneTurn
  <2> QED BY <2>2
<1>2. ASSUME NEW l \in 0 .. all, l \in G, l < all PROVE l + 1 \in G
  <2>1. PICK g : Reads(g, start, l)
    BY <1>2
  <2>2. \A k \in 0 .. (l + 1) - 1 : k \in 0 .. l
    OBVIOUS
  <2>3. \A k \in 0 .. (l + 1) - 1 : g[k] = [offset \in Nat |-> ReadTurn(g, start, k, offset)]
    BY <2>1, <2>2 DEF Reads
  <2>4. l + 1 \in Nat /\ l + 1 \in 0 .. all
    BY <1>2
  <2>5. \E f : Reads(f, start, l + 1)
    BY <2>3, <2>4, OneTurn
  <2> QED BY <2>4, <2>5
<1>3. 0 .. all \subseteq G
  <2> HIDE DEF G
  <2> QED BY <1>1, <1>2, SetInduction
<1>4. all \in G
  BY <1>3
<1> QED BY <1>4

\* The result of a read is a number; a read that ends in the cluster the item
\* starts with succeeds and returns the bytes from the offset on.
LEMMA InternalReads ==
  ASSUME NEW start \in Int, NEW from \in Nat, NEW all \in Nat
  PROVE  /\ fat16_read_internal(start, from, all).res \in Int
         /\ start >= 0 /\ all > 0 /\ from + all <= ClusterSize =>
              fat16_read_internal(start, from, all) =
                [res |-> 0,
                 bytes |-> Bytes(fat16_cluster_to_sector(start) * SectorSize + from, all)]
<1>1. PICK f : Reads(f, start, all) /\ fat16_read_internal(start, from, all) = f[all][from]
  <2>1. \E f : Reads(f, start, all)
    BY ReadsExist
  <2> QED BY <2>1 DEF fat16_read_internal, Reads, ReadTurn
<1>2. \A t \in 0 .. all : \A o \in Nat : f[t][o] = ReadTurn(f, start, t, o)
  <2>1. ASSUME NEW t \in 0 .. all
        PROVE  f[t] = [offset \in Nat |-> ReadTurn(f, start, t, offset)]
    BY <1>1 DEF Reads
  <2> QED BY <2>1
<1> DEFINE G == {n \in 0 .. all : \A t \in 0 .. n : \A o \in Nat : f[t][o].res \in Int}
<1>3. ASSUME NEW t \in 0 .. all, \A k \in 0 .. t - 1 : \A o \in Nat : f[k][o].res \in Int,
             NEW o \in Nat
      PROVE  f[t][o].res \in Int
  <2>1. PICK n, c : n = Min({t, ClusterSize}) /\ c = fat16_get_cluster_for_offset(start, o)
    OBVIOUS
  <2>2. n \in Nat /\ (t > n => t - n \in 0 .. t - 1) /\ c \in Int
    BY <2>1, TurnSize, ClusterAt
  <2>3. t > n => f[t - n][o + n].res \in Int
    BY <2>2, <1>3
  <2>4. /\ c < 0 => ReadTurn(f, start, t, o).res = c
        /\ ~ (c < 0) /\ t > n => ReadTurn(f, start, t, o).res = f[t - n][o + n].res
        /\ ~ (c < 0) /\ ~ (t > n) => ReadTurn(f, start, t, o).res = 0
    BY <2>1 DEF ReadTurn
  <2> QED BY <1>2, <2>2, <2>3, <2>4
<1>4. 0 \in G
  <2>1. \A k \in 0 .. 0 - 1 : FALSE
    OBVIOUS
  <2>2. \A t \in 0 .. 0 : t = 0
    OBVIOUS
  <2> QED BY <2>1, <2>2, <1>3
<1>5. ASSUME NEW n \in 0 .. all, n \in G, n < all PROVE n + 1 \in G
  <2>1. n + 1 \in 0 .. all
    BY <1>5
  <2>2. \A k \in 0 .. (n + 1) - 1 : k \in 0 .. n
    OBVIOUS
  <2>3. \A k \in 0 .. (n + 1) - 1 : \A o \in Nat : f[k][o].res \in Int
    BY <2>2, <1>5
  <2>4. \A o \in Nat : f[n + 1][o].res \in Int
    BY <2>1, <2>3, <1>3
  <2>5. \A k \in 0 .. n + 1 : k \in 0 .. (n + 1) - 1 \/ k = n + 1
    OBVIOUS
  <2> QED BY <2>1, <2>3, <2>4, <2>5
<1>6. 0 .. all \subseteq G
  <2> HIDE DEF G
  <2> QED BY <1>4, <1>5, SetInduction
<1>7. f[all][from].res \in Int
  <2>1. all \in G /\ all \in 0 .. all
    BY <1>6
  <2> QED BY <2>1
<1>8. ASSUME start >= 0, all > 0, from + all <= ClusterSize
      PROVE  f[all][from] =
               [res |-> 0,
                bytes |-> Bytes(fat16_cluster_to_sector(start) * SectorSize + from, all)]
  <2>1. PICK n, c, d, p :
          /\ n = Min({all, d}) /\ c = fat16_get_cluster_for_offset(start, from)
          /\ d = ClusterSize /\ p = fat16_cluster_to_sector(start) * SectorSize
    OBVIOUS
  <2>2. d \in Nat \ {0} /\ from < d /\ all <= d
    BY <2>1, <1>8, Layout
  <2>3. n = all /\ c = start /\ ~ (all > n) /\ ~ (c < 0)
    BY <2>1, <2>2, <1>8, TurnSize, ClusterAt
  <2>4. from % d = from
    BY <2>2
  <2>5. p \in Int
    <3>1. PICK e, k, s : e = EndingSector /\ k = SectorsPerCluster /\ s = SectorSize
      OBVIOUS
    <3>2. e \in Int /\ k \in Int /\ s \in Int
      BY <3>1, Layout
    <3>3. (e + (start - 2) * k) * s \in Int
      BY <3>2
    <3> QED BY <3>1, <3>3, <2>1 DEF fat16_cluster_to_sector
  <2>6. StartingPos(c, from) = p + from /\ p + from \in Int
    BY <2>1, <2>3, <2>4, <2>5 DEF StartingPos
  <2>7. diskstreamer_read[n][StartingPos(c, from)] = Bytes(p + from, all)
    BY <2>3, <2>6, StreamReads
  <2>8. f[all][from] = ReadTurn(f, start, all, from)
    BY <1>2
  <2>9. ReadTurn(f, start, all, from) =
          [res |-> 0, bytes |-> diskstreamer_read[n][StartingPos(c, from)]]
    BY <2>1, <2>3 DEF ReadTurn
  <2> QED BY <2>1, <2>7, <2>8, <2>9
<1> QED BY <1>1, <1>7, <1>8

-----------------------------------------------------------------------------
(* Block after block                                                       *)

\* The end of the i-th block of a size.
LEMMA BlockEnds ==
  ASSUME NEW i \in Nat \ {0}, NEW size \in Nat
  PROVE  /\ (i - 1) * size \in Nat /\ i * size \in Nat
         /\ i * size = (i - 1) * size + size
OBVIOUS

\* A function that does what FlattenSeq does.
Flattens(f, s) ==
  f = [i \in 1 .. Len(s) |-> IF i = 1 THEN s[i] ELSE f[i - 1] \o s[i]]

\* Blocks that follow each other on the disk, joined.
LEMMA BlocksJoin ==
  ASSUME NEW p \in Int, NEW size \in Nat, NEW blocks \in Nat \ {0}, NEW s,
         s = [i \in 1 .. blocks |-> Bytes(p + (i - 1) * size, size)]
  PROVE  FlattenSeq(s) = Bytes(p, size * blocks)
<1>1. Len(s) = blocks
  OBVIOUS
<1>2. ASSUME NEW i \in 1 .. blocks
      PROVE  /\ s[i] = Bytes(p + (i - 1) * size, size)
             /\ i # 1 => Bytes(p, (i - 1) * size) \o s[i] = Bytes(p, i * size)
             /\ i = 1 => s[i] = Bytes(p, i * size)
  <2>1. s[i] = Bytes(p + (i - 1) * size, size)
    OBVIOUS
  <2>2. PICK m, n : m = (i - 1) * size /\ n = i * size
    OBVIOUS
  <2>3. m \in Nat /\ n = m + size
    BY <2>2, BlockEnds
  <2>4. Bytes(p, m) \o Bytes(p + m, size) = Bytes(p, m + size)
    BY <2>3, BytesJoin
  <2>5. i = 1 => m = 0 /\ p + m = p /\ n = size
    BY <2>2
  <2> QED BY <2>1, <2>2, <2>3, <2>4, <2>5
<1>3. PICK g : g = [i \in 1 .. blocks |-> Bytes(p, i * size)]
  OBVIOUS
<1>4. Flattens(g, s)
  <2>1. ASSUME NEW i \in 1 .. blocks
        PROVE  g[i] = IF i = 1 THEN s[i] ELSE g[i - 1] \o s[i]
    <3>1. i # 1 => i - 1 \in 1 .. blocks
      OBVIOUS
    <3>2. i # 1 => g[i - 1] = Bytes(p, (i - 1) * size)
      BY <3>1, <1>3
    <3>3. g[i] = Bytes(p, i * size)
      BY <1>3
    <3> QED BY <3>2, <3>3, <1>2
  <2>2. g = [i \in 1 .. blocks |-> g[i]]
    BY <1>3
  <2>3. g = [i \in 1 .. blocks |-> IF i = 1 THEN s[i] ELSE g[i - 1] \o s[i]]
    <3> HIDE <1>3
    <3> QED BY <2>1, <2>2
  <2> QED BY <2>3, <1>1 DEF Flattens
<1>5. PICK f : Flattens(f, s) /\ FlattenSeq(s) = f[blocks]
  BY <1>1, <1>4 DEF Flattens, FlattenSeq
<1>6. \A i \in 1 .. blocks : f[i] = IF i = 1 THEN s[i] ELSE f[i - 1] \o s[i]
  BY <1>1, <1>5 DEF Flattens
<1> DEFINE G == {i \in 0 .. blocks : i # 0 => f[i] = Bytes(p, i * size)}
<1>7. 0 \in G
  OBVIOUS
<1>8. ASSUME NEW i \in 0 .. blocks, i \in G, i < blocks PROVE i + 1 \in G
  <2>1. PICK j : j = i + 1
    OBVIOUS
  <2>2. j \in 1 .. blocks /\ j \in 0 .. blocks /\ (j # 1 => i # 0) /\ j - 1 = i
    BY <2>1, <1>8
  <2>3. j # 1 => f[j - 1] = Bytes(p, (j - 1) * size)
    BY <2>2, <1>8
  <2>4. f[j] = IF j = 1 THEN s[j] ELSE f[j - 1] \o s[j]
    BY <2>2, <1>6
  <2>5. f[j] = Bytes(p, j * size)
    BY <2>2, <2>3, <2>4, <1>2
  <2> QED BY <2>1, <2>2, <2>5
<1>9. 0 .. blocks \subseteq G
  <2> HIDE DEF G
  <2> QED BY <1>7, <1>8, SetInduction
<1>10. blocks \in G
  BY <1>9
<1>11. f[blocks] = Bytes(p, blocks * size)
  BY <1>10
<1>12. blocks * size = size * blocks
  OBVIOUS
<1> QED BY <1>5, <1>11, <1>12

\* Where the first byte of a cluster is on the disk.
LEMMA ClusterStart ==
  ASSUME NEW cluster \in Int
  PROVE  fat16_cluster_to_sector(cluster) * SectorSize \in Int
<1>1. PICK e, k, s : e = EndingSector /\ k = SectorsPerCluster /\ s = SectorSize
  OBVIOUS
<1>2. e \in Int /\ k \in Int /\ s \in Int
  BY <1>1, Layout
<1>3. (e + (cluster - 2) * k) * s \in Int
  BY <1>2
<1> QED BY <1>1, <1>3 DEF fat16_cluster_to_sector

\* No block ends behind the last one.
LEMMA BlockWithin ==
  ASSUME NEW blocks \in Nat \ {0}, NEW i \in 1 .. blocks, NEW size \in Nat
  PROVE  (i - 1) * size \in Nat /\ (i - 1) * size + size <= size * blocks
<1>1. PICK a, b : a = i - 1 /\ b = blocks - i
  OBVIOUS
<1>2. a \in Nat /\ b \in Nat /\ blocks = a + b + 1
  BY <1>1
<1>3. a * size \in Nat /\ b * size \in Nat
  BY <1>2
<1>4. size * (a + b + 1) = a * size + b * size + size
  BY <1>2
<1> QED BY <1>1, <1>2, <1>3, <1>4

\* What fat16_read returns: a number of blocks or an error; within the first
\* cluster every block, and the bytes of all of them in their order.
LEMMA BlocksRead ==
  ASSUME NEW desc, Items[desc.item].cluster \in Nat, desc.pos \in Nat,
         NEW size \in Nat \ {0}, NEW blocks \in Nat \ {0}
  PROVE  /\ fat16_read(desc, size, blocks).res \in Int
         /\ desc.pos + size * blocks <= ClusterSize =>
              fat16_read(desc, size, blocks) =
                [res |-> blocks,
                 bytes |-> Bytes(fat16_cluster_to_sector(Items[desc.item].cluster) * SectorSize
                                   + desc.pos, size * blocks)]
<1>1. PICK c, pos : c = Items[desc.item].cluster /\ pos = desc.pos
  OBVIOUS
<1>0. c \in Int /\ c >= 0 /\ pos \in Nat
  BY <1>1
<1>2. PICK block : block = [i \in 1 .. blocks |-> fat16_read_internal(c, pos + (i - 1) * size, size)]
  OBVIOUS
<1>3. PICK failed : failed = {i \in 1 .. blocks : block[i].res < 0}
  OBVIOUS
<1>4. PICK last : last = IF failed = {} THEN blocks ELSE Min(failed)
  OBVIOUS
<1>5. fat16_read(desc, size, blocks) =
        [res   |-> IF failed = {} THEN blocks ELSE block[last].res,
         bytes |-> FlattenSeq([i \in 1 .. last |-> block[i].bytes])]
  BY <1>1, <1>2, <1>3, <1>4 DEF fat16_read
<1>6. ASSUME NEW i \in 1 .. blocks
      PROVE  pos + (i - 1) * size \in Nat /\ block[i].res \in Int
  <2>1. PICK o : o = pos + (i - 1) * size
    OBVIOUS
  <2>2. o \in Nat
    BY <1>0, <2>1, BlockWithin
  <2>3. fat16_read_internal(c, o, size).res \in Int
    BY <1>0, <2>2, InternalReads
  <2>4. block[i] = fat16_read_internal(c, o, size)
    BY <1>2, <2>1
  <2> QED BY <2>1, <2>2, <2>3, <2>4
<1>7. failed # {} => last \in 1 .. blocks
  <2> SUFFICES ASSUME failed # {} PROVE last \in 1 .. blocks
    OBVIOUS
  <2>1. failed \subseteq Nat /\ failed \subseteq 1 .. blocks
    BY <1>3
  <2>2. Min(failed) \in failed
    BY <2>1, LeastNat
  <2> QED BY <2>1, <2>2, <1>4
<1>8. (IF failed = {} THEN blocks ELSE block[last].res) \in Int
  BY <1>6, <1>7
<1>9. ASSUME pos + size * blocks <= ClusterSize
      PROVE  fat16_read(desc, size, blocks) =
               [res |-> blocks,
                bytes |-> Bytes(fat16_cluster_to_sector(c) * SectorSize + pos, size * blocks)]
  <2>1. PICK s : s = fat16_cluster_to_sector(c) * SectorSize
    OBVIOUS
  <2>2. s \in Int
    BY <1>1, <2>1, ClusterStart
  <2>3. ASSUME NEW i \in 1 .. blocks
        PROVE  block[i].res = 0 /\ block[i].bytes = Bytes((s + pos) + (i - 1) * size, size)
    <3>1. PICK m, o, d, all : m = (i - 1) * size /\ o = pos + m /\ d = ClusterSize /\ all = size * blocks
      OBVIOUS
    <3>2. m \in Nat /\ m + size <= all /\ d \in Nat /\ all \in Int
      BY <3>1, BlockWithin, Layout
    <3>3. o \in Nat /\ o + size <= d
      BY <1>0, <1>9, <3>1, <3>2
    <3>4. fat16_read_internal(c, o, size) = [res |-> 0, bytes |-> Bytes(s + o, size)]
      <4>1. c \in Int /\ c >= 0 /\ size \in Nat /\ size > 0 /\ o + size <= ClusterSize
        BY <1>0, <3>1, <3>3
      <4>2. fat16_read_internal(c, o, size)
              = [res |-> 0, bytes |-> Bytes(fat16_cluster_to_sector(c) * SectorSize + o, size)]
        BY <3>3, <4>1, InternalReads
      <4> QED BY <2>1, <4>2
    <3>5. s + o = (s + pos) + m
      BY <1>0, <2>2, <3>1, <3>2
    <3>6. block[i] = fat16_read_internal(c, o, size)
      BY <1>2, <3>1
    <3>7. block[i].res = 0 /\ block[i].bytes = Bytes(s + o, size)
      BY <3>4, <3>6
    <3> QED BY <3>1, <3>5, <3>7
  <2>4. failed = {} /\ last = blocks
    <3>1. \A i \in 1 .. blocks : ~ (block[i].res < 0)
      BY <2>3
    <3>2. failed = {}
      BY <3>1, <1>3
    <3> QED BY <3>2, <1>4
  <2>5. [i \in 1 .. last |-> block[i].bytes]
          = [i \in 1 .. blocks |-> Bytes((s + pos) + (i - 1) * size, size)]
    BY <2>3, <2>4
  <2>6. PICK t : t = [i \in 1 .. last |-> block[i].bytes]
    OBVIOUS
  <2>7. PICK p : p = s + pos
    OBVIOUS
  <2>8. p \in Int /\ t = [i \in 1 .. blocks |-> Bytes(p + (i - 1) * size, size)]
    BY <1>0, <2>2, <2>5, <2>6, <2>7
  <2>9. FlattenSeq(t) = Bytes(p, size * blocks)
    BY <2>8, BlocksJoin
  <2> QED BY <1>5, <2>1, <2>4, <2>6, <2>7, <2>9
<1> QED BY <1>1, <1>5, <1>8, <1>9

-----------------------------------------------------------------------------
(* What a path leads to                                                    *)

\* What a search returns is an entry of the directory that has the name.
LEMMA Finds ==
  ASSUME NEW entries \in Seq(Item \cup {Deleted}), NEW name
  PROVE  LET item == fat16_find_item_in_directory(entries, name)
         IN  item # NULL => item \in Item \cap Range(entries) /\ HasName(item, name)
<1>1. PICK n, m : n = Len(entries) /\ m = Cardinality(Used(entries))
  OBVIOUS
<1>2. n \in Nat /\ DOMAIN entries = 1 .. n /\ \A k \in 1 .. n : entries[k] \in Item \cup {Deleted}
  BY <1>1
<1>3. m \in Nat /\ m <= n
  <2>1. IsFiniteSet(1 .. n) /\ Cardinality(1 .. n) = n
    BY <1>2, FS_Interval
  <2>2. Used(entries) \subseteq 1 .. n
    BY <1>2 DEF Used
  <2>3. m \in Nat /\ m <= Cardinality(1 .. n)
    BY <1>1, <2>1, <2>2, FS_Subset, FS_CardinalityType
  <2> QED BY <2>1, <2>3
<1>4. DOMAIN Loaded(entries) = 1 .. m
  BY <1>1, <1>3 DEF Loaded
<1>5. PICK found : found = {k \in DOMAIN Loaded(entries) : HasName(entries[k], name)}
  OBVIOUS
<1>6. ASSUME found # {}
      PROVE  entries[Max(found)] \in Item \cap Range(entries) /\ HasName(entries[Max(found)], name)
  <2>1. found \subseteq 0 .. n /\ found \subseteq 1 .. n
    <3>1. found \subseteq 1 .. m
      BY <1>4, <1>5
    <3>2. \A k \in 1 .. m : k \in 0 .. n /\ k \in 1 .. n
      BY <1>2, <1>3
    <3> QED BY <3>1, <3>2
  <2>2. Max(found) \in found
    BY <1>2, <1>6, <2>1, GreatestNat
  <2>3. HasName(entries[Max(found)], name) /\ entries[Max(found)] # Deleted
    BY <1>5, <2>2 DEF HasName
  <2>4. entries[Max(found)] \in Range(entries)
    BY <1>2, <2>1, <2>2 DEF Range
  <2> QED BY <1>2, <2>1, <2>2, <2>3, <2>4
<1> QED BY <1>5, <1>6 DEF fat16_find_item_in_directory

\* One step along a path, if f holds what came before.
PathTurn(f, parts, k) ==
  IF k = 1 THEN fat16_find_item_in_directory(Root, parts[1])
  ELSE IF f[k - 1] = NULL \/ Items[f[k - 1]].type # "DIRECTORY" THEN NULL
  ELSE fat16_find_item_in_directory(Items[f[k - 1]].entries, parts[k])

Walks(f, parts, m) == f = [k \in 1 .. m |-> PathTurn(f, parts, k)]

\* The walk along a path defines a function.
LEMMA WalkExists ==
  ASSUME NEW parts, NEW m \in Nat
  PROVE  \E f : Walks(f, parts, m)
<1> DEFINE G == {l \in 0 .. m : \E f : Walks(f, parts, l)}
<1>1. 0 \in G
  <2>1. PICK f : f = [k \in 1 .. 0 |-> k]
    OBVIOUS
  <2>2. \A k \in 1 .. 0 : FALSE
    OBVIOUS
  <2>3. Walks(f, parts, 0)
    BY <2>1, <2>2 DEF Walks
  <2> QED BY <2>3
<1>2. ASSUME NEW l \in 0 .. m, l \in G, l < m PROVE l + 1 \in G
  <2>1. PICK f : Walks(f, parts, l)
    BY <1>2
  <2>2. PICK h : h = [k \in 1 .. l + 1 |-> PathTurn(f, parts, k)]
    OBVIOUS
  <2>3. ASSUME NEW k \in 1 .. l + 1 PROVE h[k] = PathTurn(h, parts, k)
    <3>1. h[k] = PathTurn(f, parts, k)
      BY <2>2
    <3>2. ASSUME k # 1 PROVE h[k - 1] = f[k - 1]
      <4>1. k - 1 \in 1 .. l /\ k - 1 \in 1 .. l + 1
        BY <3>2
      <4>2. f[k - 1] = PathTurn(f, parts, k - 1)
        BY <4>1, <2>1 DEF Walks
      <4> QED BY <4>1, <4>2, <2>2
    <3> QED BY <3>1, <3>2 DEF PathTurn
  <2>4. h = [k \in 1 .. l + 1 |-> h[k]]
    BY <2>2
  <2>5. Walks(h, parts, l + 1)
    <3> HIDE <2>2
    <3> QED BY <2>3, <2>4 DEF Walks
  <2>6. l + 1 \in 0 .. m
    BY <1>2
  <2> QED BY <2>5, <2>6
<1>3. 0 .. m \subseteq G
  <2> HIDE DEF G
  <2> QED BY <1>1, <1>2, SetInduction
<1>4. m \in G
  BY <1>3
<1> QED BY <1>4

\* A path leads to an item of the disk or nowhere.
LEMMA Leads ==
  ASSUME NEW parts, Len(parts) \in Nat \ {0}
  PROVE  fat16_get_directory_entry(parts) \in Item \cup {NULL}
<1>1. PICK m : m = Len(parts)
  OBVIOUS
<1>2. PICK f : Walks(f, parts, m) /\ fat16_get_directory_entry(parts) = f[m]
  <2>1. \E f : Walks(f, parts, m)
    BY <1>1, WalkExists
  <2> QED BY <2>1, <1>1 DEF fat16_get_directory_entry, Walks, PathTurn
<1>3. \A k \in 1 .. m : f[k] = PathTurn(f, parts, k)
  BY <1>2 DEF Walks
<1> DEFINE G == {k \in 0 .. m : k # 0 => f[k] \in Item \cup {NULL}}
<1>4. 0 \in G
  BY <1>1
<1>5. ASSUME NEW k \in 0 .. m, k \in G, k < m PROVE k + 1 \in G
  <2>1. PICK j : j = k + 1
    OBVIOUS
  <2>2. j \in 1 .. m /\ j \in 0 .. m /\ j - 1 = k /\ (j # 1 => k # 0)
    BY <1>1, <1>5, <2>1
  <2>3. f[j] = PathTurn(f, parts, j)
    BY <1>3, <2>2
  <2>4. CASE j = 1
    <3>1. fat16_find_item_in_directory(Root, parts[1]) \in Item \cup {NULL}
      BY ItemsAssumption, Finds
    <3> QED BY <2>1, <2>2, <2>3, <2>4, <3>1 DEF PathTurn
  <2>5. CASE j # 1
    <3>1. f[k] \in Item \cup {NULL}
      BY <1>5, <2>2, <2>5
    <3>2. CASE f[k] = NULL \/ Items[f[k]].type # "DIRECTORY"
      BY <2>1, <2>2, <2>3, <2>5, <3>2 DEF PathTurn
    <3>3. CASE ~ (f[k] = NULL \/ Items[f[k]].type # "DIRECTORY")
      <4>1. Items[f[k]].entries \in Seq(Item \cup {Deleted})
        BY <3>1, <3>3, ItemsAssumption
      <4>2. fat16_find_item_in_directory(Items[f[k]].entries, parts[j]) \in Item \cup {NULL}
        BY <4>1, Finds
      <4> QED BY <2>1, <2>2, <2>3, <2>5, <3>3, <4>2 DEF PathTurn
    <3> QED BY <3>2, <3>3
  <2> QED BY <2>4, <2>5
<1>6. 0 .. m \subseteq G
  <2> HIDE DEF G
  <2> QED BY <1>1, <1>4, <1>5, SetInduction
<1>7. m \in G
  BY <1>1, <1>6
<1> QED BY <1>1, <1>2, <1>7

\* What is opened is an item of the disk.
LEMMA Opens ==
  ASSUME NEW path \in Paths, NEW mode
  PROVE  fat16_open(path, mode) \in Item \cup {NULL}
<1>1. PICK between, parts : between = path.parts /\ parts = pathparser_parse(between)
  OBVIOUS
<1>2. between \in Seq(Seq(STRING))
  BY <1>1, FileAssumption
<1>3. parts \in Seq(Seq(STRING))
  <2>1. PICK I : I = {i \in 1 .. Len(between) : between[i] = <<>>}
    OBVIOUS
  <2>2. PICK empty : empty = IF I # {} THEN Min(I) ELSE 0
    OBVIOUS
  <2>3. parts = IF empty = 0 THEN between ELSE SubSeq(between, 1, empty - 1)
    BY <1>1, <2>1, <2>2 DEF pathparser_parse, SelectInSeq
  <2>4. ASSUME empty # 0 PROVE SubSeq(between, 1, empty - 1) \in Seq(Seq(STRING))
    <3>1. I \subseteq Nat /\ I # {} /\ empty = Min(I)
      BY <1>2, <2>1, <2>2, <2>4
    <3>2. empty \in 1 .. Len(between)
      BY <2>1, <3>1, LeastNat
    <3>3. \A i \in 1 .. empty - 1 : between[i] \in Seq(STRING)
      BY <1>2, <3>2
    <3>4. empty - 1 \in Int
      BY <1>2, <3>2
    <3> QED BY <3>3, <3>4, SubSeqProperties
  <2> QED BY <1>2, <2>3, <2>4
<1>4. parts # <<>> => Len(parts) \in Nat \ {0}
  BY <1>3
<1>5. parts # <<>> => fat16_get_directory_entry(parts) \in Item \cup {NULL}
  BY <1>4, Leads
<1> QED BY <1>1, <1>5 DEF fat16_open

-----------------------------------------------------------------------------
(* The type invariant                                                      *)

Open == [item : Item, pos : 0 .. MaxPosition]

\* At boot no file is open.
LEMMA TypeInit == Init => TypeOK
BY FileAssumption DEF Init, TypeOK, Reply

\* What a descriptor stands for.
LEMMA Descriptor ==
  ASSUME TypeOK, NEW fd \in 0 .. MaxDescriptors
  PROVE  LET desc == file_get_descriptor(fd)
         IN  desc # NULL => /\ fd \in 1 .. MaxDescriptors /\ desc = file_descriptors[fd]
                            /\ desc \in Open
BY FileAssumption DEF TypeOK, Open, file_get_descriptor

\* Every call keeps the types of what is open and of its result.
LEMMA TypeNext == TypeOK /\ [Next]_vars => TypeOK'
<1> SUFFICES ASSUME TypeOK, [Next]_vars PROVE TypeOK'
  OBVIOUS
<1> USE DEF Reply
<1>1. ASSUME NEW path \in Paths, NEW mode \in Modes, fopen(path, mode)
      PROVE  TypeOK'
  <2>1. PICK item, fd : /\ item = fat16_open(path, mode)
                        /\ fd = IF item = NULL THEN 0 ELSE file_new_descriptor
    OBVIOUS
  <2>2. /\ file_descriptors' = IF fd = 0 THEN file_descriptors
             ELSE [file_descriptors EXCEPT ![fd] = [item |-> item, pos |-> 0]]
        /\ out' = Reply("fopen", fd)
    BY <1>1, <2>1 DEF fopen
  <2>3. fd # 0 => item \in Item
    BY <2>1, Opens
  <2>4. fd \in 0 .. MaxDescriptors
    <3>1. PICK free : free = {i \in DOMAIN file_descriptors : file_descriptors[i] = NULL}
      OBVIOUS
    <3>2. free \subseteq Nat /\ free \subseteq 1 .. MaxDescriptors
      BY <3>1, FileAssumption DEF TypeOK
    <3>3. free # {} => Min(free) \in free
      BY <3>2, LeastNat
    <3>4. file_new_descriptor = IF free = {} THEN 0 ELSE Min(free)
      BY <3>1 DEF file_new_descriptor
    <3> QED BY <2>1, <3>2, <3>3, <3>4, FileAssumption
  <2>5. fd # 0 => [item |-> item, pos |-> 0] \in Open
    BY <2>3, FileAssumption DEF Open
  <2> QED BY <2>2, <2>4, <2>5, FileAssumption DEF TypeOK, Open
<1>2. ASSUME NEW fd \in 0 .. MaxDescriptors, fstat(fd)
      PROVE  TypeOK'
  BY <1>2 DEF fstat, TypeOK, EIO, EINVARG
<1>3. ASSUME NEW fd \in 0 .. MaxDescriptors, fclose(fd)
      PROVE  TypeOK'
  BY <1>3 DEF fclose, TypeOK, EINVARG
<1>4. ASSUME NEW fd \in 0 .. MaxDescriptors, NEW offset \in Offsets, NEW whence \in Whences,
             fseek(fd, offset, whence)
      PROVE  TypeOK'
  <2>1. PICK desc : desc = file_get_descriptor(fd)
    OBVIOUS
  <2>2. CASE UNCHANGED file_descriptors /\ \E err \in {EIO, EINVARG, EUNIMP} : out' = Reply("fseek", -err)
    BY <2>2 DEF TypeOK, EIO, EINVARG, EUNIMP
  <2>3. ASSUME desc # NULL, NEW pos \in Nat, pos <= MaxPosition,
               file_descriptors' = [file_descriptors EXCEPT ![fd].pos = pos],
               out' = Reply("fseek", 0)
        PROVE  TypeOK'
    <3>1. desc = file_descriptors[fd] /\ desc \in Open /\ fd \in 1 .. MaxDescriptors
      BY <2>1, <2>3, Descriptor
    <3>2. [desc EXCEPT !.pos = pos] \in Open
      BY <2>3, <3>1, FileAssumption DEF Open
    <3>3. file_descriptors' = [file_descriptors EXCEPT ![fd] = [desc EXCEPT !.pos = pos]]
      BY <2>3, <3>1
    <3> QED BY <2>3, <3>1, <3>2, <3>3 DEF TypeOK, Open
  <2>4. CASE desc # NULL /\ CanSeek(desc, offset)
    <3>1. offset \in Nat /\ desc.pos + offset \in Nat
      <4>1. desc.pos \in Nat
        BY <2>1, <2>4, Descriptor, FileAssumption DEF Open
      <4>2. offset \in Nat
        BY <2>4, FileAssumption DEF CanSeek
      <4> QED BY <4>1, <4>2
    <3> QED BY <1>4, <2>1, <2>2, <2>3, <2>4, <3>1 DEF fseek
  <2> QED BY <1>4, <2>1, <2>2, <2>4 DEF fseek
<1>5. ASSUME NEW fd \in 0 .. MaxDescriptors, NEW size \in Sizes, NEW blocks \in Blocks,
             fread(size, blocks, fd)
      PROVE  TypeOK'
  <2>1. PICK desc : desc = file_get_descriptor(fd)
    OBVIOUS
  <2>2. CASE size = 0 \/ blocks = 0 \/ desc = NULL
    BY <1>5, <2>1, <2>2 DEF fread, TypeOK, EINVARG
  <2>3. CASE ~ (size = 0 \/ blocks = 0 \/ desc = NULL)
    <3>1. desc.pos \in Nat /\ Items[desc.item].cluster \in Nat
      <4>1. desc.item \in Item /\ desc.pos \in Nat
        BY <2>1, <2>3, Descriptor, FileAssumption DEF Open
      <4> QED BY <4>1, ItemsAssumption, FatAssumption
    <3>2. size \in Nat \ {0} /\ blocks \in Nat \ {0}
      BY <2>3, FileAssumption
    <3>3. fat16_read(desc, size, blocks).res \in Int
      BY <3>1, <3>2, BlocksRead
    <3>4. out'.res = fat16_read(desc, size, blocks).res /\ UNCHANGED file_descriptors
      BY <1>5, <2>1, <2>3 DEF fread
    <3> QED BY <3>3, <3>4 DEF TypeOK
  <2> QED BY <2>2, <2>3
<1>6. CASE UNCHANGED vars
  BY <1>6 DEF vars, TypeOK
<1> QED BY <1>1, <1>2, <1>3, <1>4, <1>5, <1>6 DEF Next

\* An open file or directory is one of the disk, at a position that is a
\* number, and its slot is one of the table (fs/file.c:57).
THEOREM TypeCorrect == Spec => []TypeOK
<1>1. TypeOK /\ [Next]_vars => TypeOK'
  BY TypeNext
<1> QED BY <1>1, TypeInit, PTL DEF Spec

-----------------------------------------------------------------------------
(* Reads                                                                   *)

\* The bytes of a file in its first cluster are next to each other on the disk.
LEMMA FirstBytes ==
  ASSUME NEW item, Items[item].cluster \in Nat, NEW k \in Nat, k < ClusterSize
  PROVE  Byte(item, k) = fat16_cluster_to_sector(Items[item].cluster) * SectorSize + k
<1>1. PICK d, m, a : d = ClusterSize /\ m = k \div d /\ a = Items[item].cluster
  OBVIOUS
<1>2. d \in Nat \ {0}
  BY <1>1, Layout
<1>3. m = 0 /\ k % d = k
  BY <1>1, <1>2
<1>4. PICK g : /\ Iterates(g, m, a, Fat)
               /\ Byte(item, k) = (EndingSector + (g[m] - 2) * SectorsPerCluster)
                                    * SectorSize + (k % d)
  <2>1. \E g : Iterates(g, m, a, Fat)
    BY <1>3, IterationExists
  <2> QED BY <2>1, <1>1 DEF Byte, Iterates
<1>5. g[m] = a
  <2>1. 0 \in 0 .. 0
    OBVIOUS
  <2> QED BY <1>3, <1>4, <2>1 DEF Iterates
<1> QED BY <1>1, <1>3, <1>4, <1>5 DEF fat16_cluster_to_sector

\* Nothing is read at boot.
LEMMA ReadsInit == Init => ReadsFile
BY DEF Init, Reply, ReadsFile, Reading

\* Only fread reads, and it leaves the table of descriptors as it was.
LEMMA ReadsNext == TypeOK /\ ReadsFile /\ [Next]_vars => ReadsFile'
<1> SUFFICES ASSUME TypeOK, ReadsFile, [Next]_vars PROVE ReadsFile'
  OBVIOUS
<1>1. ASSUME NEW fd \in 0 .. MaxDescriptors, NEW size \in Sizes, NEW blocks \in Blocks,
             fread(size, blocks, fd)
      PROVE  ReadsFile'
  <2>1. PICK desc, read : /\ desc = file_get_descriptor(fd)
                          /\ read = fat16_read(desc, size, blocks)
    OBVIOUS
  <2>2. CASE size = 0 \/ blocks = 0 \/ desc = NULL
    BY <1>1, <2>1, <2>2 DEF fread, Reply, ReadsFile, Reading
  <2>3. CASE ~ (size = 0 \/ blocks = 0 \/ desc = NULL)
    <3>1. /\ out' = [call |-> "fread", res |-> read.res, bytes |-> read.bytes,
                     fd |-> fd, size |-> size, blocks |-> blocks]
          /\ file_descriptors' = file_descriptors
      BY <1>1, <2>1, <2>3 DEF fread
    <3>2. desc = file_descriptors[fd] /\ desc \in Open
      BY <2>1, <2>3, Descriptor
    <3>3. PICK item, pos, c, p, total :
            /\ item = desc.item /\ pos = desc.pos /\ c = Items[item].cluster
            /\ p = fat16_cluster_to_sector(c) * SectorSize /\ total = size * blocks
      OBVIOUS
    <3>4. item \in Item /\ pos \in Nat /\ c \in Nat /\ p \in Int
      <4>1. item \in Item /\ pos \in Nat
        BY <3>2, <3>3, FileAssumption DEF Open
      <4>2. c \in Nat
        BY <3>3, <4>1, ItemsAssumption, FatAssumption
      <4> QED BY <3>3, <4>1, <4>2, ClusterStart
    <3>5. size \in Nat \ {0} /\ blocks \in Nat \ {0} /\ total \in Nat
      <4>1. size \in Nat \ {0} /\ blocks \in Nat \ {0}
        BY <2>3, FileAssumption
      <4> QED BY <3>3, <4>1
    <3>6. ASSUME pos + total <= ClusterSize
          PROVE  /\ read.res = blocks
                 /\ read.bytes = [k \in 1 .. total |-> Byte(item, pos + k - 1)]
      <4>1. read = [res |-> blocks, bytes |-> Bytes(p + pos, total)]
        BY <2>1, <3>3, <3>4, <3>5, <3>6, BlocksRead
      <4>2. ASSUME NEW k \in 1 .. total
            PROVE  (p + pos) + k - 1 = Byte(item, pos + k - 1)
        <5>1. PICK j, d : j = pos + k - 1 /\ d = ClusterSize
          OBVIOUS
        <5>2. d \in Nat
          BY <5>1, Layout
        <5>3. j \in Nat /\ j < d
          BY <3>4, <3>5, <3>6, <5>1, <5>2
        <5>4. Byte(item, j) = p + j
          BY <3>3, <3>4, <5>1, <5>3, FirstBytes
        <5>5. (p + pos) + k - 1 = p + j
          BY <3>4, <3>5, <5>1
        <5> QED BY <5>1, <5>4, <5>5
      <4>3. Bytes(p + pos, total) = [k \in 1 .. total |-> Byte(item, pos + k - 1)]
        BY <4>2 DEF Bytes
      <4> QED BY <4>1, <4>3
    <3>7. /\ out'.res = read.res /\ out'.bytes = read.bytes /\ out'.fd = fd
          /\ out'.size = size /\ out'.blocks = blocks
          /\ file_descriptors'[out'.fd] = desc
      BY <3>1, <3>2
    <3>8. /\ ReadEnd' = pos + total
          /\ ReadIsRight' <=> /\ read.res = blocks
                              /\ read.bytes = [k \in 1 .. total |-> Byte(item, pos + k - 1)]
      BY <3>3, <3>7 DEF ReadEnd, ReadIsRight
    <3> QED BY <3>6, <3>8 DEF ReadsFile
  <2> QED BY <2>2, <2>3
<1>2. CASE UNCHANGED vars
  BY <1>2 DEF vars, ReadsFile, Reading, ReadEnd, FileEnd, ReadIsRight, Byte
<1>3. CASE \E path \in Paths, mode \in Modes : fopen(path, mode)
  BY <1>3 DEF fopen, Reply, ReadsFile, Reading
<1>4. ASSUME NEW fd \in 0 .. MaxDescriptors, fstat(fd)
      PROVE  ReadsFile'
  BY <1>4 DEF fstat, Reply, ReadsFile, Reading
<1>5. ASSUME NEW fd \in 0 .. MaxDescriptors, fclose(fd)
      PROVE  ReadsFile'
  BY <1>5 DEF fclose, Reply, ReadsFile, Reading
<1>6. ASSUME NEW fd \in 0 .. MaxDescriptors, NEW offset \in Offsets, NEW whence \in Whences,
             fseek(fd, offset, whence)
      PROVE  ReadsFile'
  BY <1>6 DEF fseek, Reply, ReadsFile, Reading
<1> QED BY <1>1, <1>2, <1>3, <1>4, <1>5, <1>6 DEF Next

\* A read that stays in the file and in its first cluster succeeds and returns
\* exactly those bytes, for every size of sectors, clusters and blocks, for
\* every disk and after any calls (fs/fat/fat16.c:455, disk/streamer.c:25).
THEOREM ReadsRight == Spec => []ReadsFile
<1>1. TypeOK /\ ReadsFile /\ [Next]_vars => ReadsFile'
  BY ReadsNext
<1> QED BY <1>1, TypeCorrect, ReadsInit, PTL DEF Spec

-----------------------------------------------------------------------------
(* Names                                                                   *)

\* What is true of every disk that was written as FAT16 has it: letters have
\* letters in the other case, names are padded with spaces at their end only
\* and not empty, and no directory has two entries of one name.
WellPadded(str) ==
  \A j, k \in DOMAIN str : str[j] = Space /\ j < k => str[k] = Space

OneOfEachName(entries) ==
  \A i, j \in Range(entries) \ {Deleted} :
    SameName(fat16_get_full_relative_filename(Items[i]),
             fat16_get_full_relative_filename(Items[j])) => i = j

LettersOnly == {Space, "."} \cap (DOMAIN Lower \cup Range(Lower)) = {}

WellNamed ==
  /\ LettersOnly
  /\ \A i \in Item : /\ WellPadded(Items[i].filename) /\ Items[i].filename[1] # Space
                     /\ WellPadded(Items[i].ext)
                     /\ OneOfEachName(Items[i].entries)
  /\ OneOfEachName(Root)

\* Spaces and dots are what they are in either case.
LEMMA CaseKeeps ==
  ASSUME LettersOnly, NEW c
  PROVE  (tolower(c) = Space <=> c = Space) /\ (tolower(c) = "." <=> c = ".")
<1>1. c \in DOMAIN Lower => Lower[c] \in Range(Lower)
  BY DEF Range
<1>2. Space \notin DOMAIN Lower /\ Space \notin Range(Lower)
      /\ "." \notin DOMAIN Lower /\ "." \notin Range(Lower)
  BY DEF LettersOnly
<1> QED BY <1>1, <1>2 DEF tolower

\* The smaller of two numbers.
LEMMA MinTwo ==
  ASSUME NEW a \in Nat, NEW b \in Nat
  PROVE  Min({a, b}) = IF a <= b THEN a ELSE b
<1>1. PICK T, m : T = {a, b} /\ m = Min(T)
  OBVIOUS
<1>2. T \subseteq Nat /\ T # {}
  BY <1>1
<1>3. m \in T /\ \A k \in T : m <= k
  BY <1>1, <1>2, LeastNat
<1> QED BY <1>1, <1>3

\* Where a padded string is cut off.
CutAt(in, max, n) ==
  /\ n \in Nat /\ n <= max /\ n <= Len(in)
  /\ \A k \in 1 .. n : in[k] # Space
  /\ n = max \/ n = Len(in) \/ in[n + 1] = Space

\* What fat16_to_proper_string returns is the string up to where it is cut.
LEMMA ProperCut ==
  ASSUME NEW in \in Seq(STRING), NEW max \in Nat
  PROVE  /\ \E n : CutAt(in, max, n)
         /\ \A n : CutAt(in, max, n) => fat16_to_proper_string(in, max) = SubSeq(in, 1, n)
<1>1. PICK I, len : I = {i \in 1 .. Len(in) : in[i] = Space} /\ len = Len(in)
  OBVIOUS
<1>2. PICK end : end = IF I # {} THEN Min(I) ELSE 0
  OBVIOUS
<1>3. PICK stop : stop = IF end = 0 THEN len ELSE end - 1
  OBVIOUS
<1>4. len \in Nat
  BY <1>1
<1>5. /\ I # {} => end \in 1 .. len /\ in[end] = Space /\ \A k \in 1 .. len : in[k] = Space => end <= k
      /\ I = {} => end = 0 /\ \A k \in 1 .. len : in[k] # Space
  <2>1. I \subseteq Nat /\ I \subseteq 1 .. len
    BY <1>1
  <2>2. I # {} => Min(I) \in I /\ \A k \in I : Min(I) <= k
    BY <2>1, LeastNat
  <2> QED BY <1>1, <1>2, <2>1, <2>2
<1>6. /\ stop \in 0 .. len /\ \A k \in 1 .. stop : in[k] # Space
      /\ stop = len \/ in[stop + 1] = Space
  <2>1. CASE I = {}
    BY <1>3, <1>4, <1>5, <2>1
  <2>2. CASE I # {}
    <3>1. end \in 1 .. len /\ end # 0 /\ stop = end - 1 /\ stop + 1 = end
      BY <1>3, <1>4, <1>5, <2>2
    <3>2. \A k \in 1 .. stop : k \in 1 .. len /\ ~ (end <= k)
      BY <1>4, <3>1
    <3> QED BY <1>4, <1>5, <2>2, <3>1, <3>2
  <2> QED BY <2>1, <2>2
<1>7. PICK cut : cut = IF max <= stop THEN max ELSE stop
  OBVIOUS
<1>8. fat16_to_proper_string(in, max) = SubSeq(in, 1, cut)
  <2>1. SelectInSeq(in, LAMBDA c : c = Space) = end
    BY <1>1, <1>2 DEF SelectInSeq
  <2>2. Min({max, stop}) = cut
    BY <1>4, <1>6, <1>7, MinTwo
  <2> QED BY <1>1, <1>3, <2>1, <2>2 DEF fat16_to_proper_string
<1>9. CutAt(in, max, cut)
  BY <1>1, <1>4, <1>6, <1>7 DEF CutAt
<1>10. ASSUME NEW n, CutAt(in, max, n) PROVE n = cut
  <2>1. n \in Nat /\ n <= max /\ n <= len /\ (\A k \in 1 .. n : in[k] # Space)
        /\ (n = max \/ n = len \/ in[n + 1] = Space)
    BY <1>1, <1>10 DEF CutAt
  <2>2. n <= stop
    <3> SUFFICES ASSUME ~ (n <= stop) PROVE FALSE
      OBVIOUS
    <3>1. stop + 1 \in 1 .. n /\ stop # len
      BY <1>4, <1>6, <2>1
    <3> QED BY <1>6, <2>1, <3>1
  <2>3. ASSUME n # max, n # stop PROVE FALSE
    <3>1. n + 1 \in 1 .. stop /\ n # len
      BY <1>4, <1>6, <2>1, <2>2, <2>3
    <3> QED BY <1>6, <2>1, <2>3, <3>1
  <2> QED BY <1>4, <1>6, <1>7, <2>1, <2>2, <2>3
<1> QED BY <1>8, <1>9, <1>10

\* A name of n characters and an extension of m, as a path spells it.
Spells(part, filename, ext, n, m) ==
  /\ Len(part) = IF m = 0 THEN n ELSE n + 1 + m
  /\ \A k \in 1 .. n : tolower(part[k]) = tolower(filename[k])
  /\ m # 0 => /\ tolower(part[n + 1]) = tolower(".")
              /\ \A k \in 1 .. m : tolower(part[n + 1 + k]) = tolower(ext[k])

\* The two fields of an item, cut where their padding begins.
Fields(i, n, m) ==
  CutAt(Items[i].filename, NameSize, n) /\ CutAt(Items[i].ext, ExtSize, m)

LEMMA FieldTypes ==
  ASSUME NEW i \in Item
  PROVE  /\ Items[i].filename \in Seq(STRING) /\ Len(Items[i].filename) = NameSize
         /\ Items[i].ext \in Seq(STRING) /\ Len(Items[i].ext) = ExtSize
         /\ NameSize \in Nat \ {0} /\ ExtSize \in Nat \ {0}
BY ItemsAssumption, LayoutAssumption

\* The name of an item, character by character.
LEMMA FullName ==
  ASSUME NEW i \in Item, NEW n, NEW m, Fields(i, n, m)
  PROVE  LET full == fat16_get_full_relative_filename(Items[i])
         IN  /\ Len(full) = IF m = 0 THEN n ELSE n + 1 + m
             /\ DOMAIN full = 1 .. Len(full)
             /\ \A k \in 1 .. n : full[k] = Items[i].filename[k]
             /\ m # 0 => /\ full[n + 1] = "."
                         /\ \A k \in 1 .. m : full[n + 1 + k] = Items[i].ext[k]
<1>0. PICK S : S = STRING \cup {"."}
  OBVIOUS
<1>1. PICK name, ext, full : /\ name = Items[i].filename /\ ext = Items[i].ext
                             /\ full = fat16_get_full_relative_filename(Items[i])
  OBVIOUS
<1>2. PICK N, E : N = NameSize /\ E = ExtSize
  OBVIOUS
<1>3. /\ name \in Seq(STRING) /\ Len(name) = N /\ ext \in Seq(STRING) /\ Len(ext) = E
      /\ N \in Nat \ {0} /\ E \in Nat \ {0}
  BY <1>1, <1>2, FieldTypes
<1>4. CutAt(name, N, n) /\ CutAt(ext, E, m)
  BY <1>1, <1>2 DEF Fields
<1>5. n \in 0 .. N /\ m \in 0 .. E /\ n \in Nat /\ m \in Nat
  BY <1>3, <1>4 DEF CutAt
<1>6. ext[1] = Space <=> m = 0
  <2>1. /\ \A k \in 1 .. m : ext[k] # Space
        /\ m = E \/ ext[m + 1] = Space
    BY <1>3, <1>4 DEF CutAt
  <2>2. m = 0 => ext[1] = Space
    BY <1>3, <2>1
  <2>3. m # 0 => 1 \in 1 .. m
    BY <1>5
  <2> QED BY <2>1, <2>2, <2>3
<1>7. PICK both : both = name \o ext
  OBVIOUS
<1>8. both \in Seq(STRING) /\ Len(both) = N + E /\ \A k \in 1 .. N : both[k] = name[k]
  <2>1. /\ both \in Seq(STRING) /\ Len(both) = Len(name) + Len(ext)
        /\ \A k \in 1 .. Len(name) + Len(ext) :
             both[k] = IF k <= Len(name) THEN name[k] ELSE ext[k - Len(name)]
    BY <1>3, <1>7, ConcatProperties
  <2>2. \A k \in 1 .. N : k \in 1 .. N + E /\ k <= N
    BY <1>3
  <2> QED BY <1>3, <2>1, <2>2
<1>9. CutAt(both, N, n)
  <2>1. /\ n \in Nat /\ n <= N /\ \A k \in 1 .. n : name[k] # Space
        /\ n = N \/ name[n + 1] = Space
    BY <1>3, <1>4 DEF CutAt
  <2>2. n <= N + E /\ (\A k \in 1 .. n : k \in 1 .. N) /\ (n # N => n + 1 \in 1 .. N)
    BY <1>3, <1>5
  <2> QED BY <1>8, <2>1, <2>2 DEF CutAt
<1>10. PICK first, last : /\ first = SubSeq(both, 1, n) /\ first = fat16_to_proper_string(both, N)
                          /\ last = SubSeq(ext, 1, m) /\ last = fat16_to_proper_string(ext, E)
  <2>1. fat16_to_proper_string(both, N) = SubSeq(both, 1, n)
    BY <1>3, <1>8, <1>9, ProperCut
  <2>2. fat16_to_proper_string(ext, E) = SubSeq(ext, 1, m)
    BY <1>3, <1>4, ProperCut
  <2> QED BY <2>1, <2>2
<1>11. full = first \o IF ext[1] = Space THEN <<>> ELSE <<".">> \o last
  BY <1>1, <1>2, <1>7, <1>10 DEF fat16_get_full_relative_filename
<1>12. first \in Seq(S) /\ Len(first) = n /\ \A k \in 1 .. n : first[k] = name[k]
  <2>1. \A k \in 1 .. n : both[k] \in S /\ k \in 1 .. N
    BY <1>0, <1>3, <1>5, <1>8
  <2>2. /\ first \in Seq(S) /\ Len(first) = IF 1 <= n THEN n - 1 + 1 ELSE 0
        /\ \A k \in 1 .. n - 1 + 1 : first[k] = both[1 + k - 1]
    BY <1>5, <1>10, <2>1, SubSeqProperties
  <2>3. \A k \in 1 .. n : k \in 1 .. n - 1 + 1 /\ 1 + k - 1 = k
    BY <1>5
  <2> QED BY <1>5, <1>8, <2>1, <2>2, <2>3
<1>13. last \in Seq(S) /\ Len(last) = m /\ \A k \in 1 .. m : last[k] = ext[k]
  <2>1. \A k \in 1 .. m : ext[k] \in S
    BY <1>0, <1>3, <1>5
  <2>2. /\ last \in Seq(S) /\ Len(last) = IF 1 <= m THEN m - 1 + 1 ELSE 0
        /\ \A k \in 1 .. m - 1 + 1 : last[k] = ext[1 + k - 1]
    BY <1>5, <1>10, <2>1, SubSeqProperties
  <2>3. \A k \in 1 .. m : k \in 1 .. m - 1 + 1 /\ 1 + k - 1 = k
    BY <1>5
  <2> QED BY <1>5, <2>1, <2>2, <2>3
<1>14. CASE m = 0
  <2>1. full = first
    BY <1>6, <1>11, <1>12, <1>14, ConcatEmptySeq
  <2> QED BY <1>1, <1>12, <1>14, <2>1
<1>15. CASE m # 0
  <2>1. PICK dot, tail : dot = <<".">> /\ tail = dot \o last
    OBVIOUS
  <2>2. dot \in Seq(S) /\ Len(dot) = 1 /\ dot[1] = "."
    BY <1>0, <2>1
  <2>3. /\ tail \in Seq(S) /\ Len(tail) = m + 1 /\ tail[1] = "."
        /\ \A k \in 1 .. m : tail[k + 1] = ext[k]
    <3>1. /\ tail \in Seq(S) /\ Len(tail) = 1 + m
          /\ \A k \in 1 .. 1 + m : tail[k] = IF k <= 1 THEN dot[k] ELSE last[k - 1]
      BY <1>13, <2>1, <2>2, ConcatProperties
    <3>2. 1 \in 1 .. 1 + m /\ \A k \in 1 .. m : k + 1 \in 1 .. 1 + m /\ ~ (k + 1 <= 1) /\ (k + 1) - 1 = k
      BY <1>5
    <3> QED BY <1>5, <1>13, <2>2, <3>1, <3>2
  <2>4. full = first \o tail
    BY <1>6, <1>11, <1>15, <2>1
  <2>5. /\ full \in Seq(S) /\ Len(full) = n + (m + 1)
        /\ \A k \in 1 .. n + (m + 1) : full[k] = IF k <= n THEN first[k] ELSE tail[k - n]
    <3>1. PICK l : l = m + 1
      OBVIOUS
    <3>2. /\ first \in Seq(S) /\ tail \in Seq(S) /\ Len(first) = n /\ Len(tail) = l
      BY <1>12, <2>3, <3>1
    <3>3. /\ full \in Seq(S) /\ Len(full) = Len(first) + Len(tail)
          /\ \A k \in 1 .. Len(first) + Len(tail) :
               full[k] = IF k <= Len(first) THEN first[k] ELSE tail[k - Len(first)]
      BY <2>4, <3>2, ConcatProperties
    <3> QED BY <3>1, <3>2, <3>3
  <2>6. /\ \A k \in 1 .. n : k \in 1 .. n + (m + 1) /\ k <= n
        /\ n + 1 \in 1 .. n + (m + 1) /\ ~ (n + 1 <= n) /\ (n + 1) - n = 1
        /\ \A k \in 1 .. m : n + 1 + k \in 1 .. n + (m + 1) /\ ~ (n + 1 + k <= n) /\ (n + 1 + k) - n = k + 1
        /\ n + (m + 1) = n + 1 + m
    BY <1>5
  <2>7. DOMAIN full = 1 .. Len(full)
    BY <2>5
  <2>8. \A k \in 1 .. n : full[k] = name[k]
    BY <1>12, <2>5, <2>6
  <2>9. full[n + 1] = "." /\ \A k \in 1 .. m : full[n + 1 + k] = ext[k]
    BY <2>3, <2>5, <2>6
  <2> QED BY <1>1, <1>15, <2>5, <2>6, <2>7, <2>8, <2>9
<1> QED BY <1>14, <1>15

\* An entry that is found has a name that the path spells.
LEMMA HasSpells ==
  ASSUME NEW i \in Item, NEW n, NEW m, Fields(i, n, m), NEW part \in Seq(STRING)
  PROVE  HasName(i, part) <=> Spells(part, Items[i].filename, Items[i].ext, n, m)
<1>1. PICK name, ext, full : /\ name = Items[i].filename /\ ext = Items[i].ext
                             /\ full = fat16_get_full_relative_filename(Items[i])
  OBVIOUS
<1>2. /\ Len(full) = IF m = 0 THEN n ELSE n + 1 + m
      /\ DOMAIN full = 1 .. Len(full)
      /\ \A k \in 1 .. n : full[k] = name[k]
      /\ m # 0 => /\ full[n + 1] = "."
                  /\ \A k \in 1 .. m : full[n + 1 + k] = ext[k]
  BY <1>1, FullName
<1>3. n \in Nat /\ m \in Nat
  BY FieldTypes DEF Fields, CutAt
<1>4. i # Deleted
  BY ItemsAssumption
<1>5. HasName(i, part) <=> SameName(full, part)
  BY <1>1, <1>4 DEF HasName
<1>6. SameName(full, part) <=>
        /\ Len(full) = Len(part)
        /\ \A k \in 1 .. Len(full) : tolower(full[k]) = tolower(part[k])
  BY <1>2 DEF SameName
<1>7. CASE m = 0
  BY <1>1, <1>2, <1>3, <1>5, <1>6, <1>7 DEF Spells
<1>8. CASE m # 0
  <2>1. \A k \in 1 .. n + 1 + m : k \in 1 .. n \/ k = n + 1 \/ (k - (n + 1) \in 1 .. m /\ n + 1 + (k - (n + 1)) = k)
    BY <1>3
  <2>2. /\ \A k \in 1 .. n : k \in 1 .. n + 1 + m
        /\ n + 1 \in 1 .. n + 1 + m
        /\ \A k \in 1 .. m : n + 1 + k \in 1 .. n + 1 + m
    BY <1>3
  <2>3. ASSUME Spells(part, name, ext, n, m) PROVE SameName(full, part)
    BY <1>2, <1>3, <1>6, <1>8, <2>1, <2>3 DEF Spells
  <2>4. ASSUME SameName(full, part) PROVE Spells(part, name, ext, n, m)
    BY <1>2, <1>3, <1>6, <1>8, <2>2, <2>4 DEF Spells
  <2> QED BY <1>1, <1>5, <2>3, <2>4
<1> QED BY <1>7, <1>8

\* A string of l characters and the field of N characters it may be padded to.
IsField(str, l, field, N) ==
  /\ l \in Nat /\ Len(str) = l
  /\ field \in Seq(STRING) /\ N \in Nat /\ Len(field) = N /\ l <= N

FieldSays(str, l, field, N) ==
  /\ \A k \in 1 .. l : tolower(str[k]) = tolower(field[k])
  /\ \A k \in l + 1 .. N : field[k] = Space

\* A field is a name with its padding if it agrees with the name and is padded
\* behind it, and the other way round.
LEMMA PaddedField ==
  ASSUME LettersOnly, NEW str, NEW l, NEW field, NEW N, IsField(str, l, field, N)
  PROVE  Padded(str, N) = LowerCase(field) <=> FieldSays(str, l, field, N)
<1>1. DOMAIN field = 1 .. N /\ N \in Nat /\ l \in Nat /\ l <= N /\ Len(str) = l
  BY DEF IsField
<1>2. Padded(str, N) = LowerCase(field) <=>
        \A k \in 1 .. N : (IF k <= l THEN tolower(str[k]) ELSE Space) = tolower(field[k])
  <2>1. PICK p, f : p = Padded(str, N) /\ f = LowerCase(field)
    OBVIOUS
  <2>2. /\ p = [k \in 1 .. N |-> IF k <= l THEN tolower(str[k]) ELSE Space]
        /\ f = [k \in 1 .. N |-> tolower(field[k])]
    BY <1>1, <2>1 DEF Padded, LowerCase
  <2>3. p = f <=> \A k \in 1 .. N : p[k] = f[k]
    BY <2>2
  <2> QED BY <2>1, <2>2, <2>3
<1>3. \A c : tolower(c) = Space <=> c = Space
  BY CaseKeeps
<1>4. /\ \A k \in 1 .. N : (k <= l => k \in 1 .. l) /\ (~ (k <= l) => k \in l + 1 .. N)
      /\ \A k \in 1 .. l : k \in 1 .. N /\ k <= l
      /\ \A k \in l + 1 .. N : k \in 1 .. N /\ ~ (k <= l)
  BY <1>1
<1>5. ASSUME \A k \in 1 .. N : (IF k <= l THEN tolower(str[k]) ELSE Space) = tolower(field[k])
      PROVE  /\ \A k \in 1 .. l : tolower(str[k]) = tolower(field[k])
             /\ \A k \in l + 1 .. N : field[k] = Space
  BY <1>3, <1>4, <1>5
<1>6. ASSUME \A k \in 1 .. l : tolower(str[k]) = tolower(field[k]),
             \A k \in l + 1 .. N : field[k] = Space
      PROVE  \A k \in 1 .. N : (IF k <= l THEN tolower(str[k]) ELSE Space) = tolower(field[k])
  BY <1>3, <1>4, <1>6
<1> QED BY <1>2, <1>5, <1>6 DEF FieldSays

\* What a path's part is after a name of n characters and a dot.
LEMMA Parts ==
  ASSUME NEW part \in Seq(STRING), NEW n \in Nat, n <= Len(part)
  PROVE  /\ Len(SubSeq(part, 1, n)) = n /\ \A k \in 1 .. n : SubSeq(part, 1, n)[k] = part[k]
         /\ Len(SubSeq(part, n + 2, Len(part)))
              = IF Len(part) <= n + 1 THEN 0 ELSE Len(part) - n - 1
         /\ \A k \in 1 .. Len(part) - n - 1 :
              SubSeq(part, n + 2, Len(part))[k] = part[n + 1 + k]
<1>1. PICK len : len = Len(part)
  OBVIOUS
<1>2. len \in Nat /\ \A k \in 1 .. len : part[k] \in STRING
  BY <1>1
<1>3. PICK s, t : s = SubSeq(part, 1, n) /\ t = SubSeq(part, n + 2, len)
  OBVIOUS
<1>4. Len(s) = n /\ \A k \in 1 .. n : s[k] = part[k]
  <2>1. \A k \in 1 .. n : part[k] \in STRING
    BY <1>1, <1>2
  <2>2. Len(s) = (IF 1 <= n THEN n - 1 + 1 ELSE 0) /\ \A k \in 1 .. n - 1 + 1 : s[k] = part[1 + k - 1]
    BY <1>3, <2>1, SubSeqProperties
  <2>3. \A k \in 1 .. n : k \in 1 .. n - 1 + 1 /\ 1 + k - 1 = k
    OBVIOUS
  <2> QED BY <2>2, <2>3
<1>5. /\ Len(t) = IF len <= n + 1 THEN 0 ELSE len - n - 1
      /\ \A k \in 1 .. len - n - 1 : t[k] = part[n + 1 + k]
  <2>1. PICK a : a = n + 2
    OBVIOUS
  <2>2. \A k \in a .. len : part[k] \in STRING
    BY <1>2, <2>1
  <2>3. a \in Int /\ len \in Int
    BY <1>2, <2>1
  <2>4. Len(t) = (IF a <= len THEN len - a + 1 ELSE 0) /\ \A k \in 1 .. len - a + 1 : t[k] = part[a + k - 1]
    BY <1>3, <2>1, <2>2, <2>3, SubSeqProperties
  <2>5. \A k \in 1 .. len - n - 1 : k \in 1 .. len - a + 1 /\ a + k - 1 = n + 1 + k
    BY <1>2, <2>1
  <2>6. (a <= len <=> ~ (len <= n + 1)) /\ len - a + 1 = len - n - 1
    BY <1>2, <2>1
  <2> QED BY <2>4, <2>5, <2>6
<1> QED BY <1>1, <1>3, <1>4, <1>5

\* Behind where it is cut a padded string is padding.
LEMMA PaddedFrom ==
  ASSUME NEW str \in Seq(STRING), NEW N \in Nat, Len(str) = N, WellPadded(str),
         NEW n, CutAt(str, N, n)
  PROVE  \A k \in n + 1 .. N : str[k] = Space
<1>1. n \in Nat /\ n <= N /\ (n = N \/ str[n + 1] = Space)
  BY DEF CutAt
<1>2. DOMAIN str = 1 .. N
  OBVIOUS
<1> SUFFICES ASSUME NEW k \in n + 1 .. N
             PROVE  str[k] = Space
  OBVIOUS
<1>3. k \in 1 .. N /\ n + 1 \in 1 .. N /\ n # N /\ (k = n + 1 \/ n + 1 < k)
  BY <1>1
<1>4. CASE k = n + 1
  BY <1>1, <1>3, <1>4
<1>5. CASE n + 1 < k
  <2>1. PICK j : j = n + 1
    OBVIOUS
  <2>2. j \in DOMAIN str /\ k \in DOMAIN str /\ str[j] = Space /\ j < k
    BY <1>1, <1>2, <1>3, <1>5, <2>1
  <2> QED BY <2>2 DEF WellPadded
<1> QED BY <1>3, <1>4, <1>5

\* What a path spells is what it names.
LEMMA SpelledNames ==
  ASSUME LettersOnly, NEW i \in Item,
         WellPadded(Items[i].filename), Items[i].filename[1] # Space, WellPadded(Items[i].ext),
         NEW n, NEW m, Fields(i, n, m), NEW part \in Seq(STRING),
         Spells(part, Items[i].filename, Items[i].ext, n, m)
  PROVE  Names(part, i)
<1>1. PICK name, ext, N, E, len : /\ name = Items[i].filename /\ ext = Items[i].ext
                                  /\ N = NameSize /\ E = ExtSize /\ len = Len(part)
  OBVIOUS
<1>2. /\ name \in Seq(STRING) /\ Len(name) = N /\ ext \in Seq(STRING) /\ Len(ext) = E
      /\ N \in Nat \ {0} /\ E \in Nat \ {0} /\ len \in Nat
      /\ DOMAIN name = 1 .. N /\ DOMAIN ext = 1 .. E /\ DOMAIN part = 1 .. len
  BY <1>1, FieldTypes
<1>3. CutAt(name, N, n) /\ CutAt(ext, E, m) /\ WellPadded(name) /\ WellPadded(ext) /\ name[1] # Space
  BY <1>1 DEF Fields
<1>4. n \in 1 .. N /\ m \in 0 .. E /\ n \in Nat /\ m \in Nat
      /\ (\A k \in 1 .. n : name[k] # Space) /\ (\A k \in 1 .. m : ext[k] # Space)
  <2>1. n = 0 => n = N \/ n = Len(name) \/ name[n + 1] = Space
    BY <1>3 DEF CutAt
  <2>2. n # 0
    BY <1>2, <1>3, <2>1
  <2> QED BY <1>2, <1>3, <2>2 DEF CutAt
<1>5. \A k \in n + 1 .. N : name[k] = Space
  BY <1>2, <1>3, PaddedFrom
<1>6. \A k \in m + 1 .. E : ext[k] = Space
  BY <1>2, <1>3, PaddedFrom
<1>7. /\ len = IF m = 0 THEN n ELSE n + 1 + m
      /\ \A k \in 1 .. n : tolower(part[k]) = tolower(name[k])
      /\ m # 0 => /\ tolower(part[n + 1]) = tolower(".")
                  /\ \A k \in 1 .. m : tolower(part[n + 1 + k]) = tolower(ext[k])
  BY <1>1 DEF Spells
<1>8. PICK str, tail : str = SubSeq(part, 1, n) /\ tail = SubSeq(part, n + 2, len)
  OBVIOUS
<1>9. /\ Len(str) = n /\ \A k \in 1 .. n : str[k] = part[k]
      /\ Len(tail) = IF len <= n + 1 THEN 0 ELSE len - n - 1
      /\ \A k \in 1 .. len - n - 1 : tail[k] = part[n + 1 + k]
  <2>1. n <= len
    BY <1>4, <1>7
  <2> QED BY <1>1, <1>4, <1>8, <2>1, Parts
<1>10. Len(tail) = m /\ \A k \in 1 .. m : tail[k] = part[n + 1 + k]
  <2>1. CASE m = 0
    BY <1>4, <1>7, <1>9, <2>1
  <2>2. CASE m # 0
    <3>1. len = n + 1 + m /\ ~ (len <= n + 1) /\ len - n - 1 = m
      BY <1>4, <1>7, <2>2
    <3> QED BY <1>9, <3>1
  <2> QED BY <2>1, <2>2
<1>11. Padded(str, N) = LowerCase(name)
  <2>1. n <= N /\ \A k \in 1 .. n : tolower(str[k]) = tolower(name[k])
    BY <1>2, <1>4, <1>7, <1>9
  <2>2. name \in Seq(STRING) /\ Len(name) = N /\ N \in Nat /\ n \in Nat /\ Len(str) = n
    BY <1>2, <1>4, <1>9
  <2>3. IsField(str, n, name, N) /\ FieldSays(str, n, name, N)
    BY <1>5, <2>1, <2>2 DEF IsField, FieldSays
  <2> QED BY <2>3, PaddedField
<1>12. Padded(tail, E) = LowerCase(ext)
  <2>1. m <= E /\ \A k \in 1 .. m : tolower(tail[k]) = tolower(ext[k])
    BY <1>2, <1>4, <1>7, <1>10
  <2>2. ext \in Seq(STRING) /\ Len(ext) = E /\ E \in Nat /\ m \in Nat /\ Len(tail) = m
    BY <1>2, <1>4, <1>10
  <2>3. IsField(tail, m, ext, E) /\ FieldSays(tail, m, ext, E)
    BY <1>6, <2>1, <2>2 DEF IsField, FieldSays
  <2> QED BY <2>3, PaddedField
<1>13. \A k \in 1 .. len : part[k] # Space
  <2>1. ASSUME NEW k \in 1 .. n PROVE part[k] # Space
    BY <1>4, <1>7, CaseKeeps
  <2>2. ASSUME m # 0 PROVE part[n + 1] # Space
    <3>1. tolower(".") = "."
      BY CaseKeeps
    <3>2. "." # Space
      BY DEF Space
    <3> QED BY <1>7, <2>2, <3>1, <3>2, CaseKeeps
  <2>3. ASSUME NEW k \in 1 .. m PROVE part[n + 1 + k] # Space
    <3>1. m # 0
      BY <1>4
    <3> QED BY <1>4, <1>7, <3>1, CaseKeeps
  <2>4. ASSUME NEW k \in 1 .. len
        PROVE  k \in 1 .. n \/ (m # 0 /\ (k = n + 1 \/ (k - (n + 1) \in 1 .. m /\ n + 1 + (k - (n + 1)) = k)))
    BY <1>2, <1>4, <1>7
  <2> QED BY <2>1, <2>2, <2>3, <2>4
<1>14. Space \notin Range(part)
  BY <1>2, <1>13 DEF Range
<1>15. n <= len /\ len <= n + 1 + E
  BY <1>2, <1>4, <1>7
<1>16. ASSUME n < len PROVE part[n + 1] = "." /\ tail # <<>>
  <2>1. m # 0
    BY <1>4, <1>7, <1>16
  <2>2. tail # <<>>
    BY <1>10, <2>1
  <2> QED BY <1>7, <2>1, <2>2, CaseKeeps
<1> QED BY <1>1, <1>4, <1>8, <1>11, <1>12, <1>14, <1>15, <1>16 DEF Names

LEMMA HasNames ==
  ASSUME LettersOnly, NEW i \in Item,
         WellPadded(Items[i].filename), Items[i].filename[1] # Space, WellPadded(Items[i].ext),
         NEW part \in Seq(STRING), HasName(i, part)
  PROVE  Names(part, i)
<1>1. PICK n, m : CutAt(Items[i].filename, NameSize, n) /\ CutAt(Items[i].ext, ExtSize, m)
  BY FieldTypes, ProperCut
<1>2. Fields(i, n, m)
  BY <1>1 DEF Fields
<1> QED BY <1>2, HasSpells, SpelledNames

\* What a path names is what it spells.
LEMMA NamesHas ==
  ASSUME LettersOnly, NEW i \in Item, NEW part \in Seq(STRING), Names(part, i)
  PROVE  HasName(i, part)
<1>1. PICK name, ext, N, E, len : /\ name = Items[i].filename /\ ext = Items[i].ext
                                  /\ N = NameSize /\ E = ExtSize /\ len = Len(part)
  OBVIOUS
<1>2. /\ name \in Seq(STRING) /\ Len(name) = N /\ ext \in Seq(STRING) /\ Len(ext) = E
      /\ N \in Nat \ {0} /\ E \in Nat \ {0} /\ len \in Nat
      /\ DOMAIN name = 1 .. N /\ DOMAIN ext = 1 .. E /\ DOMAIN part = 1 .. len
  BY <1>1, FieldTypes
<1>3. PICK n \in 1 .. N :
        LET tail == SubSeq(part, n + 2, len)
        IN  /\ n <= len /\ len <= n + 1 + E
            /\ Space \notin Range(part)
            /\ Padded(SubSeq(part, 1, n), N) = LowerCase(name)
            /\ Padded(tail, E) = LowerCase(ext)
            /\ n < len => part[n + 1] = "." /\ tail # <<>>
  BY <1>1 DEF Names
<1>4. PICK str, tail : str = SubSeq(part, 1, n) /\ tail = SubSeq(part, n + 2, len)
  OBVIOUS
<1>5. /\ n <= len /\ len <= n + 1 + E /\ Space \notin Range(part)
      /\ Padded(str, N) = LowerCase(name) /\ Padded(tail, E) = LowerCase(ext)
      /\ n < len => part[n + 1] = "." /\ tail # <<>>
  BY <1>3, <1>4
<1>6. n \in Nat /\ n <= N /\ n # 0
  BY <1>2
<1>7. /\ Len(str) = n /\ \A k \in 1 .. n : str[k] = part[k]
      /\ Len(tail) = IF len <= n + 1 THEN 0 ELSE len - n - 1
      /\ \A k \in 1 .. len - n - 1 : tail[k] = part[n + 1 + k]
  BY <1>1, <1>4, <1>5, <1>6, Parts
<1>8. PICK m : m = IF len <= n + 1 THEN 0 ELSE len - n - 1
  OBVIOUS
<1>9. /\ m \in Nat /\ m <= E /\ Len(tail) = m /\ len = IF m = 0 THEN n ELSE n + 1 + m
      /\ \A k \in 1 .. m : tail[k] = part[n + 1 + k]
  <2>1. m \in Nat /\ m <= E /\ Len(tail) = m
    BY <1>2, <1>5, <1>6, <1>7, <1>8
  <2>2. tail \in Seq(STRING)
    <3>1. part \in Seq(STRING) /\ DOMAIN part = 1 .. len
      BY <1>2
    <3>2. PICK a : a = n + 2
      OBVIOUS
    <3>3. \A k \in a .. len : part[k] \in STRING
      BY <1>2, <1>6, <3>1, <3>2
    <3> QED BY <1>2, <1>4, <1>6, <3>2, <3>3, SubSeqProperties
  <2>3. n < len => m # 0
    BY <1>5, <2>1, <2>2
  <2>4. len = IF m = 0 THEN n ELSE n + 1 + m
    BY <1>2, <1>5, <1>6, <1>8, <2>3
  <2>5. m # 0 => m = len - n - 1
    BY <1>8
  <2> QED BY <1>7, <2>1, <2>4, <2>5
<1>10. /\ \A k \in 1 .. n : tolower(str[k]) = tolower(name[k])
       /\ \A k \in n + 1 .. N : name[k] = Space
  <2>1. name \in Seq(STRING) /\ Len(name) = N /\ N \in Nat /\ n \in Nat /\ Len(str) = n /\ n <= N
    BY <1>2, <1>6, <1>7
  <2>2. IsField(str, n, name, N)
    BY <2>1 DEF IsField
  <2>3. FieldSays(str, n, name, N)
    BY <1>5, <2>2, PaddedField
  <2> QED BY <2>3 DEF FieldSays
<1>11. /\ \A k \in 1 .. m : tolower(tail[k]) = tolower(ext[k])
       /\ \A k \in m + 1 .. E : ext[k] = Space
  <2>1. ext \in Seq(STRING) /\ Len(ext) = E /\ E \in Nat /\ m \in Nat /\ Len(tail) = m /\ m <= E
    BY <1>2, <1>9
  <2>2. IsField(tail, m, ext, E)
    BY <2>1 DEF IsField
  <2>3. FieldSays(tail, m, ext, E)
    BY <1>5, <2>2, PaddedField
  <2> QED BY <2>3 DEF FieldSays
<1>12. \A k \in 1 .. len : part[k] # Space
  BY <1>2, <1>5 DEF Range
<1>13. CutAt(name, N, n)
  <2>1. ASSUME NEW k \in 1 .. n PROVE name[k] # Space
    <3>1. k \in 1 .. len
      BY <1>2, <1>5, <1>6
    <3> QED BY <1>7, <1>10, <1>12, <3>1, CaseKeeps
  <2>2. n = N \/ name[n + 1] = Space
    BY <1>2, <1>6, <1>10
  <2> QED BY <1>2, <1>6, <2>1, <2>2 DEF CutAt
<1>14. CutAt(ext, E, m)
  <2>1. ASSUME NEW k \in 1 .. m PROVE ext[k] # Space
    <3>1. n + 1 + k \in 1 .. len
      BY <1>2, <1>6, <1>9
    <3> QED BY <1>9, <1>11, <1>12, <3>1, CaseKeeps
  <2>2. m = E \/ ext[m + 1] = Space
    BY <1>2, <1>9, <1>11
  <2> QED BY <1>2, <1>9, <2>1, <2>2 DEF CutAt
<1>15. Fields(i, n, m)
  BY <1>1, <1>13, <1>14 DEF Fields
<1>16. Spells(part, name, ext, n, m)
  <2>1. m # 0 => n < len
    BY <1>2, <1>6, <1>9
  <2> QED BY <1>1, <1>5, <1>7, <1>9, <1>10, <1>11, <2>1 DEF Spells
<1> QED BY <1>1, <1>15, <1>16, HasSpells

-----------------------------------------------------------------------------
(* What a path leads to                                                    *)

\* Entries that have one name are the same.
LEMMA OneHas ==
  ASSUME NEW entries, OneOfEachName(entries), NEW part \in Seq(STRING),
         NEW i \in Item, NEW j \in Item, i \in Range(entries), j \in Range(entries),
         HasName(i, part), HasName(j, part)
  PROVE  i = j
<1>1. PICK a, b : /\ a = fat16_get_full_relative_filename(Items[i])
                  /\ b = fat16_get_full_relative_filename(Items[j])
  OBVIOUS
<1>2. SameName(a, part) /\ SameName(b, part)
  BY <1>1 DEF HasName
<1>3. DOMAIN a = 1 .. Len(a) /\ DOMAIN b = 1 .. Len(b)
  <2>1. \A l \in Item : \E n, m : Fields(l, n, m)
    <3>1. ASSUME NEW l \in Item PROVE \E n, m : Fields(l, n, m)
      BY FieldTypes, ProperCut DEF Fields
    <3> QED BY <3>1
  <2> QED BY <1>1, <2>1, FullName
<1>4. SameName(a, b)
  BY <1>2, <1>3 DEF SameName
<1>5. i # Deleted /\ j # Deleted
  BY ItemsAssumption
<1> QED BY <1>1, <1>4, <1>5 DEF OneOfEachName

\* A search in a directory without deleted entries finds what it is for.
LEMMA FindsOne ==
  ASSUME NEW entries \in Seq(Item \cup {Deleted}), Deleted \notin Range(entries),
         OneOfEachName(entries), NEW part \in Seq(STRING),
         NEW i \in Item, i \in Range(entries), HasName(i, part)
  PROVE  fat16_find_item_in_directory(entries, part) = i
<1>1. PICK n : n = Len(entries)
  OBVIOUS
<1>2. n \in Nat /\ DOMAIN entries = 1 .. n
  BY <1>1
<1>3. Cardinality(Used(entries)) = n
  <2>1. Used(entries) = 1 .. n
    BY <1>2 DEF Used, Range
  <2> QED BY <1>2, <2>1, FS_Interval
<1>4. DOMAIN Loaded(entries) = 1 .. n
  BY <1>1, <1>2, <1>3 DEF Loaded
<1>5. PICK found : found = {k \in DOMAIN Loaded(entries) : HasName(entries[k], part)}
  OBVIOUS
<1>6. PICK k \in 1 .. n : entries[k] = i
  BY <1>2 DEF Range
<1>7. found # {} /\ found \subseteq 1 .. n
  BY <1>4, <1>5, <1>6
<1>8. Max(found) \in found
  <2>1. found \subseteq 0 .. n
    BY <1>2, <1>7
  <2> QED BY <1>2, <1>7, <2>1, GreatestNat
<1>9. HasName(entries[Max(found)], part) /\ Max(found) \in 1 .. n
  BY <1>5, <1>7, <1>8
<1>10. entries[Max(found)] \in Item /\ entries[Max(found)] \in Range(entries)
  <2>1. entries[Max(found)] \in Range(entries) /\ entries[Max(found)] \in Item \cup {Deleted}
    BY <1>1, <1>2, <1>9 DEF Range
  <2> QED BY <2>1
<1>11. entries[Max(found)] = i
  BY <1>9, <1>10, OneHas
<1> QED BY <1>5, <1>7, <1>11 DEF fat16_find_item_in_directory

\* The walk along a path, from one item to the next.
LEMMA Walk ==
  ASSUME NEW parts \in Seq(Seq(STRING)) \ {<<>>}
  PROVE  LET m == Len(parts)
         IN  /\ m \in Nat \ {0} /\ DOMAIN parts = 1 .. m
             /\ \A k \in 1 .. m : parts[k] \in Seq(STRING)
             /\ \E f : /\ fat16_get_directory_entry(parts) = f[m]
                       /\ f = [k \in 1 .. m |-> f[k]]
                       /\ \A k \in 1 .. m : f[k] = PathTurn(f, parts, k)
<1>1. PICK m : m = Len(parts)
  OBVIOUS
<1>2. m \in Nat \ {0} /\ DOMAIN parts = 1 .. m /\ \A k \in 1 .. m : parts[k] \in Seq(STRING)
  BY <1>1
<1>3. PICK f : Walks(f, parts, m) /\ fat16_get_directory_entry(parts) = f[m]
  <2>1. \E f : Walks(f, parts, m)
    BY <1>2, WalkExists
  <2> QED BY <2>1, <1>1 DEF fat16_get_directory_entry, Walks, PathTurn
<1>4. f = [k \in 1 .. m |-> f[k]] /\ \A k \in 1 .. m : f[k] = PathTurn(f, parts, k)
  BY <1>3 DEF Walks
<1> QED BY <1>1, <1>2, <1>3, <1>4

\* The directory in which the next part of a path is looked up.
EntriesAt(f, k) == IF k = 1 THEN Root ELSE Items[f[k - 1]].entries

\* What a path's walk ends at has the name that each part says on the way.
LEMMA WalkLeads ==
  ASSUME WellNamed, NEW parts \in Seq(Seq(STRING)) \ {<<>>},
         fat16_get_directory_entry(parts) # NULL
  PROVE  /\ fat16_get_directory_entry(parts) \in Item
         /\ LeadsTo(parts, fat16_get_directory_entry(parts))
<1>1. PICK m : m = Len(parts)
  OBVIOUS
<1>2. m \in Nat \ {0} /\ DOMAIN parts = 1 .. m /\ \A k \in 1 .. m : parts[k] \in Seq(STRING)
  BY <1>1, Walk
<1>3. PICK f : /\ fat16_get_directory_entry(parts) = f[m]
               /\ f = [k \in 1 .. m |-> f[k]]
               /\ \A k \in 1 .. m : f[k] = PathTurn(f, parts, k)
  BY <1>1, Walk
<1> DEFINE G == {k \in 0 .. m : k # 0 /\ f[k] # NULL => \A j \in 1 .. k : f[j] # NULL}
<1>4. 0 \in G
  BY <1>2
<1>5. ASSUME NEW k \in 0 .. m, k \in G, k < m PROVE k + 1 \in G
  <2>1. PICK l : l = k + 1
    OBVIOUS
  <2>2. l \in 1 .. m /\ l - 1 = k /\ \A j \in 1 .. l : j = l \/ (k # 0 /\ j \in 1 .. k)
    BY <1>2, <1>5, <2>1
  <2>3. f[l] = PathTurn(f, parts, l)
    BY <1>3, <2>2
  <2>4. k # 0 /\ f[l] # NULL => f[k] # NULL
    <3>1. k # 0 => l # 1
      BY <2>1
    <3> QED BY <2>2, <2>3, <3>1 DEF PathTurn
  <2>5. l \in 0 .. m /\ (f[l] # NULL => \A j \in 1 .. l : f[j] # NULL)
    BY <1>2, <1>5, <2>2, <2>4
  <2> QED BY <2>1, <2>5
<1>6. 0 .. m \subseteq G
  <2> HIDE DEF G
  <2> QED BY <1>2, <1>4, <1>5, SetInduction
<1>7. \A k \in 1 .. m : f[k] # NULL
  <2>1. m \in G
    BY <1>2, <1>6
  <2> QED BY <1>2, <1>3, <2>1
<1>8. ASSUME NEW k \in 1 .. m
      PROVE  /\ f[k] \in Item
             /\ f[k] \in Range(EntriesAt(f, k))
             /\ HasName(f[k], parts[k])
  <2> DEFINE H == {j \in 0 .. m : j # 0 => /\ f[j] \in Item
                                            /\ f[j] \in Range(EntriesAt(f, j))
                                            /\ HasName(f[j], parts[j])}
  <2>1. 0 \in H
    BY <1>2
  <2>2. ASSUME NEW j \in 0 .. m, j \in H, j < m PROVE j + 1 \in H
    <3>1. PICK l : l = j + 1
      OBVIOUS
    <3>2. l \in 1 .. m /\ l \in 0 .. m /\ l - 1 = j /\ (l # 1 => j # 0 /\ j \in 1 .. m)
      BY <1>2, <2>2, <3>1
    <3>3. PICK dir : dir = EntriesAt(f, l)
      OBVIOUS
    <3>4. f[l] = PathTurn(f, parts, l) /\ f[l] # NULL
      BY <1>3, <1>7, <3>2
    <3>5. f[l] = fat16_find_item_in_directory(dir, parts[l])
      BY <3>2, <3>3, <3>4 DEF PathTurn, EntriesAt
    <3>6. dir \in Seq(Item \cup {Deleted})
      <4>1. CASE l = 1
        BY <3>3, <4>1, ItemsAssumption DEF EntriesAt
      <4>2. CASE l # 1
        <5>1. f[j] \in Item
          BY <2>2, <3>2, <4>2
        <5> QED BY <3>2, <3>3, <4>2, <5>1, ItemsAssumption DEF EntriesAt
      <4> QED BY <4>1, <4>2
    <3>7. f[l] \in Item \cap Range(dir) /\ HasName(f[l], parts[l])
      BY <3>4, <3>5, <3>6, Finds
    <3> QED BY <3>1, <3>2, <3>3, <3>7
  <2>3. 0 .. m \subseteq H
    <3> HIDE DEF H
    <3> QED BY <1>2, <2>1, <2>2, SetInduction
  <2>4. k \in H /\ k # 0
    BY <1>2, <2>3
  <2> QED BY <2>4
<1>9. ASSUME NEW k \in 1 .. m PROVE Names(parts[k], f[k])
  BY <1>2, <1>8, HasNames DEF WellNamed
<1>10. f \in [DOMAIN parts -> Item]
  BY <1>2, <1>3, <1>8
<1>11. \A k \in DOMAIN parts :
         f[k] \in Range(IF k = 1 THEN Root ELSE Items[f[k - 1]].entries)
  BY <1>2, <1>8 DEF EntriesAt
<1>12. f[m] \in Item
  BY <1>2, <1>8
<1> QED BY <1>1, <1>2, <1>3, <1>9, <1>10, <1>11, <1>12 DEF LeadsTo

\* If no deleted entry is on the way, the walk goes it.
LEMMA WayFound ==
  ASSUME WellNamed, NEW parts \in Seq(Seq(STRING)) \ {<<>>}, Complete(parts),
         NEW item \in Item, LeadsTo(parts, item)
  PROVE  fat16_get_directory_entry(parts) = item
<1>1. PICK m : m = Len(parts)
  OBVIOUS
<1>2. m \in Nat \ {0} /\ DOMAIN parts = 1 .. m /\ \A k \in 1 .. m : parts[k] \in Seq(STRING)
  BY <1>1, Walk
<1>3. PICK f : /\ fat16_get_directory_entry(parts) = f[m]
               /\ f = [k \in 1 .. m |-> f[k]]
               /\ \A k \in 1 .. m : f[k] = PathTurn(f, parts, k)
  BY <1>1, Walk
<1>4. PICK way \in [1 .. m -> Item] :
        /\ way[m] = item
        /\ \A k \in 1 .. m : Names(parts[k], way[k]) /\ way[k] \in Range(EntriesAt(way, k))
  BY <1>1, <1>2 DEF LeadsTo, EntriesAt
<1>5. ASSUME NEW k \in 1 .. m
      PROVE  /\ EntriesAt(way, k) \in Seq(Item \cup {Deleted})
             /\ Deleted \notin Range(EntriesAt(way, k))
             /\ OneOfEachName(EntriesAt(way, k))
  <2>1. CASE k = 1
    <3>1. EntriesAt(way, k) = Root
      BY <2>1 DEF EntriesAt
    <3> QED BY <3>1, ItemsAssumption DEF Complete, WellNamed
  <2>2. CASE k # 1
    <3>1. PICK j : j = k - 1
      OBVIOUS
    <3>2. j \in 1 .. m /\ EntriesAt(way, k) = Items[way[j]].entries
      BY <1>2, <2>2, <3>1 DEF EntriesAt
    <3>3. way[j] \in Item /\ Names(parts[j], way[j]) /\ parts[j] \in Range(parts)
      BY <1>2, <1>4, <3>2 DEF Range
    <3>4. Deleted \notin Range(Items[way[j]].entries)
      BY <3>3 DEF Complete
    <3> QED BY <3>2, <3>3, <3>4, ItemsAssumption DEF WellNamed
  <2> QED BY <2>1, <2>2
<1>6. ASSUME NEW k \in 1 .. m
      PROVE  fat16_find_item_in_directory(EntriesAt(way, k), parts[k]) = way[k]
  <2>1. PICK dir, i : dir = EntriesAt(way, k) /\ i = way[k]
    OBVIOUS
  <2>2. i \in Item /\ Names(parts[k], i) /\ i \in Range(dir) /\ parts[k] \in Seq(STRING)
    BY <1>2, <1>4, <2>1
  <2>3. HasName(i, parts[k])
    BY <2>2, NamesHas DEF WellNamed
  <2>4. dir \in Seq(Item \cup {Deleted}) /\ Deleted \notin Range(dir) /\ OneOfEachName(dir)
    BY <1>5, <2>1
  <2>5. fat16_find_item_in_directory(dir, parts[k]) = i
    BY <2>2, <2>3, <2>4, FindsOne
  <2> QED BY <2>1, <2>5
<1> DEFINE G == {k \in 0 .. m : k # 0 => f[k] = way[k]}
<1>7. 0 \in G
  BY <1>2
<1>8. ASSUME NEW k \in 0 .. m, k \in G, k < m PROVE k + 1 \in G
  <2>1. PICK l : l = k + 1
    OBVIOUS
  <2>2. l \in 1 .. m /\ l \in 0 .. m /\ l - 1 = k /\ (l # 1 => k # 0 /\ k \in 1 .. m)
    BY <1>2, <1>8, <2>1
  <2>3. f[l] = PathTurn(f, parts, l)
    BY <1>3, <2>2
  <2>4. fat16_find_item_in_directory(EntriesAt(way, l), parts[l]) = way[l]
    BY <1>6, <2>2
  <2>5. CASE l = 1
    <3>1. f[l] = way[l]
      BY <2>3, <2>4, <2>5 DEF PathTurn, EntriesAt
    <3> QED BY <2>1, <2>2, <3>1
  <2>6. CASE l # 1
    <3>1. f[k] = way[k] /\ way[k] \in Item /\ way[k] # NULL
      BY <1>4, <1>8, <2>2, <2>6, ItemsAssumption
    <3>2. Items[way[k]].type = "DIRECTORY"
      <4>1. way[l] \in Range(Items[way[k]].entries)
        BY <1>4, <2>2, <2>6 DEF EntriesAt
      <4>2. Items[way[k]].entries # <<>>
        BY <4>1 DEF Range
      <4> QED BY <3>1, <4>2, ItemsAssumption
    <3>3. f[l] = way[l]
      BY <2>2, <2>3, <2>4, <2>6, <3>1, <3>2 DEF PathTurn, EntriesAt
    <3> QED BY <2>1, <2>2, <3>3
  <2> QED BY <2>5, <2>6
<1>9. 0 .. m \subseteq G
  <2> HIDE DEF G
  <2> QED BY <1>2, <1>7, <1>8, SetInduction
<1>10. m \in G /\ m # 0
  BY <1>2, <1>9
<1> QED BY <1>3, <1>4, <1>10

\* A call of fopen for reading, on a table of any descriptors.
LEMMA OpenStep ==
  ASSUME WellNamed, TypeOK, NEW path \in Paths, fopen(path, "r"),
         path.drive = 0, <<>> \notin Range(path.parts)
  PROVE  LET fd == out'.res
         IN  \/ /\ fd > 0
                /\ file_descriptors[fd] = NULL
                /\ file_descriptors'[fd].item \in Named[path]
                /\ file_descriptors'[fd].pos = 0
             \/ /\ fd = 0
                /\ \/ Named[path] = {}
                   \/ \A i \in DOMAIN file_descriptors : file_descriptors[i] # NULL
                   \/ ~ Complete(path.parts)
<1>1. PICK parts : parts = path.parts
  OBVIOUS
<1>2. parts \in Seq(Seq(STRING)) \ {<<>>}
  BY <1>1, FileAssumption
<1>3. pathparser_parse(parts) = parts
  <2>1. {i \in 1 .. Len(parts) : parts[i] = <<>>} = {}
    BY <1>1, <1>2 DEF Range
  <2> QED BY <2>1 DEF pathparser_parse, SelectInSeq
<1>4. PICK item : item = fat16_get_directory_entry(parts)
  OBVIOUS
<1>5. fat16_open(path, "r") = item
  BY <1>1, <1>2, <1>3, <1>4 DEF fat16_open
<1>6. PICK fd : fd = IF item = NULL THEN 0 ELSE file_new_descriptor
  OBVIOUS
<1>7. /\ out'.res = fd
      /\ file_descriptors' = IF fd = 0 THEN file_descriptors
                             ELSE [file_descriptors EXCEPT ![fd] = [item |-> item, pos |-> 0]]
  BY <1>5, <1>6 DEF fopen, Reply
<1>8. Named[path] = {i \in Item : LeadsTo(parts, i)}
  BY <1>1 DEF Named
<1>9. CASE item = NULL
  <2>1. fd = 0
    BY <1>6, <1>9
  <2>2. ASSUME Complete(parts), NEW i \in Named[path] PROVE FALSE
    <3>1. i \in Item /\ LeadsTo(parts, i)
      BY <1>8, <2>2
    <3>2. item = i
      BY <1>2, <1>4, <2>2, <3>1, WayFound
    <3> QED BY <1>9, <3>1, <3>2, ItemsAssumption
  <2> QED BY <1>1, <1>7, <2>1, <2>2
<1>10. CASE item # NULL
  <2>1. item \in Named[path]
    BY <1>2, <1>4, <1>8, <1>10, WalkLeads
  <2>2. PICK free : free = {i \in DOMAIN file_descriptors : file_descriptors[i] = NULL}
    OBVIOUS
  <2>3. fd = IF free = {} THEN 0 ELSE Min(free)
    BY <1>6, <1>10, <2>2 DEF file_new_descriptor
  <2>4. CASE free = {}
    BY <1>7, <2>2, <2>3, <2>4
  <2>5. CASE free # {}
    <3>1. DOMAIN file_descriptors = 1 .. MaxDescriptors
      BY DEF TypeOK
    <3>2. free \subseteq Nat
      BY <2>2, <3>1, FileAssumption
    <3>3. fd \in free
      BY <2>3, <2>5, <3>2, LeastNat
    <3>4. fd > 0 /\ fd # 0 /\ fd \in DOMAIN file_descriptors /\ file_descriptors[fd] = NULL
      BY <2>2, <3>1, <3>3, FileAssumption
    <3>5. file_descriptors'[fd] = [item |-> item, pos |-> 0]
      BY <1>7, <3>4
    <3> QED BY <1>7, <2>1, <3>4, <3>5
  <2> QED BY <2>4, <2>5
<1> QED BY <1>9, <1>10

\* On a disk whose names are as FAT16 has them, what fopen opens for reading is
\* what the path leads to, at its beginning and in a slot that was free, and it
\* opens nothing only if there is nothing, no slot or a deleted entry on the way
\* (fs/fat/fat16.c:582, fs/file.c:57).
THEOREM PathsOpen ==
  ASSUME WellNamed
  PROVE  Spec => OpensNamed
<1>1. TypeOK /\ [Next]_vars =>
        [out'.call = "fopen" => \A path \in Paths :
           fopen(path, "r") /\ path.drive = 0 /\ <<>> \notin Range(path.parts) =>
             LET fd == out'.res
             IN  \/ /\ fd > 0
                    /\ file_descriptors[fd] = NULL
                    /\ file_descriptors'[fd].item \in Named[path]
                    /\ file_descriptors'[fd].pos = 0
                 \/ /\ fd = 0
                    /\ \/ Named[path] = {}
                       \/ \A i \in DOMAIN file_descriptors : file_descriptors[i] # NULL
                       \/ ~ Complete(path.parts)]_vars
  BY OpenStep
<1> QED BY <1>1, TypeCorrect, PTL DEF Spec, OpensNamed

=============================================================================
