-------------------------------- MODULE Lemmas --------------------------------
(***************************************************************************)
(* Facts that the proofs of the components share: division, the least, the  *)
(* greatest and the k-th element of a set of natural numbers, and counting. *)
(***************************************************************************)
EXTENDS Integers, FiniteSetsExt, FiniteSetTheorems, WellFoundedInduction, TLAPS

\* A non-empty set of natural numbers has a least element, so Min returns it.
LEMMA LeastNat ==
  ASSUME NEW T, T \subseteq Nat, T # {}
  PROVE  Min(T) \in T /\ \A k \in T : Min(T) <= k
<1> DEFINE R == {p \in Nat \X Nat : p[1] < p[2]}
<1>1. IsWellFoundedOn(R, Nat)
  BY NatLessThanWellFounded DEF OpToRel
<1>2. PICK x \in T : \A y \in T : ~ (<<y, x>> \in R)
  <2> HIDE DEF R
  <2> QED BY <1>1, WFMin
<1>3. ASSUME NEW y \in T PROVE x <= y
  <2>1. ~ (<<y, x>> \in R)
    BY <1>2
  <2>2. ~ (y < x)
    BY <2>1
  <2> QED BY <2>2
<1>4. \E m \in T : \A k \in T : m <= k
  BY <1>3
<1> QED BY <1>4 DEF Min

\* A non-empty set of numbers up to n has a greatest element, so Max returns it.
LEMMA GreatestNat ==
  ASSUME NEW n \in Nat, NEW T, T \subseteq 0 .. n, T # {}
  PROVE  Max(T) \in T /\ \A k \in T : k <= Max(T)
<1> DEFINE S == {i \in 0 .. n : n - i \in T}
<1>1. S \subseteq Nat /\ S # {}
  <2>1. PICK k \in T : TRUE
    OBVIOUS
  <2>2. k \in 0 .. n
    BY <2>1
  <2>3. n - k \in 0 .. n /\ n - (n - k) = k
    BY <2>2
  <2>4. n - k \in S
    BY <2>1, <2>3
  <2>5. \A i \in 0 .. n : i \in Nat
    OBVIOUS
  <2>6. S \subseteq Nat
    BY <2>5
  <2> QED BY <2>4, <2>6
<1>2. PICK m : m = Min(S)
  OBVIOUS
<1>3. m \in S /\ \A i \in S : m <= i
  <2> HIDE DEF S
  <2> QED BY <1>1, <1>2, LeastNat
<1>4. ASSUME NEW k \in T PROVE k <= n - m
  <2>1. n - k \in 0 .. n /\ n - (n - k) = k
    OBVIOUS
  <2>2. m <= n - k
    BY <1>3, <2>1
  <2> QED BY <1>3, <2>1, <2>2
<1>5. n - m \in T
  BY <1>3
<1> QED BY <1>4, <1>5 DEF Max

\* A set of at least k numbers has a k-th one: that is what the n-th free
\* block of the heap and the n-th free address are.
LEMMA KthElement ==
  ASSUME NEW m \in Nat, NEW S, S \subseteq 0 .. m,
         NEW k \in Nat \ {0}, k <= Cardinality(S)
  PROVE  \E s \in S : Cardinality({t \in S : t <= s}) = k
<1> DEFINE UpTo(s) == {t \in S : t <= s}
           T == {s \in 0 .. m : k <= Cardinality(UpTo(s))}
           s == Min(T)
<1>0. \A t \in S : t \in Nat /\ t <= m
  OBVIOUS
<1>1. IsFiniteSet(S) /\ Cardinality(S) \in Nat
  <2>1. IsFiniteSet(0 .. m)
    BY FS_Interval
  <2> QED BY <2>1, FS_Subset, FS_CardinalityType
<1>2. ASSUME NEW x PROVE IsFiniteSet(UpTo(x)) /\ Cardinality(UpTo(x)) \in Nat
  <2>1. UpTo(x) \subseteq S
    OBVIOUS
  <2>2. IsFiniteSet(UpTo(x))
    BY <2>1, <1>1, FS_Subset
  <2> QED BY <2>2, FS_CardinalityType
<1>3. m \in T
  <2>1. UpTo(m) = S
    BY <1>0
  <2> QED BY <2>1
<1>4. s \in T /\ \A j \in T : s <= j
  <2>1. T \subseteq Nat /\ T # {}
    BY <1>3
  <2> HIDE DEF T
  <2> QED BY <2>1, LeastNat
<1> HIDE DEF s
<1>5. s \in 0 .. m /\ k <= Cardinality(UpTo(s))
  BY <1>4
<1>6. Cardinality(UpTo(s - 1)) < k
  <2>1. CASE s = 0
    <3>1. \A t \in S : ~ (t <= s - 1)
      BY <1>0, <2>1
    <3>2. UpTo(s - 1) = {}
      BY <3>1
    <3> QED BY <3>2, FS_EmptySet
  <2>2. CASE s # 0
    <3>1. s - 1 \in 0 .. m
      BY <2>2, <1>5
    <3>2. ~ (s <= s - 1)
      BY <1>5
    <3>3. s - 1 \notin T
      <4> HIDE DEF T
      <4> QED BY <3>2, <1>4
    <3> QED BY <3>1, <3>3, <1>2
  <2> QED BY <2>1, <2>2
<1>7. s \in S
  <2> SUFFICES ASSUME s \notin S PROVE FALSE
    OBVIOUS
  <2>1. \A t \in S : t <= s <=> t <= s - 1
    BY <1>0, <1>5
  <2>2. UpTo(s) = UpTo(s - 1)
    BY <2>1
  <2> QED BY <2>2, <1>2, <1>5, <1>6
<1>8. UpTo(s) = UpTo(s - 1) \cup {s} /\ s \notin UpTo(s - 1)
  <2>1. \A t \in S : t <= s <=> t <= s - 1 \/ t = s
    BY <1>0, <1>5
  <2>2. ~ (s <= s - 1)
    BY <1>5
  <2> QED BY <2>1, <2>2, <1>7
<1>9. Cardinality(UpTo(s)) = Cardinality(UpTo(s - 1)) + 1
  BY <1>2, <1>8, FS_AddElement
<1>10. Cardinality(UpTo(s)) = k
  <2> HIDE DEF UpTo
  <2> QED BY <1>2, <1>5, <1>6, <1>9
<1> QED BY <1>7, <1>10

-----------------------------------------------------------------------------
(* Counting                                                                *)

\* A new element makes a finite set larger by one.
LEMMA OneMore ==
  ASSUME NEW S, IsFiniteSet(S), NEW x, x \notin S
  PROVE  /\ IsFiniteSet(S \cup {x})
         /\ Cardinality(S \cup {x}) = Cardinality(S) + 1
BY FS_AddElement

-----------------------------------------------------------------------------
(* Division                                                                *)

\* Quotient and remainder are determined by what they add up to.
LEMMA DivMod ==
  ASSUME NEW d \in Nat \ {0}, NEW a \in Int, NEW r \in 0 .. d - 1
  PROVE  (d * a + r) % d = r /\ (d * a + r) \div d = a
<1>1. d * a + r \in Int
  OBVIOUS
<1> DEFINE x == d * a + r
<1>2. PICK q, m : q = x \div d /\ m = x % d
  OBVIOUS
<1>3. q \in Int /\ m \in 0 .. d - 1 /\ x = d * q + m
  BY <1>1, <1>2
<1>4. d * (a - q) = m - r
  BY <1>3
<1>5. a - q = 0
  <2>1. CASE a - q >= 1
    <3>1. d * (a - q) >= d
      BY <2>1, <1>3
    <3> QED BY <3>1, <1>3, <1>4
  <2>2. CASE a - q <= -1
    <3>1. d * (a - q) <= -d
      BY <2>2, <1>3
    <3> QED BY <3>1, <1>3, <1>4
  <2> QED BY <2>1, <2>2, <1>3
<1> QED BY <1>2, <1>3, <1>5

\* Adding a multiple of the divisor.
LEMMA AddMultiple ==
  ASSUME NEW d \in Nat \ {0}, NEW x \in Int, NEW k \in Int
  PROVE  (x + d * k) % d = x % d /\ (x + d * k) \div d = (x \div d) + k
<1>1. x = d * (x \div d) + (x % d) /\ x % d \in 0 .. d - 1 /\ x \div d \in Int
  OBVIOUS
<1>2. PICK q, m : q = x \div d /\ m = x % d
  OBVIOUS
<1>3. x + d * k = d * (q + k) + m /\ q + k \in Int /\ m \in 0 .. d - 1
  BY <1>1, <1>2
<1>4. (d * (q + k) + m) % d = m /\ (d * (q + k) + m) \div d = q + k
  BY <1>3, DivMod
<1> QED BY <1>2, <1>3, <1>4

\* A number around zero, reduced.
LEMMA ModNear ==
  ASSUME NEW d \in Nat \ {0}, NEW x \in -d .. 2 * d - 1
  PROVE  x % d = IF x < 0 THEN x + d ELSE IF x < d THEN x ELSE x - d
<1>1. CASE x < 0
  <2>1. d * (-1) + (x + d) = x /\ x + d \in 0 .. d - 1
    BY <1>1
  <2> QED BY <2>1, <1>1, DivMod
<1>2. CASE x >= 0 /\ x < d
  <2>1. d * 0 + x = x /\ x \in 0 .. d - 1
    BY <1>2
  <2> QED BY <2>1, <1>2, DivMod
<1>3. CASE x >= d
  <2>1. d * 1 + (x - d) = x /\ x - d \in 0 .. d - 1
    BY <1>3
  <2> QED BY <2>1, <1>3, DivMod
<1> QED BY <1>1, <1>2, <1>3

-----------------------------------------------------------------------------
(* Induction                                                               *)

\* Induction up to n, over a set: the library's theorems take the statement as
\* an operator.
LEMMA SetInduction ==
  ASSUME NEW n \in Nat, NEW G, 0 \in G,
         \A i \in 0 .. n : i \in G /\ i < n => i + 1 \in G
  PROVE  0 .. n \subseteq G
<1> DEFINE T == (0 .. n) \ G
<1> SUFFICES ASSUME T # {} PROVE FALSE
  OBVIOUS
<1>1. T \subseteq Nat
  OBVIOUS
<1>2. PICK m : m = Min(T)
  OBVIOUS
<1>3. m \in T /\ \A k \in T : m <= k
  <2> HIDE DEF T
  <2> QED BY <1>1, <1>2, LeastNat
<1>4. m \in 0 .. n /\ m \notin G /\ m # 0
  BY <1>3
<1>5. m - 1 \in 0 .. n /\ m - 1 < n /\ ~ (m <= m - 1)
  BY <1>4
<1>6. m - 1 \in G
  BY <1>3, <1>5
<1>7. (m - 1) + 1 \in G
  BY <1>5, <1>6
<1>8. (m - 1) + 1 = m
  BY <1>4
<1> QED BY <1>4, <1>7, <1>8

\* The steps of a loop of m iterations keep its variables in S; g is what they
\* are after each iteration.
StaysIn(s, m, S) == \A k \in 1 .. m : \A x \in S : s[k][x] \in S
Loops(g, s, m, a) == g[0] = a /\ \A k \in 1 .. m : g[k] = s[k][g[k - 1]]

\* A loop that stays in a set defines a function to that set.
LEMMA LoopExists ==
  ASSUME NEW m \in Nat, NEW S, NEW a \in S, NEW s, StaysIn(s, m, S)
  PROVE  \E g \in [0 .. m -> S] : Loops(g, s, m, a)
<1> USE DEF StaysIn
<1> DEFINE Goes(l, g) == g[0] = a /\ \A k \in 1 .. l : g[k] = s[k][g[k - 1]]
           G == {l \in 0 .. m : \E g \in [0 .. l -> S] : Goes(l, g)}
<1>1. 0 \in G
  <2>1. PICK g : g = [k \in 0 .. 0 |-> a]
    OBVIOUS
  <2>2. \A k \in 1 .. 0 : FALSE
    OBVIOUS
  <2>3. g \in [0 .. 0 -> S] /\ Goes(0, g)
    BY <2>1, <2>2
  <2> QED BY <2>3
<1>2. ASSUME NEW l \in 0 .. m, l \in G, l < m PROVE l + 1 \in G
  <2>1. PICK g \in [0 .. l -> S] : Goes(l, g)
    BY <1>2
  <2>2. PICK h : h = [k \in 0 .. l + 1 |-> IF k <= l THEN g[k] ELSE s[l + 1][g[l]]]
    OBVIOUS
  <2>3. l + 1 \in 1 .. m /\ l + 1 \in 0 .. m /\ l \in 0 .. l
    BY <1>2
  <2>4. s[l + 1][g[l]] \in S
    BY <2>1, <2>3
  <2>5. h \in [0 .. l + 1 -> S]
    <3>1. ASSUME NEW k \in 0 .. l + 1 PROVE (IF k <= l THEN g[k] ELSE s[l + 1][g[l]]) \in S
      <4>1. k <= l => k \in 0 .. l
        OBVIOUS
      <4> QED BY <4>1, <2>1, <2>4
    <3> QED BY <3>1, <2>2
  <2>6. h[0] = a
    <3>1. 0 \in 0 .. l + 1 /\ 0 <= l
      OBVIOUS
    <3> QED BY <3>1, <2>1, <2>2
  <2>7. ASSUME NEW k \in 1 .. l + 1 PROVE h[k] = s[k][h[k - 1]]
    <3>1. CASE k <= l
      <4>1. k \in 1 .. l /\ k \in 0 .. l + 1 /\ k - 1 \in 0 .. l + 1 /\ k - 1 <= l
        BY <3>1
      <4> QED BY <4>1, <3>1, <2>1, <2>2
    <3>2. CASE k = l + 1
      <4>1. k \in 0 .. l + 1 /\ ~ (k <= l) /\ k - 1 = l /\ l \in 0 .. l + 1 /\ l <= l
        BY <3>2
      <4> QED BY <4>1, <3>2, <2>2
    <3> QED BY <3>1, <3>2
  <2>8. Goes(l + 1, h)
    BY <2>6, <2>7
  <2> QED BY <2>3, <2>5, <2>8
<1>3. 0 .. m \subseteq G
  <2> HIDE DEF G
  <2> QED BY <1>1, <1>2, SetInduction
<1>4. m \in G
  BY <1>3
<1> QED BY <1>4 DEF Loops

=============================================================================
