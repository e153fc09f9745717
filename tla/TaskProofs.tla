----------------------------- MODULE TaskProofs -----------------------------
(***************************************************************************)
(* Theorems about the task list and the switch, for any number of tasks,    *)
(* addresses and register contents.                                         *)
(***************************************************************************)
EXTENDS Task, SequenceTheorems, TLAPS

-----------------------------------------------------------------------------
(* Sequences of tasks                                                      *)

LEMMA LiveElements ==
  ASSUME NEW s \in Seq(Addr)
  PROVE  /\ Range(s) \subseteq Addr
         /\ \A i \in 1 .. Len(s) : s[i] \in Range(s) /\ s[i] \in Addr
         /\ \A a \in Range(s) : \E i \in 1 .. Len(s) : s[i] = a
         /\ DOMAIN s = 1 .. Len(s) /\ Len(s) \in Nat
         /\ s = <<>> <=> Len(s) = 0
BY DEF Range

LEMMA RemoveAtElements ==
  ASSUME NEW s \in Seq(Addr), NEW i \in 1 .. Len(s)
  PROVE  /\ RemoveAt(s, i) \in Seq(Addr)
         /\ Len(RemoveAt(s, i)) = Len(s) - 1
         /\ \A k \in 1 .. Len(s) - 1 :
              RemoveAt(s, i)[k] = IF k < i THEN s[k] ELSE s[k + 1]
<1> DEFINE u == SubSeq(s, 1, i - 1)
           v == SubSeq(s, i + 1, Len(s))
<1>1. Len(s) \in Nat /\ \A k \in 1 .. Len(s) : s[k] \in Addr
  BY LiveElements
<1>2. /\ u \in Seq(Addr) /\ Len(u) = i - 1
      /\ \A k \in 1 .. i - 1 : u[k] = s[k]
  BY <1>1, SubSeqProperties
<1>3. /\ v \in Seq(Addr) /\ Len(v) = Len(s) - i
      /\ \A k \in 1 .. Len(s) - i : v[k] = s[i + k]
  <2>1. \A k \in i + 1 .. Len(s) : s[k] \in Addr
    BY <1>1
  <2>2. /\ v \in Seq(Addr)
        /\ Len(v) = IF i + 1 <= Len(s) THEN Len(s) - (i + 1) + 1 ELSE 0
        /\ \A k \in 1 .. Len(s) - (i + 1) + 1 : v[k] = s[(i + 1) + k - 1]
    BY <1>1, <2>1, SubSeqProperties
  <2> QED BY <1>1, <2>2
<1> HIDE DEF u, v
<1>4. /\ u \o v \in Seq(Addr) /\ Len(u \o v) = Len(u) + Len(v)
      /\ \A k \in 1 .. Len(u) + Len(v) :
           (u \o v)[k] = IF k <= Len(u) THEN u[k] ELSE v[k - Len(u)]
  BY <1>2, <1>3, ConcatProperties
<1>5. RemoveAt(s, i) = u \o v
  BY DEF RemoveAt, u, v
<1>6. ASSUME NEW k \in 1 .. Len(s) - 1
      PROVE  (u \o v)[k] = IF k < i THEN s[k] ELSE s[k + 1]
  <2>1. k \in 1 .. Len(u) + Len(v)
    BY <1>1, <1>2, <1>3
  <2>2. (u \o v)[k] = IF k <= Len(u) THEN u[k] ELSE v[k - Len(u)]
    BY <1>4, <2>1
  <2>3. CASE k < i
    BY <1>2, <2>2, <2>3
  <2>4. CASE k >= i
    <3>1. k - Len(u) \in 1 .. Len(s) - i /\ i + (k - Len(u)) = k + 1
      BY <1>1, <1>2, <2>4
    <3>2. (u \o v)[k] = v[k - Len(u)]
      BY <1>2, <2>2, <2>4
    <3>3. v[k - Len(u)] = s[i + (k - Len(u))]
      BY <1>3, <3>1
    <3> QED BY <2>4, <3>1, <3>2, <3>3
  <2>5. k < i \/ k >= i
    BY <1>1
  <2> QED BY <2>3, <2>4, <2>5, Zenon
<1> QED BY <1>1, <1>2, <1>3, <1>4, <1>5, <1>6

LEMMA PositionOf ==
  ASSUME order \in Seq(Addr), NEW t \in Live
  PROVE  Position(t) \in 1 .. Len(order) /\ order[Position(t)] = t
<1>1. \E k \in DOMAIN order : order[k] = t
  BY LiveElements DEF Live
<1> QED BY <1>1, LiveElements DEF Position

-----------------------------------------------------------------------------
(* The list operations, for any list                                       *)

LEMMA ListFields ==
  ASSUME NEW l \in List
  PROVE  /\ l.next \in [Addr -> Pointer] /\ l.prev \in [Addr -> Pointer]
         /\ l.head \in Pointer /\ l.tail \in Pointer /\ l.current \in Pointer
BY DEF List

LEMMA GetNextType ==
  ASSUME NEW l \in List, l.current \in Addr
  PROVE  task_get_next(l) \in Pointer
BY ListFields DEF task_get_next

LEMMA SwitchType ==
  ASSUME NEW l \in List, NEW t \in Pointer
  PROVE  task_switch(l, t) \in List /\ task_switch(l, t).current = t
BY DEF List, task_switch

LEMMA NewType ==
  ASSUME NEW l \in List, NEW t \in Addr
  PROVE  task_new(l, t) \in List
<1>1. CASE l.head = NULL
  BY <1>1, ListFields DEF List, task_new, Pointer
<1>2. CASE l.head # NULL
  <2> DEFINE nx == [b \in Addr |-> IF b = l.tail THEN t
                                   ELSE IF b = t THEN NULL ELSE l.next[b]]
             pv == [l.prev EXCEPT ![t] = l.tail]
  <2>1. nx \in [Addr -> Pointer] /\ pv \in [Addr -> Pointer]
    BY ListFields DEF Pointer
  <2>2. task_new(l, t) = [next |-> nx, prev |-> pv, head |-> l.head,
                          tail |-> t, current |-> l.current]
    BY <1>2 DEF task_new, List
  <2> HIDE DEF nx, pv
  <2> QED BY <2>1, <2>2, ListFields DEF List, Pointer
<1> QED BY <1>1, <1>2

\* task_list_remove, field by field.
LEMMA RemoveFields ==
  ASSUME NEW l \in List, NEW t \in Addr
  PROVE  LET r == task_list_remove(l, t)
         IN  /\ r \in List
             /\ r.next = [b \in Addr |-> IF b = l.prev[t] THEN l.next[t]
                                                          ELSE l.next[b]]
             /\ r.prev = l.prev
             /\ r.head = IF t = l.head THEN l.next[t] ELSE l.head
             /\ r.tail = IF t = l.tail THEN l.prev[t] ELSE l.tail
             /\ t # l.current => r.current = l.current
             /\ t = l.current => r.current = IF r.next[t] = NULL THEN r.head
                                                               ELSE r.next[t]
<1> DEFINE nx == [b \in Addr |-> IF b = l.prev[t] THEN l.next[t] ELSE l.next[b]]
           hd == IF t = l.head THEN l.next[t] ELSE l.head
           tl == IF t = l.tail THEN l.prev[t] ELSE l.tail
           u  == [next |-> nx, prev |-> l.prev, head |-> hd, tail |-> tl,
                  current |-> l.current]
<1>1. nx \in [Addr -> Pointer] /\ hd \in Pointer /\ tl \in Pointer
  BY ListFields
<1>3. task_list_remove(l, t) =
        IF t = l.current THEN [u EXCEPT !.current = task_get_next(u)] ELSE u
  BY DEF task_list_remove
<1> HIDE DEF nx, hd, tl
<1>4. u \in List
  BY <1>1, ListFields DEF List
<1>5. CASE t # l.current
  BY <1>3, <1>4, <1>5 DEF nx, hd, tl
<1>6. CASE t = l.current
  <2>1. task_get_next(u) = IF nx[t] = NULL THEN hd ELSE nx[t]
    BY <1>6 DEF task_get_next
  <2>2. task_get_next(u) \in Pointer
    BY <1>1, <2>1
  <2>3. task_list_remove(l, t) =
          [next |-> nx, prev |-> l.prev, head |-> hd, tail |-> tl,
           current |-> task_get_next(u)]
    BY <1>3, <1>6
  <2>4. task_list_remove(l, t) \in List
    BY <1>1, <2>2, <2>3, ListFields DEF List
  <2> QED BY <1>6, <2>1, <2>3, <2>4 DEF nx, hd, tl
<1> QED BY <1>5, <1>6

LEMMA NewFields ==
  ASSUME NEW l \in List, NEW t \in Addr, l.head # NULL
  PROVE  LET r == task_new(l, t)
         IN  /\ r.next = [b \in Addr |-> IF b = l.tail THEN t
                                         ELSE IF b = t THEN NULL
                                         ELSE l.next[b]]
             /\ r.prev = [l.prev EXCEPT ![t] = l.tail]
             /\ r.head = l.head /\ r.tail = t /\ r.current = l.current
BY DEF task_new, List

-----------------------------------------------------------------------------
(* Appending and removing keep the chain exact                             *)

LEMMA AppendElements ==
  ASSUME NEW s \in Seq(Addr), NEW t \in Addr
  PROVE  /\ Append(s, t) \in Seq(Addr) /\ Len(Append(s, t)) = Len(s) + 1
         /\ \A k \in 1 .. Len(s) : Append(s, t)[k] = s[k]
         /\ Append(s, t)[Len(s) + 1] = t
         /\ Range(Append(s, t)) = Range(s) \cup {t}
<1>1. /\ Append(s, t) \in Seq(Addr) /\ Len(Append(s, t)) = Len(s) + 1
      /\ \A k \in 1 .. Len(s) : Append(s, t)[k] = s[k]
      /\ Append(s, t)[Len(s) + 1] = t
  BY AppendProperties
<1>2. Range(Append(s, t)) = Range(s) \cup {t}
  <2>1. DOMAIN Append(s, t) = 1 .. Len(s) + 1 /\ DOMAIN s = 1 .. Len(s)
        /\ Len(s) \in Nat
    BY <1>1, LiveElements
  <2> QED BY <1>1, <2>1 DEF Range
<1> QED BY <1>1, <1>2

\* What the two updates do to the links, as plain functions of the index.
Distinct(s, n) == \A i, j \in 1 .. n : s[i] = s[j] => i = j
Links(nx, s, n) ==
  \A i \in 1 .. n : nx[s[i]] = IF i = n THEN NULL ELSE s[i + 1]

LEMMA ChainsDef ==
  ASSUME NEW l, NEW s \in Seq(Addr)
  PROVE  Chains(l, s) <=>
           /\ Distinct(s, Len(s)) /\ Links(l.next, s, Len(s))
           /\ l.head = IF Len(s) = 0 THEN NULL ELSE s[1]
           /\ l.tail = IF Len(s) = 0 THEN NULL ELSE s[Len(s)]
BY LiveElements DEF Chains, Distinct, Links

\* t is linked in after the last element of s; the element at i is unlinked.
AtEnd(n, s, w, t, nx, rn) ==
  /\ \A k \in 1 .. n : s[k] \in Addr /\ s[k] # t /\ w[k] = s[k]
  /\ w[n + 1] = t /\ n > 0 /\ Distinct(s, n) /\ Links(nx, s, n)
  /\ \A b \in Addr : rn[b] = IF b = s[n] THEN t
                             ELSE IF b = t THEN NULL ELSE nx[b]

Without(n, s, w, i, p, nx, rn) ==
  /\ \A k \in 1 .. n : s[k] \in Addr
  /\ \A k \in 1 .. n - 1 : w[k] = IF k < i THEN s[k] ELSE s[k + 1]
  /\ p = IF i = 1 THEN NULL ELSE s[i - 1]
  /\ Distinct(s, n) /\ Links(nx, s, n)
  /\ \A b \in Addr : rn[b] = IF b = p THEN nx[s[i]] ELSE nx[b]

\* The head and the tail after that.
Ends(n, s, w, i, p, nx) ==
  /\ (IF s[i] = s[1] THEN nx[s[i]] ELSE s[1]) = IF n = 1 THEN NULL ELSE w[1]
  /\ (IF s[i] = s[n] THEN p ELSE s[n]) = IF n = 1 THEN NULL ELSE w[n - 1]

LEMMA LinkLast ==
  ASSUME NEW n \in Nat, NEW s, NEW w, NEW t \in Addr, NEW nx, NEW rn,
         AtEnd(n, s, w, t, nx, rn)
  PROVE  Distinct(w, n + 1) /\ Links(rn, w, n + 1)
<1> USE DEF AtEnd
<1>1. Distinct(w, n + 1)
  BY DEF Distinct
<1>2. ASSUME NEW i \in 1 .. n + 1
      PROVE  rn[w[i]] = IF i = n + 1 THEN NULL ELSE w[i + 1]
  <2>1. CASE i = n + 1
    BY <2>1
  <2>2. CASE i = n
    BY <2>2
  <2>3. CASE i < n
    <3>1. i \in 1 .. n /\ i + 1 \in 1 .. n /\ n \in 1 .. n /\ i # n /\ i # n + 1
      BY <2>3
    <3>2. s[i] # s[n] /\ nx[s[i]] = s[i + 1]
      BY <3>1 DEF Distinct, Links
    <3> QED BY <3>1, <3>2
  <2> QED BY <2>1, <2>2, <2>3
<1> QED BY <1>1, <1>2 DEF Links

LEMMA Unlink ==
  ASSUME NEW n \in Nat, NEW s, NEW w, NEW i \in 1 .. n, NEW p, NEW nx, NEW rn,
         Without(n, s, w, i, p, nx, rn)
  PROVE  /\ Distinct(w, n - 1) /\ Links(rn, w, n - 1)
         /\ Ends(n, s, w, i, p, nx)
<1> USE DEF Without
<1> USE TaskAssumption
<1>1. Distinct(w, n - 1)
  <2> SUFFICES ASSUME NEW j \in 1 .. n - 1, NEW k \in 1 .. n - 1, w[j] = w[k]
               PROVE  j = k
    BY DEF Distinct
  <2> QED BY DEF Distinct
<1>2. ASSUME NEW k \in 1 .. n - 1
      PROVE  rn[w[k]] = IF k = n - 1 THEN NULL ELSE w[k + 1]
  <2>1. CASE k < i - 1
    <3>1. /\ k \in 1 .. n /\ k + 1 \in 1 .. n /\ i - 1 \in 1 .. n /\ i # 1
          /\ k # i - 1 /\ k # n /\ k # n - 1 /\ k + 1 \in 1 .. n - 1
      BY <2>1
    <3>2. w[k] = s[k] /\ w[k + 1] = s[k + 1] /\ p = s[i - 1]
      BY <2>1, <3>1
    <3>3. s[k] # p /\ nx[s[k]] = s[k + 1] /\ s[k] \in Addr
      BY <3>1, <3>2 DEF Distinct, Links
    <3> QED BY <3>1, <3>2, <3>3
  <2>2. CASE k = i - 1
    <3>1. w[k] = s[k] /\ s[k] = p /\ s[k] \in Addr
      BY <2>2
    <3>2. rn[w[k]] = nx[s[i]]
      BY <3>1
    <3>3. nx[s[i]] = IF i = n THEN NULL ELSE s[i + 1]
      BY DEF Links
    <3>4. i # n => w[k + 1] = s[i + 1]
      BY <2>2
    <3> QED BY <2>2, <3>2, <3>3, <3>4
  <2>3. CASE k >= i
    <3>1. /\ k + 1 \in 1 .. n /\ (i # 1 => i - 1 \in 1 .. n)
          /\ k + 1 # i - 1 /\ ~(k < i)
      BY <2>3
    <3>2. w[k] = s[k + 1] /\ s[k + 1] \in Addr
      BY <3>1
    <3>3. s[k + 1] # p
      BY <3>1, <3>2 DEF Distinct
    <3>4. rn[w[k]] = nx[s[k + 1]]
      BY <3>2, <3>3
    <3>5. nx[s[k + 1]] = IF k + 1 = n THEN NULL ELSE s[k + 2]
      BY <3>1 DEF Links
    <3>6. k # n - 1 => w[k + 1] = s[k + 2]
      BY <2>3
    <3> QED BY <3>4, <3>5, <3>6
  <2> QED BY <2>1, <2>2, <2>3
<1>3. (IF s[i] = s[1] THEN nx[s[i]] ELSE s[1]) = IF n = 1 THEN NULL ELSE w[1]
  <2>1. CASE i = 1
    BY <2>1 DEF Links
  <2>2. CASE i # 1
    <3>1. s[i] # s[1]
      BY <2>2 DEF Distinct
    <3> QED BY <2>2, <3>1
  <2> QED BY <2>1, <2>2
<1>4. (IF s[i] = s[n] THEN p ELSE s[n]) = IF n = 1 THEN NULL ELSE w[n - 1]
  <2>1. CASE i = n
    BY <2>1
  <2>2. CASE i # n
    <3>1. s[i] # s[n]
      BY <2>2 DEF Distinct
    <3> QED BY <2>2, <3>1
  <2> QED BY <2>1, <2>2
<1> QED BY <1>1, <1>2, <1>3, <1>4 DEF Links, Ends

\* Around the list: the task after a task of the list is one of the list.
LEMMA ChainsNext ==
  ASSUME NEW l \in List, NEW s \in Seq(Addr), Chains(l, s),
         NEW i \in 1 .. Len(s)
  PROVE  /\ l.head \in Range(s)
         /\ l.next[s[i]] # NULL => l.next[s[i]] \in Range(s)
<1>1. Len(s) \in Nat /\ s # <<>> /\ 1 \in 1 .. Len(s)
  BY LiveElements
<1>2. l.head = s[1] /\ l.next[s[i]] = IF i = Len(s) THEN NULL ELSE s[i + 1]
  BY <1>1, LiveElements DEF Chains
<1>3. i # Len(s) => i + 1 \in 1 .. Len(s)
  BY <1>1
<1> QED BY <1>1, <1>2, <1>3, LiveElements

LEMMA GetNextLive ==
  ASSUME NEW l \in List, NEW s \in Seq(Addr), Chains(l, s),
         l.current \in Range(s)
  PROVE  task_get_next(l) \in Range(s) /\ task_get_next(l) # NULL
<1>1. PICK i \in 1 .. Len(s) : s[i] = l.current
  BY LiveElements
<1>2. task_get_next(l) \in Range(s)
  BY <1>1, ChainsNext DEF task_get_next
<1> QED BY <1>2, LiveElements, TaskAssumption

LEMMA ChainsSwitch ==
  ASSUME NEW l \in List, NEW s, NEW t, Chains(l, s)
  PROVE  Chains(task_switch(l, t), s)
BY DEF Chains, task_switch, List

LEMMA ChainsNew ==
  ASSUME NEW l \in List, NEW s \in Seq(Addr), NEW t \in Addr,
         Chains(l, s), t \notin Range(s)
  PROVE  Chains(task_new(l, t), Append(s, t))
<1> DEFINE n == Len(s)
           w == Append(s, t)
           r == task_new(l, t)
<1>1. n \in Nat /\ \A k \in 1 .. n : s[k] \in Addr /\ s[k] # t
  BY LiveElements
<1>2. w \in Seq(Addr) /\ Len(w) = n + 1 /\ w[n + 1] = t
      /\ \A k \in 1 .. n : w[k] = s[k]
  BY AppendElements
<1>3. /\ Distinct(s, n) /\ Links(l.next, s, n)
      /\ l.head = IF n = 0 THEN NULL ELSE s[1]
      /\ l.tail = IF n = 0 THEN NULL ELSE s[n]
  BY ChainsDef
<1> HIDE DEF n, w
<1>4. /\ Distinct(w, n + 1) /\ Links(r.next, w, n + 1)
      /\ r.head = w[1] /\ r.tail = w[n + 1]
  <2>1. CASE n = 0
    <3>1. r.next[t] = NULL /\ r.head = t /\ r.tail = t
      BY <1>3, <2>1, ListFields DEF task_new
    <3> HIDE DEF r
    <3> QED BY <1>2, <2>1, <3>1 DEF Distinct, Links
  <2>2. CASE n # 0
    <3>1. l.head # NULL
      BY <1>1, <1>3, <2>2, TaskAssumption
    <3>2. /\ \A b \in Addr : r.next[b] = IF b = l.tail THEN t
                                         ELSE IF b = t THEN NULL
                                         ELSE l.next[b]
          /\ r.head = l.head /\ r.tail = t
      <4>1. /\ r.next = [b \in Addr |-> IF b = l.tail THEN t
                                        ELSE IF b = t THEN NULL
                                        ELSE l.next[b]]
            /\ r.head = l.head /\ r.tail = t
        BY <3>1, NewFields, Zenon
      <4> HIDE DEF r
      <4> QED BY <4>1
    <3> HIDE DEF r
    <3>3. Distinct(w, n + 1) /\ Links(r.next, w, n + 1)
      <4> DEFINE rn == r.next
                 nx == l.next
      <4>1. \A b \in Addr : rn[b] = IF b = s[n] THEN t
                                    ELSE IF b = t THEN NULL ELSE nx[b]
        BY <1>3, <2>2, <3>2
      <4>2. Links(nx, s, n) /\ Distinct(s, n) /\ w[n + 1] = t
            /\ \A k \in 1 .. n : s[k] \in Addr /\ s[k] # t /\ w[k] = s[k]
        BY <1>1, <1>2, <1>3
      <4>3. n > 0
        BY <1>1, <2>2
      <4> HIDE DEF rn, nx
      <4>4. AtEnd(n, s, w, t, nx, rn)
        BY <4>1, <4>2, <4>3 DEF AtEnd
      <4>5. Distinct(w, n + 1) /\ Links(rn, w, n + 1)
        BY <1>1, <4>4, LinkLast, Zenon
      <4> QED BY <4>5 DEF rn
    <3>4. w[1] = s[1]
      BY <1>1, <1>2, <2>2
    <3> QED BY <1>2, <1>3, <2>2, <3>2, <3>3, <3>4
  <2> QED BY <2>1, <2>2
<1> HIDE DEF r
<1>5. Chains(r, w)
  <2>1. Len(w) # 0
    BY <1>1, <1>2
  <2> QED BY <1>2, <1>4, <2>1, ChainsDef
<1> QED BY <1>5 DEF r, w

LEMMA ChainsRemove ==
  ASSUME NEW l \in List, NEW s \in Seq(Addr), NEW i \in 1 .. Len(s),
         Chains(l, s), l.prev[s[i]] = IF i = 1 THEN NULL ELSE s[i - 1]
  PROVE  Chains(task_list_remove(l, s[i]), RemoveAt(s, i))
<1> DEFINE n == Len(s)
           w == RemoveAt(s, i)
           r == task_list_remove(l, s[i])
           p == l.prev[s[i]]
           nx == l.next
           rn == r.next
<1>1. n \in Nat /\ (\A k \in 1 .. n : s[k] \in Addr) /\ s[i] \in Addr
  BY LiveElements
<1>2. w \in Seq(Addr) /\ Len(w) = n - 1
      /\ \A k \in 1 .. n - 1 : w[k] = IF k < i THEN s[k] ELSE s[k + 1]
  BY RemoveAtElements
<1>3. /\ Distinct(s, n) /\ Links(nx, s, n)
      /\ l.head = IF n = 0 THEN NULL ELSE s[1]
      /\ l.tail = IF n = 0 THEN NULL ELSE s[n]
  BY ChainsDef
<1>4. /\ \A b \in Addr : rn[b] = IF b = p THEN nx[s[i]] ELSE nx[b]
      /\ r.head = IF s[i] = l.head THEN nx[s[i]] ELSE l.head
      /\ r.tail = IF s[i] = l.tail THEN p ELSE l.tail
  <2>1. /\ rn = [b \in Addr |-> IF b = p THEN nx[s[i]] ELSE nx[b]]
        /\ r.head = IF s[i] = l.head THEN nx[s[i]] ELSE l.head
        /\ r.tail = IF s[i] = l.tail THEN p ELSE l.tail
    BY <1>1, RemoveFields, Zenon
  <2> HIDE DEF r, rn, p, nx
  <2> QED BY <2>1
<1>5. p = IF i = 1 THEN NULL ELSE s[i - 1]
  OBVIOUS
<1>6. i \in 1 .. n /\ n # 0
  BY <1>1
<1> HIDE DEF n, w, r, p, nx, rn
<1>7. /\ Distinct(w, n - 1) /\ Links(rn, w, n - 1)
      /\ Ends(n, s, w, i, p, nx)
  <2>1. Without(n, s, w, i, p, nx, rn)
    BY <1>1, <1>2, <1>3, <1>4, <1>5 DEF Without
  <2> QED BY <1>1, <1>6, <2>1, Unlink, Zenon
<1>8. /\ r.head = IF Len(w) = 0 THEN NULL ELSE w[1]
      /\ r.tail = IF Len(w) = 0 THEN NULL ELSE w[Len(w)]
  BY <1>1, <1>2, <1>3, <1>4, <1>6, <1>7 DEF Ends
<1>9. Chains(r, w)
  BY <1>2, <1>7, <1>8, ChainsDef DEF rn
<1> QED BY <1>9 DEF r, w

-----------------------------------------------------------------------------
(* Types                                                                   *)

LEMMA SavedType ==
  ASSUME TypeOK, InUser
  PROVE  /\ list.current \in Addr /\ list.current \in Live
         /\ Saved \in [Addr -> Values]
         /\ [cpu |-> cpu, eflags |-> eflags] \in Context
         /\ Leave => left' \in [Addr -> Context]
<1>1. list.current \in Addr
  BY LiveElements DEF TypeOK, InUser, Live
<1>2. [cpu |-> cpu, eflags |-> eflags] \in Context
  BY DEF TypeOK, Context
<1>3. Leave => left' \in [Addr -> Context]
  BY <1>1, <1>2 DEF TypeOK, Leave
<1> QED BY <1>1, <1>2, <1>3 DEF TypeOK, Saved, InUser

LEMMA FreshType == Fresh \in Context
BY TaskAssumption DEF Fresh, Context

\* Whatever list it starts from, task_next ends in one of the two ways.
LEMMA TaskNextType ==
  ASSUME TypeOK, NEW l \in List, l.current \in Addr,
         NEW r \in [Addr -> Values], task_next(l, r)
  PROVE  /\ list' \in List /\ cr3' \in Pointer /\ cpu' \in Values
         /\ eflags' \in Flags /\ phase' \in {"boot", "user", "halted"}
<1>1. task_get_next(l) \in Pointer
  BY GetNextType
<1>2. CASE task_get_next(l) = NULL
  BY <1>2 DEF task_next, panic, TypeOK
<1>3. CASE task_get_next(l) # NULL
  <2>1. task_get_next(l) \in Addr
    BY <1>1, <1>3 DEF Pointer
  <2> QED BY <1>1, <1>3, <2>1, SwitchType DEF task_next, task_return, TypeOK
<1> QED BY <1>2, <1>3

LEMMA TypeInit == Init => TypeOK
<1> SUFFICES ASSUME Init PROVE TypeOK
  OBVIOUS
<1>1. list \in List
  BY DEF Init, List, Pointer
<1>2. /\ left \in [Addr -> Context] /\ order \in Seq(Addr)
      /\ regs \in [Addr -> Values]
  BY FreshType, TaskAssumption DEF Init
<1> QED BY <1>1, <1>2, TaskAssumption DEF Init, TypeOK, Pointer

\* The first task to run is task_head: kernel_main has loaded one by then.
Booting == phase = "boot" => ~damaged /\ ListIsOrder

LEMMA BootInit == Init => Booting
BY DEF Init, Booting, ListIsOrder, Chains

LEMMA BootStep == TypeOK /\ Booting /\ [Next]_vars => Booting'
<1> SUFFICES ASSUME TypeOK, Booting, [Next]_vars, phase' = "boot"
             PROVE  ~damaged' /\ ListIsOrder'
  BY DEF Booting
<1>1. ASSUME NEW t \in Addr, kernel_main_load(t)
      PROVE  ~damaged' /\ ListIsOrder'
  <2>1. /\ list' = task_new(list, t) /\ order' = Append(order, t)
        /\ ~damaged' /\ Chains(list, order) /\ t \notin Range(order)
    BY <1>1 DEF kernel_main_load, Created, Booting, ListIsOrder, Live
  <2> QED BY <2>1, ChainsNew DEF ListIsOrder, TypeOK
<1>2. CASE UNCHANGED vars
  BY <1>2 DEF vars, Booting, ListIsOrder, Chains
<1> QED BY <1>1, <1>2
        DEF Next, InUser, task_run_first_ever_task, compute, idt_clock,
            interrupt_handler, isr80h_handler, process_load_start,
            process_load_unmapped, process_terminate, kernel_panic, panic,
            task_next

LEMMA TypeStep == TypeOK /\ Booting /\ [Next]_vars => TypeOK'
<1> SUFFICES ASSUME TypeOK, Booting, [Next]_vars PROVE TypeOK'
  OBVIOUS
<1> USE TaskAssumption
<1>1. ASSUME NEW t \in Addr, kernel_main_load(t) PROVE TypeOK'
  <2>1. order' \in Seq(Addr)
    BY <1>1, AppendElements DEF TypeOK, kernel_main_load, Created
  <2>2. list' \in List
    BY <1>1, NewType DEF TypeOK, kernel_main_load
  <2>3. regs' \in [Addr -> Values] /\ left' \in [Addr -> Context]
    BY <1>1, FreshType DEF TypeOK, kernel_main_load
  <2> QED BY <1>1, <2>1, <2>2, <2>3 DEF TypeOK, kernel_main_load
<1>2. CASE task_run_first_ever_task
  <2>1. list.head \in Pointer
    BY ListFields DEF TypeOK
  <2>2. list' \in List /\ cr3' \in Pointer
    BY <1>2, <2>1, SwitchType DEF TypeOK, task_run_first_ever_task
  <2>3. cpu' \in Values
    <3>1. order \in Seq(Addr) /\ 1 \in 1 .. Len(order) /\ order # <<>>
      <4>1. order \in Seq(Addr) /\ Len(order) = 2
        BY <1>2 DEF TypeOK, task_run_first_ever_task
      <4> QED BY <4>1, LiveElements
    <3>2. list.head = order[1]
      BY <1>2, <3>1 DEF Booting, ListIsOrder, Chains, task_run_first_ever_task
    <3>3. list.head \in Addr
      BY <3>1, <3>2, LiveElements
    <3> QED BY <1>2, <3>3 DEF TypeOK, task_run_first_ever_task, task_return
  <2> QED BY <1>2, <2>2, <2>3 DEF TypeOK, task_run_first_ever_task, task_return
<1>3. CASE compute
  BY <1>3 DEF TypeOK, compute
<1>4. CASE idt_clock
  <2>1. InUser /\ Leave /\ task_next(list, Saved)
    BY <1>4 DEF idt_clock
  <2>2. /\ list' \in List /\ cr3' \in Pointer /\ cpu' \in Values
        /\ eflags' \in Flags /\ phase' \in {"boot", "user", "halted"}
    BY <2>1, SavedType, TaskNextType DEF TypeOK
  <2> QED BY <1>4, <2>1, <2>2, SavedType DEF TypeOK, idt_clock
<1>5. CASE interrupt_handler \/ isr80h_handler
  <2>1. InUser /\ ((Leave /\ regs' = Saved) \/ UNCHANGED <<regs, left>>)
    BY <1>5 DEF interrupt_handler, isr80h_handler
  <2>2. list' \in List /\ cr3' \in Pointer
    BY <1>5, <2>1, SavedType, SwitchType
       DEF TypeOK, interrupt_handler, isr80h_handler, Pointer
  <2>3. regs' \in [Addr -> Values] /\ left' \in [Addr -> Context]
    BY <2>1, SavedType DEF TypeOK
  <2> QED BY <1>5, <2>2, <2>3 DEF TypeOK, interrupt_handler, isr80h_handler
<1>6. ASSUME NEW t \in Addr, process_load_start(t) PROVE TypeOK'
  <2>1. InUser
    BY <1>6 DEF process_load_start
  <2>2. order' \in Seq(Addr)
    BY <1>6, AppendElements DEF TypeOK, process_load_start, Created
  <2>3. list' \in List
    BY <1>6, NewType, SwitchType DEF TypeOK, process_load_start, Pointer
  <2>4. [Saved EXCEPT ![t] = Entry] \in [Addr -> Values]
    BY <2>1, SavedType
  <2>5. left' \in [Addr -> Context]
    BY <1>6, <2>1, SavedType, FreshType DEF TypeOK, process_load_start
  <2> QED BY <1>6, <2>2, <2>3, <2>4, <2>5
          DEF TypeOK, process_load_start, task_return, Pointer
<1>7. ASSUME NEW t \in Addr, process_load_unmapped(t) PROVE TypeOK'
  <2>1. InUser /\ Leave
    BY <1>7 DEF process_load_unmapped
  <2>2. list' \in List
    BY <1>7, NewType, RemoveFields, Zenon DEF TypeOK, process_load_unmapped
  <2>3. regs' \in [Addr -> Values]
    BY <1>7, <2>1, SavedType DEF process_load_unmapped
  <2> QED BY <1>7, <2>1, <2>2, <2>3, SavedType, ListFields
          DEF TypeOK, process_load_unmapped
<1>8. CASE process_terminate
  <2> DEFINE l == task_list_remove(list, list.current)
             last == Len(order) = 1 /\ orphans = 0
  <2>1. InUser /\ Leave /\ regs' = Saved /\ list.current \in Addr
    BY <1>8, SavedType DEF process_terminate
  <2>2. l \in List
    BY <2>1, RemoveFields, Zenon DEF TypeOK
  <2>3. order' \in Seq(Addr)
    BY <1>8, <2>1, PositionOf, RemoveAtElements
       DEF TypeOK, process_terminate, InUser
  <2>4. /\ list' \in List /\ cr3' \in Pointer /\ cpu' \in Values
        /\ eflags' \in Flags /\ phase' \in {"boot", "user", "halted"}
    <3> HIDE DEF l
    <3>1. \/ list' = l /\ panic
          \/ list' = l /\ cr3' = NULL /\ UNCHANGED <<cpu, eflags, phase>>
          \/ l.current # NULL /\ task_next(l, Saved)
      BY <1>8 DEF process_terminate, l
    <3>2. CASE list' = l /\ panic
      BY <2>2, <3>2 DEF panic, TypeOK
    <3>3. CASE list' = l /\ cr3' = NULL /\ UNCHANGED <<cpu, eflags, phase>>
      BY <2>2, <3>3 DEF TypeOK, Pointer
    <3>4. CASE l.current # NULL /\ task_next(l, Saved)
      <4>1. l.current \in Addr
        BY <2>2, <3>4, ListFields DEF Pointer
      <4> QED BY <2>1, <2>2, <3>4, <4>1, SavedType, TaskNextType
    <3> QED BY <3>1, <3>2, <3>3, <3>4
  <2>5. damaged' \in BOOLEAN
    BY <1>8 DEF process_terminate, TypeOK
  <2> QED BY <1>8, <2>1, <2>3, <2>4, <2>5, SavedType
          DEF TypeOK, process_terminate
<1>9. CASE kernel_panic
  BY <1>9, SavedType DEF TypeOK, kernel_panic, panic
<1>10. CASE UNCHANGED vars
  BY <1>10 DEF TypeOK, vars
<1> QED BY <1>1, <1>2, <1>3, <1>4, <1>5, <1>6, <1>7, <1>8, <1>9, <1>10 DEF Next

\* Every variable keeps its type, with any number of addresses and processes.
THEOREM TypeCorrect == Spec => []TypeOK
<1>1. Init => TypeOK /\ Booting
  BY TypeInit, BootInit
<1>2. TypeOK /\ Booting /\ [Next]_vars => (TypeOK /\ Booting)'
  BY TypeStep, BootStep
<1> QED BY <1>1, <1>2, PTL DEF Spec

-----------------------------------------------------------------------------
(* The scheduler stays on tasks that exist                                 *)

\* Removing the current task makes a remaining task current, if there is one.
LEMMA RemoveCurrent ==
  ASSUME NEW l \in List, NEW s \in Seq(Addr), NEW i \in 1 .. Len(s),
         Chains(l, s), l.prev[s[i]] = IF i = 1 THEN NULL ELSE s[i - 1],
         l.current = s[i]
  PROVE  task_list_remove(l, s[i]).current \in Range(RemoveAt(s, i)) \cup {NULL}
<1> DEFINE n == Len(s)
           w == RemoveAt(s, i)
           r == task_list_remove(l, s[i])
<1>1. n \in Nat /\ (\A k \in 1 .. n : s[k] \in Addr) /\ s[i] \in Addr
  BY LiveElements
<1>2. /\ w \in Seq(Addr) /\ Len(w) = n - 1
      /\ \A k \in 1 .. n - 1 : w[k] = IF k < i THEN s[k] ELSE s[k + 1]
  BY RemoveAtElements
<1>3. Chains(r, w)
  BY ChainsRemove
<1>4. /\ r.next = [b \in Addr |-> IF b = l.prev[s[i]] THEN l.next[s[i]]
                                                     ELSE l.next[b]]
      /\ r.current = IF r.next[s[i]] = NULL THEN r.head ELSE r.next[s[i]]
  BY <1>1, RemoveFields, Zenon
<1>5. r.next[s[i]] = l.next[s[i]]
  BY <1>1, <1>4
<1>6. l.next[s[i]] = IF i = n THEN NULL ELSE s[i + 1]
  BY <1>1, LiveElements DEF Chains
<1>7. r.head = IF Len(w) = 0 THEN NULL ELSE w[1]
  BY <1>2, <1>3, ChainsDef
<1> HIDE DEF w, r, n
<1>8. r.head \in Range(w) \cup {NULL}
  BY <1>1, <1>2, <1>7, LiveElements
<1>9. i # n => s[i + 1] \in Range(w)
  <2> SUFFICES ASSUME i # n PROVE s[i + 1] \in Range(w)
    OBVIOUS
  <2>1. i \in 1 .. n - 1 /\ i \in 1 .. Len(w) /\ w[i] = s[i + 1]
    BY <1>1, <1>2 DEF n
  <2> QED BY <1>2, <2>1, LiveElements
<1>10. r.current \in Range(w) \cup {NULL}
  BY <1>4, <1>5, <1>6, <1>8, <1>9
<1> QED BY <1>10 DEF w, r

\* task_next, from a list that is exact, goes to a task that exists.
LEMMA TaskNextScheduled ==
  ASSUME NEW l \in List, NEW s \in Seq(Addr), Chains(l, s),
         l.current \in Range(s), NEW r, task_next(l, r), phase = "user"
  PROVE  /\ Chains(list', s) /\ phase' = "user"
         /\ list'.current \in Range(s) /\ cr3' = list'.current
<1>1. task_get_next(l) \in Range(s) /\ task_get_next(l) # NULL
  BY GetNextLive
<1>2. list' = task_switch(l, task_get_next(l)) /\ cr3' = task_get_next(l)
      /\ phase' = "user"
  BY <1>1 DEF task_next
<1>3. task_get_next(l) \in Pointer
  BY <1>1, LiveElements DEF Pointer
<1> QED BY <1>1, <1>2, <1>3, SwitchType, ChainsSwitch

\* A task that is created and freed again leaves the list as it was.
LEMMA ChainsUnmapped ==
  ASSUME NEW l \in List, NEW s \in Seq(Addr), NEW t \in Addr, Chains(l, s),
         t \notin Range(s), l.current \in Range(s)
  PROVE  LET r == task_list_remove(task_new(l, t), t)
         IN  Chains(r, s) /\ r.current = l.current
<1> DEFINE n == Len(s)
           w == Append(s, t)
           m == task_new(l, t)
<1>1. /\ w \in Seq(Addr) /\ Len(w) = n + 1 /\ w[n + 1] = t
      /\ \A k \in 1 .. n : w[k] = s[k]
  BY AppendElements
<1>2. n \in Nat /\ n # 0
  BY LiveElements
<1>3. m \in List /\ Chains(m, w)
  BY NewType, ChainsNew
<1>4. l.tail = s[n] /\ l.head # NULL
  <2>1. l.head = s[1] /\ l.tail = s[n] /\ 1 \in 1 .. n
    BY <1>2, ChainsDef
  <2> QED BY <2>1, LiveElements, TaskAssumption
<1>5. m.prev = [l.prev EXCEPT ![t] = l.tail] /\ m.current = l.current
  BY <1>4, NewFields, Zenon
<1>6. m.prev[t] = l.tail
  BY <1>5, ListFields
<1>7. m.prev[w[n + 1]] = IF n + 1 = 1 THEN NULL ELSE w[(n + 1) - 1]
  BY <1>1, <1>2, <1>4, <1>6
<1>8. Chains(task_list_remove(m, w[n + 1]), RemoveAt(w, n + 1))
  <2>1. n + 1 \in 1 .. Len(w)
    BY <1>1, <1>2
  <2> HIDE DEF m, w, n
  <2> QED BY <1>1, <1>3, <1>7, <2>1, ChainsRemove
<1>9. RemoveAt(w, n + 1) = s
  <2>1. n + 1 \in 1 .. Len(w)
    BY <1>1, <1>2
  <2>2. /\ RemoveAt(w, n + 1) \in Seq(Addr) /\ Len(RemoveAt(w, n + 1)) = n
        /\ \A k \in 1 .. n : RemoveAt(w, n + 1)[k] = w[k]
    <3> DEFINE j == n + 1
               v == RemoveAt(w, j)
    <3> HIDE DEF w, n, j
    <3>1. /\ v \in Seq(Addr) /\ Len(v) = Len(w) - 1
          /\ \A k \in 1 .. Len(w) - 1 : v[k] = IF k < j THEN w[k] ELSE w[k + 1]
      BY <1>1, <2>1, RemoveAtElements DEF j
    <3>2. Len(w) - 1 = n /\ \A k \in 1 .. n : k < j
      BY <1>1, <1>2 DEF j
    <3> HIDE DEF v
    <3>3. v \in Seq(Addr) /\ Len(v) = n /\ \A k \in 1 .. n : v[k] = w[k]
      BY <3>1, <3>2
    <3> QED BY <3>3 DEF v, j
  <2> HIDE DEF w
  <2> QED BY <1>1, <2>2, SeqEqual
<1>10. task_list_remove(m, t).current = l.current
  <2>1. t # m.current
    BY <1>5
  <2> HIDE DEF m
  <2> QED BY <1>3, <1>5, <2>1, RemoveFields, Zenon
<1> QED BY <1>1, <1>8, <1>9, <1>10

LEMMA ScheduledInit == Init => Scheduled
BY BootInit DEF Init, Booting, Scheduled, RunsCurrent

LEMMA ScheduledStep ==
  TypeOK /\ Booting /\ Scheduled /\ [Next]_vars => Scheduled'
<1> SUFFICES ASSUME TypeOK, Booting, Scheduled, [Next]_vars, ~damaged'
             PROVE  ListIsOrder' /\ RunsCurrent'
  BY DEF Scheduled
<1>1. ASSUME NEW t \in Addr, kernel_main_load(t)
      PROVE  ListIsOrder' /\ RunsCurrent'
  BY <1>1, BootStep DEF Booting, RunsCurrent, kernel_main_load
<1>2. CASE task_run_first_ever_task
  <2>1. order \in Seq(Addr) /\ Len(order) = 2 /\ Chains(list, order)
        /\ list \in List /\ list.head \in Pointer
    BY <1>2, ListFields
       DEF TypeOK, task_run_first_ever_task, Booting, ListIsOrder
  <2>2. list.head \in Range(order)
    <3>1. 1 \in 1 .. Len(order)
      BY <2>1
    <3> QED BY <2>1, <3>1, ChainsNext
  <2>3. list' = task_switch(list, list.head) /\ cr3' = list.head
        /\ order' = order
    BY <1>2 DEF task_run_first_ever_task
  <2> QED BY <2>1, <2>2, <2>3, SwitchType, ChainsSwitch
          DEF ListIsOrder, RunsCurrent, Live
<1>3. CASE UNCHANGED vars \/ compute
  <2>1. UNCHANGED <<list, order, cr3, phase, damaged>>
    BY <1>3 DEF vars, compute
  <2> QED BY <2>1 DEF Scheduled, ListIsOrder, RunsCurrent, Chains, Live
<1>4. ASSUME InUser, ~damaged
      PROVE  /\ list \in List /\ order \in Seq(Addr) /\ Chains(list, order)
             /\ list.current \in Range(order) /\ phase = "user"
             /\ cr3 = list.current /\ list.current \in Addr
  BY <1>4, SavedType DEF TypeOK, Scheduled, ListIsOrder, RunsCurrent, InUser, Live
<1>5. CASE idt_clock
  <2>1. InUser /\ ~damaged /\ order' = order /\ task_next(list, Saved)
    BY <1>5 DEF idt_clock
  <2>2. /\ Chains(list', order) /\ list'.current \in Range(order)
        /\ cr3' = list'.current
    BY <1>4, <2>1, TaskNextScheduled
  <2> QED BY <2>1, <2>2 DEF ListIsOrder, RunsCurrent, Live
<1>6. CASE interrupt_handler \/ isr80h_handler
  <2>1. /\ InUser /\ ~damaged /\ order' = order /\ cr3' = list.current
        /\ list' = task_switch(list, list.current)
    BY <1>6 DEF interrupt_handler, isr80h_handler
  <2>2. list'.current = list.current /\ Chains(list', order)
    BY <1>4, <2>1, SwitchType, ChainsSwitch DEF Pointer
  <2> QED BY <1>4, <2>1, <2>2 DEF ListIsOrder, RunsCurrent, Live
<1>7. ASSUME NEW t \in Addr, process_load_start(t)
      PROVE  ListIsOrder' /\ RunsCurrent'
  <2>1. /\ InUser /\ ~damaged /\ order' = Append(order, t) /\ cr3' = t
        /\ list' = task_switch(task_new(list, t), t) /\ t \notin Range(order)
    BY <1>7 DEF process_load_start, Created, Live
  <2>2. task_new(list, t) \in List /\ Chains(task_new(list, t), order')
    BY <1>4, <2>1, NewType, ChainsNew
  <2>3. list'.current = t /\ Chains(list', order')
    BY <2>1, <2>2, SwitchType, ChainsSwitch DEF Pointer
  <2>4. t \in Range(order')
    BY <1>4, <2>1, AppendElements
  <2> QED BY <2>1, <2>3, <2>4 DEF ListIsOrder, RunsCurrent, Live
<1>8. ASSUME NEW t \in Addr, process_load_unmapped(t)
      PROVE  ListIsOrder' /\ RunsCurrent'
  <2>1. /\ InUser /\ ~damaged /\ order' = order /\ cr3' = list'.current
        /\ list' = task_list_remove(task_new(list, t), t)
        /\ t \notin Range(order)
    BY <1>8 DEF process_load_unmapped, Live
  <2>2. Chains(list', order) /\ list'.current = list.current
    BY <1>4, <2>1, ChainsUnmapped, Zenon
  <2> QED BY <1>4, <2>1, <2>2 DEF ListIsOrder, RunsCurrent, Live
<1>9. CASE process_terminate
  <2> DEFINE t == list.current
             i == Position(t)
             l == task_list_remove(list, t)
             last == Len(order) = 1 /\ orphans = 0
  <2>1. /\ InUser /\ ~damaged /\ order' = RemoveAt(order, i)
        /\ list.prev[t] = Before(t) /\ (l.current # NULL \/ last)
        /\ \/ last /\ list' = l /\ panic
           \/ l.current = NULL /\ ~last
           \/ l.current # NULL /\ task_next(l, Saved)
    BY <1>9 DEF process_terminate
  <2>2. i \in 1 .. Len(order) /\ order[i] = t
    BY <1>4, <2>1, PositionOf DEF Live
  <2>3. list.prev[order[i]] = IF i = 1 THEN NULL ELSE order[i - 1]
    BY <2>1, <2>2 DEF Before
  <2> HIDE DEF i
  <2>4. /\ Chains(l, order') /\ order' \in Seq(Addr) /\ l \in List
        /\ l.current \in Range(order') \cup {NULL}
    <3>1. Chains(l, order')
      BY <1>4, <2>1, <2>2, <2>3, ChainsRemove
    <3>2. l.current \in Range(order') \cup {NULL}
      BY <1>4, <2>1, <2>2, <2>3, RemoveCurrent
    <3>3. order' \in Seq(Addr)
      BY <1>4, <2>1, <2>2, RemoveAtElements
    <3>4. l \in List
      BY <1>4, <2>1, RemoveFields, Zenon
    <3> QED BY <3>1, <3>2, <3>3, <3>4
  <2> HIDE DEF l, last
  <2>5. CASE list' = l /\ panic
    BY <2>4, <2>5 DEF ListIsOrder, RunsCurrent, panic
  <2>6. CASE l.current # NULL /\ task_next(l, Saved)
    <3>1. /\ Chains(list', order') /\ list'.current \in Range(order')
          /\ cr3' = list'.current
      BY <1>4, <2>1, <2>4, <2>6, TaskNextScheduled
    <3> QED BY <3>1 DEF ListIsOrder, RunsCurrent, Live
  <2> QED BY <2>1, <2>5, <2>6
<1>10. CASE kernel_panic
  <2>1. UNCHANGED <<list, order, damaged>> /\ phase' = "halted"
    BY <1>10 DEF kernel_panic, panic
  <2> QED BY <2>1 DEF Scheduled, ListIsOrder, RunsCurrent, Chains
<1> QED BY <1>1, <1>2, <1>3, <1>5, <1>6, <1>7, <1>8, <1>9, <1>10 DEF Next

\* Until a task ends whose predecessor ended before it, the list is exactly
\* the existing tasks in the order of their creation, and the CPU is in one
\* of them, in its own address space.
THEOREM SchedulerSound == Spec => []Scheduled
<1>1. Init => TypeOK /\ Booting /\ Scheduled
  BY TypeInit, BootInit, ScheduledInit
<1>2. TypeOK /\ Booting /\ Scheduled /\ [Next]_vars
        => (TypeOK /\ Booting /\ Scheduled)'
  BY TypeStep, BootStep, ScheduledStep
<1> QED BY <1>1, <1>2, PTL DEF Spec

-----------------------------------------------------------------------------
(* Registers survive the other tasks                                       *)

\* The struct of every existing task holds what the task had when it was last
\* saved.
Kept == \A a \in Live : regs[a] = left[a].cpu

Switched ==
  \A a \in Live' :
    list.current # a /\ list'.current = a /\ phase' = "user" /\ InUser
      => cpu' = left'[a].cpu

\* Saving the current task keeps Kept.
LEMMA KeptSaved ==
  ASSUME TypeOK, Kept, InUser, Leave, NEW a \in Live
  PROVE  Saved[a] = left'[a].cpu /\ (a # list.current => Saved[a] = regs[a])
<1>1. a \in Addr /\ list.current \in Addr
  BY SavedType, LiveElements DEF TypeOK, Live
<1> QED BY <1>1 DEF TypeOK, Kept, Leave, Saved

LEMMA RemovedLive ==
  ASSUME TypeOK, InUser, order' = RemoveAt(order, Position(list.current))
  PROVE  Live' \subseteq Live
<1> DEFINE i == Position(list.current)
           w == RemoveAt(order, i)
<1>1. order \in Seq(Addr) /\ i \in 1 .. Len(order) /\ Len(order) \in Nat
  BY PositionOf, LiveElements DEF TypeOK, InUser
<1> HIDE DEF i
<1>2. /\ w \in Seq(Addr) /\ Len(w) = Len(order) - 1
      /\ \A k \in 1 .. Len(order) - 1 :
           w[k] = IF k < i THEN order[k] ELSE order[k + 1]
  BY <1>1, RemoveAtElements
<1> HIDE DEF w
<1>3. ASSUME NEW a \in Range(w) PROVE a \in Range(order)
  <2>1. PICK k \in 1 .. Len(w) : w[k] = a
    BY <1>2, LiveElements
  <2>2. \E j \in 1 .. Len(order) : order[j] = a
    BY <1>1, <1>2, <2>1
  <2> QED BY <1>1, <2>2, LiveElements
<1> QED BY <1>3 DEF Live, w, i

LEMMA KeptStep == TypeOK /\ Kept /\ [Next]_vars => Kept'
<1> SUFFICES ASSUME TypeOK, Kept, [Next]_vars PROVE Kept'
  OBVIOUS
<1>1. order \in Seq(Addr) /\ Live \subseteq Addr
  BY LiveElements DEF TypeOK, Live
<1>2. ASSUME NEW t \in Addr, kernel_main_load(t) PROVE Kept'
  <2>1. Live' = Live \cup {t}
    BY <1>1, <1>2, AppendElements DEF Live, kernel_main_load, Created
  <2> QED BY <1>1, <1>2, <2>1
          DEF TypeOK, Kept, kernel_main_load, Fresh, Created
<1>3. CASE UNCHANGED vars \/ compute \/ task_run_first_ever_task
  <2>1. UNCHANGED <<regs, left, order>>
    BY <1>3 DEF vars, compute, task_run_first_ever_task
  <2> QED BY <2>1 DEF Kept, Live
<1>4. ASSUME InUser, Leave, regs' = Saved, Live' \subseteq Live PROVE Kept'
  BY <1>4, KeptSaved DEF Kept
<1>5. CASE idt_clock \/ interrupt_handler \/ isr80h_handler \/ kernel_panic
  <2>1. /\ InUser /\ order' = order
        /\ (Leave /\ regs' = Saved) \/ UNCHANGED <<regs, left>>
    BY <1>5 DEF idt_clock, interrupt_handler, isr80h_handler, kernel_panic
  <2>2. CASE Leave /\ regs' = Saved
    BY <1>4, <2>1, <2>2 DEF Live
  <2>3. CASE UNCHANGED <<regs, left>>
    BY <2>1, <2>3 DEF Kept, Live
  <2> QED BY <2>1, <2>2, <2>3
<1>6. ASSUME NEW t \in Addr, process_load_start(t) PROVE Kept'
  <2>1. /\ InUser /\ regs' = [Saved EXCEPT ![t] = Entry] /\ t \notin Live
        /\ left' = [left EXCEPT ![list.current] =
                                  [cpu |-> cpu, eflags |-> eflags],
                                ![t] = Fresh]
        /\ order' = Append(order, t)
    BY <1>6 DEF process_load_start, Created
  <2>2. Live' = Live \cup {t}
    BY <1>1, <2>1, AppendElements DEF Live
  <2>3. list.current \in Addr
    BY <2>1, SavedType
  <2>4. ASSUME NEW a \in Live PROVE regs'[a] = left'[a].cpu
    BY <1>1, <2>1, <2>3 DEF TypeOK, Kept, Saved
  <2>5. regs'[t] = left'[t].cpu
    BY <2>1, <2>3, SavedType DEF TypeOK, Fresh
  <2> QED BY <2>2, <2>4, <2>5 DEF Kept
<1>7. ASSUME NEW t \in Addr, process_load_unmapped(t) PROVE Kept'
  <2>1. /\ InUser /\ Leave /\ regs' = [Saved EXCEPT ![t] = Entry]
        /\ t \notin Live /\ Live' = Live
    BY <1>7 DEF process_load_unmapped, Live
  <2>2. \A a \in Live : regs'[a] = Saved[a]
    BY <1>1, <2>1, SavedType
  <2> QED BY <2>1, <2>2, KeptSaved DEF Kept
<1>8. CASE process_terminate
  <2>1. InUser /\ Leave /\ regs' = Saved
        /\ order' = RemoveAt(order, Position(list.current))
    BY <1>8 DEF process_terminate
  <2> QED BY <1>4, <2>1, RemovedLive
<1> QED BY <1>2, <1>3, <1>5, <1>6, <1>7, <1>8 DEF Next

LEMMA SwitchedStep == TypeOK /\ Kept /\ [Next]_vars => Switched
<1> SUFFICES ASSUME TypeOK, Kept, [Next]_vars, InUser, NEW a \in Live',
                    list.current # a, list'.current = a, phase' = "user"
             PROVE  cpu' = left'[a].cpu
  BY DEF Switched
<1>1. /\ list \in List /\ list.current \in Addr /\ list.current \in Live
      /\ phase = "user" /\ order \in Seq(Addr) /\ Live \subseteq Addr
  BY SavedType, LiveElements DEF TypeOK, InUser, Live
<1>2. ASSUME NEW l \in List, task_next(l, Saved), Leave, a \in Live
      PROVE  cpu' = left'[a].cpu
  <2>1. task_get_next(l) # NULL
    BY <1>2 DEF task_next, panic
  <2>2. /\ list' = task_switch(l, task_get_next(l))
        /\ cpu' = Saved[task_get_next(l)]
    BY <1>2, <2>1 DEF task_next, task_return
  <2>3. list'.current = task_get_next(l)
    BY <2>2 DEF task_switch, List
  <2> QED BY <1>2, <2>2, <2>3, KeptSaved
<1>3. CASE idt_clock
  <2>1. task_next(list, Saved) /\ Leave /\ a \in Live
    BY <1>3 DEF idt_clock, Live
  <2> QED BY <1>1, <1>2, <2>1
<1>4. ASSUME NEW t \in Addr, process_load_start(t) PROVE cpu' = left'[a].cpu
  <2>1. /\ list' = task_switch(task_new(list, t), t)
        /\ cpu' = [Saved EXCEPT ![t] = Entry][t]
        /\ left' = [left EXCEPT ![list.current] =
                                  [cpu |-> cpu, eflags |-> eflags],
                                ![t] = Fresh]
    BY <1>4 DEF process_load_start, task_return
  <2>2. a = t
    BY <1>1, <2>1, NewType, SwitchType DEF Pointer
  <2>3. cpu' = Entry
    BY <2>1, SavedType
  <2> QED BY <1>1, <2>1, <2>2, <2>3 DEF TypeOK, Fresh
<1>5. ASSUME NEW t \in Addr, process_load_unmapped(t) PROVE FALSE
  <2> DEFINE m == task_new(list, t)
  <2>1. list' = task_list_remove(task_new(list, t), t) /\ t # list.current
    BY <1>1, <1>5 DEF process_load_unmapped
  <2>2. m \in List
    BY <1>1, NewType
  <2>3. CASE list.head = NULL
    <3>1. /\ m.prev[t] = NULL /\ m.next[t] = NULL
          /\ m.head = t /\ m.current = t
      BY <1>1, <2>3, ListFields DEF task_new
    <3> HIDE DEF m
    <3>2. /\ list'.next = [b \in Addr |-> IF b = m.prev[t] THEN m.next[t]
                                                           ELSE m.next[b]]
          /\ list'.head = IF t = m.head THEN m.next[t] ELSE m.head
          /\ list'.current = IF list'.next[t] = NULL THEN list'.head
                                                    ELSE list'.next[t]
      BY <2>1, <2>2, <3>1, RemoveFields, Zenon DEF m
    <3>3. list'.current = NULL
      BY <3>1, <3>2
    <3> QED BY <1>1, <1>5, <3>3, TaskAssumption DEF process_load_unmapped, Live
  <2>4. CASE list.head # NULL
    <3>1. m.current = list.current
      BY <1>1, <2>4, NewFields, Zenon
    <3> HIDE DEF m
    <3>2. list'.current = list.current
      BY <2>1, <2>2, <3>1, RemoveFields, Zenon DEF m
    <3> QED BY <3>2
  <2> QED BY <2>3, <2>4
<1>6. CASE process_terminate
  <2> DEFINE l == task_list_remove(list, list.current)
  <2>1. /\ Leave /\ order' = RemoveAt(order, Position(list.current))
        /\ \/ list' = l /\ panic
           \/ list' = l /\ l.current = NULL
           \/ task_next(l, Saved)
    BY <1>6 DEF process_terminate
  <2>2. a \in Live
    BY <2>1, RemovedLive
  <2>3. l \in List
    BY <1>1, RemoveFields, Zenon
  <2> HIDE DEF l
  <2>4. CASE list' = l /\ panic
    BY <2>4 DEF panic
  <2>5. CASE list' = l /\ l.current = NULL
    BY <1>1, <2>2, <2>5, TaskAssumption
  <2>6. CASE task_next(l, Saved)
    BY <1>2, <2>1, <2>2, <2>3, <2>6
  <2> QED BY <2>1, <2>4, <2>5, <2>6
<1>7. CASE interrupt_handler \/ isr80h_handler
  <2>1. list' = task_switch(list, list.current)
    BY <1>7 DEF interrupt_handler, isr80h_handler
  <2> QED BY <1>1, <2>1, SwitchType DEF Pointer
<1>8. CASE UNCHANGED vars \/ compute \/ kernel_panic
  BY <1>8 DEF vars, compute, kernel_panic
<1> QED BY <1>1, <1>3, <1>4, <1>5, <1>6, <1>7, <1>8
        DEF Next, kernel_main_load, task_run_first_ever_task

\* A task that gets the CPU back has the registers it had when it lost it,
\* with any number of tasks coming, going and running in between.
THEOREM ContextSwitch == Spec => RegistersRestored
<1>1. Init => TypeOK /\ Booting /\ Kept
  BY TypeInit, BootInit DEF Init, Kept, Live, Range
<1>2. TypeOK /\ Booting /\ Kept /\ [Next]_vars => (TypeOK /\ Booting /\ Kept)'
  BY TypeStep, BootStep, KeptStep
<1>3. TypeOK /\ Kept /\ [Next]_vars => [Switched]_vars
  BY SwitchedStep
<1>4. RegistersRestored <=> [][Switched]_vars
  BY DEF RegistersRestored, Switched
<1> QED BY <1>1, <1>2, <1>3, <1>4, PTL DEF Spec
=============================================================================
