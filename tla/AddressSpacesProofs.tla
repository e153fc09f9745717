------------------------ MODULE AddressSpacesProofs ------------------------
(***************************************************************************)
(* Theorems about address spaces, for every page size, heap, number of      *)
(* processes and allocations, and for every set of programs: what each call *)
(* consists of, then who holds which block, and who reaches it.             *)
(***************************************************************************)
EXTENDS AddressSpaces, Lemmas

-----------------------------------------------------------------------------
(* Pages and addresses                                                     *)

HeapPage == PageOf(HeapAddress)

\* What the assumptions say of the constants, once for all the proofs.
LEMMA Constants ==
  /\ PageSize \in Nat \ {0, 1} /\ Pages \in Nat \ {0}
  /\ Pages * PageSize \in Nat \ {0}
  /\ HeapBlocks \in Nat \ {0} /\ HeapPage \in Nat \ {0}
  /\ HeapAddress = HeapPage * PageSize /\ HeapAddress \in Nat \ {0}
  /\ HeapPage + HeapBlocks <= Pages
  /\ MaxProcesses \in Nat /\ MaxAllocations \in Nat
<1>1. PICK q, r : q = HeapAddress \div PageSize /\ r = HeapAddress % PageSize
  OBVIOUS
<1>2. PageSize \in Nat \ {0, 1} /\ Pages \in Nat \ {0} /\ HeapAddress \in Nat \ {0}
  BY PagingAssumption, AddressSpacesAssumption
<1>3. q \in Int /\ r = 0 /\ HeapAddress = PageSize * q + r
  BY <1>1, <1>2, AddressSpacesAssumption DEF paging_is_aligned
<1>4. q \in Nat \ {0}
  <2>1. CASE q <= 0
    <3>1. PageSize * q <= 0
      BY <2>1, <1>2, <1>3
    <3> QED BY <3>1, <1>2, <1>3
  <2> QED BY <2>1, <1>3
<1>5. Pages * PageSize \in Nat \ {0}
  BY <1>2
<1> QED BY <1>1, <1>2, <1>3, <1>4, <1>5, AddressSpacesAssumption DEF HeapPage, PageOf

\* A page and an offset in it determine the address and the reverse.
LEMMA PageAndOffset ==
  ASSUME NEW v \in Nat, NEW r \in 0 .. PageSize - 1
  PROVE  /\ v * PageSize + r \in Nat
         /\ PageOf(v * PageSize + r) = v /\ (v * PageSize + r) % PageSize = r
         /\ v * PageSize + r < Pages * PageSize <=> v < Pages
<1>1. PageSize \in Nat \ {0} /\ Pages \in Nat
  BY Constants
<1>2. v * PageSize + r = PageSize * v + r /\ v * PageSize + r \in Nat
  BY <1>1
<1>3. (PageSize * v + r) % PageSize = r /\ (PageSize * v + r) \div PageSize = v
  BY <1>1, DivMod
<1>4. CASE v < Pages
  <2>1. (v + 1) * PageSize <= Pages * PageSize
    BY <1>1, <1>4
  <2> QED BY <1>1, <1>2, <1>3, <1>4, <2>1 DEF PageOf
<1>5. CASE v >= Pages
  <2>1. v * PageSize >= Pages * PageSize
    BY <1>1, <1>5
  <2> QED BY <1>1, <1>2, <1>3, <1>5, <2>1 DEF PageOf
<1> QED BY <1>1, <1>4, <1>5

\* An address is its page and its offset in that page.
LEMMA Split ==
  ASSUME NEW addr \in Nat
  PROVE  /\ PageOf(addr) \in Nat /\ addr % PageSize \in 0 .. PageSize - 1
         /\ addr = PageOf(addr) * PageSize + (addr % PageSize)
         /\ addr \in Address <=> PageOf(addr) < Pages
         /\ paging_align_to_lower_page(addr) = PageOf(addr) * PageSize
         /\ paging_is_aligned(addr) <=> addr = PageOf(addr) * PageSize
<1>1. PICK q, r : q = addr \div PageSize /\ r = addr % PageSize
  OBVIOUS
<1>2. PageSize \in Nat \ {0} /\ Pages \in Nat /\ Pages * PageSize \in Nat
  BY Constants
<1>3. q \in Int /\ r \in 0 .. PageSize - 1 /\ addr = PageSize * q + r
  BY <1>1, <1>2
<1>4. q \in Nat
  <2>1. CASE q <= -1
    <3>1. PageSize * q <= -PageSize
      BY <2>1, <1>2, <1>3
    <3> QED BY <3>1, <1>2, <1>3
  <2> QED BY <2>1, <1>3
<1>5. addr = q * PageSize + r /\ q * PageSize \in Nat
  BY <1>2, <1>3, <1>4
<1>6. addr \in Address <=> q < Pages
  <2>1. addr \in Address <=> addr < Pages * PageSize
    BY <1>2 DEF Address
  <2>2. q * PageSize + r < Pages * PageSize <=> q < Pages
    BY <1>3, <1>4, PageAndOffset
  <2> QED BY <2>1, <2>2, <1>5
<1> QED BY <1>1, <1>2, <1>3, <1>4, <1>5, <1>6
     DEF PageOf, paging_align_to_lower_page, paging_is_aligned

\* The pages that a number of bytes takes.
LEMMA PagesForSize ==
  ASSUME NEW size \in Nat
  PROVE  /\ PagesFor(size) = IF size % PageSize = 0 THEN PageOf(size) ELSE PageOf(size) + 1
         /\ PagesFor(size) \in Nat
         /\ size \in Address => PagesFor(size) <= Pages
<1>1. PICK v, r : v = PageOf(size) /\ r = size % PageSize
  OBVIOUS
<1>2. /\ v \in Nat /\ r \in 0 .. PageSize - 1 /\ size = v * PageSize + r
      /\ size \in Address => v < Pages
  BY <1>1, Split
<1>3. PageSize \in Nat \ {0} /\ Pages \in Nat /\ v * PageSize \in Nat
  BY <1>2, Constants
<1>4. CASE r = 0
  <2>1. size + PageSize - 1 = v * PageSize + (PageSize - 1) /\ PageSize - 1 \in 0 .. PageSize - 1
    BY <1>2, <1>3, <1>4
  <2>2. PageOf(v * PageSize + (PageSize - 1)) = v
    BY <1>2, <2>1, PageAndOffset
  <2> QED BY <1>1, <1>2, <1>3, <1>4, <2>1, <2>2 DEF PagesFor, PageOf
<1>5. CASE r # 0
  <2>1. /\ size + PageSize - 1 = (v + 1) * PageSize + (r - 1)
        /\ r - 1 \in 0 .. PageSize - 1 /\ v + 1 \in Nat
    BY <1>2, <1>3, <1>5
  <2>2. PageOf((v + 1) * PageSize + (r - 1)) = v + 1
    BY <2>1, PageAndOffset
  <2> QED BY <1>1, <1>2, <1>3, <1>5, <2>1, <2>2 DEF PagesFor, PageOf
<1> QED BY <1>4, <1>5

\* Nothing takes no page.
LEMMA BytesFromNothing == PagesFor(0) = 0
<1>1. 0 * PageSize + 0 = 0 /\ 0 \in 0 .. PageSize - 1 /\ 0 \in Nat
  BY Constants
<1>2. PageOf(0) = 0 /\ 0 % PageSize = 0
  BY <1>1, PageAndOffset
<1> QED BY <1>2, PagesForSize

\* The same number of bytes from a page on.
LEMMA BytesFromPage ==
  ASSUME NEW k \in Nat, NEW size \in Nat, NEW addr, addr = k * PageSize
  PROVE  /\ addr + size \in Nat
         /\ PageOf(addr + size) = k + PageOf(size)
         /\ (addr + size) % PageSize = size % PageSize
         /\ PagesFor(addr + size) = k + PagesFor(size)
         /\ Frames(addr, size) = k .. k + PagesFor(size) - 1
         /\ \A i \in Nat : i < size => PageOf(i) < PagesFor(size)
<1>1. PICK v, r : v = PageOf(size) /\ r = size % PageSize
  OBVIOUS
<1>2. v \in Nat /\ r \in 0 .. PageSize - 1 /\ size = v * PageSize + r
  BY <1>1, Split
<1>3. PageSize \in Nat \ {0} /\ v * PageSize \in Nat /\ k * PageSize \in Nat
  BY <1>2, Constants
<1>4. k * PageSize + size = (k + v) * PageSize + r /\ k + v \in Nat
  BY <1>2, <1>3
<1>5. PageOf(addr + size) = k + v /\ (addr + size) % PageSize = r
  BY <1>2, <1>4, PageAndOffset
<1>6. addr + size \in Nat
  BY <1>3
<1>7. PagesFor(addr + size) = k + PagesFor(size)
  <2>1. PagesFor(addr + size) = IF r = 0 THEN k + v ELSE k + v + 1
    BY <1>5, <1>6, PagesForSize
  <2>2. PagesFor(size) = IF r = 0 THEN v ELSE v + 1
    BY <1>1, PagesForSize
  <2> QED BY <1>2, <2>1, <2>2
<1>8. Frames(addr, size) = k .. k + PagesFor(size) - 1
  <2>1. CASE size = 0
    <3>1. PagesFor(size) = 0
      BY <2>1, BytesFromNothing
    <3> QED BY <2>1, <3>1 DEF Frames
  <2>2. CASE size # 0
    <3>1. PageOf(addr) = k
      <4>1. k * PageSize + 0 = k * PageSize /\ 0 \in 0 .. PageSize - 1
        BY <1>3
      <4> QED BY <4>1, PageAndOffset
    <3>2. PageOf((addr + size) - 1) = k + PagesFor(size) - 1
      <4>1. CASE r = 0
        <5>1. /\ (addr + size) - 1 = (k + v - 1) * PageSize + (PageSize - 1)
              /\ PageSize - 1 \in 0 .. PageSize - 1 /\ k + v - 1 \in Nat
          <6>1. v # 0
            BY <1>2, <1>3, <2>2, <4>1
          <6> QED BY <1>2, <1>3, <1>4, <4>1, <6>1
        <5>2. PageOf((addr + size) - 1) = k + v - 1
          BY <5>1, PageAndOffset
        <5> QED BY <1>1, <4>1, <5>2, PagesForSize
      <4>2. CASE r # 0
        <5>1. /\ (addr + size) - 1 = (k + v) * PageSize + (r - 1)
              /\ r - 1 \in 0 .. PageSize - 1 /\ k + v \in Nat
          BY <1>2, <1>3, <1>4, <4>2
        <5>2. PageOf((addr + size) - 1) = k + v
          BY <5>1, PageAndOffset
        <5>3. PagesFor(size) = v + 1
          BY <1>1, <4>2, PagesForSize
        <5> QED BY <5>2, <5>3, <1>2
      <4> QED BY <4>1, <4>2
    <3> QED BY <2>2, <3>1, <3>2 DEF Frames
  <2> QED BY <2>1, <2>2
<1>9. ASSUME NEW i \in Nat, i < size
      PROVE  PageOf(i) < PagesFor(size)
  <2>1. PICK w, t : w = PageOf(i) /\ t = i % PageSize
    OBVIOUS
  <2>2. w \in Nat /\ t \in 0 .. PageSize - 1 /\ i = w * PageSize + t
    BY <2>1, Split
  <2>3. PagesFor(size) = IF r = 0 THEN v ELSE v + 1
    BY <1>1, PagesForSize
  <2>4. CASE w >= v + 1
    <3>1. w * PageSize >= (v + 1) * PageSize
      BY <1>2, <1>3, <2>2, <2>4
    <3> QED BY <3>1, <1>2, <1>3, <1>9, <2>2
  <2>5. CASE w = v /\ r = 0
    BY <2>5, <1>2, <1>3, <1>9, <2>2
  <2> QED BY <1>2, <2>1, <2>2, <2>3, <2>4, <2>5
<1> QED BY <1>1, <1>5, <1>6, <1>7, <1>8, <1>9

\* An address wraps at most once when it is less than twice the address space.
LEMMA WrapNear ==
  ASSUME NEW x \in Nat, x < 2 * (Pages * PageSize)
  PROVE  /\ Wrap(x) = IF x < Pages * PageSize THEN x ELSE x - (Pages * PageSize)
         /\ Wrap(x) \in Address
<1>1. PICK d : d = Pages * PageSize
  OBVIOUS
<1>2. d \in Nat \ {0} /\ x \in -d .. 2 * d - 1
  BY <1>1, Constants
<1>3. x % d = IF x < 0 THEN x + d ELSE IF x < d THEN x ELSE x - d
  BY <1>2, ModNear
<1> QED BY <1>1, <1>2, <1>3 DEF Wrap, Address

\* Rounding an address up gives the page behind it, or 0 at the end.
LEMMA AlignUp ==
  ASSUME NEW x \in Address
  PROVE  paging_align_address(x) =
           (IF PagesFor(x) = Pages THEN 0 ELSE PagesFor(x)) * PageSize
<1>1. PICK v, r : v = PageOf(x) /\ r = x % PageSize
  OBVIOUS
<1>2. /\ x \in Nat /\ v \in Nat /\ r \in 0 .. PageSize - 1
      /\ x = v * PageSize + r /\ v < Pages
  BY <1>1, Split, Constants DEF Address
<1>3. PageSize \in Nat \ {0} /\ Pages \in Nat /\ v * PageSize \in Nat
  BY <1>2, Constants
<1>4. PagesFor(x) = IF r = 0 THEN v ELSE v + 1
  BY <1>1, <1>2, PagesForSize
<1>5. CASE r = 0
  BY <1>1, <1>2, <1>3, <1>4, <1>5 DEF paging_align_address, paging_is_aligned
<1>6. CASE r # 0
  <2>1. (x + PageSize) - r = (v + 1) * PageSize
    BY <1>2, <1>3
  <2>2. paging_align_address(x) = Wrap((v + 1) * PageSize)
    BY <1>1, <1>6, <2>1 DEF paging_align_address, paging_is_aligned
  <2>3. PICK e : e = (v + 1) * PageSize
    OBVIOUS
  <2>4. e \in Nat /\ e <= Pages * PageSize /\ (e = Pages * PageSize <=> v + 1 = Pages)
    <3>1. CASE v + 1 = Pages
      BY <3>1, <2>3, <1>3
    <3>2. CASE v + 1 < Pages
      <4>1. v + 2 <= Pages /\ v + 2 \in Nat
        BY <3>2, <1>2, <1>3
      <4>2. (v + 2) * PageSize <= Pages * PageSize
        BY <4>1, <1>3
      <4>3. (v + 2) * PageSize = e + PageSize /\ e \in Nat
        BY <2>3, <1>2, <1>3
      <4> QED BY <4>2, <4>3, <3>2, <1>3, Constants
    <3> QED BY <3>1, <3>2, <1>2, <1>3
  <2>5. Wrap(e) = IF e < Pages * PageSize THEN e ELSE e - (Pages * PageSize)
    <3>1. e < 2 * (Pages * PageSize)
      BY <2>4, Constants
    <3> QED BY <2>4, <3>1, WrapNear
  <2> QED BY <1>4, <1>6, <2>2, <2>3, <2>4, <2>5, Constants
<1> QED BY <1>5, <1>6

\* The blocks of a request are the pages it needs; none when the rounding
\* wraps around.
LEMMA BlocksOfSize ==
  ASSUME NEW size \in Address
  PROVE  Kernel!TotalBlocks(size) = IF PagesFor(size) = Pages THEN 0 ELSE PagesFor(size)
<1>1. size \in Nat
  BY Constants DEF Address
<1>2. Kernel!heap_align_value_to_upper(size) = paging_align_address(size)
  <2>1. (size - (size % PageSize)) + PageSize = (size + PageSize) - (size % PageSize)
    BY <1>1, Constants, Split
  <2> QED BY <2>1 DEF Kernel!heap_align_value_to_upper, paging_align_address,
                      paging_is_aligned, Wrap
<1>3. PICK v : v = IF PagesFor(size) = Pages THEN 0 ELSE PagesFor(size)
  OBVIOUS
<1>4. v \in Nat /\ 0 \in 0 .. PageSize - 1 /\ v * PageSize + 0 = v * PageSize
  BY <1>1, <1>3, PagesForSize, Constants
<1>5. PageOf(v * PageSize) = v
  BY <1>4, PageAndOffset
<1> QED BY <1>2, <1>3, <1>5, AlignUp DEF Kernel!TotalBlocks, PageOf

-----------------------------------------------------------------------------
(* Mapping                                                                 *)

Directory == [Page -> PageEntry]

\* c pages from a on get the frames from k on; the range wraps at the end.
MapPages(dir, a, k, c, flags) ==
  [v \in Page |-> IF (v - a) % Pages < c
                    THEN [frame |-> k + ((v - a) % Pages), flags |-> flags]
                    ELSE dir[v]]

\* A page is a number below Pages.
LEMMA PageType == \A v \in Page : v \in Nat /\ v < Pages
BY Constants DEF Page

\* How far a page lies behind another, past the end of the address space.
LEMMA Distance ==
  ASSUME NEW a \in Page, NEW v \in Page
  PROVE  /\ (v - a) % Pages = IF v < a THEN v - a + Pages ELSE v - a
         /\ (v - a) % Pages \in Page
<1>1. PICK x : x = v - a
  OBVIOUS
<1>2. x \in -Pages .. 2 * Pages - 1 /\ x < Pages
  BY <1>1, PageType, Constants
<1>3. x % Pages = IF x < 0 THEN x + Pages ELSE IF x < Pages THEN x ELSE x - Pages
  BY <1>2, Constants, ModNear
<1> QED BY <1>1, <1>2, <1>3, PageType, Constants DEF Page

\* Mapping pages gives a directory again; mapping none changes nothing.
LEMMA MapPagesType ==
  ASSUME NEW dir \in Directory, NEW a \in Page, NEW k \in Page, NEW c \in Nat,
         k + c <= Pages, NEW flags \in SUBSET Flag
  PROVE  /\ MapPages(dir, a, k, c, flags) \in Directory
         /\ c = 0 => MapPages(dir, a, k, c, flags) = dir
<1>1. ASSUME NEW v \in Page
      PROVE  /\ (v - a) % Pages < c =>
                  [frame |-> k + ((v - a) % Pages), flags |-> flags] \in PageEntry
             /\ ~ ((v - a) % Pages < 0)
  <2>1. PICK i : i = (v - a) % Pages
    OBVIOUS
  <2>2. i \in Nat
    BY <2>1, Distance, PageType
  <2>3. i < c => k + i \in Page
    BY <2>2, PageType, Constants DEF Page
  <2> QED BY <2>1, <2>2, <2>3 DEF PageEntry
<1>2. MapPages(dir, a, k, c, flags) \in Directory
  BY <1>1 DEF MapPages, Directory
<1>3. ASSUME c = 0 PROVE MapPages(dir, a, k, c, flags) = dir
  <2>1. \A v \in Page : MapPages(dir, a, k, c, flags)[v] = dir[v]
    BY <1>1, <1>3 DEF MapPages
  <2> QED BY <1>2, <2>1 DEF Directory
<1> QED BY <1>2, <1>3

\* paging_map_to on whole pages.
LEMMA MapRange ==
  ASSUME NEW dir \in Directory, NEW a \in Page, NEW k \in Page, NEW e \in Page,
         NEW flags \in SUBSET Flag
  PROVE  paging_map_to(dir, a * PageSize, k * PageSize, e * PageSize, flags) =
           IF e < k THEN Mapped(-EINVARG, dir)
                    ELSE Mapped(0, MapPages(dir, a, k, e - k, flags))
<1>1. /\ a \in Nat /\ k \in Nat /\ e \in Nat /\ e < Pages
      /\ PageSize \in Nat \ {0} /\ Pages \in Nat \ {0}
  BY PageType, Constants
<1>2. ASSUME NEW v \in Nat
      PROVE  v * PageSize \in Nat /\ PageOf(v * PageSize) = v /\ paging_is_aligned(v * PageSize)
  <2>1. v * PageSize + 0 = v * PageSize /\ v * PageSize \in Nat /\ 0 \in 0 .. PageSize - 1
    BY <1>1
  <2> QED BY <2>1, PageAndOffset DEF paging_is_aligned
<1>3. e * PageSize < k * PageSize <=> e < k
  <2>1. CASE e < k
    <3>1. (e + 1) * PageSize <= k * PageSize
      BY <2>1, <1>1
    <3> QED BY <3>1, <2>1, <1>1
  <2>2. CASE e >= k
    <3>1. e * PageSize >= k * PageSize
      BY <2>2, <1>1
    <3> QED BY <3>1, <2>2, <1>1, <1>2
  <2> QED BY <2>1, <2>2, <1>1
<1>4. CASE e < k
  BY <1>3, <1>4 DEF paging_map_to
<1>5. CASE ~ (e < k)
  <2>1. PICK c : c = e - k
    OBVIOUS
  <2>2. c \in Nat /\ k + c = e
    BY <2>1, <1>1, <1>5
  <2>3. ((e * PageSize) - (k * PageSize)) \div PageSize = c
    <3>1. (e * PageSize) - (k * PageSize) = c * PageSize
      BY <1>1, <2>1
    <3> QED BY <3>1, <2>2, <1>2 DEF PageOf
  <2>4. ASSUME NEW v \in Page
        PROVE  (v - a) % Pages < c => (k + ((v - a) % Pages)) % Pages = k + ((v - a) % Pages)
    <3>1. PICK i : i = (v - a) % Pages
      OBVIOUS
    <3>2. i \in Nat
      BY <3>1, Distance, PageType
    <3>3. i < c => k + i \in 0 .. Pages - 1
      BY <3>2, <2>2, <1>1
    <3> QED BY <3>1, <3>3, <1>1
  <2>5. [v \in Page |->
           LET i == (v - a) % Pages
           IN  IF i < c THEN [frame |-> (k + i) % Pages, flags |-> flags] ELSE dir[v]]
          = MapPages(dir, a, k, c, flags)
    BY <2>4 DEF MapPages
  <2>6. paging_map_range(dir, a * PageSize, k * PageSize, c, flags)
          = Mapped(0, MapPages(dir, a, k, c, flags))
    BY <1>1, <1>2, <2>5 DEF paging_map_range
  <2> QED BY <1>1, <1>2, <1>3, <1>5, <2>1, <2>3, <2>6 DEF paging_map_to
<1> QED BY <1>4, <1>5

\* paging_map_to for a number of bytes from the start of a frame: an end that
\* wraps around makes it fail, or map less.
Fewer(k, c, size) ==
  c # PagesFor(size) => k = 0 \/ k * PageSize + size > Pages * PageSize

\* paging_map_to maps as many pages as the bytes from a frame take, or fewer
\* where the end wraps, or refuses and maps none.
LEMMA MapBytes ==
  ASSUME NEW dir \in Directory, NEW a \in Page, NEW k \in Page, NEW size \in Nat,
         k * PageSize + size < 2 * (Pages * PageSize),
         NEW flags \in SUBSET Flag, NEW m,
         m = paging_map_to(dir, a * PageSize, k * PageSize,
               paging_align_address(Wrap(k * PageSize + size)), flags)
  PROVE  \/ m = Mapped(-EINVARG, dir)
         \/ \E c \in 0 .. PagesFor(size) :
              /\ m = Mapped(0, MapPages(dir, a, k, c, flags))
              /\ k + c < Pages /\ Fewer(k, c, size)
<1>1. PICK x, d : x = k * PageSize + size /\ d = Pages * PageSize
  OBVIOUS
<1>2. /\ k \in Nat /\ k < Pages /\ Pages \in Nat /\ d \in Nat
      /\ PageSize \in Nat \ {0} /\ x \in Nat /\ x < 2 * d
  <2>1. k \in Nat /\ PageSize \in Nat \ {0}
    BY PageType, Constants
  <2>2. k * PageSize \in Nat
    BY <2>1
  <2> QED BY <1>1, <2>1, <2>2, PageType, Constants
<1>3. PICK y : y = Wrap(x)
  OBVIOUS
<1>4. y \in Address /\ y \in Nat /\ y = IF x < d THEN x ELSE x - d
  BY <1>1, <1>2, <1>3, WrapNear, Constants DEF Address
<1>5. PICK e : e = IF PagesFor(y) = Pages THEN 0 ELSE PagesFor(y)
  OBVIOUS
<1>6. e \in Page /\ PagesFor(y) \in Nat /\ PagesFor(size) \in Nat
  <2>1. /\ PagesFor(y) \in Nat /\ PagesFor(y) <= Pages
        /\ PagesFor(size) \in Nat
    BY <1>4, PagesForSize
  <2> QED BY <2>1, <1>2, <1>5 DEF Page
<1>7. paging_align_address(y) = e * PageSize
  BY <1>4, <1>5, AlignUp
<1>8. m = IF e < k THEN Mapped(-EINVARG, dir)
                   ELSE Mapped(0, MapPages(dir, a, k, e - k, flags))
  BY <1>1, <1>3, <1>6, <1>7, MapRange
<1>9. PagesFor(x) = k + PagesFor(size)
  BY <1>1, <1>2, BytesFromPage
<1>10. CASE e < k
  BY <1>8, <1>10
<1>11. CASE ~ (e < k)
  <2>1. PICK c : c = e - k
    OBVIOUS
  <2>2. c \in Nat /\ k + c = e /\ e < Pages
    BY <2>1, <1>2, <1>6, <1>11, PageType
  <2>3. CASE x < d
    <3>1. e = IF k + PagesFor(size) = Pages THEN 0 ELSE k + PagesFor(size)
      BY <1>4, <1>5, <1>9, <2>3
    <3>2. c \in 0 .. PagesFor(size) /\ (c # PagesFor(size) => k = 0)
      BY <3>1, <2>1, <2>2, <1>2, <1>6, <1>11
    <3> QED BY <3>2, <2>1, <2>2, <1>8, <1>11 DEF Fewer
  <2>4. CASE x >= d
    <3>1. y \in Nat /\ x = d + y
      BY <2>4, <1>2, <1>4
    <3>2. PagesFor(x) = Pages + PagesFor(y)
      BY <3>1, <1>1, <1>2, BytesFromPage
    <3>3. c \in 0 .. PagesFor(size)
      BY <3>2, <1>2, <1>5, <1>6, <1>9, <2>1, <2>2
    <3>4. x = d => k = 0
      <4>1. ASSUME x = d PROVE k = 0
        <5>1. y = 0 * PageSize + 0 /\ 0 \in 0 .. PageSize - 1
          BY <3>1, <4>1, <1>2
        <5>2. PageOf(y) = 0 /\ y % PageSize = 0
          BY <5>1, PageAndOffset
        <5>3. PagesFor(y) = 0
          BY <5>2, <1>4, PagesForSize
        <5> QED BY <5>3, <1>2, <1>5, <1>11
      <4> QED BY <4>1
    <3> QED BY <3>3, <3>4, <2>1, <2>2, <2>4, <1>1, <1>2, <1>8, <1>11 DEF Fewer
  <2> QED BY <2>3, <2>4, <1>2
<1> QED BY <1>10, <1>11

-----------------------------------------------------------------------------
(* The kernel heap                                                         *)

TableType == [Kernel!Blocks -> SUBSET Kernel!Flags]

\* What kzalloc takes and returns.
Request == [ok : BOOLEAN, sound : BOOLEAN, heap : TableType, ptr : Pointer]

Block(ptr) == Kernel!heap_address_to_block(ptr)

\* A block is a number below HeapBlocks.
LEMMA BlockType == \A b \in Kernel!Blocks : b \in Nat /\ b < HeapBlocks
BY Constants DEF Kernel!Blocks

\* Pointers, blocks and pages of the heap.
LEMMA PointerOfBlock ==
  ASSUME NEW s \in Kernel!Blocks, NEW ptr, ptr = HeapAddress + (s * PageSize)
  PROVE  /\ ptr = (HeapPage + s) * PageSize
         /\ HeapPage + s \in Page /\ PageOf(ptr) = HeapPage + s
         /\ ptr \in Pointer /\ ptr # NULL /\ ptr \in Address
         /\ Block(ptr) = s
<1>1. /\ s \in Nat /\ s < HeapBlocks /\ HeapPage \in Nat \ {0} /\ PageSize \in Nat \ {0}
      /\ HeapAddress = HeapPage * PageSize /\ Pages \in Nat
      /\ HeapPage + HeapBlocks <= Pages /\ HeapBlocks \in Nat
  BY BlockType, Constants
<1>2. ptr = (HeapPage + s) * PageSize
  BY <1>1
<1>3. PICK v : v = HeapPage + s
  OBVIOUS
<1>4. /\ v \in Nat \ {0} /\ v < Pages /\ v \in Page
      /\ v \in HeapPage .. HeapPage + HeapBlocks - 1
  BY <1>1, <1>3 DEF Page
<1>5. /\ 0 \in 0 .. PageSize - 1 /\ v * PageSize + 0 = v * PageSize
      /\ v * PageSize \in Nat /\ v * PageSize # 0
  BY <1>1, <1>4
<1>6. PageOf(v * PageSize) = v /\ v * PageSize \in Address
  <2>1. PageOf(v * PageSize) = v /\ v * PageSize < Pages * PageSize
    BY <1>4, <1>5, PageAndOffset
  <2> QED BY <2>1, <1>5, Constants DEF Address
<1>7. v * PageSize \in Pointer
  BY <1>4 DEF Pointer, Heap, HeapPage
<1>8. Block(ptr) = s
  <2>1. (ptr - HeapAddress) = s * PageSize + 0 /\ 0 \in 0 .. PageSize - 1
    BY <1>1
  <2>2. PageOf(s * PageSize + 0) = s
    BY <2>1, <1>1, PageAndOffset
  <2> QED BY <2>1, <2>2 DEF Block, Kernel!heap_address_to_block, PageOf
<1> QED BY <1>2, <1>3, <1>4, <1>5, <1>6, <1>7, <1>8 DEF NULL

\* A pointer of the heap is the address of its block.
LEMMA BlockOfPointer ==
  ASSUME NEW ptr \in Pointer, ptr # NULL
  PROVE  Block(ptr) \in Kernel!Blocks /\ ptr = HeapAddress + (Block(ptr) * PageSize)
<1>1. PICK v \in Heap : ptr = v * PageSize
  BY DEF Pointer
<1>2. PICK s : s = v - HeapPage
  OBVIOUS
<1>3. s \in Kernel!Blocks /\ v = HeapPage + s
  BY <1>1, <1>2, Constants DEF Heap, HeapPage, Kernel!Blocks
<1>4. ptr = HeapAddress + (s * PageSize)
  BY <1>1, <1>3, BlockType, Constants
<1> QED BY <1>3, <1>4, PointerOfBlock

\* The search fails or returns a free block.
LEMMA StartBlock ==
  ASSUME NEW tbl, NEW n
  PROVE  /\ Kernel!heap_get_start_block(tbl, n) \in Int
         /\ Kernel!heap_get_start_block(tbl, n) >= 0 =>
              Kernel!heap_get_start_block(tbl, n) \in Kernel!FreeBlocks(tbl)
<1> DEFINE nth  == {i \in Kernel!FreeBlocks(tbl) :
                      Kernel!Cardinality({j \in Kernel!FreeBlocks(tbl) : j <= i}) = n}
           stop == Kernel!StopBlock(tbl, n)
           run  == Kernel!RunTo(tbl, stop)
<1>1. stop \in Int
  <2>1. nth \subseteq Nat
    BY BlockType DEF Kernel!FreeBlocks
  <2>2. CASE nth # {}
    <3>1. Min(nth) \in nth
      <4> HIDE DEF nth
      <4> QED BY <2>1, <2>2, LeastNat
    <3>2. stop = Min(nth)
      BY <2>2 DEF Kernel!StopBlock, Kernel!Min, Min
    <3> QED BY <2>1, <3>1, <3>2
  <2>3. CASE nth = {}
    <3>1. stop = HeapBlocks - 1
      BY <2>3 DEF Kernel!StopBlock
    <3> HIDE DEF stop
    <3> QED BY <3>1, Constants
  <2> QED BY <2>2, <2>3
<1> HIDE DEF stop
<1>2. ASSUME NEW s \in run PROVE s \in Nat /\ s \in Kernel!FreeBlocks(tbl)
  <2>1. s \in 0 .. stop /\ s .. stop \subseteq Kernel!FreeBlocks(tbl)
    BY DEF Kernel!RunTo
  <2> QED BY <2>1, <1>1
<1>3. CASE run = {}
  BY <1>3 DEF Kernel!heap_get_start_block, Kernel!ENOMEM, stop
<1>4. CASE run # {}
  <2>1. Min(run) \in run
    <3>1. run \subseteq Nat
      BY <1>2
    <3> HIDE DEF run
    <3> QED BY <3>1, <1>4, LeastNat
  <2>2. Kernel!heap_get_start_block(tbl, n) = Min(run)
    BY <1>4 DEF Kernel!heap_get_start_block, Kernel!Min, Min, stop
  <2> QED BY <2>1, <2>2, <1>2
<1> QED BY <1>3, <1>4

\* Marking blocks taken gives a table again.
LEMMA MarkType ==
  ASSUME NEW tbl \in TableType, NEW s, NEW n
  PROVE  Kernel!heap_mark_blocks_taken(tbl, s, n) \in TableType
BY DEF TableType, Kernel!heap_mark_blocks_taken, Kernel!TakenEntry, Kernel!Flags

\* Freeing pointers gives a table again.
LEMMA FreeType ==
  ASSUME NEW tbl \in TableType, NEW ptrs
  PROVE  kfree(tbl, ptrs) \in TableType
BY DEF TableType, kfree, Kernel!FREE

\* A request is served from block s with n blocks; a single block is free.
Serves(m, r, s, n) ==
  /\ r = [ok    |-> TRUE,
          sound |-> m.sound /\ Kernel!Fits(m.heap, s, n),
          heap  |-> Kernel!heap_mark_blocks_taken(m.heap, s, n),
          ptr   |-> HeapAddress + (s * PageSize)]
  /\ n = 1 => Kernel!Fits(m.heap, s, n)

\* kzalloc refuses, or serves a request from a block of the heap.
LEMMA Served ==
  ASSUME NEW m \in Request, NEW size
  PROVE  /\ kzalloc(m, size) \in Request
         /\ kzalloc(m, size).ok =>
              m.ok /\ \E s \in Kernel!Blocks :
                        Serves(m, kzalloc(m, size), s, Kernel!TotalBlocks(size))
<1>1. PICK r, n, s : /\ r = kzalloc(m, size) /\ n = Kernel!TotalBlocks(size)
                     /\ s = Kernel!heap_get_start_block(m.heap, n)
  OBVIOUS
<1>2. s \in Int /\ (s >= 0 => s \in Kernel!Blocks)
  BY <1>1, StartBlock DEF Kernel!FreeBlocks
<1>3. CASE ~m.ok \/ s < 0
  <2>1. r = [m EXCEPT !.ok = FALSE]
    BY <1>1, <1>3 DEF kzalloc
  <2> QED BY <2>1, <1>1 DEF Request
<1>4. CASE m.ok /\ s >= 0
  <2>1. Serves(m, r, s, n)
    <3>1. s \in Nat /\ s \in Kernel!FreeBlocks(m.heap)
      BY <1>1, <1>2, <1>4, StartBlock
    <3>2. s .. s + 1 - 1 = {s}
      BY <3>1
    <3>3. Kernel!Fits(m.heap, s, 1)
      BY <3>1, <3>2 DEF Kernel!Fits
    <3> QED BY <3>3, <1>1, <1>2, <1>4 DEF kzalloc, Serves, Kernel!heap_block_to_address
  <2>2. /\ Kernel!heap_mark_blocks_taken(m.heap, s, n) \in TableType
        /\ HeapAddress + (s * PageSize) \in Pointer
    BY <1>2, <1>4, MarkType, PointerOfBlock DEF Request
  <2>3. r \in Request
    BY <2>1, <2>2 DEF Serves, Request, Kernel!Fits
  <2> QED BY <2>1, <2>3, <1>1, <1>2, <1>4
<1> QED BY <1>2, <1>3, <1>4 DEF Request

-----------------------------------------------------------------------------
(* Mapping an image                                                        *)

\* The fields of program headers are addresses.
LEMMA Headers ==
  ASSUME NEW f \in Programs
  PROVE  /\ f.size \in Address /\ Len(f.headers) \in Nat
         /\ \A i \in 1 .. Len(f.headers) :
              /\ f.headers[i] \in Range(f.headers)
              /\ f.headers[i].vaddr \in Address /\ f.headers[i].offset \in Address
              /\ f.headers[i].filesz \in Address /\ f.headers[i].memsz \in Address
         /\ \A phdr \in Range(f.headers) : \E i \in 1 .. Len(f.headers) : phdr = f.headers[i]
<1>1. /\ f.size \in Address /\ f.headers \in Seq(Range(f.headers))
      /\ \A phdr \in Range(f.headers) :
            {phdr.vaddr, phdr.offset, phdr.filesz, phdr.memsz} \subseteq Address
  BY AddressSpacesAssumption
<1>2. Len(f.headers) \in Nat /\ DOMAIN f.headers = 1 .. Len(f.headers)
  BY <1>1
<1>3. \A i \in 1 .. Len(f.headers) : f.headers[i] \in Range(f.headers)
  BY <1>2 DEF Range
<1>4. \A phdr \in Range(f.headers) : \E i \in 1 .. Len(f.headers) : phdr = f.headers[i]
  BY <1>2 DEF Range
<1> QED BY <1>1, <1>2, <1>3, <1>4

\* What mapping one header does when it does not fail.
Size(mem, phdr) == (elf_phdr_phys_address(mem, phdr) % PageSize) + phdr.memsz

HeaderMaps(dir, new, mem, phdr) ==
  LET k == PageOf(elf_phdr_phys_address(mem, phdr))
  IN  \E c \in 0 .. PagesFor(Size(mem, phdr)) :
        /\ new = MapPages(dir, PageOf(phdr.vaddr), k, c, SegmentFlags(phdr))
        /\ k + c < Pages /\ Fewer(k, c, Size(mem, phdr))

\* A pointer of the heap, or NULL, is an address.
LEMMA PointerType == \A ptr \in Pointer : ptr \in Nat /\ ptr \in Address
<1> SUFFICES ASSUME NEW ptr \in Pointer PROVE ptr \in Address
  BY Constants DEF Address
<1>1. NULL \in Address
  BY Constants DEF NULL, Address
<1>2. CASE ptr # NULL
  BY <1>2, BlockOfPointer, PointerOfBlock
<1> QED BY <1>1, <1>2

\* What the kernel maps with are flags of a page.
LEMMA FlagsType ==
  /\ \A phdr : SegmentFlags(phdr) \in SUBSET Flag
  /\ User \in SUBSET Flag /\ Writable \in SUBSET Flag
BY DEF SegmentFlags, User, Writable, Flag

\* The address of a segment in memory is an address.
LEMMA PhysType ==
  ASSUME NEW mem \in Pointer, NEW phdr, phdr.offset \in Address
  PROVE  elf_phdr_phys_address(mem, phdr) \in Address
<1>1. mem + phdr.offset \in Nat /\ mem + phdr.offset < 2 * (Pages * PageSize)
  BY PointerType, Constants DEF Address
<1> QED BY <1>1, WrapNear DEF elf_phdr_phys_address

\* One program header is refused, or its bytes are mapped and no other page
\* changes.
LEMMA MapHeaderMaps ==
  ASSUME NEW dir \in Directory, NEW mem \in Pointer, NEW phdr,
         phdr.vaddr \in Address, phdr.offset \in Address, phdr.memsz \in Address
  PROVE  \/ MapHeader(dir, mem, phdr) = Mapped(-EINVARG, dir)
         \/ /\ MapHeader(dir, mem, phdr).res = 0
            /\ MapHeader(dir, mem, phdr).dir \in Directory
            /\ HeaderMaps(dir, MapHeader(dir, mem, phdr).dir, mem, phdr)
<1>1. PICK phys, size, k, a, m :
        /\ phys = elf_phdr_phys_address(mem, phdr) /\ size = (phys % PageSize) + phdr.memsz
        /\ k = PageOf(phys) /\ a = PageOf(phdr.vaddr) /\ m = MapHeader(dir, mem, phdr)
  OBVIOUS
<1>2. phys \in Address /\ phys \in Nat /\ phdr.vaddr \in Nat /\ phdr.memsz \in Nat
  BY <1>1, PhysType, Constants DEF Address
<1>3. /\ phys % PageSize \in 0 .. PageSize - 1 /\ phys = k * PageSize + (phys % PageSize)
      /\ k \in Page /\ a \in Page
      /\ paging_align_to_lower_page(phys) = k * PageSize
      /\ paging_align_to_lower_page(phdr.vaddr) = a * PageSize
  <2>1. /\ k < Pages /\ k \in Nat /\ phys % PageSize \in 0 .. PageSize - 1
        /\ phys = k * PageSize + (phys % PageSize)
        /\ paging_align_to_lower_page(phys) = k * PageSize
    BY <1>1, <1>2, Split
  <2>2. PICK virt : virt = phdr.vaddr
    OBVIOUS
  <2>3. a < Pages /\ a \in Nat /\ paging_align_to_lower_page(virt) = a * PageSize
    BY <1>1, <1>2, <2>2, Split
  <2> QED BY <2>1, <2>2, <2>3, Constants DEF Page
<1>4. /\ size \in Nat /\ k * PageSize + size = phys + phdr.memsz
      /\ k * PageSize + size < 2 * (Pages * PageSize)
  <2>1. k * PageSize \in Nat
    BY <1>3, PageType, Constants
  <2> QED BY <2>1, <1>1, <1>2, <1>3, Constants DEF Address
<1>5. m = paging_map_to(dir, a * PageSize, k * PageSize,
            paging_align_address(Wrap(k * PageSize + size)), SegmentFlags(phdr))
  BY <1>1, <1>3, <1>4 DEF MapHeader
<1>6. SegmentFlags(phdr) \in SUBSET Flag
  BY FlagsType
<1>7. CASE m = Mapped(-EINVARG, dir)
  BY <1>1, <1>7
<1>8. CASE m # Mapped(-EINVARG, dir)
  <2>1. PICK c \in 0 .. PagesFor(size) :
          /\ m = Mapped(0, MapPages(dir, a, k, c, SegmentFlags(phdr)))
          /\ k + c < Pages /\ Fewer(k, c, size)
    BY <1>3, <1>4, <1>5, <1>6, <1>8, MapBytes
  <2>2. m.res = 0 /\ m.dir = MapPages(dir, a, k, c, SegmentFlags(phdr))
    BY <2>1 DEF Mapped
  <2>3. m.dir \in Directory
    <3>1. c \in Nat /\ k + c <= Pages
      BY <2>1, <1>3, <1>4, PagesForSize, PageType, Constants
    <3> QED BY <3>1, <2>2, <1>3, <1>6, MapPagesType
  <2>4. HeaderMaps(dir, m.dir, mem, phdr)
    BY <1>1, <2>1, <2>2 DEF HeaderMaps, Size
  <2> QED BY <1>1, <2>2, <2>3, <2>4
<1> QED BY <1>7, <1>8

\* process_map_elf goes through the headers one after the other.
MapStep(mapped, mem, phdr) ==
  IF mapped.res < 0 THEN mapped ELSE MapHeader(mapped.dir, mem, phdr)

Steps(g, n, dir, mem, f) ==
  g = [i \in 0 .. n |-> IF i = 0 THEN Mapped(0, dir)
                        ELSE MapStep(g[i - 1], mem, f.headers[i])]

\* The directories after each header, which the loop goes through, exist for
\* any number of headers.
LEMMA StepsExist ==
  ASSUME NEW dir, NEW mem, NEW f, NEW n \in Nat
  PROVE  \E g : Steps(g, n, dir, mem, f)
<1> DEFINE G == {l \in 0 .. n : \E g : Steps(g, l, dir, mem, f)}
<1>1. 0 \in G
  <2>1. Steps([i \in 0 .. 0 |-> Mapped(0, dir)], 0, dir, mem, f)
    BY DEF Steps
  <2> QED BY <2>1
<1>2. ASSUME NEW l \in 0 .. n, l \in G, l < n
      PROVE  l + 1 \in G
  <2>1. PICK g : Steps(g, l, dir, mem, f)
    BY <1>2
  <2>2. PICK h : h = [i \in 0 .. l + 1 |->
                        IF i <= l THEN g[i] ELSE MapStep(g[l], mem, f.headers[l + 1])]
    OBVIOUS
  <2>3. ASSUME NEW i \in 0 .. l + 1
        PROVE  h[i] = IF i = 0 THEN Mapped(0, dir) ELSE MapStep(h[i - 1], mem, f.headers[i])
    <3>1. CASE i <= l
      <4>1. i \in 0 .. l /\ (i # 0 => i - 1 \in 0 .. l /\ i - 1 \in 0 .. l + 1 /\ i - 1 <= l)
        BY <3>1
      <4>2. g[i] = IF i = 0 THEN Mapped(0, dir) ELSE MapStep(g[i - 1], mem, f.headers[i])
        BY <4>1, <2>1 DEF Steps
      <4> QED BY <4>1, <4>2, <2>2, <3>1
    <3>2. CASE i = l + 1
      <4>1. l \in 0 .. l + 1 /\ l <= l /\ i - 1 = l /\ ~ (i <= l) /\ i # 0
        BY <3>2
      <4> QED BY <4>1, <3>2, <2>2
    <3> QED BY <3>1, <3>2
  <2>4. Steps(h, l + 1, dir, mem, f)
    <3>1. h = [i \in 0 .. l + 1 |-> h[i]]
      BY <2>2
    <3> HIDE <2>2
    <3> QED BY <3>1, <2>3 DEF Steps
  <2>5. l + 1 \in 0 .. n
    BY <1>2
  <2> QED BY <2>4, <2>5
<1>3. 0 .. n \subseteq G
  <2> HIDE DEF G
  <2> QED BY <1>1, <1>2, SetInduction
<1>4. n \in G
  BY <1>3
<1> QED BY <1>4

\* Induction over the headers: what holds of the pairs of a position and the
\* directory there, step by step, holds at the end if nothing failed.
LEMMA MapElfInduction ==
  ASSUME NEW dir \in Directory, NEW mem \in Pointer, NEW f \in Programs,
         NEW G, <<0, dir>> \in G,
         \A i \in 1 .. Len(f.headers) : \A d \in Directory : \A new \in Directory :
           <<i - 1, d>> \in G /\ HeaderMaps(d, new, mem, f.headers[i]) => <<i, new>> \in G
  PROVE  \/ process_map_elf(dir, mem, f).res = -EINVARG
         \/ /\ process_map_elf(dir, mem, f).res = 0
            /\ process_map_elf(dir, mem, f).dir \in Directory
            /\ <<Len(f.headers), process_map_elf(dir, mem, f).dir>> \in G
<1>1. PICK n : n = Len(f.headers)
  OBVIOUS
<1>2. n \in Nat
  BY <1>1, Headers
<1>3. PICK h : Steps(h, n, dir, mem, f)
  BY <1>2, StepsExist
<1>4. PICK g : Steps(g, n, dir, mem, f) /\ process_map_elf(dir, mem, f) = g[n]
  BY <1>1, <1>3 DEF Steps, process_map_elf, MapStep
<1> DEFINE Good(m, i) == m.res = 0 /\ m.dir \in Directory /\ <<i, m.dir>> \in G
           H == {i \in 0 .. n : g[i].res = -EINVARG \/ Good(g[i], i)}
<1>5. 0 \in H
  <2>1. g[0] = Mapped(0, dir)
    BY <1>2, <1>4 DEF Steps
  <2> QED BY <1>2, <2>1 DEF Mapped
<1>6. ASSUME NEW i \in 0 .. n, i \in H, i < n
      PROVE  i + 1 \in H
  <2>1. i + 1 \in 0 .. n /\ i + 1 \in 1 .. Len(f.headers) /\ i + 1 # 0 /\ (i + 1) - 1 = i
    BY <1>1, <1>2, <1>6
  <2>2. g[i + 1] = MapStep(g[i], mem, f.headers[i + 1])
    BY <2>1, <1>4 DEF Steps
  <2>3. CASE g[i].res = -EINVARG
    <3>1. g[i + 1] = g[i]
      BY <2>2, <2>3 DEF MapStep, EINVARG
    <3> QED BY <3>1, <2>1, <2>3
  <2>4. CASE Good(g[i], i)
    <3>1. PICK m : m = MapHeader(g[i].dir, mem, f.headers[i + 1])
      OBVIOUS
    <3>2. g[i + 1] = m
      BY <2>2, <2>4, <3>1 DEF MapStep
    <3>3. \/ m = Mapped(-EINVARG, g[i].dir)
          \/ m.res = 0 /\ m.dir \in Directory /\ HeaderMaps(g[i].dir, m.dir, mem, f.headers[i + 1])
      BY <2>1, <2>4, <3>1, Headers, MapHeaderMaps
    <3>4. CASE m = Mapped(-EINVARG, g[i].dir)
      BY <3>2, <3>4, <2>1 DEF Mapped
    <3>5. CASE m.res = 0 /\ m.dir \in Directory
               /\ HeaderMaps(g[i].dir, m.dir, mem, f.headers[i + 1])
      <4>1. <<i + 1, m.dir>> \in G
        BY <2>1, <2>4, <3>5
      <4> QED BY <4>1, <3>2, <3>5, <2>1
    <3> QED BY <3>3, <3>4, <3>5
  <2> QED BY <1>6, <2>3, <2>4
<1>7. 0 .. n \subseteq H
  <2> HIDE DEF H
  <2> QED BY <1>2, <1>5, <1>6, SetInduction
<1>8. n \in H
  BY <1>2, <1>7
<1> QED BY <1>1, <1>4, <1>8

\* The same for the extent of an image.
ExtentSteps(g, n, mem, f) ==
  g = [i \in 0 .. n |-> IF i = 0 THEN Unprocessed
                        ELSE elf_process_pheader(g[i - 1], mem, f.headers[i])]

\* What is recorded after each header exists for any number of headers.
LEMMA ExtentStepsExist ==
  ASSUME NEW mem, NEW f, NEW n \in Nat
  PROVE  \E g : ExtentSteps(g, n, mem, f)
<1> DEFINE G == {l \in 0 .. n : \E g : ExtentSteps(g, l, mem, f)}
<1>1. 0 \in G
  <2>1. ExtentSteps([i \in 0 .. 0 |-> Unprocessed], 0, mem, f)
    BY DEF ExtentSteps
  <2> QED BY <2>1
<1>2. ASSUME NEW l \in 0 .. n, l \in G, l < n
      PROVE  l + 1 \in G
  <2>1. PICK g : ExtentSteps(g, l, mem, f)
    BY <1>2
  <2>2. PICK h : h = [i \in 0 .. l + 1 |->
                        IF i <= l THEN g[i]
                        ELSE elf_process_pheader(g[l], mem, f.headers[l + 1])]
    OBVIOUS
  <2>3. ASSUME NEW i \in 0 .. l + 1
        PROVE  h[i] = IF i = 0 THEN Unprocessed
                      ELSE elf_process_pheader(h[i - 1], mem, f.headers[i])
    <3>1. CASE i <= l
      <4>1. i \in 0 .. l /\ (i # 0 => i - 1 \in 0 .. l /\ i - 1 \in 0 .. l + 1 /\ i - 1 <= l)
        BY <3>1
      <4>2. g[i] = IF i = 0 THEN Unprocessed
                   ELSE elf_process_pheader(g[i - 1], mem, f.headers[i])
        BY <4>1, <2>1 DEF ExtentSteps
      <4> QED BY <4>1, <4>2, <2>2, <3>1
    <3>2. CASE i = l + 1
      <4>1. l \in 0 .. l + 1 /\ l <= l /\ i - 1 = l /\ ~ (i <= l) /\ i # 0
        BY <3>2
      <4> QED BY <4>1, <3>2, <2>2
    <3> QED BY <3>1, <3>2
  <2>4. ExtentSteps(h, l + 1, mem, f)
    <3>1. h = [i \in 0 .. l + 1 |-> h[i]]
      BY <2>2
    <3> HIDE <2>2
    <3> QED BY <3>1, <2>3 DEF ExtentSteps
  <2>5. l + 1 \in 0 .. n
    BY <1>2
  <2> QED BY <2>4, <2>5
<1>3. 0 .. n \subseteq G
  <2> HIDE DEF G
  <2> QED BY <1>1, <1>2, SetInduction
<1>4. n \in G
  BY <1>3
<1> QED BY <1>4

\* One header leaves a record of numbers.
LEMMA PheaderType ==
  ASSUME NEW elf \in ElfFile, NEW mem \in Pointer, NEW phdr,
         phdr.vaddr \in Address, phdr.offset \in Address, phdr.filesz \in Address
  PROVE  elf_process_pheader(elf, mem, phdr) \in ElfFile
<1>1. mem \in Nat /\ phdr.vaddr \in Nat /\ phdr.offset \in Nat /\ phdr.filesz \in Nat
  BY PointerType, Constants DEF Address
<1> QED BY <1>1 DEF elf_process_pheader, elf_process_pheader_pt_load, ElfFile

\* What holds before the headers and is kept by each of them holds after the
\* last: induction over the loop of elf_process_pheaders.
LEMMA ExtentInduction ==
  ASSUME NEW mem \in Pointer, NEW f \in Programs, NEW G, <<0, Unprocessed>> \in G,
         \A i \in 1 .. Len(f.headers) : \A elf \in ElfFile : <<i - 1, elf>> \in G =>
           <<i, elf_process_pheader(elf, mem, f.headers[i])>> \in G
  PROVE  /\ elf_process_pheaders(mem, f) \in ElfFile
         /\ <<Len(f.headers), elf_process_pheaders(mem, f)>> \in G
<1>1. PICK n : n = Len(f.headers)
  OBVIOUS
<1>2. n \in Nat
  BY <1>1, Headers
<1>3. PICK h : ExtentSteps(h, n, mem, f)
  BY <1>2, ExtentStepsExist
<1>4. PICK g : ExtentSteps(g, n, mem, f) /\ elf_process_pheaders(mem, f) = g[n]
  BY <1>1, <1>3 DEF ExtentSteps, elf_process_pheaders
<1> DEFINE H == {i \in 0 .. n : g[i] \in ElfFile /\ <<i, g[i]>> \in G}
<1>5. 0 \in H
  <2>1. g[0] = Unprocessed
    BY <1>2, <1>4 DEF ExtentSteps
  <2> QED BY <1>2, <2>1 DEF Unprocessed, ElfFile
<1>6. ASSUME NEW i \in 0 .. n, i \in H, i < n
      PROVE  i + 1 \in H
  <2>1. i + 1 \in 0 .. n /\ i + 1 \in 1 .. Len(f.headers) /\ i + 1 # 0 /\ (i + 1) - 1 = i
    BY <1>1, <1>2, <1>6
  <2>2. g[i + 1] = elf_process_pheader(g[i], mem, f.headers[i + 1])
    BY <2>1, <1>4 DEF ExtentSteps
  <2>3. g[i + 1] \in ElfFile
    BY <2>1, <2>2, <1>6, Headers, PheaderType
  <2>4. <<i + 1, g[i + 1]>> \in G
    BY <2>1, <2>2, <1>6
  <2> QED BY <2>1, <2>3, <2>4
<1>7. 0 .. n \subseteq H
  <2> HIDE DEF H
  <2> QED BY <1>2, <1>5, <1>6, SetInduction
<1> QED BY <1>1, <1>2, <1>4, <1>7

-----------------------------------------------------------------------------
(* What a load does                                                        *)

\* paging_new_4gb makes a directory.
LEMMA NewDirectory ==
  ASSUME NEW flags \in SUBSET Flag
  PROVE  paging_new_4gb(flags) \in Directory
BY DEF paging_new_4gb, Directory, PageEntry

\* A pointer of the heap is the first byte of its page.
LEMMA Slices ==
  ASSUME NEW ptr \in Pointer
  PROVE  PageOf(ptr) \in Page /\ ptr = PageOf(ptr) * PageSize
<1>1. CASE ptr = NULL
  <2>1. 0 \in 0 .. PageSize - 1 /\ 0 * PageSize + 0 = 0 /\ 0 \in Nat /\ 0 \in Page
    BY Constants DEF Page
  <2>2. PageOf(0 * PageSize + 0) = 0
    BY <2>1, PageAndOffset
  <2> QED BY <1>1, <2>1, <2>2, Constants DEF NULL
<1>2. CASE ptr # NULL
  <2>1. Block(ptr) \in Kernel!Blocks /\ ptr = HeapAddress + (Block(ptr) * PageSize)
    BY <1>2, BlockOfPointer
  <2> QED BY <2>1, PointerOfBlock
<1> QED BY <1>1, <1>2

\* Mapping bytes from a pointer to a page of a directory, when it succeeds.
FrameMaps(dir, new, a, ptr, size, flags) ==
  \E c \in 0 .. PagesFor(size) :
    /\ new = MapPages(dir, a, PageOf(ptr), c, flags)
    /\ PageOf(ptr) + c < Pages /\ Fewer(PageOf(ptr), c, size)

\* An allocation is refused, or its pages are mapped and no other page changes.
LEMMA MapPointer ==
  ASSUME NEW dir \in Directory, NEW a \in Page, NEW ptr \in Pointer, NEW size \in Address,
         NEW flags \in SUBSET Flag, NEW m,
         m = paging_map_to(dir, a * PageSize, ptr,
               paging_align_address(Wrap(ptr + size)), flags)
  PROVE  \/ m = Mapped(-EINVARG, dir)
         \/ /\ m.res = 0 /\ m.dir \in Directory
            /\ FrameMaps(dir, m.dir, a, ptr, size, flags)
<1>1. PICK k : k = PageOf(ptr)
  OBVIOUS
<1>2. /\ k \in Page /\ k \in Nat /\ ptr = k * PageSize /\ ptr \in Address
      /\ size \in Nat /\ PagesFor(size) \in Nat
  BY <1>1, Slices, PageType, PointerType, PagesForSize, Constants DEF Address
<1>3. k * PageSize + size < 2 * (Pages * PageSize)
  BY <1>2, Constants DEF Address
<1>4. m = paging_map_to(dir, a * PageSize, k * PageSize,
            paging_align_address(Wrap(k * PageSize + size)), flags)
  BY <1>2
<1>5. CASE m = Mapped(-EINVARG, dir)
  BY <1>5
<1>6. CASE m # Mapped(-EINVARG, dir)
  <2>1. PICK c \in 0 .. PagesFor(size) :
          /\ m = Mapped(0, MapPages(dir, a, k, c, flags))
          /\ k + c < Pages /\ Fewer(k, c, size)
    BY <1>2, <1>3, <1>4, <1>6, MapBytes
  <2>2. m.res = 0 /\ m.dir = MapPages(dir, a, k, c, flags)
    BY <2>1 DEF Mapped
  <2>3. m.dir \in Directory
    <3>1. c \in Nat /\ k + c <= Pages
      BY <2>1, <1>2, Constants
    <3> QED BY <3>1, <2>2, <1>2, MapPagesType
  <2> QED BY <1>1, <2>1, <2>2, <2>3 DEF FrameMaps
<1> QED BY <1>5, <1>6

\* process_map_memory: the segments, then the stack on whole pages.
StackPage == PageOf(StackEnd)

\* The image is mapped first and the stack on top of it.
LEMMA MapMemory ==
  ASSUME NEW mem \in Pointer, NEW stk \in Pointer, NEW f \in Programs, NEW dir \in Directory,
         process_map_memory(dir, mem, stk, f).res >= 0
  PROVE  LET elf == process_map_elf(dir, mem, f)
             new == process_map_memory(dir, mem, stk, f).dir
         IN  /\ elf.res >= 0 /\ elf.dir \in Directory /\ new \in Directory
             /\ StackEnd = StackPage * PageSize /\ StackPage \in Page
             /\ FrameMaps(elf.dir, new, StackPage, stk, StackSize, Writable)
<1>1. PICK elf, m : elf = process_map_elf(dir, mem, f) /\ m = process_map_memory(dir, mem, stk, f)
  OBVIOUS
<1>2. elf.res = -EINVARG \/ (elf.res = 0 /\ elf.dir \in Directory)
  <2>1. <<0, dir>> \in Nat \X Directory
    OBVIOUS
  <2>2. \A i \in 1 .. Len(f.headers) : \A d \in Directory : \A new \in Directory :
          <<i, new>> \in Nat \X Directory
    BY Headers
  <2> QED BY <1>1, <2>1, <2>2, MapElfInduction
<1>3. elf.res = 0 /\ elf.dir \in Directory
  <2>1. CASE elf.res = -EINVARG
    <3>1. m = elf
      BY <1>1, <2>1 DEF process_map_memory, EINVARG
    <3> QED BY <3>1, <1>1, <2>1 DEF EINVARG
  <2> QED BY <2>1, <1>2
<1>4. m = paging_map_to(elf.dir, StackEnd, stk,
            paging_align_address(Wrap(stk + StackSize)), Writable)
  BY <1>1, <1>3 DEF process_map_memory
<1>5. StackEnd = StackPage * PageSize /\ StackPage \in Page
  <2>1. StackEnd \in Nat /\ StackEnd \in Address
    BY AddressSpacesAssumption, Constants DEF Address
  <2>2. paging_is_aligned(StackEnd)
    <3>1. CASE ~ paging_is_aligned(StackEnd)
      BY <3>1, <1>1, <1>4 DEF paging_map_to, Mapped, EINVARG
    <3> QED BY <3>1
  <2>3. StackEnd = PageOf(StackEnd) * PageSize /\ PageOf(StackEnd) \in Nat /\ PageOf(StackEnd) < Pages
    BY <2>1, <2>2, Split
  <2> QED BY <2>3, Constants DEF StackPage, Page
<1>6. StackSize \in Address /\ Writable \in SUBSET Flag
  BY AddressSpacesAssumption, FlagsType
<1>7. m.dir \in Directory /\ FrameMaps(elf.dir, m.dir, StackPage, stk, StackSize, Writable)
  <2>1. m # Mapped(-EINVARG, elf.dir)
    BY <1>1 DEF Mapped, EINVARG
  <2>2. m = paging_map_to(elf.dir, StackPage * PageSize, stk,
              paging_align_address(Wrap(stk + StackSize)), Writable)
    BY <1>4, <1>5
  <2> QED BY <2>1, <2>2, <1>3, <1>5, <1>6, MapPointer
<1> QED BY <1>1, <1>3, <1>5, <1>7

-----------------------------------------------------------------------------
(* The steps in terms of blocks and pages                                  *)

\* With the type, what every step relies on: a running process exists, unused
\* allocation entries are empty, processes have their memory, stack and task.
Shape ==
  /\ runner # NONE => alive # {}
  /\ \A p \in Slot : \A i \in Index :
       allocations[p][i].ptr = NULL => allocations[p][i] = Empty
  /\ \A p \in alive :
       /\ file[p] \in Programs
       /\ memory[p] # NULL /\ stack[p] # NULL /\ task[p] # NULL

Sane == TypeOK /\ Shape

Blocks(size) == Kernel!TotalBlocks(size)

Loads(f, p, m, s, new) ==
  /\ p \in Slot /\ p \notin alive
  /\ m \in [1 .. 3 -> Request] /\ s \in [1 .. 3 -> Kernel!Blocks]
  /\ Serves(Now, m[1], s[1], Blocks(f.size))
  /\ Serves(m[1], m[2], s[2], Blocks(StackSize))
  /\ Serves(m[2], m[3], s[3], Blocks(PageSize))
  /\ process_map_memory(paging_new_4gb(User), m[1].ptr, m[2].ptr, f).res >= 0
  /\ new = process_map_memory(paging_new_4gb(User), m[1].ptr, m[2].ptr, f).dir
  /\ new \in Directory
  /\ heap' = m[3].heap /\ sound' = m[3].sound
  /\ alive' = alive \cup {p} /\ runner' = p
  /\ calls < MaxCalls /\ calls' = calls + 1
  /\ file' = [file EXCEPT ![p] = f]
  /\ elf_file' = [elf_file EXCEPT ![p] = elf_process_loaded(m[1].ptr, f)]
  /\ memory' = [memory EXCEPT ![p] = m[1].ptr]
  /\ stack' = [stack EXCEPT ![p] = m[2].ptr]
  /\ task' = [task EXCEPT ![p] = m[3].ptr]
  /\ allocations' = [allocations EXCEPT ![p] = NoAllocations]
  /\ directory' = [directory EXCEPT ![p] = new]

\* A load or a call begins with the heap as it is.
LEMMA NowType == ASSUME TypeOK PROVE Now \in Request
BY DEF TypeOK, Now, Request, TableType, Pointer, NULL

\* A request that is served gets the address of its block.
LEMMA ServedPointer ==
  ASSUME NEW m, NEW r, NEW s \in Kernel!Blocks, NEW n, Serves(m, r, s, n)
  PROVE  /\ r.ptr \in Pointer /\ r.ptr # NULL /\ Block(r.ptr) = s
         /\ PageOf(r.ptr) = HeapPage + s /\ PageOf(r.ptr) \in Page
         /\ r.ptr = PageOf(r.ptr) * PageSize
BY PointerOfBlock DEF Serves

\* The first free slot or entry is one of them.
LEMMA LeastOf ==
  ASSUME NEW S, NEW T, T \subseteq S, T # {}, S = Slot \/ S = Index
  PROVE  Min(T) \in T
<1>1. Slot \subseteq Nat /\ Index \subseteq Nat
  BY Constants DEF Slot, Index
<1> QED BY <1>1, LeastNat

\* A load is the allocations, the mappings and the assignments of Loads.
LEMMA LoadLoads ==
  ASSUME Sane, NEW f \in Programs, process_load_for_slot(f)
  PROVE  \E p, m, s, new : Loads(f, p, m, s, new)
<1>1. PICK m1, m2, m3 : /\ m1 = kzalloc(Now, f.size)
                        /\ m2 = kzalloc(m1, StackSize) /\ m3 = kzalloc(m2, PageSize)
  OBVIOUS
<1>2. m3.ok
  BY <1>1 DEF process_load_for_slot
<1>3. m1 \in Request /\ m2 \in Request /\ m3 \in Request
  BY <1>1, NowType, Served DEF Sane
<1>4. PICK s3 \in Kernel!Blocks : m2.ok /\ Serves(m2, m3, s3, Blocks(PageSize))
  BY <1>1, <1>2, <1>3, Served DEF Blocks
<1>5. PICK s2 \in Kernel!Blocks : m1.ok /\ Serves(m1, m2, s2, Blocks(StackSize))
  BY <1>1, <1>3, <1>4, Served DEF Blocks
<1>6. PICK s1 \in Kernel!Blocks : Serves(Now, m1, s1, Blocks(f.size))
  BY <1>1, <1>5, NowType, Served DEF Blocks, Sane
<1>7. PICK m, s : m = <<m1, m2, m3>> /\ s = <<s1, s2, s3>>
  OBVIOUS
<1>8. /\ m[1] = m1 /\ m[2] = m2 /\ m[3] = m3 /\ s[1] = s1 /\ s[2] = s2 /\ s[3] = s3
      /\ m \in [1 .. 3 -> Request] /\ s \in [1 .. 3 -> Kernel!Blocks]
  BY <1>3, <1>7
<1>9. PICK p : p = process_get_free_slot
  OBVIOUS
<1>10. p \in Slot /\ p \notin alive
  <2>1. Slot \ alive \subseteq Slot /\ Slot \ alive # {}
    BY DEF process_load_for_slot, Sane, TypeOK
  <2>2. Min(Slot \ alive) \in Slot \ alive
    BY <2>1, LeastOf
  <2> QED BY <2>2, <1>9 DEF process_get_free_slot
<1>11. PICK mapped : mapped = process_map_memory(paging_new_4gb(User), m1.ptr, m2.ptr, f)
  OBVIOUS
<1>12. mapped.res >= 0
  BY <1>1, <1>11 DEF process_load_for_slot
<1>13. mapped.dir \in Directory
  <2>1. m1.ptr \in Pointer /\ m2.ptr \in Pointer /\ paging_new_4gb(User) \in Directory
    BY <1>3, NewDirectory, FlagsType DEF Request
  <2> QED BY <2>1, <1>11, <1>12, MapMemory
<1>14. /\ heap' = m3.heap /\ sound' = m3.sound
       /\ alive' = alive \cup {p} /\ runner' = p
       /\ calls < MaxCalls /\ calls' = calls + 1
       /\ file' = [file EXCEPT ![p] = f]
       /\ elf_file' = [elf_file EXCEPT ![p] = elf_process_loaded(m1.ptr, f)]
       /\ memory' = [memory EXCEPT ![p] = m1.ptr]
       /\ stack' = [stack EXCEPT ![p] = m2.ptr]
       /\ task' = [task EXCEPT ![p] = m3.ptr]
       /\ allocations' = [allocations EXCEPT ![p] = NoAllocations]
       /\ directory' = [directory EXCEPT ![p] = mapped.dir]
  BY <1>1, <1>9, <1>11 DEF process_load_for_slot
<1>15. Loads(f, p, m, s, mapped.dir)
  BY <1>4, <1>5, <1>6, <1>8, <1>10, <1>11, <1>12, <1>13, <1>14 DEF Loads
<1> QED BY <1>15

\* process_malloc, with the allocation entry i, or failing to map.
Mallocs(size, m, s) ==
  /\ runner \in alive /\ runner \in Slot
  /\ m \in Request /\ s \in Kernel!Blocks /\ Serves(Now, m, s, Blocks(size))
  /\ calls < MaxCalls /\ calls' = calls + 1
  /\ sound' = m.sound
  /\ UNCHANGED <<alive, runner, image>>

MallocMaps(size, m, i, new) ==
  /\ i \in Index /\ allocations[runner][i] = Empty
  /\ new \in Directory
  /\ FrameMaps(directory[runner], new, PageOf(m.ptr), m.ptr, size, Writable)
  /\ heap' = m.heap
  /\ allocations' = [allocations EXCEPT ![runner][i] = [ptr |-> m.ptr, size |-> size]]
  /\ directory' = [directory EXCEPT ![runner] = new]

MallocFails(m) ==
  heap' = kfree(m.heap, {m.ptr}) /\ UNCHANGED <<allocations, directory>>

\* The process that runs exists.
LEMMA RunnerExists == ASSUME Sane, runner # NONE PROVE runner \in alive /\ runner \in Slot
BY DEF Sane, TypeOK, Shape

\* An allocation entry is an address and a size.
LEMMA AllocationType ==
  ASSUME Sane, NEW p \in Slot, NEW i \in Index
  PROVE  /\ allocations[p][i].ptr \in Pointer /\ allocations[p][i].size \in Address
         /\ allocations[p][i] = [ptr |-> allocations[p][i].ptr, size |-> allocations[p][i].size]
<1>1. allocations[p][i] \in [ptr : Pointer, size : Sizes \cup {0}]
  BY DEF Sane, TypeOK
<1>2. Sizes \cup {0} \subseteq Address
  BY AddressSpacesAssumption, Constants DEF Address
<1> QED BY <1>1, <1>2

\* malloc allocates and then fails, or maps what it allocated.
LEMMA MallocMallocs ==
  ASSUME Sane, NEW size \in Sizes, process_malloc(size)
  PROVE  \E m, s : /\ Mallocs(size, m, s)
                   /\ MallocFails(m) \/ \E i, new : MallocMaps(size, m, i, new)
<1>1. PICK m, a, mapped : /\ m = kzalloc(Now, size) /\ a = [ptr |-> m.ptr, size |-> size]
                          /\ mapped = MapAllocation(runner, a, Writable)
  OBVIOUS
<1>2. runner \in alive /\ runner \in Slot
  BY RunnerExists DEF process_malloc
<1>3. PICK s \in Kernel!Blocks : m \in Request /\ Serves(Now, m, s, Blocks(size))
  BY <1>1, NowType, Served DEF process_malloc, Blocks, Sane
<1>4. Mallocs(size, m, s)
  BY <1>1, <1>2, <1>3 DEF process_malloc, Mallocs
<1>5. directory[runner] \in Directory /\ size \in Address
  BY <1>2, AddressSpacesAssumption DEF Sane, TypeOK, Directory
<1>6. mapped = paging_map_to(directory[runner], PageOf(m.ptr) * PageSize, m.ptr,
                 paging_align_address(Wrap(m.ptr + size)), Writable)
  BY <1>1, <1>3, ServedPointer DEF MapAllocation
<1>7. \/ mapped.res < 0
      \/ /\ ~ (mapped.res < 0) /\ mapped.dir \in Directory
         /\ FrameMaps(directory[runner], mapped.dir, PageOf(m.ptr), m.ptr, size, Writable)
  <2>1. m.ptr \in Pointer /\ PageOf(m.ptr) \in Page
    BY <1>3, ServedPointer
  <2>2. \/ mapped = Mapped(-EINVARG, directory[runner])
        \/ /\ mapped.res = 0 /\ mapped.dir \in Directory
           /\ FrameMaps(directory[runner], mapped.dir, PageOf(m.ptr), m.ptr, size, Writable)
    BY <2>1, <1>5, <1>6, FlagsType, MapPointer
  <2> QED BY <2>2 DEF Mapped, EINVARG
<1>8. CASE mapped.res < 0
  BY <1>1, <1>4, <1>8 DEF process_malloc, MallocFails
<1>9. CASE ~ (mapped.res < 0)
  <2>1. PICK i : i = Min(process_find_free_allocation_index(runner))
    OBVIOUS
  <2>2. i \in process_find_free_allocation_index(runner)
    <3>1. /\ process_find_free_allocation_index(runner) \subseteq Index
          /\ process_find_free_allocation_index(runner) # {}
      BY DEF process_malloc, process_find_free_allocation_index
    <3> QED BY <3>1, <2>1, LeastOf
  <2>3. i \in Index /\ allocations[runner][i] = Empty
    BY <2>2, <1>2 DEF process_find_free_allocation_index, Sane, Shape
  <2>4. /\ heap' = m.heap
        /\ allocations' = [allocations EXCEPT ![runner][i] = a]
        /\ directory' = [directory EXCEPT ![runner] = mapped.dir]
    BY <1>1, <1>9, <2>1 DEF process_malloc
  <2>5. MallocMaps(size, m, i, mapped.dir)
    BY <1>1, <1>7, <1>9, <2>3, <2>4 DEF MallocMaps
  <2> QED BY <1>4, <2>5
<1> QED BY <1>8, <1>9

\* process_free, of the allocation entry i.
Frees(ptr, i, new) ==
  /\ runner \in alive /\ runner \in Slot /\ ptr \in Pointer
  /\ i \in Index /\ allocations[runner][i].ptr = ptr
  /\ new \in Directory
  /\ FrameMaps(directory[runner], new, PageOf(ptr), ptr, allocations[runner][i].size, {})
  /\ directory' = [directory EXCEPT ![runner] = new]
  /\ allocations' = [allocations EXCEPT ![runner] =
                       [j \in Index |-> IF @[j].ptr = ptr THEN Empty ELSE @[j]]]
  /\ heap' = kfree(heap, {ptr})
  /\ UNCHANGED <<alive, runner, image, calls, sound>>

\* free unmaps and forgets the entry of its pointer.
LEMMA FreeFrees ==
  ASSUME Sane, NEW ptr \in Pointer, process_free(ptr)
  PROVE  \E i, new : Frees(ptr, i, new)
<1>1. PICK found, i : /\ found = {j \in Index : allocations[runner][j].ptr = ptr}
                      /\ i = Min(found)
  OBVIOUS
<1>2. PICK a \in process_get_allocation_by_addr(runner, ptr) :
        /\ Unmapped(runner, a).res >= 0
        /\ directory' = [directory EXCEPT ![runner] = Unmapped(runner, a).dir]
        /\ allocations' = [allocations EXCEPT ![runner] =
                             [j \in Index |-> IF @[j].ptr = ptr THEN Empty ELSE @[j]]]
        /\ heap' = kfree(heap, {ptr})
        /\ UNCHANGED <<alive, runner, image, calls, sound>>
  BY DEF process_free
<1>3. runner \in alive /\ runner \in Slot
  BY RunnerExists DEF process_free
<1>4. found # {} /\ a = allocations[runner][i]
  BY <1>1, <1>2 DEF process_get_allocation_by_addr
<1>5. i \in found
  <2>1. found \subseteq Index
    BY <1>1
  <2> QED BY <2>1, <1>1, <1>4, LeastOf
<1>6. i \in Index /\ a.ptr = ptr
  BY <1>1, <1>4, <1>5
<1>7. a.size \in Address /\ directory[runner] \in Directory
  BY <1>3, <1>4, <1>6, AllocationType DEF Sane, TypeOK, Directory
<1>8. PICK u : u = Unmapped(runner, a)
  OBVIOUS
<1>9. u.dir \in Directory /\ FrameMaps(directory[runner], u.dir, PageOf(ptr), ptr, a.size, {})
  <2>1. PageOf(ptr) \in Page /\ ptr = PageOf(ptr) * PageSize
    BY Slices
  <2>2. u = paging_map_to(directory[runner], PageOf(ptr) * PageSize, ptr,
              paging_align_address(Wrap(ptr + a.size)), {})
    BY <2>1, <1>6, <1>8 DEF Unmapped, MapAllocation
  <2>3. u # Mapped(-EINVARG, directory[runner])
    BY <1>2, <1>8 DEF Mapped, EINVARG
  <2>4. {} \in SUBSET Flag
    OBVIOUS
  <2> QED BY <2>1, <2>2, <2>3, <2>4, <1>7, MapPointer
<1>10. Frees(ptr, i, u.dir)
  BY <1>2, <1>3, <1>4, <1>6, <1>8, <1>9 DEF Frees
<1> QED BY <1>10

\* copy_string_from_task, of a string the kernel can read, or not.
Copies(m, s) ==
  /\ m \in Request /\ s \in Kernel!Blocks /\ Serves(Now, m, s, Blocks(PageSize - 1))

CopyEnds(m) ==
  /\ heap' = kfree(m.heap, {m.ptr})
  /\ UNCHANGED <<alive, runner, image, allocations, directory, calls, sound>>

\* The page of tmp is put back as it was found (task/task.c:148).
LEMMA RestoredIsSame ==
  ASSUME NEW dir \in Directory, NEW ptr \in Pointer
  PROVE  Restored(paging_map(dir, ptr, ptr, Writable).dir, ptr, paging_get(dir, ptr)) = dir
<1>1. PICK v, new : v = PageOf(ptr) /\ new = [frame |-> PageOf(ptr), flags |-> Writable]
  OBVIOUS
<1>2. v \in Page /\ paging_is_aligned(ptr)
  BY <1>1, Slices, PointerType, Split
<1>3. paging_map(dir, ptr, ptr, Writable).dir = [dir EXCEPT ![v] = new]
  BY <1>1, <1>2 DEF paging_map, paging_set, Mapped
<1>4. paging_get(dir, ptr) = dir[v]
  BY <1>1, <1>2 DEF paging_get
<1>5. Restored([dir EXCEPT ![v] = new], ptr, dir[v]) = [[dir EXCEPT ![v] = new] EXCEPT ![v] = dir[v]]
  BY <1>1, <1>2 DEF Restored, paging_set, Mapped
<1>6. [[dir EXCEPT ![v] = new] EXCEPT ![v] = dir[v]] = dir
  BY <1>2 DEF Directory
<1> QED BY <1>3, <1>4, <1>5, <1>6

\* Copying a string allocates and frees tmp, or ends the process.
LEMMA CopyCopies ==
  ASSUME Sane, NEW reachable \in BOOLEAN, copy_string_from_task(reachable)
  PROVE  /\ runner \in alive /\ runner \in Slot
         /\ \E m, s : Copies(m, s) /\ (CopyEnds(m) \/ Terminate(m.heap))
<1>1. PICK m : m = kzalloc(Now, PageSize - 1)
  OBVIOUS
<1>2. runner \in alive /\ runner \in Slot /\ m.ok
  BY <1>1, RunnerExists DEF copy_string_from_task
<1>3. PICK s \in Kernel!Blocks : m \in Request /\ Serves(Now, m, s, Blocks(PageSize - 1))
  BY <1>1, <1>2, NowType, Served DEF Blocks, Sane
<1>4. PICK old, shared : /\ old = paging_get(directory[runner], m.ptr)
                         /\ shared = paging_map(directory[runner], m.ptr, m.ptr, Writable).dir
  OBVIOUS
<1>5. \/ /\ heap' = kfree(m.heap, {m.ptr})
         /\ directory' = [directory EXCEPT ![runner] = Restored(shared, m.ptr, old)]
         /\ UNCHANGED <<alive, runner, image, allocations, calls, sound>>
      \/ Terminate(m.heap)
  BY <1>1, <1>4 DEF copy_string_from_task
<1>6. [directory EXCEPT ![runner] = Restored(shared, m.ptr, old)] = directory
  <2>1. directory \in [Slot -> Directory]
    BY DEF Sane, TypeOK, Directory
  <2>2. Restored(shared, m.ptr, old) = directory[runner]
    BY <2>1, <1>2, <1>3, <1>4, ServedPointer, RestoredIsSame
  <2> QED BY <2>1, <2>2
<1> QED BY <1>2, <1>3, <1>5, <1>6 DEF Copies, CopyEnds

-----------------------------------------------------------------------------
(* Types                                                                   *)

\* Sane holds when the kernel has started.
LEMMA InitSane == Init => Sane
<1> SUFFICES ASSUME Init PROVE Sane
  OBVIOUS
<1> USE DEF Init
<1>1. heap \in [Kernel!Blocks -> SUBSET Kernel!Flags]
  <2>1. [b \in Kernel!Blocks |-> Kernel!FREE] \in TableType
    BY DEF TableType, Kernel!FREE
  <2> QED BY <2>1, MarkType DEF TableType
<1>2. directory \in [Slot -> [Page -> PageEntry]]
  <2>1. paging_new_4gb({}) \in Directory
    BY NewDirectory
  <2> QED BY <2>1 DEF Directory
<1>3. allocations \in [Slot -> [Index -> [ptr : Pointer, size : Sizes \cup {0}]]]
  BY DEF NoAllocations, Empty, Pointer, NULL
<1>4. {memory, stack, task} \subseteq [Slot -> Pointer]
  BY DEF Pointer, NULL
<1>5. elf_file \in [Slot -> ElfFile] /\ file \in [Slot -> Programs \cup {NoFile}]
  BY DEF Unprocessed, ElfFile
<1>6. calls \in 0 .. MaxCalls /\ sound \in BOOLEAN
  BY AddressSpacesAssumption
<1>7. TypeOK
  BY <1>1, <1>2, <1>3, <1>4, <1>5, <1>6 DEF TypeOK, NONE
<1>8. Shape
  BY DEF Shape, NoAllocations
<1> QED BY <1>7, <1>8 DEF Sane

\* elf_load records numbers of any image.
LEMMA LoadedType ==
  ASSUME NEW mem \in Pointer, NEW f \in Programs
  PROVE  elf_process_loaded(mem, f) \in ElfFile
<1>1. <<0, Unprocessed>> \in Nat \X ElfFile
  BY DEF Unprocessed, ElfFile
<1>2. \A i \in 1 .. Len(f.headers) : \A elf \in ElfFile :
        <<i, elf_process_pheader(elf, mem, f.headers[i])>> \in Nat \X ElfFile
  BY Headers, PheaderType
<1>3. elf_process_pheaders(mem, f) \in ElfFile
  BY <1>1, <1>2, ExtentInduction
<1> QED BY <1>1, <1>3 DEF elf_process_loaded

\* Sane after a load.
LEMMA LoadSane ==
  ASSUME Sane, NEW f \in Programs, NEW p, NEW m, NEW s, NEW new, Loads(f, p, m, s, new)
  PROVE  Sane'
<1> USE DEF Sane, Loads
<1>1. /\ m[1] \in Request /\ m[2] \in Request /\ m[3] \in Request
      /\ s[1] \in Kernel!Blocks /\ s[2] \in Kernel!Blocks /\ s[3] \in Kernel!Blocks
  OBVIOUS
<1>2. /\ m[1].ptr \in Pointer /\ m[2].ptr \in Pointer /\ m[3].ptr \in Pointer
      /\ m[1].ptr # NULL /\ m[2].ptr # NULL /\ m[3].ptr # NULL
  BY <1>1, ServedPointer
<1>3. heap' \in [Kernel!Blocks -> SUBSET Kernel!Flags] /\ sound' \in BOOLEAN
  BY <1>1 DEF Request, TableType
<1>4. alive' \subseteq Slot /\ runner' \in Slot \cup {NONE} /\ (alive' # {} => runner' \in alive')
  BY DEF TypeOK
<1>5. file' \in [Slot -> Programs \cup {NoFile}]
  BY DEF TypeOK
<1>6. elf_file' \in [Slot -> ElfFile]
  BY <1>2, LoadedType DEF TypeOK
<1>7. {memory', stack', task'} \subseteq [Slot -> Pointer]
  BY <1>2 DEF TypeOK
<1>8. allocations' \in [Slot -> [Index -> [ptr : Pointer, size : Sizes \cup {0}]]]
  <2>1. NoAllocations \in [Index -> [ptr : Pointer, size : Sizes \cup {0}]]
    BY DEF NoAllocations, Empty, Pointer, NULL
  <2> QED BY <2>1 DEF TypeOK
<1>9. directory' \in [Slot -> [Page -> PageEntry]]
  BY DEF TypeOK, Directory
<1>10. calls' \in 0 .. MaxCalls
  BY AddressSpacesAssumption DEF TypeOK
<1>11. TypeOK'
  BY <1>3, <1>4, <1>5, <1>6, <1>7, <1>8, <1>9, <1>10 DEF TypeOK
<1>12. \A q \in Slot : \A i \in Index :
         allocations'[q][i].ptr = NULL => allocations'[q][i] = Empty
  BY DEF TypeOK, Shape, NoAllocations
<1>13. ASSUME NEW q \in alive'
       PROVE  /\ file'[q] \in Programs
              /\ memory'[q] # NULL /\ stack'[q] # NULL /\ task'[q] # NULL
  <2>1. q = p \/ (q \in alive /\ q # p)
    OBVIOUS
  <2>2. CASE q = p
    BY <2>2, <1>2 DEF TypeOK
  <2>3. CASE q \in alive /\ q # p
    BY <2>3 DEF TypeOK, Shape
  <2> QED BY <2>1, <2>2, <2>3
<1>14. runner' # NONE => alive' # {}
  OBVIOUS
<1>15. Shape'
  BY <1>12, <1>13, <1>14 DEF Shape
<1> QED BY <1>11, <1>15

\* Sane after malloc.
LEMMA MallocSane ==
  ASSUME Sane, NEW size \in Sizes, NEW m, NEW s, Mallocs(size, m, s),
         MallocFails(m) \/ \E i, new : MallocMaps(size, m, i, new)
  PROVE  Sane'
<1> USE DEF Sane, Mallocs
<1>1. sound' \in BOOLEAN /\ calls' \in 0 .. MaxCalls
  BY AddressSpacesAssumption DEF Request, TypeOK
<1>2. m.ptr \in Pointer /\ m.ptr # NULL /\ m.heap \in TableType
  BY ServedPointer DEF Request
<1>3. CASE MallocFails(m)
  <2>1. heap' \in TableType
    BY <1>2, <1>3, FreeType DEF MallocFails
  <2> QED BY <2>1, <1>1, <1>3 DEF MallocFails, TypeOK, Shape, image, TableType
<1>4. ASSUME NEW i, NEW new, MallocMaps(size, m, i, new)
      PROVE  Sane'
  <2> USE <1>4 DEF MallocMaps
  <2>1. heap' \in [Kernel!Blocks -> SUBSET Kernel!Flags]
    BY <1>2 DEF TableType
  <2>2. allocations' \in [Slot -> [Index -> [ptr : Pointer, size : Sizes \cup {0}]]]
    BY <1>2 DEF TypeOK
  <2>3. directory' \in [Slot -> [Page -> PageEntry]]
    BY DEF TypeOK, Directory
  <2>4. TypeOK'
    BY <1>1, <2>1, <2>2, <2>3 DEF TypeOK, image
  <2>5. \A q \in Slot : \A j \in Index :
          allocations'[q][j].ptr = NULL => allocations'[q][j] = Empty
    <3> TAKE q \in Slot
    <3> TAKE j \in Index
    <3>1. CASE q = runner /\ j = i
      BY <3>1, <1>2 DEF TypeOK
    <3>2. CASE q # runner \/ j # i
      BY <3>2 DEF TypeOK, Shape
    <3> QED BY <3>1, <3>2
  <2>6. Shape'
    BY <2>5 DEF Shape, image
  <2> QED BY <2>4, <2>6
<1> QED BY <1>3, <1>4

\* Sane after free.
LEMMA FreeSane ==
  ASSUME Sane, NEW ptr, NEW i, NEW new, Frees(ptr, i, new)
  PROVE  Sane'
<1> USE DEF Sane, Frees
<1>1. heap' \in [Kernel!Blocks -> SUBSET Kernel!Flags]
  BY FreeType DEF TypeOK, TableType
<1>2. allocations' \in [Slot -> [Index -> [ptr : Pointer, size : Sizes \cup {0}]]]
  <2>1. Empty \in [ptr : Pointer, size : Sizes \cup {0}]
    BY DEF Empty, Pointer, NULL
  <2> QED BY <2>1 DEF TypeOK
<1>3. directory' \in [Slot -> [Page -> PageEntry]]
  BY DEF TypeOK, Directory
<1>4. TypeOK'
  BY <1>1, <1>2, <1>3 DEF TypeOK, image
<1>5. \A q \in Slot : \A j \in Index :
        allocations'[q][j].ptr = NULL => allocations'[q][j] = Empty
  <2> TAKE q \in Slot
  <2> TAKE j \in Index
  <2>1. CASE q = runner
    <3>1. allocations'[q][j] =
            IF allocations[q][j].ptr = ptr THEN Empty ELSE allocations[q][j]
      BY <2>1 DEF TypeOK
    <3> QED BY <3>1 DEF Shape
  <2>2. CASE q # runner
    BY <2>2 DEF TypeOK, Shape
  <2> QED BY <2>1, <2>2
<1>6. Shape'
  BY <1>5 DEF Shape, image
<1> QED BY <1>4, <1>6

\* Sane after an exit.
LEMMA TerminateSane ==
  ASSUME Sane, runner \in alive, NEW tbl \in TableType, Terminate(tbl)
  PROVE  Sane'
<1> USE DEF Sane, Terminate
<1>1. heap' \in [Kernel!Blocks -> SUBSET Kernel!Flags]
  BY FreeType DEF TableType
<1>2. alive' \subseteq alive /\ runner' \in alive' /\ alive' \subseteq Slot
  BY DEF TypeOK
<1>3. /\ file' \in [Slot -> Programs \cup {NoFile}] /\ elf_file' \in [Slot -> ElfFile]
      /\ {memory', stack', task'} \subseteq [Slot -> Pointer]
  BY DEF TypeOK, Unprocessed, ElfFile, Pointer, NULL
<1>4. allocations' \in [Slot -> [Index -> [ptr : Pointer, size : Sizes \cup {0}]]]
  <2>1. NoAllocations \in [Index -> [ptr : Pointer, size : Sizes \cup {0}]]
    BY DEF NoAllocations, Empty, Pointer, NULL
  <2> QED BY <2>1 DEF TypeOK
<1>5. directory' \in [Slot -> [Page -> PageEntry]]
  <2>1. paging_new_4gb({}) \in Directory
    BY NewDirectory
  <2> QED BY <2>1 DEF TypeOK, Directory
<1>6. TypeOK'
  BY <1>1, <1>2, <1>3, <1>4, <1>5 DEF TypeOK
<1>7. \A q \in Slot : \A i \in Index :
        allocations'[q][i].ptr = NULL => allocations'[q][i] = Empty
  BY DEF TypeOK, Shape, NoAllocations
<1>8. ASSUME NEW q \in alive'
      PROVE  /\ file'[q] \in Programs
             /\ memory'[q] # NULL /\ stack'[q] # NULL /\ task'[q] # NULL
  <2>1. q \in alive /\ q # runner /\ q \in Slot
    BY DEF TypeOK
  <2> QED BY <2>1 DEF TypeOK, Shape
<1>9. Shape'
  BY <1>2, <1>7, <1>8 DEF Shape
<1> QED BY <1>6, <1>9

\* Sane is inductive.
LEMMA NextSane == Sane /\ [Next]_vars => Sane'
<1> SUFFICES ASSUME Sane, [Next]_vars PROVE Sane'
  OBVIOUS
<1>1. ASSUME NEW f \in Programs, process_load_for_slot(f) PROVE Sane'
  BY <1>1, LoadLoads, LoadSane
<1>2. CASE task_next
  BY <1>2 DEF task_next, Sane, TypeOK, Shape, image
<1>3. ASSUME NEW size \in Sizes, process_malloc(size) PROVE Sane'
  BY <1>3, MallocMallocs, MallocSane
<1>4. ASSUME NEW ptr \in Pointer, process_free(ptr) PROVE Sane'
  BY <1>4, FreeFrees, FreeSane
<1>5. CASE process_terminate
  <2>1. heap \in TableType /\ runner \in alive
    BY <1>5, RunnerExists DEF process_terminate, Sane, TypeOK, TableType
  <2> QED BY <2>1, <1>5, TerminateSane DEF process_terminate
<1>6. ASSUME NEW reachable \in BOOLEAN, copy_string_from_task(reachable) PROVE Sane'
  <2>1. PICK m, s : Copies(m, s) /\ (CopyEnds(m) \/ Terminate(m.heap))
    BY <1>6, CopyCopies
  <2>2. m.heap \in TableType /\ runner \in alive
    BY <1>6, <2>1, CopyCopies DEF Copies, Request
  <2>3. CASE CopyEnds(m)
    <3>1. heap' \in TableType
      BY <2>2, <2>3, FreeType DEF CopyEnds
    <3> QED BY <3>1, <2>3 DEF CopyEnds, Sane, TypeOK, Shape, image, TableType
  <2>4. CASE Terminate(m.heap)
    BY <2>2, <2>4, TerminateSane
  <2> QED BY <2>1, <2>3, <2>4
<1>7. CASE UNCHANGED vars
  BY <1>7 DEF vars, Sane, TypeOK, Shape, image
<1> QED BY <1>1, <1>2, <1>3, <1>4, <1>5, <1>6, <1>7 DEF Next

\* Sane holds in every reachable state.
LEMMA SaneAlways == Spec => []Sane
BY InitSane, NextSane, PTL DEF Spec

\* Every variable has its type in every reachable state: pointers come from the
\* kernel heap, frames stay in the address space, what is recorded of an image
\* is a number, and no process runs that does not exist.
THEOREM TypeCorrect == Spec => []TypeOK
<1>1. Sane => TypeOK
  BY DEF Sane
<1> QED BY <1>1, SaneAlways, PTL

\* A directory changes only with the allocations of its process: malloc, which
\* always records a new allocation, free and nothing else.  Copying a string
\* out, whose temporary page is mapped and put back, leaves it as it was.
THEOREM DirectoriesFollow == Spec => DirectoryFollows
<1> DEFINE A == \A p \in alive \cap alive' :
                  allocations'[p] = allocations[p] => directory'[p] = directory[p]
<1>1. ASSUME Sane, [Next]_vars PROVE A
  <2> SUFFICES ASSUME NEW p \in alive, p \in alive', allocations'[p] = allocations[p]
               PROVE  directory'[p] = directory[p]
    OBVIOUS
  <2>0. p \in Slot
    BY <1>1 DEF Sane, TypeOK
  <2>1. ASSUME NEW f \in Programs, process_load_for_slot(f) PROVE directory'[p] = directory[p]
    <3>1. PICK q, m, s, new : Loads(f, q, m, s, new)
      BY <1>1, <2>1, LoadLoads
    <3> QED BY <3>1, <1>1, <2>0 DEF Loads, Sane, TypeOK
  <2>2. CASE task_next
    BY <2>2 DEF task_next
  <2>3. ASSUME NEW size \in Sizes, process_malloc(size) PROVE directory'[p] = directory[p]
    <3>1. PICK m, s : /\ Mallocs(size, m, s)
                      /\ MallocFails(m) \/ \E i, new : MallocMaps(size, m, i, new)
      BY <1>1, <2>3, MallocMallocs
    <3>2. CASE MallocFails(m)
      BY <3>2 DEF MallocFails
    <3>3. ASSUME NEW i, NEW new, MallocMaps(size, m, i, new)
          PROVE  directory'[p] = directory[p]
      <4>1. p # runner
        <5>1. CASE p = runner
          <6>1. /\ allocations'[p][i] = [ptr |-> m.ptr, size |-> size]
                /\ allocations[p][i].ptr = NULL
            BY <5>1, <1>1, <2>0, <3>3 DEF MallocMaps, Empty, Sane, TypeOK
          <6>2. m.ptr # NULL
            BY <3>1, ServedPointer DEF Mallocs
          <6> QED BY <6>1, <6>2
        <5> QED BY <5>1
      <4> QED BY <4>1, <1>1, <2>0, <3>3 DEF MallocMaps, Sane, TypeOK
    <3> QED BY <3>1, <3>2, <3>3
  <2>4. ASSUME NEW ptr \in Pointer, process_free(ptr) PROVE directory'[p] = directory[p]
    <3>1. PICK i, new : Frees(ptr, i, new)
      BY <1>1, <2>4, FreeFrees
    <3>2. CASE p # runner
      BY <3>1, <3>2, <1>1, <2>0 DEF Frees, Sane, TypeOK
    <3>3. CASE p = runner
      <4>1. allocations[p][i] = Empty
        <5>1. allocations'[p][i] = Empty
          BY <3>1, <3>3, <1>1, <2>0 DEF Frees, Sane, TypeOK
        <5> QED BY <5>1
      <4>2. ptr = NULL /\ allocations[p][i].size = 0
        BY <4>1, <3>1, <3>3 DEF Frees, Empty
      <4>3. PagesFor(0) = 0
        BY BytesFromNothing
      <4>4. new = directory[p]
        <5>1. PICK c \in 0 .. PagesFor(0) :
                /\ new = MapPages(directory[p], PageOf(ptr), PageOf(ptr), c, {})
                /\ PageOf(ptr) + c < Pages
          BY <4>2, <3>1, <3>3 DEF Frees, FrameMaps
        <5>2. c = 0
          BY <5>1, <4>3
        <5>3. PageOf(ptr) \in Page /\ directory[p] \in Directory
          BY <2>0, <2>4, Slices, <1>1 DEF Sane, TypeOK, Directory
        <5>4. PageOf(ptr) + 0 <= Pages /\ {} \in SUBSET Flag /\ 0 \in Nat
          BY <5>3, PageType, Constants
        <5> QED BY <5>1, <5>2, <5>3, <5>4, MapPagesType
      <4> QED BY <4>4, <3>1, <3>3, <1>1, <2>0 DEF Frees, Sane, TypeOK
    <3> QED BY <3>2, <3>3
  <2>5. ASSUME NEW tbl, Terminate(tbl) PROVE directory'[p] = directory[p]
    BY <2>5, <1>1, <2>0 DEF Terminate, Sane, TypeOK
  <2>6. CASE process_terminate
    BY <2>6, <2>5 DEF process_terminate
  <2>7. ASSUME NEW reachable \in BOOLEAN, copy_string_from_task(reachable)
        PROVE  directory'[p] = directory[p]
    <3>1. PICK m, s : Copies(m, s) /\ (CopyEnds(m) \/ Terminate(m.heap))
      BY <1>1, <2>7, CopyCopies
    <3> QED BY <3>1, <2>5 DEF CopyEnds
  <2>8. CASE UNCHANGED vars
    BY <2>8 DEF vars
  <2> QED BY <1>1, <2>1, <2>2, <2>3, <2>4, <2>6, <2>7, <2>8 DEF Next
<1>2. Sane /\ [Next]_vars => [A]_vars
  BY <1>1
<1>3. Spec => [][A]_vars
  BY <1>2, SaneAlways, PTL DEF Spec
<1> QED BY <1>3 DEF DirectoryFollows

-----------------------------------------------------------------------------
(* Who holds which blocks                                                  *)

\* The blocks of an entry.
Run(e) == e.first .. e.first + e.blocks - 1

\* The runs of a ledger lie in the table, which says so, and are apart.
Book(tbl, ledger) ==
  /\ \A e \in ledger :
       /\ e.first \in Nat /\ e.blocks \in Nat \ {0}
       /\ Run(e) \subseteq Kernel!Blocks
       /\ \A b \in Run(e) : tbl[b] = Kernel!TakenEntry(e.first, e.blocks, b)
  /\ \A e, f \in ledger : e # f => Run(e) \cap Run(f) = {}

\* Marking a free run adds it to the book.
LEMMA BookTakes ==
  ASSUME NEW tbl, NEW ledger, Book(tbl, ledger), NEW e,
         e.first \in Kernel!Blocks, e.blocks \in Nat,
         Kernel!Fits(tbl, e.first, e.blocks)
  PROVE  Book(Kernel!heap_mark_blocks_taken(tbl, e.first, e.blocks), ledger \cup {e})
<1> DEFINE new == Kernel!heap_mark_blocks_taken(tbl, e.first, e.blocks)
<1>1. /\ e.first \in Nat /\ e.blocks \in Nat \ {0}
      /\ Run(e) \subseteq Kernel!FreeBlocks(tbl) /\ Run(e) \subseteq Kernel!Blocks
  BY BlockType DEF Kernel!Fits, Run, Kernel!FreeBlocks
<1>2. \A b \in Kernel!Blocks :
        new[b] = IF b \in Run(e) THEN Kernel!TakenEntry(e.first, e.blocks, b) ELSE tbl[b]
  BY DEF Kernel!heap_mark_blocks_taken, Run
<1>3. ASSUME NEW f \in ledger PROVE Run(e) \cap Run(f) = {}
  <2>1. \A b \in Run(f) : b \in Kernel!Blocks /\ "TAKEN" \in tbl[b]
    BY DEF Book, Kernel!TakenEntry
  <2>2. \A b \in Run(e) : "TAKEN" \notin tbl[b]
    BY <1>1 DEF Kernel!FreeBlocks
  <2> QED BY <2>1, <2>2
<1> HIDE DEF new
<1>4. ASSUME NEW f \in ledger \cup {e}
      PROVE  /\ f.first \in Nat /\ f.blocks \in Nat \ {0}
             /\ Run(f) \subseteq Kernel!Blocks
             /\ \A b \in Run(f) : new[b] = Kernel!TakenEntry(f.first, f.blocks, b)
  <2>1. CASE f = e
    BY <2>1, <1>1, <1>2
  <2>2. CASE f \in ledger
    BY <2>2, <1>2, <1>3 DEF Book
  <2> QED BY <2>1, <2>2
<1>5. ASSUME NEW f \in ledger \cup {e}, NEW g \in ledger \cup {e}, f # g
      PROVE  Run(f) \cap Run(g) = {}
  BY <1>3, <1>5 DEF Book
<1>6. Book(new, ledger \cup {e})
  BY <1>4, <1>5 DEF Book
<1> QED BY <1>6 DEF new

\* Following HAS_NEXT from the first block of an entry gives its run.
LEMMA ChainIsRun ==
  ASSUME NEW tbl, NEW ledger, Book(tbl, ledger), NEW e \in ledger
  PROVE  Kernel!Chain(tbl, e.first) = Run(e)
<1>1. PICK s, n : s = e.first /\ n = e.blocks
  OBVIOUS
<1>2. /\ s \in Nat /\ n \in Nat \ {0} /\ Run(e) = s .. s + n - 1
      /\ Run(e) \subseteq Kernel!Blocks
      /\ \A b \in s .. s + n - 1 : tbl[b] = Kernel!TakenEntry(s, n, b)
  BY <1>1 DEF Book, Run
<1>3. \A b \in s .. s + n - 1 : "HAS_NEXT" \in tbl[b] <=> b # s + n - 1
  BY <1>2 DEF Kernel!TakenEntry
<1>4. s + n - 1 <= HeapBlocks - 1
  <2>1. s + n - 1 \in Run(e)
    BY <1>2
  <2> QED BY <2>1, <1>2, BlockType, Constants
<1>5. ASSUME NEW i \in s .. HeapBlocks - 1
      PROVE  (\A j \in s .. i - 1 : "HAS_NEXT" \in tbl[j]) <=> i \in s .. s + n - 1
  <2>1. CASE i <= s + n - 1
    <3>1. \A j \in s .. i - 1 : j \in s .. s + n - 1 /\ j # s + n - 1
      BY <2>1, <1>2
    <3> QED BY <3>1, <2>1, <1>2, <1>3
  <2>2. CASE i > s + n - 1
    <3>1. s + n - 1 \in s .. i - 1 /\ s + n - 1 \in s .. s + n - 1
      BY <2>2, <1>2, Constants
    <3>2. "HAS_NEXT" \notin tbl[s + n - 1]
      BY <3>1, <1>3
    <3> QED BY <3>1, <3>2, <2>2, <1>2
  <2> QED BY <2>1, <2>2, <1>2, Constants
<1>6. ASSUME NEW i PROVE i \in Kernel!Chain(tbl, s) <=> i \in s .. s + n - 1
  <2>1. i \in s .. s + n - 1 => i \in s .. HeapBlocks - 1
    BY <1>2, <1>4, Constants
  <2>2. i \in Kernel!Chain(tbl, s) <=>
          i \in s .. HeapBlocks - 1 /\ \A j \in s .. i - 1 : "HAS_NEXT" \in tbl[j]
    BY DEF Kernel!Chain
  <2> QED BY <2>1, <2>2, <1>5
<1> QED BY <1>1, <1>2, <1>6

\* Freeing what some entries hold leaves the others as they are.
LEMMA BookFrees ==
  ASSUME NEW tbl, NEW ledger, Book(tbl, ledger), NEW ptrs, NEW rest, rest \subseteq ledger,
         \A ptr \in ptrs \ {NULL} : \E e \in ledger \ rest : e.first = Block(ptr)
  PROVE  Book(kfree(tbl, ptrs), rest)
<1> DEFINE new == kfree(tbl, ptrs)
<1>1. ASSUME NEW f \in rest, NEW b \in Run(f) PROVE new[b] = tbl[b]
  <2>1. b \in Kernel!Blocks
    BY DEF Book
  <2>2. ASSUME NEW ptr \in ptrs \ {NULL}
        PROVE  b \notin Kernel!Chain(tbl, Kernel!heap_address_to_block(ptr))
    <3>1. PICK e \in ledger \ rest : e.first = Block(ptr)
      OBVIOUS
    <3>2. Kernel!Chain(tbl, Kernel!heap_address_to_block(ptr)) = Run(e)
      BY <3>1, ChainIsRun DEF Block
    <3> QED BY <3>1, <3>2 DEF Book
  <2>3. b \notin UNION {Kernel!Chain(tbl, Kernel!heap_address_to_block(ptr)) :
                          ptr \in ptrs \ {NULL}}
    BY <2>2
  <2> QED BY <2>1, <2>3 DEF kfree
<1> HIDE DEF new
<1>2. Book(new, rest)
  BY <1>1 DEF Book
<1> QED BY <1>2 DEF new

\* What processes hold, and kernel_chunk.
Entry(own, part, ptr, size) ==
  [own |-> own, part |-> part, first |-> Block(ptr), blocks |-> Blocks(size)]

\* The entries that p uses, and what p holds.
Allocated(p) == {i \in Index : allocations[p][i].ptr # NULL}

Held(p) ==
  {Entry(p, -1, memory[p], file[p].size), Entry(p, -2, stack[p], StackSize),
   Entry(p, -3, task[p], PageSize)}
  \cup {Entry(p, i, allocations[p][i].ptr, allocations[p][i].size) : i \in Allocated(p)}

\* What the kernel holds, and all that is held.
KernelChunk == Entry(0, 0, kernel_chunk, PageSize)

Ledger == {KernelChunk} \cup UNION {Held(p) : p \in alive}

\* While the heap gave out free runs, all that is held is in the book.
Booked == sound => Book(heap, Ledger)

\* The pages of size bytes from ptr.
Extent(ptr, size) == PageOf(ptr) .. PageOf(ptr) + PagesFor(size) - 1

\* Where what a process can write to comes from.
Given(p, v, frame) ==
  \/ frame \in Extent(memory[p], file[p].size)
  \/ frame \in Extent(stack[p], StackSize)
  \/ frame = v /\ \E i \in Allocated(p) :
       v \in Extent(allocations[p][i].ptr, allocations[p][i].size)

\* Each process writes to what it was given.
WritesOwn ==
  sound => \A p \in alive : Covered(file[p]) =>
    \A v \in Page : "WRITEABLE" \in directory[p][v].flags => Given(p, v, directory[p][v].frame)

\* A page is one block.
LEMMA PageBlocks ==
  /\ PageSize \in Address /\ PageSize - 1 \in Address
  /\ Blocks(PageSize) = 1 /\ Blocks(PageSize - 1) = 1
  /\ PagesFor(PageSize) = 1
<1>1. PageSize \in Nat \ {0, 1} /\ Pages \in Nat /\ Pages >= 2
  BY Constants
<1>2. 2 * PageSize <= Pages * PageSize /\ Pages * PageSize \in Nat
  BY <1>1
<1>3. PageSize \in Address /\ PageSize - 1 \in Address
  BY <1>1, <1>2 DEF Address
<1>4. PageOf(PageSize) = 1 /\ PageSize % PageSize = 0
  <2>1. 1 * PageSize + 0 = PageSize /\ 0 \in 0 .. PageSize - 1 /\ 1 \in Nat
    BY <1>1
  <2> QED BY <2>1, PageAndOffset
<1>5. PageOf(PageSize - 1) = 0 /\ (PageSize - 1) % PageSize = PageSize - 1
  <2>1. 0 * PageSize + (PageSize - 1) = PageSize - 1 /\ PageSize - 1 \in 0 .. PageSize - 1
        /\ 0 \in Nat
    BY <1>1
  <2> QED BY <2>1, PageAndOffset
<1>6. PagesFor(PageSize) = 1
  BY <1>1, <1>4, PagesForSize
<1>7. PagesFor(PageSize - 1) = 1
  <2>1. PICK x : x = PageSize - 1
    OBVIOUS
  <2>2. x \in Nat /\ x # 0 /\ PageOf(x) = 0 /\ x % PageSize = x
    BY <2>1, <1>1, <1>5
  <2>3. PagesFor(x) = 1
    BY <2>2, PagesForSize
  <2> QED BY <2>1, <2>3
<1> QED BY <1>1, <1>3, <1>6, <1>7, BlocksOfSize DEF Blocks

\* What is no longer held may leave the book.
LEMMA BookShrinks ==
  ASSUME NEW tbl, NEW ledger, Book(tbl, ledger), NEW less, less \subseteq ledger
  PROVE  Book(tbl, less)
BY DEF Book

\* A request that is served from free blocks adds its entry.
LEMMA EntryTakes ==
  ASSUME NEW m, NEW r, NEW s \in Kernel!Blocks, NEW size \in Address,
         Serves(m, r, s, Blocks(size)),
         NEW ledger, m.sound => Book(m.heap, ledger), NEW own, NEW part
  PROVE  r.sound => m.sound /\ Book(r.heap, ledger \cup {Entry(own, part, r.ptr, size)})
<1> SUFFICES ASSUME r.sound
             PROVE  m.sound /\ Book(r.heap, ledger \cup {Entry(own, part, r.ptr, size)})
  OBVIOUS
<1>1. PICK e : e = Entry(own, part, r.ptr, size)
  OBVIOUS
<1>2. Block(r.ptr) = s
  BY ServedPointer
<1>3. e.first = s /\ e.blocks = Blocks(size)
  BY <1>1, <1>2 DEF Entry
<1>4. /\ m.sound /\ Kernel!Fits(m.heap, s, Blocks(size))
      /\ r.heap = Kernel!heap_mark_blocks_taken(m.heap, s, Blocks(size))
  BY DEF Serves
<1>5. Blocks(size) \in Nat
  <2>1. PagesFor(size) \in Nat
    BY PagesForSize, Constants DEF Address
  <2> QED BY <2>1, BlocksOfSize DEF Blocks
<1>6. Book(r.heap, ledger \cup {e})
  BY <1>3, <1>4, <1>5, BookTakes
<1> QED BY <1>1, <1>4, <1>6

\* What a process holds depends on nothing but its own variables.
LEMMA HeldSame ==
  ASSUME NEW q, file'[q] = file[q], memory'[q] = memory[q], stack'[q] = stack[q],
         task'[q] = task[q], allocations'[q] = allocations[q]
  PROVE  Held(q)' = Held(q)
BY DEF Held, Entry, Allocated

\* What a process holds is booked under its name.
LEMMA HeldOwn == \A q : \A e \in Held(q) : e.own = q
BY DEF Held, Entry

\* At the start the kernel holds its chunk.
LEMMA InitBooked == Init => Booked
<1> SUFFICES ASSUME Init PROVE Book(heap, Ledger)
  BY DEF Booked
<1>1. PICK tbl : tbl = [b \in Kernel!Blocks |-> Kernel!FREE]
  OBVIOUS
<1>2. heap = Kernel!heap_mark_blocks_taken(tbl, 0, 1)
  BY <1>1 DEF Init
<1>3. 0 \in Kernel!Blocks /\ HeapAddress = HeapAddress + (0 * PageSize)
  BY Constants DEF Kernel!Blocks
<1>4. KernelChunk.first = 0 /\ KernelChunk.blocks = 1
  BY <1>3, PageBlocks, PointerOfBlock DEF KernelChunk, Entry, kernel_chunk
<1>5. Kernel!Fits(tbl, 0, 1)
  <2>1. 0 .. 0 + 1 - 1 = {0}
    OBVIOUS
  <2> QED BY <2>1, <1>1, <1>3 DEF Kernel!Fits, Kernel!FreeBlocks, Kernel!FREE
<1>6. Book(tbl, {})
  BY DEF Book
<1>7. Book(heap, {} \cup {KernelChunk})
  <2>1. PICK e, none : e = KernelChunk /\ none = {}
    OBVIOUS
  <2>2. Book(tbl, none) /\ e.first = 0 /\ e.blocks = 1
    BY <2>1, <1>4, <1>6
  <2>3. Book(Kernel!heap_mark_blocks_taken(tbl, e.first, e.blocks), none \cup {e})
    <3>1. e.first \in Kernel!Blocks /\ e.blocks \in Nat /\ Kernel!Fits(tbl, e.first, e.blocks)
      BY <2>2, <1>3, <1>5
    <3> QED BY <3>1, <2>2, BookTakes
  <2> QED BY <2>1, <2>2, <2>3, <1>2
<1>8. Ledger = {KernelChunk}
  BY DEF Ledger, Init
<1> QED BY <1>7, <1>8

\* The blocks of a new process, and of an allocation.
Taken(p, m, f) ==
  {Entry(p, -1, m[1].ptr, f.size), Entry(p, -2, m[2].ptr, StackSize),
   Entry(p, -3, m[3].ptr, PageSize)}

\* The allocations of a load are added to the book.
LEMMA LoadTakes ==
  ASSUME Booked, NEW f \in Programs, NEW p, NEW m, NEW s, NEW new,
         Loads(f, p, m, s, new), sound'
  PROVE  sound /\ Book(heap', Ledger \cup Taken(p, m, f))
<1> DEFINE e1 == Entry(p, -1, m[1].ptr, f.size)
           e2 == Entry(p, -2, m[2].ptr, StackSize)
           e3 == Entry(p, -3, m[3].ptr, PageSize)
<1>1. s[1] \in Kernel!Blocks /\ s[2] \in Kernel!Blocks /\ s[3] \in Kernel!Blocks
  BY DEF Loads
<1>2. f.size \in Address /\ StackSize \in Address /\ PageSize \in Address
  BY AddressSpacesAssumption, PageBlocks
<1>3. Now.sound => Book(Now.heap, Ledger)
  BY DEF Now, Booked
<1>4. m[1].sound => Now.sound /\ Book(m[1].heap, Ledger \cup {e1})
  BY <1>1, <1>2, <1>3, EntryTakes DEF Loads
<1>5. m[2].sound => m[1].sound /\ Book(m[2].heap, (Ledger \cup {e1}) \cup {e2})
  BY <1>1, <1>2, <1>4, EntryTakes DEF Loads
<1>6. m[3].sound => m[2].sound /\ Book(m[3].heap, ((Ledger \cup {e1}) \cup {e2}) \cup {e3})
  <2>1. PICK L : L = (Ledger \cup {e1}) \cup {e2}
    OBVIOUS
  <2>2. m[2].sound => Book(m[2].heap, L)
    BY <1>5, <2>1
  <2>3. Serves(m[2], m[3], s[3], Blocks(PageSize))
    BY DEF Loads
  <2>4. m[3].sound => m[2].sound /\ Book(m[3].heap, L \cup {e3})
    BY <1>1, <1>2, <2>2, <2>3, EntryTakes
  <2> HIDE DEF e1, e2, e3
  <2> QED BY <2>1, <2>4
<1>7. ((Ledger \cup {e1}) \cup {e2}) \cup {e3} = Ledger \cup Taken(p, m, f)
  BY DEF Taken
<1> HIDE DEF e1, e2, e3
<1> QED BY <1>4, <1>5, <1>6, <1>7 DEF Loads, Now

\* Booked after a load.
LEMMA LoadBooked ==
  ASSUME Sane, Booked, NEW f \in Programs, NEW p, NEW m, NEW s, NEW new,
         Loads(f, p, m, s, new)
  PROVE  Booked'
<1> DEFINE e1 == Entry(p, -1, m[1].ptr, f.size)
           e2 == Entry(p, -2, m[2].ptr, StackSize)
           e3 == Entry(p, -3, m[3].ptr, PageSize)
<1>7. Held(p)' \subseteq {e1, e2, e3}
  <2>1. Allocated(p)' = {}
    BY DEF Allocated, Loads, NoAllocations, Empty, Sane, TypeOK
  <2>2. file'[p] = f /\ memory'[p] = m[1].ptr /\ stack'[p] = m[2].ptr /\ task'[p] = m[3].ptr
    BY DEF Loads, Sane, TypeOK
  <2> QED BY <2>1, <2>2 DEF Held, Entry
<1>8. ASSUME NEW q \in alive PROVE Held(q)' = Held(q)
  <2>1. q # p
    BY DEF Loads
  <2> QED BY <2>1, HeldSame DEF Loads, Sane, TypeOK
<1>9. KernelChunk' = KernelChunk
  BY DEF KernelChunk, Entry
<1>10. Ledger' \subseteq Ledger \cup Taken(p, m, f)
  <2> SUFFICES ASSUME NEW e \in Ledger'
               PROVE  e \in Ledger \cup {e1, e2, e3}
    BY DEF Taken
  <2>1. e = KernelChunk \/ \E q \in alive \cup {p} : e \in Held(q)'
    BY <1>9 DEF Ledger, Loads
  <2> HIDE DEF e1, e2, e3
  <2> QED BY <2>1, <1>7, <1>8 DEF Ledger
<1> HIDE DEF e1, e2, e3
<1> QED BY <1>10, LoadTakes, BookShrinks DEF Booked

\* What is taken for a moment.
Temporary(ptr, size) == Entry(-1, 0, ptr, size)

\* Owners are numbers: slots, or 0 for the kernel.
LEMMA OwnersInLedger ==
  ASSUME Sane, NEW e \in Ledger
  PROVE  e.own \in Nat
<1>1. e = KernelChunk \/ \E q \in alive : e \in Held(q)
  BY DEF Ledger
<1>2. KernelChunk.own = 0
  BY DEF KernelChunk, Entry
<1>3. alive \subseteq Nat
  BY Constants DEF Sane, TypeOK, Slot
<1> QED BY <1>1, <1>2, <1>3, HeldOwn

\* Taken and given back at once, it leaves everything as it was.
LEMMA TemporaryGoes ==
  ASSUME Sane, Booked, NEW m, NEW s \in Kernel!Blocks, NEW size \in Address,
         Serves(Now, m, s, Blocks(size)), m.sound
  PROVE  /\ Book(m.heap, Ledger \cup {Temporary(m.ptr, size)})
         /\ Book(kfree(m.heap, {m.ptr}), Ledger)
<1>1. PICK e : e = Temporary(m.ptr, size)
  OBVIOUS
<1>2. Now.sound => Book(Now.heap, Ledger)
  BY DEF Now, Booked
<1>3. Book(m.heap, Ledger \cup {e})
  BY <1>1, <1>2, EntryTakes DEF Temporary
<1>4. e \notin Ledger
  <2>1. e.own = -1
    BY <1>1 DEF Temporary, Entry
  <2> QED BY <2>1, OwnersInLedger
<1>5. e.first = Block(m.ptr)
  BY <1>1 DEF Temporary, Entry
<1>6. Book(kfree(m.heap, {m.ptr}), Ledger)
  <2>1. \A ptr \in {m.ptr} \ {NULL} : \E x \in (Ledger \cup {e}) \ Ledger : x.first = Block(ptr)
    BY <1>4, <1>5
  <2> QED BY <2>1, <1>3, BookFrees
<1> QED BY <1>1, <1>3, <1>6

\* The allocation of malloc is added to the book.
LEMMA MallocTakes ==
  ASSUME Booked, NEW size \in Sizes, NEW m, NEW s, Mallocs(size, m, s), sound', NEW i
  PROVE  sound /\ Book(m.heap, Ledger \cup {Entry(runner, i, m.ptr, size)})
<1>1. Now.sound => Book(Now.heap, Ledger)
  BY DEF Now, Booked
<1>2. size \in Address
  BY AddressSpacesAssumption
<1>3. m.sound => Now.sound /\ Book(m.heap, Ledger \cup {Entry(runner, i, m.ptr, size)})
  BY <1>1, <1>2, EntryTakes DEF Mallocs
<1> QED BY <1>3 DEF Mallocs, Now

\* Booked after malloc.
LEMMA MallocBooked ==
  ASSUME Sane, Booked, NEW size \in Sizes, NEW m, NEW s, Mallocs(size, m, s),
         MallocFails(m) \/ \E i, new : MallocMaps(size, m, i, new)
  PROVE  Booked'
<1>1. size \in Address /\ s \in Kernel!Blocks /\ Serves(Now, m, s, Blocks(size))
  BY AddressSpacesAssumption DEF Mallocs
<1>2. KernelChunk' = KernelChunk
  BY DEF KernelChunk, Entry
<1>3. CASE MallocFails(m)
  <2>1. \A q \in alive : Held(q)' = Held(q)
    BY <1>3, HeldSame DEF MallocFails, Mallocs, image
  <2>2. Ledger' = Ledger
    BY <2>1, <1>2 DEF Ledger, Mallocs
  <2> QED BY <1>1, <1>3, <2>2, TemporaryGoes DEF Booked, MallocFails, Mallocs
<1>4. ASSUME NEW i, NEW new, MallocMaps(size, m, i, new)
      PROVE  Booked'
  <2> DEFINE e == Entry(runner, i, m.ptr, size)
  <2>2. sound' => Book(m.heap, Ledger \cup {e})
    BY MallocTakes
  <2>3. ASSUME NEW q \in alive, q # runner PROVE Held(q)' = Held(q)
    BY <2>3, <1>4, HeldSame DEF MallocMaps, Mallocs, image, Sane, TypeOK
  <2>4. Held(runner)' \subseteq Held(runner) \cup {e}
    <3>1. /\ file'[runner] = file[runner] /\ memory'[runner] = memory[runner]
          /\ stack'[runner] = stack[runner] /\ task'[runner] = task[runner]
      BY DEF Mallocs, image
    <3>2. ASSUME NEW j \in Index
          PROVE  allocations'[runner][j] =
                   IF j = i THEN [ptr |-> m.ptr, size |-> size] ELSE allocations[runner][j]
      BY <1>4 DEF MallocMaps, Mallocs, Sane, TypeOK
    <3>3. runner' = runner
      BY DEF Mallocs
    <3>4. ASSUME NEW x \in Held(runner)'
          PROVE  x \in Held(runner) \cup {e}
      <4>1. \/ x \in {Entry(runner, -1, memory[runner], file[runner].size),
                      Entry(runner, -2, stack[runner], StackSize),
                      Entry(runner, -3, task[runner], PageSize)}
            \/ \E j \in Allocated(runner)' :
                 x = Entry(runner, j, allocations'[runner][j].ptr, allocations'[runner][j].size)
        BY <3>1, <3>3 DEF Held, Entry
      <4>2. ASSUME NEW j \in Allocated(runner)',
                   x = Entry(runner, j, allocations'[runner][j].ptr, allocations'[runner][j].size)
            PROVE  x \in Held(runner) \cup {e}
        <5>1. j \in Index /\ allocations'[runner][j].ptr # NULL
          BY <3>3 DEF Allocated
        <5>2. CASE j = i
          BY <5>1, <5>2, <4>2, <3>2
        <5>3. CASE j # i
          <6>1. j \in Allocated(runner)
            BY <5>1, <5>3, <3>2 DEF Allocated
          <6>2. x = Entry(runner, j, allocations[runner][j].ptr, allocations[runner][j].size)
            BY <5>1, <5>3, <4>2, <3>2
          <6> QED BY <6>1, <6>2 DEF Held
        <5> QED BY <5>2, <5>3
      <4> QED BY <4>1, <4>2 DEF Held
    <3> QED BY <3>4
  <2>5. Ledger' \subseteq Ledger \cup {e}
    <3> SUFFICES ASSUME NEW x \in Ledger' PROVE x \in Ledger \cup {e}
      OBVIOUS
    <3>1. x = KernelChunk \/ \E q \in alive : x \in Held(q)'
      BY <1>2 DEF Ledger, Mallocs
    <3>2. runner' = runner /\ runner \in alive
      BY DEF Mallocs
    <3> HIDE DEF e
    <3> QED BY <3>1, <3>2, <2>3, <2>4 DEF Ledger
  <2> HIDE DEF e
  <2> QED BY <1>4, <2>2, <2>5, BookShrinks DEF Booked, MallocMaps, Mallocs
<1> QED BY <1>3, <1>4

\* Booked after free.
LEMMA FreeBooked ==
  ASSUME Sane, Booked, NEW ptr, NEW i, NEW new, Frees(ptr, i, new)
  PROVE  Booked'
<1> SUFFICES ASSUME sound PROVE Book(heap', Ledger')
  BY DEF Booked, Frees
<1> DEFINE E(j) == Entry(runner, j, allocations[runner][j].ptr, allocations[runner][j].size)
           freed == {E(j) : j \in {k \in Allocated(runner) : allocations[runner][k].ptr = ptr}}
           rest == Ledger \ freed
<1>1. Book(heap, Ledger) /\ rest \subseteq Ledger
  BY DEF Booked
<1>2. \A x \in {ptr} \ {NULL} : \E e \in Ledger \ rest : e.first = Block(x)
  <2> SUFFICES ASSUME ptr # NULL PROVE \E e \in Ledger \ rest : e.first = Block(ptr)
    OBVIOUS
  <2>1. i \in Allocated(runner) /\ allocations[runner][i].ptr = ptr
    BY DEF Frees, Allocated
  <2>2. E(i) \in freed /\ E(i) \in Held(runner) /\ E(i).first = Block(ptr)
    BY <2>1 DEF Held, Entry
  <2>3. E(i) \in Ledger
    BY <2>2 DEF Ledger, Frees
  <2> HIDE DEF freed, E
  <2> QED BY <2>2, <2>3
<1>3. Book(kfree(heap, {ptr}), rest)
  <2> HIDE DEF rest
  <2> QED BY <1>1, <1>2, BookFrees
<1>4. \A e \in freed : e.own = runner /\ e.part \in Index
  BY DEF Entry, Allocated
<1>5. ASSUME NEW e \in Ledger'
      PROVE  e \in rest
  <2>1. e = KernelChunk \/ \E q \in alive : e \in Held(q)'
    BY DEF Ledger, Frees, KernelChunk, Entry
  <2>2. CASE e = KernelChunk
    <3>1. KernelChunk.own = 0 /\ runner # 0
      BY Constants DEF KernelChunk, Entry, Frees, Slot
    <3> QED BY <2>2, <3>1, <1>4 DEF Ledger
  <2>3. ASSUME NEW q \in alive, e \in Held(q)', q # runner
        PROVE  e \in rest
    <3>1. e \in Held(q)
      BY <2>3, HeldSame DEF Frees, image, Sane, TypeOK
    <3> QED BY <3>1, <2>3, <1>4, HeldOwn DEF Ledger
  <2>4. ASSUME e \in Held(runner)'
        PROVE  e \in rest
    <3>1. \/ e \in {Entry(runner, -1, memory[runner], file[runner].size),
                    Entry(runner, -2, stack[runner], StackSize),
                    Entry(runner, -3, task[runner], PageSize)}
          \/ \E j \in Allocated(runner)' :
               e = Entry(runner, j, allocations'[runner][j].ptr, allocations'[runner][j].size)
      BY <2>4 DEF Held, Entry, Frees, image
    <3>2. CASE e \in {Entry(runner, -1, memory[runner], file[runner].size),
                      Entry(runner, -2, stack[runner], StackSize),
                      Entry(runner, -3, task[runner], PageSize)}
      <4>1. e.part \notin Index
        BY <3>2, Constants DEF Entry, Index
      <4>2. e \in Held(runner)
        BY <3>2 DEF Held
      <4> QED BY <4>1, <4>2, <1>4 DEF Ledger, Frees
    <3>3. ASSUME NEW j \in Allocated(runner)',
                 e = Entry(runner, j, allocations'[runner][j].ptr, allocations'[runner][j].size)
          PROVE  e \in rest
      <4>1. j \in Index /\ allocations'[runner][j].ptr # NULL
        BY <3>3 DEF Allocated, Frees
      <4>2. /\ allocations'[runner][j] = allocations[runner][j]
            /\ allocations[runner][j].ptr # ptr
        BY <4>1 DEF Frees, Sane, TypeOK, Empty
      <4>3. j \in Allocated(runner) /\ e = E(j) /\ e.part = j
        BY <4>1, <4>2, <3>3 DEF Allocated, Entry
      <4>4. e \in Ledger
        BY <4>3 DEF Ledger, Held, Frees
      <4>5. e \notin freed
        <5>1. ASSUME NEW k \in Allocated(runner), allocations[runner][k].ptr = ptr, e = E(k)
              PROVE  FALSE
          <6>1. e.part = k
            BY <5>1 DEF Entry
          <6> QED BY <6>1, <5>1, <4>2, <4>3
        <5> QED BY <5>1
      <4> QED BY <4>4, <4>5
    <3> QED BY <3>1, <3>2, <3>3
  <2>5. runner' = runner
    BY DEF Frees
  <2> HIDE DEF rest
  <2> QED BY <2>1, <2>2, <2>3, <2>4, <2>5
<1>6. Ledger' \subseteq rest
  BY <1>5
<1> HIDE DEF rest
<1> QED BY <1>3, <1>6, BookShrinks DEF Frees

\* Booked after an exit.
LEMMA TerminateBooked ==
  ASSUME Sane, runner \in alive, NEW tbl, Terminate(tbl),
         NEW all, Book(tbl, all), Ledger \subseteq all
  PROVE  Book(heap', Ledger')
<1>1. PICK p : p = runner
  OBVIOUS
<1> DEFINE rest == {KernelChunk} \cup UNION {Held(q) : q \in alive \ {p}}
           ptrs == {a.ptr : a \in Range(allocations[p])} \cup {memory[p], stack[p], task[p]}
<1>2. p \in alive /\ p \in Slot /\ p # 0
  BY <1>1, Constants DEF Sane, TypeOK, Slot
<1>3. rest \subseteq all
  BY DEF Ledger
<1>4. \A e \in rest : e.own # p
  <2>1. KernelChunk.own # p
    BY <1>2 DEF KernelChunk, Entry
  <2> QED BY <2>1, HeldOwn
<1>5. ASSUME NEW e \in Held(p) PROVE e \in all \ rest
  BY <1>2, <1>4, HeldOwn DEF Ledger
<1>6. ASSUME NEW ptr \in ptrs \ {NULL}
      PROVE  \E e \in Held(p) : e.first = Block(ptr)
  <2>1. CASE ptr \in {memory[p], stack[p], task[p]}
    <3>1. PICK part, size : Entry(p, part, ptr, size) \in Held(p)
      BY <2>1 DEF Held
    <3> QED BY <3>1 DEF Entry
  <2>2. CASE ptr \in {a.ptr : a \in Range(allocations[p])}
    <3>1. PICK i \in Index : ptr = allocations[p][i].ptr
      BY <2>2, <1>2 DEF Range, Sane, TypeOK
    <3>2. i \in Allocated(p)
      BY <3>1, <1>6 DEF Allocated
    <3>3. Entry(p, i, ptr, allocations[p][i].size) \in Held(p)
      BY <3>1, <3>2 DEF Held
    <3> QED BY <3>3 DEF Entry
  <2> QED BY <2>1, <2>2
<1>7. \A ptr \in ptrs \ {NULL} : \E e \in all \ rest : e.first = Block(ptr)
  <2> HIDE DEF ptrs, rest
  <2> QED BY <1>5, <1>6
<1>8. Book(kfree(tbl, ptrs), rest)
  <2> HIDE DEF ptrs, rest
  <2> QED BY <1>3, <1>7, BookFrees
<1>9. heap' = kfree(tbl, ptrs)
  BY <1>1 DEF Terminate
<1>10. Ledger' = rest
  <2>1. ASSUME NEW q \in alive \ {p} PROVE Held(q)' = Held(q)
    BY <2>1, <1>1, HeldSame DEF Terminate, Sane, TypeOK
  <2>2. KernelChunk' = KernelChunk
    BY DEF KernelChunk, Entry
  <2>3. alive' = alive \ {p}
    BY <1>1 DEF Terminate
  <2> QED BY <2>1, <2>2, <2>3 DEF Ledger
<1> HIDE DEF rest, ptrs
<1> QED BY <1>8, <1>9, <1>10

\* Booked after a string was copied.
LEMMA CopyBooked ==
  ASSUME Sane, Booked, runner \in alive, NEW m, NEW s, Copies(m, s),
         CopyEnds(m) \/ Terminate(m.heap)
  PROVE  Booked'
<1> SUFFICES ASSUME sound PROVE Book(heap', Ledger')
  BY DEF Booked, CopyEnds, Terminate
<1>1. s \in Kernel!Blocks /\ Serves(Now, m, s, Blocks(PageSize - 1)) /\ PageSize - 1 \in Address
  BY PageBlocks DEF Copies
<1>2. m.sound
  BY <1>1, PageBlocks DEF Serves, Now
<1>3. /\ Book(m.heap, Ledger \cup {Temporary(m.ptr, PageSize - 1)})
      /\ Book(kfree(m.heap, {m.ptr}), Ledger)
  BY <1>1, <1>2, TemporaryGoes
<1>4. CASE CopyEnds(m)
  <2>1. \A q \in alive : Held(q)' = Held(q)
    BY <1>4, HeldSame DEF CopyEnds, image
  <2>2. Ledger' = Ledger
    BY <1>4, <2>1 DEF CopyEnds, Ledger, KernelChunk, Entry
  <2> QED BY <1>3, <1>4, <2>2 DEF CopyEnds
<1>5. CASE Terminate(m.heap)
  BY <1>3, <1>5, TerminateBooked
<1> QED BY <1>4, <1>5

\* Booked is inductive together with Sane.
LEMMA NextBooked == Sane /\ Booked /\ [Next]_vars => Booked'
<1> SUFFICES ASSUME Sane, Booked, [Next]_vars PROVE Booked'
  OBVIOUS
<1>1. ASSUME NEW f \in Programs, process_load_for_slot(f) PROVE Booked'
  BY <1>1, LoadLoads, LoadBooked
<1>2. CASE task_next \/ UNCHANGED vars
  <2>1. \A q \in alive : Held(q)' = Held(q)
    BY <1>2, HeldSame DEF task_next, vars, image
  <2>2. Ledger' = Ledger
    BY <1>2, <2>1 DEF task_next, vars, Ledger, KernelChunk, Entry
  <2> QED BY <1>2, <2>2 DEF task_next, vars, Booked
<1>3. ASSUME NEW size \in Sizes, process_malloc(size) PROVE Booked'
  BY <1>3, MallocMallocs, MallocBooked
<1>4. ASSUME NEW ptr \in Pointer, process_free(ptr) PROVE Booked'
  BY <1>4, FreeFrees, FreeBooked
<1>5. CASE process_terminate
  <2>1. runner \in alive /\ Terminate(heap)
    BY <1>5, RunnerExists DEF process_terminate
  <2> QED BY <2>1, TerminateBooked DEF Booked, Terminate
<1>6. ASSUME NEW reachable \in BOOLEAN, copy_string_from_task(reachable) PROVE Booked'
  BY <1>6, CopyCopies, CopyBooked
<1> QED BY <1>1, <1>2, <1>3, <1>4, <1>5, <1>6 DEF Next

\* What processes hold stays apart and taken: the memory, the stack, the task
\* and the allocations of every process, and kernel_chunk, are runs of blocks
\* of their own, marked as such in the table of the heap, for as long as the
\* heap gives out free runs.
THEOREM HoldingsAreApart == Spec => []Booked
BY InitSane, NextSane, InitBooked, NextBooked, PTL DEF Spec

-----------------------------------------------------------------------------
(* Where the pieces lie                                                    *)

\* PagesFor is the least number of pages that hold size bytes.
LEMMA BytesInPages ==
  ASSUME NEW size \in Nat
  PROVE  /\ size <= PagesFor(size) * PageSize
         /\ \A n \in Nat : PagesFor(size) <= n => size <= n * PageSize
<1>1. PICK v, r, w : v = PageOf(size) /\ r = size % PageSize /\ w = PagesFor(size)
  OBVIOUS
<1>2. /\ v \in Nat /\ r \in 0 .. PageSize - 1 /\ size = v * PageSize + r
      /\ w = IF r = 0 THEN v ELSE v + 1
  BY <1>1, Split, PagesForSize
<1>3. PageSize \in Nat /\ v * PageSize \in Nat /\ (v + 1) * PageSize = v * PageSize + PageSize
  BY <1>2, Constants
<1>4. size <= w * PageSize
  BY <1>2, <1>3
<1>5. ASSUME NEW n \in Nat, w <= n PROVE size <= n * PageSize
  <2>1. w * PageSize <= n * PageSize /\ w * PageSize \in Nat /\ n * PageSize \in Nat
    BY <1>2, <1>3, <1>5
  <2> QED BY <2>1, <1>4
<1> QED BY <1>1, <1>4, <1>5

\* A range that neither starts at page 0 nor wraps is mapped completely.
LEMMA Whole ==
  ASSUME NEW k \in Page, k # 0, NEW c, NEW size \in Nat, k + PagesFor(size) <= Pages,
         Fewer(k, c, size)
  PROVE  c = PagesFor(size)
<1>1. k \in Nat /\ PageSize \in Nat /\ Pages \in Nat /\ k * PageSize \in Nat
  BY PageType, Constants
<1>2. k * PageSize + size \in Nat /\ PagesFor(k * PageSize + size) = k + PagesFor(size)
  BY <1>1, BytesFromPage
<1>3. PICK x : x = k * PageSize + size
  OBVIOUS
<1>4. x <= Pages * PageSize
  BY <1>1, <1>2, <1>3, BytesInPages
<1>5. x \in Nat /\ Pages * PageSize \in Nat
  BY <1>1, <1>2, <1>3
<1>6. ~ (x > Pages * PageSize)
  BY <1>4, <1>5
<1> QED BY <1>3, <1>6 DEF Fewer

\* A piece of memory that a ledger lists.
Piece(tbl, ledger, own, part, ptr, size) ==
  /\ Book(tbl, ledger) /\ Entry(own, part, ptr, size) \in ledger
  /\ ptr \in Pointer /\ ptr # NULL /\ size \in Address

\* Where a piece that is booked lies in the address space.
LEMMA Place ==
  ASSUME NEW tbl, NEW ledger, NEW own, NEW part, NEW ptr, NEW size,
         Piece(tbl, ledger, own, part, ptr, size)
  PROVE  /\ PagesFor(size) \in Nat \ {0} /\ PageOf(ptr) \in Page /\ PageOf(ptr) >= HeapPage
         /\ PageOf(ptr) + PagesFor(size) <= HeapPage + HeapBlocks
         /\ \A v \in Extent(ptr, size) :
              v \in Page /\ v \in Nat /\ v - HeapPage \in Run(Entry(own, part, ptr, size))
         /\ \A c : Fewer(PageOf(ptr), c, size) => c = PagesFor(size)
<1>0. /\ Book(tbl, ledger) /\ Entry(own, part, ptr, size) \in ledger
      /\ ptr \in Pointer /\ ptr # NULL /\ size \in Address
  BY DEF Piece
<1>1. PICK e, s, n : e = Entry(own, part, ptr, size) /\ s = Block(ptr) /\ n = PagesFor(size)
  OBVIOUS
<1>2. e.first = s /\ e.blocks = Blocks(size)
  BY <1>1 DEF Entry
<1>3. n \in Nat /\ size \in Nat
  BY <1>0, <1>1, PagesForSize, Constants DEF Address
<1>4. e.blocks = n /\ n \in Nat \ {0}
  <2>1. e.blocks \in Nat \ {0}
    BY <1>0, <1>1 DEF Book
  <2> QED BY <2>1, <1>0, <1>1, <1>2, <1>3, BlocksOfSize DEF Blocks
<1>5. s \in Kernel!Blocks /\ PageOf(ptr) = HeapPage + s /\ HeapPage + s \in Page
  BY <1>0, <1>1, BlockOfPointer, PointerOfBlock
<1>6. s \in Nat /\ HeapPage \in Nat \ {0} /\ HeapBlocks \in Nat /\ Pages \in Nat
      /\ HeapPage + HeapBlocks <= Pages
  BY <1>5, BlockType, Constants
<1>7. Run(e) = s .. s + n - 1 /\ Run(e) \subseteq Kernel!Blocks
  BY <1>0, <1>1, <1>2, <1>4 DEF Run, Book
<1>8. s + n <= HeapBlocks
  <2>1. s + n - 1 \in Run(e)
    BY <1>4, <1>6, <1>7
  <2>2. s + n - 1 < HeapBlocks
    BY <2>1, <1>7, BlockType
  <2> QED BY <2>2, <1>4, <1>6
<1>9. ASSUME NEW v \in Extent(ptr, size)
      PROVE  v \in Page /\ v \in Nat /\ v - HeapPage \in Run(e)
  <2>1. v \in HeapPage + s .. HeapPage + s + n - 1
    BY <1>1, <1>5 DEF Extent
  <2> QED BY <2>1, <1>4, <1>6, <1>7, <1>8 DEF Page
<1>10. ASSUME NEW c, Fewer(PageOf(ptr), c, size) PROVE c = n
  <2>1. HeapPage + s # 0 /\ HeapPage + s + n <= Pages
    BY <1>4, <1>6, <1>8
  <2> QED BY <2>1, <1>1, <1>3, <1>5, <1>10, Whole
<1> QED BY <1>1, <1>4, <1>5, <1>6, <1>8, <1>9, <1>10

\* Two pieces have no page in common.
LEMMA Apart ==
  ASSUME NEW tbl, NEW ledger,
         NEW own1, NEW part1, NEW ptr1, NEW size1, Piece(tbl, ledger, own1, part1, ptr1, size1),
         NEW own2, NEW part2, NEW ptr2, NEW size2, Piece(tbl, ledger, own2, part2, ptr2, size2),
         own1 # own2 \/ part1 # part2
  PROVE  Extent(ptr1, size1) \cap Extent(ptr2, size2) = {}
<1>1. PICK e1, e2 : e1 = Entry(own1, part1, ptr1, size1) /\ e2 = Entry(own2, part2, ptr2, size2)
  OBVIOUS
<1>2. e1 # e2
  BY <1>1 DEF Entry
<1>3. Run(e1) \cap Run(e2) = {}
  BY <1>1, <1>2 DEF Book, Piece
<1>4. \A v \in Extent(ptr1, size1) : v - HeapPage \in Run(e1)
  BY <1>1, Place
<1>5. \A v \in Extent(ptr2, size2) : v - HeapPage \in Run(e2)
  BY <1>1, Place
<1> QED BY <1>3, <1>4, <1>5

\* The frames of the properties are an interval of pages.
LEMMA FramesOf ==
  ASSUME NEW ptr \in Pointer, NEW size \in Nat
  PROVE  Frames(ptr, size) = Extent(ptr, size)
<1>1. PageOf(ptr) \in Nat /\ ptr = PageOf(ptr) * PageSize
  BY Slices, PageType
<1> QED BY <1>1, BytesFromPage DEF Extent

\* The entries of the ledger.
LEMMA Entries ==
  ASSUME Sane
  PROVE  /\ KernelChunk \in Ledger
         /\ \A p \in alive :
              /\ p \in Slot /\ p # 0 /\ file[p] \in Programs /\ file[p].size \in Address
              /\ memory[p] \in Pointer /\ memory[p] # NULL
              /\ stack[p] \in Pointer /\ stack[p] # NULL
              /\ task[p] \in Pointer /\ task[p] # NULL
              /\ Entry(p, -1, memory[p], file[p].size) \in Ledger
              /\ Entry(p, -2, stack[p], StackSize) \in Ledger
              /\ Entry(p, -3, task[p], PageSize) \in Ledger
              /\ \A i \in Allocated(p) :
                   /\ i \in Index /\ i \in Nat
                   /\ allocations[p][i].ptr \in Pointer /\ allocations[p][i].ptr # NULL
                   /\ allocations[p][i].size \in Address
                   /\ Entry(p, i, allocations[p][i].ptr, allocations[p][i].size) \in Ledger
<1>1. KernelChunk \in Ledger
  BY DEF Ledger
<1>2. ASSUME NEW p \in alive
      PROVE  /\ p \in Slot /\ p # 0 /\ file[p] \in Programs /\ file[p].size \in Address
             /\ memory[p] \in Pointer /\ memory[p] # NULL
             /\ stack[p] \in Pointer /\ stack[p] # NULL
             /\ task[p] \in Pointer /\ task[p] # NULL
  <2>1. p \in Slot /\ p # 0
    BY Constants DEF Sane, TypeOK, Slot
  <2>2. file[p] \in Programs /\ memory[p] # NULL /\ stack[p] # NULL /\ task[p] # NULL
    BY DEF Sane, Shape
  <2>3. file[p].size \in Address
    BY <2>2, Headers
  <2>4. memory[p] \in Pointer /\ stack[p] \in Pointer /\ task[p] \in Pointer
    BY <2>1 DEF Sane, TypeOK
  <2> QED BY <2>1, <2>2, <2>3, <2>4
<1>3. ASSUME NEW p \in alive
      PROVE  /\ Entry(p, -1, memory[p], file[p].size) \in Ledger
             /\ Entry(p, -2, stack[p], StackSize) \in Ledger
             /\ Entry(p, -3, task[p], PageSize) \in Ledger
  BY DEF Ledger, Held
<1>4. ASSUME NEW p \in alive, NEW i \in Allocated(p)
      PROVE  /\ i \in Index /\ i \in Nat
             /\ allocations[p][i].ptr \in Pointer /\ allocations[p][i].ptr # NULL
             /\ allocations[p][i].size \in Address
             /\ Entry(p, i, allocations[p][i].ptr, allocations[p][i].size) \in Ledger
  <2>1. i \in Index /\ i \in Nat /\ allocations[p][i].ptr # NULL
    BY Constants DEF Allocated, Index
  <2>2. allocations[p][i].ptr \in Pointer /\ allocations[p][i].size \in Address
    BY <2>1, <1>2, AllocationType
  <2>3. Entry(p, i, allocations[p][i].ptr, allocations[p][i].size) \in Ledger
    BY DEF Ledger, Held
  <2> QED BY <2>1, <2>2, <2>3
<1> QED BY <1>1, <1>2, <1>3, <1>4

-----------------------------------------------------------------------------
(* What mapping does to a page                                             *)

\* How far page v is behind page a.
Away(v, a) == (v - a) % Pages

\* What mapping c pages from a does to page v.
MapsAt(dir, a, k, c, flags, v) ==
  /\ Away(v, a) \in Page /\ Away(v, a) \in Nat
  /\ MapPages(dir, a, k, c, flags)[v] =
       IF Away(v, a) < c THEN [frame |-> k + Away(v, a), flags |-> flags] ELSE dir[v]
  /\ a + c <= Pages =>
       /\ Away(v, a) < c <=> v \in a .. a + c - 1
       /\ v \in a .. a + c - 1 => Away(v, a) = v - a

\* MapPages does it to every page.
LEMMA MapPagesAt ==
  ASSUME NEW dir, NEW a \in Page, NEW k, NEW c \in Nat, NEW flags, NEW v \in Page
  PROVE  MapsAt(dir, a, k, c, flags, v)
<1>1. /\ (v - a) % Pages = IF v < a THEN v - a + Pages ELSE v - a
      /\ (v - a) % Pages \in Page
  BY Distance
<1>2. /\ v \in Nat /\ a \in Nat /\ v < Pages /\ Pages \in Nat
      /\ (v - a) % Pages \in Nat
  BY <1>1, PageType, Constants
<1>3. PICK i : i = (v - a) % Pages
  OBVIOUS
<1>4. a + c <= Pages => /\ i < c <=> v \in a .. a + c - 1
                        /\ v \in a .. a + c - 1 => i = v - a
  BY <1>1, <1>2, <1>3
<1> QED BY <1>1, <1>2, <1>3, <1>4 DEF MapPages, Away, MapsAt

\* Mapping a piece to its own address, as malloc and free do.
MapsToItself(dir, new, ptr, size, flags, v) ==
  new[v] = IF v \in Extent(ptr, size) THEN [frame |-> v, flags |-> flags] ELSE dir[v]

\* A piece that is mapped to itself changes its own pages and no others.
LEMMA IdentityMaps ==
  ASSUME NEW dir, NEW new, NEW tbl, NEW ledger, NEW own, NEW part, NEW ptr, NEW size,
         Piece(tbl, ledger, own, part, ptr, size), NEW flags,
         FrameMaps(dir, new, PageOf(ptr), ptr, size, flags), NEW v \in Page
  PROVE  MapsToItself(dir, new, ptr, size, flags, v)
<1>1. PICK k, n : k = PageOf(ptr) /\ n = PagesFor(size)
  OBVIOUS
<1>2. /\ n \in Nat /\ k \in Page /\ k + n <= HeapPage + HeapBlocks
      /\ \A c : Fewer(k, c, size) => c = n
  BY <1>1, Place
<1>3. new = MapPages(dir, k, k, n, flags)
  BY <1>1, <1>2 DEF FrameMaps
<1>4. k + n <= Pages /\ k \in Nat /\ v \in Nat
  BY <1>2, PageType, Constants
<1>5. PICK i : i = Away(v, k)
  OBVIOUS
<1>6. /\ new[v] = IF i < n THEN [frame |-> k + i, flags |-> flags] ELSE dir[v]
      /\ i < n <=> v \in k .. k + n - 1
      /\ v \in k .. k + n - 1 => i = v - k
  <2>1. MapsAt(dir, k, k, n, flags, v)
    BY <1>2, MapPagesAt
  <2> QED BY <2>1, <1>3, <1>4, <1>5 DEF MapsAt
<1>7. v \in k .. k + n - 1 => k + i = v
  BY <1>4, <1>6
<1> QED BY <1>1, <1>6, <1>7 DEF Extent, MapsToItself

\* The stack of a new process.
MapsStack(dir, new, ptr, v) ==
  LET i == Away(v, StackPage) IN
  /\ i \in Nat
  /\ new[v] = IF i < PagesFor(StackSize)
                THEN [frame |-> PageOf(ptr) + i, flags |-> Writable] ELSE dir[v]
  /\ i < PagesFor(StackSize) => PageOf(ptr) + i \in Extent(ptr, StackSize)

\* So does the stack, at the address it is linked to.
LEMMA StackMaps ==
  ASSUME NEW dir, NEW new, NEW tbl, NEW ledger, NEW own, NEW part, NEW ptr,
         Piece(tbl, ledger, own, part, ptr, StackSize), StackPage \in Page,
         FrameMaps(dir, new, StackPage, ptr, StackSize, Writable), NEW v \in Page
  PROVE  MapsStack(dir, new, ptr, v)
<1>1. PICK k, n, i : k = PageOf(ptr) /\ n = PagesFor(StackSize) /\ i = Away(v, StackPage)
  OBVIOUS
<1>2. n \in Nat /\ k \in Nat /\ \A c : Fewer(k, c, StackSize) => c = n
  <2>1. /\ PagesFor(StackSize) \in Nat \ {0} /\ PageOf(ptr) \in Page
        /\ \A c : Fewer(PageOf(ptr), c, StackSize) => c = PagesFor(StackSize)
    BY Place
  <2> QED BY <2>1, <1>1, PageType
<1>3. new = MapPages(dir, StackPage, k, n, Writable)
  BY <1>1, <1>2 DEF FrameMaps
<1>4. /\ new[v] = IF i < n THEN [frame |-> k + i, flags |-> Writable] ELSE dir[v]
      /\ i \in Nat
  <2>1. MapsAt(dir, StackPage, k, n, Writable, v)
    BY <1>2, MapPagesAt
  <2> QED BY <2>1, <1>1, <1>3 DEF MapsAt
<1>5. i < n => k + i \in k .. k + n - 1
  BY <1>2, <1>4
<1> QED BY <1>1, <1>4, <1>5 DEF Extent, MapsStack

\* Where a segment lies in memory when the image does not reach the end of the
\* address space: at its offset, or nowhere.
LEMMA PhysPlace ==
  ASSUME NEW mem \in Pointer, NEW phdr, phdr.offset \in Address, phdr.memsz \in Address,
         PageOf(mem) + PagesFor(phdr.offset + phdr.memsz) <= Pages
  PROVE  \/ PagesFor(Size(mem, phdr)) = 0 /\ phdr.memsz = 0
         \/ /\ elf_phdr_phys_address(mem, phdr) = mem + phdr.offset
            /\ PageOf(elf_phdr_phys_address(mem, phdr)) = PageOf(mem) + PageOf(phdr.offset)
            /\ Size(mem, phdr) = (phdr.offset % PageSize) + phdr.memsz
            /\ PagesFor(phdr.offset + phdr.memsz) = PageOf(phdr.offset) + PagesFor(Size(mem, phdr))
<1>1. PICK M, off, sz, d : /\ M = PageOf(mem) /\ off = phdr.offset /\ sz = phdr.memsz
                           /\ d = Pages * PageSize
  OBVIOUS
<1>2. /\ M \in Nat /\ mem = M * PageSize /\ mem \in Nat /\ mem < d
      /\ off \in Nat /\ sz \in Nat /\ off < d /\ d \in Nat /\ Pages \in Nat
  BY <1>1, Slices, PageType, PointerType, Constants DEF Address
<1>3. mem + (off + sz) \in Nat /\ PagesFor(mem + (off + sz)) = M + PagesFor(off + sz)
  <2>1. PICK z : z = off + sz
    OBVIOUS
  <2>2. z \in Nat
    BY <2>1, <1>2
  <2>3. mem + z \in Nat /\ PagesFor(mem + z) = M + PagesFor(z)
    BY <2>2, <1>2, BytesFromPage
  <2> QED BY <2>1, <2>3
<1>4. mem + (off + sz) <= d
  BY <1>1, <1>2, <1>3, BytesInPages
<1>5. Wrap(mem + off) = IF mem + off < d THEN mem + off ELSE mem + off - d
  <2>1. PICK x : x = mem + off
    OBVIOUS
  <2>2. x \in Nat /\ x < 2 * (Pages * PageSize)
    BY <2>1, <1>1, <1>2
  <2>3. Wrap(x) = IF x < Pages * PageSize THEN x ELSE x - (Pages * PageSize)
    BY <2>2, WrapNear
  <2>4. Wrap(x) = IF x < d THEN x ELSE x - d
    BY <2>3, <1>1
  <2> QED BY <2>1, <2>2, <2>4, <1>2
<1>6. CASE mem + off < d
  <2>1. elf_phdr_phys_address(mem, phdr) = mem + off
    BY <1>1, <1>5, <1>6 DEF elf_phdr_phys_address
  <2>2. PageOf(mem + off) = M + PageOf(off) /\ (mem + off) % PageSize = off % PageSize
    <3>1. mem = M * PageSize /\ M \in Nat /\ off \in Nat
      BY <1>2
    <3> QED BY <3>1, BytesFromPage
  <2>3. Size(mem, phdr) = (off % PageSize) + sz
    BY <1>1, <2>1, <2>2 DEF Size
  <2>4. PagesFor(off + sz) = PageOf(off) + PagesFor((off % PageSize) + sz)
    <3>1. PICK v, r : v = PageOf(off) /\ r = off % PageSize
      OBVIOUS
    <3>2. v \in Nat /\ r \in 0 .. PageSize - 1 /\ off = v * PageSize + r
      BY <1>2, <3>1, Split
    <3>3. r + sz \in Nat /\ v * PageSize \in Nat /\ off + sz = v * PageSize + (r + sz)
      BY <1>2, <3>2, Constants
    <3>4. PagesFor(v * PageSize + (r + sz)) = v + PagesFor(r + sz)
      BY <3>2, <3>3, BytesFromPage
    <3> QED BY <3>1, <3>3, <3>4
  <2> QED BY <1>1, <2>1, <2>2, <2>3, <2>4
<1>7. CASE mem + off >= d
  <2>1. mem + off = d /\ sz = 0
    BY <1>2, <1>4, <1>7
  <2>2. elf_phdr_phys_address(mem, phdr) = 0
    BY <2>1, <1>1, <1>2, <1>5 DEF elf_phdr_phys_address
  <2>3. 0 % PageSize = 0
    <3>1. 0 * PageSize + 0 = 0 /\ 0 \in 0 .. PageSize - 1 /\ 0 \in Nat
      BY Constants
    <3> QED BY <3>1, PageAndOffset
  <2>4. Size(mem, phdr) = 0
    BY <2>1, <2>2, <2>3, <1>1 DEF Size
  <2> QED BY <2>1, <2>4, <1>1, BytesFromNothing
<1> QED BY <1>2, <1>6, <1>7

-----------------------------------------------------------------------------
(* What a process can write to is its own                                  *)

\* Whatever order its headers are in, an image with room for its segments makes
\* only its own frames writable.
LEMMA ImageIsOwn ==
  ASSUME NEW mem \in Pointer, NEW f \in Programs, Covered(f),
         PageOf(mem) + PagesFor(f.size) <= Pages,
         process_map_elf(paging_new_4gb(User), mem, f).res >= 0, NEW w \in Page,
         "WRITEABLE" \in process_map_elf(paging_new_4gb(User), mem, f).dir[w].flags
  PROVE  process_map_elf(paging_new_4gb(User), mem, f).dir[w].frame \in Extent(mem, f.size)
<1> DEFINE Own(d) == \A v \in Page :
             "WRITEABLE" \in d[v].flags => d[v].frame \in Extent(mem, f.size)
           G == {x \in (0 .. Len(f.headers)) \X Directory : Own(x[2])}
           first == paging_new_4gb(User)
<1>0. Len(f.headers) \in Nat /\ f.size \in Nat /\ PagesFor(f.size) \in Nat
      /\ PageOf(mem) \in Nat /\ Pages \in Nat
  <2>1. PICK size : size = f.size
    OBVIOUS
  <2>2. Len(f.headers) \in Nat /\ size \in Nat
    BY <2>1, Headers, Constants DEF Address
  <2>3. PagesFor(size) \in Nat
    BY <2>2, PagesForSize
  <2> QED BY <2>1, <2>2, <2>3, Slices, PageType, Constants
<1>1. first \in Directory
  BY NewDirectory, FlagsType
<1>2. <<0, first>> \in G
  <2>1. Own(first)
    BY DEF paging_new_4gb, User
  <2> QED BY <2>1, <1>0, <1>1
<1>3. ASSUME NEW i \in 1 .. Len(f.headers), NEW d \in Directory, NEW new \in Directory,
             <<i - 1, d>> \in G, HeaderMaps(d, new, mem, f.headers[i])
      PROVE  <<i, new>> \in G
  <2>1. PICK phdr, phys, k, n, a : /\ phdr = f.headers[i]
                                   /\ phys = elf_phdr_phys_address(mem, phdr)
                                   /\ k = PageOf(phys) /\ n = PagesFor(Size(mem, phdr))
                                   /\ a = PageOf(phdr.vaddr)
    OBVIOUS
  <2>2. PICK c \in 0 .. n : new = MapPages(d, a, k, c, SegmentFlags(phdr))
    BY <1>3, <2>1 DEF HeaderMaps
  <2>3. /\ phdr.vaddr \in Address /\ phdr.offset \in Address /\ phdr.memsz \in Address
        /\ phdr \in Range(f.headers)
    BY <2>1, Headers
  <2>4. a \in Page
    <3>1. PICK virt : virt = phdr.vaddr
      OBVIOUS
    <3>2. virt \in Nat /\ virt \in Address
      BY <3>1, <2>3, Constants DEF Address
    <3>3. PageOf(virt) \in Nat /\ PageOf(virt) < Pages
      BY <3>2, Split
    <3> QED BY <3>1, <3>3, <2>1, Constants DEF Page
  <2>5. PagesFor(phdr.offset + phdr.memsz) <= PagesFor(f.size)
    BY <2>3 DEF Covered
  <2>6. PICK t : t = PagesFor(phdr.offset + phdr.memsz)
    OBVIOUS
  <2>7. t \in Nat
    <3>1. phdr.offset + phdr.memsz \in Nat
      BY <2>3, Constants DEF Address
    <3> QED BY <3>1, <2>6, PagesForSize
  <2>8. PageOf(mem) + t <= Pages /\ t <= PagesFor(f.size)
    BY <2>5, <2>6, <2>7, <1>0
  <2>9. n = 0 \/ (k = PageOf(mem) + PageOf(phdr.offset) /\ t = PageOf(phdr.offset) + n)
    <3>1. PageOf(mem) + PagesFor(phdr.offset + phdr.memsz) <= Pages
      BY <2>6, <2>8
    <3> QED BY <3>1, <2>1, <2>3, <2>6, PhysPlace
  <2>10. PageOf(phdr.offset) \in Nat /\ n \in Nat
    <3>1. PICK off : off = phdr.offset
      OBVIOUS
    <3>2. off \in Nat
      BY <3>1, <2>3, Constants DEF Address
    <3>3. phys \in Nat
      BY <2>1, <2>3, PhysType, Constants DEF Address
    <3>4. phys % PageSize \in Nat
      BY <3>3, Split
    <3>5. Size(mem, phdr) \in Nat
      BY <3>4, <2>1, <2>3, Constants DEF Size, Address
    <3> QED BY <3>1, <3>2, <3>5, <2>1, Split, PagesForSize
  <2>11. ASSUME NEW v \in Page, "WRITEABLE" \in new[v].flags
         PROVE  new[v].frame \in Extent(mem, f.size)
    <3>1. PICK j : j = Away(v, a)
      OBVIOUS
    <3>2. /\ j \in Nat
          /\ new[v] = IF j < c THEN [frame |-> k + j, flags |-> SegmentFlags(phdr)] ELSE d[v]
      <4>1. c \in Nat
        BY <2>10
      <4>2. MapsAt(d, a, k, c, SegmentFlags(phdr), v)
        BY <4>1, <2>4, MapPagesAt
      <4> QED BY <4>2, <3>1, <2>2 DEF MapsAt
    <3>3. CASE j < c
      <4>1. n # 0 /\ j < n
        BY <3>2, <3>3, <2>10
      <4>2. k + j >= PageOf(mem) /\ k + j < PageOf(mem) + t /\ k + j \in Nat
        BY <4>1, <3>2, <2>9, <2>10, <1>0
      <4>3. k + j \in PageOf(mem) .. PageOf(mem) + PagesFor(f.size) - 1
        BY <4>2, <2>7, <2>8, <1>0
      <4> QED BY <4>3, <3>2, <3>3 DEF Extent
    <3>4. CASE ~ (j < c)
      BY <3>2, <3>4, <2>11, <1>3
    <3> QED BY <3>3, <3>4
  <2> QED BY <2>11, <1>0, <1>3
<1>4. \A i \in 1 .. Len(f.headers) : \A d \in Directory : \A new \in Directory :
        <<i - 1, d>> \in G /\ HeaderMaps(d, new, mem, f.headers[i]) => <<i, new>> \in G
  BY <1>3
<1>5. PICK m : m = process_map_elf(first, mem, f)
  OBVIOUS
<1>6. \/ m.res = -EINVARG
      \/ m.res = 0 /\ m.dir \in Directory /\ <<Len(f.headers), m.dir>> \in G
  <2> HIDE DEF G, first
  <2> QED BY <1>1, <1>2, <1>4, <1>5, MapElfInduction
<1>7. <<Len(f.headers), m.dir>> \in G
  BY <1>5, <1>6 DEF EINVARG
<1> QED BY <1>5, <1>7

\* What a process was given depends on nothing but its own variables.
LEMMA GivenSame ==
  ASSUME NEW q, file'[q] = file[q], memory'[q] = memory[q], stack'[q] = stack[q],
         allocations'[q] = allocations[q], NEW v, NEW frame
  PROVE  Given(q, v, frame)' = Given(q, v, frame)
BY DEF Given, Allocated

\* The directory of one process only maps what is given to it.
WritesGiven(p) ==
  Covered(file[p]) => \A v \in Page :
    "WRITEABLE" \in directory[p][v].flags => Given(p, v, directory[p][v].frame)

\* A process that a step leaves alone writes where it wrote before.
LEMMA WritesSame ==
  ASSUME NEW q, WritesGiven(q), file'[q] = file[q], memory'[q] = memory[q],
         stack'[q] = stack[q], allocations'[q] = allocations[q], directory'[q] = directory[q]
  PROVE  WritesGiven(q)'
BY GivenSame DEF WritesGiven

\* WritesOwn after a load.
LEMMA LoadWrites ==
  ASSUME Sane, Booked, WritesOwn, NEW f \in Programs, NEW p, NEW m, NEW s, NEW new,
         Loads(f, p, m, s, new)
  PROVE  WritesOwn'
<1> SUFFICES ASSUME sound', NEW q \in alive' PROVE WritesGiven(q)'
  BY DEF WritesOwn, WritesGiven
<1>1. sound /\ Book(heap', Ledger \cup Taken(p, m, f))
  BY LoadTakes
<1>2. CASE q # p
  <2>1. q \in alive /\ WritesGiven(q)
    BY <1>1, <1>2 DEF Loads, WritesOwn, WritesGiven
  <2> QED BY <2>1, <1>2, WritesSame DEF Loads, Sane, TypeOK
<1>3. CASE q = p
  <2>1. /\ file'[p] = f /\ memory'[p] = m[1].ptr /\ stack'[p] = m[2].ptr
        /\ directory'[p] = new
    BY DEF Loads, Sane, TypeOK
  <2>2. /\ m[1].ptr \in Pointer /\ m[1].ptr # NULL
        /\ m[2].ptr \in Pointer /\ m[2].ptr # NULL
    BY ServedPointer DEF Loads
  <2>3. PICK elf : elf = process_map_elf(paging_new_4gb(User), m[1].ptr, f)
    OBVIOUS
  <2>4. /\ elf.res >= 0 /\ elf.dir \in Directory /\ StackPage \in Page
        /\ FrameMaps(elf.dir, new, StackPage, m[2].ptr, StackSize, Writable)
    <3>1. paging_new_4gb(User) \in Directory
      BY NewDirectory, FlagsType
    <3>2. /\ process_map_memory(paging_new_4gb(User), m[1].ptr, m[2].ptr, f).res >= 0
          /\ new = process_map_memory(paging_new_4gb(User), m[1].ptr, m[2].ptr, f).dir
      BY DEF Loads
    <3> QED BY <3>1, <3>2, <2>2, <2>3, MapMemory
  <2>5. PageOf(m[1].ptr) + PagesFor(f.size) <= Pages
    <3>1. Entry(p, -1, m[1].ptr, f.size) \in Ledger \cup Taken(p, m, f)
      BY DEF Taken
    <3>2. f.size \in Address
      BY Headers
    <3>3. PICK tbl, ledger, ptr, size : /\ tbl = heap' /\ ledger = Ledger \cup Taken(p, m, f)
                                        /\ ptr = m[1].ptr /\ size = f.size
      OBVIOUS
    <3>4. Piece(tbl, ledger, p, -1, ptr, size)
      BY <3>1, <3>2, <3>3, <1>1, <2>2 DEF Piece
    <3>5. /\ PageOf(ptr) + PagesFor(size) <= HeapPage + HeapBlocks
          /\ PageOf(ptr) \in Page /\ PagesFor(size) \in Nat
      BY <3>4, Place
    <3>6. PageOf(ptr) + PagesFor(size) <= Pages
      BY <3>5, PageType, Constants
    <3> QED BY <3>3, <3>6
  <2>6. ASSUME Covered(f), NEW v \in Page, "WRITEABLE" \in new[v].flags
        PROVE  new[v].frame \in Extent(m[1].ptr, f.size) \cup Extent(m[2].ptr, StackSize)
    <3>1. PICK i : i = Away(v, StackPage)
      OBVIOUS
    <3>2. Entry(p, -2, m[2].ptr, StackSize) \in Ledger \cup Taken(p, m, f)
      BY DEF Taken
    <3>3. /\ new[v] = IF i < PagesFor(StackSize)
                        THEN [frame |-> PageOf(m[2].ptr) + i, flags |-> Writable] ELSE elf.dir[v]
          /\ i < PagesFor(StackSize) => PageOf(m[2].ptr) + i \in Extent(m[2].ptr, StackSize)
      <4>1. PICK tbl, ledger, ptr, dir : /\ tbl = heap' /\ ledger = Ledger \cup Taken(p, m, f)
                                         /\ ptr = m[2].ptr /\ dir = elf.dir
        OBVIOUS
      <4>2. /\ Piece(tbl, ledger, p, -2, ptr, StackSize) /\ StackPage \in Page
            /\ FrameMaps(dir, new, StackPage, ptr, StackSize, Writable)
        BY <1>1, <2>2, <2>4, <3>2, <4>1, AddressSpacesAssumption DEF Piece
      <4>3. MapsStack(dir, new, ptr, v)
        BY <4>2, StackMaps
      <4> QED BY <3>1, <4>1, <4>3 DEF MapsStack
    <3>4. CASE i < PagesFor(StackSize)
      BY <3>3, <3>4
    <3>5. CASE ~ (i < PagesFor(StackSize))
      <4>1. new[v] = elf.dir[v]
        BY <3>3, <3>5
      <4> QED BY <4>1, <2>2, <2>3, <2>4, <2>5, <2>6, ImageIsOwn
    <3> QED BY <3>4, <3>5
  <2> QED BY <1>3, <2>1, <2>6 DEF WritesGiven, Given
<1> QED BY <1>2, <1>3

\* WritesOwn after malloc.
LEMMA MallocWrites ==
  ASSUME Sane, Booked, WritesOwn, NEW size \in Sizes, NEW m, NEW s, Mallocs(size, m, s),
         MallocFails(m) \/ \E i, new : MallocMaps(size, m, i, new)
  PROVE  WritesOwn'
<1> SUFFICES ASSUME sound', NEW q \in alive' PROVE WritesGiven(q)'
  BY DEF WritesOwn, WritesGiven
<1>1. sound /\ q \in alive /\ WritesGiven(q)
  BY MallocTakes DEF Mallocs, WritesOwn, WritesGiven
<1>2. CASE MallocFails(m)
  BY <1>1, <1>2, WritesSame DEF MallocFails, Mallocs, image
<1>3. ASSUME NEW i, NEW new, MallocMaps(size, m, i, new)
      PROVE  WritesGiven(q)'
  <2>1. CASE q # runner
    BY <1>1, <1>3, <2>1, WritesSame DEF MallocMaps, Mallocs, image, Sane, TypeOK
  <2>2. CASE q = runner
    <3>1. Book(m.heap, Ledger \cup {Entry(runner, i, m.ptr, size)})
      BY MallocTakes
    <3>2. m.ptr \in Pointer /\ m.ptr # NULL /\ size \in Address
      BY ServedPointer, AddressSpacesAssumption DEF Mallocs
    <3>3. /\ file'[q] = file[q] /\ memory'[q] = memory[q] /\ stack'[q] = stack[q]
          /\ directory'[q] = new
          /\ \A j \in Index : allocations'[q][j] =
               IF j = i THEN [ptr |-> m.ptr, size |-> size] ELSE allocations[q][j]
      BY <1>3, <2>2 DEF MallocMaps, Mallocs, image, Sane, TypeOK
    <3>4. i \in Index /\ i \notin Allocated(q)
      BY <1>3, <2>2 DEF MallocMaps, Allocated, Empty
    <3>5. ASSUME Covered(file[q]), NEW v \in Page, "WRITEABLE" \in new[v].flags
          PROVE  Given(q, v, new[v].frame)'
      <4>1. new[v] = IF v \in Extent(m.ptr, size) THEN [frame |-> v, flags |-> Writable]
                                                  ELSE directory[q][v]
        <5>1. FrameMaps(directory[q], new, PageOf(m.ptr), m.ptr, size, Writable)
          BY <1>3, <2>2 DEF MallocMaps
        <5>2. PICK tbl, ledger, ptr, dir :
                 /\ tbl = m.heap /\ ledger = Ledger \cup {Entry(runner, i, m.ptr, size)}
                 /\ ptr = m.ptr /\ dir = directory[q]
          OBVIOUS
        <5>3. /\ Piece(tbl, ledger, runner, i, ptr, size)
              /\ FrameMaps(dir, new, PageOf(ptr), ptr, size, Writable)
          BY <5>1, <5>2, <3>1, <3>2 DEF Piece
        <5>4. MapsToItself(dir, new, ptr, size, Writable, v)
          BY <5>3, IdentityMaps
        <5> QED BY <5>2, <5>4 DEF MapsToItself
      <4>2. CASE v \in Extent(m.ptr, size)
        <5>1. i \in Allocated(q)' /\ v \in Extent(allocations'[q][i].ptr, allocations'[q][i].size)
          BY <4>2, <3>2, <3>3, <3>4 DEF Allocated
        <5>2. new[v].frame = v
          BY <4>1, <4>2
        <5> QED BY <5>1, <5>2 DEF Given
      <4>3. CASE v \notin Extent(m.ptr, size)
        <5>1. new[v] = directory[q][v] /\ Given(q, v, new[v].frame)
          BY <4>1, <4>3, <3>5, <1>1 DEF WritesGiven
        <5>2. \A j \in Allocated(q) : j \in Allocated(q)' /\ allocations'[q][j] = allocations[q][j]
          BY <3>3, <3>4 DEF Allocated
        <5> QED BY <5>1, <5>2, <3>3 DEF Given
      <4> QED BY <4>2, <4>3
    <3> QED BY <3>3, <3>5 DEF WritesGiven
  <2> QED BY <2>1, <2>2
<1> QED BY <1>2, <1>3

\* What process_free does to a page: nothing, if there is nothing to free.
LEMMA FreeMaps ==
  ASSUME Sane, Booked, sound, NEW ptr, NEW i, NEW new, Frees(ptr, i, new),
         NEW size, size = allocations[runner][i].size, NEW v \in Page
  PROVE  IF ptr = NULL THEN new[v] = directory[runner][v]
         ELSE /\ Piece(heap, Ledger, runner, i, ptr, size)
              /\ MapsToItself(directory[runner], new, ptr, size, {}, v)
<1>1. /\ FrameMaps(directory[runner], new, PageOf(ptr), ptr, size, {}) /\ i \in Index
      /\ allocations[runner][i].ptr = ptr /\ runner \in alive /\ runner \in Slot
      /\ ptr \in Pointer
  BY DEF Frees
<1>2. CASE ptr = NULL
  <2>1. size = 0
    BY <1>1, <1>2 DEF Sane, Shape, Empty
  <2>2. PICK c \in 0 .. PagesFor(size) :
          new = MapPages(directory[runner], PageOf(ptr), PageOf(ptr), c, {})
    BY <1>1 DEF FrameMaps
  <2>3. c = 0
    BY <2>1, <2>2, BytesFromNothing
  <2>4. PageOf(ptr) \in Page
    BY <1>1, Slices
  <2>5. PICK j, dir, k : j = Away(v, PageOf(ptr)) /\ dir = directory[runner] /\ k = PageOf(ptr)
    OBVIOUS
  <2>6. /\ j \in Nat
        /\ new[v] = IF j < 0 THEN [frame |-> k + j, flags |-> {}] ELSE dir[v]
    <3>1. MapsAt(dir, k, k, 0, {}, v)
      BY <2>4, <2>5, MapPagesAt
    <3>2. new = MapPages(dir, k, k, 0, {})
      BY <2>2, <2>3, <2>5
    <3> QED BY <3>1, <3>2, <2>5 DEF MapsAt
  <2>7. new[v] = dir[v]
    BY <2>6
  <2> QED BY <1>2, <2>5, <2>7
<1>3. CASE ptr # NULL
  <2>1. i \in Allocated(runner)
    BY <1>1, <1>3 DEF Allocated
  <2>2. size \in Address /\ Entry(runner, i, ptr, size) \in Ledger
    BY <1>1, <2>1, Entries
  <2>3. Piece(heap, Ledger, runner, i, ptr, size)
    BY <1>1, <1>3, <2>2 DEF Piece, Booked
  <2>4. PICK tbl, ledger, dir, own : /\ tbl = heap /\ ledger = Ledger
                                     /\ dir = directory[runner] /\ own = runner
    OBVIOUS
  <2>5. /\ Piece(tbl, ledger, own, i, ptr, size)
        /\ FrameMaps(dir, new, PageOf(ptr), ptr, size, {})
    BY <1>1, <2>3, <2>4
  <2>6. MapsToItself(dir, new, ptr, size, {}, v)
    BY <2>5, IdentityMaps
  <2> QED BY <1>3, <2>3, <2>4, <2>6
<1> QED BY <1>2, <1>3

\* WritesOwn after free: the pages of what is freed lose the right.
LEMMA FreeWrites ==
  ASSUME Sane, Booked, WritesOwn, NEW ptr, NEW i, NEW new, Frees(ptr, i, new)
  PROVE  WritesOwn'
<1> SUFFICES ASSUME sound', NEW q \in alive' PROVE WritesGiven(q)'
  BY DEF WritesOwn, WritesGiven
<1>1. sound /\ q \in alive /\ WritesGiven(q) /\ Book(heap, Ledger)
  BY DEF Frees, WritesOwn, WritesGiven, Booked
<1>2. CASE q # runner
  BY <1>1, <1>2, WritesSame DEF Frees, image, Sane, TypeOK
<1>3. CASE q = runner
  <2>1. /\ file'[q] = file[q] /\ memory'[q] = memory[q] /\ stack'[q] = stack[q]
        /\ directory'[q] = new
        /\ \A j \in Index : allocations'[q][j] =
             IF allocations[q][j].ptr = ptr THEN Empty ELSE allocations[q][j]
    BY <1>3 DEF Frees, image, Sane, TypeOK
  <2>2. PICK size : size = allocations[q][i].size
    OBVIOUS
  <2>3. FrameMaps(directory[q], new, PageOf(ptr), ptr, size, {}) /\ i \in Index
        /\ allocations[q][i].ptr = ptr
    BY <1>3, <2>2 DEF Frees
  <2>4. ASSUME Covered(file[q]), NEW v \in Page, "WRITEABLE" \in new[v].flags
        PROVE  Given(q, v, new[v].frame)'
    <3>1. /\ new[v] = directory[q][v]
          /\ ~ \E j \in Allocated(q) :
                 allocations[q][j].ptr = ptr /\ v \in Extent(ptr, allocations[q][j].size)
      <4>1. CASE ptr = NULL
        BY <4>1, <1>1, <1>3, FreeMaps DEF Allocated
      <4>2. CASE ptr # NULL
        <5>1. PICK dir : dir = directory[q]
          OBVIOUS
        <5>2. /\ Piece(heap, Ledger, q, i, ptr, size)
              /\ MapsToItself(dir, new, ptr, size, {}, v)
          BY <4>2, <5>1, <2>2, <1>1, <1>3, FreeMaps
        <5>3. new[v] = IF v \in Extent(ptr, size) THEN [frame |-> v, flags |-> {}] ELSE dir[v]
          BY <5>2 DEF MapsToItself
        <5>4. v \notin Extent(ptr, size)
          BY <5>3, <2>4
        <5>5. ASSUME NEW j \in Allocated(q), allocations[q][j].ptr = ptr,
                     v \in Extent(ptr, allocations[q][j].size)
              PROVE  FALSE
          <6>1. PICK size2 : size2 = allocations[q][j].size
            OBVIOUS
          <6>2. size2 \in Address /\ Entry(q, j, ptr, size2) \in Ledger
            BY <5>5, <6>1, <1>1, Entries
          <6>3. j # i
            BY <5>4, <5>5, <2>2
          <6>7. /\ Piece(heap, Ledger, q, i, ptr, size)
                /\ Piece(heap, Ledger, q, j, ptr, size2)
            BY <6>2, <5>2, <1>1 DEF Piece
          <6>4. Extent(ptr, size) \cap Extent(ptr, size2) = {}
            BY <6>7, <6>3, Apart
          <6>5. PageOf(ptr) \in Nat /\ PagesFor(size) \in Nat \ {0} /\ PagesFor(size2) \in Nat \ {0}
            <7>1. PagesFor(size) \in Nat \ {0} /\ PageOf(ptr) \in Page
              BY <6>7, Place
            <7>2. PagesFor(size2) \in Nat \ {0}
              BY <6>7, Place
            <7> QED BY <7>1, <7>2, PageType
          <6>6. PageOf(ptr) \in Extent(ptr, size) /\ PageOf(ptr) \in Extent(ptr, size2)
            BY <6>5 DEF Extent
          <6> QED BY <6>4, <6>6
        <5> QED BY <5>1, <5>3, <5>4, <5>5
      <4> QED BY <4>1, <4>2
    <3>2. Given(q, v, new[v].frame)
      BY <3>1, <2>4, <1>1 DEF WritesGiven
    <3>3. \A j \in Allocated(q) : allocations[q][j].ptr # ptr =>
            j \in Allocated(q)' /\ allocations'[q][j] = allocations[q][j]
      BY <2>1 DEF Allocated
    <3> QED BY <3>1, <3>2, <3>3, <2>1 DEF Given
  <2> QED BY <2>1, <2>4 DEF WritesGiven
<1> QED BY <1>2, <1>3

\* WritesOwn after an exit.
LEMMA TerminateWrites ==
  ASSUME Sane, WritesOwn, runner \in alive, NEW tbl, Terminate(tbl)
  PROVE  WritesOwn'
<1> SUFFICES ASSUME sound', NEW q \in alive' PROVE WritesGiven(q)'
  BY DEF WritesOwn, WritesGiven
<1>1. q \in alive /\ q # runner /\ WritesGiven(q)
  BY DEF Terminate, WritesOwn, WritesGiven
<1> QED BY <1>1, WritesSame DEF Terminate, Sane, TypeOK

\* WritesOwn is inductive together with Sane and Booked.
LEMMA NextWrites == Sane /\ Booked /\ WritesOwn /\ [Next]_vars => WritesOwn'
<1> SUFFICES ASSUME Sane, Booked, WritesOwn, [Next]_vars PROVE WritesOwn'
  OBVIOUS
<1>1. ASSUME NEW f \in Programs, process_load_for_slot(f) PROVE WritesOwn'
  BY <1>1, LoadLoads, LoadWrites
<1>2. CASE task_next \/ UNCHANGED vars
  <2> SUFFICES ASSUME sound', NEW q \in alive' PROVE WritesGiven(q)'
    BY DEF WritesOwn, WritesGiven
  <2>1. q \in alive /\ WritesGiven(q)
    BY <1>2 DEF task_next, vars, WritesOwn, WritesGiven
  <2> QED BY <1>2, <2>1, WritesSame DEF task_next, vars, image
<1>3. ASSUME NEW size \in Sizes, process_malloc(size) PROVE WritesOwn'
  BY <1>3, MallocMallocs, MallocWrites
<1>4. ASSUME NEW ptr \in Pointer, process_free(ptr) PROVE WritesOwn'
  BY <1>4, FreeFrees, FreeWrites
<1>5. CASE process_terminate
  BY <1>5, RunnerExists, TerminateWrites DEF process_terminate
<1>6. ASSUME NEW reachable \in BOOLEAN, copy_string_from_task(reachable) PROVE WritesOwn'
  <2>1. PICK m, s : Copies(m, s) /\ (CopyEnds(m) \/ Terminate(m.heap))
    BY <1>6, CopyCopies
  <2>2. CASE CopyEnds(m)
    <3> SUFFICES ASSUME sound', NEW q \in alive' PROVE WritesGiven(q)'
      BY DEF WritesOwn, WritesGiven
    <3>1. q \in alive /\ WritesGiven(q)
      BY <2>2 DEF CopyEnds, WritesOwn, WritesGiven
    <3> QED BY <2>2, <3>1, WritesSame DEF CopyEnds, image
  <2>3. CASE Terminate(m.heap)
    BY <2>3, <1>6, CopyCopies, TerminateWrites
  <2> QED BY <2>1, <2>2, <2>3
<1> QED BY <1>1, <1>2, <1>3, <1>4, <1>5, <1>6 DEF Next

\* At the start no process exists that could write.
LEMMA InitWrites == Init => WritesOwn
BY DEF Init, WritesOwn

\* What UserFrames counts, in pieces.
LEMMA PiecesOf ==
  ASSUME Sane, Booked, sound, NEW q \in alive, NEW v \in UserFrames(q)
  PROVE  \E part, ptr, size :
           /\ Piece(heap, Ledger, q, part, ptr, size) /\ v \in Extent(ptr, size)
           /\ part = -1 \/ part = -2 \/ part \in Nat \ {0}
<1>1. Book(heap, Ledger)
  BY DEF Booked
<1>2. CASE v \in Frames(memory[q], file[q].size)
  <2>1. PICK ptr, size : ptr = memory[q] /\ size = file[q].size
    OBVIOUS
  <2>2. Piece(heap, Ledger, q, -1, ptr, size)
    BY <2>1, <1>1, Entries DEF Piece
  <2>3. v \in Extent(ptr, size)
    <3>1. ptr \in Pointer /\ size \in Nat
      BY <2>2, Constants DEF Piece, Address
    <3> QED BY <3>1, <2>1, <1>2, FramesOf
  <2> QED BY <2>2, <2>3
<1>3. CASE v \in Frames(stack[q], StackSize)
  <2>1. PICK ptr, size : ptr = stack[q] /\ size = StackSize
    OBVIOUS
  <2>2. Piece(heap, Ledger, q, -2, ptr, size)
    BY <2>1, <1>1, Entries, AddressSpacesAssumption DEF Piece
  <2>3. v \in Extent(ptr, size)
    <3>1. ptr \in Pointer /\ size \in Nat
      BY <2>2, Constants DEF Piece, Address
    <3> QED BY <3>1, <2>1, <1>3, FramesOf
  <2> QED BY <2>2, <2>3
<1>4. ASSUME NEW a \in Range(allocations[q]), v \in Frames(a.ptr, a.size)
      PROVE  \E part, ptr, size :
               /\ Piece(heap, Ledger, q, part, ptr, size) /\ v \in Extent(ptr, size)
               /\ part \in Nat \ {0}
  <2>1. q \in Slot
    BY Entries
  <2>2. PICK i \in Index : a = allocations[q][i]
    BY <1>4, <2>1 DEF Range, Sane, TypeOK
  <2>3. a.ptr # NULL
    <3>1. CASE a.ptr = NULL
      <4>1. a.size = 0
        BY <3>1, <2>1, <2>2 DEF Sane, Shape, Empty
      <4> QED BY <4>1, <1>4 DEF Frames
    <3> QED BY <3>1
  <2>4. i \in Allocated(q) /\ i \in Nat \ {0}
    BY <2>2, <2>3, Constants DEF Allocated, Index
  <2>5. PICK ptr, size : ptr = a.ptr /\ size = a.size
    OBVIOUS
  <2>6. Piece(heap, Ledger, q, i, ptr, size)
    BY <2>2, <2>4, <2>5, <1>1, Entries DEF Piece
  <2>7. v \in Extent(ptr, size)
    <3>1. ptr \in Pointer /\ size \in Nat
      BY <2>6, Constants DEF Piece, Address
    <3> QED BY <3>1, <2>5, <1>4, FramesOf
  <2> QED BY <2>4, <2>6, <2>7
<1>5. \/ v \in Frames(memory[q], file[q].size) \/ v \in Frames(stack[q], StackSize)
      \/ \E a \in Range(allocations[q]) : v \in Frames(a.ptr, a.size)
  BY DEF UserFrames
<1> QED BY <1>2, <1>3, <1>4, <1>5

\* What a process was given are the frames WritableIsOwned counts as its own.
LEMMA GivenIsCounted ==
  ASSUME Sane, NEW q \in alive, NEW v, NEW frame, Given(q, v, frame)
  PROVE  frame \in UserFrames(q)
<1>1. CASE frame \in Extent(memory[q], file[q].size)
  <2>1. PICK ptr, size : ptr = memory[q] /\ size = file[q].size
    OBVIOUS
  <2>2. ptr \in Pointer /\ size \in Nat
    BY <2>1, Entries, Constants DEF Address
  <2> QED BY <2>1, <2>2, <1>1, FramesOf DEF UserFrames
<1>2. CASE frame \in Extent(stack[q], StackSize)
  <2>1. PICK ptr, size : ptr = stack[q] /\ size = StackSize
    OBVIOUS
  <2>2. ptr \in Pointer /\ size \in Nat
    BY <2>1, Entries, Constants, AddressSpacesAssumption DEF Address
  <2> QED BY <2>1, <2>2, <1>2, FramesOf DEF UserFrames
<1>3. ASSUME NEW i \in Allocated(q),
             frame \in Extent(allocations[q][i].ptr, allocations[q][i].size)
      PROVE  frame \in UserFrames(q)
  <2>1. PICK a, ptr, size : a = allocations[q][i] /\ ptr = a.ptr /\ size = a.size
    OBVIOUS
  <2>2. ptr \in Pointer /\ size \in Nat
    BY <2>1, Entries, Constants DEF Address
  <2>3. frame \in Frames(ptr, size)
    BY <2>1, <2>2, <1>3, FramesOf
  <2>4. a \in Range(allocations[q])
    BY <2>1, Entries DEF Range, Sane, TypeOK, Allocated
  <2> QED BY <2>1, <2>3, <2>4 DEF UserFrames
<1> QED BY <1>1, <1>2, <1>3 DEF Given

\* The page of a task and of kernel_chunk is theirs alone.
LEMMA KernelIsApart ==
  ASSUME Sane, Booked, sound, NEW p \in alive, NEW v \in UserFrames(p)
  PROVE  /\ v # PageOf(kernel_chunk)
         /\ \A q \in alive : v # PageOf(task[q])
<1>1. Book(heap, Ledger)
  BY DEF Booked
<1>2. PICK part, ptr, size :
        /\ Piece(heap, Ledger, p, part, ptr, size) /\ v \in Extent(ptr, size)
        /\ part = -1 \/ part = -2 \/ part \in Nat \ {0}
  BY PiecesOf
<1>3. ASSUME NEW ptr2, NEW own, NEW part2, Piece(heap, Ledger, own, part2, ptr2, PageSize)
      PROVE  PageOf(ptr2) \in Extent(ptr2, PageSize)
  <2>1. PageOf(ptr2) \in Page
    BY <1>3, Place
  <2>2. PageOf(ptr2) \in PageOf(ptr2) .. PageOf(ptr2) + 1 - 1
    BY <2>1, PageType
  <2> QED BY <2>2, PageBlocks DEF Extent
<1>4. v # PageOf(kernel_chunk)
  <2>1. PICK ptr2 : ptr2 = kernel_chunk
    OBVIOUS
  <2>2. Piece(heap, Ledger, 0, 0, ptr2, PageSize)
    <3>1. ptr2 \in Pointer /\ ptr2 # NULL
      <4>1. 0 \in Kernel!Blocks /\ ptr2 = HeapAddress + (0 * PageSize)
        BY <2>1, Constants DEF kernel_chunk, Kernel!Blocks
      <4> QED BY <4>1, PointerOfBlock
    <3> QED BY <3>1, <2>1, <1>1, Entries, PageBlocks DEF Piece, KernelChunk
  <2>3. p # 0
    BY Entries
  <2>4. Extent(ptr, size) \cap Extent(ptr2, PageSize) = {}
    BY <2>2, <2>3, <1>2, Apart
  <2> QED BY <2>1, <2>2, <2>4, <1>2, <1>3
<1>5. ASSUME NEW q \in alive PROVE v # PageOf(task[q])
  <2>1. PICK ptr2 : ptr2 = task[q]
    OBVIOUS
  <2>2. Piece(heap, Ledger, q, -3, ptr2, PageSize)
    BY <2>1, <1>1, Entries, PageBlocks DEF Piece
  <2>3. part # -3
    BY <1>2
  <2>4. Extent(ptr, size) \cap Extent(ptr2, PageSize) = {}
    BY <2>2, <2>3, <1>2, Apart
  <2> QED BY <2>1, <2>2, <2>4, <1>2, <1>3
<1> QED BY <1>4, <1>5

\* No two processes were given the same frame.
LEMMA UsersAreApart ==
  ASSUME Sane, Booked, sound, NEW p \in alive, NEW q \in alive, p # q
  PROVE  UserFrames(p) \cap UserFrames(q) = {}
<1> SUFFICES ASSUME NEW v \in UserFrames(p), v \in UserFrames(q) PROVE FALSE
  OBVIOUS
<1>1. PICK part1, ptr1, size1 :
        Piece(heap, Ledger, p, part1, ptr1, size1) /\ v \in Extent(ptr1, size1)
  BY PiecesOf
<1>2. PICK part2, ptr2, size2 :
        Piece(heap, Ledger, q, part2, ptr2, size2) /\ v \in Extent(ptr2, size2)
  BY PiecesOf
<1>3. Extent(ptr1, size1) \cap Extent(ptr2, size2) = {}
  BY <1>1, <1>2, Apart
<1> QED BY <1>1, <1>2, <1>3

\* The property follows.
LEMMA WritableOwned == Sane /\ Booked /\ WritesOwn => WritableIsOwned
<1> SUFFICES ASSUME Sane, Booked, WritesOwn, sound, NEW p \in alive, Covered(file[p]),
                    NEW v \in Page, "WRITEABLE" \in directory[p][v].flags
             PROVE  /\ directory[p][v].frame \in UserFrames(p)
                    /\ directory[p][v].frame # PageOf(kernel_chunk)
                    /\ \A q \in alive : directory[p][v].frame # PageOf(task[q])
                    /\ \A q \in alive \ {p} : directory[p][v].frame \notin UserFrames(q)
  BY DEF WritableIsOwned
<1>1. PICK frame : frame = directory[p][v].frame
  OBVIOUS
<1>2. Given(p, v, frame)
  BY <1>1 DEF WritesOwn
<1>3. frame \in UserFrames(p)
  BY <1>2, GivenIsCounted
<1>4. frame # PageOf(kernel_chunk) /\ \A q \in alive : frame # PageOf(task[q])
  BY <1>3, KernelIsApart
<1>5. \A q \in alive \ {p} : frame \notin UserFrames(q)
  BY <1>3, UsersAreApart
<1> QED BY <1>1, <1>3, <1>4, <1>5

\* What a process can write to is its own: no page of a directory that is
\* writable leads to the kernel's chunk, to a task, or to the memory, stack or
\* allocations of another process, whatever was freed and handed out again, as
\* long as the heap gave out free runs and the images have room for their
\* segments.
THEOREM WritableOnlyByOwner == Spec => []WritableIsOwned
BY InitSane, NextSane, InitBooked, NextBooked, InitWrites, NextWrites, WritableOwned, PTL
   DEF Spec

-----------------------------------------------------------------------------
(* What a process and the kernel reach through a directory                 *)

\* The layout of config.h and of the linker scripts of the programs: images and
\* stack end before the kernel heap begins.
BelowHeap ==
  /\ StackPage + PagesFor(StackSize) <= HeapPage
  /\ \A f \in Programs : \A phdr \in Range(f.headers) :
       PageOf(phdr.vaddr) + Span(phdr) <= HeapPage

\* The pages of the stack are present, writable and lead to the stack.
StackMapped(p) ==
  /\ StackEnd = StackPage * PageSize
  /\ \A v \in StackPage .. StackPage + PagesFor(StackSize) - 1 :
       directory[p][v] = [frame |-> PageOf(stack[p]) + (v - StackPage), flags |-> Writable]

\* Every page of the heap keeps its frame; those of the task and kernel_chunk
\* are present, those of the allocations and the stack writable.
WellMapped(p) ==
  /\ \A v \in Heap : directory[p][v].frame = v
  /\ \A ptr \in {task[p], kernel_chunk} : "PRESENT" \in directory[p][PageOf(ptr)].flags
  /\ \A i \in Allocated(p) : \A v \in Extent(allocations[p][i].ptr, allocations[p][i].size) :
       directory[p][v].flags = Writable
  /\ StackMapped(p)

\* Every process is well mapped, while the heap gave out free runs.
AllWellMapped == sound => \A p \in alive : WellMapped(p)

\* Aligning and adding the offset in the page gives the pages of a segment.
LEMMA OffsetStays ==
  ASSUME NEW mem \in Pointer, NEW phdr, phdr.offset \in Address, phdr.memsz \in Address
  PROVE  PagesFor(Size(mem, phdr)) = Span(phdr) /\ Span(phdr) \in Nat
<1>1. PICK M, off, x, d : /\ M = PageOf(mem) /\ off = phdr.offset /\ x = mem + off
                          /\ d = Pages * PageSize
  OBVIOUS
<1>2. /\ M \in Nat /\ mem = M * PageSize /\ mem \in Nat /\ mem < d
      /\ off \in Nat /\ off < d /\ d \in Nat /\ Pages \in Nat /\ x \in Nat
  BY <1>1, Slices, PageType, PointerType, Constants DEF Address
<1>3. x % PageSize = off % PageSize
  <2>1. mem = M * PageSize /\ M \in Nat /\ off \in Nat
    BY <1>2
  <2>2. (mem + off) % PageSize = off % PageSize
    BY <2>1, BytesFromPage
  <2> QED BY <2>2, <1>1
<1>4. Wrap(x) = IF x < d THEN x ELSE x - d
  <2>1. x < 2 * (Pages * PageSize)
    BY <1>1, <1>2
  <2>2. Wrap(x) = IF x < Pages * PageSize THEN x ELSE x - (Pages * PageSize)
    BY <1>2, <2>1, WrapNear
  <2> QED BY <2>2, <1>1
<1>5. Wrap(x) % PageSize = off % PageSize
  <2>1. CASE x < d
    BY <2>1, <1>3, <1>4
  <2>2. CASE ~ (x < d)
    <3>1. PICK y : y = x - d
      OBVIOUS
    <3>2. y \in Nat /\ x = Pages * PageSize + y
      BY <3>1, <2>2, <1>1, <1>2
    <3>3. x % PageSize = y % PageSize
      BY <3>2, <1>2, BytesFromPage
    <3> QED BY <3>1, <3>3, <2>2, <1>3, <1>4
  <2> QED BY <2>1, <2>2
<1>6. Size(mem, phdr) = (off % PageSize) + phdr.memsz
  BY <1>1, <1>5 DEF Size, elf_phdr_phys_address
<1>7. Span(phdr) \in Nat
  <2>1. off % PageSize \in Nat /\ phdr.memsz \in Nat
    BY <1>2, Split, Constants DEF Address
  <2>2. PICK z : z = (off % PageSize) + phdr.memsz
    OBVIOUS
  <2>3. z \in Nat
    BY <2>1, <2>2
  <2> QED BY <2>2, <2>3, <1>1, PagesForSize DEF Span
<1> QED BY <1>1, <1>6, <1>7 DEF Span

\* The page of an address is a page.
LEMMA VaddrPage ==
  ASSUME NEW virt \in Address
  PROVE  PageOf(virt) \in Page /\ virt \in Nat
<1>1. virt \in Nat
  BY Constants DEF Address
<1>2. PageOf(virt) \in Nat /\ PageOf(virt) < Pages
  BY <1>1, Split
<1> QED BY <1>1, <1>2, Constants DEF Page

\* An image is mapped below the heap.
LEMMA ImageStaysBelow ==
  ASSUME BelowHeap, NEW mem \in Pointer, NEW f \in Programs,
         process_map_elf(paging_new_4gb(User), mem, f).res >= 0,
         NEW w \in Page, w >= HeapPage
  PROVE  process_map_elf(paging_new_4gb(User), mem, f).dir[w] = [frame |-> w, flags |-> User]
<1> DEFINE Low(d) == \A v \in Page : v >= HeapPage => d[v] = [frame |-> v, flags |-> User]
           G == {x \in (0 .. Len(f.headers)) \X Directory : Low(x[2])}
           first == paging_new_4gb(User)
<1>0. Len(f.headers) \in Nat
  BY Headers
<1>1. first \in Directory
  BY NewDirectory, FlagsType
<1>2. <<0, first>> \in G
  <2>1. Low(first)
    BY DEF paging_new_4gb
  <2> QED BY <2>1, <1>0, <1>1
<1>3. ASSUME NEW i \in 1 .. Len(f.headers), NEW d \in Directory, NEW new \in Directory,
             <<i - 1, d>> \in G, HeaderMaps(d, new, mem, f.headers[i])
      PROVE  <<i, new>> \in G
  <2>1. PICK phdr, a, k : /\ phdr = f.headers[i] /\ a = PageOf(phdr.vaddr)
                          /\ k = PageOf(elf_phdr_phys_address(mem, phdr))
    OBVIOUS
  <2>2. /\ phdr.vaddr \in Address /\ phdr.offset \in Address /\ phdr.memsz \in Address
        /\ phdr \in Range(f.headers)
    BY <2>1, Headers
  <2>3. a \in Page
    <3>1. PICK virt : virt = phdr.vaddr
      OBVIOUS
    <3> QED BY <3>1, <2>1, <2>2, VaddrPage
  <2>4. PICK c \in 0 .. Span(phdr) : new = MapPages(d, a, k, c, SegmentFlags(phdr))
    BY <1>3, <2>1, <2>2, OffsetStays DEF HeaderMaps
  <2>5. Span(phdr) \in Nat /\ a + Span(phdr) <= HeapPage
    BY <2>1, <2>2, OffsetStays DEF BelowHeap
  <2>6. c \in Nat /\ a + c <= HeapPage /\ a + c <= Pages
    BY <2>3, <2>4, <2>5, PageType, Constants
  <2>7. ASSUME NEW v \in Page, v >= HeapPage
        PROVE  new[v] = [frame |-> v, flags |-> User]
    <3>1. MapsAt(d, a, k, c, SegmentFlags(phdr), v)
      BY <2>3, <2>6, MapPagesAt
    <3>2. v \notin a .. a + c - 1
      BY <2>3, <2>6, <2>7, PageType, Constants
    <3>3. new[v] = d[v]
      BY <3>1, <3>2, <2>4, <2>6 DEF MapsAt
    <3> QED BY <3>3, <2>7, <1>3
  <2> QED BY <2>7, <1>0, <1>3
<1>4. \A i \in 1 .. Len(f.headers) : \A d \in Directory : \A new \in Directory :
        <<i - 1, d>> \in G /\ HeaderMaps(d, new, mem, f.headers[i]) => <<i, new>> \in G
  BY <1>3
<1>5. PICK m : m = process_map_elf(first, mem, f)
  OBVIOUS
<1>6. \/ m.res = -EINVARG
      \/ m.res = 0 /\ m.dir \in Directory /\ <<Len(f.headers), m.dir>> \in G
  <2> HIDE DEF G, first
  <2> QED BY <1>1, <1>2, <1>4, <1>5, MapElfInduction
<1>7. <<Len(f.headers), m.dir>> \in G
  BY <1>5, <1>6 DEF EINVARG
<1> QED BY <1>5, <1>7

\* The pages of the heap are an interval.
LEMMA HeapPages ==
  /\ \A v \in Heap : v \in Page /\ v \in Nat /\ v >= HeapPage /\ v < HeapPage + HeapBlocks
  /\ \A v \in Nat : v >= HeapPage /\ v < HeapPage + HeapBlocks => v \in Heap
BY Constants DEF Heap, HeapPage, Page

\* A pointer that is not NULL lies in the heap.
LEMMA PointerPage ==
  ASSUME NEW ptr \in Pointer, ptr # NULL
  PROVE  PageOf(ptr) \in Heap
<1>1. Block(ptr) \in Kernel!Blocks /\ ptr = HeapAddress + (Block(ptr) * PageSize)
  BY BlockOfPointer
<1>2. PageOf(ptr) = HeapPage + Block(ptr)
  BY <1>1, PointerOfBlock
<1> QED BY <1>1, <1>2, BlockType, HeapPages, Constants

\* kernel_chunk is the first block of the heap.
LEMMA ChunkPointer == kernel_chunk \in Pointer /\ kernel_chunk # NULL
<1>1. PICK ptr : ptr = kernel_chunk
  OBVIOUS
<1>2. 0 \in Kernel!Blocks /\ ptr = HeapAddress + (0 * PageSize)
  BY <1>1, Constants DEF kernel_chunk, Kernel!Blocks
<1> QED BY <1>1, <1>2, PointerOfBlock

\* A process that a step leaves alone stays well mapped.
LEMMA WellSame ==
  ASSUME NEW q, WellMapped(q), stack'[q] = stack[q], task'[q] = task[q],
         allocations'[q] = allocations[q], directory'[q] = directory[q]
  PROVE  WellMapped(q)'
BY DEF WellMapped, Allocated, StackMapped, kernel_chunk

\* AllWellMapped after a load.
LEMMA LoadWell ==
  ASSUME BelowHeap, Sane, Booked, AllWellMapped, NEW f \in Programs, NEW p, NEW m, NEW s,
         NEW new, Loads(f, p, m, s, new)
  PROVE  AllWellMapped'
<1> SUFFICES ASSUME sound', NEW q \in alive' PROVE WellMapped(q)'
  BY DEF AllWellMapped
<1>1. sound /\ Book(heap', Ledger \cup Taken(p, m, f))
  BY LoadTakes
<1>2. CASE q # p
  <2>1. q \in alive /\ WellMapped(q)
    BY <1>1, <1>2 DEF Loads, AllWellMapped
  <2> QED BY <2>1, <1>2, WellSame DEF Loads, Sane, TypeOK
<1>3. CASE q = p
  <2>1. /\ stack'[p] = m[2].ptr /\ task'[p] = m[3].ptr /\ directory'[p] = new
        /\ Allocated(p)' = {}
    BY DEF Loads, Sane, TypeOK, Allocated, NoAllocations, Empty
  <2>2. /\ m[1].ptr \in Pointer /\ m[1].ptr # NULL
        /\ m[2].ptr \in Pointer /\ m[2].ptr # NULL
        /\ m[3].ptr \in Pointer /\ m[3].ptr # NULL
    BY ServedPointer DEF Loads
  <2>3. PICK elf : elf = process_map_elf(paging_new_4gb(User), m[1].ptr, f)
    OBVIOUS
  <2>4. /\ elf.res >= 0 /\ elf.dir \in Directory /\ StackPage \in Page
        /\ StackEnd = StackPage * PageSize
        /\ FrameMaps(elf.dir, new, StackPage, m[2].ptr, StackSize, Writable)
    <3>1. paging_new_4gb(User) \in Directory
      BY NewDirectory, FlagsType
    <3>2. /\ process_map_memory(paging_new_4gb(User), m[1].ptr, m[2].ptr, f).res >= 0
          /\ new = process_map_memory(paging_new_4gb(User), m[1].ptr, m[2].ptr, f).dir
      BY DEF Loads
    <3> QED BY <3>1, <3>2, <2>2, <2>3, MapMemory
  <2>5. PICK tbl, ledger, ptr, dir, n : /\ tbl = heap' /\ ledger = Ledger \cup Taken(p, m, f)
                                        /\ ptr = m[2].ptr /\ dir = elf.dir
                                        /\ n = PagesFor(StackSize)
    OBVIOUS
  <2>6. /\ Piece(tbl, ledger, p, -2, ptr, StackSize) /\ StackPage \in Page
        /\ FrameMaps(dir, new, StackPage, ptr, StackSize, Writable)
    BY <1>1, <2>2, <2>4, <2>5, AddressSpacesAssumption DEF Piece, Taken
  <2>7. n \in Nat /\ StackPage \in Nat /\ StackPage + n <= HeapPage /\ StackPage + n <= Pages
        /\ HeapPage \in Nat /\ Pages \in Nat
    <3>1. n \in Nat
      BY <2>5, <2>6, Place
    <3> QED BY <3>1, <2>5, <2>6, PageType, Constants DEF BelowHeap
  <2>8. new = MapPages(dir, StackPage, PageOf(ptr), n, Writable)
    <3>1. \A c : Fewer(PageOf(ptr), c, StackSize) => c = n
      BY <2>5, <2>6, Place
    <3> QED BY <3>1, <2>6 DEF FrameMaps
  <2>9. ASSUME NEW v \in Page
        PROVE  new[v] = IF v \in StackPage .. StackPage + n - 1
                          THEN [frame |-> PageOf(ptr) + (v - StackPage), flags |-> Writable]
                          ELSE dir[v]
    <3>1. MapsAt(dir, StackPage, PageOf(ptr), n, Writable, v)
      BY <2>6, <2>7, MapPagesAt
    <3> QED BY <3>1, <2>7, <2>8 DEF MapsAt
  <2>10. ASSUME NEW v \in Heap PROVE new[v] = [frame |-> v, flags |-> User]
    <3>1. v \in Page /\ v \in Nat /\ v >= HeapPage
      BY HeapPages
    <3>2. v \notin StackPage .. StackPage + n - 1
      BY <3>1, <2>7
    <3>3. new[v] = dir[v]
      BY <3>1, <3>2, <2>9
    <3> QED BY <3>1, <3>3, <2>2, <2>3, <2>4, <2>5, ImageStaysBelow
  <2>11. \A x \in {m[3].ptr, kernel_chunk} : PageOf(x) \in Heap
    BY <2>2, PointerPage, ChunkPointer
  <2>12. StackMapped(p)'
    <3>1. \A v \in StackPage .. StackPage + n - 1 : v \in Page
      BY <2>7 DEF Page
    <3> QED BY <3>1, <2>1, <2>4, <2>5, <2>9 DEF StackMapped
  <2>13. ASSUME NEW v \in Heap
         PROVE  directory'[p][v].frame = v /\ "PRESENT" \in directory'[p][v].flags
    <3>1. directory'[p][v] = [frame |-> v, flags |-> User]
      BY <2>1, <2>10
    <3> QED BY <3>1 DEF User
  <2>14. \A x \in {task'[p], kernel_chunk} : "PRESENT" \in directory'[p][PageOf(x)].flags
    BY <2>1, <2>11, <2>13
  <2>15. \A i \in Allocated(p)' : FALSE
    BY <2>1
  <2>16. WellMapped(p)'
    BY <2>12, <2>13, <2>14, <2>15 DEF WellMapped, kernel_chunk
  <2> QED BY <1>3, <2>16
<1> QED BY <1>2, <1>3

\* A piece has no page below the heap.
LEMMA PieceAbove ==
  ASSUME NEW tbl, NEW ledger, NEW own, NEW part, NEW ptr, NEW size,
         Piece(tbl, ledger, own, part, ptr, size), NEW v \in Nat, v < HeapPage
  PROVE  v \notin Extent(ptr, size)
<1>1. PICK k, n, h : k = PageOf(ptr) /\ n = PagesFor(size) /\ h = HeapPage
  OBVIOUS
<1>2. k \in Nat /\ n \in Nat /\ h \in Nat /\ k >= h /\ v < h
  BY <1>1, Place, PageType, Constants
<1>3. v \notin k .. k + n - 1
  BY <1>2
<1> QED BY <1>1, <1>3 DEF Extent

\* Pages of the stack are no pages of the heap.
LEMMA StackBelow ==
  ASSUME BelowHeap, NEW v \in StackPage .. StackPage + PagesFor(StackSize) - 1,
         StackPage \in Page
  PROVE  v \in Page /\ v \in Nat /\ v < HeapPage
<1>1. PICK n : n = PagesFor(StackSize)
  OBVIOUS
<1>2. n \in Nat
  <2>1. PICK size : size = StackSize
    OBVIOUS
  <2>2. size \in Nat
    BY <2>1, AddressSpacesAssumption, Constants DEF Address
  <2> QED BY <2>1, <2>2, <1>1, PagesForSize
<1> QED BY <1>1, <1>2, PageType, Constants DEF BelowHeap, Page

\* The stack begins on a page.
LEMMA StackPageType == StackPage \in Page
<1>1. PICK x : x = StackEnd
  OBVIOUS
<1>2. x \in Address
  BY <1>1, AddressSpacesAssumption
<1> QED BY <1>1, <1>2, VaddrPage DEF StackPage

\* AllWellMapped after malloc.
LEMMA MallocWell ==
  ASSUME BelowHeap, Sane, Booked, AllWellMapped, NEW size \in Sizes, NEW m, NEW s,
         Mallocs(size, m, s), MallocFails(m) \/ \E i, new : MallocMaps(size, m, i, new)
  PROVE  AllWellMapped'
<1> SUFFICES ASSUME sound', NEW q \in alive' PROVE WellMapped(q)'
  BY DEF AllWellMapped
<1>1. sound /\ q \in alive /\ WellMapped(q)
  BY MallocTakes DEF Mallocs, AllWellMapped
<1>2. CASE MallocFails(m)
  BY <1>1, <1>2, WellSame DEF MallocFails, Mallocs, image
<1>3. ASSUME NEW i, NEW new, MallocMaps(size, m, i, new)
      PROVE  WellMapped(q)'
  <2>1. CASE q # runner
    BY <1>1, <1>3, <2>1, WellSame DEF MallocMaps, Mallocs, image, Sane, TypeOK
  <2>2. CASE q = runner
    <3>1. PICK tbl, ledger, ptr, dir :
             /\ tbl = m.heap /\ ledger = Ledger \cup {Entry(runner, i, m.ptr, size)}
             /\ ptr = m.ptr /\ dir = directory[q]
      OBVIOUS
    <3>2. /\ stack'[q] = stack[q] /\ task'[q] = task[q] /\ directory'[q] = new
          /\ \A j \in Index : allocations'[q][j] =
               IF j = i THEN [ptr |-> ptr, size |-> size] ELSE allocations[q][j]
      BY <1>3, <2>2, <3>1 DEF MallocMaps, Mallocs, image, Sane, TypeOK
    <3>3. /\ Piece(tbl, ledger, runner, i, ptr, size)
          /\ FrameMaps(dir, new, PageOf(ptr), ptr, size, Writable)
      <4>1. Book(m.heap, Ledger \cup {Entry(runner, i, m.ptr, size)})
        BY <1>3, <1>1, MallocTakes DEF Mallocs
      <4>2. m.ptr \in Pointer /\ m.ptr # NULL /\ size \in Address
        BY ServedPointer, AddressSpacesAssumption DEF Mallocs
      <4> QED BY <4>1, <4>2, <3>1, <1>3, <2>2 DEF Piece, MallocMaps
    <3>4. ASSUME NEW v \in Page
          PROVE  IF v \in Extent(ptr, size) THEN new[v].frame = v /\ new[v].flags = Writable
                                             ELSE new[v] = dir[v]
      <4>1. MapsToItself(dir, new, ptr, size, Writable, v)
        BY <3>3, IdentityMaps
      <4>2. CASE v \in Extent(ptr, size)
        <5>1. new[v] = [frame |-> v, flags |-> Writable]
          BY <4>1, <4>2 DEF MapsToItself
        <5> QED BY <4>2, <5>1
      <4>3. CASE v \notin Extent(ptr, size)
        BY <4>1, <4>3 DEF MapsToItself
      <4> QED BY <4>2, <4>3
    <3>5. \A v \in Heap : v \in Page
      BY HeapPages
    <3>6. ASSUME NEW v \in Heap PROVE new[v].frame = v
      <4>1. v \in Page /\ dir[v].frame = v
        BY <3>1, <3>5, <1>1 DEF WellMapped
      <4> QED BY <4>1, <3>4
    <3>7. ASSUME NEW x \in {task[q], kernel_chunk} PROVE "PRESENT" \in new[PageOf(x)].flags
      <4>1. PageOf(x) \in Page
        BY <3>5, <1>1, Entries, PointerPage, ChunkPointer
      <4>2. new[PageOf(x)].flags = Writable \/ new[PageOf(x)] = dir[PageOf(x)]
        BY <3>4, <4>1
      <4> QED BY <4>2, <3>1, <1>1 DEF WellMapped, Writable, User
    <3>8. ASSUME NEW j \in Allocated(q)',
                 NEW v \in Extent(allocations'[q][j].ptr, allocations'[q][j].size)
          PROVE  new[v].flags = Writable
      <4>1. CASE j = i
        <5>1. j \in Index
          BY <3>8 DEF Allocated
        <5>2. v \in Extent(ptr, size)
          BY <5>1, <4>1, <3>2, <3>8
        <5>3. v \in Page
          BY <5>2, <3>3, Place
        <5> QED BY <5>2, <5>3, <3>4
      <4>2. CASE j # i
        <5>1. j \in Allocated(q) /\ allocations'[q][j] = allocations[q][j]
          BY <4>2, <3>2, <3>8 DEF Allocated
        <5>2. PICK ptr2, size2 : ptr2 = allocations[q][j].ptr /\ size2 = allocations[q][j].size
          OBVIOUS
        <5>3. Piece(heap, Ledger, q, j, ptr2, size2)
          BY <5>1, <5>2, <1>1, Entries DEF Piece, Booked
        <5>4. v \in Page
          BY <5>1, <5>2, <5>3, <3>8, Place
        <5>5. dir[v].flags = Writable
          BY <5>1, <3>1, <3>8, <1>1 DEF WellMapped
        <5>6. new[v].flags = Writable \/ new[v] = dir[v]
          BY <5>4, <3>4
        <5> QED BY <5>5, <5>6
      <4> QED BY <4>1, <4>2
    <3>9. StackMapped(q)'
      <4>1. ASSUME NEW v \in StackPage .. StackPage + PagesFor(StackSize) - 1
            PROVE  new[v] = dir[v]
        <5>1. v \in Page /\ v \in Nat /\ v < HeapPage
          BY StackBelow, StackPageType
        <5>2. v \notin Extent(ptr, size)
          BY <3>3, <5>1, PieceAbove
        <5> QED BY <5>1, <5>2, <3>4
      <4> QED BY <4>1, <3>1, <3>2, <1>1 DEF WellMapped, StackMapped
    <3>10. WellMapped(q)'
      BY <3>2, <3>6, <3>7, <3>8, <3>9 DEF WellMapped, kernel_chunk
    <3> QED BY <3>10
  <2> QED BY <2>1, <2>2
<1> QED BY <1>2, <1>3

\* AllWellMapped after free.
LEMMA FreeWell ==
  ASSUME BelowHeap, Sane, Booked, AllWellMapped, NEW ptr, NEW i, NEW new, Frees(ptr, i, new)
  PROVE  AllWellMapped'
<1> SUFFICES ASSUME sound', NEW q \in alive' PROVE WellMapped(q)'
  BY DEF AllWellMapped
<1>1. sound /\ q \in alive /\ WellMapped(q)
  BY DEF Frees, AllWellMapped
<1>2. CASE q # runner
  BY <1>1, <1>2, WellSame DEF Frees, image, Sane, TypeOK
<1>3. CASE q = runner
  <2>1. /\ stack'[q] = stack[q] /\ task'[q] = task[q] /\ directory'[q] = new
        /\ \A j \in Index : allocations'[q][j] =
             IF allocations[q][j].ptr = ptr THEN Empty ELSE allocations[q][j]
    BY <1>3 DEF Frees, image, Sane, TypeOK
  <2>2. PICK size, dir : size = allocations[q][i].size /\ dir = directory[q]
    OBVIOUS
  <2>3. ASSUME NEW v \in Page
        PROVE  IF ptr = NULL THEN new[v] = dir[v]
               ELSE IF v \in Extent(ptr, size) THEN new[v].frame = v ELSE new[v] = dir[v]
    <3>1. IF ptr = NULL THEN new[v] = dir[v] ELSE MapsToItself(dir, new, ptr, size, {}, v)
      BY <1>1, <1>3, <2>2, FreeMaps
    <3>2. CASE ptr # NULL /\ v \in Extent(ptr, size)
      <4>1. new[v] = [frame |-> v, flags |-> {}]
        BY <3>1, <3>2 DEF MapsToItself
      <4> QED BY <3>2, <4>1
    <3>3. CASE ptr = NULL \/ v \notin Extent(ptr, size)
      BY <3>1, <3>3 DEF MapsToItself
    <3> QED BY <3>2, <3>3
  <2>4. ptr # NULL => Piece(heap, Ledger, q, i, ptr, size)
    <3>1. 0 \in Page
      BY Constants DEF Page
    <3> QED BY <3>1, <1>1, <1>3, <2>2, FreeMaps
  <2>5. \A v \in Heap : v \in Page
    BY HeapPages
  <2>6. ASSUME NEW v \in Heap PROVE new[v].frame = v
    <3>1. v \in Page /\ dir[v].frame = v
      BY <2>2, <2>5, <1>1 DEF WellMapped
    <3> QED BY <3>1, <2>3
  <2>7. ASSUME NEW own, NEW part, NEW ptr2, NEW size2,
               Piece(heap, Ledger, own, part, ptr2, size2), own # q \/ part # i,
               NEW v \in Extent(ptr2, size2)
        PROVE  v \in Page /\ new[v] = dir[v]
    <3>1. v \in Page
      BY <2>7, Place
    <3>2. ptr # NULL => v \notin Extent(ptr, size)
      <4>1. ptr # NULL => Extent(ptr2, size2) \cap Extent(ptr, size) = {}
        BY <2>4, <2>7, Apart
      <4> QED BY <4>1
    <3> QED BY <3>1, <3>2, <2>3
  <2>8. ASSUME NEW x \in {task[q], kernel_chunk} PROVE "PRESENT" \in new[PageOf(x)].flags
    <3>1. i \in Nat /\ PagesFor(PageSize) = 1
      BY PageBlocks, Constants DEF Frees, Index
    <3>2. \/ x = task[q] /\ Piece(heap, Ledger, q, -3, x, PageSize)
          \/ x = kernel_chunk /\ Piece(heap, Ledger, 0, 0, x, PageSize)
      BY <1>1, Entries, PageBlocks, ChunkPointer DEF Piece, KernelChunk, Booked
    <3>3. PageOf(x) \in Extent(x, PageSize)
      <4>1. PageOf(x) \in Page
        BY <3>2, Place
      <4>2. PageOf(x) \in PageOf(x) .. PageOf(x) + 1 - 1
        BY <4>1, PageType
      <4> QED BY <4>2, <3>1 DEF Extent
    <3>4. q # 0
      BY <1>1, Entries
    <3>5. new[PageOf(x)] = dir[PageOf(x)]
      BY <2>7, <3>1, <3>2, <3>3, <3>4
    <3> QED BY <3>5, <2>2, <1>1 DEF WellMapped
  <2>9. ASSUME NEW j \in Allocated(q)',
               NEW v \in Extent(allocations'[q][j].ptr, allocations'[q][j].size)
        PROVE  new[v].flags = Writable
    <3>1. /\ j \in Allocated(q) /\ allocations'[q][j] = allocations[q][j]
          /\ allocations[q][j].ptr # ptr
      BY <2>1, <2>9 DEF Allocated, Empty
    <3>2. PICK ptr2, size2 : ptr2 = allocations[q][j].ptr /\ size2 = allocations[q][j].size
      OBVIOUS
    <3>3. Piece(heap, Ledger, q, j, ptr2, size2) /\ v \in Extent(ptr2, size2)
      BY <3>1, <3>2, <2>9, <1>1, Entries DEF Piece, Booked
    <3>4. j # i
      BY <3>1, <1>3 DEF Frees
    <3>5. new[v] = dir[v]
      BY <3>3, <3>4, <2>7
    <3> QED BY <3>1, <3>2, <3>3, <3>5, <2>2, <1>1 DEF WellMapped
  <2>10. StackMapped(q)'
    <3>1. ASSUME NEW v \in StackPage .. StackPage + PagesFor(StackSize) - 1
          PROVE  new[v] = dir[v]
      <4>1. v \in Page /\ v \in Nat /\ v < HeapPage
        BY StackBelow, StackPageType
      <4>2. ptr # NULL => v \notin Extent(ptr, size)
        BY <2>4, <4>1, PieceAbove
      <4> QED BY <4>1, <4>2, <2>3
    <3> QED BY <3>1, <2>1, <2>2, <1>1 DEF WellMapped, StackMapped
  <2>11. WellMapped(q)'
    BY <2>1, <2>6, <2>8, <2>9, <2>10 DEF WellMapped, kernel_chunk
  <2> QED BY <2>11
<1> QED BY <1>2, <1>3

\* AllWellMapped after an exit.
LEMMA TerminateWell ==
  ASSUME Sane, AllWellMapped, runner \in alive, NEW tbl, Terminate(tbl)
  PROVE  AllWellMapped'
<1> SUFFICES ASSUME sound', NEW q \in alive' PROVE WellMapped(q)'
  BY DEF AllWellMapped
<1>1. q \in alive /\ q # runner /\ WellMapped(q)
  BY DEF Terminate, AllWellMapped
<1> QED BY <1>1, WellSame DEF Terminate, Sane, TypeOK

\* AllWellMapped is inductive together with Sane and Booked.
LEMMA NextWell ==
  ASSUME BelowHeap
  PROVE  Sane /\ Booked /\ AllWellMapped /\ [Next]_vars => AllWellMapped'
<1> SUFFICES ASSUME Sane, Booked, AllWellMapped, [Next]_vars PROVE AllWellMapped'
  OBVIOUS
<1>1. ASSUME NEW f \in Programs, process_load_for_slot(f) PROVE AllWellMapped'
  BY <1>1, LoadLoads, LoadWell
<1>2. CASE task_next \/ UNCHANGED vars
  <2> SUFFICES ASSUME sound', NEW q \in alive' PROVE WellMapped(q)'
    BY DEF AllWellMapped
  <2>1. q \in alive /\ WellMapped(q)
    BY <1>2 DEF task_next, vars, AllWellMapped
  <2> QED BY <1>2, <2>1, WellSame DEF task_next, vars, image
<1>3. ASSUME NEW size \in Sizes, process_malloc(size) PROVE AllWellMapped'
  BY <1>3, MallocMallocs, MallocWell
<1>4. ASSUME NEW ptr \in Pointer, process_free(ptr) PROVE AllWellMapped'
  BY <1>4, FreeFrees, FreeWell
<1>5. CASE process_terminate
  BY <1>5, RunnerExists, TerminateWell DEF process_terminate
<1>6. ASSUME NEW reachable \in BOOLEAN, copy_string_from_task(reachable) PROVE AllWellMapped'
  <2>1. PICK m, s : Copies(m, s) /\ (CopyEnds(m) \/ Terminate(m.heap))
    BY <1>6, CopyCopies
  <2>2. CASE CopyEnds(m)
    <3> SUFFICES ASSUME sound', NEW q \in alive' PROVE WellMapped(q)'
      BY DEF AllWellMapped
    <3>1. q \in alive /\ WellMapped(q)
      BY <2>2 DEF CopyEnds, AllWellMapped
    <3> QED BY <2>2, <3>1, WellSame DEF CopyEnds, image
  <2>3. CASE Terminate(m.heap)
    BY <2>3, <1>6, CopyCopies, TerminateWell
  <2> QED BY <2>1, <2>2, <2>3
<1> QED BY <1>1, <1>2, <1>3, <1>4, <1>5, <1>6 DEF Next

\* At the start no process exists.
LEMMA InitWell == Init => AllWellMapped
BY DEF Init, AllWellMapped

\* Looking an address up.
LEMMA LookUp ==
  ASSUME NEW dir, NEW addr \in Nat
  PROVE  /\ paging_get(dir, paging_align_to_lower_page(addr)) = dir[PageOf(addr)]
         /\ paging_get_physical_address(dir, addr)
              = (dir[PageOf(addr)].frame * PageSize) + (addr % PageSize)
<1>1. PICK v, r, low : v = PageOf(addr) /\ r = addr % PageSize /\ low = v * PageSize
  OBVIOUS
<1>2. /\ v \in Nat /\ r \in 0 .. PageSize - 1 /\ addr = low + r
      /\ paging_align_to_lower_page(addr) = low
  BY <1>1, Split
<1>3. 0 \in 0 .. PageSize - 1 /\ low \in Nat /\ low + 0 = low /\ addr - low = r
  BY <1>1, <1>2, Constants
<1>4. PageOf(low) = v
  BY <1>1, <1>2, <1>3, PageAndOffset
<1>5. paging_is_aligned(low)
  BY <1>1, <1>3, <1>4, Split
<1>6. paging_get(dir, low) = dir[v]
  BY <1>4, <1>5 DEF paging_get
<1> QED BY <1>1, <1>2, <1>3, <1>6 DEF paging_get_physical_address

\* The byte k behind the start of page a, when its page leads to the frame that
\* is as far behind frame f.
LEMMA Reach ==
  ASSUME NEW dir, NEW a \in Nat, NEW f \in Nat, NEW k \in Nat, NEW addr,
         addr = a * PageSize, dir[a + PageOf(k)].frame = f + PageOf(k)
  PROVE  /\ paging_get_physical_address(dir, addr + k) = (f * PageSize) + k
         /\ paging_get(dir, paging_align_to_lower_page(addr + k)) = dir[a + PageOf(k)]
<1>1. PICK v, r, x : v = PageOf(k) /\ r = k % PageSize /\ x = addr + k
  OBVIOUS
<1>2. v \in Nat /\ r \in 0 .. PageSize - 1 /\ k = v * PageSize + r
  BY <1>1, Split
<1>3. /\ a * PageSize \in Nat /\ v * PageSize \in Nat /\ f * PageSize \in Nat /\ PageSize \in Nat
      /\ (a + v) * PageSize = a * PageSize + v * PageSize
      /\ (f + v) * PageSize = f * PageSize + v * PageSize
  BY <1>2, Constants
<1>4. x \in Nat /\ x = (a + v) * PageSize + r /\ a + v \in Nat
  BY <1>1, <1>2, <1>3
<1>5. PageOf(x) = a + v /\ x % PageSize = r
  BY <1>2, <1>4, PageAndOffset
<1>6. /\ paging_get(dir, paging_align_to_lower_page(x)) = dir[a + v]
      /\ paging_get_physical_address(dir, x) = (dir[a + v].frame * PageSize) + r
  BY <1>4, <1>5, LookUp
<1>7. ((f + v) * PageSize) + r = (f * PageSize) + k
  BY <1>2, <1>3
<1> QED BY <1>1, <1>6, <1>7

\* A byte of a piece lies on one of its pages.
LEMMA PageOfByte ==
  ASSUME NEW size \in Nat, NEW k \in 0 .. size - 1
  PROVE  k \in Nat /\ PageOf(k) \in 0 .. PagesFor(size) - 1
<1>1. PICK v, r, n : v = PageOf(k) /\ r = k % PageSize /\ n = PagesFor(size)
  OBVIOUS
<1>2. k \in Nat /\ k < size /\ v \in Nat /\ r \in 0 .. PageSize - 1 /\ k = v * PageSize + r
  BY <1>1, Split
<1>3. n \in Nat
  BY <1>1, PagesForSize
<1>4. CASE n <= v
  <2>1. size <= v * PageSize /\ v * PageSize \in Nat
    BY <1>1, <1>2, <1>4, BytesInPages, Constants
  <2> QED BY <2>1, <1>2
<1> QED BY <1>1, <1>2, <1>3, <1>4

\* KernelIsReachable follows.
LEMMA KernelReached ==
  ASSUME Sane, AllWellMapped
  PROVE  KernelIsReachable
<1> SUFFICES ASSUME sound, NEW p \in alive, NEW ptr \in {task[p], kernel_chunk}
             PROVE  /\ paging_get_physical_address(directory[p], ptr) = ptr
                    /\ "PRESENT" \in paging_get(directory[p], ptr).flags
  BY DEF KernelIsReachable
<1>1. PICK v, dir : v = PageOf(ptr) /\ dir = directory[p]
  OBVIOUS
<1>2. ptr \in Pointer /\ ptr # NULL /\ v \in Heap
  BY <1>1, Entries, PointerPage, ChunkPointer
<1>3. v \in Nat /\ ptr \in Nat /\ ptr = v * PageSize
  BY <1>1, <1>2, Slices, PageType, PointerType
<1>4. dir[v].frame = v /\ "PRESENT" \in dir[v].flags
  BY <1>1, <1>2 DEF AllWellMapped, WellMapped
<1>5. ptr % PageSize = 0 /\ paging_align_to_lower_page(ptr) = ptr
  <2>1. 0 \in 0 .. PageSize - 1 /\ v * PageSize + 0 = ptr /\ ptr - 0 = ptr
    BY <1>3, Constants
  <2>2. ptr % PageSize = 0
    BY <2>1, <1>3, PageAndOffset
  <2> QED BY <2>1, <2>2 DEF paging_align_to_lower_page
<1>6. /\ paging_get(dir, ptr) = dir[v]
      /\ paging_get_physical_address(dir, ptr) = (dir[v].frame * PageSize) + 0
  BY <1>1, <1>3, <1>5, LookUp
<1>7. (v * PageSize) + 0 = ptr
  BY <1>3
<1> QED BY <1>1, <1>4, <1>6, <1>7

\* OwnIsReachable follows.
LEMMA OwnReached ==
  ASSUME BelowHeap, Sane, Booked, AllWellMapped
  PROVE  OwnIsReachable
<1> SUFFICES ASSUME sound, NEW p \in alive
             PROVE  /\ \A i \in Index : \A k \in 0 .. allocations[p][i].size - 1 :
                         IsAt(p, allocations[p][i].ptr + k, allocations[p][i].ptr + k, Writable)
                    /\ \A k \in 0 .. StackSize - 1 :
                         IsAt(p, StackEnd + k, stack[p] + k, Writable)
  BY DEF OwnIsReachable
<1>1. PICK dir : dir = directory[p]
  OBVIOUS
<1>2. WellMapped(p) /\ Book(heap, Ledger)
  BY DEF AllWellMapped, Booked
<1>3. ASSUME NEW i \in Index, NEW k \in 0 .. allocations[p][i].size - 1
      PROVE  IsAt(p, allocations[p][i].ptr + k, allocations[p][i].ptr + k, Writable)
  <2>1. PICK ptr, size, a, v : /\ ptr = allocations[p][i].ptr /\ size = allocations[p][i].size
                               /\ a = PageOf(ptr) /\ v = PageOf(k)
    OBVIOUS
  <2>2. ptr # NULL
    <3>1. CASE ptr = NULL
      <4>1. p \in Slot
        BY Entries
      <4>2. allocations[p][i] = Empty
        BY <2>1, <3>1, <4>1 DEF Sane, Shape
      <4>3. size = 0
        BY <2>1, <4>2 DEF Empty
      <4> QED BY <4>3, <2>1, <1>3
    <3> QED BY <3>1
  <2>3. i \in Allocated(p)
    BY <2>1, <2>2 DEF Allocated
  <2>4. Piece(heap, Ledger, p, i, ptr, size)
    BY <2>1, <2>3, <1>2, Entries DEF Piece
  <2>5. size \in Nat /\ k \in 0 .. size - 1 /\ k \in Nat
    BY <2>1, <2>4, <1>3, Constants DEF Piece, Address
  <2>6. v \in 0 .. PagesFor(size) - 1 /\ PagesFor(size) \in Nat
    BY <2>1, <2>4, <2>5, PageOfByte, Place
  <2>7. a \in Nat /\ ptr = a * PageSize
    BY <2>1, <2>4, Slices, PageType DEF Piece
  <2>8. a + v \in Extent(ptr, size)
    BY <2>1, <2>6, <2>7 DEF Extent
  <2>9. a + v \in Heap
    <3>1. /\ a >= HeapPage /\ a + PagesFor(size) <= HeapPage + HeapBlocks
      BY <2>1, <2>4, Place
    <3> QED BY <3>1, <2>6, <2>7, HeapPages, Constants
  <2>10. dir[a + v].frame = a + v /\ dir[a + v].flags = Writable
    BY <2>1, <2>3, <2>8, <2>9, <1>1, <1>2 DEF WellMapped
  <2>11. /\ paging_get_physical_address(dir, ptr + k) = (a * PageSize) + k
         /\ paging_get(dir, paging_align_to_lower_page(ptr + k)) = dir[a + v]
    BY <2>1, <2>5, <2>7, <2>10, Reach
  <2> QED BY <2>1, <2>7, <2>10, <2>11, <1>1 DEF IsAt
<1>4. ASSUME NEW k \in 0 .. StackSize - 1
      PROVE  IsAt(p, StackEnd + k, stack[p] + k, Writable)
  <2>1. PICK stk, size, a, f, v : /\ stk = stack[p] /\ size = StackSize /\ a = StackPage
                                  /\ f = PageOf(stk) /\ v = PageOf(k)
    OBVIOUS
  <2>2. size \in Nat /\ k \in 0 .. size - 1 /\ k \in Nat
    BY <2>1, <1>4, AddressSpacesAssumption, Constants DEF Address
  <2>3. v \in 0 .. PagesFor(size) - 1 /\ PagesFor(size) \in Nat
    BY <2>1, <2>2, PageOfByte, PagesForSize
  <2>4. f \in Nat /\ stk = f * PageSize /\ a \in Nat /\ StackEnd = a * PageSize
    <3>1. stk \in Pointer
      BY <2>1, Entries
    <3> QED BY <3>1, <2>1, <1>2, Slices, StackPageType, PageType DEF WellMapped, StackMapped
  <2>5. a + v \in a .. a + PagesFor(size) - 1 /\ (a + v) - a = v
    BY <2>3, <2>4
  <2>6. dir[a + v] = [frame |-> f + v, flags |-> Writable]
    <3>1. \A w \in a .. a + PagesFor(size) - 1 :
            dir[w] = [frame |-> f + (w - a), flags |-> Writable]
      BY <2>1, <1>1, <1>2 DEF WellMapped, StackMapped
    <3> QED BY <3>1, <2>5
  <2>7. dir[a + v].frame = f + v /\ dir[a + v].flags = Writable
    BY <2>6
  <2>8. /\ paging_get_physical_address(dir, StackEnd + k) = (f * PageSize) + k
        /\ paging_get(dir, paging_align_to_lower_page(StackEnd + k)) = dir[a + v]
    BY <2>1, <2>2, <2>4, <2>7, Reach
  <2> QED BY <2>1, <2>4, <2>7, <2>8, <1>1 DEF IsAt
<1> QED BY <1>3, <1>4

\* The kernel stays reachable through the directory of every process: the page
\* of its task, where task_return reads the registers, and the chunk that
\* kernel_page reads are mapped to themselves and present, whatever the process
\* allocated, freed or gave to print.
THEOREM KernelStaysReachable ==
  ASSUME BelowHeap
  PROVE  Spec => []KernelIsReachable
BY InitSane, NextSane, InitBooked, NextBooked, InitWell, NextWell, KernelReached, PTL DEF Spec

\* A process reaches all of its allocations and all of its stack: a page that
\* was unmapped when a former owner, or the process itself, freed it is mapped
\* and writable again for the one that got it from malloc.
THEOREM OwnStaysReachable ==
  ASSUME BelowHeap
  PROVE  Spec => []OwnIsReachable
BY InitSane, NextSane, InitBooked, NextBooked, InitWell, NextWell, OwnReached, PTL DEF Spec

-----------------------------------------------------------------------------
(* Where an image is mapped                                                *)

\* Images do not reach from the heap to the end of the address space, and no
\* segment takes a page of the stack.
SegmentsFit ==
  \A f \in Programs : \A phdr \in Range(f.headers) :
    /\ HeapPage + HeapBlocks + PagesFor(phdr.offset + phdr.memsz) <= Pages
    /\ \/ PageOf(phdr.vaddr) + Span(phdr) <= StackPage
       \/ PageOf(phdr.vaddr) >= StackPage + PagesFor(StackSize)

\* The pages of a segment lead to the frames where it lies in the image.
HasSegment(dir, mem, phdr) ==
  \A j \in 0 .. Span(phdr) - 1 :
    dir[PageOf(phdr.vaddr) + j] =
      [frame |-> PageOf(mem) + PageOf(phdr.offset) + j, flags |-> SegmentFlags(phdr)]

\* The segments of p are where its headers say, if no two share a page.
ImageMapped(p) ==
  Separate(file[p]) =>
    \A phdr \in Range(file[p].headers) : HasSegment(directory[p], memory[p], phdr)

\* So are those of every process.
ImagesMapped == \A p \in alive : ImageMapped(p)

\* What is known of the place of a segment.
SegmentPlaced(phdr, a, n) ==
  /\ a = PageOf(phdr.vaddr) /\ n = Span(phdr)
  /\ a \in Page /\ a \in Nat /\ n \in Nat /\ a + n <= HeapPage /\ a + n <= Pages
  /\ phdr.vaddr \in Address /\ phdr.offset \in Address /\ phdr.memsz \in Address

\* A segment lies below the heap and its pages do not wrap.
LEMMA PlaceSegment ==
  ASSUME BelowHeap, NEW f \in Programs, NEW phdr \in Range(f.headers)
  PROVE  SegmentPlaced(phdr, PageOf(phdr.vaddr), Span(phdr))
<1>1. /\ phdr.vaddr \in Address /\ phdr.offset \in Address /\ phdr.memsz \in Address
  BY Headers
<1>2. PICK virt, a, n : virt = phdr.vaddr /\ a = PageOf(virt) /\ n = Span(phdr)
  OBVIOUS
<1>3. a \in Page
  BY <1>1, <1>2, VaddrPage
<1>4. n \in Nat
  <2>1. NULL \in Pointer
    BY DEF Pointer
  <2> QED BY <2>1, <1>1, <1>2, OffsetStays
<1>5. a + n <= HeapPage
  BY <1>2 DEF BelowHeap
<1> QED BY <1>1, <1>2, <1>3, <1>4, <1>5, PageType, Constants DEF SegmentPlaced

\* Mapping the header of a segment that fits maps all of it.
LEMMA HeaderHasSegment ==
  ASSUME BelowHeap, SegmentsFit, NEW mem \in Pointer, mem # NULL, NEW f \in Programs,
         NEW phdr \in Range(f.headers), NEW d, NEW new, HeaderMaps(d, new, mem, phdr)
  PROVE  /\ HasSegment(new, mem, phdr)
         /\ \A v \in Page : v \notin SegmentPages(phdr) => new[v] = d[v]
<1>1. PICK a, n, k, c, flags :
        /\ a = PageOf(phdr.vaddr) /\ n = Span(phdr) /\ flags = SegmentFlags(phdr)
        /\ k = PageOf(elf_phdr_phys_address(mem, phdr))
        /\ c \in 0 .. n /\ new = MapPages(d, a, k, c, flags)
        /\ Fewer(k, c, Size(mem, phdr)) /\ n = PagesFor(Size(mem, phdr))
  <2>1. Span(phdr) = PagesFor(Size(mem, phdr))
    BY PlaceSegment, OffsetStays DEF SegmentPlaced
  <2> QED BY <2>1 DEF HeaderMaps
<1>2. SegmentPlaced(phdr, a, n)
  BY <1>1, PlaceSegment
<1>3. PICK M, t : M = PageOf(mem) /\ t = PagesFor(phdr.offset + phdr.memsz)
  OBVIOUS
<1>4. /\ M \in Nat /\ M >= HeapPage /\ M < HeapPage + HeapBlocks /\ t \in Nat
      /\ HeapPage \in Nat \ {0} /\ HeapBlocks \in Nat /\ Pages \in Nat
  <2>1. M \in Heap
    BY <1>3, PointerPage
  <2>2. PICK x : x = phdr.offset + phdr.memsz
    OBVIOUS
  <2>3. x \in Nat
    BY <2>2, <1>2, Constants DEF SegmentPlaced, Address
  <2> QED BY <2>1, <2>2, <2>3, <1>3, HeapPages, PagesForSize, Constants
<1>5. M + t <= Pages
  <2>1. HeapPage + HeapBlocks + t <= Pages
    BY <1>3 DEF SegmentsFit
  <2> QED BY <2>1, <1>4
<1>6. n = 0 \/ (k = M + PageOf(phdr.offset) /\ t = PageOf(phdr.offset) + n)
  <2>1. PageOf(mem) + PagesFor(phdr.offset + phdr.memsz) <= Pages
    BY <1>3, <1>5
  <2> QED BY <2>1, <1>1, <1>2, <1>3, PhysPlace DEF SegmentPlaced
<1>7. PageOf(phdr.offset) \in Nat
  <2>1. PICK off : off = phdr.offset
    OBVIOUS
  <2>2. off \in Nat
    BY <2>1, <1>2, Constants DEF SegmentPlaced, Address
  <2> QED BY <2>1, <2>2, Split
<1>8. c = n
  <2>1. CASE n = 0
    BY <2>1, <1>1
  <2>2. CASE n # 0
    <3>1. PICK size : size = Size(mem, phdr)
      OBVIOUS
    <3>2. k \in Page /\ k # 0 /\ k + n <= Pages
      BY <2>2, <1>2, <1>4, <1>5, <1>6, <1>7 DEF Page, SegmentPlaced
    <3>3. size \in Nat
      <4>1. PICK phys : phys = elf_phdr_phys_address(mem, phdr)
        OBVIOUS
      <4>2. phys \in Nat /\ phdr.memsz \in Nat
        BY <4>1, <1>2, PhysType, Constants DEF SegmentPlaced, Address
      <4>3. phys % PageSize \in Nat
        BY <4>2, Split
      <4> QED BY <4>1, <4>2, <4>3, <3>1 DEF Size
    <3> QED BY <3>1, <3>2, <3>3, <1>1, Whole
  <2> QED BY <2>1, <2>2
<1>9. ASSUME NEW v \in Page
      PROVE  MapsAt(d, a, k, n, flags, v) /\ new = MapPages(d, a, k, n, flags)
  BY <1>1, <1>2, <1>8, MapPagesAt DEF SegmentPlaced
<1>10. ASSUME NEW j \in 0 .. n - 1
       PROVE  new[a + j] = [frame |-> M + PageOf(phdr.offset) + j, flags |-> flags]
  <2>1. PICK v : v = a + j
    OBVIOUS
  <2>2. v \in Page /\ v \in a .. a + n - 1 /\ v - a = j /\ a + n <= Pages
    BY <2>1, <1>2, <1>4 DEF SegmentPlaced, Page
  <2>3. new[v] = [frame |-> k + j, flags |-> flags]
    BY <2>2, <1>9 DEF MapsAt
  <2>4. n # 0
    BY <1>2 DEF SegmentPlaced
  <2> QED BY <2>1, <2>3, <2>4, <1>6
<1>11. ASSUME NEW v \in Page, v \notin a .. a + n - 1 PROVE new[v] = d[v]
  <2>1. a + n <= Pages
    BY <1>2 DEF SegmentPlaced
  <2> QED BY <2>1, <1>9, <1>11 DEF MapsAt
<1>12. HasSegment(new, mem, phdr)
  BY <1>1, <1>3, <1>10 DEF HasSegment
<1> QED BY <1>1, <1>11, <1>12 DEF SegmentPages

\* A step that leaves the pages of a segment alone keeps it mapped.
LEMMA KeepsSegment ==
  ASSUME BelowHeap, NEW f \in Programs, NEW phdr \in Range(f.headers), NEW mem, NEW d,
         NEW new, HasSegment(d, mem, phdr),
         \A v \in Page : v \in SegmentPages(phdr) => new[v] = d[v]
  PROVE  HasSegment(new, mem, phdr)
<1>1. PICK a, n : a = PageOf(phdr.vaddr) /\ n = Span(phdr)
  OBVIOUS
<1>2. SegmentPlaced(phdr, a, n)
  BY <1>1, PlaceSegment
<1>3. ASSUME NEW j \in 0 .. n - 1 PROVE new[a + j] = d[a + j]
  <2>1. a + j \in Page /\ a + j \in a .. a + n - 1
    BY <1>2, Constants DEF SegmentPlaced, Page
  <2> QED BY <2>1, <1>1 DEF SegmentPages
<1> QED BY <1>1, <1>3 DEF HasSegment

\* All segments of an image that separates them are mapped.
LEMMA ImageHasSegments ==
  ASSUME BelowHeap, SegmentsFit, NEW mem \in Pointer, mem # NULL, NEW f \in Programs,
         Separate(f), process_map_elf(paging_new_4gb(User), mem, f).res >= 0,
         NEW phdr \in Range(f.headers)
  PROVE  HasSegment(process_map_elf(paging_new_4gb(User), mem, f).dir, mem, phdr)
<1> DEFINE Upto(i, d) == \A h \in 1 .. i : HasSegment(d, mem, f.headers[h])
           G == {x \in (0 .. Len(f.headers)) \X Directory : Upto(x[1], x[2])}
           first == paging_new_4gb(User)
<1>0. Len(f.headers) \in Nat /\ DOMAIN f.headers = 1 .. Len(f.headers)
  BY AddressSpacesAssumption
<1>1. first \in Directory
  BY NewDirectory, FlagsType
<1>2. <<0, first>> \in G
  BY <1>0, <1>1
<1>3. ASSUME NEW i \in 1 .. Len(f.headers), NEW d \in Directory, NEW new \in Directory,
             <<i - 1, d>> \in G, HeaderMaps(d, new, mem, f.headers[i])
      PROVE  <<i, new>> \in G
  <2>1. f.headers[i] \in Range(f.headers)
    BY Headers
  <2>2. /\ HasSegment(new, mem, f.headers[i])
        /\ \A v \in Page : v \notin SegmentPages(f.headers[i]) => new[v] = d[v]
    <3>1. PICK phdr1 : phdr1 = f.headers[i]
      OBVIOUS
    <3>2. phdr1 \in Range(f.headers) /\ HeaderMaps(d, new, mem, phdr1)
      BY <1>3, <2>1, <3>1
    <3>3. /\ HasSegment(new, mem, phdr1)
          /\ \A v \in Page : v \notin SegmentPages(phdr1) => new[v] = d[v]
      BY <3>2, HeaderHasSegment
    <3> QED BY <3>1, <3>3
  <2>3. Upto(i - 1, d)
    BY <1>3
  <2>4. ASSUME NEW h \in 1 .. i PROVE HasSegment(new, mem, f.headers[h])
    <3>1. CASE h = i
      BY <3>1, <2>2
    <3>2. CASE h # i
      <4>1. h \in 1 .. i - 1 /\ h \in 1 .. Len(f.headers)
        BY <3>2, <1>0
      <4>2. PICK phdr2 : phdr2 = f.headers[h]
        OBVIOUS
      <4>3. phdr2 \in Range(f.headers) /\ HasSegment(d, mem, phdr2)
        BY <4>1, <4>2, <2>3, Headers
      <4>4. SegmentPages(phdr2) \cap SegmentPages(f.headers[i]) = {}
        BY <4>1, <4>2, <3>2, <1>0 DEF Separate
      <4>5. HasSegment(new, mem, phdr2)
        BY <4>3, <4>4, <2>2, KeepsSegment
      <4> QED BY <4>2, <4>5
    <3> QED BY <3>1, <3>2
  <2>5. Upto(i, new) /\ i \in 0 .. Len(f.headers)
    BY <2>4, <1>0
  <2> HIDE DEF Upto
  <2> QED BY <2>5
<1>4. \A i \in 1 .. Len(f.headers) : \A d \in Directory : \A new \in Directory :
        <<i - 1, d>> \in G /\ HeaderMaps(d, new, mem, f.headers[i]) => <<i, new>> \in G
  BY <1>3
<1>5. PICK m : m = process_map_elf(first, mem, f)
  OBVIOUS
<1>6. \/ m.res = -EINVARG
      \/ m.res = 0 /\ m.dir \in Directory /\ <<Len(f.headers), m.dir>> \in G
  <2> HIDE DEF G, first
  <2> QED BY <1>1, <1>2, <1>4, <1>5, MapElfInduction
<1>7. <<Len(f.headers), m.dir>> \in G
  BY <1>5, <1>6 DEF EINVARG
<1>8. PICK h \in 1 .. Len(f.headers) : phdr = f.headers[h]
  BY Headers
<1>9. Upto(Len(f.headers), m.dir)
  BY <1>7
<1> QED BY <1>5, <1>8, <1>9

\* A process that a step leaves alone keeps its segments.
LEMMA ImageSame ==
  ASSUME NEW q, ImageMapped(q), file'[q] = file[q], memory'[q] = memory[q],
         directory'[q] = directory[q]
  PROVE  ImageMapped(q)'
BY DEF ImageMapped

\* ImagesMapped after a load.
LEMMA LoadImage ==
  ASSUME BelowHeap, SegmentsFit, Sane, ImagesMapped, NEW f \in Programs, NEW p, NEW m, NEW s,
         NEW new, Loads(f, p, m, s, new)
  PROVE  ImagesMapped'
<1> SUFFICES ASSUME NEW q \in alive' PROVE ImageMapped(q)'
  BY DEF ImagesMapped
<1>1. CASE q # p
  <2>1. q \in alive /\ ImageMapped(q)
    BY <1>1 DEF Loads, ImagesMapped
  <2> QED BY <2>1, <1>1, ImageSame DEF Loads, Sane, TypeOK
<1>2. CASE q = p
  <2>1. file'[p] = f /\ memory'[p] = m[1].ptr /\ directory'[p] = new
    BY DEF Loads, Sane, TypeOK
  <2>2. /\ m[1].ptr \in Pointer /\ m[1].ptr # NULL
        /\ m[2].ptr \in Pointer /\ m[2].ptr # NULL
    BY ServedPointer DEF Loads
  <2>3. PICK elf : elf = process_map_elf(paging_new_4gb(User), m[1].ptr, f)
    OBVIOUS
  <2>4. /\ elf.res >= 0 /\ elf.dir \in Directory /\ StackPage \in Page
        /\ FrameMaps(elf.dir, new, StackPage, m[2].ptr, StackSize, Writable)
    <3>1. paging_new_4gb(User) \in Directory
      BY NewDirectory, FlagsType
    <3>2. /\ process_map_memory(paging_new_4gb(User), m[1].ptr, m[2].ptr, f).res >= 0
          /\ new = process_map_memory(paging_new_4gb(User), m[1].ptr, m[2].ptr, f).dir
      BY DEF Loads
    <3> QED BY <3>1, <3>2, <2>2, <2>3, MapMemory
  <2>5. PICK k, c, N : /\ k = PageOf(m[2].ptr) /\ N = PagesFor(StackSize) /\ c \in 0 .. N
                       /\ new = MapPages(elf.dir, StackPage, k, c, Writable)
    BY <2>4 DEF FrameMaps
  <2>6. /\ N \in Nat /\ StackPage \in Nat /\ StackPage + N <= HeapPage
        /\ HeapPage \in Nat /\ Pages \in Nat /\ StackPage + c <= Pages /\ c \in Nat
    <3>1. PICK size : size = StackSize
      OBVIOUS
    <3>2. size \in Nat
      BY <3>1, AddressSpacesAssumption, Constants DEF Address
    <3>3. N \in Nat
      BY <3>1, <3>2, <2>5, PagesForSize
    <3> QED BY <3>3, <2>4, <2>5, PageType, Constants DEF BelowHeap
  <2>7. ASSUME NEW phdr \in Range(f.headers), NEW v \in Page, v \in SegmentPages(phdr)
        PROVE  new[v] = elf.dir[v]
    <3>1. PICK a, n : a = PageOf(phdr.vaddr) /\ n = Span(phdr)
      OBVIOUS
    <3>2. SegmentPlaced(phdr, a, n)
      BY <3>1, PlaceSegment
    <3>3. a + n <= StackPage \/ a >= StackPage + N
      BY <3>1, <2>5 DEF SegmentsFit
    <3>4. v \in a .. a + n - 1 /\ a \in Nat /\ n \in Nat /\ v \in Nat
      BY <3>1, <3>2, <2>7, PageType DEF SegmentPages, SegmentPlaced
    <3>5. v \notin StackPage .. StackPage + c - 1
      BY <3>3, <3>4, <2>5, <2>6
    <3>6. MapsAt(elf.dir, StackPage, k, c, Writable, v)
      BY <2>4, <2>6, MapPagesAt
    <3> QED BY <3>5, <3>6, <2>5, <2>6 DEF MapsAt
  <2>8. ASSUME Separate(f), NEW phdr \in Range(f.headers)
        PROVE  HasSegment(new, m[1].ptr, phdr)
    <3>1. HasSegment(elf.dir, m[1].ptr, phdr)
      BY <2>2, <2>3, <2>4, <2>8, ImageHasSegments
    <3>2. \A v \in Page : v \in SegmentPages(phdr) => new[v] = elf.dir[v]
      BY <2>7
    <3> QED BY <3>1, <3>2, KeepsSegment
  <2> QED BY <1>2, <2>1, <2>8 DEF ImageMapped
<1> QED BY <1>1, <1>2

\* malloc and free leave what lies below the heap as it is.
LEMMA FrameKeepsBelow ==
  ASSUME NEW ptr \in Pointer, NEW size, ptr = NULL => size = 0, NEW dir, NEW new, NEW flags,
         FrameMaps(dir, new, PageOf(ptr), ptr, size, flags), NEW v \in Page, v < HeapPage
  PROVE  new[v] = dir[v]
<1>1. PICK a, c : /\ a = PageOf(ptr) /\ c \in 0 .. PagesFor(size) /\ a + c < Pages
                  /\ new = MapPages(dir, a, a, c, flags)
  BY DEF FrameMaps
<1>2. a \in Page /\ a \in Nat /\ c \in Nat /\ v \in Nat /\ Pages \in Nat /\ HeapPage \in Nat
  BY <1>1, Slices, PageType, Constants
<1>3. MapsAt(dir, a, a, c, flags, v)
  BY <1>2, MapPagesAt
<1>4. v \notin a .. a + c - 1
  <2>1. CASE ptr = NULL
    <3>1. c = 0
      BY <2>1, <1>1, BytesFromNothing
    <3> QED BY <3>1, <1>2
  <2>2. CASE ptr # NULL
    <3>1. a >= HeapPage
      BY <2>2, <1>1, PointerPage, HeapPages
    <3> QED BY <3>1, <1>2
  <2> QED BY <2>1, <2>2
<1> QED BY <1>1, <1>2, <1>3, <1>4 DEF MapsAt

\* Changes of pages of the heap leave the segments as they are.
LEMMA KeepsImage ==
  ASSUME BelowHeap, NEW q, file[q] \in Programs, ImageMapped(q), file'[q] = file[q],
         memory'[q] = memory[q], \A v \in Page : v < HeapPage => directory'[q][v] = directory[q][v]
  PROVE  ImageMapped(q)'
<1> SUFFICES ASSUME Separate(file[q]), NEW phdr \in Range(file[q].headers)
             PROVE  HasSegment(directory'[q], memory[q], phdr)
  BY DEF ImageMapped
<1>1. HasSegment(directory[q], memory[q], phdr)
  BY DEF ImageMapped
<1>2. ASSUME NEW v \in Page, v \in SegmentPages(phdr) PROVE directory'[q][v] = directory[q][v]
  <2>1. PICK a, n : a = PageOf(phdr.vaddr) /\ n = Span(phdr)
    OBVIOUS
  <2>2. SegmentPlaced(phdr, a, n)
    BY <2>1, PlaceSegment
  <2>3. v \in a .. a + n - 1 /\ a \in Nat /\ n \in Nat /\ v \in Nat /\ a + n <= HeapPage
    BY <1>2, <2>1, <2>2, PageType DEF SegmentPages, SegmentPlaced
  <2>4. v < HeapPage
    BY <2>3, Constants
  <2> QED BY <2>4
<1> QED BY <1>1, <1>2, KeepsSegment

\* ImagesMapped after malloc.
LEMMA MallocImage ==
  ASSUME BelowHeap, Sane, ImagesMapped, NEW size \in Sizes, NEW m, NEW s,
         Mallocs(size, m, s), MallocFails(m) \/ \E i, new : MallocMaps(size, m, i, new)
  PROVE  ImagesMapped'
<1> SUFFICES ASSUME NEW q \in alive' PROVE ImageMapped(q)'
  BY DEF ImagesMapped
<1>1. q \in alive /\ ImageMapped(q)
  BY DEF Mallocs, ImagesMapped
<1>2. CASE MallocFails(m)
  BY <1>1, <1>2, ImageSame DEF MallocFails, Mallocs, image
<1>3. ASSUME NEW i, NEW new, MallocMaps(size, m, i, new)
      PROVE  ImageMapped(q)'
  <2>1. CASE q # runner
    BY <1>1, <1>3, <2>1, ImageSame DEF MallocMaps, Mallocs, image, Sane, TypeOK
  <2>2. CASE q = runner
    <3>1. file'[q] = file[q] /\ memory'[q] = memory[q] /\ directory'[q] = new
      BY <1>3, <2>2 DEF MallocMaps, Mallocs, image, Sane, TypeOK
    <3>2. PICK ptr : ptr = m.ptr
      OBVIOUS
    <3>3. /\ ptr \in Pointer /\ ptr # NULL
          /\ FrameMaps(directory[q], new, PageOf(ptr), ptr, size, Writable)
      BY <1>3, <2>2, <3>2, ServedPointer DEF Mallocs, MallocMaps
    <3>4. ASSUME NEW v \in Page, v < HeapPage PROVE new[v] = directory[q][v]
      BY <3>3, <3>4, FrameKeepsBelow
    <3>5. file[q] \in Programs
      BY <1>1, Entries
    <3> QED BY <3>1, <3>4, <3>5, <1>1, KeepsImage
  <2> QED BY <2>1, <2>2
<1> QED BY <1>2, <1>3

\* ImagesMapped after free.
LEMMA FreeImage ==
  ASSUME BelowHeap, Sane, ImagesMapped, NEW ptr, NEW i, NEW new, Frees(ptr, i, new)
  PROVE  ImagesMapped'
<1> SUFFICES ASSUME NEW q \in alive' PROVE ImageMapped(q)'
  BY DEF ImagesMapped
<1>1. q \in alive /\ ImageMapped(q)
  BY DEF Frees, ImagesMapped
<1>2. CASE q # runner
  BY <1>1, <1>2, ImageSame DEF Frees, image, Sane, TypeOK
<1>3. CASE q = runner
  <2>1. file'[q] = file[q] /\ memory'[q] = memory[q] /\ directory'[q] = new
    BY <1>3 DEF Frees, image, Sane, TypeOK
  <2>2. PICK size : size = allocations[q][i].size
    OBVIOUS
  <2>3. /\ ptr \in Pointer /\ FrameMaps(directory[q], new, PageOf(ptr), ptr, size, {})
        /\ i \in Index /\ q \in Slot /\ allocations[q][i].ptr = ptr
    BY <1>3, <2>2 DEF Frees
  <2>4. ptr = NULL => size = 0
    <3>1. ptr = NULL => allocations[q][i] = Empty
      BY <2>3 DEF Sane, Shape
    <3> QED BY <3>1, <2>2 DEF Empty
  <2>5. ASSUME NEW v \in Page, v < HeapPage PROVE new[v] = directory[q][v]
    BY <2>3, <2>4, <2>5, FrameKeepsBelow
  <2>6. file[q] \in Programs
    BY <1>1, Entries
  <2> QED BY <2>1, <2>5, <2>6, <1>1, KeepsImage
<1> QED BY <1>2, <1>3

\* ImagesMapped after an exit.
LEMMA TerminateImage ==
  ASSUME Sane, ImagesMapped, runner \in alive, NEW tbl, Terminate(tbl)
  PROVE  ImagesMapped'
<1> SUFFICES ASSUME NEW q \in alive' PROVE ImageMapped(q)'
  BY DEF ImagesMapped
<1>1. q \in alive /\ q # runner /\ ImageMapped(q)
  BY DEF Terminate, ImagesMapped
<1> QED BY <1>1, ImageSame DEF Terminate, Sane, TypeOK

\* ImagesMapped is inductive together with Sane.
LEMMA NextImage ==
  ASSUME BelowHeap, SegmentsFit
  PROVE  Sane /\ ImagesMapped /\ [Next]_vars => ImagesMapped'
<1> SUFFICES ASSUME Sane, ImagesMapped, [Next]_vars PROVE ImagesMapped'
  OBVIOUS
<1>1. ASSUME NEW f \in Programs, process_load_for_slot(f) PROVE ImagesMapped'
  BY <1>1, LoadLoads, LoadImage
<1>2. CASE task_next \/ UNCHANGED vars
  <2> SUFFICES ASSUME NEW q \in alive' PROVE ImageMapped(q)'
    BY DEF ImagesMapped
  <2>1. q \in alive /\ ImageMapped(q)
    BY <1>2 DEF task_next, vars, ImagesMapped
  <2> QED BY <1>2, <2>1, ImageSame DEF task_next, vars, image
<1>3. ASSUME NEW size \in Sizes, process_malloc(size) PROVE ImagesMapped'
  BY <1>3, MallocMallocs, MallocImage
<1>4. ASSUME NEW ptr \in Pointer, process_free(ptr) PROVE ImagesMapped'
  BY <1>4, FreeFrees, FreeImage
<1>5. CASE process_terminate
  BY <1>5, RunnerExists, TerminateImage DEF process_terminate
<1>6. ASSUME NEW reachable \in BOOLEAN, copy_string_from_task(reachable) PROVE ImagesMapped'
  <2>1. PICK m, s : Copies(m, s) /\ (CopyEnds(m) \/ Terminate(m.heap))
    BY <1>6, CopyCopies
  <2>2. CASE CopyEnds(m)
    <3> SUFFICES ASSUME NEW q \in alive' PROVE ImageMapped(q)'
      BY DEF ImagesMapped
    <3>1. q \in alive /\ ImageMapped(q)
      BY <2>2 DEF CopyEnds, ImagesMapped
    <3> QED BY <2>2, <3>1, ImageSame DEF CopyEnds, image
  <2>3. CASE Terminate(m.heap)
    BY <2>3, <1>6, CopyCopies, TerminateImage
  <2> QED BY <2>1, <2>2, <2>3
<1> QED BY <1>1, <1>2, <1>3, <1>4, <1>5, <1>6 DEF Next

\* At the start no process exists.
LEMMA InitImage == Init => ImagesMapped
BY DEF Init, ImagesMapped

\* SegmentsMapped follows.
LEMMA SegmentsReached ==
  ASSUME BelowHeap, Sane, ImagesMapped
  PROVE  SegmentsMapped
<1> SUFFICES ASSUME NEW p \in alive, Separate(file[p]), NEW phdr \in Range(file[p].headers),
                    NEW k \in 0 .. phdr.memsz - 1
             PROVE  IsAt(p, phdr.vaddr + k, memory[p] + phdr.offset + k,
                         IF "PF_W" \in phdr.flags THEN Writable ELSE User)
  BY DEF SegmentsMapped
<1>1. PICK virt, off, sz, a, r, mem, dir :
        /\ virt = phdr.vaddr /\ off = phdr.offset /\ sz = phdr.memsz
        /\ a = PageOf(virt) /\ r = off % PageSize /\ mem = memory[p] /\ dir = directory[p]
  OBVIOUS
<1>2. /\ virt \in Nat /\ off \in Nat /\ sz \in Nat /\ mem \in Pointer /\ file[p] \in Programs
      /\ SegmentPlaced(phdr, a, Span(phdr)) /\ k \in Nat /\ k < sz
  <2>1. file[p] \in Programs /\ mem \in Pointer
    BY <1>1, Entries
  <2>2. SegmentPlaced(phdr, a, Span(phdr))
    BY <1>1, <2>1, PlaceSegment
  <2> QED BY <1>1, <2>1, <2>2, Constants DEF SegmentPlaced, Address
<1>3. virt % PageSize = r
  BY <1>1 DEF Separate
<1>4. PICK o, M : o = PageOf(off) /\ M = PageOf(mem)
  OBVIOUS
<1>5. /\ a \in Nat /\ r \in 0 .. PageSize - 1 /\ virt = a * PageSize + r
      /\ o \in Nat /\ off = o * PageSize + r
      /\ M \in Nat /\ mem = M * PageSize
  <2>1. a \in Nat /\ virt = a * PageSize + (virt % PageSize)
    BY <1>1, <1>2, Split
  <2>2. o \in Nat /\ r \in 0 .. PageSize - 1 /\ off = o * PageSize + r
    BY <1>1, <1>2, <1>4, Split
  <2>3. M \in Nat /\ mem = M * PageSize
    BY <1>2, <1>4, Slices, PageType
  <2> QED BY <2>1, <2>2, <2>3, <1>3
<1>6. PICK j, size, b : j = r + k /\ size = r + sz /\ b = PageOf(r + k)
  OBVIOUS
<1>7. /\ j \in Nat /\ size \in Nat /\ j \in 0 .. size - 1 /\ b = PageOf(j)
      /\ Span(phdr) = PagesFor(size)
  <2>1. r \in Nat /\ k \in Nat /\ sz \in Nat /\ k < sz
    BY <1>2, <1>5, Constants
  <2>2. j \in Nat /\ size \in Nat /\ j \in 0 .. size - 1
    BY <2>1, <1>6
  <2>3. Span(phdr) = PagesFor(size)
    BY <1>1, <1>6 DEF Span
  <2> QED BY <2>2, <2>3, <1>6
<1>8. b \in 0 .. Span(phdr) - 1 /\ b \in Nat
  BY <1>7, PageOfByte
<1>9. dir[a + b] = [frame |-> M + o + b, flags |-> SegmentFlags(phdr)]
  BY <1>1, <1>4, <1>8 DEF ImagesMapped, ImageMapped, HasSegment
<1>10. PICK f, base : f = M + o /\ base = a * PageSize
  OBVIOUS
<1>11. f \in Nat /\ dir[a + b].frame = f + b /\ dir[a + b].flags = SegmentFlags(phdr)
  BY <1>5, <1>9, <1>10
<1>12. /\ paging_get_physical_address(dir, base + j) = (f * PageSize) + j
       /\ paging_get(dir, paging_align_to_lower_page(base + j)) = dir[a + b]
  BY <1>5, <1>7, <1>10, <1>11, Reach
<1>13. base + j = virt + k /\ (f * PageSize) + j = mem + off + k
  <2>1. /\ a * PageSize \in Nat /\ M * PageSize \in Nat /\ o * PageSize \in Nat
        /\ (M + o) * PageSize = M * PageSize + o * PageSize
    BY <1>5, Constants
  <2> QED BY <2>1, <1>2, <1>5, <1>6, <1>10
<1>14. SegmentFlags(phdr) = IF "PF_W" \in phdr.flags THEN Writable ELSE User
  BY DEF SegmentFlags, Writable
<1> QED BY <1>1, <1>11, <1>12, <1>13, <1>14 DEF IsAt

\* Every byte of a segment stays where the program was linked to find it, with
\* the rights it was linked with, for as long as the process exists, even when
\* the heap handed out a run that was not free: malloc and free touch no page
\* below the heap.
THEOREM SegmentsStayMapped ==
  ASSUME BelowHeap, SegmentsFit
  PROVE  Spec => []SegmentsMapped
BY InitSane, NextSane, InitImage, NextImage, SegmentsReached, PTL DEF Spec

-----------------------------------------------------------------------------
(* What is recorded of an image                                            *)

\* 0 stands for no address in struct elf_file: no segment that is loaded begins
\* there.
NotAtZero ==
  \A f \in Programs : \A phdr \in Range(f.headers) : phdr.type = "PT_LOAD" => phdr.vaddr # 0

\* The record of an image says what its loadable segments so far are.
Tight(elf, mem, loadable) ==
  IF loadable = {} THEN elf.virtual_base = 0 /\ elf.virtual_end = 0
  ELSE /\ elf.virtual_base # 0
       /\ \E phdr \in loadable : /\ phdr.vaddr = elf.virtual_base
                                 /\ elf.physical_base = mem + phdr.offset
       /\ \A phdr \in loadable : elf.virtual_base <= phdr.vaddr
       /\ \E phdr \in loadable : elf.virtual_end = phdr.vaddr + phdr.filesz
       /\ \A phdr \in loadable : phdr.vaddr + phdr.filesz <= elf.virtual_end

\* The loadable segments among the first n headers.
Loadable(f, n) ==
  {phdr \in Range(f.headers) :
     phdr.type = "PT_LOAD" /\ \E h \in 1 .. n : phdr = f.headers[h]}

\* One more header keeps the extent tight.
LEMMA OneTighter ==
  ASSUME NEW elf \in ElfFile, NEW mem, NEW S, Tight(elf, mem, S),
         \A q \in S : q.vaddr \in Nat /\ q.filesz \in Nat,
         NEW phdr, phdr.vaddr \in Nat \ {0}, phdr.filesz \in Nat, phdr.type = "PT_LOAD"
  PROVE  Tight(elf_process_pheader(elf, mem, phdr), mem, S \cup {phdr})
<1>1. PICK new, v, end, T : /\ new = elf_process_pheader(elf, mem, phdr)
                            /\ v = phdr.vaddr /\ end = v + phdr.filesz /\ T = S \cup {phdr}
  OBVIOUS
<1>2. elf.virtual_base \in Nat /\ elf.virtual_end \in Nat /\ v \in Nat \ {0} /\ end \in Nat
  BY <1>1 DEF ElfFile
<1> DEFINE low  == elf.virtual_base >= v \/ elf.virtual_base = 0
           high == elf.virtual_end <= end \/ elf.virtual_end = 0
<1>4. /\ new.virtual_base = IF low THEN v ELSE elf.virtual_base
      /\ new.physical_base = IF low THEN mem + phdr.offset ELSE elf.physical_base
      /\ new.virtual_end = IF high THEN end ELSE elf.virtual_end
  BY <1>1 DEF elf_process_pheader, elf_process_pheader_pt_load
<1>5. phdr \in T /\ S \subseteq T /\ \A q \in T : q = phdr \/ q \in S
  BY <1>1
<1>6. /\ new.virtual_base # 0
      /\ \E q \in T : q.vaddr = new.virtual_base /\ new.physical_base = mem + q.offset
      /\ \A q \in T : new.virtual_base <= q.vaddr
  <2>1. CASE S = {}
    BY <2>1, <1>1, <1>2, <1>4, <1>5 DEF Tight
  <2>2. CASE S # {} /\ low
    <3>1. new.virtual_base = v /\ new.physical_base = mem + phdr.offset
      BY <2>2, <1>4
    <3>2. \A q \in S : v <= q.vaddr
      BY <2>2, <1>2 DEF Tight
    <3> QED BY <3>1, <3>2, <1>1, <1>2, <1>5
  <2>3. CASE S # {} /\ ~low
    <3>1. new.virtual_base = elf.virtual_base /\ new.physical_base = elf.physical_base
      BY <2>3, <1>4
    <3>2. elf.virtual_base <= v
      BY <2>3, <1>2
    <3> QED BY <2>3, <3>1, <3>2, <1>1, <1>2, <1>5 DEF Tight
  <2> QED BY <2>1, <2>2, <2>3
<1>7. /\ \E q \in T : new.virtual_end = q.vaddr + q.filesz
      /\ \A q \in T : q.vaddr + q.filesz <= new.virtual_end
  <2>1. CASE S = {}
    BY <2>1, <1>1, <1>2, <1>4, <1>5 DEF Tight
  <2>2. CASE S # {} /\ high
    <3>1. new.virtual_end = end
      BY <2>2, <1>4
    <3>2. elf.virtual_end <= end
      BY <2>2, <1>2
    <3>3. \A q \in S : q.vaddr + q.filesz <= end
      <4> SUFFICES ASSUME NEW q \in S PROVE q.vaddr + q.filesz <= end
        OBVIOUS
      <4>1. q.vaddr + q.filesz <= elf.virtual_end /\ q.vaddr + q.filesz \in Nat
        BY DEF Tight
      <4> QED BY <4>1, <3>2, <1>2
    <3> QED BY <3>1, <3>3, <1>1, <1>2, <1>5
  <2>3. CASE S # {} /\ ~high
    <3>1. new.virtual_end = elf.virtual_end
      BY <2>3, <1>4
    <3>2. end <= elf.virtual_end
      BY <2>3, <1>2
    <3>3. /\ \E q \in S : elf.virtual_end = q.vaddr + q.filesz
          /\ \A q \in S : q.vaddr + q.filesz <= elf.virtual_end
      BY <2>3 DEF Tight
    <3> QED BY <3>1, <3>2, <3>3, <1>1, <1>5
  <2> QED BY <2>1, <2>2, <2>3
<1> QED BY <1>1, <1>5, <1>6, <1>7 DEF Tight

\* After the last header the extent is that of all loadable segments.
LEMMA ImageTight ==
  ASSUME NotAtZero, NEW mem \in Pointer, NEW f \in Programs
  PROVE  Tight(elf_process_pheaders(mem, f), mem, Loadable(f, Len(f.headers)))
<1> DEFINE G == {x \in (0 .. Len(f.headers)) \X ElfFile : Tight(x[2], mem, Loadable(f, x[1]))}
<1>0. Len(f.headers) \in Nat
  BY Headers
<1>1. <<0, Unprocessed>> \in G
  <2>1. Loadable(f, 0) = {}
    BY DEF Loadable
  <2> QED BY <2>1, <1>0 DEF Unprocessed, ElfFile, Tight
<1>2. ASSUME NEW i \in 1 .. Len(f.headers), NEW elf \in ElfFile, <<i - 1, elf>> \in G
      PROVE  <<i, elf_process_pheader(elf, mem, f.headers[i])>> \in G
  <2>1. PICK phdr : phdr = f.headers[i]
    OBVIOUS
  <2>2. /\ phdr \in Range(f.headers) /\ phdr.vaddr \in Address /\ phdr.offset \in Address
        /\ phdr.filesz \in Address
    BY <2>1, Headers
  <2>3. PICK new : new = elf_process_pheader(elf, mem, phdr)
    OBVIOUS
  <2>4. new \in ElfFile
    BY <2>2, <2>3, PheaderType
  <2>5. Tight(elf, mem, Loadable(f, i - 1))
    BY <1>2
  <2>6. \A h \in 1 .. i : h = i \/ h \in 1 .. i - 1
    BY <1>0
  <2>7. i \in 1 .. i /\ (\A h \in 1 .. i - 1 : h \in 1 .. i)
    BY <1>0
  <2>8. CASE phdr.type = "PT_LOAD"
    <3>1. Loadable(f, i) = Loadable(f, i - 1) \cup {phdr}
      BY <2>1, <2>2, <2>6, <2>7, <2>8 DEF Loadable
    <3>2. phdr.vaddr # 0
      BY <2>2, <2>8 DEF NotAtZero
    <3>3. phdr.vaddr \in Nat \ {0} /\ phdr.filesz \in Nat
      BY <2>2, <3>2, Constants DEF Address
    <3>4. \A q \in Loadable(f, i - 1) : q.vaddr \in Nat /\ q.filesz \in Nat
      <4> SUFFICES ASSUME NEW q \in Loadable(f, i - 1) PROVE q.vaddr \in Nat /\ q.filesz \in Nat
        OBVIOUS
      <4>1. q.vaddr \in Address /\ q.filesz \in Address
        BY Headers DEF Loadable
      <4> QED BY <4>1, Constants DEF Address
    <3>5. PICK S : S = Loadable(f, i - 1)
      OBVIOUS
    <3>6. Tight(elf_process_pheader(elf, mem, phdr), mem, S \cup {phdr})
      BY <2>5, <2>8, <3>3, <3>4, <3>5, OneTighter
    <3>7. Tight(new, mem, Loadable(f, i))
      BY <2>3, <3>1, <3>5, <3>6
    <3> QED BY <2>1, <2>3, <2>4, <3>7, <1>0
  <2>9. CASE phdr.type # "PT_LOAD"
    <3>1. Loadable(f, i) = Loadable(f, i - 1)
      BY <2>1, <2>6, <2>7, <2>9 DEF Loadable
    <3>2. new = elf
      BY <2>3, <2>9 DEF elf_process_pheader
    <3> QED BY <2>1, <2>3, <2>4, <2>5, <3>1, <3>2, <1>0
  <2> QED BY <2>8, <2>9
<1>3. \A i \in 1 .. Len(f.headers) : \A elf \in ElfFile : <<i - 1, elf>> \in G =>
        <<i, elf_process_pheader(elf, mem, f.headers[i])>> \in G
  BY <1>2
<1>4. <<Len(f.headers), elf_process_pheaders(mem, f)>> \in G
  <2> HIDE DEF G
  <2> QED BY <1>1, <1>3, ExtentInduction
<1> QED BY <1>4

\* The record of an image is the one its file gave.
Recorded == \A p \in alive : elf_file[p] = elf_process_loaded(memory[p], file[p])

\* Recorded is inductive together with Sane.
LEMMA NextRecorded == Sane /\ Recorded /\ [Next]_vars => Recorded'
<1> SUFFICES ASSUME Sane, Recorded, [Next]_vars, NEW q \in alive'
             PROVE  elf_file'[q] = elf_process_loaded(memory'[q], file'[q])
  BY DEF Recorded
<1>1. ASSUME NEW f \in Programs, process_load_for_slot(f)
      PROVE  elf_file'[q] = elf_process_loaded(memory'[q], file'[q])
  <2>1. PICK p, m, s, new : Loads(f, p, m, s, new)
    BY <1>1, LoadLoads
  <2>2. CASE q = p
    BY <2>1, <2>2 DEF Loads, Sane, TypeOK
  <2>3. CASE q # p
    BY <2>1, <2>3 DEF Loads, Sane, TypeOK, Recorded
  <2> QED BY <2>2, <2>3
<1>2. ASSUME UNCHANGED image, alive' = alive
      PROVE  elf_file'[q] = elf_process_loaded(memory'[q], file'[q])
  BY <1>2 DEF Recorded, image
<1>3. ASSUME NEW tbl, Terminate(tbl)
      PROVE  elf_file'[q] = elf_process_loaded(memory'[q], file'[q])
  BY <1>3 DEF Terminate, Recorded, Sane, TypeOK
<1>4. \/ \E f \in Programs : process_load_for_slot(f)
      \/ UNCHANGED image /\ alive' = alive
      \/ \E tbl : Terminate(tbl)
  <2>1. CASE task_next \/ UNCHANGED vars
    BY <2>1 DEF task_next, vars
  <2>2. ASSUME NEW size \in Sizes, process_malloc(size) PROVE UNCHANGED image /\ alive' = alive
    BY <2>2 DEF process_malloc
  <2>3. ASSUME NEW ptr \in Pointer, process_free(ptr) PROVE UNCHANGED image /\ alive' = alive
    BY <2>3 DEF process_free
  <2>4. ASSUME NEW reachable \in BOOLEAN, copy_string_from_task(reachable)
        PROVE  (UNCHANGED image /\ alive' = alive) \/ \E tbl : Terminate(tbl)
    BY <2>4 DEF copy_string_from_task
  <2> QED BY <2>1, <2>2, <2>3, <2>4 DEF Next, process_terminate
<1> QED BY <1>1, <1>2, <1>3, <1>4

\* ExtentIsTight follows.
LEMMA ExtentTight ==
  ASSUME NotAtZero, Sane, Recorded
  PROVE  ExtentIsTight
<1> SUFFICES ASSUME NEW p \in alive, NEW S,
                    S = {phdr \in Range(file[p].headers) : phdr.type = "PT_LOAD"},
                    file[p].valid, S # {}
             PROVE  /\ elf_file[p].virtual_base = Min({phdr.vaddr : phdr \in S})
                    /\ elf_file[p].virtual_end = Max({phdr.vaddr + phdr.filesz : phdr \in S})
                    /\ \E phdr \in S : /\ phdr.vaddr = elf_file[p].virtual_base
                                       /\ elf_file[p].physical_base = memory[p] + phdr.offset
  BY DEF ExtentIsTight
<1>1. PICK f, mem, elf : f = file[p] /\ mem = memory[p] /\ elf = elf_file[p]
  OBVIOUS
<1>2. f \in Programs /\ mem \in Pointer
  BY <1>1, Entries
<1>3. elf = elf_process_pheaders(mem, f)
  BY <1>1 DEF Recorded, elf_process_loaded
<1>4. S = Loadable(f, Len(f.headers))
  BY <1>1, <1>2, Headers DEF Loadable
<1>5. Tight(elf, mem, S)
  BY <1>2, <1>3, <1>4, ImageTight
<1>6. \A phdr \in S : phdr.vaddr \in Nat /\ phdr.vaddr + phdr.filesz \in Nat
  <2> SUFFICES ASSUME NEW phdr \in S PROVE phdr.vaddr \in Nat /\ phdr.vaddr + phdr.filesz \in Nat
    OBVIOUS
  <2>1. phdr.vaddr \in Address /\ phdr.filesz \in Address
    BY <1>1, <1>2, Headers
  <2> QED BY <2>1, Constants DEF Address
<1>7. elf.virtual_base = Min({phdr.vaddr : phdr \in S})
  <2>1. PICK T, b : T = {phdr.vaddr : phdr \in S} /\ b = elf.virtual_base
    OBVIOUS
  <2>2. b \in T /\ b \in Nat /\ T \subseteq Nat /\ \A x \in T : b <= x
    BY <2>1, <1>5, <1>6 DEF Tight
  <2>3. Min(T) \in T /\ \A x \in T : Min(T) <= x
    BY <2>2 DEF Min
  <2>4. Min(T) <= b /\ b <= Min(T) /\ Min(T) \in Nat
    BY <2>2, <2>3
  <2>5. Min(T) = b
    BY <2>2, <2>4
  <2> QED BY <2>1, <2>5
<1>8. elf.virtual_end = Max({phdr.vaddr + phdr.filesz : phdr \in S})
  <2>1. PICK T, b : T = {phdr.vaddr + phdr.filesz : phdr \in S} /\ b = elf.virtual_end
    OBVIOUS
  <2>2. b \in T /\ b \in Nat /\ T \subseteq Nat /\ \A x \in T : b >= x
    BY <2>1, <1>5, <1>6 DEF Tight
  <2>3. Max(T) \in T /\ \A x \in T : Max(T) >= x
    BY <2>2 DEF Max
  <2>4. Max(T) >= b /\ b >= Max(T) /\ Max(T) \in Nat
    BY <2>2, <2>3
  <2>5. Max(T) = b
    BY <2>2, <2>4
  <2> QED BY <2>1, <2>5
<1>9. \E phdr \in S : phdr.vaddr = elf.virtual_base /\ elf.physical_base = mem + phdr.offset
  BY <1>5 DEF Tight
<1> QED BY <1>1, <1>7, <1>8, <1>9

\* At the start no process exists.
LEMMA InitRecorded == Init => Recorded
BY DEF Init, Recorded

\* What elf_load records of an image is its lowest and its highest loadable
\* segment, in whatever order the file lists them, as long as none of them is
\* linked to address 0, which the code takes for no address.
THEOREM ExtentStaysTight ==
  ASSUME NotAtZero
  PROVE  Spec => []ExtentIsTight
BY InitSane, NextSane, InitRecorded, NextRecorded, ExtentTight, PTL DEF Spec

=============================================================================
