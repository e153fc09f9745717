------------------------------- MODULE Paging -------------------------------
(***************************************************************************)
(* Page directories, memory/paging/paging.c.  Two levels of 1024 entries    *)
(* are one function of the page number: the index pair is its quotient and  *)
(* remainder.  An entry is the frame and the flags that the code packs into *)
(* one word; a function that may fail returns its result and the directory. *)
(***************************************************************************)
EXTENDS Integers

CONSTANTS
  PageSize,  \* PAGING_PAGE_SIZE
  Pages      \* pages of the address space; addresses wrap at its end

ASSUME PagingAssumption == PageSize \in Nat \ {0, 1} /\ Pages \in Nat \ {0}

EINVARG == 2

Page       == 0 .. Pages - 1
Flag       == {"PRESENT", "WRITEABLE", "ACCESS_FROM_ALL"}
PageEntry  == [frame : Page, flags : SUBSET Flag]
Wrap(addr) == addr % (Pages * PageSize)

Address    == 0 .. (Pages * PageSize) - 1

PageOf(addr)   == addr \div PageSize
PagesFor(size) == (size + PageSize - 1) \div PageSize

paging_is_aligned(addr) == addr % PageSize = 0

paging_align_address(ptr) ==
  IF paging_is_aligned(ptr) THEN ptr
  ELSE Wrap((ptr + PageSize) - (ptr % PageSize))

paging_align_to_lower_page(ptr) == ptr - (ptr % PageSize)

\* Faulty variant: the offset does not advance from table to table.
FirstTable(flags) == [v \in Page |-> [frame |-> v % 4, flags |-> flags]]

\* Every page mapped to itself.
paging_new_4gb(flags) == [v \in Page |-> [frame |-> v, flags |-> flags]]

\* An address that is not aligned leaves both indexes at 0.
paging_get(dir, virt) == dir[IF paging_is_aligned(virt) THEN PageOf(virt) ELSE 0]

paging_get_physical_address(dir, virt) ==
  LET aligned == paging_align_to_lower_page(virt)
  IN  (paging_get(dir, aligned).frame * PageSize) + (virt - aligned)

Mapped(res, dir) == [res |-> res, dir |-> dir]

paging_set(dir, virt, entry) ==
  IF ~paging_is_aligned(virt) THEN Mapped(-EINVARG, dir)
  ELSE Mapped(0, [dir EXCEPT ![PageOf(virt)] = entry])

paging_map(dir, virt, phys, flags) ==
  IF ~paging_is_aligned(virt) \/ ~paging_is_aligned(phys)
    THEN Mapped(-EINVARG, dir)
    ELSE paging_set(dir, virt, [frame |-> PageOf(phys), flags |-> flags])

\* Faulty variant: the last page of the range is left out.
MapShort(dir, virt, phys, count, flags) ==
  Mapped(0, [v \in Page |->
    LET i == (v - PageOf(virt)) % Pages
    IN  IF i < count - 1 THEN [frame |-> (PageOf(phys) + i) % Pages, flags |-> flags]
                         ELSE dir[v]])

\* The loop maps page after page; both addresses are aligned or the first
\* iteration fails.  Its i-th page is the i-th after virt, wrapping around.
paging_map_range(dir, virt, phys, count, flags) ==
  IF count > 0 /\ (~paging_is_aligned(virt) \/ ~paging_is_aligned(phys))
    THEN Mapped(-EINVARG, dir)
    ELSE Mapped(0, [v \in Page |->
           LET i == (v - PageOf(virt)) % Pages
           IN  IF i < count THEN [frame |-> (PageOf(phys) + i) % Pages, flags |-> flags]
                            ELSE dir[v]])

paging_map_to(dir, virt, phys, phys_end, flags) ==
  IF \/ \E addr \in {virt, phys, phys_end} : ~paging_is_aligned(addr)
     \/ phys_end < phys
    THEN Mapped(-EINVARG, dir)
    ELSE paging_map_range(dir, virt, phys, (phys_end - phys) \div PageSize, flags)
=============================================================================
