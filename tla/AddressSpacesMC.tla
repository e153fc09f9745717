-------------------------- MODULE AddressSpacesMC --------------------------
(***************************************************************************)
(* Programs for the model checker: one laid out as blank.elf, with code,    *)
(* data and, as the linker leaves it, a .bss that has offset 0; and one     *)
(* whose segment is longer than the file, behind a header that is not       *)
(* valid.                                                                   *)
(***************************************************************************)
EXTENDS AddressSpaces

Blank ==
  [size |-> 7, valid |-> TRUE,
   headers |-> <<Segment("PT_LOAD", 8, 4, 2, 2, {"PF_R", "PF_X"}),
                 Segment("PT_LOAD", 14, 6, 1, 1, {"PF_R", "PF_W"}),
                 Segment("PT_LOAD", 16, 0, 0, 3, {"PF_R", "PF_W"}),
                 Segment("PT_GNU_STACK", 0, 0, 0, 0, {"PF_R", "PF_W"})>>]

Overlong ==
  [size |-> 3, valid |-> FALSE,
   headers |-> <<Segment("PT_LOAD", 8, 0, 3, 7, {"PF_R", "PF_W"})>>]

Files == {Blank, Overlong}
=============================================================================
