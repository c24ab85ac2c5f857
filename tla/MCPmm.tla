------------------------------- MODULE MCPmm -------------------------------
(* Small machines for the page allocator. *)
EXTENDS Pmm

Section(first, count, type) == [start |-> first, pages |-> count, free |-> type]
Machine(secs, base, pages, head) ==
    [secs |-> secs, data |-> [base |-> base, pages |-> pages], head |-> head]

(* The first free memory starts right after the first megabyte. *)
OneBank ==
    Machine(<<Section(0, 1, PMM_SECTION_BAD), Section(1, 4, PMM_SECTION_FREE),
              Section(5, 1, PMM_SECTION_BAD)>>, 1, 1, 4)

(* Two banks around memory the firmware keeps, which counts as used. *)
TwoBanks ==
    Machine(<<Section(0, 1, PMM_SECTION_BAD), Section(1, 3, PMM_SECTION_FREE),
              Section(4, 1, PMM_SECTION_USED), Section(5, 2, PMM_SECTION_FREE),
              Section(7, 1, PMM_SECTION_BAD)>>, 1, 1, 5)

(* The kernel's own image lies before the free memory, and the memory map    *)
(* ends with it.                                                           *)
OpenEnd ==
    Machine(<<Section(0, 1, PMM_SECTION_BAD), Section(1, 1, PMM_SECTION_USED),
              Section(2, 3, PMM_SECTION_FREE)>>, 2, 1, 3)

(* The kernel's own image lies before the free memory, device memory behind. *)
ImageFirst ==
    Machine(<<Section(0, 1, PMM_SECTION_BAD), Section(1, 1, PMM_SECTION_USED),
              Section(2, 3, PMM_SECTION_FREE), Section(5, 1, PMM_SECTION_BAD)>>, 2, 1, 4)

(* The same with one page left beside the headers' own. *)
Tight ==
    Machine(<<Section(0, 1, PMM_SECTION_BAD), Section(1, 1, PMM_SECTION_USED),
              Section(2, 2, PMM_SECTION_FREE), Section(4, 1, PMM_SECTION_BAD)>>, 2, 1, 4)

(* Device memory between the banks: the first page of the second bank needs   *)
(* a header of its own when it is taken, and may find none.                 *)
DeviceBetween ==
    Machine(<<Section(0, 1, PMM_SECTION_BAD), Section(1, 2, PMM_SECTION_FREE),
              Section(3, 1, PMM_SECTION_BAD), Section(4, 2, PMM_SECTION_FREE),
              Section(6, 1, PMM_SECTION_BAD)>>, 1, 1, 5)

(* The memory map ends with memory of the firmware, or with free memory.     *)
UsedEnd ==
    Machine(<<Section(0, 1, PMM_SECTION_BAD), Section(1, 3, PMM_SECTION_FREE),
              Section(4, 1, PMM_SECTION_USED)>>, 1, 1, 3)
FreeEnd ==
    Machine(<<Section(0, 1, PMM_SECTION_BAD), Section(1, 3, PMM_SECTION_FREE)>>, 1, 1, 2)

KernelBoots == {OneBank, TwoBanks, ImageFirst, DeviceBetween, UsedEnd, FreeEnd}
MCWholeApi  == {Tight, OpenEnd}
MCBoots     == KernelBoots \cup MCWholeApi
NoBoots     == {}
=============================================================================
