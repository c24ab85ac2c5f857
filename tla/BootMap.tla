------------------------------ MODULE BootMap ------------------------------
(***************************************************************************)
(* From the firmware's memory map to the page allocator's first list:       *)
(* limine_reinterpret (src/kernel/src/boot/limine/limine.c) and pmm_start    *)
(* (mem/pmm/pmm.c) up to its lock of the header array, where Pmm begins.     *)
(*                                                                         *)
(* Addresses and lengths count pages: the kernel boots from UEFI only, whose  *)
(* map is made of whole pages.  Numbers of bytes have 64 bits, so addresses   *)
(* are modulo WORLD pages; a number of pages is a 64-bit number of its own,   *)
(* which the few entries of a map cannot bring to overflow.                  *)
(***************************************************************************)
EXTENDS Integers, Sequences, SequencesExt

CONSTANTS
    Firmwares,      \* the maps the boot loader may hand over
    WORLD,          \* pages of the address space
    MEGABYTE,       \* pages of the first megabyte
    map_pages,      \* pages the kernel keeps for its copy of the map
    IOMMU_BLOCK,    \* the addresses the kernel gives to an AMD IOMMU
    ROUND_OFF,      \* pages to which the amount of memory is rounded up
    MAX_PMM_HEADER_PROPORTION,  \* pages of memory to a page of headers
    PageHeaders     \* headers in a page

LIMINE_TYPES == {"USABLE", "RESERVED", "ACPI_RECLAIMABLE", "ACPI_NVS", "BAD_MEMORY",
                 "BOOTLOADER_RECLAIMABLE", "KERNEL_AND_MODULES", "FRAMEBUFFER"}
limine_memmap_entry == [base : Nat, length : Nat, type : LIMINE_TYPES]

(* The boot loader hands over at least one entry, in ascending order, without *)
(* overlaps and without empty ones, and never two usable ones that touch.     *)
FirmwareAssumption ==
    /\ WORLD \in Nat /\ MEGABYTE \in 1 .. WORLD - 1
    /\ map_pages \in Nat \ {0} /\ ROUND_OFF \in Nat \ {0}
    /\ MAX_PMM_HEADER_PROPORTION \in Nat \ {0} /\ PageHeaders \in Nat \ {0}
    /\ \A f \in Firmwares :
        /\ f \in Seq(limine_memmap_entry) /\ f # <<>>
        /\ \A i \in DOMAIN f :
            /\ f[i].length > 0 /\ f[i].base + f[i].length < WORLD
            /\ i > 1 => /\ f[i - 1].base + f[i - 1].length <= f[i].base
                        /\ \/ f[i - 1].base + f[i - 1].length < f[i].base
                           \/ {f[i - 1].type, f[i].type} # {"USABLE"}
ASSUME FirmwareAssumption

VARIABLES
    pc,          \* the next step, or "halted", "undefined", "done"
    firmware,    \* what the boot loader handed over
    limine_map,  \* the same as limine_reinterpret changes it
    kept,        \* the pages of the kernel's copy of the map
    memory_map,  \* the copy
    data,        \* the pages of the header array, [base, pages]
    free_memory, \* pages counted so far
    i,           \* the next entry of memory_map, or section of the list
    list,        \* the sections; while they are made `current' is the last one
    detected     \* the flag of pmm_recombine
vars == <<pc, firmware, limine_map, kept, memory_map, data, free_memory, i, list, detected>>

limine_mmap_type_convert(type) ==
    CASE type = "USABLE" -> "FREE"
      [] type \in {"RESERVED", "KERNEL_AND_MODULES", "BOOTLOADER_RECLAIMABLE",
                   "ACPI_RECLAIMABLE"} -> "BUSY"
      [] type = "FRAMEBUFFER" -> "MMIO"
      [] OTHER -> "NOUSE"

pmm_interpret_signal(signal) ==
    CASE signal = "BUSY" -> "USED"
      [] signal = "FREE" -> "FREE"
      [] OTHER -> "BAD"

Pages(base, count) == base .. base + count - 1

-----------------------------------------------------------------------------
(* limine_reinterpret *)

ignore_iommu ==
    /\ pc = "ignore_iommu"
    /\ limine_map' = [k \in DOMAIN limine_map |->
                        IF limine_map[k].base \in IOMMU_BLOCK
                        THEN [limine_map[k] EXCEPT !.type = "BAD_MEMORY"]
                        ELSE limine_map[k]]
    /\ pc' = "protect_map"
    /\ UNCHANGED <<firmware, kept, memory_map, data, free_memory, i, list, detected>>

(* The k-th entry is in use, and the next one is free and large enough. *)
IsPair(k) ==
    /\ limine_map[k + 1].type = "USABLE"
    /\ limine_mmap_type_convert(limine_map[k].type) = "BUSY"
    /\ limine_map[k + 1].length > map_pages

ConsecutivePairs == {k \in 1 .. Len(limine_map) - 1 : IsPair(k)}
FirstPair == CHOOSE k \in ConsecutivePairs : \A j \in ConsecutivePairs : k <= j

\* Mutant: the free entry gets shorter but stays where it is.
MapProtectedAtEnd(k) ==
    [limine_map EXCEPT ![k].length = @ + map_pages,
                       ![k + 1].length = @ - map_pages]

MapProtected(k) ==
    [limine_map EXCEPT ![k].length = @ + map_pages,
                       ![k + 1].base = @ + map_pages,
                       ![k + 1].length = @ - map_pages]

protect_map ==
    /\ pc = "protect_map"
    /\ ConsecutivePairs # {}
    /\ kept' = Pages(limine_map[FirstPair + 1].base, map_pages)
    /\ limine_map' = MapProtected(FirstPair)
    /\ pc' = "copy_map"
    /\ UNCHANGED <<firmware, memory_map, data, free_memory, i, list, detected>>

(* The kernel halts when there is no such pair.  For the last entry the loop   *)
(* reads one behind the array: what it takes for an entry may fit.           *)
no_pair ==
    /\ pc = "protect_map"
    /\ ConsecutivePairs = {}
    /\ \/ pc' = "halted"
       \/ pc' = "undefined" /\ limine_mmap_type_convert(Last(limine_map).type) = "BUSY"
    /\ UNCHANGED <<firmware, limine_map, kept, memory_map, data, free_memory, i, list, detected>>

(* What is left of an entry that begins in the first megabyte. *)
BehindMegabyte(e) ==
    IF e.base + e.length < MEGABYTE
    THEN [base |-> e.base, length |-> 0, signal |-> "NOUSE"]
    ELSE [base |-> MEGABYTE, length |-> e.length - (MEGABYTE - e.base), signal |-> e.signal]

Converted(e) ==
    [base |-> e.base, length |-> e.length, signal |-> limine_mmap_type_convert(e.type)]

(* The copy is in ascending order, so the loop's break leaves nothing out.   *)
copy_map ==
    /\ pc = "copy_map"
    /\ memory_map' =
         [k \in DOMAIN limine_map |->
            IF k = 1 THEN [base |-> 0, length |-> MEGABYTE, signal |-> "NOUSE"]
            ELSE IF limine_map[k].base < MEGABYTE
            THEN BehindMegabyte(Converted(limine_map[k]))
            ELSE Converted(limine_map[k])]
    /\ pc' = "count_free"
    /\ UNCHANGED <<firmware, limine_map, kept, data, free_memory, i, list, detected>>

-----------------------------------------------------------------------------
(* pmm_start *)

FreeEntries == {k \in DOMAIN memory_map : memory_map[k].signal = "FREE"}

count_free ==
    /\ pc = "count_free"
    /\ i <= Len(memory_map)
    /\ i' = i + 1
    /\ free_memory' = free_memory + (IF i \in FreeEntries THEN memory_map[i].length ELSE 0)
    /\ UNCHANGED <<pc, firmware, limine_map, kept, memory_map, data, list, detected>>

count_ends ==
    /\ pc = "count_free"
    /\ i > Len(memory_map)
    /\ pc' = "place_headers"
    /\ UNCHANGED <<firmware, limine_map, kept, memory_map, data, free_memory, i, list, detected>>

RoundUp(n, m) == ((n + m - 1) \div m) * m

(* Whole pages of it are taken. *)
pmm_data_pages ==
    RoundUp(RoundUp(free_memory, ROUND_OFF), MAX_PMM_HEADER_PROPORTION)
        \div MAX_PMM_HEADER_PROPORTION

(* The first free entry that is large enough.  Without one, pmm_sections is    *)
(* still NULL when it is written to.                                        *)
HasRoom(k) == k \in FreeEntries /\ memory_map[k].length >= pmm_data_pages

place_headers ==
    /\ pc = "place_headers"
    /\ LET fits == {k \in DOMAIN memory_map : HasRoom(k)}
       IN  IF fits = {} THEN pc' = "halted" /\ UNCHANGED <<data, i, list>>
           ELSE /\ pc' = "add_entry"
                /\ i' = 1
                /\ data' = [base  |-> memory_map[CHOOSE k \in fits : \A j \in fits : k <= j].base,
                            pages |-> pmm_data_pages]
                /\ list' = <<[start |-> 0, pages |-> MEGABYTE, free |-> "BAD"]>>
    /\ UNCHANGED <<firmware, limine_map, kept, memory_map, free_memory, detected>>

End(s) == (s.start + s.pages) % WORLD
current == Last(list)

\* Mutant: the gap is counted from the start of the section before it.
GapFromStart(before, s) ==
    [start |-> End(before), pages |-> (s.start - before.start) % WORLD, free |-> "BAD"]

(* What lies between two sections; for one that starts before the end of the   *)
(* other its pages wrap around.                                            *)
Gap(before, s) ==
    [start |-> End(before), pages |-> (s.start - End(before)) % WORLD, free |-> "BAD"]

SectionOf(e) ==
    [start |-> e.base, pages |-> e.length, free |-> pmm_interpret_signal(e.signal)]

WithEntry(e) ==
    LET s == SectionOf(e)
    IN  IF End(current) = s.start THEN Append(list, s)
        ELSE list \o <<Gap(current, s), s>>

add_entry ==
    /\ pc = "add_entry"
    /\ i <= Len(memory_map)
    /\ i' = i + 1
    /\ IF memory_map[i].base = current.start THEN UNCHANGED <<pc, list>>
       ELSE IF Len(WithEntry(memory_map[i])) > data.pages * PageHeaders
       THEN pc' = "halted" /\ UNCHANGED list     \* pmm_new_section returns NULL
       ELSE list' = WithEntry(memory_map[i]) /\ UNCHANGED pc
    /\ UNCHANGED <<firmware, limine_map, kept, memory_map, data, free_memory, detected>>

entries_end ==
    /\ pc = "add_entry"
    /\ i > Len(memory_map)
    /\ pc' = "recombine"
    /\ i' = 1
    /\ detected' = FALSE
    /\ UNCHANGED <<firmware, limine_map, kept, memory_map, data, free_memory, list>>

-----------------------------------------------------------------------------
(* pmm_recombine: the current section swallows a next one of its type, and    *)
(* the pass goes on behind it; passes are made until one merges nothing.     *)
Merged(k) ==
    [j \in 1 .. Len(list) - 1 |->
        IF j < k THEN list[j]
        ELSE IF j = k THEN [list[k] EXCEPT !.pages = @ + list[k + 1].pages]
        ELSE list[j + 1]]

recombine_merges ==
    /\ pc = "recombine"
    /\ i < Len(list) /\ list[i].free = list[i + 1].free
    /\ list' = Merged(i)
    /\ i' = i + 1
    /\ detected' = TRUE
    /\ UNCHANGED <<pc, firmware, limine_map, kept, memory_map, data, free_memory>>

recombine_skips ==
    /\ pc = "recombine"
    /\ i < Len(list) /\ list[i].free # list[i + 1].free
    /\ i' = i + 1
    /\ UNCHANGED <<pc, firmware, limine_map, kept, memory_map, data, free_memory, list, detected>>

recombine_pass_ends ==
    /\ pc = "recombine"
    /\ i >= Len(list)
    /\ IF detected THEN i' = 1 /\ UNCHANGED pc ELSE pc' = "done" /\ UNCHANGED i
    /\ detected' = FALSE
    /\ UNCHANGED <<firmware, limine_map, kept, memory_map, data, free_memory, list>>

pmm_recombine == recombine_merges \/ recombine_skips \/ recombine_pass_ends

-----------------------------------------------------------------------------
Init ==
    /\ pc = "ignore_iommu"
    /\ firmware \in Firmwares
    /\ limine_map = firmware
    /\ kept = {}
    /\ memory_map = <<>>
    /\ data = [base |-> 0, pages |-> 0]
    /\ free_memory = 0
    /\ i = 1
    /\ list = <<>>
    /\ detected = FALSE

limine_reinterpret == ignore_iommu \/ protect_map \/ no_pair \/ copy_map
pmm_start ==
    count_free \/ count_ends \/ place_headers \/ add_entry \/ entries_end \/ pmm_recombine
Next == limine_reinterpret \/ pmm_start
Spec == Init /\ [][Next]_vars

-----------------------------------------------------------------------------
SectionPages(s) == {page % WORLD : page \in Pages(s.start, s.pages)}
FreePages == UNION {SectionPages(list[k]) : k \in {j \in DOMAIN list : list[j].free = "FREE"}}

(* Every variable has its type. *)
TypeOK ==
    /\ pc \in {"ignore_iommu", "protect_map", "copy_map", "count_free", "place_headers",
               "add_entry", "recombine", "halted", "undefined", "done"}
    /\ firmware \in Seq(limine_memmap_entry)
    /\ limine_map \in Seq(limine_memmap_entry)
    /\ kept \subseteq 0 .. WORLD - 1
    /\ memory_map \in Seq([base : Nat, length : Nat, signal : {"FREE", "BUSY", "MMIO", "NOUSE"}])
    /\ data \in [base : Nat, pages : Nat]
    /\ {free_memory, i} \subseteq Nat
    /\ detected \in BOOLEAN
    /\ list \in Seq([start : 0 .. WORLD - 1, pages : Nat, free : {"FREE", "USED", "BAD"}])

UsablePages ==
    {page \in MEGABYTE .. WORLD - 1 :
        \E k \in DOMAIN firmware : /\ firmware[k].type = "USABLE"
                                   /\ firmware[k].base \notin IOMMU_BLOCK
                                   /\ page \in Pages(firmware[k].base, firmware[k].length)}

(* An entry's end, as clipped, is the end of the first megabyte: it is left    *)
(* empty but at the place where the next one begins, which pmm_start then      *)
(* takes for one that is there already.                                     *)
HidesNext ==
    \E k \in DOMAIN memory_map :
        /\ k > 1
        /\ memory_map[k].base = MEGABYTE
        /\ memory_map[k].length = 0

(* limine.c:140 "modify the memory map to protect section from pmm": what the  *)
(* allocator starts with as free is memory the firmware called usable, and     *)
(* never the pages of the map that the kernel goes on reading.  And no memory  *)
(* is lost: what the firmware called usable behind the first megabyte is free, *)
(* but for the map's pages and for the first entry, which the first megabyte   *)
(* replaces whole (unless HidesNext).                                        *)
FreeIsUsable ==
    /\ FreePages \subseteq UsablePages \ kept
    /\ (pc = "done" /\ ~HidesNext) =>
         UsablePages \ (kept \cup Pages(firmware[1].base, firmware[1].length)) \subseteq FreePages

(* What Pmm assumes of the list pmm_start leaves: it begins with the bad first *)
(* megabyte, sections touch (the addresses wrap with the pages of a gap that   *)
(* runs backwards), neighbours differ in type, and the header array lies at    *)
(* the start of a free section that holds it.                               *)
ListIsInOrder ==
    (pc = "done" /\ ~HidesNext) =>
        /\ list[1].start = 0 /\ list[1].free = "BAD"
        /\ \A k \in 1 .. Len(list) - 1 :
            /\ End(list[k]) = list[k + 1].start
            /\ list[k].free # list[k + 1].free
        /\ \E k \in DOMAIN list : /\ list[k].free = "FREE"
                                  /\ list[k].start = data.base
                                  /\ data.pages \in 1 .. list[k].pages
=============================================================================
