-------------------------------- MODULE Elf --------------------------------
(***************************************************************************)
(* The loader of programs, src/kernel/src/proc/loader/elf.c, and the part   *)
(* of task_new_page_table (proc/task/task.c) that maps what it loaded.      *)
(*                                                                         *)
(* Addresses count bytes; a page has PAGING_PAGE_SIZE of them.  The kernel   *)
(* runs on frames mapped at their own numbers, so what it writes to an       *)
(* address goes to that place in memory, whatever the program will find at   *)
(* the address later.  A place holds Old, 0, or the number of a byte of the  *)
(* file (counted from 1).  The addresses of a program are places of memory    *)
(* too, and a pool may be where they are.  What the kernel keeps there, the  *)
(* file and load_info among it, is not looked at.                          *)
(***************************************************************************)
EXTENDS Integers, Sequences, FiniteSets

CONSTANTS
    PAGING_PAGE_SIZE,
    Files,      \* the files: [accepted, table], table a sequence of headers
    MemoryPages, \* pages of memory; no segment reaches behind it
    Frees        \* sets of pages that are free before

ELF_SEGMENT_LOAD == 1
Old == -1

elf_program_header_t ==
    [type : Nat, p_offset : Nat, p_vaddr : Nat, p_filesz : Nat, p_memsz : Nat]

Loads(table) == {i \in DOMAIN table : table[i].type = ELF_SEGMENT_LOAD}
EndOf(s)     == s.p_vaddr + s.p_memsz

(* What the ELF format asks of a program header table: a segment has not     *)
(* more bytes in the file than in memory, and the segments are in ascending   *)
(* order and do not overlap.                                               *)
FilesAssumption ==
    /\ PAGING_PAGE_SIZE \in Nat \ {0}
    /\ MemoryPages \in Nat
    /\ \A pages \in Frees : pages \subseteq 0 .. MemoryPages - 1
    /\ \A f \in Files :
        /\ f.accepted \in BOOLEAN
        /\ f.table \in Seq(elf_program_header_t)
        /\ \A i \in Loads(f.table) :
            /\ f.table[i].p_filesz <= f.table[i].p_memsz
            /\ EndOf(f.table[i]) <= MemoryPages * PAGING_PAGE_SIZE
            /\ \A j \in Loads(f.table) :
                 i < j => EndOf(f.table[i]) <= f.table[j].p_vaddr
ASSUME FilesAssumption

VARIABLES
    file,        \* the file that is loaded
    stage,       \* "check", "next", "copy", "place", "refused" or "done"
    pheader,     \* the number of the header that is next
    header_copy, \* what is left of the segment that is loaded
    segments,    \* load_info: where what was loaded is
    free,        \* the pages that are free
    mem          \* the contents of memory
load_vars == <<file, stage, pheader, header_copy, segments, free, mem>>

NoHeader == [type |-> 0, p_offset |-> 0, p_vaddr |-> 0, p_filesz |-> 0, p_memsz |-> 0]
Places == 0 .. MemoryPages * PAGING_PAGE_SIZE - 1
Page(address)   == address \div PAGING_PAGE_SIZE
Offset(address) == address % PAGING_PAGE_SIZE

elf_is_page_mapped(address) ==
    \E i \in DOMAIN segments :
        /\ segments[i].loaded_at <= address
        /\ segments[i].loaded_at + segments[i].length > address

-----------------------------------------------------------------------------
(* The magic number, architecture, byte order, width and ABI of the file.   *)
(* (elf.c:62 refuses a magic number that is greater than the right one, and   *)
(* accepts one that is less.)                                              *)
elf_load_program ==
    /\ stage = "check"
    /\ stage' = IF file.accepted THEN "next" ELSE "refused"
    /\ UNCHANGED <<file, pheader, header_copy, segments, free, mem>>

next_header ==
    /\ stage = "next"
    /\ pheader <= Len(file.table)
    /\ pheader' = pheader + 1
    /\ LET h == file.table[pheader]
       IN  IF h.type = ELF_SEGMENT_LOAD /\ h.p_memsz # 0
           THEN stage' = "copy" /\ header_copy' = h
           ELSE UNCHANGED <<stage, header_copy>>
    /\ UNCHANGED <<file, segments, free, mem>>

headers_end ==
    /\ stage = "next"
    /\ pheader > Len(file.table)
    /\ stage' = "done"
    /\ UNCHANGED <<file, pheader, header_copy, segments, free, mem>>

Smaller(a, b) == IF a < b THEN a ELSE b

(* What the loop handles in one iteration: the rest of the page. *)
next_page_offset ==
    Smaller(PAGING_PAGE_SIZE - Offset(header_copy.p_vaddr), header_copy.p_filesz)

\* Mutant: the size in memory is not counted down.
header_without_less(n) ==
    [header_copy EXCEPT !.p_vaddr = @ + n, !.p_offset = @ + n, !.p_filesz = @ - n]

header_less(n) ==
    [type |-> header_copy.type,
     p_offset |-> header_copy.p_offset + n, p_vaddr |-> header_copy.p_vaddr + n,
     p_filesz |-> header_copy.p_filesz - n, p_memsz |-> header_copy.p_memsz - n]

(* memory with n bytes of the file from the offset written to the place. *)
Written(memory, place, offset, n) ==
    [a \in DOMAIN memory |->
        IF a \in place .. place + n - 1 THEN offset + (a - place) + 1 ELSE memory[a]]

Zeroed(memory, place, n) ==
    [a \in DOMAIN memory |-> IF a \in place .. place + n - 1 THEN 0 ELSE memory[a]]

copy_into_mapped ==
    /\ stage = "copy"
    /\ elf_is_page_mapped(header_copy.p_vaddr)
    /\ mem' = Written(mem, header_copy.p_vaddr, header_copy.p_offset, next_page_offset)
    /\ header_copy' = header_less(next_page_offset)
    /\ stage' = IF header_copy'.p_memsz = 0 THEN "next" ELSE "copy"
    /\ UNCHANGED <<file, pheader, segments, free>>

copy_ends ==
    /\ stage = "copy"
    /\ ~elf_is_page_mapped(header_copy.p_vaddr)
    /\ stage' = "place"
    /\ UNCHANGED <<file, pheader, header_copy, segments, free, mem>>

\* Mutant: a segment that begins inside a page gets no page more.
pages_of_size(h) ==
    h.p_memsz \div PAGING_PAGE_SIZE + (IF h.p_memsz % PAGING_PAGE_SIZE = 0 THEN 0 ELSE 1)

required_pages(h) ==
    h.p_memsz \div PAGING_PAGE_SIZE
    + (IF h.p_memsz % PAGING_PAGE_SIZE = 0 THEN 0 ELSE 1)
    + (IF Offset(h.p_vaddr) # 0 THEN 1 ELSE 0)

\* Mutant: the record ends where the segment does.
RecordOfSize(h, place) ==
    [loaded_at |-> h.p_vaddr, located_at |-> place, length |-> h.p_memsz]

Record(h, place) ==
    [loaded_at  |-> h.p_vaddr, located_at |-> place,
     length     |-> required_pages(h) * PAGING_PAGE_SIZE]

(* The lowest pages that are free and enough. *)
Runs(n) == {base \in free : base .. base + n - 1 \subseteq free}
pmm_alloc_pool(n) == {base \in Runs(n) : \A other \in Runs(n) : base <= other}

(* The pool, the record, memset and memcpy.  Bound: there is a pool (the      *)
(* code does not look, and takes page 0 for one).                           *)
place_segment ==
    /\ stage = "place"
    /\ \E base \in pmm_alloc_pool(required_pages(header_copy)) :
         LET real_location == base * PAGING_PAGE_SIZE
             start == real_location + Offset(header_copy.p_vaddr)
         IN  /\ segments' = Append(segments, Record(header_copy, real_location))
             /\ free' = free \ (base .. base + required_pages(header_copy) - 1)
             /\ mem' = Written(Zeroed(mem, start, header_copy.p_memsz),
                               start, header_copy.p_offset, header_copy.p_filesz)
    /\ stage' = "next"
    /\ UNCHANGED <<file, pheader, header_copy>>

LoadInit ==
    /\ file \in Files
    /\ stage = "check"
    /\ pheader = 1
    /\ header_copy = NoHeader
    /\ segments = <<>>
    /\ free \in Frees
    /\ mem = [a \in Places |-> Old]

elf_load_segment == copy_into_mapped \/ copy_ends \/ place_segment

LoadNext == elf_load_program \/ next_header \/ headers_end \/ elf_load_segment
LoadSpec == LoadInit /\ [][LoadNext]_load_vars /\ WF_load_vars(LoadNext)

-----------------------------------------------------------------------------
(* The program's view, which task_new_page_table makes of the records: every  *)
(* page of a record leads to the page of its pool at the same distance.      *)

Mappings ==
    UNION {{[record |-> i, page |-> Page(segments[i].loaded_at) + j,
             frame |-> Page(segments[i].located_at) + j] :
              j \in {k \in 0 .. segments[i].length : k * PAGING_PAGE_SIZE < segments[i].length}}
           : i \in DOMAIN segments}

(* What the program finds at the address. *)
Found(address) ==
    {mem[m.frame * PAGING_PAGE_SIZE + Offset(address)] :
       m \in {k \in Mappings : k.page = Page(address)}}

(* The segment begins in the range of a record of an earlier one, which may   *)
(* reach a page further than that one does.                                *)
Shares(i) ==
    \E j \in DOMAIN segments :
        /\ segments[j].loaded_at < file.table[i].p_vaddr
        /\ file.table[i].p_vaddr < segments[j].loaded_at + segments[j].length

(* Record r is of segment s. *)
RecordOf(s, r) == s.p_vaddr <= segments[r].loaded_at /\ segments[r].loaded_at < EndOf(s)

(* Where a record has what the program is to find at the address. *)
PlaceOf(r, address) ==
    segments[r].located_at + Offset(segments[r].loaded_at) + (address - segments[r].loaded_at)

(* The addresses elf.c:31 copies bytes of the segment to. *)
CopiedAway(s) ==
    {a \in s.p_vaddr .. s.p_vaddr + s.p_filesz - 1 :
       \A r \in DOMAIN segments : RecordOf(s, r) => a < segments[r].loaded_at}

(* What the segment has at the address. *)
Byte(s, address) ==
    IF address - s.p_vaddr < s.p_filesz THEN s.p_offset + (address - s.p_vaddr) + 1 ELSE 0

(* Every variable has its type. *)
LoadTypeOK ==
    /\ file \in Files
    /\ stage \in {"check", "next", "copy", "place", "refused", "done"}
    /\ pheader \in 1 .. Len(file.table) + 1
    /\ header_copy \in elf_program_header_t
    /\ segments \in Seq([loaded_at : Nat, located_at : Nat, length : Nat \ {0}])
    /\ free \subseteq 0 .. MemoryPages - 1
    /\ mem \in [Places -> Nat \cup {Old}]

(* elf.c:40 "p_vaddr IS in an unmapped page": no page of the program is      *)
(* mapped by two records, although a record begins inside a page and a range  *)
(* is longer than its segment.  (paging_map_page would mix the two frames.)   *)
PagesMappedOnce ==
    \A m, n \in Mappings : m.page = n.page => m = n

(* A segment that begins in no other's range has a record from its start on,  *)
(* and what a segment has a record of is found at its addresses: the bytes of *)
(* the file, then zeros.  But not what lies where elf.c:31 has written since:  *)
(* it copies the first part of a segment that begins in a range, page of its  *)
(* own or not, to the places that have the addresses' own numbers, where the  *)
(* program never looks and a pool may be.                                  *)
PlacedExactly ==
    stage = "done" =>
      \A i \in Loads(file.table) :
        LET s == file.table[i]
        IN  /\ s.p_memsz # 0 /\ ~Shares(i) =>
                 \E r \in DOMAIN segments : segments[r].loaded_at = s.p_vaddr
            /\ \A r \in DOMAIN segments : RecordOf(s, r) =>
                 \A a \in segments[r].loaded_at .. EndOf(s) - 1 :
                   \/ Found(a) = {Byte(s, a)}
                   \/ \E k \in Loads(file.table) :
                        i < k /\ PlaceOf(r, a) \in CopiedAway(file.table[k])

(* Loading ends.  (But where a segment with zeros behind its bytes begins in   *)
(* the range of another: elf.c:25 goes round for ever when nothing is left to  *)
(* copy and the zeros lie in that range.)                                   *)
LoadEnds ==
    <>(\/ stage \in {"done", "refused"}
       \/ \E i \in Loads(file.table) :
            Shares(i) /\ file.table[i].p_filesz < file.table[i].p_memsz)
=============================================================================
