------------------------------- MODULE MCElf -------------------------------
(* Program header tables of up to three entries over the first four pages, and *)
(* free pages that begin among these, in one piece or in several.            *)
EXTENDS Elf

Header(type, offset, address, filesz, memsz) ==
    [type |-> type, p_offset |-> offset, p_vaddr |-> address,
     p_filesz |-> filesz, p_memsz |-> memsz]

Top == 4 * PAGING_PAGE_SIZE

MCFrees == {1 .. MemoryPages - 1, {1, 3} \cup 5 .. MemoryPages - 1}

Sizes == {<<filesz, memsz>> \in (0 .. 4) \X (0 .. 4) : filesz <= memsz}

(* The n-th segment: its bytes are 5 apart in the file. *)
Segment(n) ==
    {Header(ELF_SEGMENT_LOAD, 5 * n, address, s[1], s[2]) : address \in 0 .. Top - 1, s \in Sizes}

Note == Header(4, 0, 0, 1, 1)

Apart(a, b) == EndOf(a) <= b.p_vaddr /\ EndOf(b) <= Top

Pairs   == {<<a, Note, b>> : a \in Segment(0), b \in Segment(1)}
Few(n)  == {s \in Segment(n) : s.p_filesz \in {1, s.p_memsz} /\ s.p_memsz \in {1, 3}}
Triples == {<<a, b, c>> : a \in Few(0), b \in Few(1), c \in Few(2)}

Tables == {t \in Pairs : Apart(t[1], t[3])}
          \cup {t \in Triples : Apart(t[1], t[2]) /\ Apart(t[2], t[3])}

MCFiles == {[accepted |-> TRUE, table |-> t] : t \in Tables}
           \cup {[accepted |-> FALSE, table |-> <<Note>>]}
=============================================================================
