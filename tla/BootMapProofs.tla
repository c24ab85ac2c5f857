---------------------------- MODULE BootMapProofs ----------------------------
(***************************************************************************)
(* What the page allocator starts with, for every memory map a boot loader   *)
(* may hand over: FreeIsUsable, and ListIsInOrder, which is what PmmProofs    *)
(* takes for granted of the list.                                          *)
(*                                                                         *)
(* The argument.  Entries stay in order, and two free ones never touch, when  *)
(* the kernel's copy is cut out of one (Arranged) and when the first megabyte  *)
(* is (Clipped).  So no two free sections are neighbours, pmm_recombine never   *)
(* touches a free one, and the free sections are the free entries (FreeKept),   *)
(* of which none is passed by unless an empty one hides it.                 *)
(***************************************************************************)
EXTENDS BootMap, TLAPS, SequenceTheorems, WellFoundedInduction

EntryEnd(e) == e.base + e.length
memory_map_entry == [base : Nat, length : Nat, signal : {"FREE", "BUSY", "MMIO", "NOUSE"}]
section == [start : 0 .. WORLD - 1, pages : Nat, free : {"FREE", "USED", "BAD"}]

Usable(k) == firmware[k].type = "USABLE" /\ firmware[k].base \notin IOMMU_BLOCK

(* The map as limine_reinterpret changes it, less the pages out. *)
Arranged(map, out) ==
    /\ map \in Seq(limine_memmap_entry)
    /\ Len(map) = Len(firmware)
    /\ \A k \in DOMAIN map :
        /\ map[k].length > 0 /\ EntryEnd(map[k]) < WORLD
        /\ map[k].type = "USABLE" =>
             /\ Usable(k)
             /\ Pages(map[k].base, map[k].length)
                    = Pages(firmware[k].base, firmware[k].length) \ out
    /\ \A j, k \in DOMAIN map :
        j < k => /\ EntryEnd(map[j]) <= map[k].base
                 /\ map[j].type = "USABLE" /\ map[k].type = "USABLE" =>
                        EntryEnd(map[j]) < map[k].base

(* The kernel's copy, when the first megabyte is out of it. *)
Free(k) == memory_map[k].signal = "FREE"
EntryPages(k) == Pages(memory_map[k].base, memory_map[k].length)

Clipped ==
    /\ memory_map \in Seq(memory_map_entry)
    /\ memory_map # <<>>
    /\ memory_map[1] = [base |-> 0, length |-> MEGABYTE, signal |-> "NOUSE"]
    /\ \A k \in 2 .. Len(memory_map) :
        /\ EntryEnd(memory_map[k]) < WORLD /\ memory_map[k].base > 0
        /\ Free(k) => /\ memory_map[k].base >= MEGABYTE
                      /\ EntryPages(k) \subseteq UsablePages \ kept
                      /\ memory_map[k].length = 0 => memory_map[k].base = MEGABYTE
    /\ \A j, k \in 2 .. Len(memory_map) :
        j < k => /\ Free(j) /\ Free(k) => EntryEnd(memory_map[j]) # memory_map[k].base
                 /\ memory_map[j].base = memory_map[k].base =>
                        memory_map[j].base = MEGABYTE /\ memory_map[j].length = 0

NothingLost ==
    \A page \in UsablePages \ (kept \cup Pages(firmware[1].base, firmware[1].length)) :
        \E k \in 2 .. Len(memory_map) : Free(k) /\ page \in EntryPages(k)

MapInv ==
    /\ firmware \in Firmwares
    /\ pc \in {"ignore_iommu", "protect_map"} => kept = {}
    /\ pc = "ignore_iommu" => limine_map = firmware
    /\ pc \in {"protect_map", "copy_map"} =>
         /\ Arranged(limine_map, kept)
         /\ \A k \in DOMAIN firmware : Usable(k) => limine_map[k].type = "USABLE"
    /\ pc \in {"ignore_iommu", "protect_map", "copy_map"} => i = 1 /\ free_memory = 0
    /\ pc \in {"count_free", "place_headers", "add_entry", "recombine", "done"} \/ list # <<>> =>
         Clipped /\ NothingLost

(* The memory that was counted is that of every entry so far, and more. *)
CountInv ==
    /\ i \in Nat \ {0} /\ free_memory \in Nat
    /\ pc \in {"count_free", "place_headers"} =>
         \A k \in 2 .. Len(memory_map) :
            Free(k) /\ (k < i \/ pc = "place_headers") => memory_map[k].length <= free_memory

(* The sections of any list: they touch, and no two free ones do. *)
Joined(secs) ==
    /\ secs \in Seq(section) /\ secs # <<>>
    /\ secs[1].start = 0 /\ secs[1].free = "BAD"
    /\ \A k \in 1 .. Len(secs) - 1 :
        /\ End(secs[k]) = secs[k + 1].start
        /\ ~(secs[k].free = "FREE" /\ secs[k + 1].free = "FREE")

FromEntries(secs) ==
    \A k \in DOMAIN secs : secs[k].free = "FREE" =>
        \E j \in 2 .. Len(memory_map) : Free(j) /\ secs[k] = SectionOf(memory_map[j])

FreeKept(secs, n) ==
    \A j \in 2 .. n : Free(j) => \E k \in DOMAIN secs : secs[k] = SectionOf(memory_map[j])

HeadersPlaced ==
    \E c \in 2 .. Len(memory_map) :
        Free(c) /\ data.base = memory_map[c].base /\ data.pages \in 1 .. memory_map[c].length

(* Where the list ends: at the last entry, unless that was hidden. *)
Tail_ ==
    \E j \in DOMAIN memory_map :
        /\ current = SectionOf(memory_map[j])
        /\ i = 1 => j = 1
        /\ i > 1 => j < i
        /\ i > 1 /\ ~HidesNext => j = i - 1

ListInv ==
    /\ pc \notin {"add_entry", "recombine", "done"} => list = <<>> \/ pc = "halted"
    /\ pc \in {"add_entry", "recombine", "done", "halted"} => FromEntries(list) /\ (list # <<>> => Joined(list))
    /\ pc \in {"add_entry", "recombine", "done"} =>
         /\ Joined(list)
         /\ ~HidesNext => HeadersPlaced
         /\ ~HidesNext => FreeKept(list, IF pc = "add_entry" THEN i - 1 ELSE Len(memory_map))
    /\ pc = "add_entry" => Tail_ /\ i <= Len(memory_map) + 1
    /\ pc = "recombine" /\ ~detected =>
         \A k \in 1 .. Len(list) - 1 : k < i => list[k].free # list[k + 1].free
    /\ pc = "done" => \A k \in 1 .. Len(list) - 1 : list[k].free # list[k + 1].free

IInv == TypeOK /\ MapInv /\ CountInv /\ ListInv

-----------------------------------------------------------------------------
(* Arithmetic and the constants. *)

(* The constants are numbers, and the first megabyte is not all of memory. *)
LEMMA Consts ==
    /\ WORLD \in Nat \ {0} /\ MEGABYTE \in 1 .. WORLD - 1
    /\ map_pages \in Nat \ {0} /\ ROUND_OFF \in Nat \ {0}
    /\ MAX_PMM_HEADER_PROPORTION \in Nat \ {0} /\ PageHeaders \in Nat \ {0}
  BY FirmwareAssumption DEF FirmwareAssumption

(* Every set of natural numbers that is not empty has a least member.        *)
LEMMA LeastMember ==
    ASSUME NEW T \in SUBSET Nat, T # {}
    PROVE  \E m \in T : \A k \in T : m <= k
  <1> DEFINE R == {ss \in Nat \X Nat : ss[1] < ss[2]}
  <1>1. IsWellFoundedOn(OpToRel(<, Nat), Nat)
    BY NatLessThanWellFounded
  <1>2. IsWellFoundedOn(R, Nat)
    BY <1>1 DEF OpToRel
  <1>3. PICK m \in T : \A k \in T : ~(<<k, m>> \in R)
    BY <1>2, WFMin
  <1>4. ASSUME NEW k \in T PROVE m <= k
    <2>1. k \in Nat /\ m \in Nat /\ <<k, m>> \in Nat \X Nat
      OBVIOUS
    <2> QED BY <1>3, <2>1
  <1> QED BY <1>4

(* An address in memory is its own remainder. *)
LEMMA ModSmall == ASSUME NEW x \in 0 .. WORLD - 1 PROVE x % WORLD = x
  BY Consts, SMT

(* A remainder is an address in memory. *)
LEMMA ModRange == ASSUME NEW x \in Int PROVE x % WORLD \in 0 .. WORLD - 1
  BY Consts, SMT

(* A number is its quotient and its remainder. *)
LEMMA ModDiv ==
    ASSUME NEW x \in Int
    PROVE  x \div WORLD \in Int /\ x = WORLD * (x \div WORLD) + (x % WORLD)
  BY Consts, SMT

(* No multiple of a number but 0 is nearer to 0 than the number. *)
LEMMA NoMultiple ==
    ASSUME NEW w \in Nat \ {0}, NEW d \in Int, w * d < w, 0 - w < w * d
    PROVE  d = 0
  BY SMT

(* There is one remainder. *)
LEMMA ModUnique ==
    ASSUME NEW q \in Int, NEW x \in 0 .. WORLD - 1, NEW y \in Int, y = WORLD * q + x
    PROVE  y % WORLD = x
  <1> DEFINE a == y % WORLD
             b == y \div WORLD
  <1>1. a \in 0 .. WORLD - 1 /\ b \in Int /\ y = WORLD * b + a
    BY ModRange, ModDiv
  <1> HIDE DEF a, b
  <1>2. WORLD \in Nat \ {0} /\ b - q \in Int
    BY <1>1, Consts
  <1>3. WORLD * (b - q) = x - a
    BY <1>1, <1>2
  <1>4. x - a < WORLD /\ 0 - WORLD < x - a
    BY <1>1, <1>2
  <1>5. b - q = 0
    BY <1>2, <1>3, <1>4, NoMultiple
  <1>6. a = x
    BY <1>1, <1>2, <1>5
  <1> QED BY <1>6 DEF a

(* The end of two sections that touch is the end of the second. *)
LEMMA ModOfSum ==
    ASSUME NEW x \in Int, NEW y \in Int
    PROVE  ((x % WORLD) + y) % WORLD = (x + y) % WORLD
  <1> DEFINE a == x % WORLD
             b == x \div WORLD
             c == (a + y) % WORLD
             d == (a + y) \div WORLD
             q == b + d
             z == x + y
  <1>1. x = WORLD * b + a /\ b \in Int /\ a \in 0 .. WORLD - 1
    BY ModRange, ModDiv
  <1>2. c \in 0 .. WORLD - 1 /\ d \in Int /\ a + y = WORLD * d + c
    <2>1. a + y \in Int
      BY <1>1
    <2> HIDE DEF a
    <2> QED BY <2>1, ModRange, ModDiv
  <1> HIDE DEF a, b, c, d
  <1>3. z = WORLD * q + c /\ q \in Int /\ z \in Int
    BY <1>1, <1>2, Consts
  <1> HIDE DEF q, z
  <1>4. z % WORLD = c
    BY <1>2, <1>3, ModUnique
  <1> QED BY <1>4 DEF c, a, z

-----------------------------------------------------------------------------
(* The operators of the model. *)

(* A function on 1 .. n is a sequence. *)
LEMMA FunctionIsSeq ==
    ASSUME NEW S, NEW n \in Nat, NEW f \in [1 .. n -> S]
    PROVE  f \in Seq(S) /\ Len(f) = n /\ DOMAIN f = 1 .. n
  <1>1. f \in Seq(S)
    BY SeqDef
  <1> QED BY <1>1

(* The fields of an entry of the boot loader. *)
LEMMA EntryFields ==
    ASSUME NEW e \in limine_memmap_entry
    PROVE  /\ e.base \in Nat /\ e.length \in Nat /\ e.type \in LIMINE_TYPES
           /\ e = [base |-> e.base, length |-> e.length, type |-> e.type]
  BY DEF limine_memmap_entry

(* What ignore_iommu writes. *)
LEMMA MadeBad ==
    ASSUME NEW e \in limine_memmap_entry
    PROVE  [e EXCEPT !.type = "BAD_MEMORY"]
              = [base |-> e.base, length |-> e.length, type |-> "BAD_MEMORY"]
  BY DEF limine_memmap_entry

(* What protect_map writes. *)
LEMMA Moved ==
    ASSUME limine_map \in Seq(limine_memmap_entry), NEW k \in Nat, k \in DOMAIN limine_map,
           k + 1 \in DOMAIN limine_map
    PROVE  /\ DOMAIN MapProtected(k) = DOMAIN limine_map
           /\ MapProtected(k)[k] = [base   |-> limine_map[k].base,
                                    length |-> limine_map[k].length + map_pages,
                                    type   |-> limine_map[k].type]
           /\ MapProtected(k)[k + 1] = [base   |-> limine_map[k + 1].base + map_pages,
                                        length |-> limine_map[k + 1].length - map_pages,
                                        type   |-> limine_map[k + 1].type]
           /\ \A j \in DOMAIN limine_map :
                j # k /\ j # k + 1 => MapProtected(k)[j] = limine_map[j]
  <1>1. k # k + 1
    OBVIOUS
  <1>2. limine_map[k] \in limine_memmap_entry /\ limine_map[k + 1] \in limine_memmap_entry
    OBVIOUS
  <1> QED BY <1>1, <1>2 DEF MapProtected, limine_memmap_entry

(* What recombine_merges writes. *)
LEMMA MorePages ==
    ASSUME NEW s \in section, NEW n \in Nat
    PROVE  [s EXCEPT !.pages = @ + n] = [start |-> s.start, pages |-> s.pages + n, free |-> s.free]
  BY DEF section

(* Only usable memory becomes free. *)
LEMMA Signals ==
    ASSUME NEW t \in LIMINE_TYPES
    PROVE  /\ limine_mmap_type_convert(t) \in {"FREE", "BUSY", "MMIO", "NOUSE"}
           /\ limine_mmap_type_convert(t) = "FREE" <=> t = "USABLE"
  <1>1. CASE t = "USABLE"
    BY <1>1 DEF limine_mmap_type_convert
  <1>2. CASE t \in {"RESERVED", "KERNEL_AND_MODULES", "BOOTLOADER_RECLAIMABLE",
                    "ACPI_RECLAIMABLE"}
    BY <1>2 DEF limine_mmap_type_convert
  <1>3. CASE t = "FRAMEBUFFER"
    BY <1>3 DEF limine_mmap_type_convert
  <1>4. CASE t \in {"ACPI_NVS", "BAD_MEMORY"}
    BY <1>4 DEF limine_mmap_type_convert
  <1> QED BY <1>1, <1>2, <1>3, <1>4 DEF LIMINE_TYPES

(* An entry as copy_map converts it. *)
LEMMA Converts ==
    ASSUME NEW e \in limine_memmap_entry
    PROVE  /\ Converted(e) \in memory_map_entry
           /\ Converted(e).base = e.base /\ Converted(e).length = e.length
           /\ Converted(e).signal = "FREE" <=> e.type = "USABLE"
  <1>1. e.base \in Nat /\ e.length \in Nat /\ e.type \in LIMINE_TYPES
    BY EntryFields
  <1>2. limine_mmap_type_convert(e.type) \in {"FREE", "BUSY", "MMIO", "NOUSE"}
    BY <1>1, Signals
  <1>3. limine_mmap_type_convert(e.type) = "FREE" <=> e.type = "USABLE"
    BY <1>1, Signals
  <1> QED BY <1>1, <1>2, <1>3 DEF Converted, memory_map_entry

(* The boot loader's entries are in order, not the neighbours only. *)
LEMMA FirmwareApart ==
    ASSUME NEW f \in Firmwares
    PROVE  /\ f \in Seq(limine_memmap_entry) /\ f # <<>>
           /\ \A k \in DOMAIN f : f[k].length > 0 /\ EntryEnd(f[k]) < WORLD
           /\ \A j, k \in DOMAIN f :
                j < k => /\ EntryEnd(f[j]) <= f[k].base
                         /\ f[j].type = "USABLE" /\ f[k].type = "USABLE" =>
                                EntryEnd(f[j]) < f[k].base
  <1>1. /\ f \in Seq(limine_memmap_entry) /\ f # <<>>
        /\ \A k \in DOMAIN f : f[k].length > 0 /\ f[k].base + f[k].length < WORLD
    BY FirmwareAssumption DEF FirmwareAssumption
  <1>2. \A k \in DOMAIN f : f[k].base \in Nat /\ f[k].length \in Nat /\ EntryEnd(f[k]) \in Nat
    BY <1>1, EntryFields DEF EntryEnd
  <1>3. DOMAIN f = 1 .. Len(f) /\ Len(f) \in Nat
    BY <1>1
  <1>4. ASSUME NEW k \in DOMAIN f, k > 1
        PROVE  /\ EntryEnd(f[k - 1]) <= f[k].base
               /\ f[k - 1].type = "USABLE" /\ f[k].type = "USABLE" =>
                        EntryEnd(f[k - 1]) < f[k].base
    <2>1. /\ f[k - 1].base + f[k - 1].length <= f[k].base
          /\ \/ f[k - 1].base + f[k - 1].length < f[k].base
             \/ {f[k - 1].type, f[k].type} # {"USABLE"}
      BY <1>4, FirmwareAssumption DEF FirmwareAssumption
    <2> QED BY <2>1 DEF EntryEnd
  <1>5. ASSUME NEW j \in DOMAIN f, NEW k \in DOMAIN f, j < k
        PROVE  EntryEnd(f[j]) <= f[k].base
    <2> DEFINE T == {n \in DOMAIN f : j < n /\ ~(EntryEnd(f[j]) <= f[n].base)}
    <2>1. SUFFICES ASSUME T # {} PROVE FALSE
      BY <1>5
    <2>2. T \in SUBSET Nat
      BY <1>3
    <2>3. PICK m \in T : \A n \in T : m <= n
      BY <2>1, <2>2, LeastMember
    <2>4. m \in DOMAIN f /\ j < m /\ ~(EntryEnd(f[j]) <= f[m].base)
      OBVIOUS
    <2>5. m > 1 /\ m - 1 \in DOMAIN f /\ j <= m - 1
      BY <1>3, <2>4
    <2>6. EntryEnd(f[m - 1]) <= f[m].base
      BY <1>4, <2>4, <2>5
    <2>7. j # m - 1
      BY <2>4, <2>6
    <2>8. j < m - 1 /\ m - 1 \notin T
      BY <1>3, <2>3, <2>4, <2>5, <2>7
    <2>9. EntryEnd(f[j]) <= f[m - 1].base
      BY <2>5, <2>8
    <2>10. f[m - 1].base <= EntryEnd(f[m - 1])
      BY <1>2, <2>5 DEF EntryEnd
    <2> HIDE DEF T
    <2> QED BY <1>2, <2>4, <2>5, <2>6, <2>9, <2>10
  <1>6. ASSUME NEW j \in DOMAIN f, NEW k \in DOMAIN f, j < k,
               f[j].type = "USABLE", f[k].type = "USABLE"
        PROVE  EntryEnd(f[j]) < f[k].base
    <2>1. CASE j = k - 1
      BY <1>3, <1>4, <1>6, <2>1
    <2>2. CASE j # k - 1
      <3>1. k > 1 /\ k - 1 \in DOMAIN f /\ j < k - 1
        BY <1>3, <1>6, <2>2
      <3>2. EntryEnd(f[j]) <= f[k - 1].base /\ EntryEnd(f[k - 1]) <= f[k].base
        BY <1>4, <1>5, <3>1
      <3>3. f[k - 1].base < EntryEnd(f[k - 1])
        BY <1>1, <1>2, <3>1 DEF EntryEnd
      <3> QED BY <1>2, <3>1, <3>2, <3>3
    <2> QED BY <2>1, <2>2
  <1>7. \A k \in DOMAIN f : f[k].length > 0 /\ EntryEnd(f[k]) < WORLD
    BY <1>1 DEF EntryEnd
  <1> QED BY <1>1, <1>5, <1>6, <1>7

-----------------------------------------------------------------------------
(* limine_reinterpret *)

(* The program begins with the boot loader's map as it is. *)
LEMMA InitInv == ASSUME Init PROVE IInv
  <1>1. /\ pc = "ignore_iommu" /\ firmware \in Firmwares /\ limine_map = firmware /\ kept = {}
        /\ memory_map = <<>> /\ data = [base |-> 0, pages |-> 0]
        /\ free_memory = 0 /\ i = 1 /\ list = <<>> /\ detected = FALSE
    BY DEF Init
  <1>2. firmware \in Seq(limine_memmap_entry)
    BY <1>1, FirmwareApart
  <1>3. TypeOK
    <2>1. /\ memory_map \in Seq([base : Nat, length : Nat,
                                signal : {"FREE", "BUSY", "MMIO", "NOUSE"}])
          /\ list \in Seq([start : 0 .. WORLD - 1, pages : Nat, free : {"FREE", "USED", "BAD"}])
      BY <1>1, EmptySeq
    <2>2. kept \subseteq 0 .. WORLD - 1 /\ {free_memory, i} \subseteq Nat
      BY <1>1
    <2>4. detected \in BOOLEAN
      BY <1>1, Zenon
    <2>3. data \in [base : Nat, pages : Nat] /\ limine_map = firmware
      BY <1>1
    <2> QED BY <1>1, <1>2, <2>1, <2>2, <2>3, <2>4 DEF TypeOK
  <1>4. MapInv
    BY <1>1 DEF MapInv
  <1>5. CountInv
    BY <1>1 DEF CountInv
  <1>6. ListInv
    BY <1>1 DEF ListInv
  <1> QED BY <1>3, <1>4, <1>5, <1>6 DEF IInv

(* ignore_iommu changes types only, and never to USABLE. *)
LEMMA IgnoreIommuInv == ASSUME IInv, ignore_iommu PROVE IInv'
  <1> DEFINE new == limine_map'
  <1>1. /\ firmware \in Firmwares /\ limine_map = firmware /\ kept = {}
        /\ i = 1 /\ free_memory = 0 /\ list = <<>>
    BY DEF IInv, MapInv, ListInv, ignore_iommu
  <1>2. /\ new = [k \in DOMAIN limine_map |->
                    IF limine_map[k].base \in IOMMU_BLOCK
                    THEN [limine_map[k] EXCEPT !.type = "BAD_MEMORY"]
                    ELSE limine_map[k]]
        /\ pc' = "protect_map" /\ firmware' = firmware /\ kept' = kept
        /\ memory_map' = memory_map /\ data' = data /\ free_memory' = free_memory
        /\ i' = i /\ list' = list /\ detected' = detected
    BY DEF ignore_iommu
  <1>3. /\ firmware \in Seq(limine_memmap_entry) /\ firmware # <<>>
        /\ \A k \in DOMAIN firmware :
            firmware[k].length > 0 /\ EntryEnd(firmware[k]) < WORLD
        /\ \A j, k \in DOMAIN firmware :
            j < k => /\ EntryEnd(firmware[j]) <= firmware[k].base
                     /\ firmware[j].type = "USABLE" /\ firmware[k].type = "USABLE" =>
                            EntryEnd(firmware[j]) < firmware[k].base
    BY <1>1, FirmwareApart
  <1>4. ASSUME NEW k \in DOMAIN firmware
        PROVE  /\ new[k] \in limine_memmap_entry
               /\ new[k].base = firmware[k].base /\ new[k].length = firmware[k].length
               /\ new[k].type = "USABLE" <=> Usable(k)
    <2>1. firmware[k] \in limine_memmap_entry
      BY <1>3
    <2>2. CASE firmware[k].base \in IOMMU_BLOCK
      <3>1. new[k] = [firmware[k] EXCEPT !.type = "BAD_MEMORY"]
        BY <1>1, <1>2, <2>2, Zenon
      <3>2. new[k] = [base |-> firmware[k].base, length |-> firmware[k].length,
                      type |-> "BAD_MEMORY"]
        BY <2>1, <3>1, MadeBad, Zenon
      <3> HIDE DEF new
      <3>3. firmware[k].base \in Nat /\ firmware[k].length \in Nat
        BY <2>1, EntryFields
      <3> QED BY <2>2, <3>2, <3>3 DEF Usable, limine_memmap_entry, LIMINE_TYPES
    <2>3. CASE firmware[k].base \notin IOMMU_BLOCK
      <3>1. new[k] = firmware[k]
        BY <1>1, <1>2, <2>3, Zenon
      <3> HIDE DEF new
      <3> QED BY <2>1, <2>3, <3>1 DEF Usable
    <2> QED BY <2>2, <2>3
  <1>5. DOMAIN new = DOMAIN firmware /\ new \in Seq(limine_memmap_entry) /\ Len(new) = Len(firmware)
    <2>1. DOMAIN new = 1 .. Len(firmware) /\ Len(firmware) \in Nat
      BY <1>1, <1>2, <1>3
    <2>2. new = [k \in 1 .. Len(firmware) |-> new[k]]
      BY <1>1, <1>2, <2>1, Zenon
    <2>3. DOMAIN firmware = 1 .. Len(firmware)
      BY <1>3
    <2> HIDE DEF new
    <2>4. new \in [1 .. Len(firmware) -> limine_memmap_entry]
      BY <1>4, <2>2, <2>3, Zenon
    <2> QED BY <2>1, <2>3, <2>4, FunctionIsSeq
  <1> HIDE DEF new
  <1>6. Arranged(new, {})
    <2>1. ASSUME NEW k \in DOMAIN new
          PROVE  /\ new[k].length > 0 /\ EntryEnd(new[k]) < WORLD
                 /\ new[k].type = "USABLE" =>
                      /\ Usable(k)
                      /\ Pages(new[k].base, new[k].length)
                            = Pages(firmware[k].base, firmware[k].length) \ {}
      BY <1>3, <1>4, <1>5 DEF EntryEnd
    <2>2. ASSUME NEW j \in DOMAIN new, NEW k \in DOMAIN new, j < k
          PROVE  /\ EntryEnd(new[j]) <= new[k].base
                 /\ new[j].type = "USABLE" /\ new[k].type = "USABLE" =>
                        EntryEnd(new[j]) < new[k].base
      <3>1. EntryEnd(new[j]) = EntryEnd(firmware[j])
        BY <1>4, <1>5 DEF EntryEnd
      <3>2. new[j].type = "USABLE" => firmware[j].type = "USABLE"
        BY <1>4, <1>5 DEF Usable
      <3>3. new[k].type = "USABLE" => firmware[k].type = "USABLE"
        BY <1>4, <1>5 DEF Usable
      <3>4. new[k].base = firmware[k].base
        BY <1>4, <1>5
      <3> QED BY <1>3, <1>5, <2>2, <3>1, <3>2, <3>3, <3>4
    <2> QED BY <1>5, <2>1, <2>2 DEF Arranged
  <1>7. MapInv'
    <2>1. Arranged(limine_map, kept)'
      BY <1>1, <1>2, <1>6 DEF new, Arranged, Usable, EntryEnd
    <2>2. \A k \in DOMAIN firmware' : Usable(k)' => limine_map'[k].type = "USABLE"
      BY <1>2, <1>4 DEF new, Usable
    <2> QED BY <1>1, <1>2, <2>1, <2>2 DEF MapInv
  <1>8. TypeOK'
    <2>1. TypeOK /\ limine_map' \in Seq(limine_memmap_entry)
      BY <1>5 DEF IInv, new
    <2> QED BY <1>2, <2>1 DEF TypeOK
  <1>9. CountInv'
    BY <1>1, <1>2 DEF CountInv
  <1>10. ListInv'
    BY <1>1, <1>2 DEF ListInv
  <1> QED BY <1>7, <1>8, <1>9, <1>10 DEF IInv

(* The first pair is a pair. *)
LEMMA FirstPairIsOne ==
    ASSUME limine_map \in Seq(limine_memmap_entry), ConsecutivePairs # {}
    PROVE  /\ FirstPair \in Nat /\ FirstPair \in DOMAIN limine_map
           /\ FirstPair + 1 \in DOMAIN limine_map /\ IsPair(FirstPair)
  <1>1. ConsecutivePairs \in SUBSET Nat
    BY DEF ConsecutivePairs
  <1>2. PICK m \in ConsecutivePairs : \A j \in ConsecutivePairs : m <= j
    BY <1>1, LeastMember
  <1>3. FirstPair \in ConsecutivePairs
    BY <1>2 DEF FirstPair
  <1> QED BY <1>3 DEF ConsecutivePairs

(* protect_map moves pages from a free entry into the one in use before it. *)
LEMMA ProtectMapInv == ASSUME IInv, protect_map PROVE IInv'
  <1> DEFINE new == limine_map'
             k == FirstPair
  <1>1. /\ firmware \in Firmwares /\ kept = {} /\ Arranged(limine_map, {})
        /\ \A j \in DOMAIN firmware : Usable(j) => limine_map[j].type = "USABLE"
        /\ i = 1 /\ free_memory = 0 /\ list = <<>>
    BY DEF IInv, MapInv, ListInv, protect_map
  <1>2. /\ ConsecutivePairs # {}
        /\ kept' = Pages(limine_map[k + 1].base, map_pages)
        /\ new = MapProtected(k)
        /\ pc' = "copy_map" /\ firmware' = firmware
        /\ memory_map' = memory_map /\ data' = data /\ free_memory' = free_memory
        /\ i' = i /\ list' = list /\ detected' = detected
    BY DEF protect_map
  <1>3. /\ limine_map \in Seq(limine_memmap_entry) /\ Len(limine_map) = Len(firmware)
        /\ DOMAIN limine_map = 1 .. Len(limine_map) /\ Len(limine_map) \in Nat
    BY <1>1 DEF Arranged
  <1>4. k \in Nat /\ k \in DOMAIN limine_map /\ k + 1 \in DOMAIN limine_map /\ IsPair(k)
    BY <1>2, <1>3, FirstPairIsOne
  <1>5. /\ DOMAIN new = DOMAIN limine_map
        /\ new[k] = [base   |-> limine_map[k].base,
                     length |-> limine_map[k].length + map_pages,
                     type   |-> limine_map[k].type]
        /\ new[k + 1] = [base   |-> limine_map[k + 1].base + map_pages,
                         length |-> limine_map[k + 1].length - map_pages,
                         type   |-> limine_map[k + 1].type]
        /\ \A j \in DOMAIN limine_map : j # k /\ j # k + 1 => new[j] = limine_map[j]
    BY <1>2, <1>3, <1>4, Moved
  <1>6. \A j \in DOMAIN limine_map :
            /\ limine_map[j].base \in Nat /\ limine_map[j].length \in Nat
            /\ limine_map[j].type \in LIMINE_TYPES
            /\ limine_map[j].length > 0 /\ EntryEnd(limine_map[j]) < WORLD
            /\ EntryEnd(limine_map[j]) \in Nat
    BY <1>1, <1>3, EntryFields DEF Arranged, EntryEnd
  <1>7. limine_map[k + 1].length > map_pages /\ limine_map[k].type # "USABLE" /\ map_pages \in Nat \ {0}
    BY <1>4, Consts DEF IsPair, limine_mmap_type_convert
  <1>8. \A j, l \in DOMAIN limine_map :
            j < l => /\ EntryEnd(limine_map[j]) <= limine_map[l].base
                     /\ limine_map[j].type = "USABLE" /\ limine_map[l].type = "USABLE" =>
                            EntryEnd(limine_map[j]) < limine_map[l].base
    BY <1>1 DEF Arranged
  <1> HIDE DEF new, k
  <1>9. ASSUME NEW j \in DOMAIN limine_map
        PROVE  /\ new[j] \in limine_memmap_entry /\ new[j].type = limine_map[j].type
               /\ new[j].length > 0 /\ EntryEnd(new[j]) \in Nat
               /\ new[j].base < EntryEnd(new[j])
               /\ j # k => EntryEnd(new[j]) = EntryEnd(limine_map[j])
               /\ j # k + 1 => new[j].base = limine_map[j].base
               /\ limine_map[j].base <= new[j].base
    <2>1. CASE j = k
      BY <1>4, <1>5, <1>6, <1>7, <2>1 DEF EntryEnd, limine_memmap_entry
    <2>2. CASE j = k + 1
      BY <1>4, <1>5, <1>6, <1>7, <2>2 DEF EntryEnd, limine_memmap_entry
    <2>3. CASE j # k /\ j # k + 1
      <3>1. new[j] = limine_map[j] /\ limine_map[j] \in limine_memmap_entry
        BY <1>3, <1>5, <2>3
      <3> QED BY <1>6, <2>3, <3>1 DEF EntryEnd
    <2> QED BY <2>1, <2>2, <2>3
  <1>10. EntryEnd(new[k]) <= new[k + 1].base
    <2>1. EntryEnd(limine_map[k]) <= limine_map[k + 1].base
      BY <1>4, <1>8
    <2> QED BY <1>4, <1>5, <1>6, <1>7, <2>1 DEF EntryEnd
  <1>11. ASSUME NEW j \in DOMAIN limine_map, NEW l \in DOMAIN limine_map, j < l
         PROVE  /\ EntryEnd(new[j]) <= new[l].base
                /\ new[j].type = "USABLE" /\ new[l].type = "USABLE" =>
                       EntryEnd(new[j]) < new[l].base
    <2>0. new[j].base \in Nat /\ new[l].base \in Nat
      BY <1>9, EntryFields
    <2>1. CASE j # k
      <3>1. EntryEnd(new[j]) = EntryEnd(limine_map[j]) /\ limine_map[l].base <= new[l].base
        BY <1>9, <2>1
      <3>2. new[j].type = limine_map[j].type /\ new[l].type = limine_map[l].type
        BY <1>9
      <3> QED BY <1>6, <1>8, <1>11, <2>0, <3>1, <3>2
    <2>2. CASE j = k /\ l = k + 1
      BY <1>7, <1>9, <1>10, <2>2
    <2>3. CASE j = k /\ l # k + 1
      <3>1. k + 1 < l
        BY <1>3, <1>4, <1>11, <2>3
      <3>2. /\ new[k + 1].base < EntryEnd(new[k + 1])
            /\ EntryEnd(new[k + 1]) = EntryEnd(limine_map[k + 1])
        BY <1>4, <1>9
      <3>3. EntryEnd(limine_map[k + 1]) <= limine_map[l].base /\ limine_map[l].base <= new[l].base
        BY <1>4, <1>8, <1>9, <3>1
      <3>4. new[j].type # "USABLE"
        BY <1>7, <1>9, <2>3
      <3>5. new[k + 1].base \in Nat /\ EntryEnd(new[k]) \in Nat
        BY <1>4, <1>9, EntryFields
      <3> QED BY <1>4, <1>6, <1>10, <2>0, <2>3, <3>2, <3>3, <3>4, <3>5
    <2> QED BY <2>1, <2>2, <2>3
  <1>12. ASSUME NEW j \in DOMAIN limine_map PROVE EntryEnd(new[j]) < WORLD
    <2>1. CASE j # k
      BY <1>6, <1>9, <2>1
    <2>2. CASE j = k
      <3>1. EntryEnd(new[k + 1]) < WORLD /\ EntryEnd(new[k + 1]) \in Nat
        BY <1>4, <1>6, <1>9
      <3>2. new[k + 1].base < EntryEnd(new[k + 1]) /\ new[k + 1].base \in Nat
        BY <1>4, <1>9, EntryFields
      <3>3. EntryEnd(new[k]) \in Nat /\ WORLD \in Nat
        BY <1>4, <1>9, Consts
      <3> QED BY <1>10, <2>2, <3>1, <3>2, <3>3
    <2> QED BY <2>1, <2>2
  <1>13. ASSUME NEW j \in DOMAIN limine_map, new[j].type = "USABLE"
         PROVE  /\ Usable(j)
                /\ Pages(new[j].base, new[j].length)
                       = Pages(firmware[j].base, firmware[j].length) \ kept'
    <2>1. limine_map[j].type = "USABLE" /\ j # k
      BY <1>7, <1>9, <1>13
    <2>2. /\ Usable(j)
          /\ Pages(limine_map[j].base, limine_map[j].length)
                = Pages(firmware[j].base, firmware[j].length)
      BY <1>1, <2>1 DEF Arranged
    <2>3. Pages(new[j].base, new[j].length)
                = Pages(limine_map[j].base, limine_map[j].length) \ kept'
      <3> DEFINE b == limine_map[j].base
                 n == limine_map[j].length
                 c == limine_map[k + 1].base
      <3>1. b \in Nat /\ n \in Nat /\ c \in Nat /\ map_pages \in Nat \ {0}
        BY <1>4, <1>6, <1>7
      <3>2. kept' = c .. c + map_pages - 1
        BY <1>2 DEF Pages, k
      <3>3. CASE j = k + 1
        <4>1. new[j].base = b + map_pages /\ new[j].length = n - map_pages /\ c = b /\ n > map_pages
          BY <1>5, <1>7, <3>3
        <4> HIDE DEF b, n, c
        <4>2. b + map_pages .. b + map_pages + (n - map_pages) - 1 = (b .. b + n - 1) \ (b .. b + map_pages - 1)
          BY <3>1, <4>1
        <4> QED BY <3>2, <4>1, <4>2 DEF Pages, b, n
      <3>4. CASE j # k + 1
        <4>1. new[j].base = b /\ new[j].length = n
          BY <1>5, <2>1, <3>4
        <4>2. b + n <= c \/ c + limine_map[k + 1].length <= b
          <5>1. j \in Nat /\ k \in Nat
            BY <1>3, <1>4
          <5>2. j < k + 1 \/ k + 1 < j
            BY <3>4, <5>1
          <5>3. j < k + 1 => EntryEnd(limine_map[j]) <= c
            BY <1>4, <1>8
          <5>4. k + 1 < j => EntryEnd(limine_map[k + 1]) <= b
            BY <1>4, <1>8
          <5> QED BY <5>2, <5>3, <5>4 DEF EntryEnd
        <4>3. limine_map[k + 1].length > map_pages /\ limine_map[k + 1].length \in Nat
          BY <1>4, <1>6, <1>7
        <4> HIDE DEF b, n, c
        <4>4. (b .. b + n - 1) \cap (c .. c + map_pages - 1) = {}
          BY <3>1, <4>2, <4>3
        <4> QED BY <3>2, <4>1, <4>4 DEF Pages, b, n
      <3> QED BY <3>3, <3>4
    <2> QED BY <2>2, <2>3
  <1>14. new \in Seq(limine_memmap_entry) /\ Len(new) = Len(firmware)
    <2>1. new = [j \in 1 .. Len(limine_map) |-> new[j]]
      <3>1. new = [j \in DOMAIN new |-> new[j]]
        BY <1>2 DEF MapProtected
      <3> QED BY <1>3, <1>5, <3>1
    <2>2. new \in [1 .. Len(limine_map) -> limine_memmap_entry]
      BY <1>3, <1>9, <2>1, Zenon
    <2> QED BY <1>3, <2>2, FunctionIsSeq
  <1>15. kept' \subseteq 0 .. WORLD - 1
    <2> DEFINE c == limine_map[k + 1].base
               n == limine_map[k + 1].length
    <2>1. c \in Nat /\ n \in Nat /\ c + n < WORLD /\ n > map_pages
      BY <1>4, <1>6, <1>7 DEF EntryEnd
    <2>2. kept' = c .. c + map_pages - 1
      BY <1>2 DEF Pages, k
    <2> HIDE DEF c, n
    <2> QED BY <1>7, <2>1, <2>2, Consts
  <1>16. MapInv'
    <2>1. Arranged(limine_map, kept)'
      <3>1. \A j \in DOMAIN limine_map' :
                /\ limine_map'[j].length > 0 /\ EntryEnd(limine_map'[j]) < WORLD
                /\ limine_map'[j].type = "USABLE" =>
                     /\ Usable(j)
                     /\ Pages(limine_map'[j].base, limine_map'[j].length)
                            = Pages(firmware[j].base, firmware[j].length) \ kept'
        BY <1>5, <1>9, <1>12, <1>13 DEF new
      <3>2. \A j, l \in DOMAIN limine_map' :
                j < l => /\ EntryEnd(limine_map'[j]) <= limine_map'[l].base
                         /\ limine_map'[j].type = "USABLE" /\ limine_map'[l].type = "USABLE" =>
                                EntryEnd(limine_map'[j]) < limine_map'[l].base
        BY <1>5, <1>11 DEF new
      <3> QED BY <1>2, <1>14, <3>1, <3>2 DEF new, Arranged, Usable, EntryEnd
    <2>2. \A j \in DOMAIN firmware' : Usable(j)' => limine_map'[j].type = "USABLE"
      <3>1. DOMAIN firmware = DOMAIN limine_map
        BY <1>1, <1>3, FirmwareApart
      <3> QED BY <1>1, <1>2, <1>9, <3>1 DEF new, Usable
    <2> QED BY <1>1, <1>2, <2>1, <2>2 DEF MapInv
  <1>17. TypeOK'
    <2>1. TypeOK /\ limine_map' \in Seq(limine_memmap_entry)
      BY <1>14 DEF IInv, new
    <2> QED BY <1>2, <1>15, <2>1 DEF TypeOK
  <1>18. CountInv'
    BY <1>1, <1>2 DEF CountInv
  <1>19. ListInv'
    BY <1>1, <1>2 DEF ListInv
  <1> QED BY <1>16, <1>17, <1>18, <1>19 DEF IInv

(* The kernel has stopped, with no list. *)
LEMMA NoPairInv == ASSUME IInv, no_pair PROVE IInv'
  <1>1. /\ firmware \in Firmwares /\ i = 1 /\ free_memory = 0 /\ list = <<>>
    BY DEF IInv, MapInv, ListInv, no_pair
  <1>2. /\ pc' \in {"halted", "undefined"} /\ firmware' = firmware
        /\ limine_map' = limine_map /\ kept' = kept
        /\ memory_map' = memory_map /\ data' = data /\ free_memory' = free_memory
        /\ i' = i /\ list' = list /\ detected' = detected
    BY DEF no_pair
  <1>3. TypeOK'
    BY <1>2 DEF IInv, TypeOK
  <1>4. MapInv'
    BY <1>1, <1>2 DEF MapInv
  <1>5. CountInv'
    BY <1>1, <1>2 DEF CountInv
  <1>6. ListInv'
    <2>1. list' = <<>> /\ DOMAIN list' = {}
      BY <1>1, <1>2
    <2> QED BY <1>2, <2>1 DEF ListInv, FromEntries
  <1> QED BY <1>3, <1>4, <1>5, <1>6 DEF IInv

(* An entry behind the first one, as copy_map leaves it: whole, empty, or what *)
(* is behind the first megabyte.                                           *)
Whole(e, c) ==
    /\ e.base >= MEGABYTE
    /\ c.base = e.base /\ c.length = e.length
    /\ c.signal = "FREE" <=> e.type = "USABLE"
Emptied(e, c) ==
    /\ e.base < MEGABYTE /\ e.base + e.length < MEGABYTE
    /\ c.base = e.base /\ c.length = 0 /\ c.signal = "NOUSE"
Cut(e, c) ==
    /\ e.base < MEGABYTE /\ e.base + e.length >= MEGABYTE
    /\ c.base = MEGABYTE /\ c.length = e.base + e.length - MEGABYTE
    /\ c.signal = "FREE" <=> e.type = "USABLE"

(* The copy of an entry that begins in the first megabyte. *)
LEMMA CutOrEmptied ==
    ASSUME NEW e \in limine_memmap_entry, e.base < MEGABYTE
    PROVE  LET c == BehindMegabyte(Converted(e))
           IN  c \in memory_map_entry /\ (Emptied(e, c) \/ Cut(e, c))
  <1> DEFINE c == BehindMegabyte(Converted(e))
             d == Converted(e)
  <1>1. /\ d.base = e.base /\ d.length = e.length
        /\ d.signal = "FREE" <=> e.type = "USABLE"
        /\ d.signal \in {"FREE", "BUSY", "MMIO", "NOUSE"}
    BY Converts DEF memory_map_entry
  <1>2. e.base \in Nat /\ e.length \in Nat /\ MEGABYTE \in Nat
    BY EntryFields, Consts
  <1>3. c = IF d.base + d.length < MEGABYTE
            THEN [base |-> d.base, length |-> 0, signal |-> "NOUSE"]
            ELSE [base |-> MEGABYTE, length |-> d.length - (MEGABYTE - d.base), signal |-> d.signal]
    BY DEF BehindMegabyte
  <1> HIDE DEF c, d
  <1>4. CASE e.base + e.length < MEGABYTE
    <2>1. c = [base |-> e.base, length |-> 0, signal |-> "NOUSE"]
      BY <1>1, <1>3, <1>4
    <2> QED BY <1>2, <1>4, <2>1 DEF Emptied, memory_map_entry, c
  <1>5. CASE ~(e.base + e.length < MEGABYTE)
    <2>1. c = [base |-> MEGABYTE, length |-> e.length - (MEGABYTE - e.base), signal |-> d.signal]
      BY <1>1, <1>3, <1>5
    <2>2. e.length - (MEGABYTE - e.base) = e.base + e.length - MEGABYTE
      BY <1>2
    <2>3. e.length - (MEGABYTE - e.base) \in Nat /\ e.base + e.length >= MEGABYTE
      BY <1>2, <1>5
    <2>4. c \in memory_map_entry
      BY <1>1, <1>2, <2>1, <2>3 DEF memory_map_entry
    <2>5. Cut(e, c)
      <3>1. c.base = MEGABYTE /\ c.length = e.length - (MEGABYTE - e.base) /\ c.signal = d.signal
        BY <2>1
      <3> QED BY <1>1, <2>2, <2>3, <3>1 DEF Cut
    <2> QED BY <2>4, <2>5 DEF c
  <1> QED BY <1>4, <1>5 DEF c

(* copy_map takes the first megabyte out of entries that are in order. *)
LEMMA CopyMapInv == ASSUME IInv, copy_map PROVE IInv'
  <1> DEFINE new == memory_map'
             n == Len(limine_map)
  <1>1. /\ firmware \in Firmwares /\ Arranged(limine_map, kept)
        /\ \A j \in DOMAIN firmware : Usable(j) => limine_map[j].type = "USABLE"
        /\ i = 1 /\ free_memory = 0 /\ list = <<>>
    BY DEF IInv, MapInv, ListInv, copy_map
  <1>2. /\ new = [k \in DOMAIN limine_map |->
                    IF k = 1 THEN [base |-> 0, length |-> MEGABYTE, signal |-> "NOUSE"]
                    ELSE IF limine_map[k].base < MEGABYTE
                    THEN BehindMegabyte(Converted(limine_map[k]))
                    ELSE Converted(limine_map[k])]
        /\ pc' = "count_free" /\ firmware' = firmware /\ limine_map' = limine_map
        /\ kept' = kept /\ data' = data /\ free_memory' = free_memory
        /\ i' = i /\ list' = list /\ detected' = detected
    BY DEF copy_map
  <1>3. /\ limine_map \in Seq(limine_memmap_entry) /\ DOMAIN limine_map = 1 .. n
        /\ n \in Nat \ {0} /\ DOMAIN firmware = 1 .. n
    <2>1. firmware \in Seq(limine_memmap_entry) /\ firmware # <<>>
      BY <1>1, FirmwareApart
    <2>2. limine_map \in Seq(limine_memmap_entry) /\ n = Len(firmware)
      BY <1>1 DEF Arranged
    <2> QED BY <2>1, <2>2
  <1>4. \A j \in 1 .. n :
            /\ limine_map[j].base \in Nat /\ limine_map[j].length \in Nat
            /\ limine_map[j] \in limine_memmap_entry
            /\ limine_map[j].length > 0 /\ EntryEnd(limine_map[j]) < WORLD
    BY <1>1, <1>3, EntryFields DEF Arranged
  <1>5. \A j, l \in 1 .. n :
            j < l => /\ EntryEnd(limine_map[j]) <= limine_map[l].base
                     /\ limine_map[j].type = "USABLE" /\ limine_map[l].type = "USABLE" =>
                            EntryEnd(limine_map[j]) < limine_map[l].base
    BY <1>1, <1>3 DEF Arranged
  <1>6. MEGABYTE \in Nat \ {0} /\ WORLD \in Nat /\ MEGABYTE < WORLD
    BY Consts
  <1>7. new[1] = [base |-> 0, length |-> MEGABYTE, signal |-> "NOUSE"] /\ DOMAIN new = 1 .. n
    BY <1>2, <1>3
  <1>8. ASSUME NEW k \in 2 .. n
        PROVE  /\ new[k] \in memory_map_entry
               /\ \/ Whole(limine_map[k], new[k])
                  \/ Emptied(limine_map[k], new[k])
                  \/ Cut(limine_map[k], new[k])
    <2>1. k \in DOMAIN limine_map /\ k # 1 /\ k \in 1 .. n
      BY <1>3
    <2>2. limine_map[k] \in limine_memmap_entry /\ limine_map[k].base \in Nat
      BY <1>4, <2>1
    <2>3. CASE limine_map[k].base < MEGABYTE
      <3>1. new[k] = BehindMegabyte(Converted(limine_map[k]))
        BY <1>2, <2>1, <2>3, Zenon
      <3> HIDE DEF new
      <3> QED BY <2>2, <2>3, <3>1, CutOrEmptied
    <2>4. CASE ~(limine_map[k].base < MEGABYTE)
      <3>1. new[k] = Converted(limine_map[k])
        BY <1>2, <2>1, <2>4, Zenon
      <3>2. limine_map[k].base >= MEGABYTE
        BY <1>6, <2>2, <2>4
      <3> HIDE DEF new
      <3> QED BY <2>2, <3>1, <3>2, Converts DEF Whole
    <2> QED BY <2>3, <2>4
  <1>9. new \in Seq(memory_map_entry) /\ Len(new) = n
    <2>1. new = [k \in 1 .. n |-> new[k]]
      BY <1>2, <1>3, Zenon
    <2>2. new[1] \in memory_map_entry
      BY <1>6, <1>7 DEF memory_map_entry
    <2> HIDE DEF new
    <2>3. \A k \in 1 .. n : k = 1 \/ k \in 2 .. n
      BY <1>3
    <2>4. \A k \in 1 .. n : new[k] \in memory_map_entry
      BY <1>8, <2>2, <2>3
    <2>5. new \in [1 .. n -> memory_map_entry]
      BY <2>1, <2>4, Zenon
    <2> QED BY <1>3, <2>5, FunctionIsSeq
  <1> HIDE DEF new, n
  <1>10. ASSUME NEW k \in 2 .. n
         PROVE  /\ new[k].base \in Nat /\ new[k].length \in Nat /\ k \in 1 .. n
                /\ EntryEnd(new[k]) <= EntryEnd(limine_map[k])
                /\ limine_map[k].base <= new[k].base /\ new[k].base > 0
                /\ new[k].signal = "FREE" =>
                     /\ limine_map[k].type = "USABLE" /\ new[k].base >= MEGABYTE
                     /\ EntryEnd(new[k]) = EntryEnd(limine_map[k])
                     /\ new[k].length = 0 => new[k].base = MEGABYTE
    <2>1. k \in 1 .. n /\ 1 \in 1 .. n /\ 1 < k
      BY <1>3
    <2>2. EntryEnd(limine_map[1]) <= limine_map[k].base
      BY <1>5, <2>1
    <2>3. limine_map[k].base > 0
      BY <1>4, <2>1, <2>2 DEF EntryEnd
    <2>4. new[k].base \in Nat /\ new[k].length \in Nat
      BY <1>8 DEF memory_map_entry
    <2>5. limine_map[k].base \in Nat /\ limine_map[k].length \in Nat /\ limine_map[k].length > 0
      BY <1>4, <2>1
    <2>6. CASE Whole(limine_map[k], new[k])
      BY <1>6, <2>1, <2>3, <2>4, <2>5, <2>6 DEF Whole, EntryEnd
    <2>7. CASE Emptied(limine_map[k], new[k])
      BY <1>6, <2>1, <2>3, <2>4, <2>5, <2>7 DEF Emptied, EntryEnd
    <2>8. CASE Cut(limine_map[k], new[k])
      BY <1>6, <2>1, <2>3, <2>4, <2>5, <2>8 DEF Cut, EntryEnd
    <2> QED BY <1>8, <2>6, <2>7, <2>8
  <1>11. ASSUME NEW k \in 2 .. n, new[k].signal = "FREE"
         PROVE  Pages(new[k].base, new[k].length) \subseteq UsablePages \ kept
    <2>1. k \in 1 .. n /\ k \in DOMAIN firmware /\ k \in DOMAIN limine_map
      BY <1>3, <1>10
    <2>2. limine_map[k].type = "USABLE"
      BY <1>10, <1>11
    <2>3. /\ Usable(k)
          /\ Pages(limine_map[k].base, limine_map[k].length)
                = Pages(firmware[k].base, firmware[k].length) \ kept
      BY <1>1, <2>1, <2>2 DEF Arranged
    <2>4. ASSUME NEW p \in Pages(new[k].base, new[k].length)
          PROVE  p \in UsablePages \ kept
      <3>1. /\ new[k].base \in Nat /\ new[k].length \in Nat
            /\ limine_map[k].base <= new[k].base /\ new[k].base >= MEGABYTE
            /\ new[k].base + new[k].length = limine_map[k].base + limine_map[k].length
        BY <1>10, <1>11 DEF EntryEnd
      <3>2. /\ limine_map[k].base \in Nat /\ limine_map[k].length \in Nat
            /\ limine_map[k].base + limine_map[k].length < WORLD
        BY <1>4, <2>1 DEF EntryEnd
      <3>3. p \in new[k].base .. new[k].base + new[k].length - 1
        BY <2>4 DEF Pages
      <3>4. p \in Pages(limine_map[k].base, limine_map[k].length) /\ p \in MEGABYTE .. WORLD - 1
        BY <1>6, <3>1, <3>2, <3>3 DEF Pages
      <3> QED BY <2>1, <2>3, <3>4 DEF UsablePages, Usable
    <2> QED BY <2>4
  <1>12. ASSUME NEW j \in 2 .. n, NEW k \in 2 .. n, j < k
         PROVE  /\ new[j].signal = "FREE" /\ new[k].signal = "FREE" =>
                        EntryEnd(new[j]) # new[k].base
                /\ new[j].base = new[k].base => new[j].base = MEGABYTE /\ new[j].length = 0
    <2>1. EntryEnd(limine_map[j]) <= limine_map[k].base /\ limine_map[k].base <= new[k].base
      BY <1>5, <1>10, <1>12
    <2>2. /\ limine_map[j].base \in Nat /\ limine_map[j].length \in Nat /\ limine_map[j].length > 0
          /\ limine_map[k].base \in Nat /\ limine_map[k].length \in Nat
          /\ new[j].base \in Nat /\ new[j].length \in Nat /\ new[k].base \in Nat
      BY <1>4, <1>10
    <2>3. ASSUME new[j].signal = "FREE", new[k].signal = "FREE"
          PROVE  EntryEnd(new[j]) # new[k].base
      <3>1. EntryEnd(new[j]) = EntryEnd(limine_map[j])
        BY <1>10, <2>3
      <3>2. limine_map[j].type = "USABLE" /\ limine_map[k].type = "USABLE"
        BY <1>10, <2>3
      <3>3. EntryEnd(limine_map[j]) < limine_map[k].base
        BY <1>5, <1>10, <1>12, <3>2
      <3> QED BY <2>1, <2>2, <3>1, <3>3 DEF EntryEnd
    <2>4. ASSUME new[j].base = new[k].base
          PROVE  new[j].base = MEGABYTE /\ new[j].length = 0
      <3>1. CASE Whole(limine_map[j], new[j])
        BY <2>1, <2>2, <2>4, <3>1 DEF Whole, EntryEnd
      <3>2. CASE Emptied(limine_map[j], new[j])
        BY <2>1, <2>2, <2>4, <3>2 DEF Emptied, EntryEnd
      <3>3. CASE Cut(limine_map[j], new[j])
        <4>1. CASE Whole(limine_map[k], new[k])
          BY <1>6, <2>1, <2>2, <2>4, <3>3, <4>1 DEF Whole, Cut, EntryEnd
        <4>2. CASE Emptied(limine_map[k], new[k])
          BY <1>6, <2>1, <2>2, <3>3, <4>2 DEF Emptied, Cut, EntryEnd
        <4>3. CASE Cut(limine_map[k], new[k])
          BY <1>6, <2>1, <2>2, <3>3, <4>3 DEF Cut, EntryEnd
        <4> QED BY <1>8, <4>1, <4>2, <4>3
      <3> QED BY <1>8, <3>1, <3>2, <3>3
    <2> QED BY <2>3, <2>4
  <1>13. ASSUME NEW p \in UsablePages, p \notin kept,
                p \notin Pages(firmware[1].base, firmware[1].length)
         PROVE  \E k \in 2 .. n : new[k].signal = "FREE" /\ p \in Pages(new[k].base, new[k].length)
    <2>1. PICK k \in DOMAIN firmware : Usable(k) /\ p \in Pages(firmware[k].base, firmware[k].length)
      BY DEF UsablePages, Usable
    <2>2. k \in 2 .. n /\ k \in 1 .. n
      BY <1>3, <1>13, <2>1
    <2>3. limine_map[k].type = "USABLE" /\ k \in DOMAIN limine_map
      BY <1>1, <1>3, <2>1, <2>2
    <2>4. p \in Pages(limine_map[k].base, limine_map[k].length)
      BY <1>1, <1>13, <2>1, <2>3 DEF Arranged
    <2>5. p \in Nat /\ p >= MEGABYTE
      BY <1>6 DEF UsablePages
    <2>6. limine_map[k].base \in Nat /\ limine_map[k].length \in Nat
      BY <1>4, <2>2
    <2>7. CASE Whole(limine_map[k], new[k])
      BY <2>2, <2>3, <2>4, <2>7 DEF Whole
    <2>8. CASE Emptied(limine_map[k], new[k])
      BY <1>6, <2>4, <2>5, <2>6, <2>8 DEF Emptied, Pages
    <2>9. CASE Cut(limine_map[k], new[k])
      <3>1. p \in Pages(new[k].base, new[k].length)
        BY <1>6, <2>4, <2>5, <2>6, <2>9 DEF Cut, Pages
      <3> QED BY <2>2, <2>3, <2>9, <3>1 DEF Cut
    <2> QED BY <1>8, <2>2, <2>7, <2>8, <2>9
  <1>14. Clipped'
    <2>1. new # <<>>
      BY <1>3, <1>9
    <2>2. ASSUME NEW k \in 2 .. n
          PROVE  /\ EntryEnd(new[k]) < WORLD /\ new[k].base > 0
                 /\ new[k].signal = "FREE" =>
                      /\ new[k].base >= MEGABYTE
                      /\ Pages(new[k].base, new[k].length) \subseteq UsablePages \ kept
                      /\ new[k].length = 0 => new[k].base = MEGABYTE
      <3>1. EntryEnd(new[k]) < WORLD
        <4>1. EntryEnd(limine_map[k]) < WORLD /\ EntryEnd(new[k]) <= EntryEnd(limine_map[k])
          BY <1>4, <1>10
        <4>2. EntryEnd(limine_map[k]) \in Nat /\ EntryEnd(new[k]) \in Nat
          BY <1>4, <1>10 DEF EntryEnd
        <4> QED BY <1>6, <4>1, <4>2
      <3> QED BY <1>10, <1>11, <3>1
    <2>3. UsablePages' = UsablePages /\ kept' = kept
      BY <1>2 DEF UsablePages
    <2>4. \A k \in 2 .. Len(new) :
            /\ EntryEnd(new[k]) < WORLD /\ new[k].base > 0
            /\ new[k].signal = "FREE" =>
                 /\ new[k].base >= MEGABYTE
                 /\ Pages(new[k].base, new[k].length) \subseteq UsablePages' \ kept'
                 /\ new[k].length = 0 => new[k].base = MEGABYTE
      BY <1>9, <2>2, <2>3
    <2>5. \A j, k \in 2 .. Len(new) :
            j < k => /\ new[j].signal = "FREE" /\ new[k].signal = "FREE" =>
                            EntryEnd(new[j]) # new[k].base
                     /\ new[j].base = new[k].base =>
                            new[j].base = MEGABYTE /\ new[j].length = 0
      BY <1>9, <1>12
    <2> QED BY <1>7, <1>9, <2>1, <2>4, <2>5, Zenon DEF new, Clipped, Free, EntryPages, EntryEnd
  <1>15. NothingLost'
    BY <1>2, <1>9, <1>13 DEF new, NothingLost, Free, EntryPages, UsablePages
  <1>16. MapInv'
    BY <1>1, <1>2, <1>14, <1>15 DEF MapInv
  <1>17. TypeOK'
    <2>1. TypeOK /\ memory_map' \in Seq(memory_map_entry)
      BY <1>9 DEF IInv, new
    <2> QED BY <1>2, <2>1 DEF TypeOK, memory_map_entry
  <1>18. CountInv'
    <2>1. \A k \in 2 .. Len(memory_map') : ~(k < i')
      BY <1>1, <1>2, <1>9 DEF new
    <2>2. i' \in Nat \ {0} /\ free_memory' \in Nat /\ pc' # "place_headers"
      BY <1>1, <1>2
    <2> QED BY <2>1, <2>2 DEF CountInv
  <1>19. ListInv'
    BY <1>1, <1>2 DEF ListInv
  <1> QED BY <1>16, <1>17, <1>18, <1>19 DEF IInv

-----------------------------------------------------------------------------
(* pmm_start, before its list *)

(* What is said of the copy of the map depends on nothing that comes after it. *)
LEMMA CopyKept ==
    ASSUME Clipped, NothingLost,
           firmware' = firmware, kept' = kept, memory_map' = memory_map
    PROVE  Clipped' /\ NothingLost'
  <1>1. UsablePages' = UsablePages
    BY DEF UsablePages
  <1>2. Clipped'
    BY <1>1, Zenon DEF Clipped, Free, EntryPages, EntryEnd
  <1>3. NothingLost'
    BY <1>1, Zenon DEF NothingLost, Free, EntryPages
  <1> QED BY <1>2, <1>3

(* The copy's entries have their types. *)
LEMMA CopyFields ==
    ASSUME Clipped
    PROVE  /\ DOMAIN memory_map = 1 .. Len(memory_map) /\ Len(memory_map) \in Nat \ {0}
           /\ 1 \in DOMAIN memory_map
           /\ \A k \in 2 .. Len(memory_map) : k \in DOMAIN memory_map
           /\ \A k \in DOMAIN memory_map :
                /\ memory_map[k].base \in Nat /\ memory_map[k].length \in Nat
                /\ memory_map[k].signal \in {"FREE", "BUSY", "MMIO", "NOUSE"}
                /\ memory_map[k] \in memory_map_entry
                /\ Free(k) => k \in 2 .. Len(memory_map)
  <1>1. /\ memory_map \in Seq(memory_map_entry) /\ memory_map # <<>>
        /\ memory_map[1].signal = "NOUSE"
    BY DEF Clipped
  <1>2. /\ DOMAIN memory_map = 1 .. Len(memory_map) /\ Len(memory_map) \in Nat \ {0}
    BY <1>1, EmptySeq
  <1>3. ASSUME NEW k \in DOMAIN memory_map
        PROVE  /\ memory_map[k].base \in Nat /\ memory_map[k].length \in Nat
               /\ memory_map[k].signal \in {"FREE", "BUSY", "MMIO", "NOUSE"}
               /\ memory_map[k] \in memory_map_entry
    <2>1. memory_map[k] \in memory_map_entry
      BY <1>1
    <2> QED BY <2>1 DEF memory_map_entry
  <1>4. ~Free(1)
    BY <1>1 DEF Free
  <1>5. \A k \in DOMAIN memory_map : Free(k) => k \in 2 .. Len(memory_map)
    <2>1. \A k \in DOMAIN memory_map : k = 1 \/ k \in 2 .. Len(memory_map)
      BY <1>2
    <2> QED BY <1>4, <2>1
  <1>6. 1 \in DOMAIN memory_map /\ \A k \in 2 .. Len(memory_map) : k \in DOMAIN memory_map
    BY <1>2
  <1> QED BY <1>2, <1>3, <1>5, <1>6

(* Where the steps of pmm_start begin. *)
LEMMA Started ==
    ASSUME IInv, pc \in {"count_free", "place_headers", "add_entry", "recombine"}
    PROVE  firmware \in Firmwares /\ Clipped /\ NothingLost /\ TypeOK /\ i \in Nat \ {0} /\ free_memory \in Nat
  BY DEF IInv, MapInv, CountInv

(* MapInv says nothing new of them. *)
LEMMA MapInvKept ==
    ASSUME firmware \in Firmwares, Clipped, NothingLost,
           firmware' = firmware, kept' = kept, memory_map' = memory_map,
           pc' \in {"count_free", "place_headers", "add_entry", "recombine", "done", "halted"}
    PROVE  MapInv'
  <1>1. Clipped' /\ NothingLost'
    BY CopyKept
  <1> QED BY <1>1 DEF MapInv

(* Every free entry that was passed is counted. *)
LEMMA CountFreeInv == ASSUME IInv, count_free PROVE IInv'
  <1>1. /\ pc = "count_free" /\ i <= Len(memory_map) /\ i' = i + 1
        /\ free_memory' = free_memory + (IF i \in FreeEntries THEN memory_map[i].length ELSE 0)
        /\ pc' = pc /\ firmware' = firmware /\ limine_map' = limine_map /\ kept' = kept
        /\ memory_map' = memory_map /\ data' = data /\ list' = list /\ detected' = detected
    BY DEF count_free
  <1>2. /\ firmware \in Firmwares /\ Clipped /\ NothingLost /\ TypeOK
        /\ i \in Nat \ {0} /\ free_memory \in Nat /\ list = <<>>
    BY <1>1, Started DEF IInv, ListInv
  <1>3. i \in DOMAIN memory_map /\ memory_map[i].length \in Nat
    BY <1>1, <1>2, CopyFields
  <1>4. /\ i' \in Nat \ {0} /\ free_memory' \in Nat /\ free_memory <= free_memory'
        /\ Free(i) => memory_map[i].length <= free_memory'
    <2>1. CASE i \in FreeEntries
      BY <1>1, <1>2, <1>3, <2>1
    <2>2. CASE i \notin FreeEntries
      BY <1>1, <1>2, <1>3, <2>2 DEF FreeEntries, Free
    <2> QED BY <2>1, <2>2
  <1>5. CountInv'
    <2>1. ASSUME NEW k \in 2 .. Len(memory_map), Free(k), k < i'
          PROVE  memory_map[k].length <= free_memory'
      <3>1. CASE k = i
        BY <1>4, <2>1, <3>1
      <3>2. CASE k # i
        <4>1. k < i
          BY <1>1, <1>2, <2>1, <3>2
        <4>2. memory_map[k].length <= free_memory /\ memory_map[k].length \in Nat
          BY <1>1, <1>2, <2>1, <4>1, CopyFields DEF IInv, CountInv
        <4> QED BY <1>2, <1>4, <4>2
      <3> QED BY <3>1, <3>2
    <2>2. \A k \in 2 .. Len(memory_map') :
            Free(k)' /\ k < i' => memory_map'[k].length <= free_memory'
      BY <1>1, <2>1 DEF Free
    <2>3. pc' # "place_headers"
      BY <1>1
    <2> QED BY <1>4, <2>2, <2>3 DEF CountInv
  <1>6. MapInv'
    BY <1>1, <1>2, MapInvKept
  <1>7. TypeOK'
    BY <1>1, <1>2, <1>4 DEF TypeOK
  <1>8. ListInv'
    BY <1>1, <1>2 DEF ListInv
  <1> QED BY <1>5, <1>6, <1>7, <1>8 DEF IInv

(* When the loop ends all of them are. *)
LEMMA CountEndsInv == ASSUME IInv, count_ends PROVE IInv'
  <1>1. /\ pc = "count_free" /\ i > Len(memory_map) /\ i' = i /\ free_memory' = free_memory
        /\ pc' = "place_headers" /\ firmware' = firmware /\ limine_map' = limine_map /\ kept' = kept
        /\ memory_map' = memory_map /\ data' = data /\ list' = list /\ detected' = detected
    BY DEF count_ends
  <1>2. /\ firmware \in Firmwares /\ Clipped /\ NothingLost /\ TypeOK
        /\ i \in Nat \ {0} /\ free_memory \in Nat /\ list = <<>>
    BY <1>1, Started DEF IInv, ListInv
  <1>3. ASSUME NEW k \in 2 .. Len(memory_map), Free(k) PROVE memory_map[k].length <= free_memory
    <2>1. Len(memory_map) \in Nat
      BY <1>2, CopyFields
    <2>2. k < i
      BY <1>1, <1>2, <2>1
    <2> QED BY <1>1, <1>3, <2>2 DEF IInv, CountInv
  <1>4. CountInv'
    BY <1>1, <1>2, <1>3 DEF CountInv, Free
  <1>5. MapInv'
    BY <1>1, <1>2, MapInvKept
  <1>6. TypeOK'
    BY <1>1, <1>2 DEF TypeOK
  <1>7. ListInv'
    BY <1>1, <1>2 DEF ListInv
  <1> QED BY <1>4, <1>5, <1>6, <1>7 DEF IInv

(* Rounding up takes nothing away. *)
LEMMA RoundedUp ==
    ASSUME NEW n \in Nat, NEW m \in Nat \ {0}
    PROVE  RoundUp(n, m) \in Nat /\ RoundUp(n, m) >= n /\ \E q \in Int : RoundUp(n, m) = m * q
  <1> DEFINE x == n + m - 1
             q == x \div m
             r == x % m
  <1>1. x \in Int
    OBVIOUS
  <1> HIDE DEF x
  <1>2. q \in Int /\ r \in 0 .. m - 1 /\ x = m * q + r
    BY <1>1, SMT
  <1> HIDE DEF q, r
  <1>3. q * m = m * q /\ m * q \in Int
    BY <1>2
  <1>4. m * q >= n
    BY <1>2, <1>3 DEF x
  <1>5. RoundUp(n, m) = q * m
    BY DEF RoundUp, q, x
  <1> QED BY <1>2, <1>3, <1>4, <1>5

(* There is a page of headers as soon as there is memory. *)
LEMMA DataPages ==
    ASSUME free_memory \in Nat
    PROVE  pmm_data_pages \in Nat /\ (free_memory > 0 => pmm_data_pages > 0)
  <1> DEFINE m == MAX_PMM_HEADER_PROPORTION
             a == RoundUp(free_memory, ROUND_OFF)
             b == RoundUp(a, m)
             p == b \div m
             r == b % m
  <1>1. m \in Nat \ {0}
    BY Consts
  <1>2. a \in Nat /\ a >= free_memory
    BY Consts, RoundedUp
  <1> HIDE DEF a, m
  <1>3. b \in Nat /\ b >= a /\ \E q \in Int : b = m * q
    BY <1>1, <1>2, RoundedUp
  <1> HIDE DEF b
  <1>4. p \in Int /\ r \in 0 .. m - 1 /\ b = m * p + r
    BY <1>1, <1>3, SMT
  <1>5. pmm_data_pages = p
    BY DEF pmm_data_pages, p, b, a, m
  <1> HIDE DEF p, r
  <1>6. p \in Nat
    <2>1. SUFFICES ASSUME p < 0 PROVE FALSE
      BY <1>4
    <2>2. m * p <= 0 - m
      BY <1>1, <1>4, <2>1
    <2> QED BY <1>1, <1>3, <1>4, <2>2
  <1>7. ASSUME free_memory > 0 PROVE p > 0
    <2>1. SUFFICES ASSUME p = 0 PROVE FALSE
      BY <1>6
    <2>2. m * p = 0
      BY <1>1, <2>1
    <2>3. b < m /\ b > 0
      BY <1>1, <1>2, <1>3, <1>4, <1>7, <2>2
    <2>4. PICK q \in Int : b = m * q
      BY <1>3
    <2>5. q = 0
      BY <1>1, <2>3, <2>4, NoMultiple
    <2> QED BY <1>1, <2>3, <2>4, <2>5
  <1> QED BY <1>5, <1>6, <1>7

(* An entry as a section of the list. *)
LEMMA Sections ==
    ASSUME Clipped, NEW k \in DOMAIN memory_map
    PROVE  /\ SectionOf(memory_map[k]) \in section
           /\ SectionOf(memory_map[k]).start = memory_map[k].base
           /\ SectionOf(memory_map[k]).pages = memory_map[k].length
           /\ SectionOf(memory_map[k]).free = "FREE" <=> Free(k)
           /\ k \in 2 .. Len(memory_map) =>
                End(SectionOf(memory_map[k])) = EntryEnd(memory_map[k])
  <1> DEFINE e == memory_map[k]
             t == pmm_interpret_signal(e.signal)
             s == SectionOf(e)
  <1>1. /\ e.base \in Nat /\ e.length \in Nat /\ e.signal \in {"FREE", "BUSY", "MMIO", "NOUSE"}
        /\ k = 1 \/ k \in 2 .. Len(memory_map)
    BY CopyFields
  <1>2. t \in {"FREE", "USED", "BAD"} /\ (t = "FREE" <=> e.signal = "FREE")
    BY <1>1 DEF pmm_interpret_signal
  <1>3. s = [start |-> e.base, pages |-> e.length, free |-> t]
    BY DEF SectionOf
  <1>4. e.base \in 0 .. WORLD - 1
    <2>1. CASE k = 1
      BY <1>1, <2>1, Consts DEF Clipped
    <2>2. CASE k \in 2 .. Len(memory_map)
      <3>1. EntryEnd(e) < WORLD
        BY <2>2 DEF Clipped
      <3> QED BY <1>1, <3>1, Consts DEF EntryEnd
    <2> QED BY <1>1, <2>1, <2>2
  <1>5. k \in 2 .. Len(memory_map) => (e.base + e.length) % WORLD = EntryEnd(e)
    <2>1. SUFFICES ASSUME k \in 2 .. Len(memory_map) PROVE (e.base + e.length) % WORLD = EntryEnd(e)
      OBVIOUS
    <2>2. EntryEnd(e) < WORLD
      BY <2>1 DEF Clipped
    <2>3. e.base + e.length \in 0 .. WORLD - 1
      BY <1>1, <2>2, Consts DEF EntryEnd
    <2> QED BY <2>3, ModSmall DEF EntryEnd
  <1> HIDE DEF t, s
  <1>6. s.start = e.base /\ s.pages = e.length /\ s.free = t
    BY <1>3
  <1>7. s \in section
    BY <1>1, <1>2, <1>3, <1>4 DEF section
  <1> QED BY <1>2, <1>5, <1>6, <1>7 DEF s, End, Free

(* The first section is the first megabyte, and the headers have their entry. *)
LEMMA PlaceHeadersInv == ASSUME IInv, place_headers PROVE IInv'
  <1> DEFINE fits == {k \in DOMAIN memory_map : HasRoom(k)}
             c == CHOOSE k \in fits : \A j \in fits : k <= j
             new == <<[start |-> 0, pages |-> MEGABYTE, free |-> "BAD"]>>
  <1>1. /\ pc = "place_headers" /\ free_memory' = free_memory
        /\ firmware' = firmware /\ limine_map' = limine_map /\ kept' = kept
        /\ memory_map' = memory_map /\ detected' = detected
    BY DEF place_headers
  <1>2. \/ pc' = "halted" /\ data' = data /\ i' = i /\ list' = list
        \/ /\ fits # {} /\ pc' = "add_entry" /\ i' = 1
           /\ data' = [base |-> memory_map[c].base, pages |-> pmm_data_pages]
           /\ list' = new
    BY DEF place_headers
  <1>3. /\ firmware \in Firmwares /\ Clipped /\ NothingLost /\ TypeOK
        /\ i \in Nat \ {0} /\ free_memory \in Nat /\ list = <<>>
    BY <1>1, Started DEF IInv, ListInv
  <1>4. MapInv'
    BY <1>1, <1>2, <1>3, MapInvKept
  <1>5. CountInv'
    BY <1>1, <1>2, <1>3 DEF CountInv
  <1>6. CASE pc' = "halted" /\ data' = data /\ i' = i /\ list' = list
    <2>1. TypeOK'
      BY <1>1, <1>3, <1>6 DEF TypeOK
    <2>2. list' = <<>> /\ DOMAIN list' = {}
      BY <1>3, <1>6
    <2>3. ListInv'
      BY <1>6, <2>2 DEF ListInv, FromEntries
    <2> QED BY <1>4, <1>5, <2>1, <2>3 DEF IInv
  <1>7. CASE /\ fits # {} /\ pc' = "add_entry" /\ i' = 1
             /\ data' = [base |-> memory_map[c].base, pages |-> pmm_data_pages]
             /\ list' = new
    <2>1. c \in fits
      <3>1. fits \in SUBSET Nat
        BY <1>3, CopyFields
      <3>2. PICK m \in fits : \A j \in fits : m <= j
        BY <1>7, <3>1, LeastMember
      <3> HIDE DEF fits
      <3> QED BY <3>2
    <2>2. c \in DOMAIN memory_map /\ Free(c) /\ memory_map[c].length >= pmm_data_pages
      BY <2>1 DEF HasRoom, FreeEntries, Free
    <2> HIDE DEF c
    <2>3. c \in 2 .. Len(memory_map) /\ memory_map[c].base \in Nat /\ memory_map[c].length \in Nat
      BY <1>3, <2>2, CopyFields
    <2>4. pmm_data_pages \in Nat /\ (free_memory > 0 => pmm_data_pages > 0)
      BY <1>3, DataPages
    <2>5. data' \in [base : Nat, pages : Nat] /\ data'.base = memory_map[c].base
          /\ data'.pages = pmm_data_pages
      BY <1>7, <2>3, <2>4
    <2>6. ~HidesNext => pmm_data_pages > 0
      <3>1. SUFFICES ASSUME ~HidesNext PROVE free_memory > 0
        BY <2>4
      <3>2. memory_map[c].length # 0
        <4>1. memory_map[c].length = 0 => memory_map[c].base = MEGABYTE
          BY <1>3, <2>2, <2>3 DEF Clipped
        <4>2. c > 1
          BY <2>3
        <4> QED BY <2>2, <3>1, <4>1, <4>2 DEF HidesNext
      <3>3. memory_map[c].length <= free_memory
        BY <1>1, <2>2, <2>3 DEF IInv, CountInv
      <3> QED BY <1>3, <2>3, <3>2, <3>3
    <2>7. (~HidesNext => HeadersPlaced)'
      <3>1. HidesNext' = HidesNext
        BY <1>1 DEF HidesNext
      <3>2. SUFFICES ASSUME ~HidesNext PROVE HeadersPlaced'
        BY <3>1
      <3>3. pmm_data_pages \in 1 .. memory_map[c].length
        BY <2>2, <2>3, <2>4, <2>6, <3>2
      <3> QED BY <1>1, <2>2, <2>3, <2>5, <3>3 DEF HeadersPlaced, Free
    <2>8. [start |-> 0, pages |-> MEGABYTE, free |-> "BAD"] \in section
      BY Consts DEF section
    <2>9. new \in Seq(section) /\ Len(new) = 1 /\ DOMAIN new = {1}
          /\ new[1] = [start |-> 0, pages |-> MEGABYTE, free |-> "BAD"]
      BY <2>8
    <2> HIDE DEF new
    <2>10. new[1].start = 0 /\ new[1].free = "BAD"
      BY <2>9
    <2>11. TypeOK'
      <3>1. {free_memory', i'} \subseteq Nat
        BY <1>1, <1>3, <1>7
      <3>2. list' \in Seq([start : 0 .. WORLD - 1, pages : Nat, free : {"FREE", "USED", "BAD"}])
        BY <1>7, <2>9 DEF section
      <3> QED BY <1>1, <1>3, <1>7, <2>5, <3>1, <3>2 DEF TypeOK
    <2>12. Joined(new)
      <3>1. new # <<>>
        BY <2>9
      <3>2. \A k \in 1 .. Len(new) - 1 : FALSE
        BY <2>9
      <3> QED BY <2>9, <2>10, <3>1, <3>2 DEF Joined
    <2>13. Joined(list')
      BY <1>7, <2>12
    <2>14. FromEntries(list)'
      BY <1>7, <2>9, <2>10 DEF FromEntries
    <2>15. \A j \in 2 .. i' - 1 : FALSE
      BY <1>7
    <2>16. FreeKept(list, i - 1)'
      BY <2>15 DEF FreeKept
    <2>17. Tail_'
      <3>1. memory_map[1] = [base |-> 0, length |-> MEGABYTE, signal |-> "NOUSE"]
        BY <1>3 DEF Clipped
      <3>2. pmm_interpret_signal("NOUSE") = "BAD"
        BY DEF pmm_interpret_signal
      <3>3. SectionOf(memory_map[1]) = [start |-> 0, pages |-> MEGABYTE, free |-> "BAD"]
        BY <3>1, <3>2 DEF SectionOf
      <3>4. current' = SectionOf(memory_map'[1])
        BY <1>1, <1>7, <2>9, <3>3 DEF current, Last
      <3>5. 1 \in DOMAIN memory_map' /\ ~(i' > 1)
        BY <1>1, <1>3, <1>7, CopyFields
      <3> QED BY <3>4, <3>5 DEF Tail_
    <2>18. i' <= Len(memory_map') + 1
      <3>1. Len(memory_map) \in Nat
        BY <1>3, CopyFields
      <3> QED BY <1>1, <1>7, <3>1
    <2>19. Joined(list)'
      BY <1>1, <2>13 DEF Joined, End
    <2>20. ListInv'
      BY <1>7, <2>7, <2>14, <2>16, <2>17, <2>18, <2>19 DEF ListInv
    <2> QED BY <1>4, <1>5, <2>11, <2>20 DEF IInv
  <1> QED BY <1>2, <1>6, <1>7

-----------------------------------------------------------------------------
(* pmm_start, its list *)

(* The fields of a section. *)
LEMMA SectionFields ==
    ASSUME NEW s \in section
    PROVE  /\ s.start \in 0 .. WORLD - 1 /\ s.start \in Int /\ s.pages \in Nat
           /\ s.free \in {"FREE", "USED", "BAD"} /\ End(s) \in 0 .. WORLD - 1 /\ End(s) \in Int
  <1>1. s.start \in 0 .. WORLD - 1 /\ s.pages \in Nat /\ s.free \in {"FREE", "USED", "BAD"}
    BY DEF section
  <1>2. s.start + s.pages \in Int /\ s.start \in Int
    BY <1>1, Consts
  <1>3. End(s) \in 0 .. WORLD - 1
    BY <1>2, ModRange DEF End
  <1>4. End(s) \in Int
    BY <1>3, Consts
  <1> QED BY <1>1, <1>2, <1>3, <1>4

(* A gap begins and ends where its neighbours do. *)
LEMMA GapFits ==
    ASSUME NEW b \in section, NEW s \in section
    PROVE  /\ Gap(b, s) \in section /\ Gap(b, s).start = End(b) /\ Gap(b, s).free = "BAD"
           /\ End(Gap(b, s)) = s.start
  <1> DEFINE x == End(b)
             d == s.start - x
             g == Gap(b, s)
  <1>1. x \in 0 .. WORLD - 1 /\ x \in Int /\ s.start \in 0 .. WORLD - 1 /\ s.start \in Int
    BY SectionFields
  <1>2. g = [start |-> x, pages |-> d % WORLD, free |-> "BAD"]
    BY DEF Gap
  <1> HIDE DEF x, g
  <1>3. d \in Int /\ d + x = s.start
    BY <1>1
  <1> HIDE DEF d
  <1>4. d % WORLD \in 0 .. WORLD - 1
    BY <1>3, ModRange
  <1>5. g \in section /\ g.start = x /\ g.free = "BAD" /\ g.pages = d % WORLD
    BY <1>1, <1>2, <1>4 DEF section
  <1>6. End(g) = s.start
    <2>1. ((d % WORLD) + x) % WORLD = (d + x) % WORLD
      BY <1>1, <1>3, ModOfSum
    <2>2. (d + x) % WORLD = s.start
      BY <1>1, <1>3, ModSmall
    <2>3. x + (d % WORLD) = (d % WORLD) + x
      BY <1>1, <1>4
    <2> QED BY <1>5, <2>1, <2>2, <2>3 DEF End
  <1> QED BY <1>5, <1>6 DEF g, x

(* A section that is appended, and where no two free ones meet, keeps the list *)
(* joined.                                                                 *)
LEMMA AppendJoined ==
    ASSUME NEW secs, Joined(secs), NEW s \in section,
           End(secs[Len(secs)]) = s.start,
           ~(secs[Len(secs)].free = "FREE" /\ s.free = "FREE")
    PROVE  /\ Joined(Append(secs, s)) /\ Len(Append(secs, s)) = Len(secs) + 1
           /\ Len(secs) \in Nat \ {0}
           /\ \A k \in DOMAIN secs : k \in DOMAIN Append(secs, s) /\ Append(secs, s)[k] = secs[k]
           /\ Append(secs, s)[Len(secs) + 1] = s
           /\ \A k \in DOMAIN Append(secs, s) : k \in DOMAIN secs \/ k = Len(secs) + 1
  <1> DEFINE new == Append(secs, s)
             n == Len(secs)
  <1>1. secs \in Seq(section) /\ secs # <<>> /\ n \in Nat \ {0} /\ DOMAIN secs = 1 .. n
    BY EmptySeq DEF Joined
  <1>2. /\ new \in Seq(section) /\ new # <<>> /\ Len(new) = n + 1
        /\ \A k \in 1 .. n : new[k] = secs[k]
        /\ new[n + 1] = s
    BY <1>1, AppendProperties
  <1>3. DOMAIN new = 1 .. n + 1
    BY <1>1, <1>2
  <1> HIDE DEF new, n
  <1>4. new[1].start = 0 /\ new[1].free = "BAD"
    BY <1>1, <1>2 DEF Joined
  <1>5. ASSUME NEW k \in 1 .. Len(new) - 1
        PROVE  /\ End(new[k]) = new[k + 1].start
               /\ ~(new[k].free = "FREE" /\ new[k + 1].free = "FREE")
    <2>1. CASE k = n
      <3>1. new[k] = secs[n] /\ new[k + 1] = s
        BY <1>1, <1>2, <2>1
      <3> QED BY <3>1 DEF n
    <2>2. CASE k # n
      <3>1. k \in 1 .. n - 1 /\ k \in 1 .. n /\ k + 1 \in 1 .. n
        BY <1>1, <1>2, <2>2
      <3>2. new[k] = secs[k] /\ new[k + 1] = secs[k + 1]
        BY <1>2, <3>1
      <3>3. /\ End(secs[k]) = secs[k + 1].start
            /\ ~(secs[k].free = "FREE" /\ secs[k + 1].free = "FREE")
        BY <3>1 DEF Joined, n
      <3> QED BY <3>2, <3>3
    <2> QED BY <2>1, <2>2
  <1>6. Joined(new)
    BY <1>2, <1>4, <1>5 DEF Joined
  <1>7. \A k \in DOMAIN secs : k \in DOMAIN new /\ new[k] = secs[k]
    BY <1>1, <1>2, <1>3
  <1>8. \A k \in DOMAIN new : k \in DOMAIN secs \/ k = n + 1
    BY <1>1, <1>3
  <1> QED BY <1>1, <1>2, <1>6, <1>7, <1>8 DEF new, n

(* Two sections are one and another. *)
LEMMA TwoInARow == ASSUME NEW S, NEW a \in S, NEW b \in S PROVE <<a>> \o <<b>> = <<a, b>>
  <1>1. /\ <<a>> \in Seq(S) /\ <<b>> \in Seq(S) /\ <<a, b>> \in Seq(S)
        /\ Len(<<a>>) = 1 /\ Len(<<b>>) = 1 /\ Len(<<a, b>>) = 2
    OBVIOUS
  <1>2. /\ <<a>> \o <<b>> \in Seq(S) /\ Len(<<a>> \o <<b>>) = 2
        /\ \A k \in 1 .. 2 : (<<a>> \o <<b>>)[k] = IF k <= 1 THEN <<a>>[k] ELSE <<b>>[k - 1]
    BY <1>1, ConcatProperties
  <1>3. \A k \in 1 .. 2 : (<<a>> \o <<b>>)[k] = <<a, b>>[k]
    BY <1>2
  <1> QED BY <1>1, <1>2, <1>3, SeqEqual

(* What add_entry makes of the list. *)
LEMMA EntryJoined ==
    ASSUME Joined(list), NEW e, SectionOf(e) \in section,
           End(current) = SectionOf(e).start =>
                ~(current.free = "FREE" /\ SectionOf(e).free = "FREE")
    PROVE  /\ Joined(WithEntry(e))
           /\ Last(WithEntry(e)) = SectionOf(e)
           /\ \A k \in DOMAIN list : k \in DOMAIN WithEntry(e) /\ WithEntry(e)[k] = list[k]
           /\ \E k \in DOMAIN WithEntry(e) : WithEntry(e)[k] = SectionOf(e)
           /\ \A k \in DOMAIN WithEntry(e) :
                \/ k \in DOMAIN list /\ WithEntry(e)[k] = list[k]
                \/ WithEntry(e)[k] = SectionOf(e)
                \/ WithEntry(e)[k].free = "BAD"
  <1> DEFINE s == SectionOf(e)
             n == Len(list)
             g == Gap(current, s)
             one == Append(list, g)
             new == WithEntry(e)
  <1>1. list \in Seq(section) /\ n \in Nat \ {0} /\ n \in DOMAIN list
    BY EmptySeq DEF Joined
  <1>2. current = list[n] /\ current \in section
    BY <1>1 DEF current, Last
  <1>3. CASE End(current) = s.start
    <2>1. new = Append(list, s)
      BY <1>3 DEF WithEntry
    <2>2. End(list[Len(list)]) = s.start /\ ~(list[Len(list)].free = "FREE" /\ s.free = "FREE")
      BY <1>2, <1>3
    <2> HIDE DEF s, new
    <2>3. /\ Joined(new) /\ Len(new) = n + 1
          /\ \A k \in DOMAIN list : k \in DOMAIN new /\ new[k] = list[k]
          /\ new[n + 1] = s
          /\ \A k \in DOMAIN new : k \in DOMAIN list \/ k = n + 1
      <3>1. s \in section
        BY DEF s
      <3> QED BY <2>1, <2>2, <3>1, AppendJoined
    <2>4. new \in Seq(section)
      BY <2>3 DEF Joined
    <2>5. n + 1 \in DOMAIN new
      BY <1>1, <2>3, <2>4
    <2>6. Last(new) = s
      BY <2>3 DEF Last
    <2> QED BY <2>3, <2>5, <2>6 DEF s, new
  <1>4. CASE End(current) # s.start
    <2>1. new = list \o <<g, s>>
      BY <1>4 DEF WithEntry
    <2>2. s \in section /\ g \in section /\ g.start = End(current) /\ g.free = "BAD" /\ End(g) = s.start
      BY <1>2, GapFits
    <2> HIDE DEF s, new, g
    <2>3. /\ Joined(one) /\ Len(one) = n + 1
          /\ \A k \in DOMAIN list : k \in DOMAIN one /\ one[k] = list[k]
          /\ one[n + 1] = g
          /\ \A k \in DOMAIN one : k \in DOMAIN list \/ k = n + 1
      <3>1. End(list[Len(list)]) = g.start /\ ~(list[Len(list)].free = "FREE" /\ g.free = "FREE")
        BY <1>2, <2>2
      <3> QED BY <2>2, <3>1, AppendJoined
    <2>4. new = Append(one, s)
      <3>1. list \o <<g, s>> = (list \o <<g>>) \o <<s>>
        <4>1. <<g>> \in Seq(section) /\ <<s>> \in Seq(section)
          BY <2>2
        <4>2. <<g>> \o <<s>> = <<g, s>>
          BY <2>2, TwoInARow
        <4> QED BY <1>1, <4>1, <4>2, ConcatAssociative
      <3>2. one = list \o <<g>>
        BY <1>1, <2>2, AppendIsConcat
      <3>3. one \in Seq(section)
        BY <2>3 DEF Joined
      <3>4. Append(one, s) = one \o <<s>>
        BY <2>2, <3>3, AppendIsConcat
      <3> HIDE DEF one
      <3> QED BY <2>1, <3>1, <3>2, <3>4
    <2> HIDE DEF one
    <2>5. /\ Joined(new) /\ Len(new) = n + 2
          /\ \A k \in DOMAIN one : k \in DOMAIN new /\ new[k] = one[k]
          /\ new[n + 2] = s
          /\ \A k \in DOMAIN new : k \in DOMAIN one \/ k = n + 2
      <3>1. one[Len(one)] = g /\ Len(one) + 1 = n + 2
        BY <1>1, <2>3
      <3>2. End(one[Len(one)]) = s.start /\ ~(one[Len(one)].free = "FREE" /\ s.free = "FREE")
        BY <2>2, <3>1
      <3>3. /\ Joined(Append(one, s)) /\ Len(Append(one, s)) = Len(one) + 1
            /\ \A k \in DOMAIN one : k \in DOMAIN Append(one, s) /\ Append(one, s)[k] = one[k]
            /\ Append(one, s)[Len(one) + 1] = s
            /\ \A k \in DOMAIN Append(one, s) : k \in DOMAIN one \/ k = Len(one) + 1
        BY <2>2, <2>3, <3>2, AppendJoined
      <3> QED BY <2>4, <3>1, <3>3
    <2>6. n + 2 \in DOMAIN new
      <3>1. new \in Seq(section)
        BY <2>5 DEF Joined
      <3> QED BY <1>1, <2>5, <3>1
    <2>7. Last(new) = s
      BY <2>5 DEF Last
    <2>8. \A k \in DOMAIN list : k \in DOMAIN new /\ new[k] = list[k]
      BY <2>3, <2>5
    <2>9. ASSUME NEW k \in DOMAIN new
          PROVE  \/ k \in DOMAIN list /\ new[k] = list[k]
                 \/ new[k] = s
                 \/ new[k].free = "BAD"
      <3>1. CASE k = n + 2
        BY <2>5, <3>1
      <3>2. CASE k = n + 1 /\ k \in DOMAIN one
        BY <2>2, <2>3, <2>5, <3>2
      <3>3. CASE k \in DOMAIN list
        BY <2>8, <3>3
      <3> QED BY <2>3, <2>5, <2>9, <3>1, <3>2, <3>3
    <2> QED BY <2>5, <2>6, <2>7, <2>8, <2>9 DEF s, new
  <1> QED BY <1>3, <1>4

(* Where the list ends, and what an entry that is next finds there. *)
LEMMA NextEntry ==
    ASSUME Clipped, Tail_, i \in Nat \ {0}, i <= Len(memory_map)
    PROVE  /\ i \in DOMAIN memory_map
           /\ memory_map[i].base # current.start => i > 1
           /\ memory_map[i].base # current.start =>
                (End(current) = memory_map[i].base => ~(current.free = "FREE" /\ Free(i)))
           /\ memory_map[i].base = current.start /\ ~HidesNext => i = 1
  <1>1. PICK j \in DOMAIN memory_map :
            /\ current = SectionOf(memory_map[j])
            /\ i = 1 => j = 1
            /\ i > 1 => j < i
            /\ i > 1 /\ ~HidesNext => j = i - 1
    BY DEF Tail_
  <1>2. /\ i \in DOMAIN memory_map /\ DOMAIN memory_map = 1 .. Len(memory_map)
        /\ Len(memory_map) \in Nat
    BY CopyFields
  <1>3. /\ current.start = memory_map[j].base
        /\ current.free = "FREE" <=> Free(j)
        /\ j \in 2 .. Len(memory_map) => End(current) = EntryEnd(memory_map[j])
    BY <1>1, Sections
  <1>4. memory_map[i].base # current.start => i > 1
    BY <1>1, <1>2, <1>3
  <1>5. ASSUME i > 1, End(current) = memory_map[i].base, current.free = "FREE", Free(i)
        PROVE  FALSE
    <2>1. Free(j) /\ j < i
      BY <1>1, <1>3, <1>5
    <2>2. j \in 2 .. Len(memory_map) /\ i \in 2 .. Len(memory_map)
      BY <1>2, <1>5, <2>1, CopyFields
    <2>3. EntryEnd(memory_map[j]) # memory_map[i].base
      BY <1>5, <2>1, <2>2 DEF Clipped
    <2> QED BY <1>3, <1>5, <2>2, <2>3
  <1>6. ASSUME memory_map[i].base = current.start, ~HidesNext, i > 1
        PROVE  FALSE
    <2>1. j = i - 1 /\ memory_map[j].base = memory_map[i].base
      BY <1>1, <1>3, <1>6
    <2>2. CASE j = 1
      <3>1. memory_map[1].base = 0
        BY DEF Clipped
      <3>2. i \in 2 .. Len(memory_map)
        BY <1>2, <1>6
      <3>3. memory_map[i].base > 0
        BY <3>2 DEF Clipped
      <3> QED BY <2>1, <2>2, <3>1, <3>3
    <2>3. CASE j # 1
      <3>1. j \in 2 .. Len(memory_map) /\ i \in 2 .. Len(memory_map) /\ j < i /\ j > 1
        BY <1>2, <1>6, <2>1, <2>3
      <3>2. memory_map[j].base = MEGABYTE /\ memory_map[j].length = 0
        BY <2>1, <3>1 DEF Clipped
      <3> QED BY <1>6, <3>1, <3>2 DEF HidesNext
    <2> QED BY <2>2, <2>3
  <1> QED BY <1>2, <1>4, <1>5, <1>6

(* What the invariant says of the list while it is made. *)
LEMMA Making ==
    ASSUME IInv, pc = "add_entry"
    PROVE  /\ Joined(list) /\ FromEntries(list) /\ Tail_ /\ i <= Len(memory_map) + 1
           /\ ~HidesNext => HeadersPlaced
           /\ ~HidesNext => FreeKept(list, i - 1)
  BY DEF IInv, ListInv

(* What the invariant says of the list speaks of nothing else that moves. *)
LEMMA ListKept ==
    ASSUME memory_map' = memory_map, data' = data
    PROVE  /\ HidesNext' = HidesNext /\ HeadersPlaced' = HeadersPlaced
           /\ Joined(list') => Joined(list)'
           /\ FromEntries(list') => FromEntries(list)'
           /\ \A n \in Nat : FreeKept(list', n) => FreeKept(list, n)'
  <1>1. HidesNext' = HidesNext /\ HeadersPlaced' = HeadersPlaced
    BY Zenon DEF HidesNext, HeadersPlaced, Free
  <1>2. Joined(list') => Joined(list)'
    BY DEF Joined, End
  <1>3. FromEntries(list') => FromEntries(list)'
    BY DEF FromEntries, Free
  <1>4. \A n \in Nat : FreeKept(list', n) => FreeKept(list, n)'
    BY DEF FreeKept, Free
  <1> QED BY <1>1, <1>2, <1>3, <1>4

(* An entry that is not hidden is in the list from then on. *)
LEMMA AddEntryInv == ASSUME IInv, add_entry PROVE IInv'
  <1> DEFINE e == memory_map[i]
  <1>1. /\ pc = "add_entry" /\ i <= Len(memory_map) /\ i' = i + 1
        /\ free_memory' = free_memory /\ firmware' = firmware /\ limine_map' = limine_map
        /\ kept' = kept /\ memory_map' = memory_map /\ data' = data /\ detected' = detected
    BY DEF add_entry
  <1>2. \/ e.base = current.start /\ pc' = pc /\ list' = list
        \/ e.base # current.start /\ pc' = "halted" /\ list' = list
        \/ e.base # current.start /\ pc' = pc /\ list' = WithEntry(e)
    BY DEF add_entry
  <1>3. /\ firmware \in Firmwares /\ Clipped /\ NothingLost /\ TypeOK
        /\ i \in Nat \ {0} /\ free_memory \in Nat
    BY <1>1, Started
  <1>4. /\ Joined(list) /\ FromEntries(list) /\ Tail_
        /\ ~HidesNext => HeadersPlaced
        /\ ~HidesNext => FreeKept(list, i - 1)
    BY <1>1, Making
  <1>5. /\ i \in DOMAIN memory_map
        /\ e.base # current.start => i > 1
        /\ e.base # current.start =>
             (End(current) = e.base => ~(current.free = "FREE" /\ Free(i)))
        /\ e.base = current.start /\ ~HidesNext => i = 1
    BY <1>1, <1>3, <1>4, NextEntry
  <1>6. MapInv'
    BY <1>1, <1>2, <1>3, MapInvKept
  <1>7. i' \in Nat \ {0} /\ i' <= Len(memory_map') + 1 /\ i' > 1 /\ i' - 1 = i
    <2>1. Len(memory_map) \in Nat
      BY <1>3, CopyFields
    <2> QED BY <1>1, <1>3, <2>1
  <1>8. CountInv'
    BY <1>1, <1>2, <1>3, <1>7 DEF CountInv
  <1>9. SUFFICES list' \in Seq(section) /\ ListInv'
    <2>1. ASSUME list' \in Seq(section) PROVE TypeOK'
      <3>1. {free_memory', i'} \subseteq Nat
        BY <1>1, <1>3, <1>7
      <3>2. pc' \in {"add_entry", "halted"}
        BY <1>1, <1>2
      <3>3. list' \in Seq([start : 0 .. WORLD - 1, pages : Nat, free : {"FREE", "USED", "BAD"}])
        BY <2>1 DEF section
      <3> QED BY <1>1, <1>3, <3>1, <3>2, <3>3 DEF TypeOK
    <2> QED BY <1>6, <1>8, <2>1 DEF IInv
  <1>10. CASE e.base = current.start /\ pc' = pc /\ list' = list
    <2>1. Joined(list)' /\ FromEntries(list)'
      BY <1>1, <1>4, <1>10, ListKept
    <2>2. ~HidesNext' => HeadersPlaced'
      BY <1>1, <1>4, ListKept
    <2>3. ASSUME ~HidesNext' PROVE FreeKept(list, i - 1)'
      <3>1. i = 1
        BY <1>1, <1>5, <1>10, <2>3, ListKept
      <3>2. \A j \in 2 .. i' - 1 : FALSE
        BY <1>1, <3>1
      <3> QED BY <3>2 DEF FreeKept
    <2>4. Tail_'
      <3>1. PICK j \in DOMAIN memory_map :
                /\ current = SectionOf(memory_map[j])
                /\ i = 1 => j = 1
                /\ i > 1 => j < i
        BY <1>4 DEF Tail_
      <3>2. j < i' /\ j \in Nat
        BY <1>1, <1>3, <3>1, CopyFields
      <3>3. ~HidesNext' => j = i' - 1
        BY <1>1, <1>5, <1>7, <1>10, <3>1, ListKept
      <3>4. current' = SectionOf(memory_map'[j])
        BY <1>1, <1>10, <3>1 DEF current
      <3> QED BY <1>1, <1>7, <3>1, <3>2, <3>3, <3>4 DEF Tail_
    <2>5. list \in Seq(section)
      BY <1>4 DEF Joined
    <2>6. ListInv'
      BY <1>1, <1>7, <1>10, <2>1, <2>2, <2>3, <2>4 DEF ListInv
    <2> QED BY <1>10, <2>5, <2>6
  <1>11. CASE e.base # current.start /\ pc' = "halted" /\ list' = list
    <2>1. Joined(list)' /\ FromEntries(list)'
      BY <1>1, <1>4, <1>11, ListKept
    <2>2. ListInv'
      BY <1>11, <2>1 DEF ListInv
    <2>3. list \in Seq(section)
      BY <1>4 DEF Joined
    <2> QED BY <1>11, <2>2, <2>3
  <1>12. CASE e.base # current.start /\ pc' = pc /\ list' = WithEntry(e)
    <2> DEFINE s == SectionOf(e)
               new == WithEntry(e)
    <2>1. /\ s \in section /\ s.start = e.base /\ (s.free = "FREE" <=> Free(i))
      BY <1>3, <1>5, Sections
    <2>2. End(current) = s.start => ~(current.free = "FREE" /\ s.free = "FREE")
      BY <1>5, <1>12, <2>1
    <2>3. /\ Joined(new)
          /\ Last(new) = s
          /\ \A k \in DOMAIN list : k \in DOMAIN new /\ new[k] = list[k]
          /\ \E k \in DOMAIN new : new[k] = s
          /\ \A k \in DOMAIN new :
               \/ k \in DOMAIN list /\ new[k] = list[k]
               \/ new[k] = s
               \/ new[k].free = "BAD"
      BY <1>4, <2>1, <2>2, EntryJoined
    <2> HIDE DEF new
    <2>4. FromEntries(new)
      <3>1. ASSUME NEW k \in DOMAIN new, new[k].free = "FREE"
            PROVE  \E j \in 2 .. Len(memory_map) : Free(j) /\ new[k] = SectionOf(memory_map[j])
        <4>1. CASE k \in DOMAIN list /\ new[k] = list[k]
          BY <1>4, <3>1, <4>1 DEF FromEntries
        <4>2. CASE new[k] = s
          <5>1. Free(i)
            BY <2>1, <3>1, <4>2
          <5>2. i \in 2 .. Len(memory_map)
            BY <1>3, <1>5, <5>1, CopyFields
          <5> QED BY <4>2, <5>1, <5>2
        <4> QED BY <2>3, <3>1, <4>1, <4>2
      <3> QED BY <3>1 DEF FromEntries
    <2>5. ASSUME ~HidesNext PROVE FreeKept(new, i)
      <3>1. ASSUME NEW j \in 2 .. i, Free(j)
            PROVE  \E k \in DOMAIN new : new[k] = SectionOf(memory_map[j])
        <4>1. CASE j = i
          BY <2>3, <4>1
        <4>2. CASE j # i
          <5>1. j \in 2 .. i - 1
            BY <1>3, <4>2
          <5>2. PICK k \in DOMAIN list : list[k] = SectionOf(memory_map[j])
            BY <1>4, <2>5, <3>1, <5>1 DEF FreeKept
          <5> QED BY <2>3, <5>2
        <4> QED BY <4>1, <4>2
      <3> QED BY <3>1 DEF FreeKept
    <2>6. list' = new
      BY <1>12 DEF new
    <2>7. Joined(list)' /\ FromEntries(list)' /\ (~HidesNext' => HeadersPlaced')
      BY <1>1, <1>4, <2>3, <2>4, <2>6, ListKept
    <2>8. ~HidesNext' => FreeKept(list, i - 1)'
      <3>1. SUFFICES ASSUME ~HidesNext' PROVE FreeKept(list, i - 1)'
        OBVIOUS
      <3>2. FreeKept(list', i)
        BY <1>1, <2>5, <2>6, <3>1, ListKept
      <3> QED BY <1>1, <1>7, <3>2 DEF FreeKept, Free
    <2>9. Tail_'
      <3>1. current' = SectionOf(memory_map'[i])
        BY <1>1, <2>3, <2>6 DEF current
      <3>2. i \in DOMAIN memory_map' /\ i < i' /\ i = i' - 1 /\ i' # 1
        BY <1>1, <1>3, <1>5
      <3> QED BY <3>1, <3>2 DEF Tail_
    <2>10. list' \in Seq(section)
      BY <2>3, <2>6 DEF Joined
    <2>11. ListInv'
      BY <1>1, <1>7, <1>12, <2>7, <2>8, <2>9 DEF ListInv
    <2> QED BY <2>10, <2>11
  <1> QED BY <1>2, <1>10, <1>11, <1>12

(* What the invariant says of the list while it is recombined. *)
LEMMA Recombining ==
    ASSUME IInv, pc = "recombine"
    PROVE  /\ Joined(list) /\ FromEntries(list) /\ Len(list) \in Nat \ {0} /\ DOMAIN list = 1 .. Len(list)
           /\ list \in Seq(section)
           /\ ~HidesNext => HeadersPlaced
           /\ ~HidesNext => FreeKept(list, Len(memory_map))
           /\ ~detected => \A k \in 1 .. Len(list) - 1 : k < i => list[k].free # list[k + 1].free
  <1>1. /\ Joined(list) /\ FromEntries(list)
        /\ ~HidesNext => HeadersPlaced
        /\ ~HidesNext => FreeKept(list, Len(memory_map))
        /\ ~detected => \A k \in 1 .. Len(list) - 1 : k < i => list[k].free # list[k + 1].free
    BY DEF IInv, ListInv
  <1>2. list \in Seq(section) /\ list # <<>>
    BY <1>1 DEF Joined
  <1> QED BY <1>1, <1>2, EmptySeq

(* All entries are in the list when the loop ends. *)
LEMMA EntriesEndInv == ASSUME IInv, entries_end PROVE IInv'
  <1>1. /\ pc = "add_entry" /\ i > Len(memory_map) /\ pc' = "recombine" /\ i' = 1 /\ detected' = FALSE
        /\ free_memory' = free_memory /\ firmware' = firmware /\ limine_map' = limine_map
        /\ kept' = kept /\ memory_map' = memory_map /\ data' = data /\ list' = list
    BY DEF entries_end
  <1>2. /\ firmware \in Firmwares /\ Clipped /\ NothingLost /\ TypeOK
        /\ i \in Nat \ {0} /\ free_memory \in Nat
    BY <1>1, Started
  <1>3. /\ Joined(list) /\ FromEntries(list) /\ i <= Len(memory_map) + 1
        /\ ~HidesNext => HeadersPlaced
        /\ ~HidesNext => FreeKept(list, i - 1)
    BY <1>1, Making
  <1>4. MapInv'
    BY <1>1, <1>2, MapInvKept
  <1>5. CountInv'
    BY <1>1, <1>2 DEF CountInv
  <1>6. TypeOK'
    <2>1. detected' \in BOOLEAN
      BY <1>1, Zenon
    <2>2. {free_memory', i'} \subseteq Nat
      BY <1>1, <1>2
    <2> QED BY <1>1, <1>2, <2>1, <2>2 DEF TypeOK
  <1>7. ListInv'
    <2>1. Joined(list)' /\ FromEntries(list)' /\ (~HidesNext' => HeadersPlaced')
      BY <1>1, <1>3, ListKept
    <2>2. Len(memory_map) \in Nat /\ i - 1 = Len(memory_map)
      <3>1. Len(memory_map) \in Nat
        BY <1>2, CopyFields
      <3> QED BY <1>1, <1>2, <1>3, <3>1
    <2>3. ~HidesNext' => FreeKept(list, Len(memory_map))'
      <3>1. SUFFICES ASSUME ~HidesNext' PROVE FreeKept(list, Len(memory_map))'
        OBVIOUS
      <3>2. FreeKept(list, Len(memory_map))
        BY <1>1, <1>3, <2>2, <3>1, ListKept
      <3> QED BY <1>1, <3>2 DEF FreeKept, Free
    <2>4. \A k \in 1 .. Len(list') - 1 : ~(k < i')
      BY <1>1
    <2> QED BY <1>1, <2>1, <2>3, <2>4 DEF ListInv
  <1> QED BY <1>4, <1>5, <1>6, <1>7 DEF IInv

(* Two sections of a type that is not free are merged: the list stays joined,  *)
(* and no free section changes.                                            *)
LEMMA MergedJoined ==
    ASSUME Joined(list), NEW k \in 1 .. Len(list) - 1, list[k].free = list[k + 1].free
    PROVE  /\ Joined(Merged(k))
           /\ \A j \in DOMAIN list : list[j].free = "FREE" =>
                \E l \in DOMAIN Merged(k) : Merged(k)[l] = list[j]
           /\ \A l \in DOMAIN Merged(k) : Merged(k)[l].free = "FREE" =>
                \E j \in DOMAIN list : list[j] = Merged(k)[l]
  <1> DEFINE new == Merged(k)
             n == Len(list)
  <1>1. list \in Seq(section) /\ n \in Nat \ {0} /\ DOMAIN list = 1 .. n
    BY EmptySeq DEF Joined
  <1>2. k \in 1 .. n - 1 /\ k \in 1 .. n /\ k + 1 \in 1 .. n /\ k \in Nat /\ n - 1 \in Nat
    BY <1>1
  <1>3. \A j \in 1 .. n : list[j] \in section
    BY <1>1
  <1>4. new = [j \in 1 .. n - 1 |->
                 IF j < k THEN list[j]
                 ELSE IF j = k THEN [list[k] EXCEPT !.pages = @ + list[k + 1].pages]
                 ELSE list[j + 1]]
    BY DEF Merged
  <1>5. /\ DOMAIN new = 1 .. n - 1
        /\ \A j \in 1 .. n - 1 : j < k => new[j] = list[j]
        /\ \A j \in 1 .. n - 1 : k < j => new[j] = list[j + 1]
    BY <1>2, <1>4
  <1>6. new[k] = [start |-> list[k].start, pages |-> list[k].pages + list[k + 1].pages,
                  free |-> list[k].free]
    <2>1. new[k] = [list[k] EXCEPT !.pages = @ + list[k + 1].pages]
      BY <1>2, <1>4
    <2>2. list[k] \in section /\ list[k + 1].pages \in Nat
      BY <1>2, <1>3, SectionFields
    <2> HIDE DEF new
    <2> QED BY <2>1, <2>2, MorePages
  <1> HIDE DEF new, n
  <1>7. \A j \in 1 .. n : /\ list[j].start \in 0 .. WORLD - 1 /\ list[j].pages \in Nat
                          /\ list[j].free \in {"FREE", "USED", "BAD"}
    BY <1>3, SectionFields
  <1>8. /\ new[k].start = list[k].start /\ new[k].free = list[k].free
        /\ new[k].pages = list[k].pages + list[k + 1].pages
        /\ new[k] \in section
    BY <1>2, <1>6, <1>7 DEF section
  <1>9. new \in Seq(section) /\ Len(new) = n - 1
    <2>1. ASSUME NEW j \in 1 .. n - 1 PROVE new[j] \in section
      <3>1. j \in 1 .. n /\ j + 1 \in 1 .. n
        BY <1>1
      <3>2. j < k \/ j = k \/ k < j
        BY <1>2
      <3>3. list[j] \in section /\ list[j + 1] \in section
        BY <1>3, <3>1
      <3> QED BY <1>5, <1>8, <3>2, <3>3
    <2>2. new = [j \in 1 .. n - 1 |-> new[j]]
      BY <1>4
    <2>3. new \in [1 .. n - 1 -> section]
      BY <2>1, <2>2, Zenon
    <2> QED BY <1>2, <2>3, FunctionIsSeq
  <1>10. End(new[k]) = End(list[k + 1])
    <2> DEFINE a == list[k].start + list[k].pages
               b == list[k + 1].pages
    <2>1. End(list[k]) = list[k + 1].start
      BY <1>2 DEF Joined, n
    <2>2. a \in Int /\ b \in Int /\ list[k].start \in Int /\ list[k].pages \in Int
      BY <1>2, <1>7, Consts
    <2>3. End(new[k]) = (list[k].start + (list[k].pages + b)) % WORLD
      BY <1>8 DEF End
    <2>4. list[k].start + (list[k].pages + b) = a + b
      BY <2>2
    <2>5. End(list[k + 1]) = ((a % WORLD) + b) % WORLD
      BY <2>1 DEF End
    <2> HIDE DEF a, b
    <2> QED BY <2>2, <2>3, <2>4, <2>5, ModOfSum
  <1>11. new[1].start = 0 /\ new[1].free = "BAD" /\ new # <<>>
    <2>1. list[1].start = 0 /\ list[1].free = "BAD"
      BY DEF Joined
    <2>2. CASE k = 1
      BY <1>2, <1>8, <1>9, <2>1, <2>2, EmptySeq
    <2>3. CASE k # 1
      <3>1. 1 \in 1 .. n - 1 /\ 1 < k
        BY <1>2, <2>3
      <3> QED BY <1>2, <1>5, <1>9, <2>1, <3>1, EmptySeq
    <2> QED BY <2>2, <2>3
  <1>12. \A j \in 1 .. n - 1 : /\ End(list[j]) = list[j + 1].start
                              /\ ~(list[j].free = "FREE" /\ list[j + 1].free = "FREE")
    BY DEF Joined, n
  <1>13. ASSUME NEW j \in 1 .. Len(new) - 1
         PROVE  /\ End(new[j]) = new[j + 1].start
                /\ ~(new[j].free = "FREE" /\ new[j + 1].free = "FREE")
    <2>1. j \in 1 .. n - 1 /\ j + 1 \in 1 .. n - 1 /\ j \in Nat
      BY <1>1, <1>9
    <2>2. CASE j + 1 < k
      <3>1. new[j] = list[j] /\ new[j + 1] = list[j + 1]
        BY <1>2, <1>5, <2>1, <2>2
      <3> QED BY <1>12, <2>1, <3>1
    <2>3. CASE j + 1 = k
      <3>1. new[j] = list[j] /\ new[j + 1].start = list[j + 1].start
            /\ new[j + 1].free = list[j + 1].free
        BY <1>2, <1>5, <1>8, <2>1, <2>3
      <3> QED BY <1>12, <2>1, <3>1
    <2>4. CASE j = k
      <3>1. new[j + 1] = list[k + 2] /\ k + 1 \in 1 .. n - 1 /\ (k + 1) + 1 = k + 2
        BY <1>2, <1>5, <2>1, <2>4
      <3>2. End(list[k + 1]) = list[k + 2].start
            /\ ~(list[k + 1].free = "FREE" /\ list[k + 2].free = "FREE")
        BY <1>12, <3>1
      <3> QED BY <1>8, <1>10, <2>4, <3>1, <3>2
    <2>5. CASE k < j
      <3>1. new[j] = list[j + 1] /\ new[j + 1] = list[(j + 1) + 1] /\ j + 1 \in 1 .. n - 1
        BY <1>2, <1>5, <2>1, <2>5
      <3> QED BY <1>12, <3>1
    <2> QED BY <1>2, <2>1, <2>2, <2>3, <2>4, <2>5
  <1>14. Joined(new)
    BY <1>9, <1>11, <1>13 DEF Joined
  <1>15. list[k].free # "FREE" /\ list[k + 1].free # "FREE" /\ new[k].free # "FREE"
    BY <1>2, <1>8, <1>12
  <1>16. ASSUME NEW j \in DOMAIN list, list[j].free = "FREE"
         PROVE  \E l \in DOMAIN new : new[l] = list[j]
    <2>1. j \in 1 .. n /\ j # k /\ j # k + 1
      BY <1>1, <1>15, <1>16
    <2>2. CASE j < k
      BY <1>1, <1>2, <1>5, <2>1, <2>2
    <2>3. CASE k < j
      <3>1. j - 1 \in 1 .. n - 1 /\ k < j - 1 /\ (j - 1) + 1 = j
        BY <1>1, <1>2, <2>1, <2>3
      <3>2. new[j - 1] = list[(j - 1) + 1]
        BY <1>5, <3>1
      <3> QED BY <1>5, <3>1, <3>2
    <2> QED BY <1>2, <2>1, <2>2, <2>3
  <1>17. ASSUME NEW l \in DOMAIN new, new[l].free = "FREE"
         PROVE  \E j \in DOMAIN list : list[j] = new[l]
    <2>1. l \in 1 .. n - 1 /\ l # k /\ l \in 1 .. n /\ l + 1 \in 1 .. n
      BY <1>1, <1>5, <1>15, <1>17
    <2> QED BY <1>1, <1>2, <1>5, <2>1
  <1> QED BY <1>14, <1>16, <1>17 DEF new

(* So the free sections are the free entries before and after. *)
LEMMA RecombineMergesInv == ASSUME IInv, recombine_merges PROVE IInv'
  <1>1. /\ pc = "recombine" /\ i < Len(list) /\ list[i].free = list[i + 1].free
        /\ list' = Merged(i) /\ i' = i + 1 /\ detected' = TRUE /\ pc' = pc
        /\ free_memory' = free_memory /\ firmware' = firmware /\ limine_map' = limine_map
        /\ kept' = kept /\ memory_map' = memory_map /\ data' = data
    BY DEF recombine_merges
  <1>2. /\ firmware \in Firmwares /\ Clipped /\ NothingLost /\ TypeOK
        /\ i \in Nat \ {0} /\ free_memory \in Nat
    BY <1>1, Started
  <1>3. /\ Joined(list) /\ FromEntries(list) /\ Len(list) \in Nat \ {0}
        /\ ~HidesNext => HeadersPlaced
        /\ ~HidesNext => FreeKept(list, Len(memory_map))
    BY <1>1, Recombining
  <1>4. i \in 1 .. Len(list) - 1
    BY <1>1, <1>2, <1>3
  <1> DEFINE new == Merged(i)
  <1>5. /\ Joined(new)
        /\ \A j \in DOMAIN list : list[j].free = "FREE" => \E l \in DOMAIN new : new[l] = list[j]
        /\ \A l \in DOMAIN new : new[l].free = "FREE" => \E j \in DOMAIN list : list[j] = new[l]
    BY <1>1, <1>3, <1>4, MergedJoined
  <1> HIDE DEF new
  <1>6. FromEntries(new)
    BY <1>3, <1>5 DEF FromEntries
  <1>7. ASSUME ~HidesNext PROVE FreeKept(new, Len(memory_map))
    <2>1. ASSUME NEW j \in 2 .. Len(memory_map), Free(j)
          PROVE  \E l \in DOMAIN new : new[l] = SectionOf(memory_map[j])
      <3>1. PICK k \in DOMAIN list : list[k] = SectionOf(memory_map[j])
        BY <1>3, <1>7, <2>1 DEF FreeKept
      <3>2. j \in DOMAIN memory_map
        BY <1>2, CopyFields
      <3>3. list[k].free = "FREE"
        BY <1>2, <2>1, <3>1, <3>2, Sections
      <3> QED BY <1>5, <3>1, <3>3
    <2> QED BY <2>1 DEF FreeKept
  <1>8. list' = new
    BY <1>1 DEF new
  <1>9. Joined(list)' /\ FromEntries(list)' /\ (~HidesNext' => HeadersPlaced')
    BY <1>1, <1>3, <1>5, <1>6, <1>8, ListKept
  <1>10. ~HidesNext' => FreeKept(list, Len(memory_map))'
    <2>1. SUFFICES ASSUME ~HidesNext' PROVE FreeKept(list, Len(memory_map))'
      OBVIOUS
    <2>2. FreeKept(list', Len(memory_map))
      BY <1>1, <1>7, <1>8, <2>1, ListKept
    <2> QED BY <1>1, <2>2 DEF FreeKept, Free
  <1>11. detected' \in BOOLEAN /\ detected'
    BY <1>1, Zenon
  <1>12. ListInv'
    BY <1>1, <1>9, <1>10, <1>11 DEF ListInv
  <1>13. MapInv'
    BY <1>1, <1>2, MapInvKept
  <1>14. CountInv'
    BY <1>1, <1>2 DEF CountInv
  <1>15. TypeOK'
    <2>1. {free_memory', i'} \subseteq Nat
      BY <1>1, <1>2
    <2>2. list' \in Seq([start : 0 .. WORLD - 1, pages : Nat, free : {"FREE", "USED", "BAD"}])
      BY <1>5, <1>8 DEF Joined, section
    <2>3. detected' \in BOOLEAN
      BY <1>11
    <2> QED BY <1>1, <1>2, <2>1, <2>2, <2>3 DEF TypeOK
  <1> QED BY <1>12, <1>13, <1>14, <1>15 DEF IInv

(* Two that differ stay, and the pass has seen them. *)
LEMMA RecombineSkipsInv == ASSUME IInv, recombine_skips PROVE IInv'
  <1>1. /\ pc = "recombine" /\ i < Len(list) /\ list[i].free # list[i + 1].free
        /\ list' = list /\ i' = i + 1 /\ detected' = detected /\ pc' = pc
        /\ free_memory' = free_memory /\ firmware' = firmware /\ limine_map' = limine_map
        /\ kept' = kept /\ memory_map' = memory_map /\ data' = data
    BY DEF recombine_skips
  <1>2. /\ firmware \in Firmwares /\ Clipped /\ NothingLost /\ TypeOK
        /\ i \in Nat \ {0} /\ free_memory \in Nat
    BY <1>1, Started
  <1>3. /\ Joined(list) /\ FromEntries(list)
        /\ ~HidesNext => HeadersPlaced
        /\ ~HidesNext => FreeKept(list, Len(memory_map))
        /\ ~detected => \A k \in 1 .. Len(list) - 1 : k < i => list[k].free # list[k + 1].free
    BY <1>1, Recombining
  <1>4. Joined(list)' /\ FromEntries(list)' /\ (~HidesNext' => HeadersPlaced')
    BY <1>1, <1>3, ListKept
  <1>5. ~HidesNext' => FreeKept(list, Len(memory_map))'
    <2>1. SUFFICES ASSUME ~HidesNext' PROVE FreeKept(list, Len(memory_map))'
      OBVIOUS
    <2>2. FreeKept(list, Len(memory_map))
      BY <1>1, <1>3, <2>1, ListKept
    <2> QED BY <1>1, <2>2 DEF FreeKept, Free
  <1>6. ~detected' => \A k \in 1 .. Len(list') - 1 : k < i' => list'[k].free # list'[k + 1].free
    <2>1. SUFFICES ASSUME ~detected', NEW k \in 1 .. Len(list') - 1, k < i'
                   PROVE  list'[k].free # list'[k + 1].free
      OBVIOUS
    <2>2. k < i \/ k = i
      BY <1>1, <1>2, <2>1
    <2>3. ~detected
      BY <1>1, <2>1, Zenon
    <2>4. list'[k] = list[k] /\ list'[k + 1] = list[k + 1] /\ k \in 1 .. Len(list) - 1
      BY <1>1
    <2> QED BY <1>1, <1>3, <2>2, <2>3, <2>4
  <1>7. ListInv'
    BY <1>1, <1>4, <1>5, <1>6 DEF ListInv
  <1>8. MapInv'
    BY <1>1, <1>2, MapInvKept
  <1>9. CountInv'
    BY <1>1, <1>2 DEF CountInv
  <1>10. TypeOK'
    <2>1. {free_memory', i'} \subseteq Nat
      BY <1>1, <1>2
    <2> QED BY <1>1, <1>2, <2>1 DEF TypeOK
  <1> QED BY <1>7, <1>8, <1>9, <1>10 DEF IInv

(* A pass that merged nothing has seen every pair. *)
LEMMA RecombinePassEndsInv == ASSUME IInv, recombine_pass_ends PROVE IInv'
  <1>1. /\ pc = "recombine" /\ i >= Len(list) /\ list' = list /\ detected' = FALSE
        /\ free_memory' = free_memory /\ firmware' = firmware /\ limine_map' = limine_map
        /\ kept' = kept /\ memory_map' = memory_map /\ data' = data
    BY DEF recombine_pass_ends
  <1>2. \/ detected /\ i' = 1 /\ pc' = pc
        \/ ~detected /\ pc' = "done" /\ i' = i
    BY DEF recombine_pass_ends
  <1>3. /\ firmware \in Firmwares /\ Clipped /\ NothingLost /\ TypeOK
        /\ i \in Nat \ {0} /\ free_memory \in Nat
    BY <1>1, Started
  <1>4. /\ Joined(list) /\ FromEntries(list) /\ Len(list) \in Nat
        /\ ~HidesNext => HeadersPlaced
        /\ ~HidesNext => FreeKept(list, Len(memory_map))
        /\ ~detected => \A k \in 1 .. Len(list) - 1 : k < i => list[k].free # list[k + 1].free
    BY <1>1, Recombining
  <1>5. Joined(list)' /\ FromEntries(list)' /\ (~HidesNext' => HeadersPlaced')
    BY <1>1, <1>4, ListKept
  <1>6. ~HidesNext' => FreeKept(list, Len(memory_map))'
    <2>1. SUFFICES ASSUME ~HidesNext' PROVE FreeKept(list, Len(memory_map))'
      OBVIOUS
    <2>2. FreeKept(list, Len(memory_map))
      BY <1>1, <1>4, <2>1, ListKept
    <2> QED BY <1>1, <2>2 DEF FreeKept, Free
  <1>7. MapInv'
    <2>1. pc' \in {"recombine", "done"}
      BY <1>1, <1>2
    <2> QED BY <1>1, <1>3, <2>1, MapInvKept
  <1>8. i' \in Nat \ {0} /\ pc' \in {"recombine", "done"}
    BY <1>1, <1>2, <1>3
  <1>9. CountInv'
    BY <1>1, <1>3, <1>8 DEF CountInv
  <1>10. TypeOK'
    <2>1. {free_memory', i'} \subseteq Nat
      BY <1>1, <1>3, <1>8
    <2>2. detected' \in BOOLEAN
      BY <1>1, Zenon
    <2> QED BY <1>1, <1>3, <1>8, <2>1, <2>2 DEF TypeOK
  <1>11. CASE detected /\ i' = 1 /\ pc' = pc
    <2>1. \A k \in 1 .. Len(list') - 1 : ~(k < i')
      BY <1>11
    <2>2. ListInv'
      BY <1>1, <1>5, <1>6, <1>11, <2>1 DEF ListInv
    <2> QED BY <1>7, <1>9, <1>10, <2>2 DEF IInv
  <1>12. CASE ~detected /\ pc' = "done" /\ i' = i
    <2>1. \A k \in 1 .. Len(list) - 1 : list[k].free # list[k + 1].free
      <3>1. \A k \in 1 .. Len(list) - 1 : k < i
        BY <1>1, <1>3, <1>4
      <3> QED BY <1>4, <1>12, <3>1
    <2>2. ListInv'
      BY <1>1, <1>5, <1>6, <1>12, <2>1 DEF ListInv
    <2> QED BY <1>7, <1>9, <1>10, <2>2 DEF IInv
  <1> QED BY <1>2, <1>11, <1>12

-----------------------------------------------------------------------------
(* The theorems *)

(* No step leaves the invariant. *)
LEMMA NextInv == ASSUME IInv, [Next]_vars PROVE IInv'
  <1>1. CASE UNCHANGED vars
    <2>1. /\ pc' = pc /\ firmware' = firmware /\ limine_map' = limine_map /\ kept' = kept
          /\ memory_map' = memory_map /\ data' = data /\ free_memory' = free_memory
          /\ i' = i /\ list' = list /\ detected' = detected
      BY <1>1 DEF vars
    <2>2. TypeOK' <=> TypeOK
      BY <2>1, Zenon DEF TypeOK
    <2>3. CountInv' <=> CountInv
      BY <2>1, Zenon DEF CountInv, Free
    <2>4. Clipped' <=> Clipped
      <3>1. UsablePages' = UsablePages
        BY <2>1, Zenon DEF UsablePages
      <3> QED BY <2>1, <3>1, Zenon DEF Clipped, Free, EntryPages, EntryEnd
    <2>5. NothingLost' <=> NothingLost
      <3>1. UsablePages' = UsablePages
        BY <2>1, Zenon DEF UsablePages
      <3> QED BY <2>1, <3>1, Zenon DEF NothingLost, Free, EntryPages
    <2>6. MapInv' <=> MapInv
      <3>1. Arranged(limine_map, kept)' <=> Arranged(limine_map, kept)
        BY <2>1, Zenon DEF Arranged, Usable, EntryEnd
      <3>2. \A k : Usable(k)' <=> Usable(k)
        BY <2>1, Zenon DEF Usable
      <3> QED BY <2>1, <2>4, <2>5, <3>1, <3>2, Zenon DEF MapInv
    <2>7. ListInv' <=> ListInv
      <3>1. Joined(list)' <=> Joined(list)
        BY <2>1, Zenon DEF Joined, End
      <3>2. FromEntries(list)' <=> FromEntries(list)
        BY <2>1, Zenon DEF FromEntries, Free
      <3>3. \A n : FreeKept(list, n)' <=> FreeKept(list, n)
        BY <2>1, Zenon DEF FreeKept, Free
      <3>4. HidesNext' <=> HidesNext
        BY <2>1, Zenon DEF HidesNext
      <3>5. HeadersPlaced' <=> HeadersPlaced
        BY <2>1, Zenon DEF HeadersPlaced, Free
      <3>6. Tail_' <=> Tail_
        BY <2>1, <3>4, Zenon DEF Tail_, current
      <3>7. /\ FreeKept(list, i - 1)' <=> FreeKept(list, i - 1)
            /\ FreeKept(list, Len(memory_map))' <=> FreeKept(list, Len(memory_map))
        BY <2>1, <3>3, Zenon DEF FreeKept, Free
      <3> QED BY <2>1, <3>1, <3>2, <3>4, <3>5, <3>6, <3>7 DEF ListInv
    <2> QED BY <2>2, <2>3, <2>6, <2>7 DEF IInv
  <1> QED
    BY <1>1, IgnoreIommuInv, ProtectMapInv, NoPairInv, CopyMapInv, CountFreeInv, CountEndsInv,
       PlaceHeadersInv, AddEntryInv, EntriesEndInv, RecombineMergesInv, RecombineSkipsInv,
       RecombinePassEndsInv
    DEF Next, limine_reinterpret, pmm_start, pmm_recombine

(* Every variable has its type, and the entries and sections are what the     *)
(* argument says at every step from the boot loader's map to the list.       *)
THEOREM MapInvariant == Spec => []IInv
  <1>1. Init => IInv
    BY InitInv
  <1>2. IInv /\ [Next]_vars => IInv'
    BY NextInv
  <1> QED BY <1>1, <1>2, PTL DEF Spec

(* The pages of a free section are those of its entry. *)
LEMMA FreeSectionPages ==
    ASSUME Clipped, NEW j \in 2 .. Len(memory_map)
    PROVE  SectionPages(SectionOf(memory_map[j])) = EntryPages(j)
  <1> DEFINE s == SectionOf(memory_map[j])
             b == memory_map[j].base
             n == memory_map[j].length
  <1>1. j \in DOMAIN memory_map /\ b \in Nat /\ n \in Nat
    BY CopyFields
  <1>2. s.start = b /\ s.pages = n
    BY <1>1, Sections
  <1>3. b + n < WORLD
    BY DEF Clipped, EntryEnd
  <1> HIDE DEF s, b, n
  <1>4. \A p \in b .. b + n - 1 : p % WORLD = p
    <2>1. \A p \in b .. b + n - 1 : p \in 0 .. WORLD - 1
      BY <1>1, <1>3, Consts
    <2> QED BY <2>1, ModSmall
  <1>5. Pages(b, n) = b .. b + n - 1
    BY DEF Pages
  <1>6. {p % WORLD : p \in b .. b + n - 1} = b .. b + n - 1
    BY <1>4, Zenon
  <1> QED BY <1>2, <1>5, <1>6 DEF SectionPages, EntryPages, s, b, n

(* What the allocator takes for free is usable, and none of it is lost. *)
LEMMA FreeIsUsableInv == ASSUME IInv PROVE FreeIsUsable
  <1>1. ASSUME NEW p \in FreePages PROVE p \in UsablePages \ kept
    <2>1. PICK k \in DOMAIN list : list[k].free = "FREE" /\ p \in SectionPages(list[k])
      BY DEF FreePages
    <2>2. list # <<>>
      BY <2>1
    <2>3. Clipped
      BY <2>2 DEF IInv, MapInv
    <2>4. FromEntries(list)
      BY <2>2 DEF IInv, ListInv
    <2>5. PICK j \in 2 .. Len(memory_map) : Free(j) /\ list[k] = SectionOf(memory_map[j])
      BY <2>1, <2>4 DEF FromEntries
    <2>6. p \in EntryPages(j)
      BY <2>1, <2>3, <2>5, FreeSectionPages
    <2>7. EntryPages(j) \subseteq UsablePages \ kept
      BY <2>3, <2>5 DEF Clipped
    <2> QED BY <2>6, <2>7
  <1>2. ASSUME pc = "done", ~HidesNext,
               NEW p \in UsablePages \ (kept \cup Pages(firmware[1].base, firmware[1].length))
        PROVE  p \in FreePages
    <2>1. Clipped /\ NothingLost /\ FreeKept(list, Len(memory_map))
      BY <1>2 DEF IInv, MapInv, ListInv
    <2>2. PICK k \in 2 .. Len(memory_map) : Free(k) /\ p \in EntryPages(k)
      BY <2>1 DEF NothingLost
    <2>3. PICK l \in DOMAIN list : list[l] = SectionOf(memory_map[k])
      BY <2>1, <2>2 DEF FreeKept
    <2>4. p \in SectionPages(list[l])
      BY <2>1, <2>2, <2>3, FreeSectionPages
    <2>5. list[l].free = "FREE"
      <3>1. k \in DOMAIN memory_map
        BY <2>1, CopyFields
      <3> QED BY <2>1, <2>2, <2>3, <3>1, Sections
    <2> QED BY <2>4, <2>5 DEF FreePages
  <1> QED BY <1>1, <1>2 DEF FreeIsUsable

(* The list the loops leave is in order. *)
LEMMA ListIsInOrderInv == ASSUME IInv PROVE ListIsInOrder
  <1> SUFFICES ASSUME pc = "done", ~HidesNext
               PROVE  /\ list[1].start = 0 /\ list[1].free = "BAD"
                      /\ \A k \in 1 .. Len(list) - 1 :
                          /\ End(list[k]) = list[k + 1].start
                          /\ list[k].free # list[k + 1].free
                      /\ \E k \in DOMAIN list : /\ list[k].free = "FREE"
                                                /\ list[k].start = data.base
                                                /\ data.pages \in 1 .. list[k].pages
    BY DEF ListIsInOrder
  <1>1. /\ Clipped /\ Joined(list) /\ HeadersPlaced /\ FreeKept(list, Len(memory_map))
        /\ \A k \in 1 .. Len(list) - 1 : list[k].free # list[k + 1].free
    BY DEF IInv, MapInv, ListInv
  <1>2. /\ list[1].start = 0 /\ list[1].free = "BAD"
        /\ \A k \in 1 .. Len(list) - 1 : End(list[k]) = list[k + 1].start
    BY <1>1 DEF Joined
  <1>3. PICK c \in 2 .. Len(memory_map) :
            Free(c) /\ data.base = memory_map[c].base /\ data.pages \in 1 .. memory_map[c].length
    BY <1>1 DEF HeadersPlaced
  <1>4. PICK k \in DOMAIN list : list[k] = SectionOf(memory_map[c])
    BY <1>1, <1>3 DEF FreeKept
  <1>5. c \in DOMAIN memory_map
    BY <1>1, CopyFields
  <1>6. /\ list[k].start = memory_map[c].base /\ list[k].pages = memory_map[c].length
        /\ list[k].free = "FREE"
    BY <1>1, <1>3, <1>4, <1>5, Sections
  <1> QED BY <1>1, <1>2, <1>3, <1>6

(* limine.c:140 "protect section from pmm": whatever map the boot loader hands *)
(* over, what the page allocator takes for free was usable and does not hold   *)
(* the map's copy, and of the usable memory only the first entry is lost.     *)
THEOREM OnlyUsableIsFree == Spec => []FreeIsUsable
  <1>1. IInv => FreeIsUsable
    BY FreeIsUsableInv
  <1> QED BY <1>1, MapInvariant, PTL

(* The list pmm_start leaves touches everywhere, has no neighbours of one type  *)
(* and holds the header array at the start of a free section, which PmmProofs   *)
(* assumes of the list it begins with.                                      *)
THEOREM StartsInOrder == Spec => []ListIsInOrder
  <1>1. IInv => ListIsInOrder
    BY ListIsInOrderInv
  <1> QED BY <1>1, MapInvariant, PTL
=============================================================================
