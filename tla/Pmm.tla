-------------------------------- MODULE Pmm --------------------------------
(***************************************************************************)
(* The physical page allocator of the kernel: src/kernel/src/mem/pmm/pmm.c *)
(* and pfa.c, from the end of pmm_start on.                                *)
(*                                                                         *)
(* Physical memory is described by a doubly linked list of section headers *)
(* kept in a fixed array, pmm_sections.  Slot 0 is the head of the list    *)
(* for ever.  A header that is in use is told from a free one only by its  *)
(* links: both NULL means unlinked.  Addresses are counted in pages, so    *)
(* PAGING_PAGE_SIZE is 1.  One action is one iteration of the loop a       *)
(* function runs over the list: `selected' is its cursor.                  *)
(*                                                                         *)
(* A NULL that is dereferenced is a page fault (page 0 is never mapped) and *)
(* the kernel's exception handler halts for ever: pc = "halted".  A step    *)
(* that faults half way through is left undone: nothing runs after it.     *)
(***************************************************************************)
EXTENDS Integers, Sequences, FiniteSets

CONSTANTS
    NSlots,     \* headers that fit in pmm_data_size bytes
    Boots,      \* the lists pmm_start may hand over, see BootsAssumption
    WholeApi,   \* those of them on which all of pmm.h is called
    MaxRequest, \* bound: largest page_count asked of pmm_alloc_pool
    MaxPools    \* bound: calls of pmm_alloc_pool

PMM_SECTION_USED == 0
PMM_SECTION_FREE == 1
PMM_SECTION_BAD  == 2

NULL   == -1
Slot   == 0 .. NSlots - 1
SlotP  == Slot \cup {NULL}
Type   == {PMM_SECTION_USED, PMM_SECTION_FREE, PMM_SECTION_BAD}
pmm_section_t == [prev : SlotP, next : SlotP, start : Int, pages : Nat, free : Type]

(***************************************************************************)
(* A boot state is what pmm_start leaves: the sections in list order after *)
(* pmm_recombine (so neighbours differ in type), the bump index, and the   *)
(* run of pages that holds pmm_sections itself, which pmm_start locks last. *)
(* Which slot holds which section is immaterial but for the head.          *)
(***************************************************************************)
BootsAssumption ==
    /\ NSlots \in Nat \ {0}
    /\ MaxRequest \in Nat
    /\ MaxPools \in Nat
    /\ WholeApi \subseteq Boots
    /\ \A b \in Boots :
        /\ b.secs \in Seq([start : Nat, pages : Nat \ {0}, free : Type])
        /\ Len(b.secs) \in 2 .. NSlots
        /\ b.head \in Len(b.secs) .. NSlots
        /\ b.secs[1].start = 0
        /\ b.secs[1].free = PMM_SECTION_BAD
        /\ \A i \in 1 .. Len(b.secs) - 1 :
            /\ b.secs[i + 1].start = b.secs[i].start + b.secs[i].pages
            /\ b.secs[i + 1].free # b.secs[i].free
        /\ b.data.pages \in Nat \ {0}
        /\ \E i \in 1 .. Len(b.secs) :
            /\ b.secs[i].free = PMM_SECTION_FREE
            /\ b.data.base = b.secs[i].start
            /\ b.data.pages <= b.secs[i].pages
ASSUME BootsAssumption

VARIABLES
    sections,     \* the array pmm_sections
    section_head, \* _pmm_section_head, the bump index
    pmm_pools,    \* the list of pool nodes, append only
    pc,           \* the function running, "idle" or "halted"
    selected,     \* its cursor
    run,          \* pages the running call still has to do, [base, left]
    detected,     \* the flag of pmm_recombine
    boot,         \* the member of Boots the machine started with
    held,         \* ghost: the runs of pages callers own
    claim         \* ghost: the run the caller owns once the call returns

list == <<sections, section_head>>
vars == <<sections, section_head, pmm_pools, pc, selected, run, detected,
          boot, held, claim>>

-----------------------------------------------------------------------------
(* The header list: pmm_new_section, pmm_section_split, the two combines.  *)
(* Each maps a list L = [sec, head] to the list the code leaves; a head of *)
(* NULL marks the list of a machine that has faulted.                      *)

Linked(sec, s) == sec[s].prev # NULL \/ sec[s].next # NULL
End(sec, s)    == sec[s].start + sec[s].pages

Unlinked == [prev |-> NULL, next |-> NULL, start |-> 0, pages |-> 0,
             free |-> PMM_SECTION_USED]

pmm_section_manager_reindex(sec) ==
    IF \E s \in Slot : ~Linked(sec, s)
    THEN CHOOSE s \in Slot : /\ ~Linked(sec, s)
                             /\ \A t \in Slot : t < s => Linked(sec, t)
    ELSE 0

(* The slot of the new header, or NULL.  The array's end is tested before   *)
(* the reindex, never after it.                                            *)
pmm_new_section(L) ==
    IF L.head >= NSlots THEN NULL
    ELSE IF ~Linked(L.sec, L.head) THEN L.head
    ELSE LET r == pmm_section_manager_reindex(L.sec)
         IN  IF Linked(L.sec, r) THEN NULL ELSE r

Faulted(L) == [L EXCEPT !.head = NULL]

\* Mutant: the new header does not take over its section's next.
SplitWithoutNext(sec, t, at, n) ==
    [s \in Slot |->
        IF s = t THEN [sec[t] EXCEPT !.next = n, !.pages = at - sec[t].start]
        ELSE IF s = n
        THEN [prev |-> t, next |-> NULL, start |-> at,
              pages |-> End(sec, t) - at, free |-> sec[t].free]
        ELSE sec[s]]

SplitInto(sec, t, at, n) ==
    [s \in Slot |->
        IF s = t THEN [sec[t] EXCEPT !.next = n, !.pages = at - sec[t].start]
        ELSE IF s = n
        THEN [prev |-> t, next |-> sec[t].next, start |-> at,
              pages |-> End(sec, t) - at, free |-> sec[t].free]
        ELSE IF s = sec[t].next THEN [sec[s] EXCEPT !.prev = n]
        ELSE sec[s]]

pmm_section_split(L, t, at) ==
    IF at >= End(L.sec, t) THEN L
    ELSE LET n == pmm_new_section(L)
         IN  IF n = NULL THEN Faulted(L)
             ELSE [sec |-> SplitInto(L.sec, t, at, n), head |-> n + 1]

\* Mutant: the previous section keeps its link to the swallowed one.
CombineNextOneWay(sec, t) ==
    [s \in Slot |->
        IF s = t THEN Unlinked
        ELSE IF s = sec[t].next
        THEN [sec[s] EXCEPT !.start = sec[t].start, !.prev = sec[t].prev,
                            !.pages = @ + sec[t].pages]
        ELSE sec[s]]

(* The next section swallows t. *)
CombineNext(sec, t) ==
    [s \in Slot |->
        IF s = t THEN Unlinked
        ELSE IF s = sec[t].next
        THEN [sec[s] EXCEPT !.start = sec[t].start, !.prev = sec[t].prev,
                            !.pages = @ + sec[t].pages]
        ELSE IF s = sec[t].prev THEN [sec[s] EXCEPT !.next = sec[t].next]
        ELSE sec[s]]

(* The previous section swallows t. *)
CombinePrev(sec, t) ==
    [s \in Slot |->
        IF s = t THEN Unlinked
        ELSE IF s = sec[t].prev
        THEN [sec[s] EXCEPT !.next = sec[t].next, !.pages = @ + sec[t].pages]
        ELSE IF s = sec[t].next THEN [sec[s] EXCEPT !.prev = sec[t].prev]
        ELSE sec[s]]

pmm_section_combine_next(L, t) ==
    LET n == L.sec[t].next
    IN  IF n = NULL \/ L.sec[t].free # L.sec[n].free THEN L
        ELSE IF L.sec[t].prev = NULL THEN Faulted(L)
        ELSE [L EXCEPT !.sec = CombineNext(L.sec, t)]

pmm_section_combine_prev(L, t) ==
    LET p == L.sec[t].prev
    IN  IF p = NULL \/ L.sec[t].free # L.sec[p].free THEN L
        ELSE IF L.sec[t].next = NULL THEN Faulted(L)
        ELSE [L EXCEPT !.sec = CombinePrev(L.sec, t)]

SetType(L, s, type) == [L EXCEPT !.sec[s].free = type]

\* Mutant: the section that gave its first page away starts where it did.
GiveFirstKeepsStart(sec, s) ==
    [sec EXCEPT ![sec[s].prev].pages = @ + 1,
                ![s].pages = @ - 1]

(* The first page of s goes to the section before it. *)
GiveFirstPage(sec, s) ==
    [sec EXCEPT ![sec[s].prev].pages = @ + 1,
                ![s].pages = @ - 1,
                ![s].start = @ + 1]

(* The last page of s goes to the section after it. *)
GiveLastPage(sec, s) ==
    [sec EXCEPT ![sec[s].next].start = @ - 1,
                ![sec[s].next].pages = @ + 1,
                ![s].pages = @ - 1]

CurrentList == [sec |-> sections, head |-> section_head]

-----------------------------------------------------------------------------
(* Control: where a step goes next.                                        *)

Pages(r) == r.base .. r.base + r.pages - 1

FreeSections  == {s \in Slot : Linked(sections, s) /\ sections[s].free = PMM_SECTION_FREE}
SectionPages(s) == sections[s].start .. End(sections, s) - 1

Halt ==
    /\ pc' = "halted"
    /\ UNCHANGED <<sections, section_head, pmm_pools, selected, run, detected,
                   boot, held, claim>>

SetList(L) == sections' = L.sec /\ section_head' = L.head

NoRun == [base |-> 0, left |-> 0]

Return ==
    /\ pc' = "idle"
    /\ selected' = NULL
    /\ run' = NoRun
    /\ held' = held \cup claim
    /\ claim' = {}

(* pmm_lock_page or pmm_free_page returns: the loop of pmm_lock_pages or    *)
(* pmm_unlock_pages goes on to the next page.                              *)
PageDone ==
    IF run.left > 1
    THEN /\ run' = [base |-> run.base + 1, left |-> run.left - 1]
         /\ selected' = 0
         /\ UNCHANGED <<pc, held, claim>>
    ELSE Return

(* The step leaves the list L and returns, unless it faulted. *)
ReturnWith(L) ==
    IF L.head = NULL THEN Halt
    ELSE SetList(L) /\ PageDone /\ UNCHANGED <<pmm_pools, detected, boot>>

(* The step leaves the list L and goes on with the section after s. *)
ContinueWith(L, s) ==
    IF L.head = NULL THEN Halt
    ELSE /\ SetList(L)
         /\ selected' = L.sec[s].next
         /\ UNCHANGED <<pmm_pools, pc, run, detected, boot, held, claim>>

Advance == ContinueWith(CurrentList, selected)

-----------------------------------------------------------------------------
(* pmm_alloc_page *)

alloc_page_call ==
    /\ pc = "idle"
    /\ pc' = "alloc_page"
    /\ selected' = 0
    /\ UNCHANGED <<sections, section_head, pmm_pools, run, detected, boot, held, claim>>

alloc_page_fails ==
    /\ pc = "alloc_page"
    /\ selected = NULL
    /\ Return
    /\ UNCHANGED <<sections, section_head, pmm_pools, detected, boot>>

\* Mutant: the cursor follows the next link after it has been cleared.
alloc_page_loses_cursor ==
    /\ pc = "alloc_page"
    /\ selected # NULL
    /\ sections[selected].pages = 0
    /\ IF sections[selected].prev = NULL \/ sections[selected].next = NULL
       THEN Halt
       ELSE /\ sections' = [s \in Slot |->
                  IF s = selected THEN Unlinked
                  ELSE IF s = sections[selected].next
                  THEN [sections[s] EXCEPT !.prev = sections[selected].prev]
                  ELSE IF s = sections[selected].prev
                  THEN [sections[s] EXCEPT !.next = sections[selected].next]
                  ELSE sections[s]]
            /\ selected' = NULL
            /\ UNCHANGED <<section_head, pmm_pools, pc, run, detected, boot, held, claim>>

(* A section left without pages is unlinked on the way. *)
alloc_page_unlinks_empty ==
    /\ pc = "alloc_page"
    /\ selected # NULL
    /\ sections[selected].pages = 0
    /\ IF sections[selected].prev = NULL \/ sections[selected].next = NULL
       THEN Halt
       ELSE /\ sections' = [s \in Slot |->
                  IF s = selected THEN Unlinked
                  ELSE IF s = sections[selected].next
                  THEN [sections[s] EXCEPT !.prev = sections[selected].prev]
                  ELSE IF s = sections[selected].prev
                  THEN [sections[s] EXCEPT !.next = sections[selected].next]
                  ELSE sections[s]]
            /\ selected' = sections[selected].next
            /\ UNCHANGED <<section_head, pmm_pools, pc, run, detected, boot, held, claim>>

alloc_page_skips ==
    /\ pc = "alloc_page"
    /\ selected # NULL
    /\ sections[selected].pages # 0
    /\ sections[selected].free # PMM_SECTION_FREE
    /\ Advance

(* Takes the first page of a free section. *)
TakeFirstPage(s) ==
    IF sections[sections[s].prev].free = PMM_SECTION_USED
    THEN [CurrentList EXCEPT !.sec = GiveFirstPage(sections, s)]
    ELSE SetType(pmm_section_split(CurrentList, s, sections[s].start + 1), s,
                 PMM_SECTION_USED)

alloc_page_takes ==
    /\ pc = "alloc_page"
    /\ selected # NULL
    /\ sections[selected].pages # 0
    /\ sections[selected].free = PMM_SECTION_FREE
    /\ IF sections[selected].prev = NULL \/ TakeFirstPage(selected).head = NULL
       THEN Halt
       ELSE /\ SetList(TakeFirstPage(selected))
            /\ pc' = "idle"
            /\ selected' = NULL
            /\ held' = held \cup {[kind |-> "page", base |-> sections[selected].start,
                                   pages |-> 1]}
            /\ UNCHANGED <<pmm_pools, run, detected, boot, claim>>

pmm_alloc_page == alloc_page_fails \/ alloc_page_unlinks_empty
                  \/ alloc_page_skips \/ alloc_page_takes

-----------------------------------------------------------------------------
(* pmm_free_page(run.base) *)

(* The owner of a page that came from pmm_alloc_page hands it back. *)
free_page_call ==
    /\ pc = "idle"
    /\ \E r \in held :
        /\ r.kind = "page"
        /\ held' = held \ {r}
        /\ run' = [base |-> r.base, left |-> 1]
    /\ pc' = "free_page"
    /\ selected' = 0
    /\ UNCHANGED <<sections, section_head, pmm_pools, detected, boot, claim>>

AtStart(s) == sections[s].start = run.base

(* run.base lies behind the start of s and before the start of the next     *)
(* section: only evaluated when there is a next section.                   *)
InMiddle(s) == sections[s].start < run.base /\ sections[sections[s].next].start > run.base
AtEnd(s)    == sections[sections[s].next].start - 1 = run.base

(* pfa.c:104-123, the section is the page.  The section is still used when  *)
(* the combines compare types, so with a free neighbour they do nothing.   *)
FreeWhole(s) ==
    LET p == sections[s].prev
        n == sections[s].next
        free(t) == sections[t].free = PMM_SECTION_FREE
    IN  IF free(p) /\ free(n)
        THEN LET L == pmm_section_combine_next(CurrentList, s)
             IN  IF L.head = NULL THEN L ELSE pmm_section_combine_next(L, p)
        ELSE IF free(p) THEN pmm_section_combine_prev(CurrentList, s)
        ELSE IF free(n) THEN pmm_section_combine_next(CurrentList, s)
        ELSE SetType(CurrentList, s, PMM_SECTION_FREE)

(* pfa.c:124-136, the page is the first of several. *)
FreeFirst(s) ==
    IF sections[sections[s].prev].free = PMM_SECTION_FREE
    THEN [CurrentList EXCEPT !.sec = GiveFirstPage(sections, s)]
    ELSE SetType(pmm_section_split(CurrentList, s, sections[s].start + 1), s,
                 PMM_SECTION_FREE)

free_page_at_start ==
    /\ pc = "free_page"
    /\ selected # NULL
    /\ AtStart(selected)
    /\ IF sections[selected].free = PMM_SECTION_FREE THEN ReturnWith(CurrentList)
       ELSE IF sections[selected].prev = NULL THEN Halt
       ELSE IF sections[selected].pages = 1
       THEN IF sections[selected].next = NULL THEN Halt
            ELSE ReturnWith(FreeWhole(selected))
       ELSE ReturnWith(FreeFirst(selected))

(* pfa.c:138-153.  A page that is not the last of its section is passed by. *)
free_page_in_middle ==
    /\ pc = "free_page"
    /\ selected # NULL
    /\ ~AtStart(selected)
    /\ sections[selected].start < run.base
    /\ sections[selected].next # NULL
    /\ InMiddle(selected)
    /\ IF sections[selected].free = PMM_SECTION_FREE THEN ReturnWith(CurrentList)
       ELSE IF ~AtEnd(selected) THEN Advance
       ELSE IF sections[sections[selected].next].free = PMM_SECTION_FREE
       THEN ContinueWith([CurrentList EXCEPT !.sec = GiveLastPage(sections, selected)],
                         selected)
       ELSE LET L == pmm_section_split(CurrentList, selected, run.base)
                n == L.sec[selected].next
            IN  IF L.head = NULL THEN Halt
                ELSE LET M == pmm_section_split(L, n, L.sec[n].start + 1)
                     IN  ContinueWith(SetType(M, n, PMM_SECTION_FREE), n)

(* The loop condition of both scans reads selected->next->start once the    *)
(* page lies behind the start of the section.                              *)
scan_faults ==
    /\ pc \in {"free_page", "lock_page"}
    /\ selected # NULL
    /\ sections[selected].start < run.base
    /\ sections[selected].next = NULL
    /\ Halt

free_page_skips ==
    /\ pc = "free_page"
    /\ selected # NULL
    /\ ~AtStart(selected)
    /\ sections[selected].start < run.base =>
         sections[selected].next # NULL /\ ~InMiddle(selected)
    /\ Advance

free_page_ends ==
    /\ pc = "free_page"
    /\ selected = NULL
    /\ ReturnWith(CurrentList)

pmm_free_page == free_page_at_start \/ free_page_in_middle \/ free_page_skips
                 \/ free_page_ends

-----------------------------------------------------------------------------
(* pmm_lock_page(run.base) *)

(* pfa.c:163-182, the section is the page: mark it, then merge it with the  *)
(* used neighbours.                                                        *)
LockWhole(s) ==
    LET p == sections[s].prev
        n == sections[s].next
        used(t) == sections[t].free = PMM_SECTION_USED
        M == SetType(CurrentList, s, PMM_SECTION_USED)
    IN  IF used(p) /\ used(n)
        THEN LET L == pmm_section_combine_next(M, s)
             IN  IF L.head = NULL THEN L ELSE pmm_section_combine_next(L, p)
        ELSE IF used(p) THEN pmm_section_combine_prev(M, s)
        ELSE IF used(n) THEN pmm_section_combine_next(M, s)
        ELSE M

lock_page_whole ==
    /\ pc = "lock_page"
    /\ selected # NULL
    /\ AtStart(selected)
    /\ sections[selected].pages = 1
    /\ IF sections[selected].prev = NULL \/ sections[selected].next = NULL
       THEN Halt
       ELSE ReturnWith(LockWhole(selected))

lock_page_at_start ==
    /\ pc = "lock_page"
    /\ selected # NULL
    /\ AtStart(selected)
    /\ sections[selected].pages # 1
    /\ IF sections[selected].free = PMM_SECTION_USED THEN ReturnWith(CurrentList)
       ELSE IF sections[selected].prev = NULL THEN Halt
       ELSE ReturnWith(TakeFirstPage(selected))

lock_page_in_middle ==
    /\ pc = "lock_page"
    /\ selected # NULL
    /\ ~AtStart(selected)
    /\ sections[selected].start < run.base
    /\ sections[selected].next # NULL
    /\ InMiddle(selected)
    /\ IF sections[selected].free = PMM_SECTION_USED THEN ReturnWith(CurrentList)
       ELSE IF AtEnd(selected) /\ sections[sections[selected].next].free = PMM_SECTION_USED
       THEN ContinueWith([CurrentList EXCEPT !.sec = GiveLastPage(sections, selected)],
                         selected)
       ELSE LET L == pmm_section_split(CurrentList, selected, run.base)
                n == L.sec[selected].next
            IN  IF L.head = NULL THEN Halt
                ELSE LET M == IF AtEnd(selected) THEN L
                              ELSE pmm_section_split(L, n, L.sec[n].start + 1)
                     IN  ContinueWith(SetType(M, n, PMM_SECTION_USED), n)

lock_page_skips ==
    /\ pc = "lock_page"
    /\ selected # NULL
    /\ ~AtStart(selected)
    /\ sections[selected].start < run.base =>
         sections[selected].next # NULL /\ ~InMiddle(selected)
    /\ Advance

lock_page_ends ==
    /\ pc = "lock_page"
    /\ selected = NULL
    /\ ReturnWith(CurrentList)

pmm_lock_page == lock_page_whole \/ lock_page_at_start \/ lock_page_in_middle
                 \/ lock_page_skips \/ lock_page_ends

-----------------------------------------------------------------------------
(* pmm_recombine: passes over the list until one of them merges nothing.   *)

\* Mutant: the flag is not cleared before the next pass.
recombine_keeps_flag ==
    /\ pc = "recombine"
    /\ selected # NULL => sections[selected].next = NULL
    /\ IF detected = 0
       THEN Return /\ UNCHANGED <<sections, section_head, pmm_pools, detected, boot>>
       ELSE /\ selected' = 0
            /\ UNCHANGED <<sections, section_head, pmm_pools, pc, run, detected,
                           boot, held, claim>>

recombine_pass_ends ==
    /\ pc = "recombine"
    /\ selected # NULL => sections[selected].next = NULL
    /\ IF detected = 0
       THEN Return /\ UNCHANGED <<sections, section_head, pmm_pools, detected, boot>>
       ELSE /\ detected' = 0
            /\ selected' = 0
            /\ UNCHANGED <<sections, section_head, pmm_pools, pc, run, boot, held, claim>>

recombine_skips ==
    /\ pc = "recombine"
    /\ selected # NULL
    /\ sections[selected].next # NULL
    /\ sections[selected].free # sections[sections[selected].next].free
    /\ Advance

(* The current section swallows the next one. *)
recombine_merges ==
    /\ pc = "recombine"
    /\ selected # NULL
    /\ sections[selected].next # NULL
    /\ sections[selected].free = sections[sections[selected].next].free
    /\ sections' = CombinePrev(sections, sections[selected].next)
    /\ detected' = 1
    /\ selected' = sections[sections[selected].next].next
    /\ UNCHANGED <<section_head, pmm_pools, pc, run, boot, held, claim>>

pmm_recombine == recombine_pass_ends \/ recombine_skips \/ recombine_merges

-----------------------------------------------------------------------------
(* pmm_alloc_pool(count).  The node comes from malloc, whose heap_expand     *)
(* calls pmm_alloc_page before anything else here happens: that is a call   *)
(* of its own, made just before.  Nothing reads the node before the search  *)
(* has ended, so it is linked by the step that ends the search.             *)

alloc_pool_call ==
    /\ pc = "idle"
    /\ Len(pmm_pools) < MaxPools
    /\ \E count \in 0 .. MaxRequest : run' = [base |-> 0, left |-> count]
    /\ pc' = "alloc_pool"
    /\ selected' = 0
    /\ UNCHANGED <<sections, section_head, pmm_pools, detected, boot, held, claim>>

Fits(s) == sections[s].pages >= run.left /\ sections[s].free = PMM_SECTION_FREE

alloc_pool_skips ==
    /\ pc = "alloc_pool"
    /\ selected # NULL
    /\ ~Fits(selected)
    /\ Advance

alloc_pool_finds ==
    /\ pc = "alloc_pool"
    /\ selected # NULL
    /\ Fits(selected)
    /\ LET pool == [kind |-> "pool", base |-> sections[selected].start, pages |-> run.left]
       IN  /\ pmm_pools' = Append(pmm_pools, [base |-> pool.base, pages |-> pool.pages])
           /\ IF pool.pages = 0    \* pmm_lock_pages has nothing to do
              THEN /\ pc' = "idle" /\ selected' = NULL /\ run' = NoRun
                   /\ held' = held \cup {pool}
                   /\ UNCHANGED claim
              ELSE /\ pc' = "lock_page" /\ selected' = 0
                   /\ run' = [base |-> pool.base, left |-> pool.pages]
                   /\ claim' = {pool}
                   /\ UNCHANGED held
    /\ UNCHANGED <<sections, section_head, detected, boot>>

Top(b) == b.secs[Len(b.secs)].start + b.secs[Len(b.secs)].pages

(* The node of a failed call stays in the list.  Its base is what malloc     *)
(* left in it, but for the first node, which was cleared.                  *)
alloc_pool_fails ==
    /\ pc = "alloc_pool"
    /\ selected = NULL
    /\ \E garbage \in IF pmm_pools = <<>> THEN {0} ELSE 0 .. Top(boot) - 1 :
         pmm_pools' = Append(pmm_pools, [base |-> garbage, pages |-> run.left])
    /\ pc' = "recombine"
    /\ selected' = 0
    /\ detected' = 0
    /\ UNCHANGED <<sections, section_head, run, boot, held, claim>>

pmm_alloc_pool == alloc_pool_skips \/ alloc_pool_finds \/ alloc_pool_fails

(* pmm_free_pool(address).  The first node whose run contains the address,   *)
(* or ends right before it, is the one whose pages are freed; no node is     *)
(* ever taken out of the list.                                             *)
Covers(pool, address) == pool.base <= address /\ address <= pool.base + pool.pages

free_pool_call ==
    /\ pc = "idle"
    /\ pmm_pools # <<>>
    /\ \E r \in held :
        /\ r.kind = "pool"
        /\ r.base # 0
        /\ held' = held \ {r}
        /\ LET hits == {i \in DOMAIN pmm_pools : Covers(pmm_pools[i], r.base)}
               i    == CHOOSE i \in hits : \A j \in hits : i <= j
           IN  IF hits = {} THEN
                    /\ pc' = "recombine" /\ selected' = 0 /\ detected' = 0
                    /\ UNCHANGED run
               ELSE /\ run' = [base |-> pmm_pools[i].base, left |-> pmm_pools[i].pages]
                    /\ UNCHANGED detected
                    /\ IF pmm_pools[i].pages = 0
                       THEN UNCHANGED <<pc, selected>>
                       ELSE pc' = "free_page" /\ selected' = 0
    /\ UNCHANGED <<sections, section_head, pmm_pools, boot, claim>>

BootFree(b) ==
    UNION {b.secs[i].start .. b.secs[i].start + b.secs[i].pages - 1 :
             i \in {j \in DOMAIN b.secs : b.secs[j].free = PMM_SECTION_FREE}}

(* pmm_lock_pages of a run of free pages, anywhere.  (Of a page that is used *)
(* already it can take a page from an empty free section in front of it:     *)
(* pages wraps around.  No caller does that.)                              *)
lock_pages_call ==
    /\ pc = "idle"
    /\ \E base \in BootFree(boot), count \in 1 .. MaxRequest :
         /\ base .. base + count - 1 \subseteq UNION {SectionPages(s) : s \in FreeSections}
         /\ run' = [base |-> base, left |-> count]
    /\ pc' = "lock_page"
    /\ selected' = 0
    /\ UNCHANGED <<sections, section_head, pmm_pools, detected, boot, held, claim>>

(* pmm_unlock_pages of a run of memory that was free at boot, whoever has it. *)
unlock_pages_call ==
    /\ pc = "idle"
    /\ \E base \in BootFree(boot), count \in 1 .. MaxRequest :
         /\ base .. base + count - 1 \subseteq BootFree(boot)
         /\ run' = [base |-> base, left |-> count]
    /\ pc' = "free_page"
    /\ selected' = 0
    /\ UNCHANGED <<sections, section_head, pmm_pools, detected, boot, held, claim>>

-----------------------------------------------------------------------------
BootSections(b) ==
    [s \in Slot |->
        IF s < Len(b.secs)
        THEN [prev  |-> IF s = 0 THEN NULL ELSE s - 1,
              next  |-> IF s = Len(b.secs) - 1 THEN NULL ELSE s + 1,
              start |-> b.secs[s + 1].start,
              pages |-> b.secs[s + 1].pages,
              free  |-> b.secs[s + 1].free]
        ELSE Unlinked]

(* pmm_start is about to lock the pages of the header array itself. *)
Init ==
    /\ boot \in Boots
    /\ sections = BootSections(boot)
    /\ section_head = boot.head
    /\ pmm_pools = <<>>
    /\ pc = "lock_page"
    /\ selected = 0
    /\ run = [base |-> boot.data.base, left |-> boot.data.pages]
    /\ detected = 0
    /\ held = {}
    /\ claim = {[kind |-> "data", base |-> boot.data.base, pages |-> boot.data.pages]}

(* A running call.  One program runs, and of the interrupt handlers only    *)
(* the serial console's calls the allocator, for its disk commands (module  *)
(* Ahci).  That case is left out here, so calls do not overlap.             *)
Running == pmm_alloc_page \/ pmm_free_page \/ pmm_lock_page \/ scan_faults
           \/ pmm_recombine \/ pmm_alloc_pool

(* What the kernel calls: nothing in it calls pmm_free_pool, nor the others  *)
(* but from within the allocator.  pmm_realloc_pool is left out.             *)
KernelCall == alloc_page_call \/ free_page_call \/ alloc_pool_call
OtherCall  == free_pool_call \/ lock_pages_call \/ unlock_pages_call

Next == Running \/ KernelCall \/ (boot \in WholeApi /\ OtherCall)
Spec == Init /\ [][Next]_vars /\ WF_vars(Running)

-----------------------------------------------------------------------------
Run == [kind : {"page", "pool", "data"}, base : Int, pages : Nat]

(* Every variable has its type. *)
TypeOK ==
    /\ sections \in [Slot -> pmm_section_t]
    /\ section_head \in 0 .. NSlots
    /\ pmm_pools \in Seq([base : Int, pages : Nat])
    /\ pc \in {"idle", "alloc_page", "free_page", "lock_page", "alloc_pool",
               "recombine", "halted"}
    /\ selected \in SlotP
    /\ run \in [base : Int, left : Int]
    /\ detected \in {0, 1}
    /\ boot \in Boots
    /\ held \subseteq Run
    /\ claim \subseteq Run

(* The links of the list are each other's inverse and sections touch: the   *)
(* next section starts where this one ends.  A header that is not linked    *)
(* holds no pages, so a reused one brings nothing along.  (pmm_new_section, *)
(* pmm_section_split, the combines and the page moves keep it.)            *)
LinksAgree ==
    \A s \in Slot :
        /\ sections[s].next # NULL =>
             /\ sections[sections[s].next].prev = s
             /\ sections[sections[s].next].start = End(sections, s)
        /\ sections[s].prev # NULL => sections[sections[s].prev].next = s
        /\ Linked(sections, s) \/ sections[s] = Unlinked
        /\ sections[s].pages >= 0

(* Every page of physical memory is in exactly one section of the list, at  *)
(* every step of every call: nothing pmm_start described is ever lost from  *)
(* the list or described twice.                                            *)
EveryPageInOneSection ==
    \A page \in 0 .. Top(boot) - 1 :
        \E s \in Slot :
            /\ Linked(sections, s) /\ page \in SectionPages(s)
            /\ \A t \in Slot \ {s} :
                 ~(Linked(sections, t) /\ page \in SectionPages(t))

(* To those who call it as the kernel does, the allocator has two limits at  *)
(* which it dies rather than refuse: pmm_new_section finds no header, or the *)
(* list ends with memory that is handed out and the cursor is at its end,    *)
(* where pfa.c reads or writes through a next that is NULL.  A map that ends *)
(* with device memory has the first limit only.                            *)
NoHeaderLeft == section_head >= NSlots \/ \A s \in Slot : Linked(sections, s)
AtOpenEnd ==
    /\ boot.secs[Len(boot.secs)].free # PMM_SECTION_BAD
    /\ selected # NULL
    /\ sections[selected].next = NULL
    /\ sections[selected].free # PMM_SECTION_BAD

HaltsOnlyAtLimits ==
    (pc = "halted" /\ boot \notin WholeApi) => NoHeaderLeft \/ AtOpenEnd

(* To those who call it as the kernel does, the allocator is a set of free    *)
(* pages.  A pool is theirs when the search has found it: the pages that the *)
(* loop of pmm_lock_pages has not reached yet are no longer free.  A page    *)
(* pmm_free_page works on is on its way back until a free section holds it.  *)
(* On the machines of WholeApi any caller unlocks what others own, which no  *)
(* specification of ownership survives: they are mapped to the boot state.   *)
FreePages == UNION {SectionPages(s) : s \in FreeSections}
Claimed   == UNION {Pages(r) : r \in claim}
AsKernel  == boot \notin WholeApi
DataRun   == [kind |-> "data", base |-> boot.data.base, pages |-> boot.data.pages]

Asked ==
    CASE pc = "alloc_page" -> {[kind |-> "page", pages |-> 1]}
      [] pc = "alloc_pool" -> {[kind |-> "pool", pages |-> run.left]}
      [] OTHER -> {}

PageSet == INSTANCE PageSet WITH
    Sizes     <- 0 .. MaxRequest,
    ram       <- BootFree(boot),
    free      <- IF AsKernel THEN FreePages \ Claimed ELSE BootFree(boot) \ Pages(DataRun),
    held      <- IF AsKernel THEN held \cup claim ELSE {DataRun},
    asked     <- IF AsKernel THEN Asked ELSE {},
    returning <- IF AsKernel /\ pc = "free_page" THEN {run.base} \ FreePages ELSE {},
    stopped   <- AsKernel /\ pc = "halted"

(* pmm_alloc_page and pmm_alloc_pool hand out free pages only, never a page  *)
(* somebody owns, and refuse only when no page, or no run of that length, is *)
(* free, or stop the machine without an answer.  Nothing that happens inside  *)
(* a call, a split, a merge or a pass of pmm_recombine, changes which pages   *)
(* are free, and a page becomes free only when its owner frees it.           *)
ImplementsPageSet == PageSet!Spec

(* Every call returns or halts the machine: the scans that split and merge  *)
(* the list they walk, and pmm_recombine's passes, come to an end.          *)
CallsReturn == (pc \notin {"idle", "halted"}) ~> (pc \in {"idle", "halted"})

(* kb_man.c:12-13 says that its buffer is freed: once pmm_free_page is done  *)
(* with a page, the page is free.                                          *)
FreedPageIsFree ==
    [][(pc = "free_page" /\ pc' = "idle")
         => \E s \in FreeSections' : run.base \in SectionPages(s)']_vars
=============================================================================
