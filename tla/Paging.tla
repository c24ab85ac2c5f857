------------------------------- MODULE Paging -------------------------------
(***************************************************************************)
(* The page tables: mem/paging/paging.c, the kernel's tables of reload.c,  *)
(* the tables of a task (proc/task/task.c) and the system calls that change*)
(* them (pmap.c, punmap.c, fb_req.c, kb_man.c).                            *)
(*                                                                         *)
(* Addresses are page numbers.  A physical page is a frame; the kernel     *)
(* reaches a table at its frame's own number.  There are four levels, as   *)
(* in the processor, with fewer entries each (Width).  A table maps the    *)
(* indices of its entries that are not 0 to the entry.                     *)
(*                                                                         *)
(* pmm_alloc_page is its abstraction: it gives the lowest free frame.  The *)
(* code does not look whether it got one, so an operation is begun only    *)
(* with as many frames free as it may need: Room for a task, and a page    *)
(* and three tables (Enough) for the others.                               *)
(***************************************************************************)
EXTENDS Naturals, SequencesExt, Bitwise

CONSTANTS
    Width,        \* entries of a table at each of the four levels
    VIRTUAL_OFFSET, \* PAGING_VIRTUAL_OFFSET
    KernelAt,     \* where the kernel's image is linked
    HeapAt,       \* where malloc's heap begins
    MaxHeap,      \* bound: pages of the heap
    Memory,       \* frames of the memory map that are not MEMORY_MAP_NOUSE
    Image, Ist,   \* frames of the kernel and of the interrupt stacks
    Screen,       \* frames of the framebuffer
    Segments,     \* per task: page its program is linked at |-> frame it was put
    FreeAtBoot,
    Tasks,
    Named,        \* pages that programs name to pmap and punmap
    Room          \* bound: free frames that task_create_new is begun with

NULL == 0
Virtual == 0 .. Width[1] * Width[2] * Width[3] * Width[4] - 1

PagingAssumption ==
    /\ Width \in [1 .. 4 -> Nat \ {0}]
    /\ Memory \subseteq Virtual \ {NULL}
    /\ \A v \in Memory \cup Screen : v + VIRTUAL_OFFSET \in Virtual
    /\ FreeAtBoot \cup Screen \cup Ist \subseteq Memory
    /\ FreeAtBoot \cap (Image \cup Screen \cup Ist) = {}
ASSUME PagingAssumption

Frame  == Memory \cup {NULL}
Kernel == "kernel"
Nobody == "nobody"

PAGING_FLAGS_KERNEL_PAGE == {"present", "write"}
PAGING_FLAGS_USER_PAGE   == {"present", "write", "user"}
PAGING_FLAGS_MMIO_PAGE   == {"present", "write", "nocache"}

VARIABLES
    m,        \* all tables, and the free frames
    pml4,     \* root of the kernel's tables and of each task's, NULL for none
    heap_end, \* heap_end, HeapAt before the first malloc
    current_fb_holder_pid,
    current_buffer,  \* the task that has the keyboard and its page, or <<>>
    asked     \* ghost: per space and page, the frames it was asked to translate the
              \* page to since it was unmapped, and the flags of the last request

vars == <<m, pml4, heap_end, current_fb_holder_pid, current_buffer, asked>>

-----------------------------------------------------------------------------
(* paging_indexer_assign *)
Index(v, level) ==
    CASE level = 1 -> v \div (Width[2] * Width[3] * Width[4])
      [] level = 2 -> (v \div (Width[3] * Width[4])) % Width[2]
      [] level = 3 -> (v \div Width[4]) % Width[3]
      [] level = 4 -> v % Width[4]

ZeroEntry == [addr |-> NULL, flags |-> {}]
Entry(s, table, i) ==
    IF i \in DOMAIN s.tables[table] THEN s.tables[table][i] ELSE ZeroEntry
Enter(s, table, i, entry) ==
    [s EXCEPT !.tables[table] = (i :> entry) @@ @]

LowestFree(s) == Min(s.free)

RECURSIVE paging_map_page(_, _, _, _, _)

(* One level down from `table': the table there, made if there is none, and  *)
(* then mapped at its own frame's number.                                    *)
\* Mutant: the new table is not mapped.
DescendUnmapped(s, root, table, i, flags) ==
    LET old == Entry(s, table, i)
        new == LowestFree(s)
    IN  IF "present" \in old.flags
        THEN [s |-> Enter(s, table, i, [old EXCEPT !.flags = @ \cup flags]), table |-> old.addr]
        ELSE [s |-> Enter([s EXCEPT !.free = @ \ {new}, !.tables[new] = <<>>],
                          table, i, [addr |-> new, flags |-> {"present"} \cup flags]),
              table |-> new]

Descend(s, root, table, i, flags) ==
    LET old == Entry(s, table, i)
        new == LowestFree(s)
        with == Enter([s EXCEPT !.free = @ \ {new}, !.tables[new] = <<>>], table, i,
                      [addr |-> old.addr | new, flags |-> old.flags \cup {"present"} \cup flags])
    IN  IF "present" \in old.flags
        THEN [s |-> Enter(s, table, i, [old EXCEPT !.flags = @ \cup flags]), table |-> old.addr]
        ELSE [s |-> paging_map_page(with, root, new, new, PAGING_FLAGS_KERNEL_PAGE), table |-> new]

(* The address is or'ed into the entry, the flags replace those it had. *)
paging_map_page(s, root, virt, phys, flags) ==
    LET pdp == Descend(s, root, root, Index(virt, 1), flags)
        pd  == Descend(pdp.s, root, pdp.table, Index(virt, 2), flags)
        pt  == Descend(pd.s, root, pd.table, Index(virt, 3), flags)
        i   == Index(virt, 4)
    IN  Enter(pt.s, pt.table, i,
              [addr |-> Entry(pt.s, pt.table, i).addr | phys, flags |-> flags])

Below(s, table, i) ==
    LET e == Entry(s, table, i) IN IF "present" \in e.flags THEN e.addr ELSE NULL

(* The last of the tables that lead to virt, or NULL. *)
PageTable(s, root, virt) ==
    LET pdp == Below(s, root, Index(virt, 1))
        pd  == IF pdp = NULL THEN NULL ELSE Below(s, pdp, Index(virt, 2))
    IN  IF pd = NULL THEN NULL ELSE Below(s, pd, Index(virt, 3))

Leaf(s, root, virt) ==
    LET pt == PageTable(s, root, virt)
    IN  IF pt = NULL THEN ZeroEntry ELSE Entry(s, pt, Index(virt, 4))

paging_walk_page(s, root, virt) == Leaf(s, root, virt).addr

paging_unmap_page(s, root, virt) ==
    LET pt == PageTable(s, root, virt)
        i  == Index(virt, 4)
    IN  IF pt = NULL THEN s
        ELSE [s EXCEPT !.tables[pt] = [j \in DOMAIN @ \ {i} |-> @[j]]]

paging_remap_page(s, root, old, new) ==
    LET e == Leaf(s, root, old)
    IN  IF PageTable(s, root, old) = NULL THEN s
        ELSE paging_map_page(paging_unmap_page(s, root, old), root, new, e.addr, e.flags)

(* paging_edit_page of a page that is mapped. *)
paging_edit_page(s, root, virt, flags) ==
    LET AddFlags(r, level) ==
            LET e == Entry(r.s, r.table, Index(virt, level))
            IN  [s |-> Enter(r.s, r.table, Index(virt, level), [e EXCEPT !.flags = @ \cup flags]),
                 table |-> e.addr]
        pt == FoldLeft(AddFlags, [s |-> s, table |-> root], <<1, 2, 3>>)
        i  == Index(virt, 4)
    IN  Enter(pt.s, pt.table, i, [addr |-> Entry(pt.s, pt.table, i).addr, flags |-> flags])

(* A request is what one call of paging_map_page is given. *)
Request(virt, phys, flags) == [virt |-> virt, addr |-> phys, flags |-> flags]
RECURSIVE MapAll(_, _, _)
MapAll(s, root, requests) ==
    IF requests = <<>> \/ s.free = {} THEN s
    ELSE LET q == Head(requests)
         IN  MapAll(paging_map_page(s, root, q.virt, q.addr, q.flags), root, Tail(requests))

(* What a space was asked, after these requests. *)
Ask(translation, requests) ==
    LET Of(v)     == SelectSeq(requests, LAMBDA q : q.virt = v)
        Before(v) == IF v \in DOMAIN translation THEN translation[v].frames ELSE {}
    IN  [v \in {q.virt : q \in ToSet(requests)} |->
            [frames |-> Before(v) \cup {q.addr : q \in ToSet(Of(v))},
             flags  |-> Last(Of(v)).flags]] @@ translation
Forget(translation, pages) ==
    [v \in DOMAIN translation \ pages |-> translation[v]]

-----------------------------------------------------------------------------
(* paging_reload_kernel_map: all of the memory map twice, then the image. *)
Ascending(frames) ==
    [i \in 1 .. Cardinality(frames) |->
        CHOOSE f \in frames : Cardinality({g \in frames : g < f}) = i - 1]
KernelMap ==
    LET at == Ascending(Memory)
    IN  FlattenSeq([i \in DOMAIN at |->
            <<Request(at[i], at[i], PAGING_FLAGS_KERNEL_PAGE),
              Request(at[i] + VIRTUAL_OFFSET, at[i], PAGING_FLAGS_KERNEL_PAGE)>>])
ImageMap ==
    LET at == Ascending(Image)
    IN  [i \in DOMAIN at |-> Request(KernelAt + i - 1, at[i], PAGING_FLAGS_KERNEL_PAGE)]

Enough == Cardinality(m.free) >= 4

Init ==
    LET root == Min(FreeAtBoot)
        empty == [tables |-> [f \in Frame |-> <<>>], free |-> FreeAtBoot \ {root}]
    IN  /\ m = MapAll(empty, root, KernelMap \o ImageMap)
        /\ pml4 = [s \in Tasks \cup {Kernel} |-> IF s = Kernel THEN root ELSE NULL]
        /\ asked = [s \in Tasks \cup {Kernel} |->
                        IF s = Kernel THEN Ask(<<>>, KernelMap \o ImageMap) ELSE <<>>]
        /\ heap_end = HeapAt
        /\ current_fb_holder_pid = Nobody
        /\ current_buffer = <<>>

(* A space is asked for these mappings, with the frames of s still free. *)
Maps(space, s, requests) ==
    /\ m' = MapAll(s, pml4[space], requests)
    /\ asked' = [asked EXCEPT ![space] = Ask(@, requests)]

Take(frame) == [m EXCEPT !.free = @ \ {frame}]

(* heap_initialize and heap_expand, a page of them. *)
heap_expand ==
    /\ Enough /\ heap_end < HeapAt + MaxHeap
    /\ Maps(Kernel, Take(LowestFree(m)),
            <<Request(heap_end, LowestFree(m), PAGING_FLAGS_KERNEL_PAGE)>>)
    /\ heap_end' = heap_end + 1
    /\ UNCHANGED <<pml4, current_fb_holder_pid, current_buffer>>

(* task_create_new: a page for gs, the stack, and task_new_page_table.  The  *)
(* context is in the heap's first page; the table under construction is the  *)
(* one that is asked for its frame.                                          *)
Context == HeapAt
SegmentMap(task) ==
    LET at == Ascending(DOMAIN Segments[task])
    IN  [i \in DOMAIN at |-> Request(at[i], Segments[task][at[i]], PAGING_FLAGS_USER_PAGE)]
IdentityMap(frames, flags) ==
    LET f == Ascending(frames) IN [i \in DOMAIN f |-> Request(f[i], f[i], flags)]

\* Mutant: the task's table begins as a copy of the kernel's.
StartOfKernelTable == m.tables[pml4[Kernel]]
StartOfTaskTable ==
    <<>>

task_create_new(task) ==
    LET gs    == LowestFree(m)
        stack == Min(m.free \ {gs})
        root  == Min(m.free \ {gs, stack})
        start == [tables |-> [m.tables EXCEPT ![root] = StartOfTaskTable],
                  free |-> m.free \ {gs, stack, root}]
        early == ImageMap \o SegmentMap(task) \o IdentityMap({stack}, PAGING_FLAGS_USER_PAGE)
                 \o IdentityMap(Ist, PAGING_FLAGS_KERNEL_PAGE)
        late  == <<Request(Context, paging_walk_page(MapAll(start, root, early), root, Context),
                           PAGING_FLAGS_KERNEL_PAGE)>>
                 \o IdentityMap({root}, PAGING_FLAGS_KERNEL_PAGE)
                 \o IdentityMap({gs}, PAGING_FLAGS_KERNEL_PAGE)
    IN  /\ Cardinality(m.free) >= Room /\ heap_end > HeapAt /\ pml4[task] = NULL
        /\ m' = MapAll(start, root, early \o late)
        /\ pml4' = [pml4 EXCEPT ![task] = root]
        /\ asked' = [asked EXCEPT ![task] = Ask(<<>>, early \o late)]
        /\ UNCHANGED <<heap_end, current_fb_holder_pid, current_buffer>>

-----------------------------------------------------------------------------
(* The system calls of a task.  All tasks are created before task_select.     *)
Running == (\A t \in Tasks : pml4[t] # NULL) /\ Enough

PmapAt(virt) == IF virt = NULL THEN LowestFree(m) ELSE virt

(* pmap of the page the program names, whatever that is, or of               *)
(* PMAP_VIRT_DEFAULT.                                                        *)
pmap(task, virt) ==
    LET phys == LowestFree(m)
    IN  /\ Running
        /\ Maps(task, Take(phys), <<Request(PmapAt(virt), phys, PAGING_FLAGS_USER_PAGE)>>)
        /\ UNCHANGED <<pml4, heap_end, current_fb_holder_pid, current_buffer>>

(* punmap works on the kernel's tables, and maps there what it found, be that *)
(* NULL.  A kernel that lost a page of its own dies when it next uses it; it  *)
(* goes on here, which only adds to what may happen.                         *)
punmap(virt) ==
    LET phys == paging_walk_page(m, pml4[Kernel], virt)
        back == <<Request(phys, phys, PAGING_FLAGS_KERNEL_PAGE)>>
    IN  /\ Running /\ virt # NULL
        /\ m' = MapAll(paging_unmap_page(m, pml4[Kernel], virt), pml4[Kernel], back)
        /\ asked' = [asked EXCEPT ![Kernel] = Ask(Forget(@, {virt}), back)]
        /\ UNCHANGED <<pml4, heap_end, current_fb_holder_pid, current_buffer>>

ScreenMap ==
    LET f == Ascending(Screen)
    IN  [i \in DOMAIN f |-> Request(f[i] + VIRTUAL_OFFSET, f[i], PAGING_FLAGS_USER_PAGE)]
ScreenPages == {q.virt : q \in ToSet(ScreenMap)}
UnmapAll(s, root, pages) ==
    FoldSet(LAMBDA v, r : paging_unmap_page(r, root, v), s, pages)

fb_req(task) ==
    /\ Running /\ current_fb_holder_pid = Nobody
    /\ current_fb_holder_pid' = task
    /\ Maps(task, m, ScreenMap)
    /\ UNCHANGED <<pml4, heap_end, current_buffer>>

fb_kill(task) ==
    /\ Running /\ current_fb_holder_pid # Nobody
    /\ current_fb_holder_pid' = Nobody
    /\ m' = UnmapAll(m, pml4[task], ScreenPages)
    /\ asked' = [asked EXCEPT ![task] = Forget(@, ScreenPages)]
    /\ UNCHANGED <<pml4, heap_end, current_buffer>>

kb_man_takes(task) ==
    LET page == LowestFree(m)
    IN  /\ Running /\ current_buffer = <<>>
        /\ current_buffer' = <<task, page>>
        /\ Maps(task, Take(page), <<Request(page, page, PAGING_FLAGS_USER_PAGE)>>)
        /\ UNCHANGED <<pml4, heap_end, current_fb_holder_pid>>

(* kb_man gives the page back: pmm_free_page frees it or, in the middle of a *)
(* used section, does not.                                                   *)
\* Mutant: the page stays mapped.
kb_man_releases_only(task) ==
    LET page == current_buffer[2]
    IN  /\ Running /\ current_buffer # <<>> /\ current_buffer[1] = task
        /\ current_buffer' = <<>>
        /\ \E freed \in {{}, {page}} : m' = [m EXCEPT !.free = @ \cup freed]
        /\ UNCHANGED <<pml4, heap_end, current_fb_holder_pid, asked>>

kb_man_releases(task) ==
    LET page == current_buffer[2]
    IN  /\ Running /\ current_buffer # <<>> /\ current_buffer[1] = task
        /\ current_buffer' = <<>>
        /\ \E freed \in {{}, {page}} :
               m' = paging_unmap_page([m EXCEPT !.free = @ \cup freed], pml4[task], page)
        /\ asked' = [asked EXCEPT ![task] = Forget(@, {page})]
        /\ UNCHANGED <<pml4, heap_end, current_fb_holder_pid>>

-----------------------------------------------------------------------------
(* The rest of paging.h, which nothing in the kernel calls: the last page of *)
(* the heap moved behind its end, and one of its pages made uncached.        *)
remap ==
    /\ Enough /\ heap_end > HeapAt + 1 /\ heap_end < HeapAt + MaxHeap
    /\ heap_end - 1 \in DOMAIN asked[Kernel]
    /\ m' = paging_remap_page(m, pml4[Kernel], heap_end - 1, heap_end)
    /\ asked' = [asked EXCEPT ![Kernel] =
                    (heap_end :> @[heap_end - 1]) @@ Forget(@, {heap_end - 1})]
    /\ heap_end' = heap_end + 1
    /\ UNCHANGED <<pml4, current_fb_holder_pid, current_buffer>>

edit ==
    /\ heap_end > HeapAt /\ heap_end - 1 \in DOMAIN asked[Kernel]
    /\ m' = paging_edit_page(m, pml4[Kernel], heap_end - 1, PAGING_FLAGS_MMIO_PAGE)
    /\ asked' = [asked EXCEPT ![Kernel][heap_end - 1].flags = PAGING_FLAGS_MMIO_PAGE]
    /\ UNCHANGED <<pml4, heap_end, current_fb_holder_pid, current_buffer>>

Next ==
    \/ heap_expand
    \/ \E task \in Tasks :
         \/ task_create_new(task)
         \/ \E virt \in Named \cup {NULL} : pmap(task, virt)
         \/ fb_req(task)
         \/ fb_kill(task)
         \/ kb_man_takes(task)
         \/ kb_man_releases(task)
    \/ \E virt \in Named : punmap(virt)
    \/ remap
    \/ edit

Spec == Init /\ [][Next]_vars

-----------------------------------------------------------------------------
Spaces == {s \in DOMAIN pml4 : pml4[s] # NULL}
Roots  == {pml4[s] : s \in Spaces}
EntriesOf(tables) == UNION {{<<f, i>> : i \in DOMAIN m.tables[f]} : f \in tables}
Under(tables) == {m.tables[e[1]][e[2]].addr : e \in EntriesOf(tables)}
TablesUnder(roots) ==
    LET pdps == Under(roots)
        pds  == Under(pdps)
    IN  pdps \cup pds \cup Under(pds)

(* The pages that have an entry at the last level, by the ways down to them. *)
Translated(root) ==
    LET In(f)     == DOMAIN m.tables[f]
        To(f, i)  == m.tables[f][i].addr
        Page(way) == ((way[1] * Width[2] + way[2]) * Width[3] + way[3]) * Width[4] + way[4]
        Ways ==
            UNION {UNION {UNION {{<<i, j, k, l>> : l \in In(To(To(To(root, i), j), k))} :
                k \in In(To(To(root, i), j))} : j \in In(To(root, i))} : i \in In(root)}
    IN  {Page(way) : way \in Ways}

(* The program reaches virt: every level has the user's flag. *)
Reaches(task, virt) ==
    LET pdp == Below(m, pml4[task], Index(virt, 1))
        pd  == Below(m, pdp, Index(virt, 2))
    IN  /\ PageTable(m, pml4[task], virt) # NULL
        /\ "user" \in Entry(m, pml4[task], Index(virt, 1)).flags
                        \cap Entry(m, pdp, Index(virt, 2)).flags
                        \cap Entry(m, pd, Index(virt, 3)).flags
                        \cap Leaf(m, pml4[task], virt).flags

TypeOK ==
    /\ m.free \subseteq FreeAtBoot
    /\ DOMAIN m.tables = Frame
    /\ \A f \in Frame : \A i \in DOMAIN m.tables[f] :
           /\ i \in 0 .. Width[4] - 1
           /\ m.tables[f][i].addr \in Virtual
           /\ m.tables[f][i].flags \subseteq PAGING_FLAGS_USER_PAGE \cup PAGING_FLAGS_MMIO_PAGE
    /\ pml4 \in [Tasks \cup {Kernel} -> Frame]
    /\ heap_end \in HeapAt .. HeapAt + MaxHeap
    /\ current_fb_holder_pid \in Tasks \cup {Nobody}
    /\ current_buffer = <<>> \/ current_buffer \in Tasks \X Frame

(* paging.c makes a table while it enters another one, and takes its memory  *)
(* from the allocator that its own mapping may call again.  Still the tables *)
(* of all spaces are trees that share nothing, and none of them is free,     *)
(* whatever pages the programs name: pmap and punmap change what the last    *)
(* level says of a page, over a table's own page too, and no table.          *)
TablesAreTrees ==
    LET below == TablesUnder(Roots)
        pdps  == Under(Roots)
    IN  /\ Cardinality(EntriesOf(Roots \cup pdps \cup Under(pdps))) = Cardinality(below)
        /\ below \cap Roots = {}
        /\ (below \cup Roots) \subseteq FreeAtBoot \ m.free

(* What a space was asked to translate, and its own tables, which             *)
(* paging_map_page maps itself.                                              *)
Wanted(s) ==
    LET own == TablesUnder({pml4[s]})
        Frames(v) == IF v \in DOMAIN asked[s] THEN asked[s][v].frames ELSE {}
    IN  [v \in DOMAIN asked[s] \cup own |->
            [frames |-> Frames(v) \cup (own \cap {v}),
             flags |-> IF v \in DOMAIN asked[s] THEN asked[s][v].flags
                       ELSE PAGING_FLAGS_KERNEL_PAGE]]

(* The pages that were asked for with one frame only since they were unmapped. *)
Once(wanted) == {v \in DOMAIN wanted : Cardinality(wanted[v].frames) = 1}

(* Every space translates what it was asked to, and its own tables, and      *)
(* nothing else, with exactly the flags of the last request: a mapping, or   *)
(* the tables made for it, never disturbs another one (paging_map_page,      *)
(* paging_unmap_page, paging_remap_page, paging_edit_page).  Nothing is said  *)
(* of a page that was asked for again with another frame before it was       *)
(* unmapped: paging.c:63 makes one address of both.                          *)
AskedIsTranslated ==
    \A s \in Spaces :
        LET wanted == Wanted(s)
        IN  /\ \A v \in Once(wanted) : Leaf(m, pml4[s], v) \in
                 [addr : wanted[v].frames, flags : {wanted[v].flags}]
            /\ Translated(pml4[s]) = DOMAIN wanted

(* What a program got for a page it asked for once is its own: not a table,   *)
(* not a free page, nothing of the kernel's, and nothing that another program *)
(* got so, the framebuffer apart.  And it reaches no other page than those it *)
(* got, but those that were asked for again with another frame: pmap does not *)
(* look whether there is something at the page it is given (pmap.c:20).      *)
ProgramsApart ==
    LET heap == UNION {asked[Kernel][v].frames : v \in DOMAIN asked[Kernel] \cap (HeapAt .. heap_end)}
        others == m.free \cup Roots \cup TablesUnder(Roots) \cup Image \cup Ist \cup heap
        User(wanted) == {v \in Once(wanted) : "user" \in wanted[v].flags}
        got == [t \in Spaces \ {Kernel} |->
                  LET wanted == Wanted(t) IN {Leaf(m, pml4[t], v).addr : v \in User(wanted)}]
    IN  \A t \in Spaces \ {Kernel} :
            /\ LET wanted == Wanted(t)
               IN  {v \in Translated(pml4[t]) : Reaches(t, v)} \ (DOMAIN wanted \ Once(wanted))
                       = User(wanted)
            /\ got[t] \cap others = {}
            /\ \A u \in Spaces \ {Kernel, t} : got[t] \cap got[u] \subseteq Screen

=============================================================================
