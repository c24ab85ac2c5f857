------------------------------ MODULE PageSet ------------------------------
(***************************************************************************)
(* What the page allocator promises the kernel (src/kernel/src/mem/pmm/     *)
(* pmm.h): a set of free pages, and the runs of pages its callers hold.     *)
(* There are no sections here, no headers and no scans.                    *)
(*                                                                         *)
(* A call for pages is answered in one step.  It is refused only when       *)
(* nothing fits.  A page that is handed back becomes free again some time   *)
(* later, or never.  And the allocator may stop the machine for good instead *)
(* of answering: what it has when it needs a header more than there are.     *)
(* Module Pmm implements this specification, see Pmm!ImplementsPageSet.      *)
(***************************************************************************)
EXTENDS Integers

CONSTANT
    Sizes      \* the sizes asked of pmm_alloc_pool

VARIABLES
    ram,       \* the pages the boot's memory map calls free
    free,      \* the pages that may be handed out
    held,      \* the runs of pages callers own: [kind, base, pages]
    asked,     \* the call that is not answered yet, a set of at most one
    returning, \* the pages handed back that are neither free nor owned
    stopped    \* the machine has stopped inside the allocator

vars == <<ram, free, held, asked, returning, stopped>>

Pages(r) == r.base .. r.base + r.pages - 1
Request  == [kind : {"page"}, pages : {1}] \cup [kind : {"pool"}, pages : Sizes]
Idle     == asked = {} /\ returning = {} /\ ~stopped

(* The allocator itself owns the pages of its headers. *)
Init ==
    /\ \E r \in held :
         /\ r.kind = "data"
         /\ held = {r}
         /\ Pages(r) \subseteq ram
         /\ free = ram \ Pages(r)
    /\ asked = {}
    /\ returning = {}
    /\ stopped = FALSE

ask ==
    /\ Idle
    /\ \E r \in Request : asked' = {r}
    /\ UNCHANGED <<ram, free, held, returning, stopped>>

(* The caller owns a run of free pages of the size it asked for. *)
grant ==
    /\ \E r \in held', q \in asked :
         /\ r.kind = q.kind /\ r.pages = q.pages
         /\ Pages(r) \subseteq free
         /\ free' = free \ Pages(r)
         /\ held' = held \cup {r}
    /\ asked' = {}
    /\ UNCHANGED <<ram, returning, stopped>>

(* NULL: no run of that many pages is free. *)
refuse ==
    /\ \E q \in asked : ~ \E base \in free : base .. base + q.pages - 1 \subseteq free
    /\ asked' = {}
    /\ UNCHANGED <<ram, free, held, returning, stopped>>

(* pmm_free_page of a page that came from pmm_alloc_page. *)
hand_back ==
    /\ Idle
    /\ \E r \in held :
         /\ r.kind = "page"
         /\ held' = held \ {r}
         /\ returning' = Pages(r)
    /\ UNCHANGED <<ram, free, asked, stopped>>

becomes_free ==
    /\ returning # {}
    /\ free' = free \cup returning
    /\ returning' = {}
    /\ UNCHANGED <<ram, held, asked, stopped>>

forgotten ==
    /\ returning # {}
    /\ returning' = {}
    /\ UNCHANGED <<ram, free, held, asked, stopped>>

(* Whatever was going on stays undone, and nothing happens ever after.       *)
stops ==
    /\ ~stopped
    /\ stopped' = TRUE
    /\ asked' = {}
    /\ returning' = {}
    /\ UNCHANGED <<ram, free, held>>

Next == ask \/ grant \/ refuse \/ hand_back \/ becomes_free \/ forgotten \/ stops
Spec == Init /\ [][Next]_vars

-----------------------------------------------------------------------------
(* No page has two owners, no page that is owned or on its way back is      *)
(* free, and memory the boot map keeps is neither free nor owned.           *)
OwnedApart ==
    /\ free \cup returning \subseteq ram
    /\ free \cap returning = {}
    /\ \A r \in held :
         /\ Pages(r) \subseteq ram
         /\ Pages(r) \cap (free \cup returning) = {}
         /\ \A s \in held : r # s => Pages(r) \cap Pages(s) = {}
=============================================================================
