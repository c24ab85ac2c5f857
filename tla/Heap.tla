-------------------------------- MODULE Heap --------------------------------
(***************************************************************************)
(* The heap of the kernel, src/kernel/src/mem/heap/allocator.c: a list of  *)
(* segments, each behind its header, that malloc searches first fit, splits *)
(* and grows by pages, and that free merges again.                         *)
(*                                                                         *)
(* Addresses and lengths are counted in units of 0x10 bytes, to which       *)
(* malloc rounds every request, from heap_start on.  A segment is known by  *)
(* the address of its header, and hdr maps the headers of the list; a       *)
(* header that was merged away is no longer in it.  One action is one       *)
(* iteration of malloc's loop, whose cursor is `current', or one of the     *)
(* functions malloc and realloc call.                                      *)
(*                                                                         *)
(* The first caller is pmm_alloc_pool, which clears a whole page from its   *)
(* new pool node on (pfa.c:249): the header behind the node is wiped.      *)
(***************************************************************************)
EXTENDS Integers

CONSTANTS
    PageUnits, \* units in a page, 256 in the kernel
    InitPages, \* pages of heap_initialize, 256 in the kernel
    Sizes,     \* sizes asked of malloc
    NodeSize,  \* units of a pmm_pool_t
    MaxEnd     \* bound: where heap_end may get

NULL   == -1
HDR    == 2    \* sizeof(heap_seg_header_t)
MINLEN == 1    \* the least length header_split leaves or makes

HeapAssumption ==
    /\ PageUnits \in Nat /\ PageUnits > HDR
    /\ InitPages \in Nat /\ InitPages > 1
    /\ Sizes \subseteq Nat \ {0}
    /\ NodeSize \in Nat \ {0}
    /\ NodeSize + HDR < PageUnits
    /\ MaxEnd \in Nat
ASSUME HeapAssumption

Addr  == 0 .. MaxEnd
AddrP == Addr \cup {NULL}
heap_seg_header_t == [length : Nat, next : AddrP, last : AddrP, free : BOOLEAN]

VARIABLES
    hdr,         \* the headers of the list
    heap_end,
    last_header,
    pc,          \* "idle", "malloc", "expand" or "free"
    current,     \* malloc's cursor
    size,        \* what malloc was asked for
    caller,      \* what its caller does next, see Caller
    blocks,      \* ghost: the size asked for of each segment handed out
    lost         \* ghost: the header the first pool node wiped, or NULL

vars == <<hdr, heap_end, last_header, pc, current, size, caller, blocks, lost>>

-----------------------------------------------------------------------------
(* The list: header_split and header_combine_forward.                      *)

EndOf(s) == s + HDR + hdr[s].length

Splits(s, n) == n >= MINLEN /\ hdr[s].length - n - HDR >= MINLEN

\* Mutant: the new header lies where the segment's memory ends, but for the
\* room its own header takes.
SplitForgetsHeader(s, n) ==
    LET new == s + n
        nxt == hdr[s].next
    IN  [t \in DOMAIN hdr \cup {new} |->
            IF t = s THEN [hdr[s] EXCEPT !.length = n, !.next = new, !.free = FALSE]
            ELSE IF t = new
            THEN [length |-> hdr[s].length - n - HDR, next |-> nxt, last |-> s,
                  free |-> hdr[s].free]
            ELSE IF t = nxt THEN [hdr[t] EXCEPT !.last = new]
            ELSE hdr[t]]

\* Mutant: the segment behind keeps its back link.
SplitKeepsBackLink(s, n) ==
    LET new == s + n + HDR
    IN  [t \in DOMAIN hdr \cup {new} |->
            IF t = s THEN [hdr[s] EXCEPT !.length = n, !.next = new, !.free = FALSE]
            ELSE IF t = new
            THEN [length |-> hdr[s].length - n - HDR, next |-> hdr[s].next, last |-> s,
                  free |-> hdr[s].free]
            ELSE hdr[t]]

(* The headers after header_split(s, n), with s no longer free. *)
SplitAndTake(s, n) ==
    LET new == s + n + HDR
        nxt == hdr[s].next
    IN  [t \in DOMAIN hdr \cup {new} |->
            IF t = s THEN [hdr[s] EXCEPT !.length = n, !.next = new, !.free = FALSE]
            ELSE IF t = new
            THEN [length |-> hdr[s].length - n - HDR, next |-> nxt, last |-> s,
                  free |-> hdr[s].free]
            ELSE IF t = nxt THEN [hdr[t] EXCEPT !.last = new]
            ELSE hdr[t]]

(* A heap is [h, last]: its headers and last_header. *)
header_combine_forward(heap, s) ==
    LET n == heap.h[s].next
    IN  IF n = NULL THEN heap
        ELSE IF ~heap.h[n].free THEN heap
        ELSE [h |-> [t \in DOMAIN heap.h \ {n} |->
                        IF t = s
                        THEN [heap.h[s] EXCEPT !.length = @ + heap.h[n].length + HDR,
                                               !.next = heap.h[n].next]
                        ELSE IF t = heap.h[n].next THEN [heap.h[t] EXCEPT !.last = s]
                        ELSE heap.h[t]],
              last |-> IF n = heap.last THEN s ELSE heap.last]

header_combine_backward(heap, s) ==
    IF heap.h[s].last = NULL THEN heap
    ELSE IF ~heap.h[heap.h[s].last].free THEN heap
    ELSE header_combine_forward(heap, heap.h[s].last)

SetHeap(heap) == hdr' = heap.h /\ last_header' = heap.last

-----------------------------------------------------------------------------
(* malloc(size) *)

(* After malloc: return to any caller, clear the pool node, or copy and      *)
(* free the old segment of a realloc, which is then the caller.            *)
AnyCaller  == -1
PoolCaller == -2
Caller     == {AnyCaller, PoolCaller} \cup Addr

StartMalloc(n, who) ==
    /\ pc' = "malloc"
    /\ current' = 0
    /\ size' = n
    /\ caller' = who
    /\ UNCHANGED <<hdr, heap_end, last_header, blocks, lost>>

RoundToPage(n) == ((n + PageUnits - 1) \div PageUnits) * PageUnits

(* Bound: the call finds room to grow, twice if need be. *)
Room(n) == heap_end + 2 * RoundToPage(n) <= MaxEnd

(* The first call of all: tss_add_stack asks for a pool. *)
pool_node_call ==
    /\ pc = "idle"
    /\ lost = NULL
    /\ StartMalloc(NodeSize, PoolCaller)

malloc_call ==
    /\ pc = "idle"
    /\ lost # NULL
    /\ \E n \in Sizes : Room(n) /\ StartMalloc(n, AnyCaller)

(* realloc of a block that was not made for the pools. *)
realloc_call ==
    /\ pc = "idle"
    /\ \E s \in DOMAIN blocks \ {0}, n \in Sizes : Room(n) /\ StartMalloc(n, s)

(* What the caller does with the new segment s. *)
Deliver(s, heads) ==
    /\ current' = NULL
    /\ IF caller = PoolCaller
       THEN LET wiped == {t \in DOMAIN heads : s + HDR <= t /\ t < s + HDR + PageUnits}
            IN  /\ hdr' = [t \in DOMAIN heads |->
                             IF t \in wiped
                             THEN [length |-> 0, next |-> NULL, last |-> NULL, free |-> FALSE]
                             ELSE heads[t]]
                /\ lost' \in wiped
       ELSE hdr' = heads /\ UNCHANGED lost
    /\ IF caller \in Addr
       THEN pc' = "free" /\ UNCHANGED caller
       ELSE pc' = "idle" /\ caller' = AnyCaller
    /\ blocks' = [t \in DOMAIN blocks \cup {s} |-> IF t = s THEN size ELSE blocks[t]]
    /\ size' = 0
    /\ UNCHANGED heap_end

malloc_splits ==
    /\ pc = "malloc"
    /\ hdr[current].free
    /\ hdr[current].length > size
    /\ Splits(current, size)
    /\ last_header' = IF last_header = current THEN current + size + HDR ELSE last_header
    /\ Deliver(current, SplitAndTake(current, size))

malloc_takes_whole ==
    /\ pc = "malloc"
    /\ hdr[current].free
    /\ \/ hdr[current].length = size
       \/ hdr[current].length > size /\ ~Splits(current, size)
    /\ UNCHANGED last_header
    /\ Deliver(current, [hdr EXCEPT ![current].free = FALSE])

\* Mutant: malloc calls itself without heap_expand.
malloc_starts_again ==
    /\ pc = "malloc"
    /\ ~(hdr[current].free /\ hdr[current].length >= size)
    /\ current' = IF hdr[current].next = NULL THEN 0 ELSE hdr[current].next
    /\ UNCHANGED <<hdr, heap_end, last_header, pc, size, caller, blocks, lost>>

malloc_goes_on ==
    /\ pc = "malloc"
    /\ ~(hdr[current].free /\ hdr[current].length >= size)
    /\ IF hdr[current].next = NULL
       THEN pc' = "expand" /\ current' = NULL
       ELSE current' = hdr[current].next /\ UNCHANGED pc
    /\ UNCHANGED <<hdr, heap_end, last_header, size, caller, blocks, lost>>

(* heap_expand, then malloc again from the start. *)
heap_expand ==
    LET new    == heap_end
        length == RoundToPage(size)
        linked == [t \in DOMAIN hdr \cup {new} |->
                     IF t = new
                     THEN [length |-> length - HDR, next |-> NULL, last |-> last_header,
                           free |-> TRUE]
                     ELSE IF t = last_header THEN [hdr[t] EXCEPT !.next = new]
                     ELSE hdr[t]]
    IN  /\ pc = "expand"
        /\ heap_end' = heap_end + length
        /\ SetHeap(header_combine_backward([h |-> linked, last |-> new], new))
        /\ pc' = "malloc"
        /\ current' = 0
        /\ UNCHANGED <<size, caller, blocks, lost>>

malloc == malloc_splits \/ malloc_takes_whole \/ malloc_goes_on \/ heap_expand

-----------------------------------------------------------------------------
\* Mutant: only the segment in front is merged.
ReleaseBackwardOnly(s) ==
    LET heap == [h |-> [hdr EXCEPT ![s].free = TRUE], last |-> last_header]
    IN  /\ SetHeap(header_combine_backward(heap, s))
        /\ blocks' = [t \in DOMAIN blocks \ {s} |-> blocks[t]]
        /\ UNCHANGED <<heap_end, current, size, lost>>

(* free of segment s: first the segment behind it, then the one in front.  *)
Release(s) ==
    LET heap == header_combine_forward(
                    [h |-> [hdr EXCEPT ![s].free = TRUE], last |-> last_header], s)
    IN  /\ SetHeap(header_combine_backward(heap, s))
        /\ blocks' = [t \in DOMAIN blocks \ {s} |-> blocks[t]]
        /\ UNCHANGED <<heap_end, current, size, lost>>

free_call ==
    /\ pc = "idle"
    /\ \E s \in DOMAIN blocks \ {0} : Release(s)
    /\ UNCHANGED <<pc, caller>>

(* The end of realloc. *)
realloc_frees ==
    /\ pc = "free"
    /\ Release(caller)
    /\ pc' = "idle"
    /\ caller' = AnyCaller

-----------------------------------------------------------------------------
Init ==
    /\ heap_end = InitPages * PageUnits
    /\ hdr = [s \in {0} |-> [length |-> heap_end - HDR, next |-> NULL, last |-> NULL, free |-> TRUE]]
    /\ last_header = 0
    /\ pc = "idle" /\ current = NULL /\ size = 0 /\ caller = AnyCaller
    /\ blocks = <<>>
    /\ lost = NULL

Running == malloc \/ realloc_frees
Next == Running \/ pool_node_call \/ malloc_call \/ realloc_call \/ free_call
Spec == Init /\ [][Next]_vars /\ WF_vars(Running)

-----------------------------------------------------------------------------
(* Every variable has its type. *)
TypeOK ==
    /\ DOMAIN hdr \subseteq Addr /\ 0 \in DOMAIN hdr
    /\ \A s \in DOMAIN hdr : hdr[s] \in heap_seg_header_t
    /\ heap_end \in Addr
    /\ last_header \in DOMAIN hdr
    /\ pc \in {"idle", "malloc", "expand", "free"}
    /\ current \in DOMAIN hdr \cup {NULL}
    /\ size \in Sizes \cup {NodeSize, 0}
    /\ caller \in Caller
    /\ DOMAIN blocks \subseteq DOMAIN hdr
    /\ lost \in AddrP

(* A caller's memory is its own: every block handed out is a segment of the  *)
(* list that is not free and is as long as was asked, it ends before the     *)
(* next header begins, and every used segment belongs to a caller, so        *)
(* nothing is leaked by header_split and the merges but the wiped segment.   *)
BlocksAreApart ==
    /\ \A s \in DOMAIN blocks :
         /\ ~hdr[s].free /\ hdr[s].length >= blocks[s]
         /\ \A t \in DOMAIN hdr : t > s => EndOf(s) <= t
         /\ EndOf(s) <= heap_end
    /\ \A s \in DOMAIN hdr : hdr[s].free \/ s \in DOMAIN blocks \/ s = lost

(* The segments lie end to end in the order of the list and both links       *)
(* agree, up to heap_end, where last_header is.  The one exception is the    *)
(* header the first pool node wiped: its own back link is gone, and the      *)
(* rest of the first heap behind it is in no segment.                       *)
ListCoversHeap ==
    \A s \in DOMAIN hdr :
        /\ hdr[s].next = NULL <=> s = last_header
        /\ hdr[s].next # NULL =>
             /\ hdr[s].next = IF s = lost THEN InitPages * PageUnits ELSE EndOf(s)
             /\ hdr[s].next = lost \/ hdr[hdr[s].next].last = s
        /\ hdr[s].next = NULL /\ s # lost => EndOf(s) = heap_end

(* No two free segments lie side by side once a call is done. *)
FreeSegmentsMerged ==
    pc = "idle" => \A s \in DOMAIN hdr :
        hdr[s].free /\ hdr[s].next # NULL => ~hdr[hdr[s].next].free

(* malloc comes back, however often it calls itself. *)
CallsReturn == pc # "idle" ~> pc = "idle"
=============================================================================
