----------------------------- MODULE PmmProofs -----------------------------
(***************************************************************************)
(* The page allocator keeps its list of sections whole, implements PageSet, *)
(* and stops only for want of a header or at the open end of a memory map,  *)
(* for every machine of Boots and every size of a request.                 *)
(***************************************************************************)
EXTENDS Pmm, TLAPS, WellFoundedInduction

Has(sec, s, p) == Linked(sec, s) /\ sec[s].start <= p /\ p < End(sec, s)

FreeOf(sec) == {p \in Int : \E s \in Slot : Has(sec, s, p) /\ sec[s].free = PMM_SECTION_FREE}

(* The list as such: links are each other's inverse, sections touch, the     *)
(* head is slot 0 and begins memory, the last section ends it.              *)
Joined(sec, top, s) ==
    /\ sec[s].next # NULL => /\ sec[sec[s].next].prev = s
                             /\ sec[sec[s].next].start = End(sec, s)
    /\ sec[s].prev # NULL => sec[sec[s].prev].next = s
    /\ Linked(sec, s) \/ sec[s] = Unlinked
    /\ Linked(sec, s) /\ sec[s].next = NULL => End(sec, s) = top
    /\ Linked(sec, s) /\ sec[s].prev = NULL => s = 0
    /\ sec[s].start >= 0 /\ End(sec, s) <= top

Chained(sec, top) ==
    /\ sec \in [Slot -> pmm_section_t]
    /\ \A s \in Slot : Joined(sec, top, s)
    /\ Linked(sec, 0) /\ sec[0].prev = NULL /\ sec[0].start = 0

(* Every page is in one section. *)
Covered(sec, top) == \A p \in 0 .. top - 1 : \E s \in Slot : Has(sec, s, p)
Apart(sec) == \A s, t \in Slot, p \in Int : Has(sec, s, p) /\ Has(sec, t, p) => s = t
Shape(sec, top) == Chained(sec, top) /\ Covered(sec, top) /\ Apart(sec)

(* What is empty is free, and no two free sections are neighbours: an empty  *)
(* section never hides the page behind it.                                 *)
Tidy(sec) ==
    /\ sec[0].free = PMM_SECTION_BAD
    /\ \A s \in Slot : Linked(sec, s) /\ sec[s].pages = 0 => sec[s].free = PMM_SECTION_FREE
    /\ \A s \in Slot : sec[s].next # NULL =>
         ~(sec[s].free = PMM_SECTION_FREE /\ sec[sec[s].next].free = PMM_SECTION_FREE)

(* Memory that was free at boot never becomes bad. *)
RamKept(sec, ram) ==
    \A s \in Slot : sec[s].free = PMM_SECTION_BAD => \A p \in ram : ~Has(sec, s, p)

Good(sec, top, ram) == Shape(sec, top) /\ Tidy(sec) /\ RamKept(sec, ram)

ListInv == Good(sections, Top(boot), BootFree(boot))

CursorInv == selected # NULL => Linked(sections, selected)

(* The pages pmm_lock_pages has not come to are free.  The page it is at is  *)
(* free until the cursor has passed it, or stands on the used section that   *)
(* got it.                                                                 *)
LockInv ==
    pc = "lock_page" =>
        /\ run.left >= 1
        /\ \A p \in run.base + 1 .. run.base + run.left - 1 : p \in FreeOf(sections)
        /\ run.base \in FreeOf(sections) =>
             selected # NULL /\ sections[selected].start <= run.base
        /\ run.base \notin FreeOf(sections) /\ selected # NULL =>
             \/ sections[selected].start > run.base
             \/ /\ sections[selected].start = run.base
                /\ sections[selected].free = PMM_SECTION_USED
                /\ sections[selected].pages >= 2

(* What the scans have passed by would not have done. *)
SearchInv ==
    /\ pc = "alloc_page" =>
        \A p \in FreeOf(sections) : selected # NULL /\ sections[selected].start <= p
    /\ pc = "alloc_pool" =>
        /\ run.left \in 0 .. MaxRequest
        /\ \A p \in FreeOf(sections) :
             selected = NULL \/ p < sections[selected].start =>
               ~(p .. p + run.left - 1 \subseteq FreeOf(sections))

(* Who the pages of a running call are for. *)
ClaimInv ==
    /\ pc \notin {"lock_page", "halted"} => claim = {}
    /\ boot \notin WholeApi =>
        /\ \A r \in held : r.kind = "page" => r.pages = 1
        /\ \A r \in claim : r.kind # "page"
        /\ pc = "free_page" => run.left = 1
        /\ pc = "lock_page" =>
            /\ run.base .. run.base + run.left - 1 \subseteq Claimed
            /\ Claimed \cap FreeOf(sections) \subseteq run.base .. run.base + run.left - 1

IInv == TypeOK /\ ListInv /\ CursorInv /\ LockInv /\ SearchInv /\ ClaimInv

-----------------------------------------------------------------------------
(* What an assignment to some fields of a header leaves of the others.       *)

Header(a, b, c, d, e) == [prev |-> a, next |-> b, start |-> c, pages |-> d, free |-> e]

(* A header is made of its five fields. *)
LEMMA HeaderFields ==
    ASSUME NEW a \in SlotP, NEW b \in SlotP, NEW c \in Int, NEW d \in Nat, NEW e \in Type
    PROVE  /\ Header(a, b, c, d, e) \in pmm_section_t
           /\ Header(a, b, c, d, e).prev = a /\ Header(a, b, c, d, e).next = b
           /\ Header(a, b, c, d, e).start = c /\ Header(a, b, c, d, e).pages = d
           /\ Header(a, b, c, d, e).free = e
  BY DEF Header, pmm_section_t

(* Two fields of a header are assigned, the other three stay. *)
LEMMA NextPagesOnly ==
    ASSUME NEW r \in pmm_section_t, NEW b \in SlotP, NEW d \in Nat
    PROVE  [r EXCEPT !.next = b, !.pages = d] = Header(r.prev, b, r.start, d, r.free)
  <1> DEFINE q == [r EXCEPT !.next = b, !.pages = d]
  <1>1. q \in pmm_section_t
    BY DEF pmm_section_t
  <1>2. q.prev = r.prev /\ q.next = b /\ q.start = r.start
    BY DEF pmm_section_t
  <1>3. q.pages = d /\ q.free = r.free
    BY DEF pmm_section_t
  <1> HIDE DEF q
  <1>4. q = Header(r.prev, b, r.start, d, r.free)
    BY <1>1, <1>2, <1>3 DEF pmm_section_t, Header
  <1> QED BY <1>4 DEF q

(* The same for the three fields that cutting at the front assigns. *)
LEMMA StartPrevPagesOnly ==
    ASSUME NEW r \in pmm_section_t, NEW c \in Int, NEW a \in SlotP, NEW d \in Nat
    PROVE  [r EXCEPT !.start = c, !.prev = a, !.pages = d] = Header(a, r.next, c, d, r.free)
  <1> DEFINE q == [r EXCEPT !.start = c, !.prev = a, !.pages = d]
  <1>1. q \in pmm_section_t
    BY DEF pmm_section_t
  <1>2. q.prev = a /\ q.next = r.next /\ q.start = c
    BY DEF pmm_section_t
  <1>3. q.pages = d /\ q.free = r.free
    BY DEF pmm_section_t
  <1> HIDE DEF q
  <1>4. q = Header(a, r.next, c, d, r.free)
    BY <1>1, <1>2, <1>3 DEF pmm_section_t, Header
  <1> QED BY <1>4 DEF q

(* The same for the back link. *)
LEMMA PrevChanged ==
    ASSUME NEW r \in pmm_section_t, NEW a \in SlotP, NEW q, q = [r EXCEPT !.prev = a]
    PROVE  /\ q \in pmm_section_t
           /\ q.prev = a /\ q.next = r.next /\ q.start = r.start
           /\ q.pages = r.pages /\ q.free = r.free
  BY DEF pmm_section_t

(* The same for the link to the next section. *)
LEMMA NextChanged ==
    ASSUME NEW r \in pmm_section_t, NEW b \in SlotP, NEW q, q = [r EXCEPT !.next = b]
    PROVE  /\ q \in pmm_section_t
           /\ q.prev = r.prev /\ q.next = b /\ q.start = r.start
           /\ q.pages = r.pages /\ q.free = r.free
  BY DEF pmm_section_t

(* The same for the type. *)
LEMMA TypeChanged ==
    ASSUME NEW r \in pmm_section_t, NEW e \in Type, NEW q, q = [r EXCEPT !.free = e]
    PROVE  /\ q \in pmm_section_t
           /\ q.prev = r.prev /\ q.next = r.next /\ q.start = r.start
           /\ q.pages = r.pages /\ q.free = e
  BY DEF pmm_section_t

(* The same for the length. *)
LEMMA PagesChanged ==
    ASSUME NEW r \in pmm_section_t, NEW d \in Nat, NEW q, q = [r EXCEPT !.pages = d]
    PROVE  /\ q \in pmm_section_t
           /\ q.prev = r.prev /\ q.next = r.next /\ q.start = r.start
           /\ q.pages = d /\ q.free = r.free
  BY DEF pmm_section_t

(* The same for the start. *)
LEMMA StartChanged ==
    ASSUME NEW r \in pmm_section_t, NEW c \in Int, NEW q, q = [r EXCEPT !.start = c]
    PROVE  /\ q \in pmm_section_t
           /\ q.prev = r.prev /\ q.next = r.next /\ q.start = c
           /\ q.pages = r.pages /\ q.free = r.free
  BY DEF pmm_section_t

-----------------------------------------------------------------------------
(* What the operations on the list do, field by field.                      *)

Same(sec, S, s) == S[s].start = sec[s].start /\ S[s].pages = sec[s].pages
                   /\ S[s].free = sec[s].free

(* S is sec with t divided at `at', the rest of it in slot n. *)
Divided(sec, S, t, at, n) ==
    /\ S \in [Slot -> pmm_section_t]
    /\ S[t].prev = sec[t].prev /\ S[t].next = n /\ S[t].start = sec[t].start
    /\ S[t].pages = at - sec[t].start /\ S[t].free = sec[t].free
    /\ S[n].prev = t /\ S[n].next = sec[t].next /\ S[n].start = at
    /\ S[n].pages = End(sec, t) - at /\ S[n].free = sec[t].free
    /\ \A s \in Slot \ {t, n} :
        /\ Same(sec, S, s) /\ S[s].next = sec[s].next
        /\ S[s].prev = IF s = sec[t].next THEN n ELSE sec[s].prev

(* S is sec after the section behind t has swallowed t. *)
NextSwallows(sec, S, t) ==
    LET n == sec[t].next
    IN  /\ S \in [Slot -> pmm_section_t]
        /\ S[t] = Unlinked
        /\ S[n].prev = sec[t].prev /\ S[n].next = sec[n].next
        /\ S[n].start = sec[t].start /\ S[n].pages = sec[n].pages + sec[t].pages
        /\ S[n].free = sec[n].free
        /\ \A s \in Slot \ {t, n} :
            /\ Same(sec, S, s) /\ S[s].prev = sec[s].prev
            /\ S[s].next = IF s = sec[t].prev THEN n ELSE sec[s].next

(* S is sec after the section before t has swallowed t. *)
PrevSwallows(sec, S, t) ==
    LET p == sec[t].prev
    IN  /\ S \in [Slot -> pmm_section_t]
        /\ S[t] = Unlinked
        /\ S[p].prev = sec[p].prev /\ S[p].next = sec[t].next
        /\ S[p].start = sec[p].start /\ S[p].pages = sec[p].pages + sec[t].pages
        /\ S[p].free = sec[p].free
        /\ \A s \in Slot \ {t, p} :
            /\ Same(sec, S, s) /\ S[s].next = sec[s].next
            /\ S[s].prev = IF s = sec[t].next THEN p ELSE sec[s].prev

(* S is sec with the border between the neighbours a and b moved to cut. *)
BorderMoved(sec, S, a, b, cut) ==
    /\ S \in [Slot -> pmm_section_t]
    /\ S[a].start = sec[a].start /\ S[a].pages = cut - sec[a].start
    /\ S[b].start = cut /\ S[b].pages = End(sec, b) - cut
    /\ \A s \in Slot : S[s].prev = sec[s].prev /\ S[s].next = sec[s].next
                       /\ S[s].free = sec[s].free
    /\ \A s \in Slot \ {a, b} : Same(sec, S, s)

(* S is sec with t of another type. *)
Retyped(sec, S, t, type) ==
    /\ S \in [Slot -> pmm_section_t]
    /\ S[t].free = type
    /\ \A s \in Slot : /\ S[s].prev = sec[s].prev /\ S[s].next = sec[s].next
                       /\ S[s].start = sec[s].start /\ S[s].pages = sec[s].pages
    /\ \A s \in Slot \ {t} : S[s].free = sec[s].free

(* The fields of a header of the list have their types. *)
LEMMA FieldTypes ==
    ASSUME NEW sec \in [Slot -> pmm_section_t], NEW s \in Slot
    PROVE  /\ sec[s] \in pmm_section_t
           /\ sec[s].prev \in SlotP /\ sec[s].next \in SlotP /\ sec[s].start \in Int
           /\ sec[s].pages \in Nat /\ sec[s].free \in Type
  BY DEF pmm_section_t

(* pmm_section_split divides a section. *)
LEMMA SplitDivides ==
    ASSUME NEW sec \in [Slot -> pmm_section_t], NEW t \in Slot, NEW n \in Slot \ {t},
           NEW at \in Int, sec[t].start <= at, at <= End(sec, t),
           sec[t].next \notin {t, n}
    PROVE  Divided(sec, SplitInto(sec, t, at, n), t, at, n)
  <1> DEFINE S == SplitInto(sec, t, at, n)
             d == at - sec[t].start
             e == End(sec, t) - at
  <1>1. d \in Nat /\ e \in Nat /\ n \in SlotP /\ t \in SlotP
    BY FieldTypes DEF End, SlotP
  <1>2. S[t] = [sec[t] EXCEPT !.next = n, !.pages = d]
    BY Zenon DEF SplitInto
  <1>3. S[n] = Header(t, sec[t].next, at, e, sec[t].free)
    BY Zenon DEF SplitInto, Header
  <1>4. ASSUME NEW s \in Slot \ {t, n}
        PROVE  /\ s = sec[t].next => S[s] = [sec[s] EXCEPT !.prev = n]
               /\ s # sec[t].next => S[s] = sec[s]
    BY Zenon DEF SplitInto
  <1>5. S = [s \in Slot |-> S[s]]
    BY Zenon DEF SplitInto
  <1> HIDE DEF S, d, e
  <1>6. S[t] = Header(sec[t].prev, n, sec[t].start, d, sec[t].free)
    <2>1. [sec[t] EXCEPT !.next = n, !.pages = d]
            = Header(sec[t].prev, n, sec[t].start, d, sec[t].free)
      BY <1>1, FieldTypes, NextPagesOnly
    <2> QED BY <2>1, <1>2
  <1>7. ASSUME NEW s \in Slot \ {t, n}
        PROVE  /\ S[s] \in pmm_section_t
               /\ Same(sec, S, s) /\ S[s].next = sec[s].next
               /\ S[s].prev = IF s = sec[t].next THEN n ELSE sec[s].prev
    <2>1. CASE s = sec[t].next
      <3>1. S[s] = [sec[s] EXCEPT !.prev = n] /\ sec[s] \in pmm_section_t /\ n \in SlotP
        BY <1>1, <1>4, <2>1, FieldTypes
      <3>2. /\ S[s] \in pmm_section_t
            /\ S[s].prev = n /\ S[s].next = sec[s].next /\ S[s].start = sec[s].start
            /\ S[s].pages = sec[s].pages /\ S[s].free = sec[s].free
        BY <3>1, PrevChanged
      <3> QED BY <2>1, <3>2 DEF Same
    <2>2. CASE s # sec[t].next
      BY <1>4, <2>2, FieldTypes DEF Same
    <2> QED BY <2>1, <2>2
  <1>8. S[t] \in pmm_section_t /\ S[n] \in pmm_section_t
    BY <1>1, <1>3, <1>6, FieldTypes, HeaderFields
  <1>9. S \in [Slot -> pmm_section_t]
    <2>1. \A s \in Slot : S[s] \in pmm_section_t
      BY <1>7, <1>8
    <2> QED BY <1>5, <2>1, Zenon
  <1>10. /\ S[n].prev = t /\ S[n].next = sec[t].next /\ S[n].start = at
         /\ S[n].pages = e /\ S[n].free = sec[t].free
    BY <1>1, <1>3, FieldTypes, HeaderFields
  <1>11. /\ S[t].prev = sec[t].prev /\ S[t].next = n /\ S[t].start = sec[t].start
         /\ S[t].pages = d /\ S[t].free = sec[t].free
    BY <1>1, <1>6, FieldTypes, HeaderFields
  <1>12. Divided(sec, S, t, at, n)
    BY <1>7, <1>9, <1>10, <1>11 DEF Divided, d, e
  <1> QED BY <1>12 DEF S

(* pmm_section_combine_next: the next section swallows this one. *)
LEMMA CombineNextSwallows ==
    ASSUME NEW sec \in [Slot -> pmm_section_t], NEW t \in Slot,
           sec[t].next \in Slot \ {t}, sec[t].prev \notin {t, sec[t].next}
    PROVE  NextSwallows(sec, CombineNext(sec, t), t)
  <1> DEFINE S == CombineNext(sec, t)
             n == sec[t].next
             d == sec[n].pages + sec[t].pages
  <1>1. n \in Slot /\ d \in Nat /\ n \in SlotP /\ n # t
    BY FieldTypes DEF SlotP
  <1>2. S[t] = Unlinked
    BY Zenon DEF CombineNext
  <1>3. S[n] = [sec[n] EXCEPT !.start = sec[t].start, !.prev = sec[t].prev, !.pages = d]
    BY Zenon, <1>1 DEF CombineNext
  <1>4. ASSUME NEW s \in Slot \ {t, n}
        PROVE  /\ s = sec[t].prev => S[s] = [sec[s] EXCEPT !.next = n]
               /\ s # sec[t].prev => S[s] = sec[s]
    BY Zenon DEF CombineNext
  <1>5. S = [s \in Slot |-> S[s]]
    BY Zenon DEF CombineNext
  <1>d. d = sec[n].pages + sec[t].pages /\ n = sec[t].next
    OBVIOUS
  <1> HIDE DEF S, d, n
  <1>6. S[n] = Header(sec[t].prev, sec[n].next, sec[t].start, d, sec[n].free)
    <2>1. [sec[n] EXCEPT !.start = sec[t].start, !.prev = sec[t].prev, !.pages = d]
            = Header(sec[t].prev, sec[n].next, sec[t].start, d, sec[n].free)
      BY <1>1, FieldTypes, StartPrevPagesOnly
    <2> QED BY <2>1, <1>3
  <1>7. ASSUME NEW s \in Slot \ {t, n}
        PROVE  /\ S[s] \in pmm_section_t
               /\ Same(sec, S, s) /\ S[s].prev = sec[s].prev
               /\ S[s].next = IF s = sec[t].prev THEN n ELSE sec[s].next
    <2>1. CASE s = sec[t].prev
      <3>1. S[s] = [sec[s] EXCEPT !.next = n] /\ sec[s] \in pmm_section_t /\ n \in SlotP
        BY <1>1, <1>4, <2>1, FieldTypes
      <3>2. /\ S[s] \in pmm_section_t
            /\ S[s].prev = sec[s].prev /\ S[s].next = n /\ S[s].start = sec[s].start
            /\ S[s].pages = sec[s].pages /\ S[s].free = sec[s].free
        BY <3>1, NextChanged
      <3> QED BY <2>1, <3>2 DEF Same
    <2>2. CASE s # sec[t].prev
      BY <1>4, <2>2, FieldTypes DEF Same
    <2> QED BY <2>1, <2>2
  <1>8. /\ S[n] \in pmm_section_t
        /\ S[n].prev = sec[t].prev /\ S[n].next = sec[n].next /\ S[n].start = sec[t].start
        /\ S[n].pages = d /\ S[n].free = sec[n].free
    BY <1>1, <1>6, FieldTypes, HeaderFields
  <1>9. S \in [Slot -> pmm_section_t]
    <2>1. S[t] \in pmm_section_t
      BY <1>2 DEF pmm_section_t, Unlinked, SlotP, Type
    <2>2. \A s \in Slot : S[s] \in pmm_section_t
      BY <1>7, <1>8, <2>1
    <2> QED BY <1>5, <2>2, Zenon
  <1>10. NextSwallows(sec, S, t)
    BY <1>2, <1>7, <1>8, <1>9, <1>d DEF NextSwallows
  <1> QED BY <1>10 DEF S

(* pmm_section_combine_prev: the section before swallows this one. *)
LEMMA CombinePrevSwallows ==
    ASSUME NEW sec \in [Slot -> pmm_section_t], NEW t \in Slot,
           sec[t].prev \in Slot \ {t}, sec[t].next \notin {t, sec[t].prev}
    PROVE  PrevSwallows(sec, CombinePrev(sec, t), t)
  <1> DEFINE S == CombinePrev(sec, t)
             p == sec[t].prev
             d == sec[p].pages + sec[t].pages
  <1>1. p \in Slot /\ d \in Nat /\ p \in SlotP /\ p # t
    BY FieldTypes DEF SlotP
  <1>2. S[t] = Unlinked
    BY Zenon DEF CombinePrev
  <1>3. S[p] = [sec[p] EXCEPT !.next = sec[t].next, !.pages = d]
    BY Zenon, <1>1 DEF CombinePrev
  <1>4. ASSUME NEW s \in Slot \ {t, p}
        PROVE  /\ s = sec[t].next => S[s] = [sec[s] EXCEPT !.prev = p]
               /\ s # sec[t].next => S[s] = sec[s]
    BY Zenon DEF CombinePrev
  <1>5. S = [s \in Slot |-> S[s]]
    BY Zenon DEF CombinePrev
  <1>d. d = sec[p].pages + sec[t].pages /\ p = sec[t].prev
    OBVIOUS
  <1> HIDE DEF S, d, p
  <1>6. S[p] = Header(sec[p].prev, sec[t].next, sec[p].start, d, sec[p].free)
    <2>1. [sec[p] EXCEPT !.next = sec[t].next, !.pages = d]
            = Header(sec[p].prev, sec[t].next, sec[p].start, d, sec[p].free)
      BY <1>1, FieldTypes, NextPagesOnly
    <2> QED BY <2>1, <1>3
  <1>7. ASSUME NEW s \in Slot \ {t, p}
        PROVE  /\ S[s] \in pmm_section_t
               /\ Same(sec, S, s) /\ S[s].next = sec[s].next
               /\ S[s].prev = IF s = sec[t].next THEN p ELSE sec[s].prev
    <2>1. CASE s = sec[t].next
      <3>1. S[s] = [sec[s] EXCEPT !.prev = p] /\ sec[s] \in pmm_section_t /\ p \in SlotP
        BY <1>1, <1>4, <2>1, FieldTypes
      <3>2. /\ S[s] \in pmm_section_t
            /\ S[s].prev = p /\ S[s].next = sec[s].next /\ S[s].start = sec[s].start
            /\ S[s].pages = sec[s].pages /\ S[s].free = sec[s].free
        BY <3>1, PrevChanged
      <3> QED BY <2>1, <3>2 DEF Same
    <2>2. CASE s # sec[t].next
      BY <1>4, <2>2, FieldTypes DEF Same
    <2> QED BY <2>1, <2>2
  <1>8. /\ S[p] \in pmm_section_t
        /\ S[p].prev = sec[p].prev /\ S[p].next = sec[t].next /\ S[p].start = sec[p].start
        /\ S[p].pages = d /\ S[p].free = sec[p].free
    BY <1>1, <1>6, FieldTypes, HeaderFields
  <1>9. S \in [Slot -> pmm_section_t]
    <2>1. S[t] \in pmm_section_t
      BY <1>2 DEF pmm_section_t, Unlinked, SlotP, Type
    <2>2. \A s \in Slot : S[s] \in pmm_section_t
      BY <1>7, <1>8, <2>1
    <2> QED BY <1>5, <2>2, Zenon
  <1>10. PrevSwallows(sec, S, t)
    BY <1>2, <1>7, <1>8, <1>9, <1>d DEF PrevSwallows
  <1> QED BY <1>10 DEF S

(* Giving the first page to the section before moves the border up. *)
LEMMA GiveFirstMoves ==
    ASSUME NEW sec \in [Slot -> pmm_section_t], NEW b \in Slot,
           sec[b].prev \in Slot \ {b}, sec[b].pages # 0,
           sec[b].start = End(sec, sec[b].prev)
    PROVE  BorderMoved(sec, GiveFirstPage(sec, b), sec[b].prev, b, sec[b].start + 1)
  <1> DEFINE S == GiveFirstPage(sec, b)
             a == sec[b].prev
             d == sec[a].pages + 1
             e == sec[b].pages - 1
             c == sec[b].start + 1
             q == [sec[b] EXCEPT !.pages = e]
  <1>1. a \in Slot /\ a # b /\ d \in Nat /\ e \in Nat /\ c \in Int
    BY FieldTypes
  <1>2. S[a] = [sec[a] EXCEPT !.pages = d]
    BY <1>1 DEF GiveFirstPage
  <1>3. S[b] = [q EXCEPT !.start = c]
    BY <1>1, FieldTypes DEF GiveFirstPage, pmm_section_t
  <1>4. \A s \in Slot \ {a, b} : S[s] = sec[s]
    BY <1>1 DEF GiveFirstPage
  <1>5. S = [s \in Slot |-> S[s]]
    BY DEF GiveFirstPage
  <1>6. q = [sec[b] EXCEPT !.pages = e]
    OBVIOUS
  <1>7. /\ d = c - sec[a].start /\ e = End(sec, b) - c /\ a = sec[b].prev
        /\ c = sec[b].start + 1
    BY <1>1, FieldTypes DEF End
  <1> HIDE DEF S, a, d, e, c, q
  <1>8. /\ S[a] \in pmm_section_t
        /\ S[a].prev = sec[a].prev /\ S[a].next = sec[a].next
        /\ S[a].start = sec[a].start /\ S[a].pages = d /\ S[a].free = sec[a].free
    BY <1>1, <1>2, FieldTypes, PagesChanged
  <1>9. /\ q \in pmm_section_t
        /\ q.prev = sec[b].prev /\ q.next = sec[b].next
        /\ q.start = sec[b].start /\ q.pages = e /\ q.free = sec[b].free
    BY <1>1, <1>6, FieldTypes, PagesChanged
  <1>10. /\ S[b] \in pmm_section_t
         /\ S[b].prev = q.prev /\ S[b].next = q.next
         /\ S[b].start = c /\ S[b].pages = q.pages /\ S[b].free = q.free
    BY <1>1, <1>3, <1>9, StartChanged
  <1>11. S \in [Slot -> pmm_section_t]
    <2>1. \A s \in Slot : S[s] \in pmm_section_t
      BY <1>4, <1>8, <1>10, FieldTypes
    <2> QED BY <1>5, <2>1, Zenon
  <1>12. BorderMoved(sec, S, a, b, c)
    BY <1>1, <1>4, <1>7, <1>8, <1>9, <1>10, <1>11 DEF BorderMoved, Same
  <1> QED BY <1>12 DEF S, a, c

(* Giving the last page to the next section moves the border down. *)
LEMMA GiveLastMoves ==
    ASSUME NEW sec \in [Slot -> pmm_section_t], NEW a \in Slot,
           sec[a].next \in Slot \ {a}, sec[a].pages # 0,
           sec[sec[a].next].start = End(sec, a)
    PROVE  BorderMoved(sec, GiveLastPage(sec, a), a, sec[a].next, End(sec, a) - 1)
  <1> DEFINE S == GiveLastPage(sec, a)
             b == sec[a].next
             d == sec[a].pages - 1
             e == sec[b].pages + 1
             c == sec[b].start - 1
             q == [sec[b] EXCEPT !.start = c]
  <1>1. b \in Slot /\ a # b /\ d \in Nat /\ e \in Nat /\ c \in Int
    BY FieldTypes
  <1>2. S[a] = [sec[a] EXCEPT !.pages = d]
    BY <1>1 DEF GiveLastPage
  <1>3. S[b] = [q EXCEPT !.pages = e]
    BY <1>1, FieldTypes DEF GiveLastPage, pmm_section_t
  <1>4. \A s \in Slot \ {a, b} : S[s] = sec[s]
    BY <1>1 DEF GiveLastPage
  <1>5. S = [s \in Slot |-> S[s]]
    BY DEF GiveLastPage
  <1>6. q = [sec[b] EXCEPT !.start = c]
    OBVIOUS
  <1>7. /\ d = c - sec[a].start /\ e = End(sec, b) - c /\ b = sec[a].next
        /\ c = End(sec, a) - 1
    BY <1>1, FieldTypes DEF End
  <1> HIDE DEF S, b, d, e, c, q
  <1>8. /\ S[a] \in pmm_section_t
        /\ S[a].prev = sec[a].prev /\ S[a].next = sec[a].next
        /\ S[a].start = sec[a].start /\ S[a].pages = d /\ S[a].free = sec[a].free
    BY <1>1, <1>2, FieldTypes, PagesChanged
  <1>9. /\ q \in pmm_section_t
        /\ q.prev = sec[b].prev /\ q.next = sec[b].next
        /\ q.start = c /\ q.pages = sec[b].pages /\ q.free = sec[b].free
    BY <1>1, <1>6, FieldTypes, StartChanged
  <1>10. /\ S[b] \in pmm_section_t
         /\ S[b].prev = q.prev /\ S[b].next = q.next
         /\ S[b].start = q.start /\ S[b].pages = e /\ S[b].free = q.free
    BY <1>1, <1>3, <1>9, PagesChanged
  <1>11. S \in [Slot -> pmm_section_t]
    <2>1. \A s \in Slot : S[s] \in pmm_section_t
      BY <1>4, <1>8, <1>10, FieldTypes
    <2> QED BY <1>5, <2>1, Zenon
  <1>12. BorderMoved(sec, S, a, b, c)
    BY <1>1, <1>4, <1>7, <1>8, <1>9, <1>10, <1>11 DEF BorderMoved, Same
  <1> QED BY <1>12, <1>7 DEF S

(* Writing the type of a section changes nothing else. *)
LEMMA SetTypeRetypes ==
    ASSUME NEW L, L.sec \in [Slot -> pmm_section_t], NEW t \in Slot, NEW type \in Type,
           L = [sec |-> L.sec, head |-> L.head]
    PROVE  /\ Retyped(L.sec, SetType(L, t, type).sec, t, type)
           /\ SetType(L, t, type).head = L.head
  <1> DEFINE S == [L.sec EXCEPT ![t].free = type]
  <1>1. S[t] = [L.sec[t] EXCEPT !.free = type]
    OBVIOUS
  <1>2. \A s \in Slot \ {t} : S[s] = L.sec[s]
    OBVIOUS
  <1>3. S = [s \in Slot |-> S[s]]
    OBVIOUS
  <1>4. SetType(L, t, type).sec = S /\ SetType(L, t, type).head = L.head
    BY DEF SetType
  <1> HIDE DEF S
  <1>5. /\ S[t] \in pmm_section_t
        /\ S[t].prev = L.sec[t].prev /\ S[t].next = L.sec[t].next
        /\ S[t].start = L.sec[t].start /\ S[t].pages = L.sec[t].pages /\ S[t].free = type
    BY <1>1, FieldTypes, TypeChanged
  <1>6. S \in [Slot -> pmm_section_t]
    <2>1. \A s \in Slot : S[s] \in pmm_section_t
      BY <1>2, <1>5, FieldTypes
    <2> QED BY <1>3, <2>1, Zenon
  <1>7. Retyped(L.sec, S, t, type)
    BY <1>2, <1>5, <1>6 DEF Retyped
  <1> QED BY <1>4, <1>7

(* The header of a section without pages is cleared, its neighbours linked to *)
(* each other: what a merge with the next section would leave.              *)
UnlinkEmpty(sec, t) ==
    [s \in Slot |->
        IF s = t THEN Unlinked
        ELSE IF s = sec[t].next THEN [sec[s] EXCEPT !.prev = sec[t].prev]
        ELSE IF s = sec[t].prev THEN [sec[s] EXCEPT !.next = sec[t].next]
        ELSE sec[s]]

(* pmm_alloc_page's unlinking of an empty section is a merge with the next. *)
LEMMA UnlinkSwallows ==
    ASSUME NEW sec \in [Slot -> pmm_section_t], NEW t \in Slot,
           sec[t].next \in Slot \ {t}, sec[t].prev \in Slot \ {t, sec[t].next},
           sec[t].pages = 0, sec[sec[t].next].start = End(sec, t)
    PROVE  NextSwallows(sec, UnlinkEmpty(sec, t), t)
  <1> DEFINE S == UnlinkEmpty(sec, t)
             n == sec[t].next
             p == sec[t].prev
  <1>1. n \in Slot /\ p \in Slot /\ p # t /\ p # n /\ n # t /\ p \in SlotP /\ n \in SlotP
    BY DEF SlotP
  <1>2. S[t] = Unlinked
    BY Zenon DEF UnlinkEmpty
  <1>3. S[n] = [sec[n] EXCEPT !.prev = p]
    BY Zenon, <1>1 DEF UnlinkEmpty
  <1>4. S[p] = [sec[p] EXCEPT !.next = n]
    BY Zenon, <1>1 DEF UnlinkEmpty
  <1>5. \A s \in Slot \ {t, n, p} : S[s] = sec[s]
    BY Zenon DEF UnlinkEmpty
  <1>6. S = [s \in Slot |-> S[s]]
    BY Zenon DEF UnlinkEmpty
  <1>7. /\ n = sec[t].next /\ p = sec[t].prev
        /\ sec[n].start = sec[t].start /\ sec[n].pages = sec[n].pages + sec[t].pages
    BY <1>1, FieldTypes DEF End
  <1> HIDE DEF S, n, p
  <1>8. /\ S[n] \in pmm_section_t
        /\ S[n].prev = p /\ S[n].next = sec[n].next
        /\ S[n].start = sec[n].start /\ S[n].pages = sec[n].pages /\ S[n].free = sec[n].free
    BY <1>1, <1>3, FieldTypes, PrevChanged
  <1>9. /\ S[p] \in pmm_section_t
        /\ S[p].prev = sec[p].prev /\ S[p].next = n
        /\ S[p].start = sec[p].start /\ S[p].pages = sec[p].pages /\ S[p].free = sec[p].free
    BY <1>1, <1>4, FieldTypes, NextChanged
  <1>10. S \in [Slot -> pmm_section_t]
    <2>1. S[t] \in pmm_section_t
      BY <1>2 DEF pmm_section_t, Unlinked, SlotP, Type
    <2>2. \A s \in Slot : S[s] \in pmm_section_t
      BY <1>5, <1>8, <1>9, <2>1, FieldTypes
    <2> QED BY <1>6, <2>2, Zenon
  <1>11. ASSUME NEW s \in Slot \ {t, n}
         PROVE  /\ Same(sec, S, s) /\ S[s].prev = sec[s].prev
                /\ S[s].next = IF s = p THEN n ELSE sec[s].next
    BY <1>5, <1>9 DEF Same
  <1>12. NextSwallows(sec, S, t)
    BY <1>1, <1>2, <1>7, <1>8, <1>10, <1>11 DEF NextSwallows
  <1> QED BY <1>12 DEF S

-----------------------------------------------------------------------------
(* Every operation leaves the list a list.                                  *)

(* The slots of the header array. *)
LEMMA Slots == /\ NULL = -1 /\ NSlots \in Nat \ {0} /\ 0 \in Slot /\ Slot \subseteq Nat
               /\ NULL \notin Slot /\ SlotP = Slot \cup {NULL}
  BY BootsAssumption DEF BootsAssumption, NULL, Slot, SlotP

(* The neighbours of a section are other sections. *)
LEMMA Neighbours ==
    ASSUME NEW sec, NEW top \in Int, Chained(sec, top), NEW t \in Slot
    PROVE  /\ sec[t].next # NULL => sec[t].next \in Slot /\ Linked(sec, sec[t].next)
           /\ sec[t].prev # NULL => sec[t].prev \in Slot /\ Linked(sec, sec[t].prev)
           /\ sec[t].prev # NULL =>
                /\ sec[sec[t].prev].next = t
                /\ sec[t].start = End(sec, sec[t].prev)
  <1>1. sec[t].next \in SlotP /\ sec[t].prev \in SlotP
    BY FieldTypes DEF Chained
  <1>2. Joined(sec, top, t)
    BY DEF Chained
  <1>3. sec[t].next # NULL => sec[t].next \in Slot /\ Linked(sec, sec[t].next)
    BY <1>1, <1>2, Slots DEF Joined, Linked
  <1>4. ASSUME sec[t].prev # NULL
        PROVE  /\ sec[t].prev \in Slot /\ Linked(sec, sec[t].prev)
               /\ sec[sec[t].prev].next = t
               /\ sec[t].start = End(sec, sec[t].prev)
    <2>1. sec[t].prev \in Slot
      BY <1>1, <1>4, Slots
    <2>2. sec[sec[t].prev].next = t
      BY <1>2, <1>4 DEF Joined
    <2>3. Joined(sec, top, sec[t].prev)
      BY <2>1 DEF Chained
    <2> QED BY <2>1, <2>2, <2>3, Slots DEF Joined, Linked
  <1> QED BY <1>3, <1>4

(* Two sections have different neighbours. *)
LEMMA OneNeighbour ==
    ASSUME NEW sec, NEW top \in Int, Chained(sec, top), NEW s \in Slot, NEW t \in Slot, s # t
    PROVE  /\ sec[s].next # NULL => sec[s].next # sec[t].next
           /\ sec[s].prev # NULL => sec[s].prev # sec[t].prev
  BY DEF Chained, Joined

(* A division leaves the list a list. *)
LEMMA DividedChained ==
    ASSUME NEW sec, NEW S, NEW top \in Int, Chained(sec, top),
           NEW t \in Slot, Linked(sec, t), NEW n \in Slot, ~Linked(sec, n),
           NEW at \in Int, sec[t].start <= at, at < End(sec, t), Divided(sec, S, t, at, n)
    PROVE  Chained(S, top)
  <1>0. /\ sec \in [Slot -> pmm_section_t] /\ S \in [Slot -> pmm_section_t]
        /\ \A s \in Slot : Joined(sec, top, s)
        /\ n # t /\ n # 0
    BY DEF Chained, Divided
  <1>1. /\ sec[n].prev = NULL /\ sec[n].next = NULL
        /\ \A s \in Slot : sec[s].next # n /\ sec[s].prev # n
    BY Neighbours, Slots DEF Linked
  <1>2. sec[t].next # t /\ sec[t].prev # t
    <2>1. sec[t].start \in Int /\ sec[t].pages \in Nat
      BY <1>0, FieldTypes
    <2>2. sec[t].next # t
      BY <1>0, <2>1, Slots DEF Joined, End
    <2> QED BY <2>2, Neighbours, Slots
  <1>3. Joined(S, top, t)
    <2>1. /\ sec[t].start \in Int /\ sec[t].pages \in Nat
          /\ sec[t].start >= 0 /\ End(sec, t) <= top
      BY <1>0, FieldTypes DEF Joined
    <2>2. End(S, t) = at /\ at <= top
      BY <2>1 DEF Divided, End
    <2>3. sec[t].prev # NULL => S[sec[t].prev].next = t
      BY <1>1, <1>2, Neighbours DEF Divided
    <2>4. Linked(sec, t) /\ sec[t].prev = NULL => t = 0
      BY <1>0 DEF Joined
    <2>5. /\ S[t].prev = sec[t].prev /\ S[t].next = n /\ S[t].start = sec[t].start
          /\ S[n].prev = t /\ S[n].start = at /\ n # NULL
      BY Slots DEF Divided
    <2> QED BY <2>1, <2>2, <2>3, <2>4, <2>5 DEF Joined, Linked
  <1>4. Joined(S, top, n)
    <2>1. /\ sec[t].start \in Int /\ sec[t].pages \in Nat
          /\ sec[t].start >= 0 /\ End(sec, t) <= top
      BY <1>0, FieldTypes DEF Joined
    <2>2. End(S, n) = End(sec, t)
      BY <2>1 DEF Divided, End
    <2>3. ASSUME sec[t].next # NULL
          PROVE  S[sec[t].next].prev = n /\ S[sec[t].next].start = End(sec, t)
      <3>1. sec[t].next \in Slot \ {t, n}
        BY <2>3, <1>1, <1>2, Neighbours
      <3>2. sec[sec[t].next].start = End(sec, t)
        BY <2>3, <1>0 DEF Joined
      <3> QED BY <3>1, <3>2 DEF Divided, Same
    <2>4. sec[t].next = NULL => End(sec, t) = top
      BY <1>0 DEF Joined
    <2>5. /\ S[n].prev = t /\ S[n].next = sec[t].next /\ S[n].start = at /\ S[t].next = n
          /\ t # NULL /\ at >= 0
      BY <2>1, Slots DEF Divided
    <2> QED BY <2>1, <2>2, <2>3, <2>4, <2>5 DEF Joined, Linked
  <1>5. ASSUME NEW s \in Slot \ {t, n} PROVE Joined(S, top, s)
    <2>1. /\ S[s].next = sec[s].next /\ S[s].start = sec[s].start /\ S[s].free = sec[s].free
          /\ S[s].pages = sec[s].pages /\ End(S, s) = End(sec, s)
          /\ S[s].prev = IF s = sec[t].next THEN n ELSE sec[s].prev
      BY DEF Divided, Same, End
    <2>2. Joined(sec, top, s)
      BY <1>0
    <2>3. ASSUME sec[s].next # NULL
          PROVE  S[sec[s].next].prev = s /\ S[sec[s].next].start = End(sec, s)
      <3>1. sec[s].next \in Slot \ {n} /\ sec[s].next # sec[t].next
        BY <2>3, <1>1, Neighbours, OneNeighbour
      <3>2. sec[sec[s].next].prev = s /\ sec[sec[s].next].start = End(sec, s)
        BY <2>2, <2>3 DEF Joined
      <3> QED BY <3>1, <3>2 DEF Divided, Same
    <2>4. CASE s = sec[t].next
      <3>1. /\ S[s].prev = n /\ n # NULL /\ S[n].next = s
            /\ sec[s].prev = t /\ t # NULL
        BY <2>1, <2>4, <1>0, Slots DEF Divided, Joined
      <3> QED BY <2>1, <2>2, <2>3, <3>1 DEF Joined, Linked
    <2>5. CASE s # sec[t].next
      <3>1. ASSUME sec[s].prev # NULL PROVE S[sec[s].prev].next = s
        <4>1. sec[s].prev \in Slot \ {n, t} /\ sec[sec[s].prev].next = s
          BY <3>1, <2>5, <1>1, Neighbours
        <4> QED BY <4>1 DEF Divided
      <3>2. sec[s] = Unlinked => S[s] = Unlinked
        BY <2>1, <2>5, <1>0 DEF Unlinked, pmm_section_t
      <3> QED BY <2>1, <2>2, <2>3, <2>5, <3>1, <3>2 DEF Joined, Linked
    <2> QED BY <2>4, <2>5
  <1>6. Linked(S, 0) /\ S[0].prev = NULL /\ S[0].start = 0
    <2>1. Linked(sec, 0) /\ sec[0].prev = NULL /\ sec[0].start = 0 /\ 0 # sec[t].next
      BY <1>0, Slots DEF Chained, Joined
    <2> QED BY <2>1, <1>0, Slots DEF Divided, Linked, Same
  <1> QED BY <1>0, <1>3, <1>4, <1>5, <1>6 DEF Chained

(* A merge into the next section does. *)
LEMMA NextSwallowsChained ==
    ASSUME NEW sec, NEW S, NEW top \in Int, Chained(sec, top), NEW t \in Slot,
           sec[t].next \in Slot \ {t}, sec[t].prev \in Slot \ {t, sec[t].next},
           NextSwallows(sec, S, t)
    PROVE  Chained(S, top)
  <1> DEFINE n == sec[t].next
             p == sec[t].prev
  <1>0. /\ sec \in [Slot -> pmm_section_t] /\ S \in [Slot -> pmm_section_t]
        /\ \A s \in Slot : Joined(sec, top, s)
    BY DEF Chained, NextSwallows
  <1>1. /\ n \in Slot /\ p \in Slot /\ n # t /\ p # t /\ p # n
        /\ n # NULL /\ p # NULL /\ t # NULL
    BY Slots
  <1>2. /\ sec[p].next = t /\ sec[n].prev = t
        /\ sec[t].start = End(sec, p) /\ sec[n].start = End(sec, t)
    BY <1>0, <1>1 DEF Joined
  <1>3. /\ sec[n].start \in Int /\ sec[n].pages \in Nat /\ sec[t].start \in Int
        /\ sec[t].pages \in Nat
    BY <1>0, <1>1, FieldTypes
  <1>4. /\ S[n].prev = p /\ S[n].next = sec[n].next /\ S[n].start = sec[t].start
        /\ S[n].pages = sec[n].pages + sec[t].pages
        /\ S[t] = Unlinked
        /\ \A s \in Slot \ {t, n} :
            /\ Same(sec, S, s) /\ S[s].prev = sec[s].prev
            /\ S[s].next = IF s = p THEN n ELSE sec[s].next
    BY DEF NextSwallows
  <1>5. End(S, n) = End(sec, n)
    BY <1>2, <1>3, <1>4 DEF End
  <1> HIDE DEF n, p
  <1>6. Joined(S, top, t)
    <2>1. sec[t].start >= 0 /\ End(sec, t) <= top
      BY <1>0 DEF Joined
    <2>2. S[t].prev = NULL /\ S[t].next = NULL /\ S[t].start = 0 /\ S[t].pages = 0
      BY <1>4 DEF Unlinked
    <2>3. 0 <= top /\ End(S, t) = 0
      BY <1>3, <2>1, <2>2 DEF End
    <2> QED BY <1>4, <2>2, <2>3 DEF Joined, Linked
  <1>7. Joined(S, top, n)
    <2>1. Joined(sec, top, n)
      BY <1>0, <1>1
    <2>2. S[p].next = n
      BY <1>1, <1>4
    <2>3. ASSUME sec[n].next # NULL
          PROVE  S[sec[n].next].prev = n /\ S[sec[n].next].start = End(sec, n)
      <3>1. /\ sec[sec[n].next].prev = n /\ sec[sec[n].next].start = End(sec, n)
            /\ sec[n].next \in Slot
        BY <2>1, <2>3, <1>1, Neighbours DEF Joined
      <3>2. sec[n].next # t /\ sec[n].next # n
        BY <3>1, <1>1, <1>2 DEF p
      <3> QED BY <3>1, <3>2, <1>4 DEF Same
    <2>4. sec[t].start >= 0 /\ Linked(sec, n)
      BY <1>0, <1>1, <1>2 DEF Joined, Linked
    <2> QED BY <1>1, <1>4, <1>5, <2>1, <2>2, <2>3, <2>4 DEF Joined, Linked
  <1>8. ASSUME NEW s \in Slot \ {t, n} PROVE Joined(S, top, s)
    <2>1. /\ S[s].start = sec[s].start /\ S[s].free = sec[s].free /\ S[s].pages = sec[s].pages
          /\ S[s].prev = sec[s].prev /\ End(S, s) = End(sec, s)
          /\ S[s].next = IF s = p THEN n ELSE sec[s].next
      BY <1>4 DEF Same, End
    <2>2. Joined(sec, top, s)
      BY <1>0
    <2>3. ASSUME sec[s].prev # NULL PROVE S[sec[s].prev].next = s
      <3>1. sec[s].prev \in Slot /\ sec[sec[s].prev].next = s
        BY <2>3, Neighbours
      <3>2. sec[s].prev # t /\ sec[s].prev # p
        BY <3>1, <1>2 DEF n
      <3> QED BY <3>1, <3>2, <1>4
    <2>4. CASE s = p
      <3>1. /\ S[s].next = n /\ S[n].prev = s /\ S[n].start = End(sec, s)
        BY <2>1, <2>4, <1>2, <1>4
      <3>2. Linked(sec, s)
        BY <2>4, <1>1, <1>2 DEF Linked
      <3> QED BY <1>1, <2>1, <2>2, <2>3, <3>1, <3>2 DEF Joined, Linked
    <2>5. CASE s # p
      <3>1. ASSUME sec[s].next # NULL
            PROVE  S[sec[s].next].prev = s /\ S[sec[s].next].start = End(sec, s)
        <4>1. /\ sec[s].next \in Slot /\ sec[sec[s].next].prev = s
              /\ sec[sec[s].next].start = End(sec, s)
          BY <3>1, <2>2, Neighbours DEF Joined
        <4>2. sec[s].next # t /\ sec[s].next # n
          BY <4>1, <2>5, <1>2 DEF p
        <4> QED BY <4>1, <4>2, <1>4 DEF Same
      <3>2. sec[s] = Unlinked => S[s] = Unlinked
        BY <2>1, <2>5, <1>0 DEF Unlinked, pmm_section_t
      <3> QED BY <2>1, <2>2, <2>3, <2>5, <3>1, <3>2 DEF Joined, Linked
    <2> QED BY <2>4, <2>5
  <1>9. Linked(S, 0) /\ S[0].prev = NULL /\ S[0].start = 0
    <2>1. /\ Linked(sec, 0) /\ sec[0].prev = NULL /\ sec[0].start = 0
          /\ 0 # t /\ 0 # n
      BY <1>1, <1>2 DEF Chained, p
    <2> QED BY <2>1, <1>1, <1>4, Slots DEF Linked, Same
  <1> QED BY <1>0, <1>6, <1>7, <1>8, <1>9 DEF Chained

(* A merge into the section before does. *)
LEMMA PrevSwallowsChained ==
    ASSUME NEW sec, NEW S, NEW top \in Int, Chained(sec, top), NEW t \in Slot,
           sec[t].prev \in Slot \ {t}, sec[t].next \notin {t, sec[t].prev},
           sec[t].next # NULL \/ sec[sec[t].prev].prev # NULL,
           PrevSwallows(sec, S, t)
    PROVE  Chained(S, top)
  <1> DEFINE n == sec[t].next
             p == sec[t].prev
  <1>0. /\ sec \in [Slot -> pmm_section_t] /\ S \in [Slot -> pmm_section_t]
        /\ \A s \in Slot : Joined(sec, top, s)
    BY DEF Chained, PrevSwallows
  <1>1. /\ p \in Slot /\ n # t /\ p # t /\ p # n /\ p # NULL /\ t # NULL
    BY Slots
  <1>2. /\ sec[p].next = t /\ sec[t].start = End(sec, p)
        /\ n # NULL => n \in Slot /\ sec[n].prev = t /\ sec[n].start = End(sec, t)
    BY <1>0, <1>1, Neighbours DEF Joined
  <1>3. /\ sec[p].start \in Int /\ sec[p].pages \in Nat /\ sec[t].start \in Int
        /\ sec[t].pages \in Nat
    BY <1>0, <1>1, FieldTypes
  <1>4. /\ S[p].prev = sec[p].prev /\ S[p].next = n /\ S[p].start = sec[p].start
        /\ S[p].pages = sec[p].pages + sec[t].pages
        /\ S[t] = Unlinked
        /\ \A s \in Slot \ {t, p} :
            /\ Same(sec, S, s) /\ S[s].next = sec[s].next
            /\ S[s].prev = IF s = n THEN p ELSE sec[s].prev
    BY DEF PrevSwallows
  <1>5. End(S, p) = End(sec, t)
    BY <1>2, <1>3, <1>4 DEF End
  <1>6. n # NULL \/ sec[p].prev # NULL
    OBVIOUS
  <1> HIDE DEF n, p
  <1>7. Joined(S, top, t)
    <2>1. sec[t].start >= 0 /\ End(sec, t) <= top
      BY <1>0 DEF Joined
    <2>2. S[t].prev = NULL /\ S[t].next = NULL /\ S[t].start = 0 /\ S[t].pages = 0
      BY <1>4 DEF Unlinked
    <2>3. 0 <= top /\ End(S, t) = 0
      BY <1>3, <2>1, <2>2 DEF End
    <2> QED BY <1>4, <2>2, <2>3 DEF Joined, Linked
  <1>8. Joined(S, top, p)
    <2>1. Joined(sec, top, p) /\ Joined(sec, top, t)
      BY <1>0, <1>1
    <2>2. n # NULL => S[n].prev = p /\ S[n].start = End(sec, t)
      BY <1>1, <1>2, <1>4 DEF Same
    <2>3. ASSUME sec[p].prev # NULL PROVE S[sec[p].prev].next = p
      <3>1. sec[p].prev \in Slot /\ sec[sec[p].prev].next = p
        BY <2>3, <1>1, Neighbours
      <3>2. sec[p].prev # t /\ sec[p].prev # p
        BY <3>1, <1>1, <1>2 DEF n
      <3> QED BY <3>1, <3>2, <1>4
    <2>4. Linked(sec, p) /\ Linked(sec, t)
      BY <1>1, <1>2 DEF Linked, p
    <2>5. n = NULL => End(sec, t) = top
      BY <2>1, <2>4 DEF Joined, n
    <2> QED BY <1>1, <1>4, <1>5, <1>6, <2>1, <2>2, <2>3, <2>4, <2>5 DEF Joined, Linked
  <1>9. ASSUME NEW s \in Slot \ {t, p} PROVE Joined(S, top, s)
    <2>1. /\ S[s].start = sec[s].start /\ S[s].free = sec[s].free /\ S[s].pages = sec[s].pages
          /\ S[s].next = sec[s].next /\ End(S, s) = End(sec, s)
          /\ S[s].prev = IF s = n THEN p ELSE sec[s].prev
      BY <1>4 DEF Same, End
    <2>2. Joined(sec, top, s)
      BY <1>0
    <2>3. ASSUME sec[s].next # NULL
          PROVE  S[sec[s].next].prev = s /\ S[sec[s].next].start = End(sec, s)
      <3>1. /\ sec[s].next \in Slot /\ sec[sec[s].next].prev = s
            /\ sec[sec[s].next].start = End(sec, s)
        BY <2>2, <2>3, Neighbours DEF Joined
      <3>2. sec[s].next # t /\ sec[s].next # n
        BY <3>1, <1>2, <2>3 DEF p
      <3> QED BY <3>1, <3>2, <1>4 DEF Same
    <2>4. CASE s = n
      <3>1. S[s].prev = p /\ S[p].next = s
        BY <2>1, <2>4, <1>4
      <3>2. Linked(sec, s)
        BY <2>4, <1>1, <1>2, Slots DEF Linked
      <3> QED BY <1>1, <2>1, <2>2, <2>3, <3>1, <3>2 DEF Joined, Linked
    <2>5. CASE s # n
      <3>1. ASSUME sec[s].prev # NULL PROVE S[sec[s].prev].next = s
        <4>1. sec[s].prev \in Slot /\ sec[sec[s].prev].next = s
          BY <3>1, Neighbours
        <4>2. sec[s].prev # t /\ sec[s].prev # p
          BY <4>1, <2>5, <1>2 DEF n
        <4> QED BY <4>1, <4>2, <1>4
      <3>2. sec[s] = Unlinked => S[s] = Unlinked
        BY <2>1, <2>5, <1>0 DEF Unlinked, pmm_section_t
      <3> QED BY <2>1, <2>2, <2>3, <2>5, <3>1, <3>2 DEF Joined, Linked
    <2> QED BY <2>4, <2>5
  <1>10. Linked(S, 0) /\ S[0].prev = NULL /\ S[0].start = 0
    <2>1. /\ Linked(sec, 0) /\ sec[0].prev = NULL /\ sec[0].start = 0
          /\ 0 # t /\ 0 # n
      BY <1>1, <1>2, Slots DEF Chained, p
    <2>2. CASE p = 0
      BY <2>1, <2>2, <1>4, <1>6 DEF Linked
    <2>3. CASE p # 0
      BY <2>1, <2>3, <1>4, Slots DEF Linked, Same
    <2> QED BY <2>2, <2>3
  <1> QED BY <1>0, <1>7, <1>8, <1>9, <1>10 DEF Chained

(* A border between neighbours that is moved does. *)
LEMMA BorderMovedChained ==
    ASSUME NEW sec, NEW S, NEW top \in Int, Chained(sec, top),
           NEW a \in Slot, NEW b \in Slot \ {a}, sec[a].next = b,
           NEW cut \in Int, sec[a].start <= cut, cut <= End(sec, b),
           BorderMoved(sec, S, a, b, cut)
    PROVE  Chained(S, top)
  <1>0. /\ sec \in [Slot -> pmm_section_t] /\ S \in [Slot -> pmm_section_t]
        /\ \A s \in Slot : Joined(sec, top, s)
    BY DEF Chained, BorderMoved
  <1>1. sec[b].prev = a /\ a # NULL /\ b # NULL
    BY <1>0, Slots DEF Joined
  <1>2. /\ S[a].start = sec[a].start /\ S[a].pages = cut - sec[a].start
        /\ S[b].start = cut /\ S[b].pages = End(sec, b) - cut
        /\ \A s \in Slot : S[s].prev = sec[s].prev /\ S[s].next = sec[s].next
                           /\ S[s].free = sec[s].free
        /\ \A s \in Slot \ {a, b} : Same(sec, S, s)
    BY DEF BorderMoved
  <1>3. /\ sec[a].start \in Int /\ sec[a].pages \in Nat
        /\ sec[b].start \in Int /\ sec[b].pages \in Nat
    BY <1>0, FieldTypes
  <1>4. End(S, a) = cut /\ End(S, b) = End(sec, b)
    BY <1>2, <1>3 DEF End
  <1>5. /\ sec[a].start >= 0 /\ End(sec, b) <= top /\ End(sec, b) \in Int
    BY <1>0, <1>3 DEF Joined, End
  <1>6. Joined(S, top, a)
    BY <1>0, <1>1, <1>2, <1>3, <1>4, <1>5, Neighbours DEF Joined, Linked
  <1>7. Joined(S, top, b)
    <2>1. Joined(sec, top, b)
      BY <1>0
    <2>2. ASSUME sec[b].next # NULL
          PROVE  S[sec[b].next].prev = b /\ S[sec[b].next].start = End(sec, b)
      <3>1. /\ sec[b].next \in Slot /\ sec[sec[b].next].prev = b
            /\ sec[sec[b].next].start = End(sec, b)
        BY <2>1, <2>2, Neighbours DEF Joined
      <3>2. sec[b].next # b
        BY <3>1, <1>1
      <3>3. CASE sec[b].next = a
        \* a cycle of two sections without pages: the border stays in place
        <4>1. sec[a].start = End(sec, b) /\ sec[b].start = End(sec, a)
          BY <3>1, <3>3, <1>0, <1>1 DEF Joined
        <4> QED BY <3>1, <3>3, <4>1, <1>2
      <3>4. CASE sec[b].next # a
        BY <3>1, <3>2, <3>4, <1>2 DEF Same
      <3> QED BY <3>3, <3>4
    <2>3. S[sec[b].prev].next = b
      BY <1>1, <1>2
    <2> QED BY <1>1, <1>2, <1>3, <1>4, <1>5, <2>1, <2>2, <2>3 DEF Joined, Linked
  <1>8. ASSUME NEW s \in Slot \ {a, b} PROVE Joined(S, top, s)
    <2>1. /\ S[s].start = sec[s].start /\ S[s].free = sec[s].free /\ S[s].pages = sec[s].pages
          /\ S[s].next = sec[s].next /\ S[s].prev = sec[s].prev /\ End(S, s) = End(sec, s)
      BY <1>2 DEF Same, End
    <2>2. Joined(sec, top, s)
      BY <1>0
    <2>3. ASSUME sec[s].next # NULL
          PROVE  S[sec[s].next].prev = s /\ S[sec[s].next].start = End(sec, s)
      <3>1. /\ sec[s].next \in Slot /\ sec[sec[s].next].prev = s
            /\ sec[sec[s].next].start = End(sec, s)
        BY <2>2, <2>3, Neighbours DEF Joined
      <3>2. sec[s].next # b
        BY <3>1, <1>1
      <3> QED BY <3>1, <3>2, <1>2 DEF Same
    <2>4. sec[s].prev # NULL => S[sec[s].prev].next = s
      BY <1>2, Neighbours
    <2>5. sec[s] = Unlinked => S[s] = Unlinked
      BY <2>1, <1>0 DEF Unlinked, pmm_section_t
    <2> QED BY <2>1, <2>2, <2>3, <2>4, <2>5 DEF Joined, Linked
  <1>9. Linked(S, 0) /\ S[0].prev = NULL /\ S[0].start = 0
    <2>1. Linked(sec, 0) /\ sec[0].prev = NULL /\ sec[0].start = 0 /\ 0 # b
      BY <1>1 DEF Chained
    <2> QED BY <2>1, <1>2, Slots DEF Linked, Same
  <1> QED BY <1>0, <1>6, <1>7, <1>8, <1>9 DEF Chained

(* Another type does. *)
LEMMA RetypedChained ==
    ASSUME NEW sec, NEW S, NEW top \in Int, Chained(sec, top),
           NEW t \in Slot, Linked(sec, t), NEW type, Retyped(sec, S, t, type)
    PROVE  Chained(S, top)
  <1>0. /\ sec \in [Slot -> pmm_section_t] /\ S \in [Slot -> pmm_section_t]
        /\ \A s \in Slot : Joined(sec, top, s)
    BY DEF Chained, Retyped
  <1>1. ASSUME NEW s \in Slot PROVE Joined(S, top, s)
    <2>1. /\ S[s].start = sec[s].start /\ S[s].pages = sec[s].pages
          /\ S[s].next = sec[s].next /\ S[s].prev = sec[s].prev /\ End(S, s) = End(sec, s)
      BY DEF Retyped, End
    <2>2. Joined(sec, top, s)
      BY <1>0
    <2>3. sec[s].next # NULL =>
            S[sec[s].next].prev = s /\ S[sec[s].next].start = End(sec, s)
      BY <2>2, Neighbours DEF Retyped, Joined
    <2>4. sec[s].prev # NULL => S[sec[s].prev].next = s
      BY Neighbours DEF Retyped
    <2>5. sec[s] = Unlinked => S[s] = Unlinked
      <3>1. sec[s] = Unlinked => s # t
        BY DEF Unlinked, Linked
      <3> QED BY <2>1, <3>1, <1>0 DEF Unlinked, pmm_section_t, Retyped
    <2> QED BY <2>1, <2>2, <2>3, <2>4, <2>5 DEF Joined, Linked
  <1>2. Linked(S, 0) /\ S[0].prev = NULL /\ S[0].start = 0
    BY Slots DEF Retyped, Chained, Linked
  <1> QED BY <1>0, <1>1, <1>2 DEF Chained

-----------------------------------------------------------------------------
(* Every operation leaves every page in one section.  A page keeps the type  *)
(* of its section, or one page gets another.                               *)

Keeps(sec, S) ==
    \A s \in Slot, p \in Int : Has(S, s, p) =>
        \E u \in Slot : Has(sec, u, p) /\ sec[u].free = S[s].free

Retypes(sec, S, q, type) ==
    \A s \in Slot, p \in Int : Has(S, s, p) =>
        /\ p = q => S[s].free = type
        /\ p # q => \E u \in Slot : Has(sec, u, p) /\ sec[u].free = S[s].free

(* A division moves no page to another type. *)
LEMMA DividedPages ==
    ASSUME NEW sec, NEW S, NEW top \in Int, Shape(sec, top),
           NEW t \in Slot, Linked(sec, t), NEW n \in Slot, ~Linked(sec, n),
           NEW at \in Int, sec[t].start <= at, at < End(sec, t), Divided(sec, S, t, at, n)
    PROVE  Shape(S, top) /\ Keeps(sec, S)
  <1>1. Chained(sec, top) /\ Covered(sec, top) /\ Apart(sec)
    BY DEF Shape
  <1>2. Chained(S, top)
    BY <1>1, DividedChained
  <1>3. /\ n # t /\ n # NULL /\ t # NULL
        /\ sec[t].start \in Int /\ sec[t].pages \in Nat
        /\ S[t].free = sec[t].free /\ S[n].free = sec[t].free
    BY <1>1, Slots, FieldTypes DEF Chained, Divided
  <1>4. ASSUME NEW p \in Int PROVE Has(S, t, p) <=> Has(sec, t, p) /\ p < at
    BY <1>3 DEF Divided, Has, Linked, End
  <1>5. ASSUME NEW p \in Int PROVE Has(S, n, p) <=> Has(sec, t, p) /\ at <= p
    BY <1>3 DEF Divided, Has, Linked, End
  <1>6. ASSUME NEW s \in Slot \ {t, n}, NEW p \in Int
        PROVE  (Has(S, s, p) <=> Has(sec, s, p)) /\ S[s].free = sec[s].free
    <2>1. s = sec[t].next => sec[s].prev = t
      BY <1>1, <1>3, Slots DEF Chained, Joined
    <2> QED BY <1>3, <2>1 DEF Divided, Has, Linked, End, Same
  <1>7. \A p \in Int : ~Has(sec, n, p)
    BY DEF Has
  <1>8. Covered(S, top)
    BY <1>1, <1>4, <1>5, <1>6, <1>7 DEF Covered
  <1>9. Apart(S)
    BY <1>1, <1>4, <1>5, <1>6, <1>7 DEF Apart
  <1>10. Keeps(sec, S)
    BY <1>3, <1>4, <1>5, <1>6 DEF Keeps
  <1> QED BY <1>2, <1>8, <1>9, <1>10 DEF Shape

(* Nor does a merge with a next section of the type, or from an empty one. *)
LEMMA NextSwallowsPages ==
    ASSUME NEW sec, NEW S, NEW top \in Int, Shape(sec, top), NEW t \in Slot,
           sec[t].next \in Slot \ {t}, sec[t].prev \in Slot \ {t, sec[t].next},
           sec[t].free = sec[sec[t].next].free \/ sec[t].pages = 0,
           NextSwallows(sec, S, t)
    PROVE  Shape(S, top) /\ Keeps(sec, S)
  <1> DEFINE n == sec[t].next
  <1>1. Chained(sec, top) /\ Covered(sec, top) /\ Apart(sec)
    BY DEF Shape
  <1>2. Chained(S, top)
    BY <1>1, NextSwallowsChained
  <1>3. /\ n # t /\ n \in Slot /\ n # NULL /\ t # NULL
        /\ sec[t].start \in Int /\ sec[t].pages \in Nat
        /\ sec[n].start \in Int /\ sec[n].pages \in Nat
        /\ S[n].free = sec[n].free /\ sec[n].start = End(sec, t)
        /\ sec[t].prev # NULL /\ sec[n].prev = t
    BY <1>1, Slots, FieldTypes DEF Chained, NextSwallows, Joined
  <1>4. ASSUME NEW p \in Int PROVE ~Has(S, t, p)
    BY DEF NextSwallows, Has, Linked, Unlinked
  <1>5. ASSUME NEW p \in Int PROVE Has(S, n, p) <=> Has(sec, t, p) \/ Has(sec, n, p)
    BY <1>3 DEF NextSwallows, Has, Linked, End
  <1>6. ASSUME NEW s \in Slot \ {t, n}, NEW p \in Int
        PROVE  (Has(S, s, p) <=> Has(sec, s, p)) /\ S[s].free = sec[s].free
    <2>1. s = sec[t].prev => sec[s].next = t
      BY <1>1, <1>3, Slots DEF Chained, Joined
    <2> QED BY <1>3, <2>1 DEF NextSwallows, Has, Linked, End, Same
  <1>7. ASSUME NEW p \in Int, Has(sec, t, p) PROVE sec[t].free = S[n].free
    BY <1>3, <1>7 DEF Has, End
  <1> HIDE DEF n
  <1>8. Covered(S, top)
    BY <1>1, <1>3, <1>5, <1>6 DEF Covered
  <1>9. Apart(S)
    BY <1>1, <1>3, <1>4, <1>5, <1>6 DEF Apart
  <1>10. Keeps(sec, S)
    BY <1>3, <1>4, <1>5, <1>6, <1>7 DEF Keeps
  <1> QED BY <1>2, <1>8, <1>9, <1>10 DEF Shape

(* Nor does a merge with a section before of the type. *)
LEMMA PrevSwallowsPages ==
    ASSUME NEW sec, NEW S, NEW top \in Int, Shape(sec, top), NEW t \in Slot,
           sec[t].prev \in Slot \ {t}, sec[t].next \notin {t, sec[t].prev},
           sec[t].next # NULL \/ sec[sec[t].prev].prev # NULL,
           sec[t].free = sec[sec[t].prev].free,
           PrevSwallows(sec, S, t)
    PROVE  Shape(S, top) /\ Keeps(sec, S)
  <1> DEFINE q == sec[t].prev
  <1>1. Chained(sec, top) /\ Covered(sec, top) /\ Apart(sec)
    BY DEF Shape
  <1>2. Chained(S, top)
    BY <1>1, PrevSwallowsChained
  <1>3. /\ q # t /\ q \in Slot /\ q # NULL /\ t # NULL
        /\ sec[t].start \in Int /\ sec[t].pages \in Nat
        /\ sec[q].start \in Int /\ sec[q].pages \in Nat
        /\ S[q].free = sec[t].free /\ sec[q].next = t /\ sec[t].start = End(sec, q)
    <2>1. q # t /\ q \in Slot /\ q # NULL /\ t # NULL
      BY Slots
    <2>2. sec \in [Slot -> pmm_section_t]
      BY <1>1 DEF Chained
    <2>3. sec[q].next = t /\ sec[t].start = End(sec, q)
      BY <1>1, <2>1, Neighbours
    <2>4. S[q].free = sec[t].free
      BY DEF PrevSwallows
    <2> QED BY <2>1, <2>2, <2>3, <2>4, FieldTypes
  <1>4. ASSUME NEW p \in Int PROVE ~Has(S, t, p)
    BY DEF PrevSwallows, Has, Linked, Unlinked
  <1>5. ASSUME NEW p \in Int PROVE Has(S, q, p) <=> Has(sec, t, p) \/ Has(sec, q, p)
    BY <1>3 DEF PrevSwallows, Has, Linked, End
  <1>6. ASSUME NEW s \in Slot \ {t, q}, NEW p \in Int
        PROVE  (Has(S, s, p) <=> Has(sec, s, p)) /\ S[s].free = sec[s].free
    <2>1. s = sec[t].next => sec[s].prev = t
      BY <1>1, <1>3, Slots DEF Chained, Joined
    <2> QED BY <1>3, <2>1 DEF PrevSwallows, Has, Linked, End, Same
  <1>7. sec[q].free = sec[t].free
    OBVIOUS
  <1> HIDE DEF q
  <1>8. Covered(S, top)
    BY <1>1, <1>3, <1>5, <1>6 DEF Covered
  <1>9. Apart(S)
    BY <1>1, <1>3, <1>4, <1>5, <1>6 DEF Apart
  <1>10. Keeps(sec, S)
    BY <1>3, <1>4, <1>5, <1>6, <1>7 DEF Keeps
  <1> QED BY <1>2, <1>8, <1>9, <1>10 DEF Shape

(* The page the border passes gets the type of the section that takes it.    *)
LEMMA BorderMovedPages ==
    ASSUME NEW sec, NEW S, NEW top \in Int, Shape(sec, top),
           NEW a \in Slot, NEW b \in Slot \ {a}, sec[a].next = b,
           NEW cut \in Int, sec[a].start <= cut, cut <= End(sec, b),
           BorderMoved(sec, S, a, b, cut)
    PROVE  /\ Shape(S, top)
           /\ cut = sec[b].start + 1 => Retypes(sec, S, cut - 1, sec[a].free)
           /\ cut = sec[b].start - 1 => Retypes(sec, S, cut, sec[b].free)
  <1>1. Chained(sec, top) /\ Covered(sec, top) /\ Apart(sec)
    BY DEF Shape
  <1>2. Chained(S, top)
    BY <1>1, BorderMovedChained
  <1>3. /\ sec[a].start \in Int /\ sec[a].pages \in Nat
        /\ sec[b].start \in Int /\ sec[b].pages \in Nat
        /\ sec[b].start = End(sec, a) /\ sec[b].prev = a /\ a # NULL /\ b # NULL
        /\ S[a].free = sec[a].free /\ S[b].free = sec[b].free
    BY <1>1, Slots, FieldTypes DEF Chained, Joined, BorderMoved
  <1>4. ASSUME NEW p \in Int
        PROVE  /\ Has(sec, a, p) <=> sec[a].start <= p /\ p < sec[b].start
               /\ Has(sec, b, p) <=> sec[b].start <= p /\ p < End(sec, b)
               /\ Has(S, a, p) <=> sec[a].start <= p /\ p < cut
               /\ Has(S, b, p) <=> cut <= p /\ p < End(sec, b)
    BY <1>3 DEF BorderMoved, Has, Linked, End
  <1>5. ASSUME NEW s \in Slot \ {a, b}, NEW p \in Int
        PROVE  (Has(S, s, p) <=> Has(sec, s, p)) /\ S[s].free = sec[s].free
    BY DEF BorderMoved, Has, Linked, End, Same
  <1>6. ASSUME NEW p \in Int
        PROVE  Has(sec, a, p) \/ Has(sec, b, p) <=> Has(S, a, p) \/ Has(S, b, p)
    BY <1>3, <1>4 DEF End
  <1>7. ASSUME NEW p \in Int PROVE ~(Has(S, a, p) /\ Has(S, b, p))
    BY <1>4
  <1>8. Covered(S, top)
    BY <1>1, <1>5, <1>6 DEF Covered
  <1>9. Apart(S)
    BY <1>1, <1>5, <1>6, <1>7 DEF Apart
  <1>10. ASSUME cut = sec[b].start + 1 PROVE Retypes(sec, S, cut - 1, sec[a].free)
    <2>1. ASSUME NEW p \in Int
          PROVE  /\ Has(S, a, p) /\ p # cut - 1 => Has(sec, a, p)
                 /\ Has(S, b, p) => Has(sec, b, p) /\ p # cut - 1
                 /\ p = cut - 1 => Has(S, a, p)
      BY <1>3, <1>4, <1>10 DEF End
    <2>2. ASSUME NEW s \in Slot \ {a, b}, NEW p \in Int, Has(S, s, p) PROVE p # cut - 1
      BY <2>1, <2>2, <1>9 DEF Apart
    <2> QED BY <1>3, <1>5, <2>1, <2>2 DEF Retypes
  <1>11. ASSUME cut = sec[b].start - 1 PROVE Retypes(sec, S, cut, sec[b].free)
    <2>1. ASSUME NEW p \in Int
          PROVE  /\ Has(S, b, p) /\ p # cut => Has(sec, b, p)
                 /\ Has(S, a, p) => Has(sec, a, p) /\ p # cut
                 /\ p = cut => Has(S, b, p)
      BY <1>3, <1>4, <1>11 DEF End
    <2>2. ASSUME NEW s \in Slot \ {a, b}, NEW p \in Int, Has(S, s, p) PROVE p # cut
      BY <2>1, <2>2, <1>9 DEF Apart
    <2> QED BY <1>3, <1>5, <2>1, <2>2 DEF Retypes
  <1> QED BY <1>2, <1>8, <1>9, <1>10, <1>11 DEF Shape

(* The type of a section of one page is the type of that page. *)
LEMMA RetypedPages ==
    ASSUME NEW sec, NEW S, NEW top \in Int, Shape(sec, top),
           NEW t \in Slot, Linked(sec, t), NEW type, Retyped(sec, S, t, type),
           sec[t].pages = 1
    PROVE  Shape(S, top) /\ Retypes(sec, S, sec[t].start, type)
  <1>1. Chained(sec, top) /\ Covered(sec, top) /\ Apart(sec)
    BY DEF Shape
  <1>2. Chained(S, top)
    BY <1>1, RetypedChained
  <1>3. sec[t].start \in Int
    BY <1>1, FieldTypes DEF Chained
  <1>4. ASSUME NEW s \in Slot, NEW p \in Int PROVE Has(S, s, p) <=> Has(sec, s, p)
    BY DEF Retyped, Has, Linked, End
  <1>5. ASSUME NEW p \in Int PROVE Has(sec, t, p) <=> p = sec[t].start
    BY <1>3 DEF Has, End
  <1>6. Covered(S, top) /\ Apart(S)
    BY <1>1, <1>4 DEF Covered, Apart
  <1>7. Retypes(sec, S, sec[t].start, type)
    <2>1. ASSUME NEW s \in Slot, NEW p \in Int, Has(S, s, p)
          PROVE  /\ p = sec[t].start => s = t
                 /\ p # sec[t].start => s # t
      BY <2>1, <1>1, <1>3, <1>4, <1>5 DEF Apart
    <2> QED BY <1>4, <2>1 DEF Retypes, Retyped
  <1> QED BY <1>2, <1>6, <1>7 DEF Shape

-----------------------------------------------------------------------------
(* What that means for the free pages and for the memory free at boot.       *)

(* The pages of a section are pages of memory. *)
LEMMA Inside ==
    ASSUME NEW sec, NEW top \in Int, Chained(sec, top), NEW s \in Slot, NEW p \in Int,
           Has(sec, s, p)
    PROVE  p \in 0 .. top - 1
  <1>1. sec[s].start \in Int /\ sec[s].pages \in Nat
    BY FieldTypes DEF Chained
  <1>2. Joined(sec, top, s)
    BY DEF Chained
  <1> QED BY <1>1, <1>2 DEF Joined, Has, End

(* When every page keeps its type, the free pages are the same. *)
LEMMA KeepsFree ==
    ASSUME NEW sec, NEW S, NEW top \in Int, Shape(sec, top), Shape(S, top), Keeps(sec, S)
    PROVE  FreeOf(S) = FreeOf(sec)
  <1>1. ASSUME NEW p \in FreeOf(S) PROVE p \in FreeOf(sec)
    BY DEF FreeOf, Keeps
  <1>2. ASSUME NEW p \in FreeOf(sec) PROVE p \in FreeOf(S)
    <2>1. PICK s \in Slot : p \in Int /\ Has(sec, s, p) /\ sec[s].free = PMM_SECTION_FREE
      BY DEF FreeOf
    <2>2. PICK u \in Slot : Has(S, u, p)
      BY <2>1, Inside DEF Shape, Covered
    <2>3. PICK v \in Slot : Has(sec, v, p) /\ sec[v].free = S[u].free
      BY <2>1, <2>2 DEF Keeps
    <2>4. v = s
      BY <2>1, <2>3 DEF Shape, Apart
    <2> QED BY <2>1, <2>2, <2>3, <2>4 DEF FreeOf
  <1> QED BY <1>1, <1>2

(* When every page keeps its type, no memory becomes bad. *)
LEMMA KeepsRam ==
    ASSUME NEW sec, NEW S, NEW ram \in SUBSET Int, RamKept(sec, ram), Keeps(sec, S)
    PROVE  RamKept(S, ram)
  BY DEF RamKept, Keeps

(* One page that gets a type is freed or taken. *)
LEMMA RetypesFree ==
    ASSUME NEW sec, NEW S, NEW top \in Int, Shape(sec, top), Shape(S, top),
           NEW q \in 0 .. top - 1, NEW type, Retypes(sec, S, q, type)
    PROVE  /\ type = PMM_SECTION_FREE => FreeOf(S) = FreeOf(sec) \cup {q}
           /\ type # PMM_SECTION_FREE => FreeOf(S) = FreeOf(sec) \ {q}
  <1>1. ASSUME NEW p \in Int, p # q PROVE p \in FreeOf(S) <=> p \in FreeOf(sec)
    <2>1. ASSUME p \in FreeOf(S) PROVE p \in FreeOf(sec)
      BY <1>1, <2>1 DEF FreeOf, Retypes
    <2>2. ASSUME p \in FreeOf(sec) PROVE p \in FreeOf(S)
      <3>1. PICK s \in Slot : p \in Int /\ Has(sec, s, p) /\ sec[s].free = PMM_SECTION_FREE
        BY <2>2 DEF FreeOf
      <3>2. PICK u \in Slot : Has(S, u, p)
        BY <3>1, Inside DEF Shape, Covered
      <3>3. PICK v \in Slot : Has(sec, v, p) /\ sec[v].free = S[u].free
        BY <1>1, <3>1, <3>2 DEF Retypes
      <3>4. v = s
        BY <3>1, <3>3 DEF Shape, Apart
      <3> QED BY <3>1, <3>2, <3>3, <3>4 DEF FreeOf
    <2> QED BY <2>1, <2>2
  <1>2. PICK u \in Slot : Has(S, u, q)
    BY DEF Shape, Covered
  <1>3. S[u].free = type
    BY <1>2 DEF Retypes
  <1>4. q \in FreeOf(S) => type = PMM_SECTION_FREE
    BY DEF FreeOf, Retypes
  <1>5. type = PMM_SECTION_FREE => q \in FreeOf(S)
    BY <1>2, <1>3 DEF FreeOf
  <1>6. FreeOf(S) \subseteq Int /\ FreeOf(sec) \subseteq Int
    BY DEF FreeOf
  <1> HIDE DEF FreeOf
  <1> QED BY <1>1, <1>4, <1>5, <1>6

(* A page that gets a type other than bad makes no memory bad. *)
LEMMA RetypesRam ==
    ASSUME NEW sec, NEW S, NEW ram \in SUBSET Int, RamKept(sec, ram),
           NEW q, NEW type, type # PMM_SECTION_BAD, Retypes(sec, S, q, type)
    PROVE  RamKept(S, ram)
  BY DEF RamKept, Retypes

(* Two operations that keep the types keep them. *)
LEMMA KeepsThenKeeps ==
    ASSUME NEW sec, NEW M, NEW S, Keeps(sec, M), Keeps(M, S)
    PROVE  Keeps(sec, S)
  BY DEF Keeps

(* A page gets a type after an operation that keeps the types, *)
LEMMA KeepsThenRetypes ==
    ASSUME NEW sec, NEW M, NEW S, NEW q, NEW type, Keeps(sec, M), Retypes(M, S, q, type)
    PROVE  Retypes(sec, S, q, type)
  BY DEF Keeps, Retypes

(* or before one. *)
LEMMA RetypesThenKeeps ==
    ASSUME NEW sec, NEW M, NEW S, NEW q, NEW type, Retypes(sec, M, q, type), Keeps(M, S)
    PROVE  Retypes(sec, S, q, type)
  BY DEF Keeps, Retypes

-----------------------------------------------------------------------------
(* pmm_section_split finds a header that is not in the list, or faults.      *)

(* Every set of natural numbers that is not empty has a least member.        *)
LEMMA LeastMember ==
    ASSUME NEW T \in SUBSET Nat, T # {}
    PROVE  \E m \in T : \A k \in T : m <= k
  <1> DEFINE R == {ss \in Nat \X Nat : ss[1] < ss[2]}
  <1>1. IsWellFoundedOn(OpToRel(<, Nat), Nat)
    BY NatLessThanWellFounded
  <1>2. IsWellFoundedOn(R, Nat)
    BY <1>1 DEF OpToRel
  <1>3. PICK m \in T : \A k \in T : ~(<<k, m>> \in R)
    BY <1>2, WFMin
  <1>4. ASSUME NEW k \in T PROVE m <= k
    <2>1. k \in Nat /\ m \in Nat /\ <<k, m>> \in Nat \X Nat
      OBVIOUS
    <2>2. ~(k < m)
      BY <1>3, <2>1
    <2> QED BY <2>1, <2>2
  <1> QED BY <1>4

(* pmm_new_section finds a header out of the list, or none. *)
LEMMA NewSectionUnlinked ==
    ASSUME NEW L, L.head \in 0 .. NSlots
    PROVE  pmm_new_section(L) # NULL =>
             pmm_new_section(L) \in Slot /\ ~Linked(L.sec, pmm_new_section(L))
  <1> DEFINE T == {s \in Slot : ~Linked(L.sec, s)}
             r == pmm_section_manager_reindex(L.sec)
  <1>1. CASE L.head >= NSlots
    BY <1>1 DEF pmm_new_section
  <1>2. CASE ~(L.head >= NSlots) /\ ~Linked(L.sec, L.head)
    <2>1. L.head \in Slot
      BY <1>2, Slots DEF Slot
    <2> QED BY <1>2, <2>1 DEF pmm_new_section
  <1>3. CASE ~(L.head >= NSlots) /\ Linked(L.sec, L.head)
    <2>1. pmm_new_section(L) = IF Linked(L.sec, r) THEN NULL ELSE r
      BY <1>3 DEF pmm_new_section
    <2>2. r \in Slot
      <3>1. CASE T = {}
        BY <3>1, Slots DEF pmm_section_manager_reindex
      <3>2. CASE T # {}
        <4>1. T \subseteq Nat
          BY Slots
        <4>2. PICK m \in T : \A k \in T : m <= k
          BY <3>2, <4>1, LeastMember
        <4>3. m \in Slot /\ ~Linked(L.sec, m) /\ \A t \in Slot : t < m => Linked(L.sec, t)
          BY <4>1, <4>2
        <4>4. r = CHOOSE s \in Slot : /\ ~Linked(L.sec, s)
                                      /\ \A t \in Slot : t < s => Linked(L.sec, t)
          BY <4>3 DEF pmm_section_manager_reindex
        <4> HIDE DEF r, T
        <4> QED BY <4>3, <4>4
      <3> QED BY <3>1, <3>2
    <2> QED BY <2>1, <2>2
  <1> QED BY <1>1, <1>2, <1>3

(* A list as the functions hand it on. *)
IsList(L) == L = [sec |-> L.sec, head |-> L.head] /\ L.head \in 0 .. NSlots

(* A split that finds a header divides the section. *)
LEMMA SplitDone ==
    ASSUME NEW L, IsList(L), NEW top \in Int, Shape(L.sec, top),
           NEW t \in Slot, Linked(L.sec, t), NEW at \in Int,
           L.sec[t].start <= at, at < End(L.sec, t),
           NEW R, R = pmm_section_split(L, t, at), R.head # NULL
    PROVE  /\ IsList(R)
           /\ \E n \in Slot \ {t} : ~Linked(L.sec, n) /\ Divided(L.sec, R.sec, t, at, n)
  <1> DEFINE n == pmm_new_section(L)
  <1>1. L.sec \in [Slot -> pmm_section_t] /\ End(L.sec, t) \in Int
    BY FieldTypes DEF Shape, Chained, End
  <1>2. R = IF n = NULL THEN Faulted(L)
            ELSE [sec |-> SplitInto(L.sec, t, at, n), head |-> n + 1]
    BY <1>1 DEF pmm_section_split
  <1>3. n # NULL
    <2>1. SUFFICES ASSUME n = NULL PROVE FALSE
      OBVIOUS
    <2>2. R = [L EXCEPT !.head = NULL]
      BY <1>2, <2>1 DEF Faulted
    <2>3. L = [sec |-> L.sec, head |-> L.head]
      BY DEF IsList
    <2> QED BY <2>2, <2>3
  <1>4. n \in Slot /\ ~Linked(L.sec, n)
    BY <1>3, NewSectionUnlinked DEF IsList
  <1> HIDE DEF n
  <1>5. R.sec = SplitInto(L.sec, t, at, n) /\ R.head = n + 1 /\ R = [sec |-> R.sec, head |-> R.head]
    BY <1>2, <1>3
  <1>6. n + 1 \in 0 .. NSlots
    BY <1>4, Slots DEF Slot
  <1>7. n # t /\ L.sec[t].next \notin {t, n}
    <2>1. Joined(L.sec, top, t) /\ L.sec[t].start \in Int /\ L.sec[t].pages \in Nat
      BY <1>1, FieldTypes DEF Shape, Chained
    <2>2. L.sec[t].next # t
      BY <2>1, Slots DEF Joined, End
    <2>3. L.sec[t].next # n
      BY <1>3, <1>4, Neighbours DEF Shape
    <2> QED BY <1>4, <2>2, <2>3
  <1>8. Divided(L.sec, SplitInto(L.sec, t, at, n), t, at, n)
    BY <1>1, <1>4, <1>7, SplitDivides
  <1> QED BY <1>4, <1>5, <1>6, <1>7, <1>8 DEF IsList

(* A section that ends before `at' is left alone, and a fault leaves no list. *)
LEMMA SplitOtherwise ==
    ASSUME NEW L, IsList(L), NEW t \in Slot, NEW at \in Int, NEW R, R = pmm_section_split(L, t, at)
    PROVE  /\ at >= End(L.sec, t) => R = L
           /\ R.head = NULL => R = [sec |-> L.sec, head |-> NULL]
  <1>1. L = [sec |-> L.sec, head |-> L.head] /\ L.head \in 0 .. NSlots
    BY DEF IsList
  <1>2. Faulted(L) = [sec |-> L.sec, head |-> NULL]
    <2>1. Faulted(L) = [L EXCEPT !.head = NULL]
      BY DEF Faulted
    <2> QED BY <1>1, <2>1
  <1>3. pmm_new_section(L) # NULL => pmm_new_section(L) \in Slot
    BY <1>1, NewSectionUnlinked
  <1>4. R = IF at >= End(L.sec, t) THEN L
            ELSE IF pmm_new_section(L) = NULL THEN Faulted(L)
            ELSE [sec |-> SplitInto(L.sec, t, at, pmm_new_section(L)),
                  head |-> pmm_new_section(L) + 1]
    BY DEF pmm_section_split
  <1>5. ASSUME ~(at >= End(L.sec, t)), pmm_new_section(L) # NULL PROVE R.head # NULL
    <2>1. R.head = pmm_new_section(L) + 1
      BY <1>4, <1>5
    <2>2. pmm_new_section(L) \in Nat
      BY <1>3, <1>5, Slots
    <2>3. \A k \in Nat : k + 1 # NULL
      BY DEF NULL
    <2> QED BY <2>1, <2>2, <2>3
  <1>6. L.head # NULL
    BY <1>1, Slots
  <1>7. ASSUME R.head = NULL PROVE R = Faulted(L)
    BY <1>4, <1>5, <1>6, <1>7
  <1>8. at >= End(L.sec, t) => R = L
    BY <1>4
  <1> QED BY <1>2, <1>7, <1>8

(* What a section's header and the next one's are when its first page, or its *)
(* only one, has been given another type.                                  *)
FirstOff(sec, S, t, type) ==
    /\ S[t].free = type /\ S[t].pages = 1 /\ S[t].start = sec[t].start
    /\ \/ /\ sec[t].pages = 1 /\ S[t].next = sec[t].next
          /\ \A s \in Slot \ {t} : /\ Same(sec, S, s) /\ S[s].next = sec[s].next
                                   /\ Linked(S, s) <=> Linked(sec, s)
       \/ \E n \in Slot \ {t} :
            /\ ~Linked(sec, n) /\ S[t].next = n /\ S[n].next = sec[t].next
            /\ S[n].free = sec[t].free /\ S[n].pages # 0
            /\ \A s \in Slot \ {t, n} : /\ Same(sec, S, s) /\ S[s].next = sec[s].next
                                        /\ Linked(S, s) <=> Linked(sec, s)

(* The first page of a section is cut off and gets a type. *)
LEMMA FirstCut ==
    ASSUME NEW L, IsList(L), NEW top \in Int, Shape(L.sec, top),
           NEW t \in Slot, Linked(L.sec, t), L.sec[t].pages # 0, NEW type \in Type,
           NEW R, R = SetType(pmm_section_split(L, t, L.sec[t].start + 1), t, type),
           R.head # NULL
    PROVE  /\ IsList(R) /\ Shape(R.sec, top)
           /\ Retypes(L.sec, R.sec, L.sec[t].start, type)
           /\ FirstOff(L.sec, R.sec, t, type)
  <1> DEFINE at == L.sec[t].start + 1
             M  == pmm_section_split(L, t, at)
  <1>1. /\ L.sec \in [Slot -> pmm_section_t] /\ L.sec[t].start \in Int
        /\ L.sec[t].pages \in Nat /\ Chained(L.sec, top)
    BY FieldTypes DEF Shape, Chained
  <1>2. at \in Int /\ L.sec[t].start <= at /\ (L.sec[t].pages # 1 => at < End(L.sec, t))
        /\ (L.sec[t].pages = 1 => at >= End(L.sec, t))
    BY <1>1 DEF End
  <1>3. R = SetType(M, t, type)
    OBVIOUS
  <1>4. M.head = NULL => M = [sec |-> L.sec, head |-> NULL]
    BY <1>2, SplitOtherwise
  <1>5. M.head # NULL
    <2>1. SUFFICES ASSUME M.head = NULL PROVE FALSE
      OBVIOUS
    <2>2. M = [sec |-> M.sec, head |-> M.head] /\ M.sec = L.sec
      BY <1>4, <2>1
    <2>3. R.head = M.head
      <3> HIDE DEF M
      <3> QED BY <1>1, <1>3, <2>2, SetTypeRetypes
    <2> QED BY <2>1, <2>3
  <1>6. CASE L.sec[t].pages = 1
    <2>1. M = L
      BY <1>2, <1>6, SplitOtherwise
    <2> HIDE DEF M
    <2>2. L = [sec |-> L.sec, head |-> L.head]
      BY DEF IsList
    <2>3. Retyped(L.sec, R.sec, t, type) /\ R.head = L.head
      BY <1>1, <1>3, <2>1, <2>2, SetTypeRetypes
    <2>4. R = [sec |-> R.sec, head |-> R.head]
      BY <1>3, <2>1, <2>2 DEF SetType
    <2>5. Shape(R.sec, top) /\ Retypes(L.sec, R.sec, L.sec[t].start, type)
      BY <1>6, <2>3, RetypedPages
    <2>6. FirstOff(L.sec, R.sec, t, type)
      BY <1>6, <2>3 DEF FirstOff, Retyped, Same, Linked
    <2> QED BY <2>3, <2>4, <2>5, <2>6 DEF IsList
  <1>7. CASE L.sec[t].pages # 1
    <2>1. IsList(M) /\ \E n \in Slot \ {t} : ~Linked(L.sec, n) /\ Divided(L.sec, M.sec, t, at, n)
      BY <1>2, <1>5, <1>7, SplitDone
    <2> HIDE DEF M
    <2>2. PICK n \in Slot \ {t} : ~Linked(L.sec, n) /\ Divided(L.sec, M.sec, t, at, n)
      BY <2>1
    <2>3. Shape(M.sec, top) /\ Keeps(L.sec, M.sec)
      BY <1>2, <1>7, <2>2, DividedPages
    <2>4. M = [sec |-> M.sec, head |-> M.head]
      BY <2>1 DEF IsList
    <2>5. M.sec \in [Slot -> pmm_section_t]
      BY <2>3 DEF Shape, Chained
    <2>6. Retyped(M.sec, R.sec, t, type) /\ R.head = M.head
      BY <1>3, <2>4, <2>5, SetTypeRetypes
    <2>7. R = [sec |-> R.sec, head |-> R.head]
      BY <1>3, <2>4 DEF SetType
    <2>8. /\ M.sec[t].pages = 1 /\ M.sec[t].start = L.sec[t].start /\ M.sec[t].next = n
          /\ M.sec[n].pages # 0 /\ M.sec[n].free = L.sec[t].free /\ M.sec[n].next = L.sec[t].next
      BY <1>1, <1>7, <2>2 DEF Divided, End
    <2>9. Linked(M.sec, t)
      BY <2>8, Slots DEF Linked
    <2>10. Shape(R.sec, top) /\ Retypes(M.sec, R.sec, L.sec[t].start, type)
      BY <2>3, <2>6, <2>8, <2>9, RetypedPages
    <2>11. Retypes(L.sec, R.sec, L.sec[t].start, type)
      BY <2>3, <2>10, KeepsThenRetypes
    <2>12. ASSUME NEW s \in Slot \ {t, n}
           PROVE  /\ Same(L.sec, R.sec, s) /\ R.sec[s].next = L.sec[s].next
                  /\ Linked(R.sec, s) <=> Linked(L.sec, s)
      <3>1. /\ Same(L.sec, M.sec, s) /\ M.sec[s].next = L.sec[s].next
            /\ M.sec[s].prev = IF s = L.sec[t].next THEN n ELSE L.sec[s].prev
        BY <2>2 DEF Divided
      <3>2. Same(L.sec, R.sec, s) /\ R.sec[s].next = L.sec[s].next /\ R.sec[s].prev = M.sec[s].prev
        BY <2>6, <3>1 DEF Retyped, Same
      <3>3. s = L.sec[t].next => L.sec[s].prev = t
        BY <1>1, Slots DEF Chained, Joined
      <3> QED BY <3>1, <3>2, <3>3, Slots DEF Linked
    <2>13. FirstOff(L.sec, R.sec, t, type)
      <3>1. /\ R.sec[t].free = type /\ R.sec[t].pages = 1 /\ R.sec[t].start = L.sec[t].start
            /\ R.sec[t].next = n /\ R.sec[n].next = L.sec[t].next
            /\ R.sec[n].free = L.sec[t].free /\ R.sec[n].pages # 0
        BY <2>6, <2>8 DEF Retyped
      <3> QED BY <2>2, <2>12, <3>1 DEF FirstOff
    <2> QED BY <2>1, <2>6, <2>7, <2>10, <2>11, <2>13 DEF IsList
  <1> QED BY <1>6, <1>7

-----------------------------------------------------------------------------
(* No two free sections come to stand side by side, and what is left empty   *)
(* is free.                                                                *)

(* A section's neighbours are two, and not itself.                          *)
LEMMA Distinct ==
    ASSUME NEW sec, NEW top \in Int, Chained(sec, top), Tidy(sec), NEW t \in Slot
    PROVE  /\ sec[t].next # t /\ sec[t].prev # t
           /\ sec[t].next # NULL => sec[t].next # sec[t].prev
  <1>1. ASSUME NEW s \in Slot, sec[s].next = s PROVE FALSE
    <2>1. s # NULL /\ Linked(sec, s)
      BY <1>1, Slots DEF Linked
    <2>2. sec[s].start = End(sec, s) /\ sec[s].start \in Int /\ sec[s].pages \in Nat
      BY <1>1, <2>1, FieldTypes DEF Chained, Joined
    <2>3. sec[s].pages = 0
      BY <2>2 DEF End
    <2> QED BY <1>1, <2>1, <2>3 DEF Tidy
  <1>2. sec[t].prev # t
    <2>1. sec[t].prev = t => sec[t].next = t
      BY Slots DEF Chained, Joined
    <2> QED BY <1>1, <2>1
  <1>3. ASSUME sec[t].next # NULL, sec[t].next = sec[t].prev PROVE FALSE
    <2> DEFINE n == sec[t].next
    <2>1. n \in Slot /\ sec[n].next = t /\ t # NULL
      BY <1>3, Neighbours, Slots
    <2>2. sec[n].start = End(sec, t) /\ sec[t].start = End(sec, n)
      BY <1>3, <2>1 DEF Chained, Joined
    <2>3. /\ sec[n].start \in Int /\ sec[n].pages \in Nat
          /\ sec[t].start \in Int /\ sec[t].pages \in Nat
      BY <2>1, FieldTypes DEF Chained
    <2>4. sec[n].pages = 0 /\ sec[t].pages = 0
      BY <2>2, <2>3 DEF End
    <2>5. Linked(sec, n) /\ Linked(sec, t)
      BY <1>3, <2>1 DEF Linked
    <2> QED BY <1>3, <2>1, <2>4, <2>5 DEF Tidy
  <1> QED BY <1>1, <1>2, <1>3

(* A merge into the next section leaves no free neighbours. *)
LEMMA NextSwallowsTidy ==
    ASSUME NEW sec, NEW S, NEW top \in Int, Chained(sec, top), Tidy(sec), NEW t \in Slot,
           sec[t].next # NULL, sec[t].prev # NULL,
           sec[t].free = sec[sec[t].next].free \/ sec[t].pages = 0,
           NextSwallows(sec, S, t)
    PROVE  Tidy(S)
  <1> DEFINE n == sec[t].next
  <1>1. n \in Slot /\ n # t /\ sec[n].prev = t /\ Linked(sec, n) /\ Linked(sec, t)
        /\ sec[n].next # t /\ n # NULL /\ t # NULL
    <2>1. n \in Slot /\ n # t /\ Linked(sec, n) /\ n # NULL /\ t # NULL
      BY Neighbours, Distinct, Slots
    <2>2. sec[n].prev = t /\ Linked(sec, t)
      BY DEF Chained, Joined, Linked
    <2>3. sec[n].next # NULL => sec[n].next # sec[n].prev
      BY <2>1, Distinct
    <2> QED BY <2>1, <2>2, <2>3
  <1>2. /\ S[t] = Unlinked /\ S[n].free = sec[n].free /\ S[n].next = sec[n].next
        /\ S[n].pages = sec[n].pages + sec[t].pages
        /\ \A s \in Slot \ {t, n} :
            /\ Same(sec, S, s) /\ S[s].prev = sec[s].prev
            /\ S[s].next = IF s = sec[t].prev THEN n ELSE sec[s].next
    BY DEF NextSwallows
  <1>3. sec[n].pages \in Nat /\ sec[t].pages \in Nat
    BY <1>1, FieldTypes DEF Chained
  <1> HIDE DEF n
  <1>4. \A s \in Slot \ {t} : S[s].free = sec[s].free
    BY <1>2 DEF Same
  <1>5. S[0].free = PMM_SECTION_BAD
    BY <1>4, Slots DEF Tidy, Chained
  <1>6. ASSUME NEW s \in Slot, Linked(S, s), S[s].pages = 0 PROVE S[s].free = PMM_SECTION_FREE
    <2>1. s # t
      BY <1>2, <1>6 DEF Unlinked, Linked
    <2>2. Linked(sec, s) /\ sec[s].pages = 0
      <3>1. CASE s = n
        BY <1>1, <1>2, <1>3, <1>6, <3>1
      <3>2. CASE s # n
        <4>1. Same(sec, S, s) /\ S[s].prev = sec[s].prev
              /\ S[s].next = IF s = sec[t].prev THEN n ELSE sec[s].next
          BY <1>2, <2>1, <3>2
        <4>2. s = sec[t].prev => sec[s].next = t
          BY <1>1, Neighbours
        <4> QED BY <1>1, <1>6, <4>1, <4>2 DEF Linked, Same
      <3> QED BY <3>1, <3>2
    <2> QED BY <1>4, <2>1, <2>2 DEF Tidy
  <1>7. ASSUME NEW s \in Slot, S[s].next # NULL
        PROVE  ~(S[s].free = PMM_SECTION_FREE /\ S[S[s].next].free = PMM_SECTION_FREE)
    <2>1. s # t
      BY <1>2, <1>7 DEF Unlinked
    <2>2. CASE s = n
      <3>1. sec[n].next \in Slot \ {t}
        BY <1>1, <1>2, <1>7, <2>2, Neighbours
      <3> QED BY <1>1, <1>2, <1>4, <1>7, <2>2, <3>1 DEF Tidy
    <2>3. CASE s # n /\ s = sec[t].prev
      <3>1. S[s].next = n /\ sec[s].next = t /\ t # NULL
        BY <1>1, <1>2, <2>1, <2>3, Neighbours, Slots
      <3>2. S[s].free = sec[s].free /\ S[n].free = sec[n].free
        BY <1>2, <1>4, <2>1
      <3>3. sec[t].pages = 0 => sec[t].free = PMM_SECTION_FREE
        BY <1>1 DEF Tidy
      <3>4. ~(sec[s].free = PMM_SECTION_FREE /\ sec[t].free = PMM_SECTION_FREE)
        BY <3>1 DEF Tidy
      <3>5. ~(sec[t].free = PMM_SECTION_FREE /\ sec[n].free = PMM_SECTION_FREE)
        BY <1>1 DEF Tidy, n
      <3>6. sec[t].free = sec[n].free \/ sec[t].pages = 0
        BY DEF n
      <3> QED BY <3>1, <3>2, <3>3, <3>4, <3>5, <3>6
    <2>4. CASE s # n /\ s # sec[t].prev
      <3>1. S[s].next = sec[s].next /\ S[s].free = sec[s].free
        BY <1>2, <1>4, <2>1, <2>4
      <3>2. sec[s].next \in Slot \ {t}
        <4>1. sec[s].next = t => sec[t].prev = s
          BY <1>1 DEF Chained, Joined
        <4> QED BY <1>7, <2>4, <3>1, <4>1, Neighbours
      <3> QED BY <1>4, <1>7, <3>1, <3>2 DEF Tidy
    <2> QED BY <2>2, <2>3, <2>4
  <1> QED BY <1>5, <1>6, <1>7 DEF Tidy

(* Nor does a merge into the section before. *)
LEMMA PrevSwallowsTidy ==
    ASSUME NEW sec, NEW S, NEW top \in Int, Chained(sec, top), Tidy(sec), NEW t \in Slot,
           sec[t].prev # NULL, sec[t].free = sec[sec[t].prev].free,
           PrevSwallows(sec, S, t)
    PROVE  Tidy(S)
  <1> DEFINE q == sec[t].prev
  <1>1. /\ q \in Slot /\ q # t /\ sec[q].next = t /\ Linked(sec, q) /\ Linked(sec, t)
        /\ t # NULL /\ q # NULL
    BY Neighbours, Distinct, Slots DEF Linked
  <1>2. /\ S[t] = Unlinked /\ S[q].free = sec[q].free /\ S[q].next = sec[t].next
        /\ S[q].pages = sec[q].pages + sec[t].pages
        /\ \A s \in Slot \ {t, q} :
            /\ Same(sec, S, s) /\ S[s].next = sec[s].next
            /\ S[s].prev = IF s = sec[t].next THEN q ELSE sec[s].prev
    BY DEF PrevSwallows
  <1>3. sec[q].pages \in Nat /\ sec[t].pages \in Nat
    BY <1>1, FieldTypes DEF Chained
  <1>q. sec[t].free = sec[q].free
    OBVIOUS
  <1>n. sec[t].next # NULL => sec[t].next \in Slot \ {t, q}
    BY Neighbours, Distinct
  <1>p. \A s \in Slot : sec[s].next = t => s = q
    BY <1>1 DEF Chained, Joined
  <1> HIDE DEF q
  <1>4. \A s \in Slot \ {t} : S[s].free = sec[s].free
    BY <1>2 DEF Same
  <1>5. S[0].free = PMM_SECTION_BAD
    <2>1. t # 0
      BY <1>1, Slots DEF Chained, q
    <2> QED BY <1>4, <2>1, Slots DEF Tidy
  <1>6. ASSUME NEW s \in Slot, Linked(S, s), S[s].pages = 0 PROVE S[s].free = PMM_SECTION_FREE
    <2>1. s # t
      BY <1>2, <1>6 DEF Unlinked, Linked
    <2>2. Linked(sec, s) /\ sec[s].pages = 0
      <3>1. CASE s = q
        BY <1>1, <1>2, <1>3, <1>6, <3>1
      <3>2. CASE s # q
        <4>1. Same(sec, S, s) /\ S[s].next = sec[s].next
              /\ S[s].prev = IF s = sec[t].next THEN q ELSE sec[s].prev
          BY <1>2, <2>1, <3>2
        <4>2. s = sec[t].next => sec[s].prev = t
          BY Slots DEF Chained, Joined
        <4> QED BY <1>1, <1>6, <4>1, <4>2 DEF Linked, Same
      <3> QED BY <3>1, <3>2
    <2> QED BY <1>4, <2>1, <2>2 DEF Tidy
  <1>7. ASSUME NEW s \in Slot, S[s].next # NULL
        PROVE  ~(S[s].free = PMM_SECTION_FREE /\ S[S[s].next].free = PMM_SECTION_FREE)
    <2>1. s # t
      BY <1>2, <1>7 DEF Unlinked
    <2>2. CASE s = q
      <3>1. S[q].next = sec[t].next /\ sec[t].next \in Slot \ {t} /\ sec[t].next # NULL
        BY <1>2, <1>7, <1>n, <2>2
      <3>2. ~(sec[t].free = PMM_SECTION_FREE /\ sec[sec[t].next].free = PMM_SECTION_FREE)
        BY <3>1 DEF Tidy
      <3> QED BY <1>2, <1>4, <1>q, <2>2, <3>1, <3>2
    <2>3. CASE s # q
      <3>1. S[s].next = sec[s].next /\ S[s].free = sec[s].free
        BY <1>2, <1>4, <2>1, <2>3
      <3>2. sec[s].next \in Slot \ {t}
        BY <1>7, <1>p, <2>3, <3>1, Neighbours
      <3> QED BY <1>4, <1>7, <3>1, <3>2 DEF Tidy
    <2> QED BY <2>2, <2>3
  <1> QED BY <1>5, <1>6, <1>7 DEF Tidy

(* Moving a border leaves the types as they are. *)
LEMMA BorderMovedTidy ==
    ASSUME NEW sec, NEW S, NEW top \in Int, Chained(sec, top), Tidy(sec),
           NEW a \in Slot, NEW b \in Slot, NEW cut \in Int, BorderMoved(sec, S, a, b, cut),
           cut = sec[a].start => sec[a].free = PMM_SECTION_FREE,
           cut = End(sec, b) => sec[b].free = PMM_SECTION_FREE
    PROVE  Tidy(S)
  <1>1. /\ S[a].pages = cut - sec[a].start /\ S[b].pages = End(sec, b) - cut
        /\ \A s \in Slot : S[s].prev = sec[s].prev /\ S[s].next = sec[s].next
                           /\ S[s].free = sec[s].free
        /\ \A s \in Slot \ {a, b} : S[s].pages = sec[s].pages
    BY DEF BorderMoved, Same
  <1>2. sec[a].start \in Int /\ End(sec, b) \in Int
    BY FieldTypes DEF Chained, End
  <1>3. S[0].free = PMM_SECTION_BAD
    BY <1>1, Slots DEF Tidy
  <1>4. ASSUME NEW s \in Slot, Linked(S, s), S[s].pages = 0 PROVE S[s].free = PMM_SECTION_FREE
    <2>1. CASE s = a
      BY <1>1, <1>2, <1>4, <2>1
    <2>2. CASE s = b
      BY <1>1, <1>2, <1>4, <2>2
    <2>3. CASE s \notin {a, b}
      BY <1>1, <1>4, <2>3 DEF Tidy, Linked
    <2> QED BY <2>1, <2>2, <2>3
  <1>5. ASSUME NEW s \in Slot, S[s].next # NULL
        PROVE  ~(S[s].free = PMM_SECTION_FREE /\ S[S[s].next].free = PMM_SECTION_FREE)
    <2>1. sec[s].next \in Slot
      BY <1>1, <1>5, Neighbours
    <2> QED BY <1>1, <1>5, <2>1 DEF Tidy
  <1> QED BY <1>3, <1>4, <1>5 DEF Tidy

(* A free section may become anything, any other a free one if its          *)
(* neighbours are not.                                                     *)
MayBecome(sec, t, type) ==
    \/ type # PMM_SECTION_FREE
    \/ /\ sec[t].next # NULL => sec[sec[t].next].free # PMM_SECTION_FREE
       /\ sec[t].prev # NULL => sec[sec[t].prev].free # PMM_SECTION_FREE

(* Nor does a type the section may become. *)
LEMMA RetypedTidy ==
    ASSUME NEW sec, NEW S, NEW top \in Int, Chained(sec, top), Tidy(sec),
           NEW t \in Slot \ {0}, NEW type, sec[t].pages # 0, MayBecome(sec, t, type),
           Retyped(sec, S, t, type)
    PROVE  Tidy(S)
  <1>1. /\ S[t].free = type
        /\ \A s \in Slot : /\ S[s].prev = sec[s].prev /\ S[s].next = sec[s].next
                           /\ S[s].pages = sec[s].pages
        /\ \A s \in Slot \ {t} : S[s].free = sec[s].free
    BY DEF Retyped
  <1>2. S[0].free = PMM_SECTION_BAD
    BY <1>1, Slots DEF Tidy
  <1>3. ASSUME NEW s \in Slot, Linked(S, s), S[s].pages = 0 PROVE S[s].free = PMM_SECTION_FREE
    BY <1>1, <1>3 DEF Tidy, Linked
  <1>4. ASSUME NEW s \in Slot, S[s].next # NULL
        PROVE  ~(S[s].free = PMM_SECTION_FREE /\ S[S[s].next].free = PMM_SECTION_FREE)
    <2>1. sec[s].next \in Slot /\ sec[s].next # NULL /\ S[s].next = sec[s].next
      BY <1>1, <1>4, Neighbours
    <2>2. ~(sec[s].free = PMM_SECTION_FREE /\ sec[sec[s].next].free = PMM_SECTION_FREE)
      BY <2>1 DEF Tidy
    <2>3. CASE s = t
      <3>1. sec[t].next # t
        BY Distinct
      <3> QED BY <1>1, <2>1, <2>3, <3>1 DEF MayBecome
    <2>4. CASE s # t /\ sec[s].next = t
      <3>1. sec[t].prev = s /\ s # NULL
        BY <2>1, <2>4, Slots DEF Chained, Joined
      <3> QED BY <1>1, <2>1, <2>4, <3>1 DEF MayBecome
    <2>5. CASE s # t /\ sec[s].next # t
      BY <1>1, <2>1, <2>2, <2>5
    <2> QED BY <2>3, <2>4, <2>5
  <1> QED BY <1>2, <1>3, <1>4 DEF Tidy

(* The same, but that n and the section before it may both be free: a split  *)
(* leaves that until the caller has given one half another type.            *)
TidyBut(sec, n) ==
    /\ sec[0].free = PMM_SECTION_BAD
    /\ \A s \in Slot : Linked(sec, s) /\ sec[s].pages = 0 => sec[s].free = PMM_SECTION_FREE
    /\ \A s \in Slot : sec[s].next \notin {NULL, n} =>
         ~(sec[s].free = PMM_SECTION_FREE /\ sec[sec[s].next].free = PMM_SECTION_FREE)

(* Nor does the first page, cut off and given a type. *)
LEMMA FirstOffTidy ==
    ASSUME NEW sec, NEW S, NEW top \in Int, Chained(sec, top), NEW t \in Slot \ {0},
           Linked(sec, t), sec[t].pages # 0, TidyBut(sec, t),
           NEW type, FirstOff(sec, S, t, type),
           type # PMM_SECTION_FREE \/ sec[t].free # PMM_SECTION_FREE,
           type = PMM_SECTION_FREE =>
             /\ sec[t].prev # NULL => sec[sec[t].prev].free # PMM_SECTION_FREE
             /\ sec[t].pages = 1 /\ sec[t].next # NULL
                  => sec[sec[t].next].free # PMM_SECTION_FREE
    PROVE  Tidy(S)
  <1>1. S[t].free = type /\ S[t].pages = 1
    BY DEF FirstOff
  <1>2. sec[t].next # NULL => sec[t].next \in Slot \ {t}
    <2>1. sec[t].next # t
      <3>1. Joined(sec, top, t) /\ sec[t].start \in Int /\ sec[t].pages \in Nat
        BY FieldTypes DEF Chained
      <3> QED BY <3>1, Slots DEF Joined, End
    <2> QED BY <2>1, Neighbours
  <1>3. \A s \in Slot : sec[s].next = t => sec[t].prev = s /\ s # NULL
    BY Slots DEF Chained, Joined
  <1>4. Linked(sec, 0) /\ 0 \in Slot
    BY Slots DEF Chained
  <1>5. CASE /\ sec[t].pages = 1 /\ S[t].next = sec[t].next
             /\ \A s \in Slot \ {t} : /\ Same(sec, S, s) /\ S[s].next = sec[s].next
                                      /\ Linked(S, s) <=> Linked(sec, s)
    <2>1. \A s \in Slot \ {t} : S[s].free = sec[s].free /\ S[s].pages = sec[s].pages
      BY <1>5 DEF Same
    <2>2. S[0].free = PMM_SECTION_BAD
      BY <1>4, <2>1 DEF TidyBut
    <2>3. ASSUME NEW s \in Slot, Linked(S, s), S[s].pages = 0 PROVE S[s].free = PMM_SECTION_FREE
      BY <1>1, <1>5, <2>1, <2>3 DEF TidyBut
    <2>4. ASSUME NEW s \in Slot, S[s].next # NULL
          PROVE  ~(S[s].free = PMM_SECTION_FREE /\ S[S[s].next].free = PMM_SECTION_FREE)
      <3>1. S[s].next = sec[s].next /\ sec[s].next \in Slot
        BY <1>5, <2>4, Neighbours
      <3>2. CASE s = t
        BY <1>1, <1>2, <1>5, <2>1, <2>4, <3>1, <3>2
      <3>3. CASE s # t /\ sec[s].next = t
        BY <1>1, <1>3, <2>1, <3>1, <3>3
      <3>4. CASE s # t /\ sec[s].next # t
        BY <2>1, <2>4, <3>1, <3>4 DEF TidyBut
      <3> QED BY <3>2, <3>3, <3>4
    <2> QED BY <2>2, <2>3, <2>4 DEF Tidy
  <1>6. ASSUME NEW n \in Slot \ {t},
               /\ ~Linked(sec, n) /\ S[t].next = n /\ S[n].next = sec[t].next
               /\ S[n].free = sec[t].free /\ S[n].pages # 0
               /\ \A s \in Slot \ {t, n} : /\ Same(sec, S, s) /\ S[s].next = sec[s].next
                                           /\ Linked(S, s) <=> Linked(sec, s)
        PROVE  Tidy(S)
    <2>1. \A s \in Slot \ {t, n} : S[s].free = sec[s].free /\ S[s].pages = sec[s].pages
      BY <1>6 DEF Same
    <2>2. S[0].free = PMM_SECTION_BAD
      <3>1. n # 0
        BY <1>4, <1>6
      <3> QED BY <1>4, <2>1, <3>1 DEF TidyBut
    <2>3. ASSUME NEW s \in Slot, Linked(S, s), S[s].pages = 0 PROVE S[s].free = PMM_SECTION_FREE
      <3>1. s \notin {t, n}
        BY <1>1, <1>6, <2>3
      <3> QED BY <1>6, <2>1, <2>3, <3>1 DEF TidyBut
    <2>4. ASSUME NEW s \in Slot, S[s].next # NULL
          PROVE  ~(S[s].free = PMM_SECTION_FREE /\ S[S[s].next].free = PMM_SECTION_FREE)
      <3>1. \A u \in Slot : sec[u].next # n
        BY <1>6, Neighbours, Slots
      <3>2. CASE s = t
        BY <1>1, <1>6, <3>2
      <3>3. CASE s = n
        <4>1. sec[t].next \in Slot \ {t, n} /\ sec[t].next # NULL /\ S[s].next = sec[t].next
          BY <1>2, <1>6, <2>4, <3>1, <3>3
        <4>2. ~(sec[t].free = PMM_SECTION_FREE /\ sec[sec[t].next].free = PMM_SECTION_FREE)
          BY <4>1 DEF TidyBut
        <4> QED BY <1>6, <2>1, <3>3, <4>1, <4>2
      <3>4. CASE s \notin {t, n} /\ sec[s].next = t
        <4>1. S[s].next = t /\ S[s].free = sec[s].free
          BY <1>6, <2>1, <3>4
        <4> QED BY <1>1, <1>3, <3>4, <4>1
      <3>5. CASE s \notin {t, n} /\ sec[s].next # t
        <4>1. S[s].next = sec[s].next /\ sec[s].next \in Slot \ {t, n}
          BY <1>6, <2>4, <3>1, <3>5, Neighbours
        <4> QED BY <2>1, <2>4, <3>5, <4>1 DEF TidyBut
      <3> QED BY <3>2, <3>3, <3>4, <3>5
    <2> QED BY <2>2, <2>3, <2>4 DEF Tidy
  <1> QED BY <1>5, <1>6 DEF FirstOff

(* A division leaves two free neighbours at most: its two halves. *)
LEMMA DividedTidy ==
    ASSUME NEW sec, NEW S, NEW top \in Int, Chained(sec, top), Tidy(sec),
           NEW t \in Slot, Linked(sec, t), NEW n \in Slot, ~Linked(sec, n),
           NEW at \in Int, sec[t].start < at, at < End(sec, t), Divided(sec, S, t, at, n)
    PROVE  TidyBut(S, n)
  <1>1. n # t /\ \A u \in Slot : sec[u].next # n
    BY Neighbours, Slots
  <1>2. /\ S[t].free = sec[t].free /\ S[t].next = n /\ S[t].pages # 0
        /\ S[n].free = sec[t].free /\ S[n].next = sec[t].next /\ S[n].pages # 0
    <2>1. sec[t].start \in Int /\ End(sec, t) \in Int
      BY FieldTypes DEF Chained, End
    <2> QED BY <2>1 DEF Divided
  <1>3. ASSUME NEW s \in Slot \ {t, n}
        PROVE  /\ S[s].free = sec[s].free /\ S[s].pages = sec[s].pages /\ S[s].next = sec[s].next
               /\ Linked(S, s) <=> Linked(sec, s)
    <2>1. /\ Same(sec, S, s) /\ S[s].next = sec[s].next
          /\ S[s].prev = IF s = sec[t].next THEN n ELSE sec[s].prev
      BY DEF Divided
    <2>2. s = sec[t].next => sec[s].prev = t
      BY Slots DEF Chained, Joined
    <2> QED BY <2>1, <2>2, Slots DEF Same, Linked
  <1>4. S[0].free = PMM_SECTION_BAD
    <2>1. n # 0 /\ 0 \in Slot
      BY Slots DEF Chained
    <2> QED BY <1>2, <1>3, <2>1 DEF Tidy
  <1>5. ASSUME NEW s \in Slot, Linked(S, s), S[s].pages = 0 PROVE S[s].free = PMM_SECTION_FREE
    BY <1>2, <1>3, <1>5 DEF Tidy
  <1>6. ASSUME NEW s \in Slot, S[s].next \notin {NULL, n}
        PROVE  ~(S[s].free = PMM_SECTION_FREE /\ S[S[s].next].free = PMM_SECTION_FREE)
    <2>1. CASE s = n
      <3>1. sec[t].next \in Slot \ {n} /\ sec[t].next # NULL /\ sec[t].next # t
        BY <1>1, <1>2, <1>6, <2>1, Neighbours, Distinct
      <3>2. ~(sec[t].free = PMM_SECTION_FREE /\ sec[sec[t].next].free = PMM_SECTION_FREE)
        BY <3>1 DEF Tidy
      <3> QED BY <1>2, <1>3, <2>1, <3>1, <3>2
    <2>2. CASE s # n
      <3>1. s # t
        BY <1>2, <1>6
      <3>2. S[s].next = sec[s].next /\ sec[s].next \in Slot \ {n} /\ S[s].free = sec[s].free
        BY <1>1, <1>3, <1>6, <2>2, <3>1, Neighbours
      <3>3. S[sec[s].next].free = sec[sec[s].next].free
        BY <1>2, <1>3, <3>2
      <3> QED BY <1>6, <3>2, <3>3 DEF Tidy
    <2> QED BY <2>1, <2>2
  <1> QED BY <1>4, <1>5, <1>6 DEF TidyBut

-----------------------------------------------------------------------------
(* The operations of the scans: each leaves a good list, with the same free  *)
(* pages or with one page freed or taken.                                  *)

Change(F, q, type) == IF type = PMM_SECTION_FREE THEN F \cup {q} ELSE F \ {q}

(* An operation that keeps the types leaves the same free pages. *)
LEMMA KeepsResult ==
    ASSUME NEW sec, NEW S, NEW top \in Int, NEW ram \in SUBSET Int, Good(sec, top, ram),
           Shape(S, top), Keeps(sec, S), Tidy(S)
    PROVE  Good(S, top, ram) /\ FreeOf(S) = FreeOf(sec)
  BY KeepsFree, KeepsRam DEF Good

(* One that gives a page a type frees it or takes it. *)
LEMMA RetypesResult ==
    ASSUME NEW sec, NEW S, NEW top \in Int, NEW ram \in SUBSET Int, Good(sec, top, ram),
           Shape(S, top), NEW q, NEW type \in {PMM_SECTION_USED, PMM_SECTION_FREE},
           NEW t \in Slot, q \in Int, Has(sec, t, q), Retypes(sec, S, q, type), Tidy(S)
    PROVE  Good(S, top, ram) /\ FreeOf(S) = Change(FreeOf(sec), q, type)
  <1>1. q \in 0 .. top - 1
    BY Inside DEF Good, Shape
  <1>2. type # PMM_SECTION_BAD
    BY DEF PMM_SECTION_USED, PMM_SECTION_FREE, PMM_SECTION_BAD
  <1> QED BY <1>1, <1>2, RetypesFree, RetypesRam DEF Good, Change

(* The three types of sections. *)
LEMMA Types ==
    /\ PMM_SECTION_USED # PMM_SECTION_FREE /\ PMM_SECTION_USED # PMM_SECTION_BAD
    /\ PMM_SECTION_FREE # PMM_SECTION_BAD
    /\ Type = {PMM_SECTION_USED, PMM_SECTION_FREE, PMM_SECTION_BAD}
  BY DEF PMM_SECTION_USED, PMM_SECTION_FREE, PMM_SECTION_BAD, Type

(* pmm_section_combine_next leaves a good list and the same free pages. *)
LEMMA CombinedNext ==
    ASSUME NEW L, IsList(L), NEW top \in Int, NEW ram \in SUBSET Int, Good(L.sec, top, ram),
           NEW t \in Slot, NEW R, R = pmm_section_combine_next(L, t), R.head # NULL
    PROVE  IsList(R) /\ Good(R.sec, top, ram) /\ FreeOf(R.sec) = FreeOf(L.sec)
  <1> DEFINE n == L.sec[t].next
             S == CombineNext(L.sec, t)
  <1>1. L = [sec |-> L.sec, head |-> L.head] /\ L.head \in 0 .. NSlots
    BY DEF IsList
  <1>2. CASE n = NULL \/ L.sec[t].free # L.sec[n].free
    BY <1>1, <1>2 DEF pmm_section_combine_next, IsList
  <1>3. CASE ~(n = NULL \/ L.sec[t].free # L.sec[n].free) /\ L.sec[t].prev = NULL
    <2>1. R = [L EXCEPT !.head = NULL]
      BY <1>3 DEF pmm_section_combine_next, Faulted
    <2> QED BY <1>1, <2>1
  <1>4. CASE ~(n = NULL \/ L.sec[t].free # L.sec[n].free) /\ L.sec[t].prev # NULL
    <2>1. R = [L EXCEPT !.sec = S]
      BY <1>4 DEF pmm_section_combine_next
    <2>2. R = [sec |-> S, head |-> L.head]
      <3> HIDE DEF S
      <3> QED BY <1>1, <2>1
    <2>3. IsList(R) /\ R.sec = S
      BY <1>1, <2>2 DEF IsList
    <2>4. Chained(L.sec, top) /\ Shape(L.sec, top) /\ Tidy(L.sec)
          /\ L.sec \in [Slot -> pmm_section_t]
      BY DEF Good, Shape, Chained
    <2>5. L.sec[t].next \in Slot \ {t} /\ L.sec[t].prev \in Slot \ {t, L.sec[t].next}
      BY <1>4, <2>4, Neighbours, Distinct
    <2>6. NextSwallows(L.sec, S, t)
      BY <2>4, <2>5, CombineNextSwallows
    <2> HIDE DEF S
    <2>7. Shape(S, top) /\ Keeps(L.sec, S)
      BY <1>4, <2>4, <2>5, <2>6, NextSwallowsPages
    <2>8. Tidy(S)
      BY <1>4, <2>4, <2>6, NextSwallowsTidy
    <2> QED BY <2>3, <2>7, <2>8, KeepsResult
  <1> QED BY <1>2, <1>3, <1>4

(* So does pmm_section_combine_prev. *)
LEMMA CombinedPrev ==
    ASSUME NEW L, IsList(L), NEW top \in Int, NEW ram \in SUBSET Int, Good(L.sec, top, ram),
           NEW t \in Slot, NEW R, R = pmm_section_combine_prev(L, t), R.head # NULL
    PROVE  IsList(R) /\ Good(R.sec, top, ram) /\ FreeOf(R.sec) = FreeOf(L.sec)
  <1> DEFINE q == L.sec[t].prev
             S == CombinePrev(L.sec, t)
  <1>1. L = [sec |-> L.sec, head |-> L.head] /\ L.head \in 0 .. NSlots
    BY DEF IsList
  <1>2. CASE q = NULL \/ L.sec[t].free # L.sec[q].free
    BY <1>1, <1>2 DEF pmm_section_combine_prev, IsList
  <1>3. CASE ~(q = NULL \/ L.sec[t].free # L.sec[q].free) /\ L.sec[t].next = NULL
    <2>1. R = [L EXCEPT !.head = NULL]
      BY <1>3 DEF pmm_section_combine_prev, Faulted
    <2> QED BY <1>1, <2>1
  <1>4. CASE ~(q = NULL \/ L.sec[t].free # L.sec[q].free) /\ L.sec[t].next # NULL
    <2>1. R = [L EXCEPT !.sec = S]
      BY <1>4 DEF pmm_section_combine_prev
    <2>2. R = [sec |-> S, head |-> L.head]
      <3> HIDE DEF S
      <3> QED BY <1>1, <2>1
    <2>3. IsList(R) /\ R.sec = S
      BY <1>1, <2>2 DEF IsList
    <2>4. Chained(L.sec, top) /\ Shape(L.sec, top) /\ Tidy(L.sec)
          /\ L.sec \in [Slot -> pmm_section_t]
      BY DEF Good, Shape, Chained
    <2>5. L.sec[t].prev \in Slot \ {t} /\ L.sec[t].next \notin {t, L.sec[t].prev}
      BY <1>4, <2>4, Neighbours, Distinct
    <2>6. PrevSwallows(L.sec, S, t)
      BY <2>4, <2>5, CombinePrevSwallows
    <2> HIDE DEF S
    <2>7. Shape(S, top) /\ Keeps(L.sec, S)
      BY <1>4, <2>4, <2>5, <2>6, PrevSwallowsPages
    <2>8. Tidy(S)
      BY <1>4, <2>4, <2>6, PrevSwallowsTidy
    <2> QED BY <2>3, <2>7, <2>8, KeepsResult
  <1> QED BY <1>2, <1>3, <1>4

(* The first page of a section goes to the section before it, when that has  *)
(* the type, or gets a section of its own.                                 *)
FirstGiven(L, s, type) ==
    IF L.sec[L.sec[s].prev].free = type
    THEN [L EXCEPT !.sec = GiveFirstPage(L.sec, s)]
    ELSE SetType(pmm_section_split(L, s, L.sec[s].start + 1), s, type)

(* The first page freed or taken, pfa.c:124-136 and 183-196. *)
LEMMA FirstGivenChanges ==
    ASSUME NEW L, IsList(L), NEW top \in Int, NEW ram \in SUBSET Int, Good(L.sec, top, ram),
           NEW s \in Slot, L.sec[s].prev # NULL, L.sec[s].pages # 0,
           NEW type \in {PMM_SECTION_USED, PMM_SECTION_FREE},
           type = PMM_SECTION_USED => L.sec[s].free = PMM_SECTION_FREE,
           type = PMM_SECTION_FREE => L.sec[s].free # PMM_SECTION_FREE /\ L.sec[s].pages # 1,
           NEW R, R = FirstGiven(L, s, type), R.head # NULL
    PROVE  /\ IsList(R) /\ Good(R.sec, top, ram)
           /\ FreeOf(R.sec) = Change(FreeOf(L.sec), L.sec[s].start, type)
  <1> DEFINE a == L.sec[s].prev
             S == GiveFirstPage(L.sec, s)
             q == L.sec[s].start
  <1>1. L = [sec |-> L.sec, head |-> L.head] /\ L.head \in 0 .. NSlots
    BY DEF IsList
  <1>2. Chained(L.sec, top) /\ Shape(L.sec, top) /\ Tidy(L.sec)
        /\ L.sec \in [Slot -> pmm_section_t]
    BY DEF Good, Shape, Chained
  <1>3. a \in Slot \ {s} /\ L.sec[a].next = s /\ q = End(L.sec, a) /\ Linked(L.sec, a)
    BY <1>2, Neighbours, Distinct
  <1>4. Linked(L.sec, s) /\ s # 0
    BY <1>2 DEF Linked, Chained
  <1>5. q \in Int /\ L.sec[s].pages \in Nat /\ L.sec[a].start \in Int /\ L.sec[a].pages \in Nat
    BY <1>2, <1>3, FieldTypes
  <1>6. Has(L.sec, s, q)
    BY <1>4, <1>5 DEF Has, End
  <1>7. CASE L.sec[a].free = type
    <2>1. R = [L EXCEPT !.sec = S]
      BY <1>7 DEF FirstGiven
    <2>2. R = [sec |-> S, head |-> L.head]
      <3> HIDE DEF S
      <3> QED BY <1>1, <2>1
    <2>3. IsList(R) /\ R.sec = S
      BY <1>1, <2>2 DEF IsList
    <2>4. BorderMoved(L.sec, S, a, s, q + 1)
      BY <1>2, <1>3, GiveFirstMoves
    <2>5. q + 1 \in Int /\ L.sec[a].start <= q + 1 /\ q + 1 <= End(L.sec, s)
      BY <1>3, <1>5 DEF End
    <2> HIDE DEF S
    <2>6. Shape(S, top) /\ Retypes(L.sec, S, q, type)
      <3> DEFINE c == q + 1
      <3>1. c = L.sec[s].start + 1 /\ c - 1 = q /\ s \in Slot \ {a}
        BY <1>3, <1>5
      <3>2. BorderMoved(L.sec, S, a, s, c) /\ c \in Int /\ L.sec[a].start <= c
            /\ c <= End(L.sec, s)
        BY <2>4, <2>5
      <3> HIDE DEF a, q, c
      <3>3. /\ Shape(S, top)
            /\ c = L.sec[s].start + 1 => Retypes(L.sec, S, c - 1, L.sec[a].free)
        BY <1>2, <1>3, <3>1, <3>2, BorderMovedPages
      <3> QED BY <1>7, <3>1, <3>3
    <2>7. Tidy(S)
      <3>1. q + 1 # L.sec[a].start
        BY <1>3, <1>5 DEF End
      <3>2. q + 1 = End(L.sec, s) => L.sec[s].free = PMM_SECTION_FREE
        BY <1>5 DEF End
      <3> HIDE DEF a, q
      <3> QED BY <1>2, <1>3, <2>4, <2>5, <3>1, <3>2, BorderMovedTidy
    <2> HIDE DEF a, q
    <2>8. Good(S, top, ram) /\ FreeOf(S) = Change(FreeOf(L.sec), q, type)
      BY <1>5, <1>6, <2>6, <2>7, RetypesResult
    <2> QED BY <2>3, <2>8 DEF q
  <1>8. CASE L.sec[a].free # type
    <2>1. R = SetType(pmm_section_split(L, s, L.sec[s].start + 1), s, type) /\ type \in Type
      BY <1>8, Types DEF FirstGiven
    <2>2. /\ IsList(R) /\ Shape(R.sec, top) /\ Retypes(L.sec, R.sec, q, type)
          /\ FirstOff(L.sec, R.sec, s, type)
      BY <1>2, <1>4, <2>1, FirstCut
    <2>3. TidyBut(L.sec, s)
      BY <1>2 DEF Tidy, TidyBut
    <2>4. Tidy(R.sec)
      <3>1. type # PMM_SECTION_FREE \/ L.sec[s].free # PMM_SECTION_FREE
        BY Types
      <3> HIDE DEF q
      <3> QED BY <1>2, <1>4, <1>8, <2>2, <2>3, <3>1, FirstOffTidy
    <2> HIDE DEF q
    <2>5. Good(R.sec, top, ram) /\ FreeOf(R.sec) = Change(FreeOf(L.sec), q, type)
      BY <1>5, <1>6, <2>2, <2>4, RetypesResult
    <2> QED BY <2>2, <2>5 DEF q
  <1> QED BY <1>7, <1>8

(* The last page of a section goes to the next one, of the type wanted. *)
LEMMA GivenLast ==
    ASSUME NEW sec, NEW top \in Int, NEW ram \in SUBSET Int, Good(sec, top, ram),
           NEW s \in Slot, sec[s].next # NULL, sec[s].pages \notin {0, 1},
           NEW type \in {PMM_SECTION_USED, PMM_SECTION_FREE}, sec[sec[s].next].free = type,
           NEW S, S = GiveLastPage(sec, s)
    PROVE  LET n == sec[s].next
               q == End(sec, s) - 1
           IN  /\ Good(S, top, ram) /\ FreeOf(S) = Change(FreeOf(sec), q, type)
               /\ S[s].next = n /\ n \in Slot /\ Linked(S, n)
               /\ S[n].start = q /\ S[n].free = type /\ S[n].pages = sec[n].pages + 1
  <1> DEFINE n == sec[s].next
             q == End(sec, s) - 1
  <1>1. Chained(sec, top) /\ Shape(sec, top) /\ Tidy(sec) /\ sec \in [Slot -> pmm_section_t]
    BY DEF Good, Shape, Chained
  <1>2. n \in Slot \ {s} /\ Linked(sec, n)
    BY <1>1, Neighbours, Distinct
  <1>3. sec[n].start = End(sec, s) /\ Linked(sec, s)
    BY <1>1 DEF Chained, Joined, Linked
  <1>4. /\ sec[s].start \in Int /\ sec[s].pages \in Nat
        /\ sec[n].start \in Int /\ sec[n].pages \in Nat
    BY <1>1, <1>2, FieldTypes
  <1>5. BorderMoved(sec, S, s, n, q)
    BY <1>1, <1>2, <1>3, GiveLastMoves
  <1>6. q \in Int /\ sec[s].start < q /\ q < End(sec, n) /\ q = sec[n].start - 1
        /\ Has(sec, s, q)
    BY <1>3, <1>4 DEF End, Has
  <1>7. S[s].next = n /\ Linked(S, n) /\ S[n].start = q /\ S[n].free = type
        /\ S[n].pages = End(sec, n) - q
    BY <1>2, <1>5 DEF BorderMoved, Linked
  <1>8. End(sec, n) - q = sec[n].pages + 1
    BY <1>4, <1>6 DEF End
  <1> HIDE DEF n, q
  <1>9. sec[s].next = n /\ sec[n].free = type
    BY DEF n
  <1>10. Shape(S, top) /\ Retypes(sec, S, q, type)
    <2>1. sec[s].start <= q /\ q <= End(sec, n)
      BY <1>2, <1>4, <1>6 DEF End
    <2>2. /\ Shape(S, top)
          /\ q = sec[n].start - 1 => Retypes(sec, S, q, sec[n].free)
      BY <1>1, <1>2, <1>5, <1>6, <1>9, <2>1, BorderMovedPages
    <2> QED BY <1>6, <1>9, <2>2
  <1>11. Tidy(S)
    <2>1. q # sec[s].start /\ q # End(sec, n)
      BY <1>2, <1>4, <1>6 DEF End
    <2> QED BY <1>1, <1>2, <1>5, <1>6, <2>1, BorderMovedTidy
  <1>12. Good(S, top, ram) /\ FreeOf(S) = Change(FreeOf(sec), q, type)
    BY <1>6, <1>10, <1>11, RetypesResult
  <1> QED BY <1>2, <1>7, <1>8, <1>12 DEF n, q

(* A page in the middle of a section gets a section of its own, the pages      *)
(* behind it another one.                                                  *)
MayCut(L, top, ram, s, at, type) ==
    /\ IsList(L) /\ top \in Int /\ ram \in SUBSET Int /\ Good(L.sec, top, ram)
    /\ s \in Slot /\ Linked(L.sec, s) /\ at \in Int
    /\ L.sec[s].start < at /\ at < End(L.sec, s)
    /\ type \in {PMM_SECTION_USED, PMM_SECTION_FREE}
    /\ type = PMM_SECTION_USED => L.sec[s].free = PMM_SECTION_FREE
    /\ type = PMM_SECTION_FREE =>
         /\ L.sec[s].free # PMM_SECTION_FREE
         /\ L.sec[s].next # NULL => L.sec[L.sec[s].next].free # PMM_SECTION_FREE

IsCut(L, s, at, type, D, n, R) ==
    /\ D = pmm_section_split(L, s, at) /\ D.head # NULL /\ n = D.sec[s].next
    /\ R = SetType(pmm_section_split(D, n, D.sec[n].start + 1), n, type) /\ R.head # NULL

(* A page in the middle freed or taken: two divisions and a type. *)
LEMMA MiddleCut ==
    ASSUME NEW L, NEW top, NEW ram, NEW s, NEW at, NEW type,
           MayCut(L, top, ram, s, at, type),
           NEW D, NEW n, NEW R, IsCut(L, s, at, type, D, n, R)
    PROVE  /\ IsList(R) /\ Good(R.sec, top, ram)
           /\ FreeOf(R.sec) = Change(FreeOf(L.sec), at, type)
           /\ n \in Slot /\ Linked(R.sec, n) /\ R.sec[n].start = at /\ R.sec[n].pages = 1
  <1>a. /\ IsList(L) /\ top \in Int /\ ram \in SUBSET Int /\ Good(L.sec, top, ram)
        /\ s \in Slot /\ Linked(L.sec, s) /\ at \in Int
        /\ L.sec[s].start < at /\ at < End(L.sec, s)
        /\ type \in {PMM_SECTION_USED, PMM_SECTION_FREE}
        /\ type = PMM_SECTION_USED => L.sec[s].free = PMM_SECTION_FREE
        /\ type = PMM_SECTION_FREE =>
             /\ L.sec[s].free # PMM_SECTION_FREE
             /\ L.sec[s].next # NULL => L.sec[L.sec[s].next].free # PMM_SECTION_FREE
    BY DEF MayCut
  <1>b. /\ D = pmm_section_split(L, s, at) /\ D.head # NULL /\ n = D.sec[s].next
        /\ R = SetType(pmm_section_split(D, n, D.sec[n].start + 1), n, type) /\ R.head # NULL
    BY DEF IsCut
  <1>1. Chained(L.sec, top) /\ Shape(L.sec, top) /\ Tidy(L.sec)
        /\ L.sec \in [Slot -> pmm_section_t]
    BY <1>a DEF Good, Shape, Chained
  <1>2. /\ IsList(D)
        /\ \E m \in Slot \ {s} : ~Linked(L.sec, m) /\ Divided(L.sec, D.sec, s, at, m)
    <2>1. L.sec[s].start <= at
      BY <1>a, <1>1, FieldTypes
    <2> QED BY <1>a, <1>b, <1>1, <2>1, SplitDone
  <1>3. PICK m \in Slot \ {s} : ~Linked(L.sec, m) /\ Divided(L.sec, D.sec, s, at, m)
    BY <1>a, <1>2
  <1>4. n = m
    BY <1>a, <1>b, <1>3 DEF Divided
  <1>5. n \in Slot \ {s} /\ ~Linked(L.sec, n) /\ Divided(L.sec, D.sec, s, at, n)
    BY <1>a, <1>3, <1>4
  <1>6. /\ D.sec[n].start = at /\ D.sec[n].pages = End(L.sec, s) - at
        /\ D.sec[n].free = L.sec[s].free /\ D.sec[n].prev = s /\ D.sec[n].next = L.sec[s].next
        /\ D.sec[s].free = L.sec[s].free
    BY <1>a, <1>5 DEF Divided
  <1>7. Linked(D.sec, n) /\ D.sec[n].pages # 0 /\ n # 0
    <2>1. End(L.sec, s) \in Int
      BY <1>a, <1>1, FieldTypes DEF End
    <2>2. End(L.sec, s) - at # 0
      BY <1>a, <2>1
    <2> QED BY <1>a, <1>1, <1>5, <1>6, <2>2, Slots DEF Linked, Chained
  <1>8. Shape(D.sec, top) /\ Keeps(L.sec, D.sec) /\ TidyBut(D.sec, n)
    <2>1. L.sec[s].start <= at
      BY <1>a, <1>1, FieldTypes
    <2> QED BY <1>a, <1>1, <1>5, <2>1, DividedPages, DividedTidy
  <1>9. type \in Type
    BY <1>a, Types
  <1>10. /\ IsList(R) /\ Shape(R.sec, top) /\ Retypes(D.sec, R.sec, at, type)
         /\ FirstOff(D.sec, R.sec, n, type)
    BY <1>a, <1>b, <1>2, <1>5, <1>6, <1>7, <1>8, <1>9, FirstCut
  <1>11. Retypes(L.sec, R.sec, at, type)
    BY <1>a, <1>8, <1>10, KeepsThenRetypes
  <1>12. Tidy(R.sec)
    <2>1. type # PMM_SECTION_FREE \/ D.sec[n].free # PMM_SECTION_FREE
      BY <1>a, <1>6, Types
    <2>2. type = PMM_SECTION_FREE => D.sec[D.sec[n].prev].free # PMM_SECTION_FREE
      BY <1>a, <1>6
    <2>3. ASSUME type = PMM_SECTION_FREE, D.sec[n].next # NULL
          PROVE  D.sec[D.sec[n].next].free # PMM_SECTION_FREE
      <3>1. L.sec[s].next \in Slot \ {s, n}
        BY <1>a, <1>1, <1>5, <1>6, <2>3, Neighbours, Distinct
      <3>2. D.sec[L.sec[s].next].free = L.sec[L.sec[s].next].free
        BY <1>a, <1>5, <3>1 DEF Divided, Same
      <3> QED BY <1>a, <1>6, <2>3, <3>2
    <2>4. Chained(D.sec, top)
      BY <1>a, <1>8 DEF Shape
    <2>5. /\ D.sec[n].prev # NULL => D.sec[D.sec[n].prev].free # PMM_SECTION_FREE
                \/ type # PMM_SECTION_FREE
          /\ n \in Slot \ {0}
      BY <1>a, <1>5, <1>7, <2>2
    <2> DEFINE sec == D.sec
               S == R.sec
    <2>6. /\ n \in Slot \ {0} /\ Linked(sec, n) /\ sec[n].pages # 0 /\ TidyBut(sec, n)
          /\ FirstOff(sec, S, n, type) /\ Chained(sec, top)
          /\ type # PMM_SECTION_FREE \/ sec[n].free # PMM_SECTION_FREE
      BY <1>a, <1>7, <1>8, <1>10, <2>1, <2>4, <2>5
    <2>7. type = PMM_SECTION_FREE =>
            /\ sec[n].prev # NULL => sec[sec[n].prev].free # PMM_SECTION_FREE
            /\ sec[n].pages = 1 /\ sec[n].next # NULL => sec[sec[n].next].free # PMM_SECTION_FREE
      BY <1>a, <2>2, <2>3
    <2> HIDE DEF sec, S
    <2>8. Tidy(S)
      BY <1>a, <2>6, <2>7, FirstOffTidy
    <2> QED BY <1>a, <2>8 DEF S
  <1>13. Has(L.sec, s, at)
    BY <1>a, <1>1, FieldTypes DEF Has
  <1>14. Good(R.sec, top, ram) /\ FreeOf(R.sec) = Change(FreeOf(L.sec), at, type)
    BY <1>a, <1>10, <1>11, <1>12, <1>13, RetypesResult
  <1>15. R.sec[n].start = at /\ R.sec[n].pages = 1
    BY <1>a, <1>6, <1>10 DEF FirstOff
  <1>16. Linked(R.sec, n)
    <2> DEFINE S == R.sec
    <2>1. S[n].pages = 1 /\ Chained(S, top) /\ n \in Slot
      BY <1>a, <1>5, <1>10, <1>15 DEF Shape
    <2> HIDE DEF S
    <2>2. S[n] # Unlinked
      BY <1>a, <2>1 DEF Unlinked
    <2>3. Linked(S, n)
      BY <1>a, <2>1, <2>2 DEF Chained, Joined
    <2> QED BY <1>a, <2>3 DEF S
  <1> QED BY <1>a, <1>2, <1>5, <1>6, <1>10, <1>14, <1>15, <1>16

(* pfa.c:104-123 frees the page or leaves everything as it is. *)
FreedWhole(L, s) ==
    LET p == L.sec[s].prev
        n == L.sec[s].next
        free(t) == L.sec[t].free = PMM_SECTION_FREE
    IN  IF free(p) /\ free(n)
        THEN LET M == pmm_section_combine_next(L, s)
             IN  IF M.head = NULL THEN M ELSE pmm_section_combine_next(M, p)
        ELSE IF free(p) THEN pmm_section_combine_prev(L, s)
        ELSE IF free(n) THEN pmm_section_combine_next(L, s)
        ELSE SetType(L, s, PMM_SECTION_FREE)

(* A section of one page gets a type its neighbours allow. *)
LEMMA RetypedChanges ==
    ASSUME NEW L, IsList(L), NEW top \in Int, NEW ram \in SUBSET Int, Good(L.sec, top, ram),
           NEW s \in Slot \ {0}, Linked(L.sec, s), L.sec[s].pages = 1,
           NEW type \in {PMM_SECTION_USED, PMM_SECTION_FREE}, MayBecome(L.sec, s, type),
           NEW R, R = SetType(L, s, type)
    PROVE  /\ IsList(R) /\ Good(R.sec, top, ram)
           /\ FreeOf(R.sec) = Change(FreeOf(L.sec), L.sec[s].start, type)
  <1>1. Chained(L.sec, top) /\ Shape(L.sec, top) /\ Tidy(L.sec)
        /\ L.sec \in [Slot -> pmm_section_t] /\ L = [sec |-> L.sec, head |-> L.head]
        /\ type \in Type
    BY Types DEF Good, Shape, Chained, IsList
  <1>2. Retyped(L.sec, R.sec, s, type) /\ R.head = L.head
    BY <1>1, SetTypeRetypes
  <1>3. R = [sec |-> R.sec, head |-> R.head]
    BY <1>1 DEF SetType
  <1>4. Shape(R.sec, top) /\ Retypes(L.sec, R.sec, L.sec[s].start, type)
    BY <1>1, <1>2, RetypedPages
  <1>5. Tidy(R.sec)
    BY <1>1, <1>2, RetypedTidy
  <1>6. L.sec[s].start \in Int /\ Has(L.sec, s, L.sec[s].start) /\ s \in Slot
    BY <1>1, FieldTypes DEF Has, End
  <1>7. Good(R.sec, top, ram) /\ FreeOf(R.sec) = Change(FreeOf(L.sec), L.sec[s].start, type)
    <2> DEFINE old == L.sec
               sec == R.sec
               q == L.sec[s].start
    <2>1. /\ Good(old, top, ram) /\ Shape(sec, top) /\ Tidy(sec)
          /\ q \in Int /\ Has(old, s, q) /\ Retypes(old, sec, q, type)
      BY <1>4, <1>5, <1>6
    <2> HIDE DEF old, sec, q
    <2>2. Good(sec, top, ram) /\ FreeOf(sec) = Change(FreeOf(old), q, type)
      BY <1>6, <2>1, RetypesResult
    <2> QED BY <2>2 DEF old, sec, q
  <1> QED BY <1>2, <1>3, <1>7 DEF IsList

(* A section of one page is freed, or stays when it cannot be merged. *)
LEMMA FreedWholeChanges ==
    ASSUME NEW L, IsList(L), NEW top \in Int, NEW ram \in SUBSET Int, Good(L.sec, top, ram),
           NEW s \in Slot, L.sec[s].prev # NULL, L.sec[s].next # NULL, L.sec[s].pages = 1,
           NEW R, R = FreedWhole(L, s), R.head # NULL
    PROVE  /\ IsList(R) /\ Good(R.sec, top, ram)
           /\ \/ FreeOf(R.sec) = FreeOf(L.sec)
              \/ FreeOf(R.sec) = FreeOf(L.sec) \cup {L.sec[s].start}
  <1> DEFINE p == L.sec[s].prev
             n == L.sec[s].next
             M == pmm_section_combine_next(L, s)
             free(t) == L.sec[t].free = PMM_SECTION_FREE
  <1>1. Chained(L.sec, top)
    BY DEF Good, Shape
  <1>2. p \in Slot /\ Linked(L.sec, s) /\ s # 0
    BY <1>1, Neighbours DEF Linked, Chained
  <1>3. CASE free(p) /\ free(n)
    <2>1. R = IF M.head = NULL THEN M ELSE pmm_section_combine_next(M, p)
      BY <1>3 DEF FreedWhole
    <2>2. M.head # NULL /\ R = pmm_section_combine_next(M, p)
      BY <2>1
    <2>3. IsList(M) /\ Good(M.sec, top, ram) /\ FreeOf(M.sec) = FreeOf(L.sec)
      BY <2>2, CombinedNext
    <2> HIDE DEF M
    <2>4. IsList(R) /\ Good(R.sec, top, ram) /\ FreeOf(R.sec) = FreeOf(M.sec)
      BY <1>2, <2>2, <2>3, CombinedNext
    <2> QED BY <2>3, <2>4
  <1>4. CASE free(p) /\ ~free(n)
    <2>1. R = pmm_section_combine_prev(L, s)
      BY <1>4 DEF FreedWhole
    <2> HIDE DEF p, n, free, M
    <2>2. IsList(R) /\ Good(R.sec, top, ram) /\ FreeOf(R.sec) = FreeOf(L.sec)
      BY <2>1, CombinedPrev, SMTT(30)
    <2> QED BY <2>2
  <1>5. CASE ~free(p) /\ free(n)
    <2>1. R = pmm_section_combine_next(L, s)
      BY <1>5 DEF FreedWhole
    <2> HIDE DEF p, n, free, M
    <2>2. IsList(R) /\ Good(R.sec, top, ram) /\ FreeOf(R.sec) = FreeOf(L.sec)
      BY <2>1, CombinedNext, SMTT(30)
    <2> QED BY <2>2
  <1>6. CASE ~free(p) /\ ~free(n)
    <2>1. R = SetType(L, s, PMM_SECTION_FREE) /\ MayBecome(L.sec, s, PMM_SECTION_FREE)
      BY <1>6 DEF FreedWhole, MayBecome
    <2>2. s \in Slot \ {0}
      BY <1>2
    <2>3. /\ IsList(R) /\ Good(R.sec, top, ram)
          /\ FreeOf(R.sec) = Change(FreeOf(L.sec), L.sec[s].start, PMM_SECTION_FREE)
      BY <1>2, <2>1, <2>2, RetypedChanges
    <2> QED BY <2>3 DEF Change
  <1> QED BY <1>3, <1>4, <1>5, <1>6

(* pfa.c:163-182 takes the page. *)
LockedWhole(L, s) ==
    LET p == L.sec[s].prev
        n == L.sec[s].next
        used(t) == L.sec[t].free = PMM_SECTION_USED
        M == SetType(L, s, PMM_SECTION_USED)
    IN  IF used(p) /\ used(n)
        THEN LET K == pmm_section_combine_next(M, s)
             IN  IF K.head = NULL THEN K ELSE pmm_section_combine_next(K, p)
        ELSE IF used(p) THEN pmm_section_combine_prev(M, s)
        ELSE IF used(n) THEN pmm_section_combine_next(M, s)
        ELSE M

(* A section of one page is taken. *)
LEMMA LockedWholeChanges ==
    ASSUME NEW L, IsList(L), NEW top \in Int, NEW ram \in SUBSET Int, Good(L.sec, top, ram),
           NEW s \in Slot, L.sec[s].prev # NULL, L.sec[s].next # NULL, L.sec[s].pages = 1,
           NEW R, R = LockedWhole(L, s), R.head # NULL
    PROVE  /\ IsList(R) /\ Good(R.sec, top, ram)
           /\ FreeOf(R.sec) = FreeOf(L.sec) \ {L.sec[s].start}
  <1> DEFINE p == L.sec[s].prev
             n == L.sec[s].next
             M == SetType(L, s, PMM_SECTION_USED)
             K == pmm_section_combine_next(M, s)
             used(t) == L.sec[t].free = PMM_SECTION_USED
  <1>1. Chained(L.sec, top)
    BY DEF Good, Shape
  <1>2. p \in Slot /\ Linked(L.sec, s) /\ s # 0
    BY <1>1, Neighbours DEF Linked, Chained
  <1>3. /\ IsList(M) /\ Good(M.sec, top, ram)
        /\ FreeOf(M.sec) = FreeOf(L.sec) \ {L.sec[s].start}
    <2>1. MayBecome(L.sec, s, PMM_SECTION_USED) /\ s \in Slot \ {0}
      BY <1>2, Types DEF MayBecome
    <2> HIDE DEF M
    <2>2. M = SetType(L, s, PMM_SECTION_USED)
      BY DEF M
    <2>3. /\ IsList(M) /\ Good(M.sec, top, ram)
          /\ FreeOf(M.sec) = Change(FreeOf(L.sec), L.sec[s].start, PMM_SECTION_USED)
      BY <1>2, <2>1, <2>2, RetypedChanges
    <2> QED BY <2>3, Types DEF Change
  <1>4. R = IF used(p) /\ used(n)
            THEN IF K.head = NULL THEN K ELSE pmm_section_combine_next(K, p)
            ELSE IF used(p) THEN pmm_section_combine_prev(M, s)
            ELSE IF used(n) THEN pmm_section_combine_next(M, s)
            ELSE M
    BY DEF LockedWhole
  <1>5. K = pmm_section_combine_next(M, s)
    OBVIOUS
  <1> HIDE DEF M, K
  <1>6. CASE used(p) /\ used(n)
    <2>1. K.head # NULL /\ R = pmm_section_combine_next(K, p)
      BY <1>4, <1>6
    <2>2. IsList(K) /\ Good(K.sec, top, ram) /\ FreeOf(K.sec) = FreeOf(M.sec)
      BY <1>3, <1>5, <2>1, CombinedNext
    <2>3. IsList(R) /\ Good(R.sec, top, ram) /\ FreeOf(R.sec) = FreeOf(K.sec)
      BY <1>2, <2>1, <2>2, CombinedNext
    <2> QED BY <1>3, <2>2, <2>3
  <1>7. CASE used(p) /\ ~used(n)
    <2>1. R = pmm_section_combine_prev(M, s)
      BY <1>4, <1>7
    <2>2. IsList(R) /\ Good(R.sec, top, ram) /\ FreeOf(R.sec) = FreeOf(M.sec)
      BY <1>3, <2>1, CombinedPrev
    <2> QED BY <1>3, <2>2
  <1>8. CASE ~used(p) /\ used(n)
    <2>1. R = K
      BY <1>4, <1>5, <1>8
    <2>2. IsList(R) /\ Good(R.sec, top, ram) /\ FreeOf(R.sec) = FreeOf(M.sec)
      BY <1>3, <1>5, <2>1, CombinedNext
    <2> QED BY <1>3, <2>2
  <1>9. CASE ~used(p) /\ ~used(n)
    <2>1. R = M
      BY <1>4, <1>9
    <2> QED BY <1>3, <2>1
  <1> QED BY <1>6, <1>7, <1>8, <1>9

(* pmm_alloc_page's way with a section that has no pages. *)
LEMMA EmptyUnlinked ==
    ASSUME NEW sec, NEW top \in Int, NEW ram \in SUBSET Int, Good(sec, top, ram),
           NEW t \in Slot, sec[t].pages = 0, sec[t].prev # NULL, sec[t].next # NULL,
           NEW S, S = UnlinkEmpty(sec, t)
    PROVE  /\ Good(S, top, ram) /\ FreeOf(S) = FreeOf(sec)
           /\ sec[t].next \in Slot /\ S[sec[t].next].start = sec[t].start
           /\ Linked(S, sec[t].next)
  <1>1. Chained(sec, top) /\ Shape(sec, top) /\ Tidy(sec) /\ sec \in [Slot -> pmm_section_t]
    BY DEF Good, Shape, Chained
  <1>2. sec[t].next \in Slot \ {t} /\ sec[t].prev \in Slot \ {t, sec[t].next}
    BY <1>1, Neighbours, Distinct
  <1>3. sec[sec[t].next].start = End(sec, t)
    BY <1>1 DEF Chained, Joined
  <1>4. NextSwallows(sec, S, t)
    BY <1>1, <1>2, <1>3, UnlinkSwallows
  <1>5. Shape(S, top) /\ Keeps(sec, S)
    BY <1>1, <1>2, <1>4, NextSwallowsPages
  <1>6. Tidy(S)
    BY <1>1, <1>4, NextSwallowsTidy
  <1>7. S[sec[t].next].start = sec[t].start /\ S[sec[t].next].prev = sec[t].prev
    BY <1>4 DEF NextSwallows
  <1>8. Linked(S, sec[t].next)
    BY <1>7 DEF Linked
  <1> QED BY <1>2, <1>5, <1>6, <1>7, <1>8, KeepsResult

(* pmm_recombine's merge: a section swallows the next one of its type.       *)
LEMMA Merged ==
    ASSUME NEW sec, NEW top \in Int, NEW ram \in SUBSET (0 .. top - 1), ram # {},
           Good(sec, top, ram),
           NEW s \in Slot, sec[s].next # NULL, sec[s].free = sec[sec[s].next].free,
           NEW S, S = CombinePrev(sec, sec[s].next)
    PROVE  LET m == sec[sec[s].next].next
           IN  /\ Good(S, top, ram) /\ FreeOf(S) = FreeOf(sec)
               /\ m # NULL => m \in Slot /\ Linked(S, m)
  <1> DEFINE t == sec[s].next
             m == sec[t].next
  <1>1. Chained(sec, top) /\ Shape(sec, top) /\ Tidy(sec) /\ sec \in [Slot -> pmm_section_t]
        /\ RamKept(sec, ram)
    BY DEF Good, Shape, Chained
  <1>2. t \in Slot \ {s} /\ sec[t].prev = s /\ s # NULL /\ sec[t].next \notin {t, s}
        /\ Linked(sec, t) /\ Linked(sec, s) /\ sec[t].start = End(sec, s)
    <2>1. t \in Slot \ {s} /\ Linked(sec, t) /\ s # NULL
      BY <1>1, Neighbours, Distinct, Slots
    <2>2. sec[t].prev = s /\ Linked(sec, s) /\ sec[t].start = End(sec, s)
      BY <1>1 DEF Chained, Joined, Linked
    <2>3. sec[t].next # t /\ (sec[t].next # NULL => sec[t].next # sec[t].prev)
      BY <1>1, <2>1, Distinct
    <2> QED BY <2>1, <2>2, <2>3
  <1>3. sec[s].free = sec[t].free /\ S = CombinePrev(sec, t)
    OBVIOUS
  <1> HIDE DEF t
  <1>4. sec[t].next # NULL \/ sec[s].prev # NULL
    <2>1. SUFFICES ASSUME sec[t].next = NULL, sec[s].prev = NULL PROVE FALSE
      OBVIOUS
    <2>2. s = 0 /\ End(sec, t) = top /\ sec[s].start = 0
      BY <1>1, <1>2, <2>1 DEF Chained, Joined
    <2>3. sec[s].free = PMM_SECTION_BAD /\ sec[t].free = PMM_SECTION_BAD
      BY <1>1, <1>3, <2>2 DEF Tidy
    <2>4. PICK p \in ram : p \in 0 .. top - 1
      OBVIOUS
    <2>5. End(sec, s) \in Int
      BY <1>1, FieldTypes DEF End
    <2>6. Has(sec, s, p) \/ Has(sec, t, p)
      BY <1>2, <2>2, <2>4, <2>5 DEF Has
    <2> QED BY <1>1, <1>2, <2>3, <2>4, <2>6 DEF RamKept
  <1>5. PrevSwallows(sec, S, t)
    BY <1>1, <1>2, <1>3, CombinePrevSwallows
  <1>6. Shape(S, top) /\ Keeps(sec, S)
    BY <1>1, <1>2, <1>3, <1>4, <1>5, PrevSwallowsPages
  <1>7. Tidy(S)
    BY <1>1, <1>2, <1>3, <1>5, Slots, PrevSwallowsTidy
  <1>8. Good(S, top, ram) /\ FreeOf(S) = FreeOf(sec)
    <2>1. ram \in SUBSET Int
      OBVIOUS
    <2> QED BY <1>6, <1>7, <2>1, KeepsResult
  <1>9. m # NULL => m \in Slot /\ Linked(S, m)
    <2>1. SUFFICES ASSUME m # NULL PROVE m \in Slot /\ Linked(S, m)
      OBVIOUS
    <2>2. m \in Slot \ {t, s}
      BY <1>1, <1>2, <2>1, Neighbours
    <2>3. S[m].prev = s
      BY <1>2, <1>5, <2>2 DEF PrevSwallows
    <2> QED BY <1>2, <2>2, <2>3 DEF Linked
  <1> QED BY <1>8, <1>9 DEF t

-----------------------------------------------------------------------------
(* The list pmm_start hands over.                                          *)

From(b, i)  == b.secs[i].start
Until(b, i) == b.secs[i].start + b.secs[i].pages

(* The fields of the list pmm_start leaves. *)
LEMMA BootFields ==
    ASSUME NEW b \in Boots
    PROVE  /\ Len(b.secs) \in 2 .. NSlots /\ DOMAIN b.secs = 1 .. Len(b.secs)
           /\ \A i \in 1 .. Len(b.secs) :
                /\ From(b, i) \in Nat /\ Until(b, i) \in Nat /\ From(b, i) < Until(b, i)
                /\ b.secs[i].pages \in Nat \ {0} /\ b.secs[i].start \in Nat
                /\ b.secs[i].free \in Type
           /\ \A i \in 1 .. Len(b.secs) - 1 :
                From(b, i + 1) = Until(b, i) /\ b.secs[i + 1].free # b.secs[i].free
           /\ From(b, 1) = 0 /\ b.secs[1].free = PMM_SECTION_BAD
           /\ b.head \in 0 .. NSlots
           /\ Top(b) = Until(b, Len(b.secs)) /\ Top(b) \in Nat
  <1> DEFINE Sec == [start : Nat, pages : Nat \ {0}, free : Type]
  <1>1. /\ b.secs \in Seq(Sec) /\ Len(b.secs) \in 2 .. NSlots
        /\ b.head \in Len(b.secs) .. NSlots
        /\ b.secs[1].start = 0 /\ b.secs[1].free = PMM_SECTION_BAD
        /\ \A i \in 1 .. Len(b.secs) - 1 :
            /\ b.secs[i + 1].start = b.secs[i].start + b.secs[i].pages
            /\ b.secs[i + 1].free # b.secs[i].free
    <2>1. b.secs \in Seq(Sec) /\ Len(b.secs) \in 2 .. NSlots
      BY BootsAssumption DEF BootsAssumption
    <2>2. b.head \in Len(b.secs) .. NSlots
      BY BootsAssumption DEF BootsAssumption
    <2>3. b.secs[1].start = 0 /\ b.secs[1].free = PMM_SECTION_BAD
      BY BootsAssumption DEF BootsAssumption
    <2>4. \A i \in 1 .. Len(b.secs) - 1 :
            /\ b.secs[i + 1].start = b.secs[i].start + b.secs[i].pages
            /\ b.secs[i + 1].free # b.secs[i].free
      BY BootsAssumption DEF BootsAssumption
    <2> QED BY <2>1, <2>2, <2>3, <2>4
  <1>2. DOMAIN b.secs = 1 .. Len(b.secs) /\ \A i \in 1 .. Len(b.secs) : b.secs[i] \in Sec
    <2>1. b.secs \in Seq(Sec)
      BY <1>1
    <2> HIDE DEF Sec
    <2> QED BY <2>1
  <1>3. ASSUME NEW i \in 1 .. Len(b.secs)
        PROVE  /\ b.secs[i].pages \in Nat \ {0} /\ b.secs[i].start \in Nat
               /\ b.secs[i].free \in Type
    BY <1>2
  <1>4. ASSUME NEW i \in 1 .. Len(b.secs)
        PROVE  From(b, i) \in Nat /\ Until(b, i) \in Nat /\ From(b, i) < Until(b, i)
    BY <1>3 DEF From, Until
  <1>5. ASSUME NEW i \in 1 .. Len(b.secs) - 1
        PROVE  From(b, i + 1) = Until(b, i) /\ b.secs[i + 1].free # b.secs[i].free
    BY <1>1 DEF From, Until
  <1>6. Len(b.secs) \in 1 .. Len(b.secs) /\ Len(b.secs) \in Nat /\ NSlots \in Nat
    BY <1>1, Slots
  <1>7. b.head \in 0 .. NSlots
    BY <1>1, <1>6
  <1>8. Top(b) = Until(b, Len(b.secs))
    BY DEF Top, Until
  <1>9. Top(b) \in Nat
    BY <1>4, <1>6, <1>8
  <1> HIDE DEF Sec
  <1>10. From(b, 1) = 0
    BY <1>1 DEF From
  <1> QED BY <1>1, <1>2, <1>3, <1>4, <1>5, <1>7, <1>8, <1>9, <1>10

(* The sections lie one behind the other. *)
LEMMA BootOrder ==
    ASSUME NEW b \in Boots, NEW i \in 1 .. Len(b.secs), NEW j \in 1 .. Len(b.secs), i < j
    PROVE  Until(b, i) <= From(b, j)
  <1> DEFINE N == Len(b.secs)
             T == {k \in 1 .. N : i < k /\ ~(Until(b, i) <= From(b, k))}
  <1>1. N \in Nat
    BY BootFields
  <1>2. SUFFICES ASSUME T # {} PROVE FALSE
    OBVIOUS
  <1>3. T \in SUBSET Nat
    BY <1>1
  <1>4. PICK m \in T : \A k \in T : m <= k
    BY <1>2, <1>3, LeastMember
  <1>5. m \in 1 .. N /\ i < m /\ ~(Until(b, i) <= From(b, m)) /\ m - 1 \in 1 .. N - 1
    BY <1>1, <1>4
  <1>6. From(b, m) = Until(b, m - 1)
    <2>1. From(b, m - 1 + 1) = Until(b, m - 1)
      BY <1>5, BootFields
    <2>2. m - 1 + 1 = m
      BY <1>5
    <2> QED BY <2>1, <2>2
  <1>7. CASE i = m - 1
    BY <1>5, <1>6, <1>7, BootFields
  <1>8. CASE i # m - 1
    <2>1. m - 1 \in 1 .. N /\ i < m - 1 /\ m - 1 < m
      BY <1>1, <1>5, <1>8
    <2>2. m - 1 \notin T
      BY <1>4, <2>1
    <2>3. Until(b, i) <= From(b, m - 1)
      BY <2>1, <2>2
    <2>4. /\ From(b, m - 1) < Until(b, m - 1) /\ From(b, m - 1) \in Nat
          /\ Until(b, m - 1) \in Nat /\ Until(b, i) \in Nat
      BY <2>1, BootFields
    <2> QED BY <1>5, <1>6, <2>3, <2>4
  <1> QED BY <1>7, <1>8

(* They cover memory from page 0 to the top. *)
LEMMA BootSpan ==
    ASSUME NEW b \in Boots
    PROVE  /\ \A i \in 1 .. Len(b.secs) : Until(b, i) <= Top(b)
           /\ \A p \in 0 .. Top(b) - 1 :
                \E i \in 1 .. Len(b.secs) : From(b, i) <= p /\ p < Until(b, i)
  <1> DEFINE N == Len(b.secs)
  <1>1. /\ N \in Nat /\ N \in 1 .. N /\ Top(b) = Until(b, N) /\ Top(b) \in Nat
        /\ \A i \in 1 .. N : From(b, i) \in Nat /\ Until(b, i) \in Nat
                             /\ From(b, i) < Until(b, i)
    <2>1. N \in 2 .. NSlots /\ NSlots \in Nat
      BY BootFields, Slots
    <2> QED BY <2>1, BootFields
  <1>2. ASSUME NEW i \in 1 .. N PROVE Until(b, i) <= Top(b)
    <2>1. CASE i = N
      BY <1>1, <2>1
    <2>2. CASE i # N
      <3>1. i < N
        BY <1>1, <2>2
      <3>2. Until(b, i) <= From(b, N)
        BY <1>1, <3>1, BootOrder
      <3>3. From(b, N) < Until(b, N) /\ From(b, N) \in Nat /\ Until(b, i) \in Nat
        BY <1>1
      <3> QED BY <1>1, <3>2, <3>3
    <2> QED BY <2>1, <2>2
  <1>3. ASSUME NEW p \in 0 .. Top(b) - 1
        PROVE  \E i \in 1 .. N : From(b, i) <= p /\ p < Until(b, i)
    <2> DEFINE T == {k \in 1 .. N : p < Until(b, k)}
    <2>1. N \in T
      BY <1>1
    <2>2. PICK m \in T : \A k \in T : m <= k
      <3>1. T \in SUBSET Nat
        BY <1>1
      <3> QED BY <2>1, <3>1, LeastMember
    <2>3. m \in 1 .. N /\ p < Until(b, m)
      OBVIOUS
    <2>4. CASE m = 1
      BY <2>3, <2>4, BootFields
    <2>5. CASE m # 1
      <3>1. m - 1 \in 1 .. N /\ m - 1 \in 1 .. N - 1 /\ m - 1 < m /\ m - 1 + 1 = m
        BY <1>1, <2>3, <2>5
      <3>2. ~(p < Until(b, m - 1))
        BY <2>2, <3>1
      <3>3. From(b, m) = Until(b, m - 1)
        <4>1. From(b, m - 1 + 1) = Until(b, m - 1)
          BY <3>1, BootFields
        <4> QED BY <3>1, <4>1
      <3>4. From(b, m) <= p
        BY <1>1, <2>3, <3>1, <3>2, <3>3
      <3> QED BY <2>3, <3>4
    <2> QED BY <2>4, <2>5
  <1> QED BY <1>2, <1>3

(* The free memory at boot is memory, and the headers' run is part of it. *)
LEMMA BootMemory ==
    ASSUME NEW b \in Boots
    PROVE  /\ \A p : p \in BootFree(b) <=>
                /\ p \in Int
                /\ \E i \in 1 .. Len(b.secs) : /\ b.secs[i].free = PMM_SECTION_FREE
                                               /\ From(b, i) <= p /\ p < Until(b, i)
           /\ b.data.base \in Nat /\ b.data.pages \in Nat \ {0}
           /\ b.data.base .. b.data.base + b.data.pages - 1 \subseteq BootFree(b)
           /\ BootFree(b) \subseteq 0 .. Top(b) - 1 /\ BootFree(b) # {}
           /\ BootFree(b) \in SUBSET Int
  <1>1. ASSUME NEW p
        PROVE  p \in BootFree(b) <=>
                /\ p \in Int
                /\ \E i \in 1 .. Len(b.secs) : /\ b.secs[i].free = PMM_SECTION_FREE
                                               /\ From(b, i) <= p /\ p < Until(b, i)
    <2>1. p \in BootFree(b) <=>
            \E i \in DOMAIN b.secs : /\ b.secs[i].free = PMM_SECTION_FREE
                                     /\ p \in b.secs[i].start .. b.secs[i].start + b.secs[i].pages - 1
      BY DEF BootFree
    <2>2. DOMAIN b.secs = 1 .. Len(b.secs)
      BY BootFields
    <2>3. ASSUME NEW i \in 1 .. Len(b.secs)
          PROVE  p \in b.secs[i].start .. b.secs[i].start + b.secs[i].pages - 1 <=>
                   p \in Int /\ From(b, i) <= p /\ p < Until(b, i)
      <3>1. b.secs[i].pages \in Nat /\ b.secs[i].start \in Nat
        BY BootFields
      <3> QED BY <3>1 DEF From, Until
    <2> QED BY <2>1, <2>2, <2>3
  <1>2. /\ b.data.pages \in Nat \ {0}
        /\ \E i \in 1 .. Len(b.secs) : /\ b.secs[i].free = PMM_SECTION_FREE
                                       /\ b.data.base = b.secs[i].start
                                       /\ b.data.pages <= b.secs[i].pages
    BY BootsAssumption DEF BootsAssumption
  <1>3. PICK i \in 1 .. Len(b.secs) : /\ b.secs[i].free = PMM_SECTION_FREE
                                      /\ b.data.base = b.secs[i].start
                                      /\ b.data.pages <= b.secs[i].pages
    BY <1>2
  <1>4. b.secs[i].pages \in Nat /\ b.secs[i].start \in Nat
    BY BootFields
  <1>5. ASSUME NEW p \in b.data.base .. b.data.base + b.data.pages - 1
        PROVE  p \in BootFree(b)
    <2> DEFINE base  == b.data.base
               pages == b.data.pages
               start == b.secs[i].start
               many  == b.secs[i].pages
    <2>1. /\ pages \in Nat /\ many \in Nat /\ start \in Nat /\ base = start /\ pages <= many
          /\ p \in base .. base + pages - 1
      BY <1>2, <1>3, <1>4, <1>5
    <2> HIDE DEF base, pages, start, many
    <2>2. p \in Int /\ start <= p /\ p < start + many
      BY <2>1
    <2>3. p \in Int /\ From(b, i) <= p /\ p < Until(b, i)
      BY <2>2 DEF From, Until, start, many
    <2> QED BY <1>1, <1>3, <2>3
  <1>6. ASSUME NEW p \in BootFree(b) PROVE p \in 0 .. Top(b) - 1
    <2>1. PICK k \in 1 .. Len(b.secs) : p \in Int /\ From(b, k) <= p /\ p < Until(b, k)
      BY <1>1
    <2>2. From(b, k) \in Nat /\ Until(b, k) \in Nat /\ Until(b, k) <= Top(b) /\ Top(b) \in Nat
      BY BootFields, BootSpan
    <2> QED BY <2>1, <2>2
  <1>7. b.data.base \in b.data.base .. b.data.base + b.data.pages - 1
    BY <1>2, <1>3, <1>4
  <1> QED BY <1>1, <1>2, <1>3, <1>4, <1>5, <1>6, <1>7

(* Its headers, one slot for each section. *)
LEMMA BootHeaders ==
    ASSUME NEW b \in Boots, NEW S, S = BootSections(b)
    PROVE  /\ S \in [Slot -> pmm_section_t]
           /\ \A s \in Slot : IF s < Len(b.secs)
                THEN /\ s + 1 \in 1 .. Len(b.secs) /\ Linked(S, s)
                     /\ S[s].prev = (IF s = 0 THEN NULL ELSE s - 1)
                     /\ S[s].next = (IF s = Len(b.secs) - 1 THEN NULL ELSE s + 1)
                     /\ S[s].start = From(b, s + 1) /\ End(S, s) = Until(b, s + 1)
                     /\ S[s].pages = b.secs[s + 1].pages /\ S[s].pages # 0
                     /\ S[s].free = b.secs[s + 1].free
                ELSE S[s] = Unlinked
           /\ \A i \in 1 .. Len(b.secs) : i - 1 \in Slot
  <1> DEFINE N == Len(b.secs)
             r(s) == Header(IF s = 0 THEN NULL ELSE s - 1, IF s = N - 1 THEN NULL ELSE s + 1,
                            b.secs[s + 1].start, b.secs[s + 1].pages, b.secs[s + 1].free)
  <1>1. N \in 2 .. NSlots /\ NSlots \in Nat
    BY BootFields, Slots
  <1>2. S = [s \in Slot |-> IF s < N THEN r(s) ELSE Unlinked]
    BY Zenon DEF BootSections, Header
  <1>3. \A s \in Slot : S[s] = IF s < N THEN r(s) ELSE Unlinked
    <2> HIDE DEF r, N
    <2> QED BY <1>2
  <1>4. \A s : r(s) = Header(IF s = 0 THEN NULL ELSE s - 1, IF s = N - 1 THEN NULL ELSE s + 1,
                            b.secs[s + 1].start, b.secs[s + 1].pages, b.secs[s + 1].free)
    OBVIOUS
  <1> HIDE DEF r
  <1>5. ASSUME NEW s \in Slot, s < N
        PROVE  /\ S[s] \in pmm_section_t
               /\ s + 1 \in 1 .. N /\ Linked(S, s)
               /\ S[s].prev = (IF s = 0 THEN NULL ELSE s - 1)
               /\ S[s].next = (IF s = N - 1 THEN NULL ELSE s + 1)
               /\ S[s].start = From(b, s + 1) /\ End(S, s) = Until(b, s + 1)
               /\ S[s].pages = b.secs[s + 1].pages /\ S[s].pages # 0
               /\ S[s].free = b.secs[s + 1].free
    <2>1. s \in Nat /\ s + 1 \in 1 .. N
      BY <1>1, <1>5, Slots
    <2>2. (IF s = 0 THEN NULL ELSE s - 1) \in SlotP /\ (IF s = N - 1 THEN NULL ELSE s + 1) \in SlotP
      BY <1>1, <1>5, <2>1, Slots DEF Slot
    <2>3. /\ b.secs[s + 1].pages \in Nat \ {0} /\ b.secs[s + 1].start \in Int
          /\ b.secs[s + 1].free \in Type
      <3>1. b.secs[s + 1].start \in Nat
        BY <2>1, BootFields
      <3>2. b.secs[s + 1].start \in Int
        BY <3>1
      <3> QED BY <2>1, <3>2, BootFields
    <2>4. S[s] = Header(IF s = 0 THEN NULL ELSE s - 1, IF s = N - 1 THEN NULL ELSE s + 1,
                        b.secs[s + 1].start, b.secs[s + 1].pages, b.secs[s + 1].free)
      BY <1>3, <1>4, <1>5
    <2>5. /\ S[s] \in pmm_section_t
          /\ S[s].prev = (IF s = 0 THEN NULL ELSE s - 1)
          /\ S[s].next = (IF s = N - 1 THEN NULL ELSE s + 1)
          /\ S[s].start = b.secs[s + 1].start /\ S[s].pages = b.secs[s + 1].pages
          /\ S[s].free = b.secs[s + 1].free
      BY <2>2, <2>3, <2>4, HeaderFields
    <2>6. Linked(S, s)
      <3>1. CASE s = 0
        <4>1. s # N - 1
          <5> HIDE DEF N
          <5>1. N - 1 # 0
            BY <1>1
          <5> QED BY <3>1, <5>1
        <4>3. s + 1 # NULL
          <5>1. s + 1 = 1
            BY <3>1
          <5> QED BY <5>1 DEF NULL
        <4> QED BY <2>5, <4>1, <4>3 DEF Linked
      <3>2. CASE s # 0
        <4>1. s - 1 # NULL
          BY <2>1, <3>2, Slots
        <4> QED BY <2>5, <3>2, <4>1 DEF Linked
      <3> QED BY <3>1, <3>2
    <2> QED BY <2>1, <2>3, <2>5, <2>6 DEF From, Until, End
  <1>6. Unlinked \in pmm_section_t
    BY Slots, Types DEF Unlinked, pmm_section_t
  <1>7. S \in [Slot -> pmm_section_t]
    <2>1. \A s \in Slot : S[s] \in pmm_section_t
      BY <1>3, <1>5, <1>6
    <2>2. S = [s \in Slot |-> S[s]]
      <3> HIDE DEF N
      <3> QED BY <1>2, Zenon
    <2> QED BY <2>1, <2>2, Zenon
  <1>8. \A i \in 1 .. N : i - 1 \in Slot
    BY <1>1 DEF Slot
  <1> QED BY <1>3, <1>5, <1>7, <1>8

(* That list is good, and free is in it what was free at boot. *)
LEMMA BootGood ==
    ASSUME NEW b \in Boots, NEW S, S = BootSections(b)
    PROVE  Good(S, Top(b), BootFree(b)) /\ FreeOf(S) = BootFree(b)
  <1> DEFINE N == Len(b.secs)
  <1>1. N \in 2 .. NSlots /\ NSlots \in Nat /\ N \in Nat /\ Top(b) \in Nat
    BY BootFields, Slots
  <1>2. Unlinked.prev = NULL /\ Unlinked.next = NULL /\ Unlinked.start = 0 /\ Unlinked.pages = 0
        /\ Unlinked.free = PMM_SECTION_USED
    BY DEF Unlinked
  <1>3. ASSUME NEW s \in Slot, NEW p \in Int
        PROVE  Has(S, s, p) <=> s < N /\ From(b, s + 1) <= p /\ p < Until(b, s + 1)
    <2>1. CASE s < N
      BY <2>1, BootHeaders DEF Has
    <2>2. CASE ~(s < N)
      <3>1. S[s] = Unlinked
        BY <2>2, BootHeaders
      <3> QED BY <1>2, <2>2, <3>1 DEF Has, Linked
    <2> QED BY <2>1, <2>2
  <1>4. Chained(S, Top(b))
    <2>1. ASSUME NEW s \in Slot, s < N PROVE Joined(S, Top(b), s)
      <3>1. /\ s \in Nat /\ s + 1 \in 1 .. N /\ Linked(S, s)
            /\ S[s].prev = (IF s = 0 THEN NULL ELSE s - 1)
            /\ S[s].next = (IF s = N - 1 THEN NULL ELSE s + 1)
            /\ S[s].start = From(b, s + 1) /\ End(S, s) = Until(b, s + 1)
        BY <2>1, BootHeaders, Slots
      <3>2. S[s].start >= 0 /\ End(S, s) <= Top(b)
        <4>1. From(b, s + 1) \in Nat /\ Until(b, s + 1) <= Top(b)
          BY <3>1, BootFields, BootSpan
        <4> QED BY <3>1, <4>1
      <3>3. ASSUME s # N - 1
            PROVE  S[s + 1].prev = s /\ S[s + 1].start = End(S, s)
        <4>0. s \in Nat
          BY <3>1
        <4>1. s + 1 \in Slot /\ s + 1 < N /\ s + 1 # 0 /\ (s + 1) - 1 = s /\ s + 1 \in 1 .. N - 1
          BY <1>1, <2>1, <3>3, <4>0 DEF Slot
        <4>2. S[s + 1].prev = (s + 1) - 1 /\ S[s + 1].start = From(b, s + 1 + 1)
          <5> DEFINE u == s + 1
          <5>1. u \in Slot /\ u < Len(b.secs) /\ u # 0
            BY <4>1
          <5> HIDE DEF u, N
          <5>2. S[u].prev = (IF u = 0 THEN NULL ELSE u - 1) /\ S[u].start = From(b, u + 1)
            BY <5>1, BootHeaders
          <5>3. S[u].prev = u - 1 /\ S[u].start = From(b, u + 1)
            BY <5>1, <5>2
          <5> QED BY <5>3 DEF u
        <4>3. From(b, s + 1 + 1) = Until(b, s + 1)
          BY <4>1, BootFields
        <4> QED BY <3>1, <4>1, <4>2, <4>3
      <3>4. ASSUME s = N - 1 PROVE End(S, s) = Top(b)
        <4>1. s + 1 = N
          BY <1>1, <3>4
        <4> QED BY <3>1, <4>1, BootFields
      <3>5. ASSUME s # 0 PROVE S[s - 1].next = s
        <4>1. s - 1 \in Slot /\ s - 1 < N /\ s - 1 # N - 1 /\ s - 1 + 1 = s
          BY <1>1, <2>1, <3>1, <3>5 DEF Slot
        <4>2. S[s - 1].next = s - 1 + 1
          BY <4>1, BootHeaders
        <4> QED BY <4>1, <4>2
      <3>6. s + 1 # NULL /\ (s # 0 => s - 1 # NULL)
        BY <3>1, Slots
      <3> QED BY <3>1, <3>2, <3>3, <3>4, <3>5, <3>6 DEF Joined
    <2>2. ASSUME NEW s \in Slot, ~(s < N) PROVE Joined(S, Top(b), s)
      <3>1. S[s] = Unlinked
        BY <2>2, BootHeaders
      <3>2. ~Linked(S, s) /\ End(S, s) = 0 /\ S[s].start = 0
        BY <1>2, <3>1 DEF Linked, End
      <3> QED BY <1>1, <1>2, <3>1, <3>2 DEF Joined
    <2>3. Linked(S, 0) /\ S[0].prev = NULL /\ S[0].start = 0
      <3>1. 0 \in Slot /\ 0 < N
        BY <1>1, Slots
      <3>2. Linked(S, 0) /\ S[0].prev = NULL /\ S[0].start = From(b, 0 + 1)
        BY <3>1, BootHeaders
      <3>3. From(b, 0 + 1) = 0
        BY BootFields
      <3> QED BY <3>2, <3>3
    <2>4. S \in [Slot -> pmm_section_t]
      BY BootHeaders
    <2> QED BY <2>1, <2>2, <2>3, <2>4 DEF Chained
  <1>5. Covered(S, Top(b))
    <2>1. ASSUME NEW p \in 0 .. Top(b) - 1 PROVE \E s \in Slot : Has(S, s, p)
      <3>1. PICK i \in 1 .. N : From(b, i) <= p /\ p < Until(b, i)
        BY BootSpan
      <3>2. i - 1 \in Slot /\ i - 1 < N /\ i - 1 + 1 = i
        BY <1>1, BootHeaders
      <3> QED BY <1>3, <3>1, <3>2
    <2> QED BY <2>1 DEF Covered
  <1>6. Apart(S)
    <2>1. ASSUME NEW i \in 1 .. N, NEW j \in 1 .. N, NEW p \in Int, i < j,
                 From(b, i) <= p, p < Until(b, i), From(b, j) <= p, p < Until(b, j)
          PROVE  FALSE
      <3>1. Until(b, i) <= From(b, j)
        BY <2>1, BootOrder
      <3>2. Until(b, i) \in Nat /\ From(b, j) \in Nat
        BY BootFields
      <3> QED BY <2>1, <3>1, <3>2
    <2>2. ASSUME NEW s \in Slot, NEW t \in Slot, NEW p \in Int, Has(S, s, p), Has(S, t, p)
          PROVE  s = t
      <3>0. s \in Nat /\ t \in Nat
        BY Slots
      <3>1. /\ s \in Nat /\ t \in Nat /\ s + 1 \in 1 .. N /\ t + 1 \in 1 .. N
            /\ From(b, s + 1) <= p /\ p < Until(b, s + 1)
            /\ From(b, t + 1) <= p /\ p < Until(b, t + 1)
        BY <1>1, <1>3, <2>2, <3>0
      <3>2. ~(s + 1 < t + 1) /\ ~(t + 1 < s + 1)
        BY <2>1, <3>1
      <3> QED BY <3>1, <3>2
    <2> QED BY <2>2 DEF Apart
  <1>7. Tidy(S)
    <2>1. S[0].free = PMM_SECTION_BAD
      <3>1. 0 \in Slot /\ 0 < N
        BY <1>1, Slots
      <3>2. S[0].free = b.secs[0 + 1].free
        BY <3>1, BootHeaders
      <3>3. b.secs[0 + 1].free = PMM_SECTION_BAD
        BY BootFields
      <3> QED BY <3>2, <3>3
    <2>2. ASSUME NEW s \in Slot, Linked(S, s), S[s].pages = 0 PROVE FALSE
      <3>1. CASE s < N
        BY <2>2, <3>1, BootHeaders
      <3>2. CASE ~(s < N)
        <4>1. S[s] = Unlinked
          BY <3>2, BootHeaders
        <4> QED BY <1>2, <2>2, <4>1 DEF Linked
      <3> QED BY <3>1, <3>2
    <2>3. ASSUME NEW s \in Slot, S[s].next # NULL PROVE S[S[s].next].free # S[s].free
      <3>1. s < N
        <4>1. SUFFICES ASSUME ~(s < N) PROVE FALSE
          OBVIOUS
        <4>2. S[s] = Unlinked
          BY <4>1, BootHeaders
        <4> QED BY <1>2, <2>3, <4>2
      <3>2. s # N - 1 /\ S[s].next = s + 1 /\ S[s].free = b.secs[s + 1].free
        BY <2>3, <3>1, BootHeaders
      <3>3. s \in Nat /\ s + 1 \in Slot /\ s + 1 < N /\ s + 1 \in 1 .. N - 1
        BY <1>1, <3>1, <3>2, Slots DEF Slot
      <3>4. S[s + 1].free = b.secs[s + 1 + 1].free
        BY <3>3, BootHeaders
      <3>5. b.secs[s + 1 + 1].free # b.secs[s + 1].free
        BY <3>3, BootFields
      <3> QED BY <3>2, <3>4, <3>5
    <2> QED BY <2>1, <2>2, <2>3 DEF Tidy
  <1>8. \A s \in Slot : s < N => S[s].free = b.secs[s + 1].free /\ s + 1 \in 1 .. N
    BY BootHeaders
  <1>9. ASSUME NEW p PROVE p \in FreeOf(S) <=> p \in BootFree(b)
    <2>1. ASSUME p \in FreeOf(S) PROVE p \in BootFree(b)
      <3>1. PICK s \in Slot : p \in Int /\ Has(S, s, p) /\ S[s].free = PMM_SECTION_FREE
        BY <2>1 DEF FreeOf
      <3>2. /\ s + 1 \in 1 .. N /\ b.secs[s + 1].free = PMM_SECTION_FREE
            /\ From(b, s + 1) <= p /\ p < Until(b, s + 1)
        BY <1>3, <1>8, <3>1
      <3> QED BY <3>1, <3>2, BootMemory
    <2>2. ASSUME p \in BootFree(b) PROVE p \in FreeOf(S)
      <3>1. PICK i \in 1 .. N : /\ p \in Int /\ b.secs[i].free = PMM_SECTION_FREE
                                /\ From(b, i) <= p /\ p < Until(b, i)
        BY <2>2, BootMemory
      <3>2. i - 1 \in Slot /\ i - 1 < N /\ i - 1 + 1 = i
        BY <1>1, BootHeaders
      <3>3. Has(S, i - 1, p) /\ S[i - 1].free = PMM_SECTION_FREE
        BY <1>3, <1>8, <3>1, <3>2
      <3> QED BY <3>1, <3>2, <3>3 DEF FreeOf
    <2> QED BY <2>1, <2>2
  <1>10. RamKept(S, BootFree(b))
    <2>1. ASSUME NEW s \in Slot, S[s].free = PMM_SECTION_BAD, NEW p \in BootFree(b), Has(S, s, p)
          PROVE  FALSE
      <3>1. p \in FreeOf(S)
        BY <1>9
      <3>2. PICK t \in Slot : p \in Int /\ Has(S, t, p) /\ S[t].free = PMM_SECTION_FREE
        BY <3>1 DEF FreeOf
      <3>3. t = s
        BY <1>6, <2>1, <3>2 DEF Apart
      <3> QED BY <2>1, <3>2, <3>3, Types
    <2> QED BY <2>1 DEF RamKept
  <1>11. FreeOf(S) = BootFree(b)
    BY <1>9
  <1> QED BY <1>4, <1>5, <1>6, <1>7, <1>10, <1>11 DEF Good, Shape

-----------------------------------------------------------------------------
(* What a cursor can tell from the section it stands on.                     *)

(* The free pages are those of PageSet. *)
LEMMA FreePagesAre ==
    ASSUME Good(sections, Top(boot), BootFree(boot))
    PROVE  FreePages = FreeOf(sections)
  <1>1. ASSUME NEW s \in Slot
        PROVE  sections[s].start \in Int /\ sections[s].pages \in Nat
    BY FieldTypes DEF Good, Shape, Chained
  <1>2. ASSUME NEW s \in Slot, NEW p PROVE p \in SectionPages(s) /\ Linked(sections, s) <=>
                                            p \in Int /\ Has(sections, s, p)
    BY <1>1 DEF SectionPages, Has, End
  <1> QED BY <1>2 DEF FreePages, FreeSections, FreeOf

(* A page is free exactly if its section is. *)
LEMMA FreeHas ==
    ASSUME NEW sec, NEW top \in Int, NEW ram, Good(sec, top, ram)
    PROVE  /\ FreeOf(sec) \subseteq 0 .. top - 1
           /\ \A s \in Slot, p \in Int : Has(sec, s, p) =>
                (p \in FreeOf(sec) <=> sec[s].free = PMM_SECTION_FREE)
  <1>1. ASSUME NEW p \in FreeOf(sec) PROVE p \in 0 .. top - 1
    <2>1. PICK s \in Slot : p \in Int /\ Has(sec, s, p)
      BY DEF FreeOf
    <2> QED BY <2>1, Inside DEF Good, Shape
  <1>2. ASSUME NEW s \in Slot, NEW p \in Int, Has(sec, s, p)
        PROVE  p \in FreeOf(sec) <=> sec[s].free = PMM_SECTION_FREE
    <2>1. ASSUME p \in FreeOf(sec) PROVE sec[s].free = PMM_SECTION_FREE
      <3>1. PICK t \in Slot : Has(sec, t, p) /\ sec[t].free = PMM_SECTION_FREE
        BY <2>1 DEF FreeOf
      <3>2. t = s
        BY <1>2, <3>1 DEF Good, Shape, Apart
      <3> QED BY <3>1, <3>2
    <2> QED BY <1>2, <2>1 DEF FreeOf
  <1> QED BY <1>1, <1>2

(* A page that is not before the section nor in it lies behind it. *)
LEMMA PassedBy ==
    ASSUME NEW sec, NEW top \in Int, NEW ram, Good(sec, top, ram),
           NEW s \in Slot, Linked(sec, s), NEW p \in 0 .. top - 1,
           sec[s].start <= p, ~Has(sec, s, p)
    PROVE  sec[s].next # NULL /\ sec[sec[s].next].start <= p
  <1>1. Joined(sec, top, s) /\ sec[s].start \in Int /\ sec[s].pages \in Nat
    BY FieldTypes DEF Good, Shape, Chained
  <1>2. End(sec, s) \in Int
    BY <1>1 DEF End
  <1>3. End(sec, s) <= p
    BY <1>2 DEF Has
  <1> QED BY <1>1, <1>2, <1>3 DEF Joined

(* The section that starts at a free page is the one the page is in: a free   *)
(* one, and not an empty one in front of it.                               *)
LEMMA StartsHere ==
    ASSUME NEW sec, NEW top \in Int, NEW ram, Good(sec, top, ram),
           NEW s \in Slot, Linked(sec, s), NEW p \in FreeOf(sec), sec[s].start = p
    PROVE  sec[s].pages # 0 /\ sec[s].free = PMM_SECTION_FREE /\ Has(sec, s, p)
  <1>1. p \in 0 .. top - 1 /\ p \in Int
    BY FreeHas
  <1>2. Chained(sec, top) /\ Tidy(sec)
    BY DEF Good, Shape
  <1>3. sec[s].pages \in Nat
    BY <1>2, FieldTypes DEF Chained
  <1>4. sec[s].pages # 0
    <2>1. SUFFICES ASSUME sec[s].pages = 0 PROVE FALSE
      OBVIOUS
    <2> DEFINE n == sec[s].next
    <2>2. sec[s].free = PMM_SECTION_FREE
      BY <1>2, <2>1 DEF Tidy
    <2>3. ~Has(sec, s, p)
      BY <1>1, <2>1 DEF Has, End
    <2>4. n # NULL /\ n \in Slot /\ Linked(sec, n) /\ sec[n].start <= p
      <3>1. sec[s].start <= p
        BY <1>1
      <3> QED BY <1>1, <1>2, <2>3, <3>1, PassedBy, Neighbours
    <2>5. sec[n].free # PMM_SECTION_FREE
      BY <1>2, <2>2, <2>4 DEF Tidy
    <2>6. sec[n].pages # 0 /\ sec[n].pages \in Nat /\ sec[n].start = p
      <3>1. sec[n].start = End(sec, s)
        BY <1>2, <2>4 DEF Chained, Joined
      <3>2. sec[n].pages \in Nat
        BY <1>2, <2>4, FieldTypes DEF Chained
      <3>3. sec[n].pages # 0
        BY <1>2, <2>4, <2>5 DEF Tidy
      <3> QED BY <1>1, <2>1, <3>1, <3>2, <3>3 DEF End
    <2>7. Has(sec, n, p)
      BY <1>1, <2>4, <2>6 DEF Has, End
    <2> QED BY <1>1, <2>4, <2>5, <2>7, FreeHas
  <1>5. Has(sec, s, p)
    BY <1>1, <1>3, <1>4 DEF Has, End
  <1> QED BY <1>1, <1>4, <1>5, FreeHas

-----------------------------------------------------------------------------
(* The invariant: what every step of every call keeps.                      *)

(* What the invariant says of the list, the boot and the cursor. *)
LEMMA BootOk ==
    ASSUME IInv
    PROVE  /\ boot \in Boots /\ Top(boot) \in Int
           /\ BootFree(boot) \in SUBSET Int /\ BootFree(boot) # {}
           /\ BootFree(boot) \in SUBSET (0 .. Top(boot) - 1)
           /\ Good(sections, Top(boot), BootFree(boot))
           /\ IsList(CurrentList) /\ CurrentList.sec = sections /\ CurrentList.head = section_head
           /\ Chained(sections, Top(boot)) /\ Tidy(sections)
           /\ sections \in [Slot -> pmm_section_t]
           /\ selected # NULL => selected \in Slot /\ Linked(sections, selected)
           /\ Linked(sections, 0) /\ sections[0].start = 0 /\ 0 \in Slot
  <1>1. boot \in Boots
    BY DEF IInv, TypeOK
  <1>2. Top(boot) \in Int
    BY <1>1, BootFields
  <1>3. Good(sections, Top(boot), BootFree(boot))
    BY DEF IInv, ListInv
  <1>4. Chained(sections, Top(boot)) /\ Tidy(sections)
    BY <1>3 DEF Good, Shape
  <1>5. IsList(CurrentList) /\ CurrentList.sec = sections /\ CurrentList.head = section_head
    BY DEF CurrentList, IsList, IInv, TypeOK
  <1>6. selected # NULL => selected \in Slot /\ Linked(sections, selected)
    BY Slots DEF IInv, TypeOK, CursorInv
  <1>7. Linked(sections, 0) /\ sections[0].start = 0 /\ sections \in [Slot -> pmm_section_t]
    BY <1>4 DEF Chained
  <1> QED BY <1>1, <1>2, <1>3, <1>4, <1>5, <1>6, <1>7, Slots, BootMemory

(* A step that leaves another good list, says where the cursor goes and what  *)
(* the running call has still to do.                                       *)
LEMMA ListStep ==
    ASSUME IInv, NEW S, Good(S, Top(boot), BootFree(boot)), sections' = S, boot' = boot,
           selected' # NULL => Linked(S, selected')
    PROVE  ListInv' /\ CursorInv' /\ sections' \in [Slot -> pmm_section_t]
  <1>1. ListInv'
    BY DEF ListInv
  <1>2. CursorInv'
    BY DEF CursorInv
  <1> QED BY <1>1, <1>2 DEF Good, Shape, Chained

(* The machine stops: nothing changes any more. *)
LEMMA HaltStep == IInv /\ Halt => IInv'
  <1> SUFFICES ASSUME IInv, Halt PROVE IInv'
    OBVIOUS
  <1>1. TypeOK'
    BY DEF IInv, TypeOK, Halt
  <1>2. ListInv' /\ CursorInv'
    BY DEF IInv, ListInv, CursorInv, Halt
  <1>3. LockInv' /\ SearchInv' /\ ClaimInv'
    BY DEF IInv, LockInv, SearchInv, ClaimInv, Halt
  <1> QED BY <1>1, <1>2, <1>3 DEF IInv

(* pmm_alloc_page is called. *)
LEMMA AllocPageCallStep == IInv /\ alloc_page_call => IInv'
  <1> SUFFICES ASSUME IInv, alloc_page_call PROVE IInv'
    OBVIOUS
  <1>1. /\ Good(sections, Top(boot), BootFree(boot)) /\ Linked(sections, 0) /\ 0 \in Slot
        /\ sections[0].start = 0 /\ Top(boot) \in Int
    BY BootOk
  <1>2. /\ pc = "idle" /\ pc' = "alloc_page" /\ selected' = 0 /\ sections' = sections
        /\ section_head' = section_head /\ pmm_pools' = pmm_pools /\ run' = run
        /\ detected' = detected /\ boot' = boot /\ held' = held /\ claim' = claim
    BY DEF alloc_page_call
  <1>3. TypeOK'
    BY <1>1, <1>2, Slots DEF IInv, TypeOK
  <1>4. ListInv' /\ CursorInv'
    BY <1>1, <1>2 DEF ListInv, CursorInv
  <1>5. LockInv'
    BY <1>2 DEF LockInv
  <1>6. SearchInv'
    <2>1. ASSUME NEW p \in FreeOf(sections) PROVE 0 <= p
      BY <1>1, FreeHas
    <2>2. 0 # NULL
      BY DEF NULL
    <2> QED BY <1>1, <1>2, <2>1, <2>2 DEF SearchInv
  <1>7. ClaimInv'
    BY <1>2 DEF IInv, ClaimInv
  <1> QED BY <1>3, <1>4, <1>5, <1>6, <1>7 DEF IInv

(* A call returns. *)
LEMMA ReturnStep ==
    ASSUME IInv, Return, UNCHANGED <<pmm_pools, detected, boot>>,
           Good(sections', Top(boot), BootFree(boot)), section_head' \in 0 .. NSlots
    PROVE  IInv'
  <1>1. /\ pc' = "idle" /\ selected' = NULL /\ run' = [base |-> 0, left |-> 0]
        /\ held' = held \cup claim /\ claim' = {}
        /\ pmm_pools' = pmm_pools /\ detected' = detected /\ boot' = boot
    BY DEF Return, NoRun
  <1>2. ListInv' /\ CursorInv' /\ sections' \in [Slot -> pmm_section_t]
    BY <1>1, ListStep
  <1>3. TypeOK'
    BY <1>1, <1>2, Slots DEF IInv, TypeOK
  <1>4. LockInv' /\ SearchInv'
    BY <1>1 DEF LockInv, SearchInv
  <1>5. ClaimInv'
    <2>1. ASSUME boot \notin WholeApi, NEW r \in held \cup claim, r.kind = "page" PROVE r.pages = 1
      BY <2>1 DEF IInv, ClaimInv
    <2> QED BY <1>1, <2>1 DEF ClaimInv
  <1> QED BY <1>2, <1>3, <1>4, <1>5 DEF IInv

(* It has come to the end of the list. *)
LEMMA AllocPageFailsStep == IInv /\ alloc_page_fails => IInv'
  <1> SUFFICES ASSUME IInv, alloc_page_fails PROVE IInv'
    OBVIOUS
  <1>1. sections' = sections /\ section_head' = section_head
    BY DEF alloc_page_fails
  <1>2. Good(sections', Top(boot), BootFree(boot)) /\ section_head' \in 0 .. NSlots
    BY <1>1, BootOk DEF IInv, TypeOK
  <1> QED BY <1>2, ReturnStep DEF alloc_page_fails

(* It unlinks an empty free section. *)
LEMMA AllocPageUnlinksStep == IInv /\ alloc_page_unlinks_empty => IInv'
  <1> SUFFICES ASSUME IInv, alloc_page_unlinks_empty PROVE IInv'
    OBVIOUS
  <1>1. selected # NULL /\ sections[selected].pages = 0 /\ pc = "alloc_page"
    BY DEF alloc_page_unlinks_empty
  <1>2. CASE sections[selected].prev = NULL \/ sections[selected].next = NULL
    BY <1>2, HaltStep DEF alloc_page_unlinks_empty
  <1>3. CASE ~(sections[selected].prev = NULL \/ sections[selected].next = NULL)
    <2>1. /\ sections' = UnlinkEmpty(sections, selected)
          /\ selected' = sections[selected].next
          /\ section_head' = section_head /\ pmm_pools' = pmm_pools /\ pc' = pc /\ run' = run
          /\ detected' = detected /\ boot' = boot /\ held' = held /\ claim' = claim
      BY <1>3, Zenon DEF alloc_page_unlinks_empty, UnlinkEmpty
    <2>2. /\ boot \in Boots /\ Top(boot) \in Int /\ BootFree(boot) \in SUBSET Int
          /\ Good(sections, Top(boot), BootFree(boot)) /\ selected \in Slot
      BY <1>1, BootOk
    <2> DEFINE S == UnlinkEmpty(sections, selected)
               n == sections[selected].next
    <2>3. /\ Good(S, Top(boot), BootFree(boot)) /\ FreeOf(S) = FreeOf(sections)
          /\ n \in Slot /\ S[n].start = sections[selected].start /\ Linked(S, n)
      BY <1>1, <1>3, <2>2, EmptyUnlinked
    <2>4. sections' = S /\ selected' = n
      BY <2>1
    <2> HIDE DEF S, n
    <2>5. ListInv' /\ CursorInv' /\ sections' \in [Slot -> pmm_section_t]
      BY <2>1, <2>3, <2>4, ListStep
    <2>6. TypeOK'
      BY <2>1, <2>3, <2>4, <2>5, Slots DEF IInv, TypeOK
    <2>7. LockInv'
      BY <1>1, <2>1 DEF LockInv
    <2>8. SearchInv'
      <3>1. \A p \in FreeOf(sections) : sections[selected].start <= p
        BY <1>1 DEF IInv, SearchInv
      <3>2. n # NULL
        BY <2>3, Slots
      <3>3. FreeOf(sections') = FreeOf(sections) /\ sections'[selected'].start = sections[selected].start
        BY <2>3, <2>4
      <3> QED BY <1>1, <2>1, <2>4, <3>1, <3>2, <3>3 DEF SearchInv
    <2>9. ClaimInv'
      BY <1>1, <2>1 DEF IInv, ClaimInv
    <2> QED BY <2>5, <2>6, <2>7, <2>8, <2>9 DEF IInv
  <1> QED BY <1>2, <1>3

(* The cursor moves on and nothing else happens. *)
LEMMA Advances ==
    ASSUME IInv, Advance, selected # NULL
    PROVE  /\ selected' = sections[selected].next
           /\ UNCHANGED <<sections, section_head, pmm_pools, pc, run, detected, boot, held, claim>>
           /\ TypeOK' /\ ListInv' /\ CursorInv'
           /\ sections[selected].next # NULL =>
                /\ sections[selected].next \in Slot
                /\ sections[sections[selected].next].start = End(sections, selected)
  <1>1. section_head # NULL /\ CurrentList.sec = sections /\ CurrentList.head = section_head
    BY BootOk, Slots DEF IInv, TypeOK
  <1>2. /\ selected' = sections[selected].next
        /\ UNCHANGED <<sections, section_head, pmm_pools, pc, run, detected, boot, held, claim>>
    BY <1>1 DEF Advance, ContinueWith, SetList
  <1>3. selected \in Slot /\ Chained(sections, Top(boot)) /\ Top(boot) \in Int
        /\ sections \in [Slot -> pmm_section_t]
    BY BootOk
  <1>4. sections[selected].next # NULL =>
          /\ sections[selected].next \in Slot
          /\ Linked(sections, sections[selected].next)
          /\ sections[sections[selected].next].start = End(sections, selected)
    BY <1>3, Neighbours DEF Chained, Joined
  <1>5. sections[selected].next \in SlotP
    BY <1>3, FieldTypes
  <1>6. TypeOK'
    BY <1>2, <1>5 DEF IInv, TypeOK
  <1>7. ListInv' /\ CursorInv'
    BY <1>2, <1>4 DEF IInv, ListInv, CursorInv
  <1> QED BY <1>2, <1>4, <1>6, <1>7

(* It passes a section that is not free. *)
LEMMA AllocPageSkipsStep == IInv /\ alloc_page_skips => IInv'
  <1> SUFFICES ASSUME IInv, alloc_page_skips PROVE IInv'
    OBVIOUS
  <1>1. /\ pc = "alloc_page" /\ selected # NULL /\ sections[selected].free # PMM_SECTION_FREE
        /\ Advance
    BY DEF alloc_page_skips
  <1>2. /\ selected' = sections[selected].next
        /\ UNCHANGED <<sections, section_head, pmm_pools, pc, run, detected, boot, held, claim>>
        /\ TypeOK' /\ ListInv' /\ CursorInv'
    BY <1>1, Advances
  <1>3. LockInv' /\ ClaimInv'
    BY <1>1, <1>2 DEF IInv, LockInv, ClaimInv
  <1>4. SearchInv'
    <2>1. ASSUME NEW p \in FreeOf(sections)
          PROVE  sections[selected].next # NULL /\ sections[sections[selected].next].start <= p
      <3>1. sections[selected].start <= p
        BY <1>1 DEF IInv, SearchInv
      <3>2. /\ Good(sections, Top(boot), BootFree(boot)) /\ selected \in Slot
            /\ Linked(sections, selected) /\ Top(boot) \in Int
        BY <1>1, BootOk
      <3>3. p \in 0 .. Top(boot) - 1 /\ ~Has(sections, selected, p)
        BY <1>1, <3>2, FreeHas
      <3> QED BY <3>1, <3>2, <3>3, PassedBy
    <2> QED BY <1>1, <1>2, <2>1 DEF SearchInv
  <1> QED BY <1>2, <1>3, <1>4 DEF IInv

(* It takes the first page of a free section. *)
LEMMA AllocPageTakesStep == IInv /\ alloc_page_takes => IInv'
  <1> SUFFICES ASSUME IInv, alloc_page_takes PROVE IInv'
    OBVIOUS
  <1> DEFINE R == TakeFirstPage(selected)
  <1>1. /\ selected # NULL /\ sections[selected].pages # 0 /\ pc = "alloc_page"
        /\ sections[selected].free = PMM_SECTION_FREE
    BY DEF alloc_page_takes
  <1>2. CASE sections[selected].prev = NULL \/ R.head = NULL
    BY <1>2, HaltStep DEF alloc_page_takes
  <1>3. CASE ~(sections[selected].prev = NULL \/ R.head = NULL)
    <2>1. /\ sections' = R.sec /\ section_head' = R.head /\ pc' = "idle" /\ selected' = NULL
          /\ held' = held \cup {[kind |-> "page", base |-> sections[selected].start, pages |-> 1]}
          /\ pmm_pools' = pmm_pools /\ run' = run /\ detected' = detected
          /\ boot' = boot /\ claim' = claim
      BY <1>3 DEF alloc_page_takes, SetList
    <2>2. /\ boot \in Boots /\ Top(boot) \in Int /\ BootFree(boot) \in SUBSET Int
          /\ Good(sections, Top(boot), BootFree(boot)) /\ selected \in Slot
          /\ IsList(CurrentList) /\ CurrentList.sec = sections
          /\ sections \in [Slot -> pmm_section_t]
      BY <1>1, BootOk
    <2>3. R = FirstGiven(CurrentList, selected, PMM_SECTION_USED)
      BY <2>2 DEF TakeFirstPage, FirstGiven
    <2> HIDE DEF R
    <2>4. IsList(R) /\ Good(R.sec, Top(boot), BootFree(boot))
      BY <1>1, <1>3, <2>2, <2>3, Types, FirstGivenChanges
    <2>5. ListInv' /\ CursorInv' /\ sections' \in [Slot -> pmm_section_t]
      BY <2>1, <2>4, ListStep
    <2>6. TypeOK'
      <3>1. sections[selected].start \in Int
        BY <2>2, FieldTypes
      <3>2. [kind |-> "page", base |-> sections[selected].start, pages |-> 1] \in Run
        BY <3>1 DEF Run
      <3>3. held' \subseteq Run
        BY <2>1, <3>2 DEF IInv, TypeOK
      <3>4. section_head' \in 0 .. NSlots
        BY <2>1, <2>4 DEF IsList
      <3> QED BY <2>1, <2>5, <3>3, <3>4, Slots DEF IInv, TypeOK
    <2>7. LockInv' /\ SearchInv'
      BY <2>1 DEF LockInv, SearchInv
    <2>8. ClaimInv'
      BY <1>1, <2>1 DEF IInv, ClaimInv
    <2> QED BY <2>5, <2>6, <2>7, <2>8 DEF IInv
  <1> QED BY <1>2, <1>3

(* What a step of pmm_free_page and one of pmm_lock_page do to who has which   *)
(* page.                                                                   *)
Frees ==
    /\ boot' = boot
    /\ FreeOf(sections') \in {FreeOf(sections), FreeOf(sections) \cup {run.base}}
    /\ held' \cup claim' = held \cup claim
    /\ boot \notin WholeApi =>
         claim' = {} /\ (pc' = "idle" \/ (pc' = "free_page" /\ run' = run))

Locks ==
    /\ boot' = boot
    /\ pc' \in {"idle", "lock_page"}
    /\ held' \cup claim' = held \cup claim
    /\ boot \notin WholeApi => FreeOf(sections') \ Claimed' = FreeOf(sections) \ Claimed

(* pmm_free_page and pmm_lock_page end with a good list, or with a fault.     *)

(* pmm_free_page returns with the list L. *)
LEMMA FreeReturns ==
    ASSUME IInv, pc = "free_page", NEW L, ReturnWith(L),
           L.head # NULL =>
             /\ IsList(L) /\ Good(L.sec, Top(boot), BootFree(boot))
             /\ FreeOf(L.sec) \in {FreeOf(sections), FreeOf(sections) \cup {run.base}}
    PROVE  IInv' /\ (Halt \/ Frees)
  <1>1. CASE L.head = NULL
    BY <1>1, HaltStep DEF ReturnWith
  <1>2. CASE L.head # NULL
    <2>1. /\ IsList(L) /\ Good(L.sec, Top(boot), BootFree(boot)) /\ PageDone
          /\ sections' = L.sec /\ section_head' = L.head
          /\ pmm_pools' = pmm_pools /\ detected' = detected /\ boot' = boot
      BY <1>2 DEF ReturnWith, SetList
    <2>2. section_head' \in 0 .. NSlots
      BY <2>1 DEF IsList
    <2>3. CASE run.left > 1
      <3>1. /\ run' = [base |-> run.base + 1, left |-> run.left - 1]
            /\ selected' = 0 /\ pc' = pc /\ held' = held /\ claim' = claim
        BY <2>1, <2>3 DEF PageDone
      <3>2. Linked(L.sec, 0)
        BY <2>1 DEF Good, Shape, Chained
      <3>3. ListInv' /\ CursorInv' /\ sections' \in [Slot -> pmm_section_t]
        BY <2>1, <3>1, <3>2, ListStep
      <3>4. TypeOK'
        BY <2>1, <2>2, <3>1, <3>3, Slots DEF IInv, TypeOK
      <3>5. LockInv' /\ SearchInv'
        BY <3>1 DEF LockInv, SearchInv
      <3>6. boot \in WholeApi
        BY <2>3 DEF IInv, ClaimInv
      <3>7. ClaimInv'
        BY <2>1, <3>1, <3>6 DEF IInv, ClaimInv
      <3>8. FreeOf(sections') \in {FreeOf(sections), FreeOf(sections) \cup {run.base}}
        BY <1>2, <2>1
      <3> QED BY <2>1, <3>1, <3>3, <3>4, <3>5, <3>6, <3>7, <3>8 DEF IInv, Frees
    <2>4. CASE ~(run.left > 1)
      <3>1. Return
        BY <2>1, <2>4 DEF PageDone
      <3>2. IInv'
        BY <2>1, <2>2, <3>1, ReturnStep
      <3>3. FreeOf(sections') \in {FreeOf(sections), FreeOf(sections) \cup {run.base}}
        BY <1>2, <2>1
      <3>4. pc' = "idle" /\ held' = held \cup claim /\ claim' = {}
        BY <3>1 DEF Return
      <3>5. held' \cup claim' = held \cup claim
        BY <3>4
      <3>6. boot' = boot
        BY <2>1
      <3>7. claim' = {} /\ (pc' = "idle" \/ (pc' = "free_page" /\ run' = run))
        BY <3>4
      <3>8. Frees
        BY <3>3, <3>5, <3>6, <3>7, Zenon DEF Frees
      <3> QED BY <3>2, <3>8
    <2> QED BY <2>3, <2>4
  <1> QED BY <1>1, <1>2

(* pmm_free_page goes on behind s with the list L. *)
LEMMA FreeContinues ==
    ASSUME IInv, pc = "free_page", NEW L, NEW s \in Slot, ContinueWith(L, s),
           L.head # NULL =>
             /\ IsList(L) /\ Good(L.sec, Top(boot), BootFree(boot))
             /\ FreeOf(L.sec) \in {FreeOf(sections), FreeOf(sections) \cup {run.base}}
    PROVE  IInv' /\ (Halt \/ Frees)
  <1>1. CASE L.head = NULL
    BY <1>1, HaltStep DEF ContinueWith
  <1>2. CASE L.head # NULL
    <2>1. /\ IsList(L) /\ Good(L.sec, Top(boot), BootFree(boot))
          /\ sections' = L.sec /\ section_head' = L.head /\ selected' = L.sec[s].next
          /\ pmm_pools' = pmm_pools /\ detected' = detected /\ boot' = boot
          /\ pc' = pc /\ run' = run /\ held' = held /\ claim' = claim
      BY <1>2 DEF ContinueWith, SetList
    <2>2. section_head' \in 0 .. NSlots
      BY <2>1 DEF IsList
    <2>3. Chained(L.sec, Top(boot)) /\ L.sec \in [Slot -> pmm_section_t] /\ Top(boot) \in Int
      BY <2>1, BootOk DEF Good, Shape, Chained
    <2>4. selected' \in SlotP /\ (selected' # NULL => Linked(L.sec, selected'))
      BY <2>1, <2>3, FieldTypes, Neighbours
    <2>5. ListInv' /\ CursorInv' /\ sections' \in [Slot -> pmm_section_t]
      BY <2>1, <2>4, ListStep
    <2>6. TypeOK'
      BY <2>1, <2>2, <2>4, <2>5 DEF IInv, TypeOK
    <2>7. LockInv' /\ SearchInv'
      BY <2>1 DEF LockInv, SearchInv
    <2>8. ClaimInv'
      BY <2>1 DEF IInv, ClaimInv
    <2>9. FreeOf(sections') \in {FreeOf(sections), FreeOf(sections) \cup {run.base}}
      BY <1>2, <2>1
    <2>10. boot \notin WholeApi => claim = {}
      BY DEF IInv, ClaimInv
    <2>11. Frees
      BY <2>1, <2>9, <2>10 DEF Frees
    <2> QED BY <2>5, <2>6, <2>7, <2>8, <2>11 DEF IInv
  <1> QED BY <1>1, <1>2

(* What the branches of pmm_free_page leave.                                *)

(* The page is the first of its section. *)
LEMMA FreeAtStart ==
    ASSUME IInv, selected # NULL, sections[selected].free # PMM_SECTION_FREE,
           sections[selected].prev # NULL
    PROVE  /\ sections[selected].pages = 1 /\ sections[selected].next # NULL =>
                LET L == FreeWhole(selected)
                IN  L.head # NULL =>
                      /\ IsList(L) /\ Good(L.sec, Top(boot), BootFree(boot))
                      /\ \/ FreeOf(L.sec) = FreeOf(sections)
                         \/ FreeOf(L.sec) = FreeOf(sections) \cup {sections[selected].start}
           /\ sections[selected].pages # 1 =>
                LET L == FreeFirst(selected)
                IN  L.head # NULL =>
                      /\ IsList(L) /\ Good(L.sec, Top(boot), BootFree(boot))
                      /\ FreeOf(L.sec) = FreeOf(sections) \cup {sections[selected].start}
  <1>1. /\ boot \in Boots /\ Top(boot) \in Int /\ BootFree(boot) \in SUBSET Int
        /\ Good(sections, Top(boot), BootFree(boot)) /\ selected \in Slot
        /\ IsList(CurrentList) /\ CurrentList.sec = sections
        /\ Linked(sections, selected) /\ Tidy(sections)
    BY BootOk
  <1>2. sections[selected].pages # 0
    BY <1>1 DEF Tidy
  <1>3. ASSUME sections[selected].pages = 1, sections[selected].next # NULL,
               NEW L, L = FreeWhole(selected), L.head # NULL
        PROVE  /\ IsList(L) /\ Good(L.sec, Top(boot), BootFree(boot))
               /\ \/ FreeOf(L.sec) = FreeOf(sections)
                  \/ FreeOf(L.sec) = FreeOf(sections) \cup {sections[selected].start}
    <2>1. L = FreedWhole(CurrentList, selected)
      BY <1>1, <1>3, Zenon DEF FreeWhole, FreedWhole
    <2> QED BY <1>1, <1>3, <2>1, FreedWholeChanges
  <1>4. ASSUME sections[selected].pages # 1, NEW L, L = FreeFirst(selected), L.head # NULL
        PROVE  /\ IsList(L) /\ Good(L.sec, Top(boot), BootFree(boot))
               /\ FreeOf(L.sec) = FreeOf(sections) \cup {sections[selected].start}
    <2>1. L = FirstGiven(CurrentList, selected, PMM_SECTION_FREE)
      BY <1>1, <1>4, Zenon DEF FreeFirst, FirstGiven
    <2>2. /\ IsList(L) /\ Good(L.sec, Top(boot), BootFree(boot))
          /\ FreeOf(L.sec) = Change(FreeOf(sections), sections[selected].start, PMM_SECTION_FREE)
      BY <1>1, <1>2, <1>4, <2>1, Types, FirstGivenChanges
    <2> QED BY <2>2 DEF Change
  <1> QED BY <1>3, <1>4

(* The same list with other headers. *)
LEMMA NewHeaders ==
    ASSUME NEW L, IsList(L), NEW S, NEW R, R = [L EXCEPT !.sec = S]
    PROVE  IsList(R) /\ R.sec = S /\ R.head = L.head
  <1>1. L = [sec |-> L.sec, head |-> L.head] /\ L.head \in 0 .. NSlots
    BY DEF IsList
  <1>2. R = [sec |-> S, head |-> L.head]
    BY <1>1
  <1> QED BY <1>1, <1>2 DEF IsList

(* The page is the last of several. *)
LEMMA GiveToNext ==
    ASSUME IInv, selected # NULL, sections[selected].start < run.base,
           sections[selected].next # NULL, AtEnd(selected),
           NEW type \in {PMM_SECTION_USED, PMM_SECTION_FREE},
           sections[sections[selected].next].free = type,
           NEW L, L = [CurrentList EXCEPT !.sec = GiveLastPage(sections, selected)]
    PROVE  LET n == sections[selected].next
           IN  /\ IsList(L) /\ Good(L.sec, Top(boot), BootFree(boot))
               /\ FreeOf(L.sec) = Change(FreeOf(sections), run.base, type)
               /\ L.sec[selected].next = n /\ n \in Slot /\ Linked(L.sec, n)
               /\ L.sec[n].start = run.base /\ L.sec[n].free = type
               /\ L.sec[n].pages = sections[n].pages + 1
  <1> DEFINE n == sections[selected].next
             S == GiveLastPage(sections, selected)
  <1>1. /\ boot \in Boots /\ Top(boot) \in Int /\ BootFree(boot) \in SUBSET Int
        /\ Good(sections, Top(boot), BootFree(boot)) /\ selected \in Slot
        /\ IsList(CurrentList) /\ Chained(sections, Top(boot))
        /\ sections \in [Slot -> pmm_section_t]
    BY BootOk
  <1>3. IsList(L) /\ L.sec = S
    <2> HIDE DEF S
    <2>1. L = [CurrentList EXCEPT !.sec = S]
      BY DEF S
    <2>2. IsList(CurrentList)
      BY <1>1
    <2> QED BY <2>1, <2>2, NewHeaders
  <1>4. sections[n].start = End(sections, selected) /\ sections[n].start - 1 = run.base
    BY <1>1 DEF Chained, Joined, AtEnd
  <1>5. sections[selected].start \in Int /\ sections[selected].pages \in Nat
    BY <1>1, FieldTypes
  <1>6. End(sections, selected) - 1 = run.base /\ sections[selected].pages \notin {0, 1}
    BY <1>4, <1>5 DEF End
  <1>7. /\ Good(S, Top(boot), BootFree(boot))
        /\ FreeOf(S) = Change(FreeOf(sections), End(sections, selected) - 1, type)
        /\ S[selected].next = n /\ n \in Slot /\ Linked(S, n)
        /\ S[n].start = End(sections, selected) - 1 /\ S[n].free = type
        /\ S[n].pages = sections[n].pages + 1
    BY <1>1, <1>6, GivenLast
  <1> HIDE DEF S, n
  <1>8. /\ IsList(L) /\ Good(L.sec, Top(boot), BootFree(boot))
        /\ FreeOf(L.sec) = Change(FreeOf(sections), run.base, type)
        /\ L.sec[selected].next = n /\ n \in Slot /\ Linked(L.sec, n)
        /\ L.sec[n].start = run.base /\ L.sec[n].free = type
        /\ L.sec[n].pages = sections[n].pages + 1
    BY <1>3, <1>6, <1>7
  <1> QED BY <1>8 DEF n

(* The page is the last of its section: it is cut off in one division.       *)
LEMMA LastCut ==
    ASSUME IInv, selected # NULL, sections[selected].start < run.base,
           sections[selected].next # NULL, AtEnd(selected),
           NEW D, D = pmm_section_split(CurrentList, selected, run.base), D.head # NULL,
           NEW n, n = D.sec[selected].next
    PROVE  pmm_section_split(D, n, D.sec[n].start + 1) = D
  <1>1. /\ Top(boot) \in Int /\ selected \in Slot /\ IsList(CurrentList)
        /\ Chained(sections, Top(boot)) /\ CurrentList.sec = sections
        /\ sections \in [Slot -> pmm_section_t] /\ Linked(sections, selected)
        /\ Shape(sections, Top(boot))
    BY BootOk DEF Good
  <1>2. run.base \in Int
    BY DEF IInv, TypeOK
  <1>3. sections[sections[selected].next].start = End(sections, selected)
    BY <1>1 DEF Chained, Joined
  <1>4. End(sections, selected) \in Int /\ sections[selected].start \in Int
    BY <1>1, FieldTypes DEF End
  <1>5. /\ End(sections, selected) - run.base = 1 /\ run.base < End(sections, selected)
        /\ sections[selected].start <= run.base
    BY <1>2, <1>3, <1>4 DEF AtEnd
  <1>6. IsList(D) /\ \E m \in Slot \ {selected} : Divided(sections, D.sec, selected, run.base, m)
    BY <1>1, <1>2, <1>5, SplitDone
  <1>7. PICK m \in Slot \ {selected} : Divided(sections, D.sec, selected, run.base, m)
    BY <1>6
  <1>8. n = m /\ D.sec[n].start = run.base
        /\ D.sec[n].pages = End(sections, selected) - run.base
    BY <1>7 DEF Divided
  <1>9. D.sec[n].start + 1 >= End(D.sec, n) /\ D.sec[n].start + 1 \in Int /\ n \in Slot
    BY <1>2, <1>5, <1>8 DEF End
  <1> QED BY <1>6, <1>9, SplitOtherwise

(* The page lies in the middle, or is the last and the next section is no     *)
(* home for it: it gets a section of its own.                              *)
LEMMA CutOut ==
    ASSUME IInv, selected # NULL, sections[selected].start < run.base,
           sections[selected].next # NULL, InMiddle(selected),
           NEW type \in {PMM_SECTION_USED, PMM_SECTION_FREE},
           type = PMM_SECTION_USED => sections[selected].free = PMM_SECTION_FREE,
           type = PMM_SECTION_FREE =>
             /\ sections[selected].free # PMM_SECTION_FREE
             /\ sections[sections[selected].next].free # PMM_SECTION_FREE,
           NEW D, NEW n, NEW R, IsCut(CurrentList, selected, run.base, type, D, n, R)
    PROVE  /\ IsList(R) /\ Good(R.sec, Top(boot), BootFree(boot))
           /\ FreeOf(R.sec) = Change(FreeOf(sections), run.base, type)
           /\ n \in Slot /\ Linked(R.sec, n) /\ R.sec[n].start = run.base /\ R.sec[n].pages = 1
  <1> DEFINE L == CurrentList
  <1>1. /\ boot \in Boots /\ Top(boot) \in Int /\ BootFree(boot) \in SUBSET Int
        /\ Good(L.sec, Top(boot), BootFree(boot)) /\ selected \in Slot
        /\ IsList(L) /\ Chained(sections, Top(boot)) /\ L.sec = sections
        /\ sections \in [Slot -> pmm_section_t] /\ Linked(L.sec, selected)
    BY BootOk
  <1>2. run.base \in Int
    BY DEF IInv, TypeOK
  <1>3. L.sec[selected].start < run.base /\ run.base < End(L.sec, selected)
    <2>1. sections[sections[selected].next].start = End(sections, selected)
      BY <1>1 DEF Chained, Joined
    <2>2. End(sections, selected) \in Int
      BY <1>1, FieldTypes DEF End
    <2> QED BY <1>1, <1>2, <2>1, <2>2 DEF InMiddle
  <1>4. /\ type = PMM_SECTION_USED => L.sec[selected].free = PMM_SECTION_FREE
        /\ type = PMM_SECTION_FREE =>
             /\ L.sec[selected].free # PMM_SECTION_FREE
             /\ L.sec[selected].next # NULL =>
                  L.sec[L.sec[selected].next].free # PMM_SECTION_FREE
    BY <1>1
  <1>5. IsCut(L, selected, run.base, type, D, n, R)
    OBVIOUS
  <1> HIDE DEF L
  <1>6. /\ IsList(R) /\ Good(R.sec, Top(boot), BootFree(boot))
        /\ FreeOf(R.sec) = Change(FreeOf(L.sec), run.base, type)
        /\ n \in Slot /\ Linked(R.sec, n) /\ R.sec[n].start = run.base /\ R.sec[n].pages = 1
    <2>1. MayCut(L, Top(boot), BootFree(boot), selected, run.base, type)
      BY <1>1, <1>2, <1>3, <1>4 DEF MayCut
    <2> QED BY <1>5, <2>1, MiddleCut
  <1> QED BY <1>1, <1>6

(* One iteration of pmm_free_page. *)
LEMMA FreePageStep == IInv /\ pmm_free_page => IInv' /\ (Halt \/ Frees)
  <1> SUFFICES ASSUME IInv, pmm_free_page PROVE IInv' /\ (Halt \/ Frees)
    OBVIOUS
  <1>1. /\ Good(sections, Top(boot), BootFree(boot)) /\ IsList(CurrentList)
        /\ CurrentList.sec = sections
        /\ selected # NULL => selected \in Slot
    BY BootOk
  <1>2. ASSUME pc = "free_page", selected # NULL, Advance PROVE IInv' /\ (Halt \/ Frees)
    <2>1. /\ UNCHANGED <<sections, section_head, pmm_pools, pc, run, detected, boot, held, claim>>
          /\ TypeOK' /\ ListInv' /\ CursorInv'
      BY <1>2, Advances
    <2>2. LockInv' /\ SearchInv' /\ ClaimInv'
      BY <1>2, <2>1 DEF IInv, LockInv, SearchInv, ClaimInv
    <2>3. claim = {}
      BY <1>2 DEF IInv, ClaimInv
    <2>4. Frees
      BY <1>2, <2>1, <2>3 DEF Frees
    <2> QED BY <2>1, <2>2, <2>4 DEF IInv
  <1>3. ASSUME free_page_at_start PROVE IInv' /\ (Halt \/ Frees)
    <2>1. pc = "free_page" /\ selected # NULL /\ sections[selected].start = run.base
      BY <1>3 DEF free_page_at_start, AtStart
    <2>2. CASE sections[selected].free = PMM_SECTION_FREE
      <3>1. ReturnWith(CurrentList)
        BY <1>3, <2>2 DEF free_page_at_start
      <3> QED BY <1>1, <2>1, <3>1, FreeReturns
    <2>3. CASE sections[selected].free # PMM_SECTION_FREE /\ sections[selected].prev = NULL
      BY <1>3, <2>3, HaltStep DEF free_page_at_start
    <2>4. CASE /\ sections[selected].free # PMM_SECTION_FREE /\ sections[selected].prev # NULL
               /\ sections[selected].pages = 1
      <3>1. CASE sections[selected].next = NULL
        BY <1>3, <2>4, <3>1, HaltStep DEF free_page_at_start
      <3>2. CASE sections[selected].next # NULL
        <4>1. ReturnWith(FreeWhole(selected))
          BY <1>3, <2>4, <3>2 DEF free_page_at_start
        <4> QED BY <2>1, <2>4, <3>2, <4>1, FreeAtStart, FreeReturns
      <3> QED BY <3>1, <3>2
    <2>5. CASE /\ sections[selected].free # PMM_SECTION_FREE /\ sections[selected].prev # NULL
               /\ sections[selected].pages # 1
      <3>1. ReturnWith(FreeFirst(selected))
        BY <1>3, <2>5 DEF free_page_at_start
      <3> QED BY <2>1, <2>5, <3>1, FreeAtStart, FreeReturns
    <2> QED BY <2>2, <2>3, <2>4, <2>5
  <1>4. ASSUME free_page_in_middle PROVE IInv' /\ (Halt \/ Frees)
    <2>1. /\ pc = "free_page" /\ selected # NULL /\ sections[selected].start < run.base
          /\ sections[selected].next # NULL /\ InMiddle(selected)
      BY <1>4 DEF free_page_in_middle
    <2>2. CASE sections[selected].free = PMM_SECTION_FREE
      <3>1. ReturnWith(CurrentList)
        BY <1>4, <2>2 DEF free_page_in_middle
      <3> QED BY <1>1, <2>1, <3>1, FreeReturns
    <2>3. CASE sections[selected].free # PMM_SECTION_FREE /\ ~AtEnd(selected)
      BY <1>2, <1>4, <2>1, <2>3 DEF free_page_in_middle
    <2>4. CASE /\ sections[selected].free # PMM_SECTION_FREE /\ AtEnd(selected)
               /\ sections[sections[selected].next].free = PMM_SECTION_FREE
      <3> DEFINE L == [CurrentList EXCEPT !.sec = GiveLastPage(sections, selected)]
      <3>1. ContinueWith(L, selected)
        BY <1>4, <2>4 DEF free_page_in_middle
      <3>2. /\ IsList(L) /\ Good(L.sec, Top(boot), BootFree(boot))
            /\ FreeOf(L.sec) = Change(FreeOf(sections), run.base, PMM_SECTION_FREE)
        BY <2>1, <2>4, GiveToNext
      <3>3. FreeOf(L.sec) = FreeOf(sections) \cup {run.base}
        BY <3>2 DEF Change
      <3> HIDE DEF L
      <3> QED BY <1>1, <2>1, <3>1, <3>2, <3>3, FreeContinues
    <2>5. CASE /\ sections[selected].free # PMM_SECTION_FREE /\ AtEnd(selected)
               /\ sections[sections[selected].next].free # PMM_SECTION_FREE
      <3> DEFINE D == pmm_section_split(CurrentList, selected, run.base)
                 n == D.sec[selected].next
                 R == SetType(pmm_section_split(D, n, D.sec[n].start + 1), n, PMM_SECTION_FREE)
      <3>1. IF D.head = NULL THEN Halt ELSE ContinueWith(R, n)
        BY <1>4, <2>5 DEF free_page_in_middle
      <3>2. CASE D.head = NULL
        BY <3>1, <3>2, HaltStep
      <3>3. CASE D.head # NULL
        <4>1. R.head # NULL => IsCut(CurrentList, selected, run.base, PMM_SECTION_FREE, D, n, R)
          BY <3>3 DEF IsCut
        <4> HIDE DEF D, R, n
        <4>4. R.head # NULL =>
                /\ IsList(R) /\ Good(R.sec, Top(boot), BootFree(boot)) /\ n \in Slot
                /\ FreeOf(R.sec) = Change(FreeOf(sections), run.base, PMM_SECTION_FREE)
          BY <1>1, <2>1, <2>5, <4>1, Types, CutOut
        <4>2. CASE R.head = NULL
          BY <3>1, <3>3, <4>2, HaltStep DEF ContinueWith
        <4>3. CASE R.head # NULL
          <5>1. FreeOf(R.sec) = FreeOf(sections) \cup {run.base}
            BY <4>3, <4>4 DEF Change
          <5> QED BY <2>1, <3>1, <3>3, <4>3, <4>4, <5>1, FreeContinues
        <4> QED BY <4>2, <4>3
      <3> QED BY <3>2, <3>3
    <2> QED BY <2>2, <2>3, <2>4, <2>5
  <1>5. ASSUME free_page_skips PROVE IInv' /\ (Halt \/ Frees)
    BY <1>2, <1>5 DEF free_page_skips
  <1>6. ASSUME free_page_ends PROVE IInv' /\ (Halt \/ Frees)
    BY <1>1, <1>6, FreeReturns DEF free_page_ends
  <1> QED BY <1>3, <1>4, <1>5, <1>6 DEF pmm_free_page

(* What LockInv says of the page the cursor stands at.                       *)
LEMMA LockKnows ==
    ASSUME IInv, pc = "lock_page", selected # NULL
    PROVE  /\ run.base \in Int /\ run.left \in Int /\ run.left >= 1
           /\ run.base + 1 .. run.base + run.left - 1 \subseteq FreeOf(sections)
           /\ sections[selected].start \in Int
           /\ sections[selected].start > run.base => run.base \notin FreeOf(sections)
           /\ sections[selected].start < run.base => run.base \in FreeOf(sections)
           /\ sections[selected].start = run.base =>
                IF run.base \in FreeOf(sections)
                THEN sections[selected].free = PMM_SECTION_FREE /\ sections[selected].pages # 0
                ELSE sections[selected].free = PMM_SECTION_USED /\ sections[selected].pages >= 2
  <1>1. /\ selected \in Slot /\ Linked(sections, selected) /\ Top(boot) \in Int
        /\ sections \in [Slot -> pmm_section_t] /\ Good(sections, Top(boot), BootFree(boot))
    BY BootOk
  <1>2. /\ run.base \in Int /\ run.left \in Int /\ run.left >= 1
        /\ \A p \in run.base + 1 .. run.base + run.left - 1 : p \in FreeOf(sections)
        /\ run.base \in FreeOf(sections) => sections[selected].start <= run.base
        /\ run.base \notin FreeOf(sections) =>
             \/ sections[selected].start > run.base
             \/ /\ sections[selected].start = run.base
                /\ sections[selected].free = PMM_SECTION_USED
                /\ sections[selected].pages >= 2
    BY DEF IInv, LockInv, TypeOK
  <1>3. sections[selected].start \in Int /\ sections[selected].pages \in Nat
    BY <1>1, FieldTypes
  <1>4. run.base \in FreeOf(sections) /\ sections[selected].start = run.base =>
          sections[selected].free = PMM_SECTION_FREE /\ sections[selected].pages # 0
    BY <1>1, StartsHere
  <1> QED BY <1>2, <1>3, <1>4

(* The page of pmm_lock_page is taken: the loop goes on, or the call returns. *)
LEMMA LockReturns ==
    ASSUME IInv, pc = "lock_page", NEW L, ReturnWith(L),
           L.head # NULL => /\ IsList(L) /\ Good(L.sec, Top(boot), BootFree(boot))
                            /\ FreeOf(L.sec) = FreeOf(sections) \ {run.base}
    PROVE  IInv' /\ (Halt \/ Locks)
  <1>1. CASE L.head = NULL
    BY <1>1, HaltStep DEF ReturnWith
  <1>2. CASE L.head # NULL
    <2>1. /\ IsList(L) /\ Good(L.sec, Top(boot), BootFree(boot)) /\ PageDone
          /\ FreeOf(L.sec) = FreeOf(sections) \ {run.base}
          /\ sections' = L.sec /\ section_head' = L.head
          /\ pmm_pools' = pmm_pools /\ detected' = detected /\ boot' = boot
      BY <1>2 DEF ReturnWith, SetList
    <2>2. section_head' \in 0 .. NSlots
      BY <2>1 DEF IsList
    <2>3. CASE run.left > 1
      <3>1. /\ run' = [base |-> run.base + 1, left |-> run.left - 1]
            /\ selected' = 0 /\ pc' = pc /\ held' = held /\ claim' = claim
        BY <2>1, <2>3 DEF PageDone
      <3>2. Linked(L.sec, 0) /\ L.sec[0].start = 0 /\ Top(boot) \in Int
        BY <2>1, BootOk DEF Good, Shape, Chained
      <3>3. ListInv' /\ CursorInv' /\ sections' \in [Slot -> pmm_section_t]
        BY <2>1, <3>1, <3>2, ListStep
      <3>4. run.base \in Int /\ run.left \in Int
            /\ \A p \in run.base + 1 .. run.base + run.left - 1 : p \in FreeOf(sections)
        BY DEF IInv, TypeOK, LockInv
      <3>5. TypeOK'
        BY <2>1, <2>2, <3>1, <3>3, <3>4, Slots DEF IInv, TypeOK
      <3>6. /\ run'.base = run.base + 1 /\ run'.left = run.left - 1 /\ run'.left >= 1
            /\ run'.base \in Int /\ run'.left \in Int
            /\ run'.base + run'.left = run.base + run.left
        BY <2>3, <3>1, <3>4
      <3>7. FreeOf(sections') = FreeOf(sections) \ {run.base}
        BY <2>1
      <3>8. run.base + 1 \in FreeOf(sections') /\ 0 <= run.base + 1
        <4>1. run.base + 1 \in FreeOf(L.sec)
          BY <2>1, <2>3, <3>4
        <4>2. run.base + 1 \in 0 .. Top(boot) - 1
          BY <2>1, <3>2, <4>1, FreeHas
        <4> QED BY <2>1, <4>1, <4>2
      <3>9. LockInv'
        <4>1. ASSUME NEW p \in run'.base + 1 .. run'.base + run'.left - 1
              PROVE  p \in FreeOf(sections')
          <5>1. p \in run.base + 1 .. run.base + run.left - 1 /\ p # run.base
            BY <3>4, <3>6
          <5> QED BY <3>4, <3>7, <5>1
        <4>2. selected' # NULL /\ sections'[selected'].start <= run'.base
          BY <2>1, <3>1, <3>2, <3>6, <3>8, Slots
        <4> QED BY <3>6, <3>8, <4>1, <4>2 DEF LockInv
      <3>10. SearchInv'
        BY <3>1 DEF SearchInv
      <3>11. ClaimInv'
        <4>1. ASSUME boot \notin WholeApi
              PROVE  /\ run'.base .. run'.base + run'.left - 1 \subseteq Claimed
                     /\ Claimed \cap FreeOf(sections') \subseteq run'.base .. run'.base + run'.left - 1
          <5>1. /\ run.base .. run.base + run.left - 1 \subseteq Claimed
                /\ Claimed \cap FreeOf(sections) \subseteq run.base .. run.base + run.left - 1
            BY <4>1 DEF IInv, ClaimInv
          <5>2. run'.base .. run'.base + run'.left - 1 =
                  (run.base .. run.base + run.left - 1) \ {run.base}
            <6> DEFINE a == run.base
                       c == run.left
                       b == run'.base
                       d == run'.left
            <6>1. a \in Int /\ c \in Int /\ b = a + 1 /\ d = c - 1
              BY <3>4, <3>6
            <6> HIDE DEF a, b, c, d
            <6>2. b .. b + d - 1 = (a .. a + c - 1) \ {a}
              BY <6>1
            <6> QED BY <6>2 DEF a, b, c, d
          <5> DEFINE A == run'.base .. run'.base + run'.left - 1
                     B == run.base .. run.base + run.left - 1
          <5>3. B \subseteq Claimed /\ Claimed \cap FreeOf(sections) \subseteq B /\ A = B \ {run.base}
            BY <5>1, <5>2
          <5> HIDE DEF A, B
          <5>4. A \subseteq Claimed /\ Claimed \cap FreeOf(sections') \subseteq A
            BY <3>7, <5>3
          <5> QED BY <5>4 DEF A
        <4>2. Claimed' = Claimed
          BY <3>1 DEF Claimed
        <4>3. ASSUME boot \notin WholeApi
              PROVE  (\A r \in held : r.kind = "page" => r.pages = 1) /\ \A r \in claim : r.kind # "page"
          BY <4>3 DEF IInv, ClaimInv
        <4> QED BY <2>1, <3>1, <4>1, <4>2, <4>3 DEF ClaimInv
      <3>12. boot \notin WholeApi => run.base \in Claimed
        BY <3>4, <2>3 DEF IInv, ClaimInv
      <3>13. Claimed' = Claimed
        BY <3>1 DEF Claimed
      <3>14. Locks
        BY <2>1, <3>1, <3>7, <3>12, <3>13 DEF Locks
      <3> QED BY <3>3, <3>5, <3>9, <3>10, <3>11, <3>14 DEF IInv
    <2>4. CASE ~(run.left > 1)
      <3>1. Return
        BY <2>1, <2>4 DEF PageDone
      <3>2. IInv'
        BY <2>1, <2>2, <3>1, ReturnStep
      <3>3. pc' = "idle" /\ held' = held \cup claim /\ claim' = {} /\ Claimed' = {}
        BY <3>1 DEF Return, Claimed
      <3>4. ASSUME boot \notin WholeApi
            PROVE  run.base \in Claimed /\ Claimed \cap FreeOf(sections) \subseteq {run.base}
        <4>1. run.left = 1 /\ run.base \in Int
          BY <2>4 DEF IInv, LockInv, TypeOK
        <4>2. /\ run.base .. run.base + run.left - 1 \subseteq Claimed
              /\ Claimed \cap FreeOf(sections) \subseteq run.base .. run.base + run.left - 1
          BY <3>4 DEF IInv, ClaimInv
        <4>3. run.base .. run.base + run.left - 1 = {run.base}
          BY <4>1
        <4> QED BY <4>2, <4>3
      <3>5. FreeOf(sections') = FreeOf(sections) \ {run.base}
        BY <2>1
      <3>6. boot \notin WholeApi => FreeOf(sections') \ Claimed' = FreeOf(sections) \ Claimed
        BY <3>3, <3>4, <3>5
      <3> QED BY <2>1, <3>2, <3>3, <3>6 DEF Locks
    <2> QED BY <2>3, <2>4
  <1> QED BY <1>1, <1>2

(* The page is taken in the middle of the scan: the cursor goes on behind it, *)
(* or stands on the used section it went to.                               *)
LEMMA LockContinues ==
    ASSUME IInv, pc = "lock_page", NEW L, NEW s \in Slot, ContinueWith(L, s),
           L.head # NULL =>
             /\ IsList(L) /\ Good(L.sec, Top(boot), BootFree(boot))
             /\ FreeOf(L.sec) = FreeOf(sections) \ {run.base}
             /\ L.sec[s].next # NULL =>
                  \/ L.sec[L.sec[s].next].start > run.base
                  \/ /\ L.sec[L.sec[s].next].start = run.base
                     /\ L.sec[L.sec[s].next].free = PMM_SECTION_USED
                     /\ L.sec[L.sec[s].next].pages >= 2
    PROVE  IInv' /\ (Halt \/ Locks)
  <1>1. CASE L.head = NULL
    BY <1>1, HaltStep DEF ContinueWith
  <1>2. CASE L.head # NULL
    <2>1. /\ IsList(L) /\ Good(L.sec, Top(boot), BootFree(boot))
          /\ FreeOf(L.sec) = FreeOf(sections) \ {run.base}
          /\ sections' = L.sec /\ section_head' = L.head /\ selected' = L.sec[s].next
          /\ pmm_pools' = pmm_pools /\ detected' = detected /\ boot' = boot
          /\ pc' = pc /\ run' = run /\ held' = held /\ claim' = claim
      BY <1>2 DEF ContinueWith, SetList
    <2>2. section_head' \in 0 .. NSlots
      BY <2>1 DEF IsList
    <2>3. Chained(L.sec, Top(boot)) /\ L.sec \in [Slot -> pmm_section_t] /\ Top(boot) \in Int
      BY <2>1, BootOk DEF Good, Shape, Chained
    <2>4. selected' \in SlotP /\ (selected' # NULL => Linked(L.sec, selected'))
      BY <2>1, <2>3, FieldTypes, Neighbours
    <2>5. ListInv' /\ CursorInv' /\ sections' \in [Slot -> pmm_section_t]
      BY <2>1, <2>4, ListStep
    <2>6. TypeOK'
      BY <2>1, <2>2, <2>4, <2>5 DEF IInv, TypeOK
    <2>7. SearchInv'
      BY <2>1 DEF SearchInv
    <2>8. FreeOf(sections') = FreeOf(sections) \ {run.base}
      BY <2>1
    <2>9. run.base \in Int /\ run.left \in Int /\ run.left >= 1
          /\ \A p \in run.base + 1 .. run.base + run.left - 1 : p \in FreeOf(sections)
      BY DEF IInv, TypeOK, LockInv
    <2>10. LockInv'
      <3>1. ASSUME NEW p \in run'.base + 1 .. run'.base + run'.left - 1 PROVE p \in FreeOf(sections')
        <4>1. p \in run.base + 1 .. run.base + run.left - 1 /\ p # run.base
          BY <2>1, <2>9
        <4> QED BY <2>8, <2>9, <4>1
      <3>2. ASSUME selected' # NULL
            PROVE  \/ sections'[selected'].start > run.base
                   \/ /\ sections'[selected'].start = run.base
                      /\ sections'[selected'].free = PMM_SECTION_USED
                      /\ sections'[selected'].pages >= 2
        BY <1>2, <2>1, <3>2
      <3> QED BY <2>1, <2>8, <2>9, <3>1, <3>2 DEF LockInv
    <2>11. ClaimInv'
      <3>1. Claimed' = Claimed
        BY <2>1 DEF Claimed
      <3>2. boot \notin WholeApi =>
              /\ \A r \in held : r.kind = "page" => r.pages = 1
              /\ \A r \in claim : r.kind # "page"
              /\ run.base .. run.base + run.left - 1 \subseteq Claimed
              /\ Claimed \cap FreeOf(sections) \subseteq run.base .. run.base + run.left - 1
        BY DEF IInv, ClaimInv
      <3> QED BY <2>1, <2>8, <3>1, <3>2 DEF ClaimInv
    <2>12. Locks
      <3>1. boot \notin WholeApi => run.base \in Claimed
        BY <2>9 DEF IInv, ClaimInv
      <3>2. Claimed' = Claimed
        BY <2>1 DEF Claimed
      <3> QED BY <2>1, <2>8, <3>1, <3>2 DEF Locks
    <2> QED BY <2>5, <2>6, <2>7, <2>10, <2>11, <2>12 DEF IInv
  <1> QED BY <1>1, <1>2

(* pmm_lock_page takes a section of one page. *)
LEMMA LockWholeStep == IInv /\ lock_page_whole => IInv' /\ (Halt \/ Locks)
  <1> SUFFICES ASSUME IInv, lock_page_whole PROVE IInv' /\ (Halt \/ Locks)
    OBVIOUS
  <1>1. /\ pc = "lock_page" /\ selected # NULL /\ sections[selected].start = run.base
        /\ sections[selected].pages = 1
    BY DEF lock_page_whole, AtStart
  <1>2. CASE sections[selected].prev = NULL \/ sections[selected].next = NULL
    BY <1>2, HaltStep DEF lock_page_whole
  <1>3. CASE ~(sections[selected].prev = NULL \/ sections[selected].next = NULL)
    <2> DEFINE L == LockWhole(selected)
    <2>1. ReturnWith(L)
      BY <1>3 DEF lock_page_whole
    <2>2. /\ boot \in Boots /\ Top(boot) \in Int /\ BootFree(boot) \in SUBSET Int
          /\ Good(sections, Top(boot), BootFree(boot)) /\ selected \in Slot
          /\ IsList(CurrentList) /\ CurrentList.sec = sections
      BY <1>1, BootOk
    <2>3. L = LockedWhole(CurrentList, selected)
      BY <2>2, Zenon DEF LockWhole, LockedWhole
    <2> HIDE DEF L
    <2>4. L.head # NULL => /\ IsList(L) /\ Good(L.sec, Top(boot), BootFree(boot))
                           /\ FreeOf(L.sec) = FreeOf(sections) \ {sections[selected].start}
      BY <1>1, <1>3, <2>2, <2>3, LockedWholeChanges
    <2> QED BY <1>1, <2>1, <2>4, LockReturns
  <1> QED BY <1>2, <1>3

(* It takes the first page of a section. *)
LEMMA LockAtStartStep == IInv /\ lock_page_at_start => IInv' /\ (Halt \/ Locks)
  <1> SUFFICES ASSUME IInv, lock_page_at_start PROVE IInv' /\ (Halt \/ Locks)
    OBVIOUS
  <1>1. /\ pc = "lock_page" /\ selected # NULL /\ sections[selected].start = run.base
    BY DEF lock_page_at_start, AtStart
  <1>2. /\ boot \in Boots /\ Top(boot) \in Int /\ BootFree(boot) \in SUBSET Int
        /\ Good(sections, Top(boot), BootFree(boot)) /\ selected \in Slot
        /\ IsList(CurrentList) /\ CurrentList.sec = sections
    BY <1>1, BootOk
  <1>3. IF run.base \in FreeOf(sections)
        THEN sections[selected].free = PMM_SECTION_FREE /\ sections[selected].pages # 0
        ELSE sections[selected].free = PMM_SECTION_USED /\ sections[selected].pages >= 2
    BY <1>1, LockKnows
  <1>4. CASE sections[selected].free = PMM_SECTION_USED
    <2>1. ReturnWith(CurrentList)
      BY <1>4 DEF lock_page_at_start
    <2>2. run.base \notin FreeOf(sections)
      BY <1>3, <1>4, Types
    <2> QED BY <1>1, <1>2, <2>1, <2>2, LockReturns
  <1>5. CASE sections[selected].free # PMM_SECTION_USED /\ sections[selected].prev = NULL
    BY <1>5, HaltStep DEF lock_page_at_start
  <1>6. CASE sections[selected].free # PMM_SECTION_USED /\ sections[selected].prev # NULL
    <2> DEFINE L == TakeFirstPage(selected)
    <2>1. ReturnWith(L)
      BY <1>6 DEF lock_page_at_start
    <2>2. L = FirstGiven(CurrentList, selected, PMM_SECTION_USED)
      BY <1>2 DEF TakeFirstPage, FirstGiven
    <2>3. sections[selected].free = PMM_SECTION_FREE /\ sections[selected].pages # 0
      BY <1>3, <1>6
    <2> HIDE DEF L
    <2>4. L.head # NULL =>
            /\ IsList(L) /\ Good(L.sec, Top(boot), BootFree(boot))
            /\ FreeOf(L.sec) = Change(FreeOf(sections), sections[selected].start, PMM_SECTION_USED)
      BY <1>2, <1>6, <2>2, <2>3, Types, FirstGivenChanges
    <2>5. L.head # NULL => /\ IsList(L) /\ Good(L.sec, Top(boot), BootFree(boot))
                           /\ FreeOf(L.sec) = FreeOf(sections) \ {run.base}
      BY <1>1, <2>4, Types DEF Change
    <2> QED BY <1>1, <2>1, <2>5, LockReturns
  <1> QED BY <1>4, <1>5, <1>6

(* It takes a page in the middle of a section. *)
LEMMA LockInMiddleStep == IInv /\ lock_page_in_middle => IInv' /\ (Halt \/ Locks)
  <1> SUFFICES ASSUME IInv, lock_page_in_middle PROVE IInv' /\ (Halt \/ Locks)
    OBVIOUS
  <1>1. /\ pc = "lock_page" /\ selected # NULL /\ sections[selected].start < run.base
        /\ sections[selected].next # NULL /\ InMiddle(selected)
    BY DEF lock_page_in_middle
  <1>2. /\ boot \in Boots /\ Top(boot) \in Int /\ BootFree(boot) \in SUBSET Int
        /\ Good(sections, Top(boot), BootFree(boot)) /\ selected \in Slot
        /\ IsList(CurrentList) /\ CurrentList.sec = sections
        /\ Chained(sections, Top(boot)) /\ Tidy(sections) /\ sections \in [Slot -> pmm_section_t]
    BY <1>1, BootOk
  <1>3. run.base \in FreeOf(sections) /\ run.base \in Int /\ sections[selected].start \in Int
    BY <1>1, LockKnows
  <1>4. sections[selected].free = PMM_SECTION_FREE
    <2>1. sections[sections[selected].next].start = End(sections, selected)
      BY <1>1, <1>2 DEF Chained, Joined
    <2>2. End(sections, selected) \in Int /\ Linked(sections, selected)
      BY <1>1, <1>2, FieldTypes DEF End, Linked
    <2>3. Has(sections, selected, run.base)
      BY <1>1, <1>3, <2>1, <2>2 DEF Has, InMiddle
    <2> QED BY <1>2, <1>3, <2>3, FreeHas
  <1>5. CASE AtEnd(selected) /\ sections[sections[selected].next].free = PMM_SECTION_USED
    <2> DEFINE L == [CurrentList EXCEPT !.sec = GiveLastPage(sections, selected)]
               n == sections[selected].next
    <2>1. ContinueWith(L, selected)
      BY <1>4, <1>5, Types DEF lock_page_in_middle
    <2>2. /\ IsList(L) /\ Good(L.sec, Top(boot), BootFree(boot))
          /\ FreeOf(L.sec) = Change(FreeOf(sections), run.base, PMM_SECTION_USED)
          /\ L.sec[selected].next = n /\ n \in Slot
          /\ L.sec[n].start = run.base /\ L.sec[n].free = PMM_SECTION_USED
          /\ L.sec[n].pages = sections[n].pages + 1
      BY <1>1, <1>5, GiveToNext
    <2>3. sections[n].free = PMM_SECTION_USED
      BY <1>5
    <2> HIDE DEF L, n
    <2>4. L.sec[n].pages >= 2
      <3>1. sections[n].pages \in Nat
        BY <1>2, <2>2, FieldTypes
      <3>2. Linked(sections, n)
        <4>1. sections[selected].next \in Slot /\ Linked(sections, sections[selected].next)
          BY <1>1, <1>2, Neighbours
        <4> QED BY <4>1 DEF n
      <3>3. sections[n].pages # 0
        BY <1>2, <2>2, <2>3, <3>2, Types DEF Tidy
      <3> QED BY <2>2, <3>1, <3>3
    <2>5. FreeOf(L.sec) = FreeOf(sections) \ {run.base}
      BY <2>2, Types DEF Change
    <2>6. L.sec[selected].next # NULL =>
                  \/ L.sec[L.sec[selected].next].start > run.base
                  \/ /\ L.sec[L.sec[selected].next].start = run.base
                     /\ L.sec[L.sec[selected].next].free = PMM_SECTION_USED
                     /\ L.sec[L.sec[selected].next].pages >= 2
      BY <2>2, <2>4
    <2> QED BY <1>1, <1>2, <2>1, <2>2, <2>5, <2>6, LockContinues
  <1>6. CASE ~(AtEnd(selected) /\ sections[sections[selected].next].free = PMM_SECTION_USED)
    <2> DEFINE D == pmm_section_split(CurrentList, selected, run.base)
               n == D.sec[selected].next
               M == IF AtEnd(selected) THEN D ELSE pmm_section_split(D, n, D.sec[n].start + 1)
               R == SetType(pmm_section_split(D, n, D.sec[n].start + 1), n, PMM_SECTION_USED)
    <2>1. IF D.head = NULL THEN Halt ELSE ContinueWith(SetType(M, n, PMM_SECTION_USED), n)
      BY <1>4, <1>6, Types DEF lock_page_in_middle
    <2>2. CASE D.head = NULL
      BY <2>1, <2>2, HaltStep
    <2>3. CASE D.head # NULL
      <3>1. AtEnd(selected) => pmm_section_split(D, n, D.sec[n].start + 1) = D
        BY <1>1, <2>3, LastCut
      <3>2. ContinueWith(R, n)
        <4>1. M = pmm_section_split(D, n, D.sec[n].start + 1)
          BY <3>1
        <4> QED BY <2>1, <2>3, <4>1
      <3>3. R.head # NULL => IsCut(CurrentList, selected, run.base, PMM_SECTION_USED, D, n, R)
        BY <2>3 DEF IsCut
      <3> HIDE DEF M, D, R, n
      <3>4. R.head # NULL =>
              /\ IsList(R) /\ Good(R.sec, Top(boot), BootFree(boot))
              /\ FreeOf(R.sec) = Change(FreeOf(sections), run.base, PMM_SECTION_USED)
              /\ n \in Slot /\ Linked(R.sec, n) /\ R.sec[n].start = run.base /\ R.sec[n].pages = 1
        BY <1>1, <1>4, <3>3, Types, CutOut
      <3>5. ASSUME R.head # NULL, R.sec[n].next # NULL
            PROVE  R.sec[R.sec[n].next].start > run.base
        <4>1. Chained(R.sec, Top(boot))
          BY <3>4, <3>5 DEF Good, Shape
        <4>2. R.sec[R.sec[n].next].start = End(R.sec, n)
          BY <3>4, <3>5, <4>1 DEF Chained, Joined
        <4> QED BY <1>3, <3>4, <3>5, <4>2 DEF End
      <3>6. CASE R.head = NULL
        BY <3>2, <3>6, HaltStep DEF ContinueWith
      <3>7. CASE R.head # NULL
        <4>1. FreeOf(R.sec) = FreeOf(sections) \ {run.base}
          BY <3>4, <3>7, Types DEF Change
        <4> QED BY <1>1, <3>2, <3>4, <3>5, <3>7, <4>1, LockContinues
      <3> QED BY <3>6, <3>7
    <2> QED BY <2>2, <2>3
  <1> QED BY <1>5, <1>6

(* One iteration of pmm_lock_page. *)
LEMMA LockPageStep == IInv /\ pmm_lock_page => IInv' /\ (Halt \/ Locks)
  <1> SUFFICES ASSUME IInv, pmm_lock_page PROVE IInv' /\ (Halt \/ Locks)
    OBVIOUS
  <1>1. ASSUME lock_page_skips PROVE IInv' /\ (Halt \/ Locks)
    <2>1. /\ pc = "lock_page" /\ selected # NULL /\ sections[selected].start # run.base
          /\ sections[selected].start < run.base =>
               sections[selected].next # NULL /\ ~InMiddle(selected)
          /\ Advance
      BY <1>1 DEF lock_page_skips, AtStart
    <2>2. /\ selected' = sections[selected].next
          /\ UNCHANGED <<sections, section_head, pmm_pools, pc, run, detected, boot, held, claim>>
          /\ TypeOK' /\ ListInv' /\ CursorInv'
          /\ sections[selected].next # NULL =>
               /\ sections[selected].next \in Slot
               /\ sections[sections[selected].next].start = End(sections, selected)
      BY <2>1, Advances
    <2>3. /\ run.base \in Int /\ run.left >= 1
          /\ run.base + 1 .. run.base + run.left - 1 \subseteq FreeOf(sections)
          /\ sections[selected].start \in Int
          /\ sections[selected].start > run.base => run.base \notin FreeOf(sections)
          /\ sections[selected].start < run.base => run.base \in FreeOf(sections)
      BY <2>1, LockKnows
    <2>4. sections[selected].pages \in Nat /\ sections \in [Slot -> pmm_section_t]
      BY <2>1, BootOk, FieldTypes
    <2>7. SearchInv' /\ ClaimInv'
      <3>1. pc' = "lock_page"
        BY <2>1, <2>2
      <3> QED BY <2>2, <3>1 DEF IInv, SearchInv, ClaimInv, Claimed
    <2>8. Locks
      <3>1. Claimed' = Claimed
        BY <2>2 DEF Claimed
      <3> QED BY <2>1, <2>2, <3>1 DEF Locks
    <2>5. CASE sections[selected].start < run.base
      <3>1. sections[sections[selected].next].start <= run.base /\ sections[selected].next # NULL
        BY <2>1, <2>2, <2>3, <2>4, <2>5, FieldTypes DEF InMiddle
      <3>2. LockInv'
        BY <2>1, <2>2, <2>3, <2>5, <3>1 DEF LockInv
      <3> QED BY <2>2, <2>7, <2>8, <3>2 DEF IInv
    <2>6. CASE sections[selected].start > run.base
      <3>1. sections[selected].next # NULL => sections[sections[selected].next].start > run.base
        BY <2>2, <2>3, <2>4, <2>6 DEF End
      <3>2. LockInv'
        BY <2>1, <2>2, <2>3, <2>6, <3>1 DEF LockInv
      <3> QED BY <2>2, <2>7, <2>8, <3>2 DEF IInv
    <2> QED BY <2>1, <2>3, <2>5, <2>6
  <1>2. ASSUME lock_page_ends PROVE IInv' /\ (Halt \/ Locks)
    <2>1. pc = "lock_page" /\ selected = NULL /\ ReturnWith(CurrentList)
      BY <1>2 DEF lock_page_ends
    <2>2. run.base \notin FreeOf(sections)
      BY <2>1 DEF IInv, LockInv
    <2>3. IsList(CurrentList) /\ Good(CurrentList.sec, Top(boot), BootFree(boot))
          /\ CurrentList.sec = sections
      BY BootOk
    <2> QED BY <2>1, <2>2, <2>3, LockReturns
  <1> QED BY <1>1, <1>2, LockWholeStep, LockAtStartStep, LockInMiddleStep DEF pmm_lock_page

(* A run of free pages lies in one section: what ends a free section is not   *)
(* free.                                                                   *)
LEMMA NoRunAcross ==
    ASSUME NEW sec, NEW top \in Int, NEW ram, Good(sec, top, ram),
           NEW s \in Slot, Linked(sec, s), sec[s].free = PMM_SECTION_FREE
    PROVE  End(sec, s) \notin FreeOf(sec)
  <1> DEFINE e == End(sec, s)
             n == sec[s].next
  <1>1. Chained(sec, top) /\ Tidy(sec) /\ sec \in [Slot -> pmm_section_t]
    BY DEF Good, Shape, Chained
  <1>2. sec[s].start \in Int /\ sec[s].pages \in Nat
    BY <1>1, FieldTypes
  <1>3. e \in Int
    BY <1>2 DEF End
  <1>4. CASE n = NULL
    <2>1. e = top
      BY <1>1, <1>4 DEF Chained, Joined
    <2> QED BY <2>1, FreeHas
  <1>5. CASE n # NULL
    <2>1. n \in Slot /\ Linked(sec, n) /\ sec[n].start = e
      BY <1>1, <1>5, Neighbours DEF Chained, Joined
    <2>2. sec[n].free # PMM_SECTION_FREE
      BY <1>1, <1>5 DEF Tidy
    <2>3. sec[n].pages # 0 /\ sec[n].pages \in Nat
      BY <1>1, <2>1, <2>2, FieldTypes DEF Tidy
    <2> HIDE DEF e, n
    <2>4. Has(sec, n, e)
      BY <1>3, <2>1, <2>3 DEF Has, End
    <2>5. e \notin FreeOf(sec)
      BY <1>3, <2>1, <2>2, <2>4, FreeHas
    <2> QED BY <2>5 DEF e
  <1> QED BY <1>4, <1>5

(* pmm_alloc_pool is called. *)
LEMMA AllocPoolCallStep == IInv /\ alloc_pool_call => IInv'
  <1> SUFFICES ASSUME IInv, alloc_pool_call PROVE IInv'
    OBVIOUS
  <1>1. /\ Good(sections, Top(boot), BootFree(boot)) /\ Linked(sections, 0) /\ 0 \in Slot
        /\ sections[0].start = 0 /\ Top(boot) \in Int
    BY BootOk
  <1>2. /\ pc = "idle" /\ pc' = "alloc_pool" /\ selected' = 0 /\ sections' = sections
        /\ section_head' = section_head /\ pmm_pools' = pmm_pools
        /\ detected' = detected /\ boot' = boot /\ held' = held /\ claim' = claim
    BY DEF alloc_pool_call
  <1>3. PICK count \in 0 .. MaxRequest : run' = [base |-> 0, left |-> count]
    BY DEF alloc_pool_call
  <1>4. TypeOK'
    BY <1>1, <1>2, <1>3, Slots DEF IInv, TypeOK
  <1>5. ListInv' /\ CursorInv'
    BY <1>1, <1>2 DEF ListInv, CursorInv
  <1>6. LockInv'
    BY <1>2 DEF LockInv
  <1>7. SearchInv'
    <2>1. ASSUME NEW p \in FreeOf(sections) PROVE ~(p < 0)
      BY <1>1, FreeHas
    <2>2. 0 # NULL
      BY DEF NULL
    <2>3. run'.left \in 0 .. MaxRequest
      BY <1>3
    <2> QED BY <1>1, <1>2, <2>1, <2>2, <2>3 DEF SearchInv
  <1>8. ClaimInv'
    BY <1>2 DEF IInv, ClaimInv
  <1> QED BY <1>4, <1>5, <1>6, <1>7, <1>8 DEF IInv

(* It passes a section that does not fit. *)
LEMMA AllocPoolSkipsStep == IInv /\ alloc_pool_skips => IInv'
  <1> SUFFICES ASSUME IInv, alloc_pool_skips PROVE IInv'
    OBVIOUS
  <1>1. pc = "alloc_pool" /\ selected # NULL /\ ~Fits(selected) /\ Advance
    BY DEF alloc_pool_skips
  <1>2. /\ selected' = sections[selected].next
        /\ UNCHANGED <<sections, section_head, pmm_pools, pc, run, detected, boot, held, claim>>
        /\ TypeOK' /\ ListInv' /\ CursorInv'
        /\ sections[selected].next # NULL =>
             sections[sections[selected].next].start = End(sections, selected)
    BY <1>1, Advances
  <1>3. LockInv' /\ ClaimInv'
    BY <1>1, <1>2 DEF IInv, LockInv, ClaimInv
  <1>4. /\ Good(sections, Top(boot), BootFree(boot)) /\ selected \in Slot
        /\ Linked(sections, selected) /\ Top(boot) \in Int
        /\ sections \in [Slot -> pmm_section_t]
    BY <1>1, BootOk
  <1>5. /\ run.left \in 0 .. MaxRequest
        /\ \A p \in FreeOf(sections) :
             p < sections[selected].start => ~(p .. p + run.left - 1 \subseteq FreeOf(sections))
    BY <1>1 DEF IInv, SearchInv
  <1>6. /\ run.left \in Nat /\ sections[selected].start \in Int
        /\ sections[selected].pages \in Nat /\ End(sections, selected) \in Int
    BY <1>4, <1>5, FieldTypes DEF End, BootsAssumption
  <1>7. ASSUME NEW p \in FreeOf(sections),
               sections[selected].next = NULL \/ p < sections[sections[selected].next].start,
               p .. p + run.left - 1 \subseteq FreeOf(sections)
        PROVE  FALSE
    <2>1. p \in 0 .. Top(boot) - 1
      BY <1>4, FreeHas
    <2>2. sections[selected].start <= p
      BY <1>5, <1>6, <1>7, <2>1
    <2>3. Has(sections, selected, p)
      <3>1. SUFFICES ASSUME ~Has(sections, selected, p) PROVE FALSE
        OBVIOUS
      <3>2. sections[selected].next # NULL /\ sections[sections[selected].next].start <= p
        BY <1>4, <2>1, <2>2, <3>1, PassedBy
      <3> QED BY <1>2, <1>6, <1>7, <2>1, <3>2
    <2>4. sections[selected].free = PMM_SECTION_FREE
      BY <1>4, <2>1, <2>3, FreeHas
    <2>5. sections[selected].pages < run.left
      BY <1>1, <1>6, <2>4 DEF Fits
    <2>6. End(sections, selected) \in p .. p + run.left - 1
      BY <1>6, <2>1, <2>2, <2>3, <2>5 DEF Has, End
    <2>7. End(sections, selected) \notin FreeOf(sections)
      BY <1>4, <2>4, NoRunAcross
    <2> QED BY <1>7, <2>6, <2>7
  <1>8. SearchInv'
    BY <1>1, <1>2, <1>5, <1>7 DEF SearchInv
  <1> QED BY <1>2, <1>3, <1>8 DEF IInv

(* It finds a section that fits, and will lock its pages. *)
LEMMA AllocPoolFindsStep == IInv /\ alloc_pool_finds => IInv'
  <1> SUFFICES ASSUME IInv, alloc_pool_finds PROVE IInv'
    OBVIOUS
  <1> DEFINE base == sections[selected].start
             pool == [kind |-> "pool", base |-> base, pages |-> run.left]
  <1>1. /\ pc = "alloc_pool" /\ selected # NULL /\ Fits(selected)
        /\ pmm_pools' = Append(pmm_pools, [base |-> base, pages |-> run.left])
        /\ sections' = sections /\ section_head' = section_head /\ detected' = detected
        /\ boot' = boot
    BY DEF alloc_pool_finds
  <1>2. IF run.left = 0
        THEN /\ pc' = "idle" /\ selected' = NULL /\ run' = [base |-> 0, left |-> 0]
             /\ held' = held \cup {pool} /\ claim' = claim
        ELSE /\ pc' = "lock_page" /\ selected' = 0
             /\ run' = [base |-> base, left |-> run.left]
             /\ claim' = {pool} /\ held' = held
    BY DEF alloc_pool_finds, NoRun
  <1>3. /\ Good(sections, Top(boot), BootFree(boot)) /\ selected \in Slot
        /\ Linked(sections, selected) /\ Top(boot) \in Int
        /\ sections \in [Slot -> pmm_section_t] /\ Linked(sections, 0)
        /\ sections[0].start = 0 /\ 0 \in Slot
    BY <1>1, BootOk
  <1>4. run.left \in 0 .. MaxRequest /\ run.left \in Nat /\ base \in Int
        /\ sections[selected].pages \in Nat
    BY <1>1, <1>3, FieldTypes DEF IInv, SearchInv
  <1>5. sections[selected].pages >= run.left /\ sections[selected].free = PMM_SECTION_FREE
    BY <1>1 DEF Fits
  <1>6. [base |-> base, pages |-> run.left] \in [base : Int, pages : Nat] /\ pool \in Run
    BY <1>4 DEF Run
  <1>7. pool.kind = "pool" /\ Pages(pool) = base .. base + run.left - 1
    BY DEF Pages
  <1>8. \A p \in base .. base + run.left - 1 : p \in FreeOf(sections)
    BY <1>3, <1>4, <1>5 DEF FreeOf, Has, End
  <1>9. claim = {}
    BY <1>1 DEF IInv, ClaimInv
  <1> HIDE DEF base, pool
  <1>10. pmm_pools' \in Seq([base : Int, pages : Nat])
    BY <1>1, <1>6 DEF IInv, TypeOK
  <1>11. ListInv' /\ CursorInv'
    BY <1>1, <1>2, <1>3, Slots DEF ListInv, CursorInv
  <1>12. SearchInv'
    BY <1>2 DEF SearchInv
  <1>13. CASE run.left = 0
    <2>1. TypeOK'
      BY <1>1, <1>2, <1>6, <1>10, <1>13, Slots DEF IInv, TypeOK
    <2>2. LockInv'
      BY <1>2, <1>13 DEF LockInv
    <2>3. ClaimInv'
      BY <1>1, <1>2, <1>7, <1>9, <1>13 DEF IInv, ClaimInv
    <2> QED BY <1>11, <1>12, <2>1, <2>2, <2>3 DEF IInv
  <1>14. CASE run.left # 0
    <2>1. TypeOK'
      BY <1>1, <1>2, <1>4, <1>6, <1>10, <1>14, Slots DEF IInv, TypeOK
    <2>2. run'.base = base /\ run'.left = run.left /\ run.left >= 1
      BY <1>2, <1>4, <1>14
    <2>3. base \in FreeOf(sections) /\ 0 <= base
      <3>1. base \in FreeOf(sections)
        BY <1>4, <1>8, <2>2
      <3> QED BY <1>3, <3>1, FreeHas
    <2>4. LockInv'
      <3>1. \A p \in base + 1 .. base + run.left - 1 : p \in FreeOf(sections)
        BY <1>4, <1>8
      <3> QED BY <1>1, <1>2, <1>3, <1>14, <2>2, <2>3, <3>1, Slots DEF LockInv
    <2>5. ClaimInv'
      <3>1. Claimed' = base .. base + run.left - 1
        BY <1>2, <1>7, <1>14 DEF Claimed, Pages
      <3>2. \A r \in claim' : r.kind # "page"
        BY <1>2, <1>7, <1>14
      <3>3. boot \notin WholeApi => \A r \in held : r.kind = "page" => r.pages = 1
        BY DEF IInv, ClaimInv
      <3> QED BY <1>1, <1>2, <1>14, <2>2, <3>1, <3>2, <3>3 DEF ClaimInv
    <2> QED BY <1>11, <1>12, <2>1, <2>4, <2>5 DEF IInv
  <1> QED BY <1>13, <1>14

(* It has come to the end of the list. *)
LEMMA AllocPoolFailsStep == IInv /\ alloc_pool_fails => IInv'
  <1> SUFFICES ASSUME IInv, alloc_pool_fails PROVE IInv'
    OBVIOUS
  <1>1. /\ pc = "alloc_pool" /\ pc' = "recombine" /\ selected' = 0 /\ detected' = 0
        /\ UNCHANGED <<sections, section_head, run, boot, held, claim>>
    BY DEF alloc_pool_fails
  <1>2. /\ Good(sections, Top(boot), BootFree(boot)) /\ Linked(sections, 0) /\ 0 \in Slot
        /\ Top(boot) \in Int
    BY BootOk
  <1>3. PICK garbage \in IF pmm_pools = <<>> THEN {0} ELSE 0 .. Top(boot) - 1 :
          pmm_pools' = Append(pmm_pools, [base |-> garbage, pages |-> run.left])
    BY DEF alloc_pool_fails
  <1>4. garbage \in Int
    BY <1>2, <1>3
  <1>5. run.left \in Nat
    BY <1>1 DEF IInv, SearchInv
  <1>6. pmm_pools' \in Seq([base : Int, pages : Nat])
    BY <1>3, <1>4, <1>5 DEF IInv, TypeOK
  <1>7. TypeOK'
    BY <1>1, <1>2, <1>6, Slots DEF IInv, TypeOK
  <1>8. ListInv' /\ CursorInv'
    BY <1>1, <1>2 DEF ListInv, CursorInv
  <1>9. LockInv' /\ SearchInv'
    BY <1>1 DEF LockInv, SearchInv
  <1>10. ClaimInv'
    BY <1>1 DEF IInv, ClaimInv
  <1> QED BY <1>7, <1>8, <1>9, <1>10 DEF IInv

(* One iteration of pmm_recombine. *)
LEMMA RecombineStep == IInv /\ pmm_recombine => IInv'
  <1> SUFFICES ASSUME IInv, pmm_recombine PROVE IInv'
    OBVIOUS
  <1>1. /\ Good(sections, Top(boot), BootFree(boot)) /\ Linked(sections, 0) /\ 0 \in Slot
        /\ Top(boot) \in Int /\ BootFree(boot) \in SUBSET (0 .. Top(boot) - 1)
        /\ BootFree(boot) # {} /\ (selected # NULL => selected \in Slot)
    BY BootOk
  <1>2. ASSUME recombine_pass_ends PROVE IInv'
    <2>1. CASE detected = 0
      <3>1. Return /\ UNCHANGED <<sections, section_head, pmm_pools, detected, boot>>
        BY <1>2, <2>1 DEF recombine_pass_ends
      <3>2. Good(sections', Top(boot), BootFree(boot)) /\ section_head' \in 0 .. NSlots
        BY <1>1, <3>1 DEF IInv, TypeOK
      <3> QED BY <3>1, <3>2, ReturnStep
    <2>2. CASE detected # 0
      <3>1. /\ pc = "recombine" /\ detected' = 0 /\ selected' = 0
            /\ UNCHANGED <<sections, section_head, pmm_pools, pc, run, boot, held, claim>>
        BY <1>2, <2>2 DEF recombine_pass_ends
      <3>2. TypeOK'
        BY <1>1, <3>1, Slots DEF IInv, TypeOK
      <3>3. ListInv' /\ CursorInv'
        BY <1>1, <3>1 DEF ListInv, CursorInv
      <3>4. LockInv' /\ SearchInv' /\ ClaimInv'
        BY <3>1 DEF IInv, LockInv, SearchInv, ClaimInv
      <3> QED BY <3>2, <3>3, <3>4 DEF IInv
    <2> QED BY <2>1, <2>2
  <1>3. ASSUME recombine_skips PROVE IInv'
    <2>1. pc = "recombine" /\ selected # NULL /\ Advance
      BY <1>3 DEF recombine_skips
    <2>2. /\ UNCHANGED <<sections, section_head, pmm_pools, pc, run, detected, boot, held, claim>>
          /\ TypeOK' /\ ListInv' /\ CursorInv'
      BY <2>1, Advances
    <2>3. LockInv' /\ SearchInv' /\ ClaimInv'
      BY <2>1, <2>2 DEF IInv, LockInv, SearchInv, ClaimInv
    <2> QED BY <2>2, <2>3 DEF IInv
  <1>4. ASSUME recombine_merges PROVE IInv'
    <2> DEFINE S == CombinePrev(sections, sections[selected].next)
               m == sections[sections[selected].next].next
    <2>1. /\ pc = "recombine" /\ selected # NULL /\ sections[selected].next # NULL
          /\ sections[selected].free = sections[sections[selected].next].free
          /\ sections' = S /\ detected' = 1 /\ selected' = m
          /\ UNCHANGED <<section_head, pmm_pools, pc, run, boot, held, claim>>
      BY <1>4 DEF recombine_merges
    <2>2. Good(S, Top(boot), BootFree(boot)) /\ (m # NULL => m \in Slot /\ Linked(S, m))
      BY <1>1, <2>1, Merged
    <2> HIDE DEF S, m
    <2>3. ListInv' /\ CursorInv' /\ sections' \in [Slot -> pmm_section_t]
      BY <2>1, <2>2, ListStep
    <2>4. TypeOK'
      BY <2>1, <2>2, <2>3 DEF IInv, TypeOK, SlotP
    <2>5. LockInv' /\ SearchInv' /\ ClaimInv'
      BY <2>1 DEF IInv, LockInv, SearchInv, ClaimInv
    <2> QED BY <2>3, <2>4, <2>5 DEF IInv
  <1> QED BY <1>2, <1>3, <1>4 DEF pmm_recombine

(* pmm_free_page is called with a page its caller has. *)
LEMMA FreePageCallStep == IInv /\ free_page_call => IInv'
  <1> SUFFICES ASSUME IInv, free_page_call PROVE IInv'
    OBVIOUS
  <1>1. /\ pc = "idle" /\ pc' = "free_page" /\ selected' = 0
        /\ UNCHANGED <<sections, section_head, pmm_pools, detected, boot, claim>>
    BY DEF free_page_call
  <1>2. PICK r \in held : held' = held \ {r} /\ run' = [base |-> r.base, left |-> 1]
    BY DEF free_page_call
  <1>3. /\ Good(sections, Top(boot), BootFree(boot)) /\ Linked(sections, 0) /\ 0 \in Slot
    BY BootOk
  <1>4. r.base \in Int
    BY <1>2 DEF IInv, TypeOK, Run
  <1>5. TypeOK'
    BY <1>1, <1>2, <1>3, <1>4, Slots DEF IInv, TypeOK
  <1>6. ListInv' /\ CursorInv'
    BY <1>1, <1>3 DEF ListInv, CursorInv
  <1>7. LockInv' /\ SearchInv'
    BY <1>1 DEF LockInv, SearchInv
  <1>8. ClaimInv'
    BY <1>1, <1>2 DEF IInv, ClaimInv
  <1> QED BY <1>5, <1>6, <1>7, <1>8 DEF IInv

(* pmm_free_pool is called, where the whole of pmm.h is. *)
LEMMA FreePoolCallStep == IInv /\ boot \in WholeApi /\ free_pool_call => IInv'
  <1> SUFFICES ASSUME IInv, boot \in WholeApi, free_pool_call PROVE IInv'
    OBVIOUS
  <1>1. pc = "idle" /\ UNCHANGED <<sections, section_head, pmm_pools, boot, claim>>
    BY DEF free_pool_call
  <1>2. PICK r \in held :
          /\ r.kind = "pool" /\ held' = held \ {r}
          /\ LET hits == {i \in DOMAIN pmm_pools : Covers(pmm_pools[i], r.base)}
                 i    == CHOOSE i \in hits : \A j \in hits : i <= j
             IN  IF hits = {} THEN
                      /\ pc' = "recombine" /\ selected' = 0 /\ detected' = 0
                      /\ UNCHANGED run
                 ELSE /\ run' = [base |-> pmm_pools[i].base, left |-> pmm_pools[i].pages]
                      /\ UNCHANGED detected
                      /\ IF pmm_pools[i].pages = 0
                         THEN UNCHANGED <<pc, selected>>
                         ELSE pc' = "free_page" /\ selected' = 0
    BY Zenon DEF free_pool_call
  <1> DEFINE hits == {i \in DOMAIN pmm_pools : Covers(pmm_pools[i], r.base)}
             i    == CHOOSE i \in hits : \A j \in hits : i <= j
  <1>3. /\ Good(sections, Top(boot), BootFree(boot)) /\ Linked(sections, 0) /\ 0 \in Slot
        /\ (selected # NULL => selected \in Slot /\ Linked(sections, selected))
    BY BootOk
  <1>4. /\ selected' \in {selected, 0} /\ pc' \in {"idle", "recombine", "free_page"}
        /\ detected' \in {0, 1} /\ run' \in [base : Int, left : Int]
    <2>1. CASE hits = {}
      BY <1>1, <1>2, <2>1 DEF IInv, TypeOK
    <2>2. CASE hits # {}
      <3>1. pmm_pools \in Seq([base : Int, pages : Nat])
        BY DEF IInv, TypeOK
      <3>2. hits \in SUBSET Nat /\ hits \subseteq 1 .. Len(pmm_pools)
        BY <3>1
      <3>3. \E m \in hits : \A k \in hits : m <= k
        BY <2>2, <3>2, LeastMember
      <3>4. i \in hits
        <4> HIDE DEF hits
        <4> QED BY <3>3, Zenon
      <3>5. /\ run' = [base |-> pmm_pools[i].base, left |-> pmm_pools[i].pages]
            /\ UNCHANGED detected
            /\ IF pmm_pools[i].pages = 0
               THEN UNCHANGED <<pc, selected>>
               ELSE pc' = "free_page" /\ selected' = 0
        BY <1>2, <2>2
      <3>6. pmm_pools[i] \in [base : Int, pages : Nat]
        <4>1. i \in 1 .. Len(pmm_pools)
          BY <3>2, <3>4
        <4>2. \A k \in 1 .. Len(pmm_pools) : pmm_pools[k] \in [base : Int, pages : Nat]
          <5> DEFINE T == [base : Int, pages : Nat]
          <5>1. pmm_pools \in Seq(T)
            BY <3>1
          <5> HIDE DEF T
          <5>2. \A k \in 1 .. Len(pmm_pools) : pmm_pools[k] \in T
            BY <5>1
          <5> QED BY <5>2 DEF T
        <4> HIDE DEF i, hits
        <4> QED BY <4>1, <4>2, Zenon
      <3> DEFINE pool == pmm_pools[i]
      <3>7. pool.base \in Int /\ pool.pages \in Int
            /\ run' = [base |-> pool.base, left |-> pool.pages]
        BY <3>5, <3>6
      <3>8. selected' \in {selected, 0} /\ pc' \in {"idle", "free_page"}
        BY <1>1, <3>5
      <3>9. detected' \in {0, 1}
        BY <3>5 DEF IInv, TypeOK
      <3> HIDE DEF pool
      <3>10. run' \in [base : Int, left : Int]
        BY <3>7
      <3> QED BY <3>8, <3>9, <3>10
    <2> QED BY <2>1, <2>2
  <1> HIDE DEF i, hits
  <1>5. TypeOK'
    BY <1>1, <1>2, <1>3, <1>4, Slots DEF IInv, TypeOK
  <1>6. ListInv' /\ CursorInv'
    BY <1>1, <1>3, <1>4 DEF ListInv, CursorInv
  <1>7. LockInv' /\ SearchInv'
    BY <1>4 DEF LockInv, SearchInv
  <1>8. ClaimInv'
    BY <1>1, <1>4 DEF IInv, ClaimInv
  <1> QED BY <1>5, <1>6, <1>7, <1>8 DEF IInv

(* pmm_lock_pages is called with free pages, there. *)
LEMMA LockPagesCallStep == IInv /\ boot \in WholeApi /\ lock_pages_call => IInv'
  <1> SUFFICES ASSUME IInv, boot \in WholeApi, lock_pages_call PROVE IInv'
    OBVIOUS
  <1>1. /\ pc = "idle" /\ pc' = "lock_page" /\ selected' = 0
        /\ UNCHANGED <<sections, section_head, pmm_pools, detected, boot, held, claim>>
    BY DEF lock_pages_call
  <1>2. /\ Good(sections, Top(boot), BootFree(boot)) /\ Linked(sections, 0) /\ 0 \in Slot
        /\ sections[0].start = 0 /\ Top(boot) \in Int /\ BootFree(boot) \in SUBSET Int
    BY BootOk
  <1>3. PICK base \in BootFree(boot), count \in 1 .. MaxRequest :
          /\ base .. base + count - 1 \subseteq FreePages
          /\ run' = [base |-> base, left |-> count]
    BY DEF lock_pages_call, FreePages
  <1>4. base .. base + count - 1 \subseteq FreeOf(sections)
    BY <1>2, <1>3, FreePagesAre
  <1>5. /\ base \in Int /\ count \in Int /\ count >= 1
        /\ run'.base = base /\ run'.left = count
    BY <1>2, <1>3, BootsAssumption
  <1>6. base \in FreeOf(sections) /\ 0 <= base
    <2>1. base \in FreeOf(sections)
      BY <1>4, <1>5
    <2> QED BY <1>2, <2>1, FreeHas
  <1>7. TypeOK'
    BY <1>1, <1>2, <1>3, <1>5, Slots DEF IInv, TypeOK
  <1>8. ListInv' /\ CursorInv'
    BY <1>1, <1>2 DEF ListInv, CursorInv
  <1>9. LockInv'
    <2>1. \A p \in base + 1 .. base + count - 1 : p \in FreeOf(sections)
      BY <1>4, <1>5
    <2> QED BY <1>1, <1>2, <1>5, <1>6, <2>1, Slots DEF LockInv
  <1>10. SearchInv' /\ ClaimInv'
    BY <1>1 DEF IInv, SearchInv, ClaimInv
  <1> QED BY <1>7, <1>8, <1>9, <1>10 DEF IInv

(* pmm_unlock_pages is called, there. *)
LEMMA UnlockPagesCallStep == IInv /\ boot \in WholeApi /\ unlock_pages_call => IInv'
  <1> SUFFICES ASSUME IInv, boot \in WholeApi, unlock_pages_call PROVE IInv'
    OBVIOUS
  <1>1. /\ pc = "idle" /\ pc' = "free_page" /\ selected' = 0
        /\ UNCHANGED <<sections, section_head, pmm_pools, detected, boot, held, claim>>
    BY DEF unlock_pages_call
  <1>2. /\ Good(sections, Top(boot), BootFree(boot)) /\ Linked(sections, 0) /\ 0 \in Slot
        /\ BootFree(boot) \in SUBSET Int
    BY BootOk
  <1>3. PICK base \in BootFree(boot), count \in 1 .. MaxRequest :
          run' = [base |-> base, left |-> count]
    BY DEF unlock_pages_call
  <1>4. run' \in [base : Int, left : Int]
    BY <1>2, <1>3, BootsAssumption
  <1>5. TypeOK'
    BY <1>1, <1>2, <1>4, Slots DEF IInv, TypeOK
  <1>6. ListInv' /\ CursorInv'
    BY <1>1, <1>2 DEF ListInv, CursorInv
  <1>7. LockInv' /\ SearchInv' /\ ClaimInv'
    BY <1>1 DEF IInv, LockInv, SearchInv, ClaimInv
  <1> QED BY <1>5, <1>6, <1>7 DEF IInv

(* pmm_start is about to lock the run of free pages that holds the headers.  *)
LEMMA InitOk == Init => IInv
  <1> SUFFICES ASSUME Init PROVE IInv
    OBVIOUS
  <1>1. /\ boot \in Boots /\ sections = BootSections(boot) /\ section_head = boot.head
        /\ pmm_pools = <<>> /\ pc = "lock_page" /\ selected = 0 /\ detected = 0 /\ held = {}
        /\ run = [base |-> boot.data.base, left |-> boot.data.pages]
        /\ claim = {[kind |-> "data", base |-> boot.data.base, pages |-> boot.data.pages]}
    BY DEF Init
  <1> DEFINE base == boot.data.base
             n    == boot.data.pages
             r    == [kind |-> "data", base |-> base, pages |-> n]
  <1>2. Good(sections, Top(boot), BootFree(boot)) /\ FreeOf(sections) = BootFree(boot)
    BY <1>1, BootGood
  <1>3. base \in Nat /\ n \in Nat \ {0} /\ base .. base + n - 1 \subseteq BootFree(boot)
    BY <1>1, BootMemory
  <1>4. /\ sections \in [Slot -> pmm_section_t] /\ Linked(sections, 0)
        /\ sections[0].start = 0
    BY <1>2 DEF Good, Shape, Chained
  <1>5. r \in Run /\ r.kind = "data" /\ Pages(r) = base .. base + n - 1
    BY <1>3 DEF Run, Pages
  <1>6. run.base = base /\ run.left = n /\ claim = {r} /\ run \in [base : Int, left : Int]
    BY <1>1, <1>3
  <1> HIDE DEF base, n, r
  <1>7. TypeOK
    <2>1. section_head \in 0 .. NSlots
      BY <1>1, BootFields
    <2>2. <<>> \in Seq([base : Int, pages : Nat])
      OBVIOUS
    <2> QED BY <1>1, <1>4, <1>5, <1>6, <2>1, <2>2, Slots DEF TypeOK
  <1>8. ListInv /\ CursorInv
    BY <1>1, <1>2, <1>4 DEF ListInv, CursorInv
  <1>9. LockInv
    <2>1. base \in FreeOf(sections) /\ \A p \in base + 1 .. base + n - 1 : p \in FreeOf(sections)
      BY <1>2, <1>3
    <2> QED BY <1>1, <1>3, <1>4, <1>6, <2>1, Slots DEF LockInv
  <1>10. SearchInv
    BY <1>1 DEF SearchInv
  <1>11. ClaimInv
    <2>1. Claimed = base .. base + n - 1
      BY <1>5, <1>6 DEF Claimed
    <2> QED BY <1>1, <1>5, <1>6, <2>1 DEF ClaimInv
  <1> QED BY <1>7, <1>8, <1>9, <1>10, <1>11 DEF IInv

(* Every step keeps the invariant. *)
LEMMA NextOk == IInv /\ [Next]_vars => IInv'
  <1> SUFFICES ASSUME IInv, [Next]_vars PROVE IInv'
    OBVIOUS
  <1>1. CASE Running
    <2>1. CASE pmm_alloc_page
      BY <2>1, AllocPageFailsStep, AllocPageUnlinksStep, AllocPageSkipsStep,
         AllocPageTakesStep DEF pmm_alloc_page
    <2>2. CASE pmm_alloc_pool
      BY <2>2, AllocPoolSkipsStep, AllocPoolFindsStep, AllocPoolFailsStep DEF pmm_alloc_pool
    <2>3. CASE scan_faults
      BY <2>3, HaltStep DEF scan_faults
    <2> QED BY <1>1, <2>1, <2>2, <2>3, FreePageStep, LockPageStep, RecombineStep DEF Running
  <1>2. CASE KernelCall
    BY <1>2, AllocPageCallStep, FreePageCallStep, AllocPoolCallStep DEF KernelCall
  <1>3. CASE boot \in WholeApi /\ OtherCall
    BY <1>3, FreePoolCallStep, LockPagesCallStep, UnlockPagesCallStep DEF OtherCall
  <1>4. CASE UNCHANGED vars
    BY <1>4 DEF vars, IInv, TypeOK, ListInv, CursorInv, LockInv, SearchInv, ClaimInv, Claimed
  <1> QED BY <1>1, <1>2, <1>3, <1>4 DEF Next

(* Whatever is called in whatever order, between any two iterations of the   *)
(* loops of pmm.c and pfa.c the list of sections is whole and tidy, every    *)
(* cursor stands on a section of it, and the scans are where they should be. *)
THEOREM Invariant == Spec => []IInv
  BY InitOk, NextOk, PTL DEF Spec

(* Every variable has its type, on every machine: the bump index never goes   *)
(* past the array and no section ever has less than no pages.              *)
THEOREM TypeCorrect == Spec => []TypeOK
  <1>1. IInv => TypeOK
    BY DEF IInv
  <1> QED BY <1>1, Invariant, PTL

(* The links of the list are each other's inverse, sections touch, and a      *)
(* header out of the list is blank, at every step of every call.            *)
THEOREM ListWhole == Spec => []LinksAgree
  <1>1. IInv => LinksAgree
    <2> SUFFICES ASSUME IInv, NEW s \in Slot
                 PROVE  /\ sections[s].next # NULL =>
                             /\ sections[sections[s].next].prev = s
                             /\ sections[sections[s].next].start = End(sections, s)
                        /\ sections[s].prev # NULL => sections[sections[s].prev].next = s
                        /\ Linked(sections, s) \/ sections[s] = Unlinked
                        /\ sections[s].pages >= 0
      BY DEF LinksAgree
    <2>1. Chained(sections, Top(boot)) /\ sections \in [Slot -> pmm_section_t]
      BY BootOk
    <2>2. sections[s].pages \in Nat
      BY <2>1, FieldTypes
    <2> QED BY <2>1, <2>2 DEF Chained, Joined
  <1> QED BY <1>1, Invariant, PTL

(* No page of physical memory is ever lost from the list or described twice.  *)
THEOREM PagesDescribed == Spec => []EveryPageInOneSection
  <1>1. IInv => EveryPageInOneSection
    <2> SUFFICES ASSUME IInv, NEW p \in 0 .. Top(boot) - 1
                 PROVE  \E s \in Slot :
                          /\ Linked(sections, s) /\ p \in SectionPages(s)
                          /\ \A t \in Slot \ {s} :
                               ~(Linked(sections, t) /\ p \in SectionPages(t))
      BY DEF EveryPageInOneSection
    <2>1. /\ Covered(sections, Top(boot)) /\ Apart(sections) /\ Top(boot) \in Int
          /\ sections \in [Slot -> pmm_section_t]
      BY BootOk DEF Good, Shape
    <2>2. p \in Int
      BY <2>1
    <2>3. ASSUME NEW s \in Slot
          PROVE  Has(sections, s, p) <=> Linked(sections, s) /\ p \in SectionPages(s)
      <3>1. sections[s].start \in Int /\ sections[s].pages \in Nat
        BY <2>1, FieldTypes
      <3> QED BY <2>2, <3>1 DEF Has, SectionPages, End
    <2>4. PICK s \in Slot : Has(sections, s, p)
      BY <2>1 DEF Covered
    <2>5. \A t \in Slot \ {s} : ~Has(sections, t, p)
      BY <2>1, <2>2, <2>4 DEF Apart
    <2> QED BY <2>3, <2>4, <2>5
  <1> QED BY <1>1, Invariant, PTL

-----------------------------------------------------------------------------
(* The refinement: what PageSet sees of the allocator, see Pmm!PageSet.       *)

MFree      == IF AsKernel THEN FreePages \ Claimed ELSE BootFree(boot) \ Pages(DataRun)
MHeld      == IF AsKernel THEN held \cup claim ELSE {DataRun}
MAsked     == IF AsKernel THEN Asked ELSE {}
MReturning == IF AsKernel /\ pc = "free_page" THEN {run.base} \ FreePages ELSE {}
MStopped   == AsKernel /\ pc = "halted"

(* The theorems of PageSet, about the allocator.                             *)
Owners == INSTANCE PageSetProofs WITH
    Sizes     <- 0 .. MaxRequest,
    ram       <- BootFree(boot),
    free      <- IF AsKernel THEN FreePages \ Claimed ELSE BootFree(boot) \ Pages(DataRun),
    held      <- IF AsKernel THEN held \cup claim ELSE {DataRun},
    asked     <- IF AsKernel THEN Asked ELSE {},
    returning <- IF AsKernel /\ pc = "free_page" THEN {run.base} \ FreePages ELSE {},
    stopped   <- AsKernel /\ pc = "halted"

Steps == PageSet!Next \/ UNCHANGED PageSet!vars

(* The same fact as FreePagesAre, of the next state. *)
LEMMA FreePagesNext ==
    ASSUME Good(sections', Top(boot'), BootFree(boot'))
    PROVE  FreePages' = FreeOf(sections')
  <1>1. ASSUME NEW s \in Slot
        PROVE  sections'[s].start \in Int /\ sections'[s].pages \in Nat
    BY FieldTypes DEF Good, Shape, Chained
  <1>2. ASSUME NEW s \in Slot, NEW p
        PROVE  p \in SectionPages(s)' /\ Linked(sections', s) <=> p \in Int /\ Has(sections', s, p)
    BY <1>1 DEF SectionPages, Has, End
  <1> QED BY <1>2 DEF FreePages, FreeSections, FreeOf

(* What PageSet sees, on the machines used as the kernel uses them, *)
LEMMA MapNow ==
    ASSUME IInv, boot \notin WholeApi
    PROVE  /\ MFree = FreeOf(sections) \ Claimed /\ MHeld = held \cup claim /\ MAsked = Asked
           /\ MReturning = IF pc = "free_page" THEN {run.base} \ FreeOf(sections) ELSE {}
           /\ MStopped = (pc = "halted")
  BY BootOk, FreePagesAre, Zenon DEF MFree, MHeld, MAsked, MReturning, MStopped, AsKernel

(* and what it sees after a step. *)
LEMMA MapNext ==
    ASSUME IInv', boot' = boot, boot \notin WholeApi
    PROVE  /\ MFree' = FreeOf(sections') \ Claimed' /\ MHeld' = held' \cup claim'
           /\ MAsked' = Asked'
           /\ MReturning' = IF pc' = "free_page" THEN {run'.base} \ FreeOf(sections') ELSE {}
           /\ MStopped' = (pc' = "halted")
  <1>1. Good(sections', Top(boot'), BootFree(boot'))
    BY DEF IInv, ListInv
  <1>2. FreePages' = FreeOf(sections')
    BY <1>1, FreePagesNext
  <1> QED BY <1>2, Zenon DEF MFree, MHeld, MAsked, MReturning, MStopped, AsKernel

(* When nothing PageSet sees changes, it takes no step. *)
LEMMA Stutters ==
    ASSUME boot' = boot, MFree' = MFree, MHeld' = MHeld, MAsked' = MAsked,
           MReturning' = MReturning, MStopped' = MStopped
    PROVE  Steps
  <1>1. BootFree(boot)' = BootFree(boot)
    BY DEF BootFree
  <1> QED BY <1>1 DEF Steps, PageSet!vars, MFree, MHeld, MAsked, MReturning, MStopped

(* A machine on which anything is called is mapped to its boot state. *)
LEMMA OthersStutter ==
    ASSUME boot' = boot, boot \in WholeApi
    PROVE  Steps
  <1>1. BootFree(boot)' = BootFree(boot) /\ DataRun' = DataRun /\ Pages(DataRun)' = Pages(DataRun)
        /\ ~AsKernel /\ ~AsKernel'
    BY DEF BootFree, DataRun, Pages, AsKernel
  <1> QED BY <1>1, Stutters DEF MFree, MHeld, MAsked, MReturning, MStopped

(* A call gets free pages. *)
LEMMA GrantMaps ==
    ASSUME boot' = boot, NEW r \in MHeld', NEW q \in MAsked, r.kind = q.kind, r.pages = q.pages,
           Pages(r) \subseteq MFree, MFree' = MFree \ Pages(r), MHeld' = MHeld \cup {r},
           MAsked' = {}, MReturning' = MReturning, MStopped' = MStopped
    PROVE  Steps
  <1>1. BootFree(boot)' = BootFree(boot) /\ PageSet!Pages(r) = Pages(r)
    BY DEF BootFree, Pages, PageSet!Pages
  <1>2. PageSet!grant
    BY <1>1 DEF PageSet!grant, MFree, MHeld, MAsked, MReturning, MStopped
  <1> QED BY <1>2 DEF Steps, PageSet!Next

(* A call is refused. *)
LEMMA RefuseMaps ==
    ASSUME boot' = boot, NEW q \in MAsked, ~ \E base \in MFree : base .. base + q.pages - 1 \subseteq MFree,
           MFree' = MFree, MHeld' = MHeld, MAsked' = {}, MReturning' = MReturning,
           MStopped' = MStopped
    PROVE  Steps
  <1>1. BootFree(boot)' = BootFree(boot)
    BY DEF BootFree
  <1>2. PageSet!refuse
    BY <1>1 DEF PageSet!refuse, MFree, MHeld, MAsked, MReturning, MStopped
  <1> QED BY <1>2 DEF Steps, PageSet!Next

(* A call is made. *)
LEMMA AskMaps ==
    ASSUME boot' = boot, NEW r \in [kind : {"page"}, pages : {1}] \cup [kind : {"pool"}, pages : 0 .. MaxRequest],
           MAsked = {}, MReturning = {}, ~MStopped, MAsked' = {r},
           MFree' = MFree, MHeld' = MHeld, MReturning' = MReturning, MStopped' = MStopped
    PROVE  Steps
  <1>1. BootFree(boot)' = BootFree(boot) /\ r \in PageSet!Request
    BY DEF BootFree, PageSet!Request
  <1>2. PageSet!Idle
    BY DEF PageSet!Idle, MAsked, MReturning, MStopped
  <1>3. PageSet!ask
    BY <1>1, <1>2 DEF PageSet!ask, MFree, MHeld, MAsked, MReturning, MStopped
  <1> QED BY <1>3 DEF Steps, PageSet!Next

(* A run is handed back. *)
LEMMA HandBackMaps ==
    ASSUME boot' = boot, NEW r \in MHeld, r.kind = "page",
           MAsked = {}, MReturning = {}, ~MStopped,
           MHeld' = MHeld \ {r}, MReturning' = Pages(r),
           MFree' = MFree, MAsked' = MAsked, MStopped' = MStopped
    PROVE  Steps
  <1>1. BootFree(boot)' = BootFree(boot) /\ PageSet!Pages(r) = Pages(r)
    BY DEF BootFree, Pages, PageSet!Pages
  <1>2. PageSet!Idle
    BY DEF PageSet!Idle, MAsked, MReturning, MStopped
  <1>3. PageSet!hand_back
    BY <1>1, <1>2 DEF PageSet!hand_back, MFree, MHeld, MAsked, MReturning, MStopped
  <1> QED BY <1>3 DEF Steps, PageSet!Next

(* The page handed back is free, or never will be. *)
LEMMA BackMaps ==
    ASSUME boot' = boot, MReturning # {}, MReturning' = {}, MFree' \in {MFree, MFree \cup MReturning},
           MHeld' = MHeld, MAsked' = MAsked, MStopped' = MStopped
    PROVE  Steps
  <1>1. BootFree(boot)' = BootFree(boot)
    BY DEF BootFree
  <1>2. CASE MFree' = MFree
    <2>1. PageSet!forgotten
      BY <1>1, <1>2 DEF PageSet!forgotten, MFree, MHeld, MAsked, MReturning, MStopped
    <2> QED BY <2>1 DEF Steps, PageSet!Next
  <1>3. CASE MFree' = MFree \cup MReturning
    <2>1. PageSet!becomes_free
      BY <1>1, <1>3 DEF PageSet!becomes_free, MFree, MHeld, MAsked, MReturning, MStopped
    <2> QED BY <2>1 DEF Steps, PageSet!Next
  <1> QED BY <1>2, <1>3

(* The machine stops. *)
LEMMA StopMaps ==
    ASSUME boot' = boot, ~MStopped, MStopped' = TRUE, MAsked' = {}, MReturning' = {},
           MFree' = MFree, MHeld' = MHeld
    PROVE  Steps
  <1>1. BootFree(boot)' = BootFree(boot)
    BY DEF BootFree
  <1>2. PageSet!stops
    BY <1>1 DEF PageSet!stops, MFree, MHeld, MAsked, MReturning, MStopped
  <1> QED BY <1>2 DEF Steps, PageSet!Next

(* Each step of the allocator is one of PageSet, or one that PageSet does not *)
(* see, on the machines that are used as the kernel uses them.              *)

(* The call PageSet sees, from the place in the code. *)
LEMMA AskedIs ==
    /\ pc = "alloc_page" => Asked = {[kind |-> "page", pages |-> 1]}
    /\ pc = "alloc_pool" => Asked = {[kind |-> "pool", pages |-> run.left]}
    /\ pc \notin {"alloc_page", "alloc_pool"} => Asked = {}
    /\ pc' = "alloc_page" => Asked' = {[kind |-> "page", pages |-> 1]}
    /\ pc' = "alloc_pool" => Asked' = {[kind |-> "pool", pages |-> run'.left]}
    /\ pc' \notin {"alloc_page", "alloc_pool"} => Asked' = {}
  BY DEF Asked

(* A fault stops the machine for PageSet too. *)
LEMMA HaltMaps ==
    ASSUME IInv, IInv', Halt, pc # "halted", boot \notin WholeApi
    PROVE  Steps
  <1>1. /\ pc' = "halted" /\ boot' = boot /\ sections' = sections /\ held' = held /\ claim' = claim
    BY DEF Halt
  <1>2. Claimed' = Claimed /\ FreeOf(sections') = FreeOf(sections) /\ Asked' = {}
    BY <1>1, AskedIs DEF Claimed
  <1>3. /\ MFree' = MFree /\ MHeld' = MHeld /\ MAsked' = {} /\ MReturning' = {}
        /\ ~MStopped /\ MStopped' = TRUE
    BY <1>1, <1>2, MapNow, MapNext
  <1> QED BY <1>1, <1>3, StopMaps

(* The end of pmm_free_page. *)
LEMMA FreeMaps ==
    ASSUME IInv, IInv', Frees, pc = "free_page", boot \notin WholeApi
    PROVE  Steps
  <1> DEFINE F == FreeOf(sections)
             G == FreeOf(sections')
             b == run.base
  <1>1. /\ boot' = boot /\ G \in {F, F \cup {b}} /\ held' \cup claim' = held \cup claim
        /\ claim' = {} /\ (pc' = "idle" \/ (pc' = "free_page" /\ run' = run))
    BY DEF Frees
  <1>2. claim = {} /\ Claimed = {} /\ Claimed' = {}
    BY <1>1 DEF IInv, ClaimInv, Claimed
  <1>3. Asked = {} /\ Asked' = {}
    BY <1>1, AskedIs
  <1>4. MFree = F \ Claimed /\ MHeld = held \cup claim /\ MAsked = Asked /\ MReturning = {b} \ F
        /\ MStopped = FALSE
    BY MapNow
  <1>5. MFree' = G \ Claimed' /\ MHeld' = held' \cup claim' /\ MAsked' = Asked' /\ MStopped' = FALSE
        /\ MReturning' = IF pc' = "free_page" THEN {b} \ G ELSE {}
    BY <1>1, MapNext
  <1> HIDE DEF F, G, b
  <1>6. MFree = F /\ MFree' = G /\ MHeld' = MHeld /\ MAsked' = MAsked /\ MStopped' = MStopped
    BY <1>1, <1>2, <1>3, <1>4, <1>5
  <1>7. CASE b \in F
    <2>1. G = F /\ MReturning = {} /\ MReturning' = {}
      BY <1>1, <1>4, <1>5, <1>7
    <2> QED BY <1>1, <1>6, <2>1, Stutters
  <1>8. CASE b \notin F /\ G = F /\ pc' = "free_page"
    <2>1. MReturning' = MReturning
      BY <1>4, <1>5, <1>8
    <2> QED BY <1>1, <1>6, <1>8, <2>1, Stutters
  <1>9. CASE b \notin F /\ (G # F \/ pc' # "free_page")
    <2>1. MReturning = {b} /\ MReturning' = {}
      BY <1>1, <1>4, <1>5, <1>9
    <2>2. MFree' \in {MFree, MFree \cup MReturning} /\ MReturning # {}
      BY <1>1, <1>6, <2>1
    <2> QED BY <1>1, <1>6, <2>1, <2>2, BackMaps
  <1> QED BY <1>7, <1>8, <1>9

(* The end of pmm_lock_page, for the last page of a claim or another one. *)
LEMMA LockMaps ==
    ASSUME IInv, IInv', Locks, pc = "lock_page", boot \notin WholeApi
    PROVE  Steps
  <1>1. /\ boot' = boot /\ pc' \in {"idle", "lock_page"} /\ held' \cup claim' = held \cup claim
        /\ FreeOf(sections') \ Claimed' = FreeOf(sections) \ Claimed
    BY DEF Locks
  <1>2. Asked = {} /\ Asked' = {}
    BY <1>1, AskedIs
  <1>3. /\ MFree = FreeOf(sections) \ Claimed /\ MHeld = held \cup claim /\ MAsked = {}
        /\ MReturning = {} /\ MStopped = FALSE
    BY <1>2, MapNow
  <1>4. /\ MFree' = FreeOf(sections') \ Claimed' /\ MHeld' = held' \cup claim' /\ MAsked' = {}
        /\ MReturning' = {} /\ MStopped' = FALSE
    BY <1>1, <1>2, MapNext
  <1>5. /\ MFree' = MFree /\ MHeld' = MHeld /\ MAsked' = MAsked /\ MReturning' = MReturning
        /\ MStopped' = MStopped
    BY <1>1, <1>3, <1>4
  <1> QED BY <1>1, <1>5, Stutters

(* A step inside a call that neither moves a page nor ends the call. *)
LEMMA InsideMaps ==
    ASSUME IInv, IInv', boot \notin WholeApi, boot' = boot, pc' = pc, run' = run, held' = held,
           claim' = claim, FreeOf(sections') = FreeOf(sections)
    PROVE  Steps
  <1>1. Claimed' = Claimed /\ Asked' = Asked
    BY DEF Claimed, Asked
  <1>2. /\ MFree' = MFree /\ MHeld' = MHeld /\ MAsked' = MAsked /\ MReturning' = MReturning
        /\ MStopped' = MStopped
    BY <1>1, MapNow, MapNext
  <1> QED BY <1>2, Stutters

(* pmm_alloc_page. *)
LEMMA AllocPageMaps ==
    ASSUME IInv, IInv', pmm_alloc_page, boot \notin WholeApi
    PROVE  Steps
  <1>1. pc = "alloc_page" /\ claim = {} /\ Claimed = {} /\ Asked = {[kind |-> "page", pages |-> 1]}
    <2>1. pc = "alloc_page"
      BY DEF pmm_alloc_page, alloc_page_fails, alloc_page_unlinks_empty, alloc_page_skips,
             alloc_page_takes
    <2> QED BY <2>1, AskedIs DEF IInv, ClaimInv, Claimed
  <1>2. /\ MFree = FreeOf(sections) /\ MHeld = held /\ MAsked = {[kind |-> "page", pages |-> 1]}
        /\ MReturning = {} /\ MStopped = FALSE
    BY <1>1, MapNow
  <1>3. ASSUME alloc_page_fails PROVE Steps
    <2>1. /\ selected = NULL /\ pc' = "idle" /\ held' = held \cup claim /\ claim' = {}
          /\ sections' = sections /\ boot' = boot
      BY <1>3 DEF alloc_page_fails, Return
    <2>2. FreeOf(sections) = {}
      BY <1>1, <2>1 DEF IInv, SearchInv
    <2>3. Claimed' = {} /\ Asked' = {}
      BY <2>1, AskedIs DEF Claimed
    <2>4. /\ MFree' = MFree /\ MHeld' = MHeld /\ MAsked' = {} /\ MReturning' = MReturning
          /\ MStopped' = MStopped
      BY <1>1, <1>2, <2>1, <2>3, MapNext
    <2>5. ~ \E base \in MFree : base .. base + [kind |-> "page", pages |-> 1].pages - 1 \subseteq MFree
      BY <1>2, <2>2
    <2> QED BY <1>2, <2>1, <2>4, <2>5, RefuseMaps
  <1>4. ASSUME alloc_page_unlinks_empty PROVE Steps
    <2>1. selected # NULL /\ sections[selected].pages = 0
      BY <1>4 DEF alloc_page_unlinks_empty
    <2>2. CASE sections[selected].prev = NULL \/ sections[selected].next = NULL
      BY <1>1, <1>4, <2>2, HaltMaps DEF alloc_page_unlinks_empty
    <2>3. CASE ~(sections[selected].prev = NULL \/ sections[selected].next = NULL)
      <3>1. /\ sections' = UnlinkEmpty(sections, selected) /\ pc' = pc /\ run' = run
            /\ boot' = boot /\ held' = held /\ claim' = claim
        BY <1>4, <2>3, Zenon DEF alloc_page_unlinks_empty, UnlinkEmpty
      <3>2. /\ boot \in Boots /\ Top(boot) \in Int /\ BootFree(boot) \in SUBSET Int
            /\ Good(sections, Top(boot), BootFree(boot)) /\ selected \in Slot
        BY <2>1, BootOk
      <3>3. FreeOf(UnlinkEmpty(sections, selected)) = FreeOf(sections)
        BY <2>1, <2>3, <3>2, EmptyUnlinked
      <3> QED BY <3>1, <3>3, InsideMaps
    <2> QED BY <2>2, <2>3
  <1>5. ASSUME alloc_page_skips PROVE Steps
    <2>1. selected # NULL /\ Advance
      BY <1>5 DEF alloc_page_skips
    <2> QED BY <2>1, Advances, InsideMaps
  <1>6. ASSUME alloc_page_takes PROVE Steps
    <2> DEFINE R == TakeFirstPage(selected)
               q == sections[selected].start
               r == [kind |-> "page", base |-> q, pages |-> 1]
    <2>1. /\ selected # NULL /\ sections[selected].pages # 0
          /\ sections[selected].free = PMM_SECTION_FREE
      BY <1>6 DEF alloc_page_takes
    <2>2. CASE sections[selected].prev = NULL \/ R.head = NULL
      BY <1>1, <1>6, <2>2, HaltMaps DEF alloc_page_takes
    <2>3. CASE ~(sections[selected].prev = NULL \/ R.head = NULL)
      <3>1. /\ sections' = R.sec /\ pc' = "idle" /\ held' = held \cup {r}
            /\ boot' = boot /\ claim' = claim
        BY <1>6, <2>3 DEF alloc_page_takes, SetList
      <3>2. /\ boot \in Boots /\ Top(boot) \in Int /\ BootFree(boot) \in SUBSET Int
            /\ Good(sections, Top(boot), BootFree(boot)) /\ selected \in Slot
            /\ IsList(CurrentList) /\ CurrentList.sec = sections
            /\ sections \in [Slot -> pmm_section_t] /\ Linked(sections, selected)
        BY <2>1, BootOk
      <3>3. R = FirstGiven(CurrentList, selected, PMM_SECTION_USED)
        BY <3>2 DEF TakeFirstPage, FirstGiven
      <3>4. q \in Int /\ sections[selected].pages \in Nat
        BY <3>2, FieldTypes
      <3>5. q \in FreeOf(sections)
        BY <2>1, <3>2, <3>4 DEF FreeOf, Has, End
      <3>6. Pages(r) = {q} /\ r.kind = "page" /\ r.pages = 1
        BY <3>4 DEF Pages
      <3> HIDE DEF R
      <3>12. sections[selected].prev # NULL /\ R.head # NULL
        BY <2>3
      <3>13. /\ IsList(R) /\ Good(R.sec, Top(boot), BootFree(boot))
             /\ FreeOf(R.sec) = Change(FreeOf(sections), sections[selected].start, PMM_SECTION_USED)
        BY <2>1, <3>2, <3>3, <3>12, Types, FirstGivenChanges
      <3>7. FreeOf(R.sec) = FreeOf(sections) \ {q}
        BY <3>13, Types DEF Change
      <3> HIDE DEF r, q
      <3>8. Claimed' = {} /\ Asked' = {}
        BY <1>1, <3>1, AskedIs DEF Claimed
      <3>9. /\ MFree' = MFree \ Pages(r) /\ MHeld' = MHeld \cup {r} /\ MAsked' = {}
            /\ MReturning' = MReturning /\ MStopped' = MStopped
        BY <1>1, <1>2, <3>1, <3>6, <3>7, <3>8, MapNext
      <3>10. Pages(r) \subseteq MFree /\ r \in MHeld'
        BY <1>2, <3>5, <3>6, <3>9
      <3>11. PICK c \in MAsked : c.kind = "page" /\ c.pages = 1
        BY <1>2
      <3> QED BY <3>1, <3>6, <3>9, <3>10, <3>11, GrantMaps
    <2> QED BY <2>2, <2>3
  <1> QED BY <1>3, <1>4, <1>5, <1>6 DEF pmm_alloc_page

(* pmm_alloc_pool. *)
LEMMA AllocPoolMaps ==
    ASSUME IInv, IInv', pmm_alloc_pool, boot \notin WholeApi
    PROVE  Steps
  <1> DEFINE c == [kind |-> "pool", pages |-> run.left]
  <1>1. pc = "alloc_pool" /\ claim = {} /\ Claimed = {} /\ Asked = {c}
    <2>1. pc = "alloc_pool"
      BY DEF pmm_alloc_pool, alloc_pool_skips, alloc_pool_finds, alloc_pool_fails
    <2> QED BY <2>1, AskedIs DEF IInv, ClaimInv, Claimed
  <1>2. /\ MFree = FreeOf(sections) /\ MHeld = held /\ MAsked = {c}
        /\ MReturning = {} /\ MStopped = FALSE
    BY <1>1, MapNow
  <1>3. c.kind = "pool" /\ c.pages = run.left
    OBVIOUS
  <1> HIDE DEF c
  <1>4. ASSUME alloc_pool_skips PROVE Steps
    <2>1. selected # NULL /\ Advance
      BY <1>4 DEF alloc_pool_skips
    <2> QED BY <2>1, Advances, InsideMaps
  <1>5. ASSUME alloc_pool_fails PROVE Steps
    <2>1. /\ selected = NULL /\ pc' = "recombine" /\ sections' = sections /\ boot' = boot
          /\ held' = held /\ claim' = claim
      BY <1>5 DEF alloc_pool_fails
    <2>2. \A p \in FreeOf(sections) : ~(p .. p + run.left - 1 \subseteq FreeOf(sections))
      BY <1>1, <2>1 DEF IInv, SearchInv
    <2>3. Claimed' = {} /\ Asked' = {}
      BY <1>1, <2>1, AskedIs DEF Claimed
    <2>4. /\ MFree' = MFree /\ MHeld' = MHeld /\ MAsked' = {} /\ MReturning' = MReturning
          /\ MStopped' = MStopped
      BY <1>1, <1>2, <2>1, <2>3, MapNext
    <2>5. ~ \E base \in MFree : base .. base + c.pages - 1 \subseteq MFree
      BY <1>2, <1>3, <2>2
    <2> QED BY <1>2, <2>1, <2>4, <2>5, RefuseMaps
  <1>6. ASSUME alloc_pool_finds PROVE Steps
    <2> DEFINE q == sections[selected].start
               r == [kind |-> "pool", base |-> q, pages |-> run.left]
    <2>1. /\ selected # NULL /\ Fits(selected) /\ sections' = sections /\ boot' = boot
      BY <1>6 DEF alloc_pool_finds
    <2>2. IF run.left = 0
          THEN pc' = "idle" /\ held' = held \cup {r} /\ claim' = claim
          ELSE pc' = "lock_page" /\ claim' = {r} /\ held' = held
      BY <1>6 DEF alloc_pool_finds
    <2>3. /\ selected \in Slot /\ sections \in [Slot -> pmm_section_t] /\ Linked(sections, selected)
      BY <2>1, BootOk
    <2>4. q \in Int /\ sections[selected].pages \in Nat /\ run.left \in Nat
      BY <1>1, <2>3, FieldTypes DEF IInv, SearchInv
    <2>5. Pages(r) = q .. q + run.left - 1 /\ r.kind = "pool" /\ r.pages = run.left
      BY DEF Pages
    <2>6. q .. q + run.left - 1 \subseteq FreeOf(sections)
      BY <2>1, <2>3, <2>4 DEF FreeOf, Has, End, Fits
    <2> HIDE DEF r, q
    <2>7. held' \cup claim' = held \cup {r} /\ pc' \in {"idle", "lock_page"}
      BY <1>1, <2>2
    <2>8. FreeOf(sections') \ Claimed' = FreeOf(sections) \ Pages(r)
      <3>1. CASE run.left = 0
        <4>1. Pages(r) = {}
          BY <2>4, <2>5, <3>1
        <4>2. Claimed' = {}
          BY <1>1, <2>2, <3>1 DEF Claimed
        <4> QED BY <2>1, <4>1, <4>2
      <3>2. CASE run.left # 0
        <4>1. Claimed' = Pages(r)
          BY <2>2, <3>2 DEF Claimed, Pages
        <4> QED BY <2>1, <4>1
      <3> QED BY <3>1, <3>2
    <2>9. Asked' = {}
      BY <2>7, AskedIs
    <2>10. /\ MFree' = MFree \ Pages(r) /\ MHeld' = MHeld \cup {r} /\ MAsked' = {}
           /\ MReturning' = MReturning /\ MStopped' = MStopped
      BY <1>2, <2>1, <2>7, <2>8, <2>9, MapNext
    <2>11. Pages(r) \subseteq MFree /\ r \in MHeld'
      BY <1>2, <2>5, <2>6, <2>10
    <2> QED BY <1>2, <1>3, <2>1, <2>5, <2>10, <2>11, GrantMaps
  <1> QED BY <1>4, <1>5, <1>6 DEF pmm_alloc_pool

(* The passes of pmm_recombine. *)
LEMMA RecombineMaps ==
    ASSUME IInv, IInv', pmm_recombine, boot \notin WholeApi
    PROVE  Steps
  <1>1. pc = "recombine" /\ claim = {} /\ Claimed = {} /\ Asked = {}
    <2>1. pc = "recombine"
      BY DEF pmm_recombine, recombine_pass_ends, recombine_skips, recombine_merges
    <2> QED BY <2>1, AskedIs DEF IInv, ClaimInv, Claimed
  <1>2. ASSUME recombine_pass_ends PROVE Steps
    <2>1. CASE detected = 0
      <3>1. /\ pc' = "idle" /\ held' = held \cup claim /\ claim' = {}
            /\ sections' = sections /\ boot' = boot
        BY <1>2, <2>1 DEF recombine_pass_ends, Return
      <3>2. Claimed' = {} /\ Asked' = {}
        BY <3>1, AskedIs DEF Claimed
      <3>3. /\ MFree' = MFree /\ MHeld' = MHeld /\ MAsked' = MAsked /\ MReturning' = MReturning
            /\ MStopped' = MStopped
        BY <1>1, <3>1, <3>2, MapNow, MapNext
      <3> QED BY <3>1, <3>3, Stutters
    <2>2. CASE detected # 0
      BY <1>2, <2>2, InsideMaps DEF recombine_pass_ends
    <2> QED BY <2>1, <2>2
  <1>3. ASSUME recombine_skips PROVE Steps
    <2>1. selected # NULL /\ Advance
      BY <1>3 DEF recombine_skips
    <2> QED BY <2>1, Advances, InsideMaps
  <1>4. ASSUME recombine_merges PROVE Steps
    <2>1. /\ selected # NULL /\ sections[selected].next # NULL
          /\ sections[selected].free = sections[sections[selected].next].free
          /\ sections' = CombinePrev(sections, sections[selected].next)
          /\ pc' = pc /\ run' = run /\ boot' = boot /\ held' = held /\ claim' = claim
      BY <1>4 DEF recombine_merges
    <2>2. /\ Good(sections, Top(boot), BootFree(boot)) /\ selected \in Slot
          /\ Top(boot) \in Int /\ BootFree(boot) \in SUBSET (0 .. Top(boot) - 1)
          /\ BootFree(boot) # {}
      BY <2>1, BootOk
    <2> DEFINE S == CombinePrev(sections, sections[selected].next)
    <2>3. FreeOf(S) = FreeOf(sections)
      BY <2>1, <2>2, Merged
    <2> HIDE DEF S
    <2>4. FreeOf(sections') = FreeOf(sections)
      BY <2>1, <2>3 DEF S
    <2> QED BY <2>1, <2>4, InsideMaps
  <1> QED BY <1>2, <1>3, <1>4 DEF pmm_recombine

(* The calls of the kernel.  What is handed back was not free: that is where   *)
(* the ownership PageSet keeps is needed.                                  *)
LEMMA CallMaps ==
    ASSUME IInv, IInv', KernelCall, boot \notin WholeApi, PageSet!OwnedApart
    PROVE  Steps
  <1>1. pc = "idle" /\ claim = {} /\ Claimed = {} /\ Asked = {}
    <2>1. pc = "idle"
      BY DEF KernelCall, alloc_page_call, free_page_call, alloc_pool_call
    <2> QED BY <2>1, AskedIs DEF IInv, ClaimInv, Claimed
  <1>2. /\ MFree = FreeOf(sections) /\ MHeld = held /\ MAsked = {} /\ MReturning = {}
        /\ MStopped = FALSE
    BY <1>1, MapNow
  <1>3. ASSUME alloc_page_call PROVE Steps
    <2>1. pc' = "alloc_page" /\ sections' = sections /\ boot' = boot /\ held' = held /\ claim' = claim
      BY <1>3 DEF alloc_page_call
    <2> DEFINE r == [kind |-> "page", pages |-> 1]
    <2>2. r \in [kind : {"page"}, pages : {1}]
      OBVIOUS
    <2>3. Claimed' = {} /\ Asked' = {r}
      BY <1>1, <2>1, AskedIs DEF Claimed
    <2> HIDE DEF r
    <2>4. /\ MFree' = MFree /\ MHeld' = MHeld /\ MAsked' = {r} /\ MReturning' = MReturning
          /\ MStopped' = MStopped
      BY <1>1, <1>2, <2>1, <2>3, MapNext
    <2> QED BY <1>2, <2>1, <2>2, <2>4, AskMaps
  <1>4. ASSUME alloc_pool_call PROVE Steps
    <2>1. pc' = "alloc_pool" /\ sections' = sections /\ boot' = boot /\ held' = held /\ claim' = claim
      BY <1>4 DEF alloc_pool_call
    <2>2. PICK count \in 0 .. MaxRequest : run' = [base |-> 0, left |-> count]
      BY <1>4 DEF alloc_pool_call
    <2> DEFINE r == [kind |-> "pool", pages |-> count]
    <2>3. r \in [kind : {"pool"}, pages : 0 .. MaxRequest]
      OBVIOUS
    <2>4. Claimed' = {} /\ Asked' = {r}
      BY <1>1, <2>1, <2>2, AskedIs DEF Claimed
    <2> HIDE DEF r
    <2>5. /\ MFree' = MFree /\ MHeld' = MHeld /\ MAsked' = {r} /\ MReturning' = MReturning
          /\ MStopped' = MStopped
      BY <1>1, <1>2, <2>1, <2>4, MapNext
    <2> QED BY <1>2, <2>1, <2>3, <2>5, AskMaps
  <1>5. ASSUME free_page_call PROVE Steps
    <2>1. pc' = "free_page" /\ sections' = sections /\ boot' = boot /\ claim' = claim
      BY <1>5 DEF free_page_call
    <2>2. PICK r \in held : /\ r.kind = "page" /\ held' = held \ {r}
                            /\ run' = [base |-> r.base, left |-> 1]
      BY <1>5 DEF free_page_call
    <2>3. r.pages = 1 /\ r.base \in Int
      BY <2>2 DEF IInv, ClaimInv, TypeOK, Run
    <2>4. Pages(r) = {r.base} /\ run'.base = r.base
      BY <2>2, <2>3 DEF Pages
    <2>5. r.base \notin FreeOf(sections)
      <3>1. \A t \in MHeld : PageSet!Pages(t) \cap MFree = {}
        BY DEF PageSet!OwnedApart, MHeld, MFree
      <3>2. PageSet!Pages(r) = Pages(r)
        BY DEF PageSet!Pages, Pages
      <3> QED BY <1>2, <2>2, <2>4, <3>1, <3>2
    <2>6. Claimed' = {} /\ Asked' = {}
      BY <1>1, <2>1, AskedIs DEF Claimed
    <2>7. /\ MFree' = MFree /\ MHeld' = MHeld \ {r} /\ MAsked' = MAsked /\ MReturning' = Pages(r)
          /\ MStopped' = MStopped
      <3>1. /\ MFree' = FreeOf(sections') \ Claimed' /\ MHeld' = held' \cup claim'
            /\ MAsked' = Asked' /\ MStopped' = (pc' = "halted")
            /\ MReturning' = {run'.base} \ FreeOf(sections')
        BY <2>1, MapNext
      <3>2. MFree' = MFree /\ MAsked' = MAsked
        BY <1>2, <2>1, <2>6, <3>1
      <3>3. MHeld' = MHeld \ {r}
        BY <1>1, <1>2, <2>1, <2>2, <3>1
      <3>4. MReturning' = Pages(r)
        BY <2>1, <2>4, <2>5, <3>1
      <3>5. MStopped' = MStopped
        BY <1>2, <2>1, <3>1
      <3> QED BY <3>2, <3>3, <3>4, <3>5
    <2> QED BY <1>2, <2>1, <2>2, <2>7, HandBackMaps
  <1> QED BY <1>3, <1>4, <1>5 DEF KernelCall

(* The list pmm_start leaves is an initial state of PageSet. *)
LEMMA InitMaps == Init => PageSet!Init
  <1> SUFFICES ASSUME Init PROVE PageSet!Init
    OBVIOUS
  <1>1. /\ boot \in Boots /\ sections = BootSections(boot) /\ pc = "lock_page"
        /\ held = {} /\ claim = {DataRun}
    BY DEF Init, DataRun
  <1>2. IInv
    BY InitOk
  <1>3. FreeOf(sections) = BootFree(boot)
    BY <1>1, BootGood
  <1>4. DataRun.kind = "data" /\ Pages(DataRun) \subseteq BootFree(boot)
    BY <1>1, BootMemory DEF DataRun, Pages
  <1>5. MFree = BootFree(boot) \ Pages(DataRun) /\ MHeld = {DataRun} /\ MAsked = {}
        /\ MReturning = {} /\ MStopped = FALSE
    <2>1. CASE boot \in WholeApi
      BY <2>1 DEF MFree, MHeld, MAsked, MReturning, MStopped, AsKernel
    <2>2. CASE boot \notin WholeApi
      <3>1. Claimed = Pages(DataRun) /\ Asked = {}
        BY <1>1, AskedIs DEF Claimed
      <3> QED BY <1>1, <1>2, <1>3, <2>2, <3>1, MapNow
    <2> QED BY <2>1, <2>2
  <1>6. PageSet!Pages(DataRun) = Pages(DataRun)
    BY DEF PageSet!Pages, Pages
  <1> HIDE DEF DataRun
  <1> QED BY <1>4, <1>5, <1>6 DEF PageSet!Init, MFree, MHeld, MAsked, MReturning, MStopped

(* The machine is the same for ever. *)
LEMMA SameMachine == [Next]_vars => boot' = boot
  BY DEF Next, Running, KernelCall, OtherCall, vars, alloc_page_call, free_page_call,
         alloc_pool_call, free_pool_call, lock_pages_call, unlock_pages_call,
         scan_faults, Halt, pmm_alloc_page, alloc_page_fails, alloc_page_unlinks_empty,
         alloc_page_skips, alloc_page_takes, Advance, ContinueWith, ReturnWith,
         pmm_free_page, free_page_at_start, free_page_in_middle, free_page_skips,
         free_page_ends, pmm_lock_page, lock_page_whole, lock_page_at_start,
         lock_page_in_middle, lock_page_skips, lock_page_ends, pmm_recombine,
         recombine_pass_ends, recombine_skips, recombine_merges, pmm_alloc_pool,
         alloc_pool_skips, alloc_pool_finds, alloc_pool_fails

(* Every step is one of PageSet, or one it does not see. *)
LEMMA NextMaps ==
    ASSUME IInv, IInv', [Next]_vars, PageSet!OwnedApart
    PROVE  Steps
  <1>1. boot' = boot
    BY SameMachine
  <1>2. CASE boot \in WholeApi
    BY <1>1, <1>2, OthersStutter
  <1>3. CASE boot \notin WholeApi
    <2>1. CASE pmm_alloc_page
      BY <1>3, <2>1, AllocPageMaps
    <2>2. CASE pmm_free_page
      <3>1. pc = "free_page"
        BY <2>2 DEF pmm_free_page, free_page_at_start, free_page_in_middle, free_page_skips,
                    free_page_ends
      <3> QED BY <1>3, <2>2, <3>1, FreePageStep, HaltMaps, FreeMaps
    <2>3. CASE pmm_lock_page
      <3>1. pc = "lock_page"
        BY <2>3 DEF pmm_lock_page, lock_page_whole, lock_page_at_start, lock_page_in_middle,
                    lock_page_skips, lock_page_ends
      <3> QED BY <1>3, <2>3, <3>1, LockPageStep, HaltMaps, LockMaps
    <2>4. CASE scan_faults
      BY <1>3, <2>4, HaltMaps DEF scan_faults
    <2>5. CASE pmm_recombine
      BY <1>3, <2>5, RecombineMaps
    <2>6. CASE pmm_alloc_pool
      BY <1>3, <2>6, AllocPoolMaps
    <2>7. CASE KernelCall
      BY <1>3, <2>7, CallMaps
    <2>8. CASE UNCHANGED vars
      BY <1>1, <1>3, <2>8, InsideMaps DEF vars
    <2> QED BY <1>3, <2>1, <2>2, <2>3, <2>4, <2>5, <2>6, <2>7, <2>8 DEF Next, Running
  <1> QED BY <1>2, <1>3

(* The page allocator is a set of free pages: it hands out only what is free,  *)
(* refuses only when nothing fits, frees only what its owner hands back, and *)
(* no split, merge or pass of pmm_recombine in between shows.               *)
THEOREM Implements == Spec => ImplementsPageSet
  <1>1. Init => PageSet!Init /\ IInv /\ PageSet!OwnedApart
    <2>1. PageSet!Init => PageSet!OwnedApart
      BY Owners!InitOwnedApart DEF PageSet!Init, Owners!Init, PageSet!OwnedApart,
         Owners!OwnedApart, PageSet!Pages, Owners!Pages
    <2> QED BY <2>1, InitOk, InitMaps
  <1>2. IInv /\ PageSet!OwnedApart /\ [Next]_vars =>
          IInv' /\ PageSet!OwnedApart' /\ [PageSet!Next]_(PageSet!vars)
    <2> SUFFICES ASSUME IInv, PageSet!OwnedApart, [Next]_vars
                 PROVE  IInv' /\ PageSet!OwnedApart' /\ [PageSet!Next]_(PageSet!vars)
      OBVIOUS
    <2>1. IInv'
      BY NextOk
    <2>2. [PageSet!Next]_(PageSet!vars)
      BY <2>1, NextMaps DEF Steps
    <2>3. PageSet!OwnedApart /\ [PageSet!Next]_(PageSet!vars) => PageSet!OwnedApart'
      BY Owners!NextOwnedApart
         DEF PageSet!Next, Owners!Next, PageSet!vars, Owners!vars, PageSet!Pages, Owners!Pages,
             PageSet!OwnedApart, Owners!OwnedApart, PageSet!Request, Owners!Request,
             PageSet!Idle, Owners!Idle, PageSet!ask, Owners!ask, PageSet!grant, Owners!grant,
             PageSet!refuse, Owners!refuse, PageSet!hand_back, Owners!hand_back,
             PageSet!becomes_free, Owners!becomes_free, PageSet!forgotten, Owners!forgotten,
             PageSet!stops, Owners!stops
    <2> QED BY <2>1, <2>2, <2>3
  <1> QED BY <1>1, <1>2, PTL DEF Spec, ImplementsPageSet, PageSet!Spec

(* What follows for the callers, see PageSetProofs: no page has two owners, no *)
(* page somebody owns is free, and nobody owns what the boot map keeps.      *)
NoPageOwnedTwice ==
    boot \notin WholeApi =>
        \A r \in held \cup claim :
            /\ Pages(r) \subseteq BootFree(boot)
            /\ Pages(r) \cap (FreePages \ Claimed) = {}
            /\ \A s \in held \cup claim : r # s => Pages(r) \cap Pages(s) = {}

(* What PageSet promises its callers holds of the allocator. *)
LEMMA OwnersApart == Spec => []Owners!OwnedApart
  <1>1. Spec => Owners!Spec
    <2>1. Spec => PageSet!Spec
      BY Implements DEF ImplementsPageSet
    <2>2. PageSet!Init => Owners!Init
      BY DEF PageSet!Init, Owners!Init, PageSet!Pages, Owners!Pages
    <2>3. [PageSet!Next]_(PageSet!vars) => [Owners!Next]_(Owners!vars)
      BY DEF PageSet!Next, Owners!Next, PageSet!vars, Owners!vars, PageSet!Pages,
           Owners!Pages, PageSet!Request, Owners!Request,
           PageSet!Idle, Owners!Idle, PageSet!ask, Owners!ask, PageSet!grant, Owners!grant,
           PageSet!refuse, Owners!refuse, PageSet!hand_back, Owners!hand_back,
           PageSet!becomes_free, Owners!becomes_free, PageSet!forgotten, Owners!forgotten,
           PageSet!stops, Owners!stops
    <2> QED BY <2>1, <2>2, <2>3, PTL DEF PageSet!Spec, Owners!Spec
  <1> QED BY <1>1, Owners!PagesApart, PTL

(* pmm_alloc_page and pmm_alloc_pool never hand out a page that has an owner,  *)
(* whatever was split, merged, freed and allocated before.                  *)
THEOREM PagesHaveOneOwner == Spec => []NoPageOwnedTwice
  <1>1. Owners!OwnedApart => NoPageOwnedTwice
    <2> SUFFICES ASSUME Owners!OwnedApart, boot \notin WholeApi PROVE NoPageOwnedTwice
      BY DEF NoPageOwnedTwice
    <2>1. AsKernel
      BY DEF AsKernel
    <2> QED BY <2>1, Zenon DEF Owners!OwnedApart, Owners!Pages, NoPageOwnedTwice, Pages
  <1> QED BY <1>1, OwnersApart, PTL

-----------------------------------------------------------------------------
(* Where the machine may stop in the allocator.  A list that ends with device *)
(* memory goes on doing so, whatever happens to it: the calls of the kernel  *)
(* change the type of no such section.                                      *)
EndsBad(sec) ==
    \A s \in Slot : Linked(sec, s) /\ sec[s].next = NULL => sec[s].free = PMM_SECTION_BAD

(* A division leaves the last section its type, *)
LEMMA DividedEnd ==
    ASSUME NEW sec, NEW S, NEW top \in Int, Chained(sec, top), EndsBad(sec),
           NEW t \in Slot, Linked(sec, t), NEW n \in Slot \ {t}, NEW at, Divided(sec, S, t, at, n)
    PROVE  EndsBad(S)
  <1> SUFFICES ASSUME NEW s \in Slot, Linked(S, s), S[s].next = NULL
               PROVE  S[s].free = PMM_SECTION_BAD
    BY DEF EndsBad
  <1>1. s # t
    BY Slots DEF Divided
  <1>2. CASE s = n
    BY <1>2 DEF Divided, EndsBad
  <1>3. CASE s # n
    <2>1. /\ S[s].free = sec[s].free /\ sec[s].next = NULL
          /\ S[s].prev = IF s = sec[t].next THEN n ELSE sec[s].prev
      BY <1>1, <1>3 DEF Divided, Same
    <2>2. Linked(sec, s)
      <3>1. CASE s = sec[t].next
        BY <3>1, Neighbours, Slots
      <3>2. CASE s # sec[t].next
        BY <2>1, <3>2 DEF Linked
      <3> QED BY <3>1, <3>2
    <2> QED BY <2>1, <2>2 DEF EndsBad
  <1> QED BY <1>2, <1>3

(* so does a merge into the next section, *)
LEMMA NextSwallowsEnd ==
    ASSUME NEW sec, NEW S, NEW top \in Int, Chained(sec, top), EndsBad(sec),
           NEW t \in Slot, sec[t].next # NULL, NextSwallows(sec, S, t)
    PROVE  EndsBad(S)
  <1> DEFINE n == sec[t].next
  <1> SUFFICES ASSUME NEW s \in Slot, Linked(S, s), S[s].next = NULL
               PROVE  S[s].free = PMM_SECTION_BAD
    BY DEF EndsBad
  <1>1. n \in Slot /\ Linked(sec, n)
    BY Neighbours
  <1>2. s # t
    BY DEF NextSwallows, Linked, Unlinked
  <1>3. CASE s = n
    BY <1>1, <1>3 DEF NextSwallows, EndsBad
  <1>4. CASE s # n
    <2>1. /\ S[s].free = sec[s].free /\ S[s].prev = sec[s].prev
          /\ S[s].next = IF s = sec[t].prev THEN n ELSE sec[s].next
      BY <1>2, <1>4 DEF NextSwallows, Same
    <2>2. sec[s].next = NULL
      BY <2>1
    <2> QED BY <2>1, <2>2 DEF EndsBad, Linked
  <1> QED BY <1>3, <1>4

(* and one into the section before of the same type, *)
LEMMA PrevSwallowsEnd ==
    ASSUME NEW sec, NEW S, NEW top \in Int, Chained(sec, top), EndsBad(sec),
           NEW t \in Slot, sec[t].prev # NULL, sec[t].free = sec[sec[t].prev].free,
           PrevSwallows(sec, S, t)
    PROVE  EndsBad(S)
  <1> DEFINE p == sec[t].prev
  <1> SUFFICES ASSUME NEW s \in Slot, Linked(S, s), S[s].next = NULL
               PROVE  S[s].free = PMM_SECTION_BAD
    BY DEF EndsBad
  <1>1. p \in Slot /\ Linked(sec, t)
    BY Neighbours DEF Linked
  <1>2. s # t
    BY DEF PrevSwallows, Linked, Unlinked
  <1>3. CASE s = p
    BY <1>1, <1>3 DEF PrevSwallows, EndsBad
  <1>4. CASE s # p
    <2>1. /\ S[s].free = sec[s].free /\ S[s].next = sec[s].next
          /\ S[s].prev = IF s = sec[t].next THEN p ELSE sec[s].prev
      BY <1>2, <1>4 DEF PrevSwallows, Same
    <2>2. Linked(sec, s)
      <3>1. CASE s = sec[t].next
        BY <3>1, Neighbours, Slots
      <3>2. CASE s # sec[t].next
        BY <2>1, <3>2 DEF Linked
      <3> QED BY <3>1, <3>2
    <2> QED BY <2>1, <2>2 DEF EndsBad
  <1> QED BY <1>3, <1>4

(* and a border that moves. *)
LEMMA BorderMovedEnd ==
    ASSUME NEW sec, NEW S, EndsBad(sec), NEW a, NEW b, NEW cut, BorderMoved(sec, S, a, b, cut)
    PROVE  EndsBad(S)
  BY DEF EndsBad, BorderMoved, Linked

(* A section that is not bad is not the last one. *)
LEMMA RetypedEnd ==
    ASSUME NEW sec, NEW S, EndsBad(sec), NEW t \in Slot, sec[t].free # PMM_SECTION_BAD,
           NEW type, Retyped(sec, S, t, type)
    PROVE  EndsBad(S)
  <1> SUFFICES ASSUME NEW s \in Slot, Linked(S, s), S[s].next = NULL
               PROVE  S[s].free = PMM_SECTION_BAD
    BY DEF EndsBad
  <1>1. Linked(sec, s) /\ sec[s].next = NULL
    BY DEF Retyped, Linked
  <1>2. s # t
    BY <1>1 DEF EndsBad
  <1> QED BY <1>1, <1>2 DEF Retyped, EndsBad

(* The first page given or cut off.  What is left of the section starts one   *)
(* page later, under the old header or a new one.                          *)
LEMMA FirstGivenEnd ==
    ASSUME NEW L, IsList(L), NEW top \in Int, NEW ram, Good(L.sec, top, ram),
           NEW s \in Slot, L.sec[s].prev # NULL, L.sec[s].pages # 0,
           L.sec[s].free # PMM_SECTION_BAD, NEW type \in {PMM_SECTION_USED, PMM_SECTION_FREE},
           NEW R, R = FirstGiven(L, s, type), R.head # NULL
    PROVE  /\ EndsBad(L.sec) => EndsBad(R.sec)
           /\ L.sec[s].pages # 1 =>
                \E u \in Slot : /\ Linked(R.sec, u) /\ R.sec[u].free = L.sec[s].free
                                /\ R.sec[u].start = L.sec[s].start + 1
                                /\ R.sec[u].pages = L.sec[s].pages - 1
  <1> DEFINE a  == L.sec[s].prev
             at == L.sec[s].start + 1
             D  == pmm_section_split(L, s, at)
             Rest(sec) == L.sec[s].pages # 1 =>
                \E u \in Slot : /\ Linked(sec, u) /\ sec[u].free = L.sec[s].free
                                /\ sec[u].start = at /\ sec[u].pages = L.sec[s].pages - 1
  <1>1. /\ Chained(L.sec, top) /\ Shape(L.sec, top) /\ Tidy(L.sec)
        /\ L.sec \in [Slot -> pmm_section_t] /\ L = [sec |-> L.sec, head |-> L.head]
        /\ L.head \in 0 .. NSlots
    BY DEF Good, Shape, Chained, IsList
  <1>2. a \in Slot \ {s} /\ L.sec[s].start = End(L.sec, a) /\ Linked(L.sec, s)
    BY <1>1, Neighbours, Distinct DEF Linked
  <1>3. L.sec[s].start \in Int /\ L.sec[s].pages \in Nat /\ at \in Int /\ L.sec[s].start <= at
        /\ (L.sec[s].pages # 1 => at < End(L.sec, s))
        /\ (L.sec[s].pages = 1 => at >= End(L.sec, s))
        /\ End(L.sec, s) - at = L.sec[s].pages - 1
    BY <1>1, FieldTypes DEF End
  <1>4. CASE L.sec[a].free = type
    <2> DEFINE S == GiveFirstPage(L.sec, s)
    <2>1. BorderMoved(L.sec, S, a, s, at)
      BY <1>1, <1>2, GiveFirstMoves
    <2>2. R = [L EXCEPT !.sec = S]
      BY <1>4 DEF FirstGiven
    <2> HIDE DEF S
    <2>3. R.sec = S
      BY <1>1, <2>2
    <2>4. EndsBad(L.sec) => EndsBad(S)
      BY <2>1, BorderMovedEnd
    <2>5. Linked(S, s) /\ S[s].free = L.sec[s].free /\ S[s].start = at
          /\ S[s].pages = L.sec[s].pages - 1
      BY <1>2, <1>3, <2>1 DEF BorderMoved, Linked
    <2> QED BY <2>3, <2>4, <2>5
  <1>5. CASE L.sec[a].free # type
    <2>1. R = SetType(D, s, type) /\ type \in Type
      BY <1>5, Types DEF FirstGiven
    <2>2. D.head # NULL
      <3>1. SUFFICES ASSUME D.head = NULL PROVE FALSE
        OBVIOUS
      <3>2. D = [sec |-> L.sec, head |-> NULL]
        BY <1>3, <3>1, SplitOtherwise
      <3> HIDE DEF D
      <3>3. D.sec = L.sec /\ D.head = NULL
        BY <3>2
      <3>4. D = [sec |-> D.sec, head |-> D.head]
        BY <3>2, <3>3
      <3> QED BY <1>1, <2>1, <3>3, <3>4, SetTypeRetypes
    <2>3. CASE L.sec[s].pages = 1
      <3>1. D = L
        BY <1>3, <2>3, SplitOtherwise
      <3> HIDE DEF D
      <3>2. Retyped(L.sec, R.sec, s, type)
        BY <1>1, <2>1, <3>1, SetTypeRetypes
      <3> QED BY <2>3, <3>2, RetypedEnd
    <2>4. CASE L.sec[s].pages # 1
      <3>1. IsList(D) /\ \E n \in Slot \ {s} : ~Linked(L.sec, n) /\ Divided(L.sec, D.sec, s, at, n)
        BY <1>1, <1>2, <1>3, <2>2, <2>4, SplitDone
      <3> HIDE DEF D
      <3>2. PICK n \in Slot \ {s} : ~Linked(L.sec, n) /\ Divided(L.sec, D.sec, s, at, n)
        BY <3>1
      <3>3. D.sec \in [Slot -> pmm_section_t] /\ D = [sec |-> D.sec, head |-> D.head]
        BY <3>1, <3>2 DEF Divided, IsList
      <3>4. Retyped(D.sec, R.sec, s, type)
        BY <2>1, <3>3, SetTypeRetypes
      <3>5. D.sec[s].free # PMM_SECTION_BAD
        BY <3>2 DEF Divided
      <3>6. EndsBad(L.sec) => EndsBad(R.sec)
        <4>1. EndsBad(L.sec) => EndsBad(D.sec)
          BY <1>1, <1>2, <3>2, DividedEnd
        <4> QED BY <3>4, <3>5, <4>1, RetypedEnd
      <3>7. /\ D.sec[n].prev = s /\ D.sec[n].free = L.sec[s].free /\ D.sec[n].start = at
            /\ D.sec[n].pages = L.sec[s].pages - 1
        BY <1>3, <3>2 DEF Divided
      <3>8. /\ R.sec[n].prev = s /\ R.sec[n].free = L.sec[s].free /\ R.sec[n].start = at
            /\ R.sec[n].pages = L.sec[s].pages - 1
        BY <3>4, <3>7 DEF Retyped
      <3>9. Linked(R.sec, n)
        BY <3>8, Slots DEF Linked
      <3> QED BY <3>6, <3>8, <3>9
    <2> QED BY <2>3, <2>4
  <1> QED BY <1>4, <1>5

-----------------------------------------------------------------------------
(* pmm_section_split faults for want of a header only.                      *)
LEMMA SplitFaults ==
    ASSUME NEW L, IsList(L), NEW t \in Slot, NEW at \in Int,
           NEW R, R = pmm_section_split(L, t, at), R.head = NULL
    PROVE  pmm_new_section(L) = NULL /\ R = [sec |-> L.sec, head |-> NULL]
  <1>1. L.head # NULL /\ L.head \in 0 .. NSlots
    BY Slots DEF IsList
  <1>2. R = [sec |-> L.sec, head |-> NULL]
    BY SplitOtherwise
  <1>3. ASSUME pmm_new_section(L) # NULL PROVE FALSE
    <2>1. pmm_new_section(L) \in Nat
      BY <1>1, <1>3, NewSectionUnlinked, Slots
    <2>2. at >= End(L.sec, t) => R = L
      BY SplitOtherwise
    <2>3. ~(at >= End(L.sec, t)) =>
            R = [sec |-> SplitInto(L.sec, t, at, pmm_new_section(L)),
                 head |-> pmm_new_section(L) + 1]
      BY <1>3 DEF pmm_section_split
    <2>4. R.head = L.head \/ R.head = pmm_new_section(L) + 1
      BY <2>2, <2>3
    <2>5. pmm_new_section(L) + 1 # NULL
      BY <2>1 DEF NULL
    <2> QED BY <1>1, <2>4, <2>5
  <1> QED BY <1>2, <1>3

(* The first page of a section: the same. *)
LEMMA FirstGivenFaults ==
    ASSUME NEW L, IsList(L), L.sec \in [Slot -> pmm_section_t], NEW s \in Slot, NEW type \in Type,
           NEW R, R = FirstGiven(L, s, type), R.head = NULL
    PROVE  pmm_new_section(L) = NULL
  <1> DEFINE at == L.sec[s].start + 1
             D  == pmm_section_split(L, s, at)
             S  == GiveFirstPage(L.sec, s)
  <1>1. L = [sec |-> L.sec, head |-> L.head] /\ L.head # NULL /\ at \in Int
    BY Slots, FieldTypes DEF IsList
  <1>2. CASE L.sec[L.sec[s].prev].free = type
    <2>1. R = [L EXCEPT !.sec = S]
      BY <1>2 DEF FirstGiven
    <2> HIDE DEF S
    <2> QED BY <1>1, <2>1
  <1>3. CASE L.sec[L.sec[s].prev].free # type
    <2>1. R = SetType(D, s, type)
      BY <1>3 DEF FirstGiven
    <2>2. ASSUME D.head # NULL PROVE FALSE
      <3>1. D = [sec |-> D.sec, head |-> D.head] \/ D = L
        <4>1. D = IF at >= End(L.sec, s) THEN L
                  ELSE IF pmm_new_section(L) = NULL THEN Faulted(L)
                  ELSE [sec |-> SplitInto(L.sec, s, at, pmm_new_section(L)),
                        head |-> pmm_new_section(L) + 1]
          BY DEF pmm_section_split
        <4>2. Faulted(L).head = NULL
          <5>1. Faulted(L) = [L EXCEPT !.head = NULL]
            BY DEF Faulted
          <5> QED BY <1>1, <5>1
        <4> HIDE DEF D, at
        <4> QED BY <2>2, <4>1, <4>2
      <3> HIDE DEF D
      <3>2. D = [sec |-> D.sec, head |-> D.head]
        BY <1>1, <3>1
      <3>3. R.head = D.head
        BY <2>1, <3>2 DEF SetType
      <3> QED BY <2>2, <3>3
    <2> QED BY <1>1, <2>2, SplitFaults
  <1> QED BY <1>2, <1>3

(* No header is found when the bump index is at the end of the array, or all  *)
(* headers are in use.                                                     *)
LEMMA NoHeader ==
    ASSUME IInv, pmm_new_section(CurrentList) = NULL
    PROVE  NoHeaderLeft
  <1> SUFFICES ASSUME ~(section_head >= NSlots), NEW s \in Slot, ~Linked(sections, s)
               PROVE  FALSE
    BY DEF NoHeaderLeft
  <1> DEFINE T == {t \in Slot : ~Linked(sections, t)}
             r == CHOOSE t \in Slot : /\ ~Linked(sections, t)
                                      /\ \A k \in Slot : k < t => Linked(sections, k)
  <1>1. CurrentList.sec = sections /\ CurrentList.head = section_head
    BY BootOk
  <1>2. \E t \in Slot : /\ ~Linked(sections, t)
                        /\ \A k \in Slot : k < t => Linked(sections, k)
    <2>1. T \subseteq Nat /\ T # {}
      BY Slots
    <2>2. PICK m \in T : \A k \in T : m <= k
      BY <2>1, LeastMember
    <2>3. m \in Slot /\ ~Linked(sections, m) /\ \A k \in Slot : k < m => Linked(sections, k)
      BY <2>1, <2>2
    <2> QED BY <2>3
  <1>3. r \in Slot /\ ~Linked(sections, r)
    <2> HIDE DEF T
    <2> QED BY <1>2
  <1>4. pmm_section_manager_reindex(sections) = r
    BY DEF pmm_section_manager_reindex
  <1> HIDE DEF r, T
  <1>5. pmm_new_section(CurrentList)
          = IF section_head >= NSlots THEN NULL
            ELSE IF ~Linked(sections, section_head) THEN section_head
            ELSE IF Linked(sections, r) THEN NULL ELSE r
    BY <1>1, <1>4 DEF pmm_new_section
  <1>6. section_head # NULL /\ r # NULL
    BY <1>3, Slots DEF IInv, TypeOK
  <1> QED BY <1>3, <1>5, <1>6

(* pmm_section_combine_next faults on the first section of the list only. *)
LEMMA CombinedNextEnd ==
    ASSUME NEW L, IsList(L), NEW top \in Int, NEW ram, Good(L.sec, top, ram),
           NEW t \in Slot, L.sec[t].prev # NULL, NEW R, R = pmm_section_combine_next(L, t)
    PROVE  /\ R.head # NULL
           /\ EndsBad(L.sec) => EndsBad(R.sec)
           /\ \A s \in Slot \ {t, L.sec[t].next} : R.sec[s].prev = L.sec[s].prev
  <1> DEFINE n == L.sec[t].next
             S == CombineNext(L.sec, t)
  <1>1. L = [sec |-> L.sec, head |-> L.head] /\ L.head # NULL
    BY Slots DEF IsList
  <1>2. CASE n = NULL \/ L.sec[t].free # L.sec[n].free
    <2>1. R = L
      BY <1>2 DEF pmm_section_combine_next
    <2> QED BY <1>1, <2>1
  <1>3. CASE ~(n = NULL \/ L.sec[t].free # L.sec[n].free)
    <2>1. R = [L EXCEPT !.sec = S]
      BY <1>3 DEF pmm_section_combine_next
    <2>2. R = [sec |-> S, head |-> L.head]
      <3> HIDE DEF S
      <3> QED BY <1>1, <2>1
    <2>3. Chained(L.sec, top) /\ Tidy(L.sec) /\ L.sec \in [Slot -> pmm_section_t]
      BY DEF Good, Shape, Chained
    <2>4. L.sec[t].next \in Slot \ {t} /\ L.sec[t].prev \notin {t, L.sec[t].next}
      BY <1>3, <2>3, Neighbours, Distinct
    <2>5. NextSwallows(L.sec, S, t)
      BY <2>3, <2>4, CombineNextSwallows
    <2> HIDE DEF S
    <2>6. EndsBad(L.sec) => EndsBad(S)
      BY <1>3, <2>3, <2>5, NextSwallowsEnd
    <2>7. \A s \in Slot \ {t, L.sec[t].next} : S[s].prev = L.sec[s].prev
      BY <2>5 DEF NextSwallows
    <2>8. R.sec = S /\ R.head = L.head
      BY <2>2
    <2> QED BY <1>1, <2>6, <2>7, <2>8
  <1> QED BY <1>2, <1>3

(* pmm_section_combine_prev faults on the last section of the list only. *)
LEMMA CombinedPrevEnd ==
    ASSUME NEW L, IsList(L), NEW top \in Int, NEW ram, Good(L.sec, top, ram),
           NEW t \in Slot, L.sec[t].next # NULL, NEW R, R = pmm_section_combine_prev(L, t)
    PROVE  R.head # NULL /\ (EndsBad(L.sec) => EndsBad(R.sec))
  <1> DEFINE p == L.sec[t].prev
             S == CombinePrev(L.sec, t)
  <1>1. L = [sec |-> L.sec, head |-> L.head] /\ L.head # NULL
    BY Slots DEF IsList
  <1>2. CASE p = NULL \/ L.sec[t].free # L.sec[p].free
    <2>1. R = L
      BY <1>2 DEF pmm_section_combine_prev
    <2> QED BY <1>1, <2>1
  <1>3. CASE ~(p = NULL \/ L.sec[t].free # L.sec[p].free)
    <2>1. R = [L EXCEPT !.sec = S]
      BY <1>3 DEF pmm_section_combine_prev
    <2>2. R = [sec |-> S, head |-> L.head]
      <3> HIDE DEF S
      <3> QED BY <1>1, <2>1
    <2>3. Chained(L.sec, top) /\ Tidy(L.sec) /\ L.sec \in [Slot -> pmm_section_t]
      BY DEF Good, Shape, Chained
    <2>4. L.sec[t].prev \in Slot \ {t} /\ L.sec[t].next \notin {t, L.sec[t].prev}
      BY <1>3, <2>3, Neighbours, Distinct
    <2>5. PrevSwallows(L.sec, S, t)
      BY <2>3, <2>4, CombinePrevSwallows
    <2> HIDE DEF S
    <2>6. EndsBad(L.sec) => EndsBad(S)
      BY <1>3, <2>3, <2>5, PrevSwallowsEnd
    <2>7. R.sec = S /\ R.head = L.head
      BY <2>2
    <2> QED BY <1>1, <2>6, <2>7
  <1> QED BY <1>2, <1>3

(* A used section of one page is freed without a fault: it is still used when *)
(* its free neighbours are looked at, so nothing is merged.                 *)
LEMMA FreedWholeEnd ==
    ASSUME NEW L, IsList(L), NEW top \in Int, NEW ram, Good(L.sec, top, ram),
           NEW s \in Slot, L.sec[s].prev # NULL, L.sec[s].next # NULL,
           L.sec[s].free = PMM_SECTION_USED, NEW R, R = FreedWhole(L, s)
    PROVE  R.head # NULL /\ (EndsBad(L.sec) => EndsBad(R.sec))
  <1> DEFINE p == L.sec[s].prev
             n == L.sec[s].next
             free(t) == L.sec[t].free = PMM_SECTION_FREE
  <1>1. L = [sec |-> L.sec, head |-> L.head] /\ L.head # NULL
        /\ L.sec \in [Slot -> pmm_section_t] /\ L.sec[p].next = s /\ s # NULL
    <2>1. Chained(L.sec, top)
      BY DEF Good, Shape
    <2> QED BY <2>1, Neighbours, Slots DEF IsList, Chained
  <1>2. free(n) => pmm_section_combine_next(L, s) = L
    BY Types DEF pmm_section_combine_next
  <1>3. free(p) => pmm_section_combine_next(L, p) = L /\ pmm_section_combine_prev(L, s) = L
    BY <1>1, Types DEF pmm_section_combine_next, pmm_section_combine_prev
  <1>4. CASE free(p) \/ free(n)
    <2>1. R = L
      BY <1>1, <1>2, <1>3, <1>4 DEF FreedWhole
    <2> QED BY <1>1, <2>1
  <1>5. CASE ~(free(p) \/ free(n))
    <2>1. R = SetType(L, s, PMM_SECTION_FREE)
      BY <1>5 DEF FreedWhole
    <2>2. Retyped(L.sec, R.sec, s, PMM_SECTION_FREE) /\ R.head = L.head
      BY <1>1, <2>1, Types, SetTypeRetypes
    <2> QED BY <1>1, <2>2, Types, RetypedEnd
  <1> QED BY <1>4, <1>5

(* A free section of one page is taken without a fault: the used section      *)
(* before it is not the first one.                                         *)
LEMMA LockedWholeEnd ==
    ASSUME NEW L, IsList(L), NEW top \in Int, NEW ram \in SUBSET Int, Good(L.sec, top, ram),
           NEW s \in Slot, L.sec[s].prev # NULL, L.sec[s].next # NULL, L.sec[s].pages = 1,
           L.sec[s].free = PMM_SECTION_FREE, NEW R, R = LockedWhole(L, s)
    PROVE  R.head # NULL /\ (EndsBad(L.sec) => EndsBad(R.sec))
  <1> DEFINE p == L.sec[s].prev
             n == L.sec[s].next
             M == SetType(L, s, PMM_SECTION_USED)
             K == pmm_section_combine_next(M, s)
             used(t) == L.sec[t].free = PMM_SECTION_USED
  <1>1. /\ L = [sec |-> L.sec, head |-> L.head] /\ L.sec \in [Slot -> pmm_section_t]
        /\ Chained(L.sec, top) /\ Tidy(L.sec) /\ L.head # NULL
    BY Slots DEF IsList, Good, Shape, Chained
  <1>2. /\ p \in Slot \ {s} /\ n \in Slot \ {s} /\ p # n /\ Linked(L.sec, p)
        /\ Linked(L.sec, s) /\ s # 0
    BY <1>1, Neighbours, Distinct DEF Linked, Chained
  <1>3. IsList(M) /\ Good(M.sec, top, ram)
    <2>1. MayBecome(L.sec, s, PMM_SECTION_USED) /\ s \in Slot \ {0}
      BY <1>2, Types DEF MayBecome
    <2> HIDE DEF M
    <2>2. M = SetType(L, s, PMM_SECTION_USED)
      BY DEF M
    <2> QED BY <1>2, <2>1, <2>2, RetypedChanges
  <1>4. Retyped(L.sec, M.sec, s, PMM_SECTION_USED)
    BY <1>1, Types, SetTypeRetypes
  <1>5. R = IF used(p) /\ used(n)
            THEN IF K.head = NULL THEN K ELSE pmm_section_combine_next(K, p)
            ELSE IF used(p) THEN pmm_section_combine_prev(M, s)
            ELSE IF used(n) THEN pmm_section_combine_next(M, s)
            ELSE M
    BY DEF LockedWhole
  <1>6. K = pmm_section_combine_next(M, s)
    OBVIOUS
  <1> HIDE DEF M, K
  <1>7. /\ M.head # NULL /\ (EndsBad(L.sec) => EndsBad(M.sec))
        /\ M.sec[s].prev = p /\ M.sec[s].next = n /\ M.sec[p].prev = L.sec[p].prev
    BY <1>2, <1>3, <1>4, Types, Slots, RetypedEnd DEF IsList, Retyped
  <1>8. /\ K.head # NULL /\ (EndsBad(M.sec) => EndsBad(K.sec))
        /\ K.sec[p].prev = L.sec[p].prev
    BY <1>2, <1>3, <1>6, <1>7, CombinedNextEnd
  <1>9. CASE used(p) /\ used(n)
    <2>1. R = pmm_section_combine_next(K, p)
      BY <1>5, <1>8, <1>9
    <2>2. p # 0
      BY <1>1, <1>9, Types DEF Tidy
    <2>3. K.sec[p].prev # NULL
      BY <1>1, <1>2, <1>8, <2>2 DEF Chained, Joined
    <2>4. IsList(K) /\ Good(K.sec, top, ram)
      BY <1>3, <1>6, <1>8, CombinedNext
    <2>5. R.head # NULL /\ (EndsBad(K.sec) => EndsBad(R.sec))
      BY <1>2, <2>1, <2>3, <2>4, CombinedNextEnd
    <2> QED BY <1>7, <1>8, <2>5
  <1>10. CASE used(p) /\ ~used(n)
    <2>1. R = pmm_section_combine_prev(M, s) /\ M.sec[s].next # NULL
      BY <1>5, <1>7, <1>10
    <2>2. R.head # NULL /\ (EndsBad(M.sec) => EndsBad(R.sec))
      BY <1>3, <2>1, CombinedPrevEnd
    <2> QED BY <1>7, <2>2
  <1>11. CASE ~used(p)
    <2>1. R = K \/ R = M
      BY <1>5, <1>6, <1>11
    <2> QED BY <1>7, <1>8, <2>1
  <1> QED BY <1>9, <1>10, <1>11

-----------------------------------------------------------------------------
(* The invariant, of the machines on which the kernel alone calls.            *)

(* What is left of a run begins a free section of that length. *)
HeadsFree(sec, base, left) ==
    \E s \in Slot : /\ Linked(sec, s) /\ sec[s].free = PMM_SECTION_FREE
                    /\ sec[s].start = base /\ sec[s].pages >= left

DeviceEnd == boot.secs[Len(boot.secs)].free = PMM_SECTION_BAD

HaltInv ==
    boot \notin WholeApi =>
        /\ DeviceEnd => EndsBad(sections)
        /\ pc = "lock_page" => HeadsFree(sections, run.base, run.left)
        /\ pc = "halted" => NoHeaderLeft \/ AtOpenEnd

(* What pmm_free_page is called with was free at boot. *)
RunIsRam == boot \notin WholeApi /\ pc = "free_page" => run.base \in BootFree(boot)

Kernel == IInv /\ HaltInv /\ RunIsRam /\ boot \notin WholeApi

(* The machine stops for a reason. *)
LEMMA HaltsFor ==
    ASSUME Kernel, Halt, NoHeaderLeft \/ AtOpenEnd
    PROVE  HaltInv'
  BY DEF Kernel, HaltInv, Halt, NoHeaderLeft, AtOpenEnd, DeviceEnd

(* It stops where no header is found, *)
LEMMA HaltsFull ==
    ASSUME Kernel, Halt, pmm_new_section(CurrentList) = NULL
    PROVE  HaltInv'
  BY NoHeader, HaltsFor DEF Kernel

(* or at the last section, when that is not device memory. *)
LEMMA HaltsAtEnd ==
    ASSUME Kernel, Halt, selected # NULL, sections[selected].next = NULL,
           sections[selected].free # PMM_SECTION_BAD
    PROVE  HaltInv'
  <1>1. selected \in Slot /\ Linked(sections, selected)
    BY BootOk DEF Kernel
  <1>2. ~DeviceEnd
    BY <1>1 DEF Kernel, HaltInv, EndsBad
  <1> QED BY <1>2, HaltsFor DEF AtOpenEnd, DeviceEnd

(* The section the cursor is on is the first one only if it is bad. *)
LEMMA NotTheFirst ==
    ASSUME Kernel, selected # NULL, sections[selected].free # PMM_SECTION_BAD
    PROVE  sections[selected].prev # NULL
  <1>1. selected \in Slot /\ Chained(sections, Top(boot)) /\ Tidy(sections)
        /\ Linked(sections, selected)
    BY BootOk DEF Kernel
  <1> QED BY <1>1 DEF Chained, Joined, Tidy

(* A step that does not stop: what it must keep. *)
LEMMA GoesOn ==
    ASSUME Kernel, boot' = boot, pc' # "halted",
           DeviceEnd => EndsBad(sections'),
           pc' = "lock_page" => HeadsFree(sections', run'.base, run'.left)
    PROVE  HaltInv'
  BY DEF HaltInv, DeviceEnd

(* The list ends with device memory if the map does. *)
LEMMA EndsNow == Kernel /\ DeviceEnd => EndsBad(sections)
  BY DEF Kernel, HaltInv

(* A step that leaves the list alone and starts no lock. *)
LEMMA ListStays ==
    ASSUME Kernel, boot' = boot, sections' = sections, pc' \notin {"halted", "lock_page"}
    PROVE  HaltInv'
  BY EndsNow, GoesOn

(* A page that is done: the run goes on with the page behind it. *)
LEMMA ReturnGoes ==
    ASSUME Kernel, pc \in {"free_page", "lock_page"}, NEW L, ReturnWith(L), L.head # NULL,
           DeviceEnd => EndsBad(L.sec),
           pc = "lock_page" /\ run.left > 1 => HeadsFree(L.sec, run.base + 1, run.left - 1)
    PROVE  HaltInv'
  <1>1. sections' = L.sec /\ PageDone /\ boot' = boot
    BY DEF ReturnWith, SetList
  <1>2. CASE run.left > 1
    <2>1. run' = [base |-> run.base + 1, left |-> run.left - 1] /\ pc' = pc
      BY <1>1, <1>2 DEF PageDone
    <2>2. run'.base = run.base + 1 /\ run'.left = run.left - 1
      BY <2>1
    <2> QED BY <1>1, <1>2, <2>1, <2>2, GoesOn
  <1>3. CASE ~(run.left > 1)
    <2>1. pc' = "idle"
      BY <1>1, <1>3 DEF PageDone, Return
    <2> QED BY <1>1, <2>1, GoesOn
  <1> QED BY <1>2, <1>3

(* The cursor moves on over a list that may have changed. *)
LEMMA ContinueGoes ==
    ASSUME Kernel, pc # "halted", NEW L, NEW s, ContinueWith(L, s), L.head # NULL,
           DeviceEnd => EndsBad(L.sec),
           pc = "lock_page" => HeadsFree(L.sec, run.base, run.left)
    PROVE  HaltInv'
  <1>1. sections' = L.sec /\ pc' = pc /\ run' = run /\ boot' = boot
    BY DEF ContinueWith, SetList
  <1> QED BY <1>1, GoesOn

(* The list as it is. *)
LEMMA HeadNow ==
    ASSUME Kernel
    PROVE  /\ section_head # NULL /\ CurrentList.sec = sections
           /\ CurrentList.head = section_head
           /\ pc = "lock_page" => HeadsFree(sections, run.base, run.left)
  BY BootOk, Slots DEF Kernel, HaltInv, IInv, TypeOK

(* The cursor moves on over the list as it is. *)
LEMMA AdvanceGoes ==
    ASSUME Kernel, pc # "halted", Advance
    PROVE  HaltInv'
  BY HeadNow, EndsNow, ContinueGoes DEF Advance

(* pmm_alloc_page stops at an empty section that ends the list, and for want   *)
(* of a header.                                                            *)
LEMMA AllocPageHalts == Kernel /\ pmm_alloc_page => HaltInv'
  <1> SUFFICES ASSUME Kernel, pmm_alloc_page PROVE HaltInv'
    OBVIOUS
  <1>1. /\ boot \in Boots /\ Top(boot) \in Int /\ BootFree(boot) \in SUBSET Int
        /\ Good(sections, Top(boot), BootFree(boot)) /\ Tidy(sections)
        /\ IsList(CurrentList) /\ Chained(sections, Top(boot))
        /\ sections \in [Slot -> pmm_section_t]
        /\ selected # NULL => selected \in Slot /\ Linked(sections, selected)
    BY BootOk DEF Kernel
  <1>2. CASE alloc_page_fails
    <2>1. sections' = sections /\ boot' = boot /\ pc' = "idle"
      BY <1>2 DEF alloc_page_fails, Return
    <2> QED BY <2>1, ListStays
  <1>3. CASE alloc_page_unlinks_empty
    <2>1. pc = "alloc_page" /\ selected # NULL /\ sections[selected].pages = 0
      BY <1>3 DEF alloc_page_unlinks_empty
    <2>2. sections[selected].free # PMM_SECTION_BAD
      BY <1>1, <2>1, Types DEF Tidy
    <2>3. sections[selected].prev # NULL
      BY <2>1, <2>2, NotTheFirst
    <2>4. CASE sections[selected].next = NULL
      <3>1. Halt
        BY <1>3, <2>4 DEF alloc_page_unlinks_empty
      <3> QED BY <2>1, <2>2, <2>4, <3>1, HaltsAtEnd
    <2>5. CASE sections[selected].next # NULL
      <3> DEFINE S == UnlinkEmpty(sections, selected)
      <3>1. sections' = S /\ pc' = pc /\ boot' = boot
        BY <1>3, <2>3, <2>5 DEF alloc_page_unlinks_empty, UnlinkEmpty
      <3>2. NextSwallows(sections, S, selected)
        <4>1. /\ sections[selected].next \in Slot \ {selected}
              /\ sections[selected].prev \in Slot \ {selected, sections[selected].next}
          BY <1>1, <2>1, <2>3, <2>5, Neighbours, Distinct
        <4>2. sections[sections[selected].next].start = End(sections, selected)
          BY <1>1, <2>1, <2>5 DEF Chained, Joined
        <4> QED BY <1>1, <2>1, <4>1, <4>2, UnlinkSwallows
      <3> HIDE DEF S
      <3>3. DeviceEnd => EndsBad(S)
        BY <1>1, <2>1, <2>5, <3>2, EndsNow, NextSwallowsEnd
      <3> QED BY <2>1, <3>1, <3>3, GoesOn
    <2> QED BY <2>4, <2>5
  <1>4. CASE alloc_page_skips
    BY <1>4, AdvanceGoes DEF alloc_page_skips
  <1>5. CASE alloc_page_takes
    <2> DEFINE R == TakeFirstPage(selected)
    <2>1. /\ selected # NULL /\ sections[selected].pages # 0
          /\ sections[selected].free = PMM_SECTION_FREE
      BY <1>5 DEF alloc_page_takes
    <2>2. sections[selected].free # PMM_SECTION_BAD /\ sections[selected].prev # NULL
      BY <2>1, Types, NotTheFirst
    <2>3. R = FirstGiven(CurrentList, selected, PMM_SECTION_USED)
      BY HeadNow DEF TakeFirstPage, FirstGiven
    <2>4. CASE R.head = NULL
      <3>1. Halt
        BY <1>5, <2>4 DEF alloc_page_takes
      <3> HIDE DEF R
      <3>2. pmm_new_section(CurrentList) = NULL
        BY <1>1, <2>1, <2>3, <2>4, HeadNow, Types, FirstGivenFaults
      <3> QED BY <3>1, <3>2, HaltsFull
    <2>5. CASE R.head # NULL
      <3>1. sections' = R.sec /\ pc' = "idle" /\ boot' = boot
        BY <1>5, <2>2, <2>5 DEF alloc_page_takes, SetList
      <3> HIDE DEF R
      <3>2. CurrentList.sec = sections
        BY HeadNow
      <3>3. EndsBad(sections) => EndsBad(R.sec)
        BY <1>1, <2>1, <2>2, <2>3, <2>5, <3>2, FirstGivenEnd
      <3> QED BY <3>1, <3>3, EndsNow, GoesOn
    <2> QED BY <2>4, <2>5
  <1> QED BY <1>2, <1>3, <1>4, <1>5 DEF pmm_alloc_page

(* The page that is freed lies in memory that may be freed. *)
LEMMA FreesNoDevice ==
    ASSUME Kernel, pc = "free_page", selected # NULL, Has(sections, selected, run.base)
    PROVE  sections[selected].free # PMM_SECTION_BAD
  <1>1. selected \in Slot /\ RamKept(sections, BootFree(boot)) /\ run.base \in BootFree(boot)
    BY BootOk DEF Kernel, RunIsRam, Good
  <1> QED BY <1>1 DEF RamKept

(* pmm_free_page stops at the end of the list, and for want of a header.      *)
LEMMA FreePageHalts == Kernel /\ pmm_free_page => HaltInv'
  <1> SUFFICES ASSUME Kernel, pmm_free_page PROVE HaltInv'
    OBVIOUS
  <1>1. /\ boot \in Boots /\ Top(boot) \in Int /\ BootFree(boot) \in SUBSET Int
        /\ Good(sections, Top(boot), BootFree(boot)) /\ Tidy(sections)
        /\ IsList(CurrentList) /\ Chained(sections, Top(boot)) /\ Shape(sections, Top(boot))
        /\ sections \in [Slot -> pmm_section_t]
        /\ selected # NULL => selected \in Slot /\ Linked(sections, selected)
    BY BootOk DEF Kernel, Good
  <1>2. /\ CurrentList.sec = sections /\ CurrentList.head # NULL /\ run.base \in Int
    BY HeadNow DEF Kernel, IInv, TypeOK
  <1>3. pc = "free_page"
    BY DEF pmm_free_page, free_page_at_start, free_page_in_middle, free_page_skips,
           free_page_ends
  <1>4. ASSUME ReturnWith(CurrentList) PROVE HaltInv'
    BY <1>2, <1>3, <1>4, EndsNow, ReturnGoes
  <1>5. CASE free_page_at_start
    <2>1. selected # NULL /\ sections[selected].start = run.base
      BY <1>5 DEF free_page_at_start, AtStart
    <2>2. CASE sections[selected].free = PMM_SECTION_FREE
      BY <1>4, <1>5, <2>2 DEF free_page_at_start
    <2>3. CASE sections[selected].free # PMM_SECTION_FREE
      <3>1. /\ sections[selected].pages # 0 /\ sections[selected].pages \in Nat
            /\ Has(sections, selected, run.base)
        <4>1. sections[selected].pages # 0
          BY <1>1, <2>1, <2>3 DEF Tidy
        <4>2. sections[selected].pages \in Nat
          BY <1>1, <2>1, FieldTypes
        <4> QED BY <1>1, <1>2, <2>1, <4>1, <4>2 DEF Has, End
      <3>2. sections[selected].free # PMM_SECTION_BAD
        BY <1>3, <2>1, <3>1, FreesNoDevice
      <3>3. sections[selected].prev # NULL /\ sections[selected].free = PMM_SECTION_USED
        BY <1>1, <2>1, <2>3, <3>2, NotTheFirst, FieldTypes, Types
      <3>4. CASE sections[selected].pages = 1 /\ sections[selected].next = NULL
        <4>1. Halt
          BY <1>5, <2>3, <3>3, <3>4 DEF free_page_at_start
        <4> QED BY <2>1, <3>2, <3>4, <4>1, HaltsAtEnd
      <3>5. CASE sections[selected].pages = 1 /\ sections[selected].next # NULL
        <4> DEFINE L == FreeWhole(selected)
        <4>1. ReturnWith(L)
          BY <1>5, <2>3, <3>3, <3>5 DEF free_page_at_start
        <4>2. L = FreedWhole(CurrentList, selected)
          BY <1>2, Zenon DEF FreeWhole, FreedWhole
        <4> HIDE DEF L
        <4>3. L.head # NULL /\ (EndsBad(sections) => EndsBad(L.sec))
          BY <1>1, <1>2, <2>1, <3>3, <3>5, <4>2, FreedWholeEnd
        <4> QED BY <1>3, <4>1, <4>3, EndsNow, ReturnGoes
      <3>6. CASE sections[selected].pages # 1
        <4> DEFINE L == FreeFirst(selected)
        <4>1. ReturnWith(L)
          BY <1>5, <2>3, <3>3, <3>6 DEF free_page_at_start
        <4>2. L = FirstGiven(CurrentList, selected, PMM_SECTION_FREE)
          BY <1>2, Zenon DEF FreeFirst, FirstGiven
        <4> HIDE DEF L
        <4>3. CASE L.head = NULL
          <5>1. pmm_new_section(CurrentList) = NULL
            BY <1>1, <1>2, <2>1, <4>2, <4>3, Types, FirstGivenFaults
          <5>2. Halt
            BY <4>1, <4>3 DEF ReturnWith
          <5> QED BY <5>1, <5>2, HaltsFull
        <4>4. CASE L.head # NULL
          <5>1. EndsBad(sections) => EndsBad(L.sec)
            BY <1>1, <1>2, <2>1, <3>1, <3>2, <3>3, <4>2, <4>4, FirstGivenEnd
          <5> QED BY <1>3, <4>1, <4>4, <5>1, EndsNow, ReturnGoes
        <4> QED BY <4>3, <4>4
      <3> QED BY <3>4, <3>5, <3>6
    <2> QED BY <2>2, <2>3
  <1>6. CASE free_page_in_middle
    <2>1. /\ selected # NULL /\ sections[selected].start < run.base
          /\ sections[selected].next # NULL /\ InMiddle(selected)
      BY <1>6 DEF free_page_in_middle
    <2>2. CASE sections[selected].free = PMM_SECTION_FREE
      BY <1>4, <1>6, <2>2 DEF free_page_in_middle
    <2>3. CASE sections[selected].free # PMM_SECTION_FREE /\ ~AtEnd(selected)
      BY <1>3, <1>6, <2>3, AdvanceGoes DEF free_page_in_middle
    <2>4. CASE sections[selected].free # PMM_SECTION_FREE /\ AtEnd(selected)
      <3> DEFINE t == sections[selected].next
      <3>1. t \in Slot \ {selected} /\ sections[t].start = End(sections, selected)
        BY <1>1, <2>1, Neighbours, Distinct DEF Chained, Joined
      <3>2. /\ sections[selected].start \in Int /\ sections[selected].pages \in Nat
            /\ End(sections, selected) \in Int /\ sections[t].start \in Int
        BY <1>1, <2>1, <3>1, FieldTypes DEF End
      <3>3. /\ run.base < End(sections, selected) /\ sections[selected].start <= run.base
            /\ sections[selected].pages # 0
        BY <1>2, <2>1, <3>1, <3>2 DEF InMiddle, End
      <3>4. sections[selected].free # PMM_SECTION_BAD
        BY <1>1, <1>3, <2>1, <3>3, FreesNoDevice DEF Has
      <3>5. CASE sections[t].free = PMM_SECTION_FREE
        <4> DEFINE S == GiveLastPage(sections, selected)
                   L == [CurrentList EXCEPT !.sec = S]
        <4>1. ContinueWith(L, selected)
          BY <1>6, <2>4, <3>5 DEF free_page_in_middle
        <4>2. BorderMoved(sections, S, selected, t, End(sections, selected) - 1)
          BY <1>1, <2>1, <3>1, <3>3, GiveLastMoves
        <4> HIDE DEF S
        <4>3. L.sec = S /\ L.head = CurrentList.head
          BY <1>1, NewHeaders
        <4>4. EndsBad(sections) => EndsBad(S)
          BY <4>2, BorderMovedEnd
        <4> HIDE DEF L
        <4> QED BY <1>2, <1>3, <4>1, <4>3, <4>4, EndsNow, ContinueGoes
      <3>6. CASE sections[t].free # PMM_SECTION_FREE
        <4> DEFINE D == pmm_section_split(CurrentList, selected, run.base)
                   n == D.sec[selected].next
                   R == SetType(pmm_section_split(D, n, D.sec[n].start + 1), n, PMM_SECTION_FREE)
        <4>1. IF D.head = NULL THEN Halt ELSE ContinueWith(R, n)
          BY <1>6, <2>4, <3>6 DEF free_page_in_middle
        <4>2. CASE D.head = NULL
          <5>1. pmm_new_section(CurrentList) = NULL
            BY <1>1, <1>2, <2>1, <4>2, SplitFaults
          <5> QED BY <4>1, <4>2, <5>1, HaltsFull
        <4>3. CASE D.head # NULL
          <5>1. IsList(D) /\ \E m \in Slot \ {selected} :
                               Divided(sections, D.sec, selected, run.base, m)
            BY <1>1, <1>2, <2>1, <3>3, <4>3, SplitDone
          <5>2. pmm_section_split(D, n, D.sec[n].start + 1) = D
            BY <2>1, <2>4, <4>3, LastCut DEF Kernel
          <5>3. R = SetType(D, n, PMM_SECTION_FREE)
            BY <5>2
          <5>4. D.sec[selected].next = n
            OBVIOUS
          <5> HIDE DEF D, n, R
          <5>5. PICK m \in Slot \ {selected} : Divided(sections, D.sec, selected, run.base, m)
            BY <5>1
          <5>6. n = m /\ D.sec[n].free = sections[selected].free
                /\ D.sec \in [Slot -> pmm_section_t] /\ D = [sec |-> D.sec, head |-> D.head]
            BY <5>1, <5>4, <5>5 DEF Divided, IsList
          <5>7. Retyped(D.sec, R.sec, n, PMM_SECTION_FREE) /\ R.head = D.head
            BY <5>3, <5>5, <5>6, Types, SetTypeRetypes
          <5>8. EndsBad(sections) => EndsBad(D.sec)
            BY <1>1, <2>1, <5>5, DividedEnd
          <5>9. EndsBad(sections) => EndsBad(R.sec)
            BY <3>4, <5>5, <5>6, <5>7, <5>8, RetypedEnd
          <5> QED BY <1>3, <4>1, <4>3, <5>7, <5>9, EndsNow, ContinueGoes
        <4> QED BY <4>2, <4>3
      <3> QED BY <3>5, <3>6
    <2> QED BY <2>2, <2>3, <2>4
  <1>7. CASE free_page_skips
    BY <1>3, <1>7, AdvanceGoes DEF free_page_skips
  <1>8. CASE free_page_ends
    BY <1>4, <1>8 DEF free_page_ends
  <1> QED BY <1>5, <1>6, <1>7, <1>8 DEF pmm_free_page

(* The run that is locked begins a section, which no other section shares.     *)
LEMMA LocksAtHead ==
    ASSUME Kernel, pc = "lock_page"
    PROVE  \E s \in Slot :
             /\ sections[s].free = PMM_SECTION_FREE /\ sections[s].start = run.base
             /\ sections[s].pages >= run.left /\ run.left >= 1 /\ run.left \in Int
             /\ run.base \in FreeOf(sections)
             /\ \A t \in Slot : Has(sections, t, run.base) => t = s
  <1>1. PICK s \in Slot : /\ Linked(sections, s) /\ sections[s].free = PMM_SECTION_FREE
                          /\ sections[s].start = run.base /\ sections[s].pages >= run.left
    BY DEF Kernel, HaltInv, HeadsFree
  <1>2. run.left >= 1 /\ run.left \in Int /\ run.base \in Int
    BY DEF Kernel, IInv, LockInv, TypeOK
  <1>3. Apart(sections) /\ sections \in [Slot -> pmm_section_t]
    BY BootOk DEF Kernel, Good, Shape
  <1>4. sections[s].pages \in Nat
    BY <1>3, FieldTypes
  <1>5. Has(sections, s, run.base)
    BY <1>1, <1>2, <1>4 DEF Has, End
  <1>6. run.base \in FreeOf(sections)
    BY <1>1, <1>2, <1>5 DEF FreeOf
  <1>7. \A t \in Slot : Has(sections, t, run.base) => t = s
    BY <1>2, <1>3, <1>5 DEF Apart
  <1> QED BY <1>1, <1>2, <1>6, <1>7

(* pmm_lock_page stops at the end of the list, and for want of a header.  It   *)
(* never comes to a page in the middle of a section.                        *)
LEMMA LockPageHalts == Kernel /\ pmm_lock_page => HaltInv'
  <1> SUFFICES ASSUME Kernel, pmm_lock_page PROVE HaltInv'
    OBVIOUS
  <1>1. /\ boot \in Boots /\ Top(boot) \in Int /\ BootFree(boot) \in SUBSET Int
        /\ Good(sections, Top(boot), BootFree(boot))
        /\ IsList(CurrentList) /\ Chained(sections, Top(boot))
        /\ sections \in [Slot -> pmm_section_t]
        /\ selected # NULL => selected \in Slot /\ Linked(sections, selected)
    BY BootOk DEF Kernel
  <1>2. CurrentList.sec = sections /\ run.base \in Int
    BY HeadNow DEF Kernel, IInv, TypeOK
  <1>3. pc = "lock_page"
    BY DEF pmm_lock_page, lock_page_whole, lock_page_at_start, lock_page_in_middle,
           lock_page_skips, lock_page_ends
  <1>4. PICK s \in Slot :
          /\ sections[s].free = PMM_SECTION_FREE /\ sections[s].start = run.base
          /\ sections[s].pages >= run.left /\ run.left >= 1 /\ run.left \in Int
          /\ run.base \in FreeOf(sections)
          /\ \A t \in Slot : Has(sections, t, run.base) => t = s
    BY <1>3, LocksAtHead
  <1>5. ASSUME selected # NULL, sections[selected].start = run.base
        PROVE  selected = s /\ sections[selected].free = PMM_SECTION_FREE
               /\ sections[selected].pages # 0 /\ sections[selected].prev # NULL
    <2>1. sections[selected].pages # 0 /\ Has(sections, selected, run.base)
      BY <1>1, <1>4, <1>5, StartsHere
    <2>2. selected = s
      BY <1>1, <1>4, <1>5, <2>1
    <2>3. sections[selected].free # PMM_SECTION_BAD
      BY <1>4, <2>2, Types
    <2> QED BY <1>4, <1>5, <2>1, <2>2, <2>3, NotTheFirst
  <1>6. CASE lock_page_whole
    <2>1. selected # NULL /\ sections[selected].start = run.base /\ sections[selected].pages = 1
      BY <1>6 DEF lock_page_whole, AtStart
    <2>2. /\ selected = s /\ sections[selected].free = PMM_SECTION_FREE
          /\ sections[selected].prev # NULL /\ ~(run.left > 1)
      BY <1>4, <1>5, <2>1
    <2>3. CASE sections[selected].next = NULL
      <3>1. Halt
        BY <1>6, <2>3 DEF lock_page_whole
      <3> QED BY <2>1, <2>2, <2>3, <3>1, Types, HaltsAtEnd
    <2>4. CASE sections[selected].next # NULL
      <3> DEFINE L == LockWhole(selected)
      <3>1. ReturnWith(L)
        BY <1>6, <2>2, <2>4 DEF lock_page_whole
      <3>2. L = LockedWhole(CurrentList, selected)
        BY <1>2, Zenon DEF LockWhole, LockedWhole
      <3> HIDE DEF L
      <3>3. L.head # NULL /\ (EndsBad(sections) => EndsBad(L.sec))
        BY <1>1, <1>2, <2>1, <2>2, <2>4, <3>2, LockedWholeEnd
      <3> QED BY <1>3, <2>2, <3>1, <3>3, EndsNow, ReturnGoes
    <2> QED BY <2>3, <2>4
  <1>7. CASE lock_page_at_start
    <2>1. selected # NULL /\ sections[selected].start = run.base /\ sections[selected].pages # 1
      BY <1>7 DEF lock_page_at_start, AtStart
    <2>2. /\ selected = s /\ sections[selected].free = PMM_SECTION_FREE
          /\ sections[selected].prev # NULL /\ sections[selected].pages # 0
          /\ sections[selected].free \notin {PMM_SECTION_BAD, PMM_SECTION_USED}
      BY <1>5, <2>1, Types
    <2> DEFINE L == TakeFirstPage(selected)
    <2>3. ReturnWith(L)
      BY <1>7, <2>2 DEF lock_page_at_start
    <2>4. L = FirstGiven(CurrentList, selected, PMM_SECTION_USED)
      BY <1>2 DEF TakeFirstPage, FirstGiven
    <2> HIDE DEF L
    <2>5. CASE L.head = NULL
      <3>1. pmm_new_section(CurrentList) = NULL
        BY <1>1, <1>2, <2>1, <2>4, <2>5, Types, FirstGivenFaults
      <3>2. Halt
        BY <2>3, <2>5 DEF ReturnWith
      <3> QED BY <3>1, <3>2, HaltsFull
    <2>6. CASE L.head # NULL
      <3>1. /\ EndsBad(sections) => EndsBad(L.sec)
            /\ \E u \in Slot : /\ Linked(L.sec, u) /\ L.sec[u].free = sections[selected].free
                               /\ L.sec[u].start = sections[selected].start + 1
                               /\ L.sec[u].pages = sections[selected].pages - 1
        BY <1>1, <1>2, <2>1, <2>2, <2>4, <2>6, FirstGivenEnd
      <3>2. PICK u \in Slot : /\ Linked(L.sec, u) /\ L.sec[u].free = sections[selected].free
                              /\ L.sec[u].start = sections[selected].start + 1
                              /\ L.sec[u].pages = sections[selected].pages - 1
        BY <3>1
      <3>3. L.sec[u].start = run.base + 1 /\ L.sec[u].free = PMM_SECTION_FREE
        BY <2>1, <2>2, <3>2
      <3>4. L.sec[u].pages >= run.left - 1
        <4>1. sections[s].pages \in Nat
          BY <1>1, FieldTypes
        <4> QED BY <1>4, <2>2, <3>2, <4>1
      <3>5. HeadsFree(L.sec, run.base + 1, run.left - 1)
        BY <3>2, <3>3, <3>4 DEF HeadsFree
      <3> QED BY <1>3, <2>3, <2>6, <3>1, <3>5, EndsNow, ReturnGoes
    <2> QED BY <2>5, <2>6
  <1>8. CASE lock_page_in_middle
    <2>1. /\ selected # NULL /\ sections[selected].start < run.base
          /\ sections[selected].next # NULL /\ InMiddle(selected)
      BY <1>8 DEF lock_page_in_middle
    <2>2. sections[sections[selected].next].start = End(sections, selected)
      BY <1>1, <2>1 DEF Chained, Joined
    <2>3. End(sections, selected) \in Int /\ sections[selected].start \in Int
      BY <1>1, <2>1, FieldTypes DEF End
    <2>4. Has(sections, selected, run.base)
      BY <1>1, <1>2, <2>1, <2>2, <2>3 DEF Has, InMiddle
    <2>5. selected = s
      BY <1>1, <1>4, <2>1, <2>4
    <2> QED BY <1>2, <1>4, <2>1, <2>5
  <1>9. CASE lock_page_skips
    BY <1>3, <1>9, AdvanceGoes DEF lock_page_skips
  <1>10. CASE lock_page_ends
    <2>1. selected = NULL
      BY <1>10 DEF lock_page_ends
    <2> QED BY <1>3, <1>4, <2>1 DEF Kernel, IInv, LockInv
  <1> QED BY <1>6, <1>7, <1>8, <1>9, <1>10 DEF pmm_lock_page

(* The loop condition faults at the last section, which has the page.          *)
LEMMA ScanHalts == Kernel /\ scan_faults => HaltInv'
  <1> SUFFICES ASSUME Kernel, scan_faults PROVE HaltInv'
    OBVIOUS
  <1>1. /\ pc \in {"free_page", "lock_page"} /\ selected # NULL
        /\ sections[selected].start < run.base /\ sections[selected].next = NULL /\ Halt
    BY DEF scan_faults
  <1>2. /\ Top(boot) \in Int /\ BootFree(boot) \in SUBSET (0 .. Top(boot) - 1)
        /\ Good(sections, Top(boot), BootFree(boot)) /\ Chained(sections, Top(boot))
        /\ sections \in [Slot -> pmm_section_t]
        /\ selected \in Slot /\ Linked(sections, selected) /\ run.base \in Int
    BY <1>1, BootOk DEF Kernel, IInv, TypeOK
  <1>3. End(sections, selected) = Top(boot) /\ sections[selected].start \in Int
    BY <1>1, <1>2, FieldTypes DEF Chained, Joined
  <1>4. run.base < Top(boot) => Has(sections, selected, run.base)
    BY <1>1, <1>2, <1>3 DEF Has
  <1>5. CASE pc = "free_page"
    <2>1. run.base < Top(boot)
      BY <1>2, <1>5 DEF Kernel, RunIsRam
    <2> QED BY <1>1, <1>4, <1>5, <2>1, FreesNoDevice, HaltsAtEnd
  <1>6. CASE pc = "lock_page"
    <2>1. PICK s \in Slot :
            /\ sections[s].start = run.base /\ run.base \in FreeOf(sections)
            /\ \A t \in Slot : Has(sections, t, run.base) => t = s
      BY <1>6, LocksAtHead
    <2>2. run.base \in 0 .. Top(boot) - 1
      BY <1>2, <2>1, FreeHas
    <2>3. selected = s
      BY <1>2, <1>4, <2>1, <2>2
    <2> QED BY <1>1, <1>2, <2>1, <2>3
  <1> QED BY <1>1, <1>5, <1>6

(* The search for a pool never stops the machine.                            *)
LEMMA AllocPoolHalts == Kernel /\ pmm_alloc_pool => HaltInv'
  <1> SUFFICES ASSUME Kernel, pmm_alloc_pool PROVE HaltInv'
    OBVIOUS
  <1>1. CASE alloc_pool_skips
    BY <1>1, AdvanceGoes DEF alloc_pool_skips
  <1>2. CASE alloc_pool_finds
    <2>1. /\ sections' = sections /\ boot' = boot /\ selected # NULL /\ Fits(selected)
      BY <1>2 DEF alloc_pool_finds
    <2>2. CASE run.left = 0
      <3>1. pc' = "idle"
        BY <1>2, <2>2 DEF alloc_pool_finds
      <3> QED BY <2>1, <3>1, ListStays
    <2>3. CASE run.left # 0
      <3>1. pc' = "lock_page"
            /\ run' = [base |-> sections[selected].start, left |-> run.left]
        BY <1>2, <2>3 DEF alloc_pool_finds
      <3>2. run'.base = sections[selected].start /\ run'.left = run.left
        BY <3>1
      <3>3. selected \in Slot /\ Linked(sections, selected)
        BY <2>1, BootOk DEF Kernel
      <3>4. HeadsFree(sections, sections[selected].start, run.left)
        BY <2>1, <3>3 DEF HeadsFree, Fits
      <3> QED BY <2>1, <3>1, <3>2, <3>4, EndsNow, GoesOn
    <2> QED BY <2>2, <2>3
  <1>3. CASE alloc_pool_fails
    <2>1. sections' = sections /\ boot' = boot /\ pc' = "recombine"
      BY <1>3 DEF alloc_pool_fails
    <2> QED BY <2>1, ListStays
  <1> QED BY <1>1, <1>2, <1>3 DEF pmm_alloc_pool

(* pmm_recombine merges neighbours of one type, so the last type stays.        *)
LEMMA RecombineHalts == Kernel /\ pmm_recombine => HaltInv'
  <1> SUFFICES ASSUME Kernel, pmm_recombine PROVE HaltInv'
    OBVIOUS
  <1>1. CASE recombine_pass_ends
    <2>1. sections' = sections /\ boot' = boot /\ pc' \in {"idle", "recombine"}
      BY <1>1 DEF recombine_pass_ends, Return
    <2> QED BY <2>1, ListStays
  <1>2. CASE recombine_skips
    BY <1>2, AdvanceGoes DEF recombine_skips
  <1>3. CASE recombine_merges
    <2> DEFINE t == sections[selected].next
               S == CombinePrev(sections, t)
    <2>1. /\ pc = "recombine" /\ selected # NULL /\ t # NULL
          /\ sections[selected].free = sections[t].free
          /\ sections' = S /\ pc' = pc /\ boot' = boot
      BY <1>3 DEF recombine_merges
    <2>2. /\ Chained(sections, Top(boot)) /\ Tidy(sections) /\ Top(boot) \in Int
          /\ sections \in [Slot -> pmm_section_t] /\ selected \in Slot
      BY <2>1, BootOk DEF Kernel
    <2>3. /\ t \in Slot \ {selected} /\ sections[t].prev = selected /\ selected # NULL
          /\ sections[t].next \notin {t, sections[t].prev}
      <3>1. t \in Slot \ {selected} /\ sections[t].prev = selected
        BY <2>1, <2>2, Neighbours, Distinct DEF Chained, Joined
      <3> HIDE DEF t
      <3>2. /\ sections[t].next # t
            /\ sections[t].next # NULL => sections[t].next # sections[t].prev
        BY <2>2, <3>1, Distinct
      <3> QED BY <2>1, <3>1, <3>2
    <2> HIDE DEF t
    <2>4. PrevSwallows(sections, S, t)
      BY <2>2, <2>3, CombinePrevSwallows
    <2> HIDE DEF S
    <2>5. EndsBad(sections) => EndsBad(S)
      BY <2>1, <2>2, <2>3, <2>4, PrevSwallowsEnd
    <2> QED BY <2>1, <2>5, EndsNow, GoesOn
  <1> QED BY <1>1, <1>2, <1>3 DEF pmm_recombine

(* Every step keeps the invariant. *)
LEMMA NextHalts == IInv /\ RunIsRam /\ HaltInv /\ [Next]_vars => HaltInv'
  <1> SUFFICES ASSUME IInv, RunIsRam, HaltInv, [Next]_vars PROVE HaltInv'
    OBVIOUS
  <1>1. CASE UNCHANGED vars
    BY <1>1 DEF vars, HaltInv, DeviceEnd, NoHeaderLeft, AtOpenEnd
  <1>2. CASE Next /\ boot \notin WholeApi
    <2>1. Kernel
      BY <1>2 DEF Kernel
    <2>2. CASE KernelCall
      <3>1. /\ sections' = sections /\ boot' = boot
            /\ pc' \in {"alloc_page", "free_page", "alloc_pool"}
        BY <2>2 DEF KernelCall, alloc_page_call, free_page_call, alloc_pool_call
      <3> QED BY <2>1, <3>1, ListStays
    <2> QED BY <1>2, <2>1, <2>2, AllocPageHalts, FreePageHalts, LockPageHalts, ScanHalts,
               RecombineHalts, AllocPoolHalts DEF Next, Running
  <1>3. CASE Next /\ boot \in WholeApi
    <2>1. boot' = boot
      BY <1>3, SameMachine
    <2> QED BY <1>3, <2>1 DEF HaltInv
  <1> QED BY <1>1, <1>2, <1>3

(* At boot the list ends as the memory map does, and the headers' own pages    *)
(* begin a free section.                                                   *)
LEMMA InitHalts == Init => HaltInv
  <1> SUFFICES ASSUME Init PROVE HaltInv
    OBVIOUS
  <1>1. /\ boot \in Boots /\ sections = BootSections(boot) /\ pc = "lock_page"
        /\ run = [base |-> boot.data.base, left |-> boot.data.pages]
    BY DEF Init
  <1> DEFINE N == Len(boot.secs)
  <1>2. N \in 2 .. NSlots /\ NSlots \in Nat
    BY <1>1, BootFields, Slots
  <1>3. \A s \in Slot :
          IF s < N
          THEN /\ Linked(sections, s)
               /\ sections[s].next = (IF s = N - 1 THEN NULL ELSE s + 1)
               /\ sections[s].start = From(boot, s + 1)
               /\ sections[s].pages = boot.secs[s + 1].pages
               /\ sections[s].free = boot.secs[s + 1].free
          ELSE sections[s] = Unlinked
    BY <1>1, BootHeaders
  <1>4. DeviceEnd => EndsBad(sections)
    <2> SUFFICES ASSUME DeviceEnd, NEW s \in Slot, Linked(sections, s), sections[s].next = NULL
                 PROVE  sections[s].free = PMM_SECTION_BAD
      BY DEF EndsBad
    <2>1. s < N
      BY <1>3 DEF Linked, Unlinked
    <2>2. s \in Nat /\ s + 1 # NULL
      BY Slots DEF NULL
    <2>3. s = N - 1
      BY <1>3, <2>1, <2>2
    <2>4. s + 1 = N
      BY <1>2, <2>3
    <2> QED BY <1>3, <2>1, <2>4 DEF DeviceEnd
  <1>5. HeadsFree(sections, run.base, run.left)
    <2>1. PICK i \in 1 .. N : /\ boot.secs[i].free = PMM_SECTION_FREE
                              /\ boot.data.base = boot.secs[i].start
                              /\ boot.data.pages <= boot.secs[i].pages
      BY <1>1, BootsAssumption DEF BootsAssumption
    <2>2. boot.secs[i].pages \in Nat /\ boot.data.pages \in Nat
      BY <1>1, BootFields, BootMemory
    <2>3. i - 1 \in Slot /\ i - 1 < N /\ (i - 1) + 1 = i
      BY <1>2 DEF Slot
    <2>4. /\ Linked(sections, i - 1) /\ sections[i - 1].start = From(boot, i)
          /\ sections[i - 1].pages = boot.secs[i].pages
          /\ sections[i - 1].free = boot.secs[i].free
      BY <1>3, <2>3
    <2>5. run.base = boot.data.base /\ run.left = boot.data.pages
      BY <1>1
    <2>6. sections[i - 1].pages >= run.left
      BY <2>1, <2>2, <2>4, <2>5
    <2> QED BY <2>1, <2>3, <2>4, <2>5, <2>6 DEF HeadsFree, From
  <1> QED BY <1>1, <1>4, <1>5 DEF HaltInv

(* A page on its way back, or free again by now, was free at boot. *)
LEMMA FreedIsRam == IInv /\ Owners!OwnedApart => RunIsRam
  <1> SUFFICES ASSUME IInv, Owners!OwnedApart, boot \notin WholeApi, pc = "free_page"
               PROVE  run.base \in BootFree(boot)
    BY DEF RunIsRam
  <1>1. claim = {}
    BY DEF IInv, ClaimInv
  <1>2. Claimed = {}
    BY <1>1 DEF Claimed
  <1>3. MFree \cup MReturning \subseteq BootFree(boot)
    BY Zenon DEF Owners!OwnedApart, MFree, MReturning
  <1>4. FreePages \cup ({run.base} \ FreePages) \subseteq BootFree(boot)
    BY <1>2, <1>3 DEF MFree, MReturning, AsKernel
  <1> QED BY <1>4

(* When the kernel calls it, the allocator stops the machine only when no      *)
(* header is left, or at the end of a memory map that does not end with       *)
(* device memory.                                                          *)
THEOREM StopsAtLimits == Spec => []HaltsOnlyAtLimits
  <1>1. Spec => [](IInv /\ RunIsRam)
    BY Invariant, OwnersApart, FreedIsRam, PTL
  <1>2. HaltInv => HaltsOnlyAtLimits
    BY DEF HaltInv, HaltsOnlyAtLimits
  <1> QED BY <1>1, <1>2, InitHalts, NextHalts, PTL DEF Spec

=============================================================================
