----------------------------- MODULE HeapProofs -----------------------------
(***************************************************************************)
(* The heap's list and its blocks, for every size of a page, of the heap and *)
(* of the requests.                                                        *)
(*                                                                         *)
(* The argument is about a list (List) and which of its segments have a free *)
(* neighbour behind them that is not merged yet (Apart).  A split and a merge *)
(* keep the list; a merge takes the segment it is called with from the        *)
(* exceptions.  Before the first block the heap is one segment (Virgin); from *)
(* then on HeapInv holds, with the header that was wiped as the only segment  *)
(* that nobody owns and that has no length.                                *)
(***************************************************************************)
EXTENDS Heap, TLAPS

First == InitPages * PageUnits

Segment == [length : Nat, next : Nat \cup {NULL}, last : Nat \cup {NULL}, free : BOOLEAN]

(* Headers h up to the last one, l, in a heap that ends at e; x was wiped.    *)
List(h, l, e, x) ==
    /\ DOMAIN h \subseteq Nat /\ e \in Nat /\ {0, l, x} \subseteq DOMAIN h
    /\ \A s \in DOMAIN h : h[s] \in Segment /\ s <= l
    /\ \A s \in DOMAIN h : s # l =>
         /\ h[s].next \in DOMAIN h /\ s < h[s].next
         /\ \A t \in DOMAIN h : s < t => h[s].next <= t
         /\ h[s].next = IF s = x THEN First ELSE s + HDR + h[s].length
         /\ h[s].next # x => h[h[s].next].last = s
    /\ h[l].next = NULL
    /\ e = IF l = x THEN First ELSE l + HDR + h[l].length
    /\ x # 0 /\ ~h[x].free /\ x < First
    /\ h[0].last = NULL
    /\ \A s \in DOMAIN h \ {0, x} : h[s].last \in DOMAIN h \ {l} /\ h[h[s].last].next = s

(* No free segment has a free one behind it, but perhaps those in S.         *)
Apart(h, l, S) ==
    \A s \in DOMAIN h \ S : s # l => ~(h[s].free /\ h[h[s].next].free)

-----------------------------------------------------------------------------
LEMMA Constants ==
    /\ HDR = 2 /\ MINLEN = 1 /\ NULL = -1
    /\ PageUnits \in Nat /\ PageUnits > HDR /\ NodeSize \in Nat \ {0} /\ NodeSize + HDR < PageUnits
    /\ Sizes \subseteq Nat \ {0}
    /\ First \in Nat /\ First >= 2 * PageUnits
  <1>1. \A n \in Nat, p \in Nat : n > 1 => n * p \in Nat /\ n * p >= 2 * p
    OBVIOUS
  <1> QED
    BY <1>1, HeapAssumption DEF HeapAssumption, HDR, MINLEN, NULL, First

(* heap_expand grows by pages, enough for what was asked. *)
LEMMA Rounded ==
    ASSUME NEW n \in Nat \ {0}
    PROVE  RoundToPage(n) \in Nat /\ RoundToPage(n) >= PageUnits
  <1>1. ASSUME NEW p \in Nat \ {0}
        PROVE  ((n + p - 1) \div p) \in Nat \ {0}
    OBVIOUS
  <1>2. \A q \in Nat \ {0}, p \in Nat : q * p \in Nat /\ q * p >= p
    OBVIOUS
  <1> QED
    BY <1>1, <1>2, Constants DEF RoundToPage

(* What the assignments to one header leave of it. *)
LEMMA LengthAndNext ==
    ASSUME NEW r \in Segment, NEW v \in Nat, NEW m \in Nat \cup {NULL}
    PROVE  [r EXCEPT !.length = v, !.next = m] =
             [length |-> v, next |-> m, last |-> r.last, free |-> r.free]
  <1> DEFINE q == [r EXCEPT !.length = v, !.next = m]
  <1>1. q \in Segment
    BY DEF Segment
  <1>2. q.length = v /\ q.next = m
    BY DEF Segment
  <1>3. q.last = r.last /\ q.free = r.free
    BY DEF Segment
  <1> HIDE DEF q
  <1>4. q = [length |-> v, next |-> m, last |-> r.last, free |-> r.free]
    BY <1>1, <1>2, <1>3 DEF Segment
  <1> QED BY <1>4 DEF q

LEMMA LengthNextAndFree ==
    ASSUME NEW r \in Segment, NEW v \in Nat, NEW m \in Nat \cup {NULL}
    PROVE  [r EXCEPT !.length = v, !.next = m, !.free = FALSE] =
             [length |-> v, next |-> m, last |-> r.last, free |-> FALSE]
  <1> DEFINE q == [r EXCEPT !.length = v, !.next = m, !.free = FALSE]
  <1>1. q \in Segment
    BY DEF Segment
  <1>2. q.length = v /\ q.next = m
    BY DEF Segment
  <1>3. q.last = r.last /\ q.free = FALSE
    BY DEF Segment
  <1> HIDE DEF q
  <1>4. q = [length |-> v, next |-> m, last |-> r.last, free |-> FALSE]
    BY <1>1, <1>2, <1>3 DEF Segment
  <1> QED BY <1>4 DEF q

LEMMA NextOnly ==
    ASSUME NEW r \in Segment, NEW m \in Nat \cup {NULL}
    PROVE  [r EXCEPT !.next = m] =
             [length |-> r.length, next |-> m, last |-> r.last, free |-> r.free]
  BY DEF Segment

LEMMA LastOnly ==
    ASSUME NEW r \in Segment, NEW m \in Nat \cup {NULL}
    PROVE  [r EXCEPT !.last = m] =
             [length |-> r.length, next |-> r.next, last |-> m, free |-> r.free]
  BY DEF Segment

LEMMA FreeOnly ==
    ASSUME NEW r \in Segment, NEW b \in BOOLEAN
    PROVE  [r EXCEPT !.free = b] =
             [length |-> r.length, next |-> r.next, last |-> r.last, free |-> b]
  BY DEF Segment

(* new is the heap of h and l with the segment behind s merged into s, if it *)
(* was free.                                                               *)
Merged(h, l, e, x, S, s, new) ==
    /\ List(new.h, new.last, e, x) /\ Apart(new.h, new.last, S)
    /\ DOMAIN new.h \subseteq DOMAIN h /\ s \in DOMAIN new.h
    /\ new.h[s].free = h[s].free /\ new.h[s].last = h[s].last
    /\ new.h[s].length >= h[s].length
    /\ \A t \in DOMAIN h \ DOMAIN new.h : h[t].free /\ t > s
    /\ \A t \in DOMAIN new.h \ {s} : new.h[t].free = h[t].free /\ new.h[t].length = h[t].length

(* A merge with the segment behind. *)
LEMMA CombineForward ==
    ASSUME NEW h, NEW l, NEW e, NEW x, NEW R, NEW s \in DOMAIN h \ {x},
           List(h, l, e, x), Apart(h, l, R), s # l => h[s].next \notin R \ {s},
           NEW new, new = header_combine_forward([h |-> h, last |-> l], s)
    PROVE  Merged(h, l, e, x, R \ {s}, s, new)
  <1> DEFINE n == h[s].next
             nn == h[n].next
             g == new.h
             k == new.last
             v == h[s].length + h[n].length + HDR
  <1>0. NULL = -1 /\ HDR = 2 /\ First \in Nat
    BY Constants
  <1>1. CASE n = NULL \/ ~h[n].free
    <2>1. g = h /\ k = l
      BY <1>1 DEF header_combine_forward
    <2>2. Apart(h, l, R \ {s})
      BY <1>0, <1>1 DEF Apart, List
    <2> QED
      BY <2>1, <2>2 DEF List, Segment, Merged
  <1>2. CASE n # NULL /\ h[n].free
    <2>1. /\ s # l /\ n \in DOMAIN h \ {0, s, x} /\ s < n
          /\ nn = NULL <=> n = l
          /\ nn # NULL => nn \in DOMAIN h /\ n < nn
      BY <1>0, <1>2 DEF List
    <2>2. /\ DOMAIN g = DOMAIN h \ {n}
          /\ k = IF n = l THEN s ELSE l
      BY <1>2, <2>1 DEF header_combine_forward
    <2>s. g[s] = [h[s] EXCEPT !.length = v, !.next = nn]
      BY <1>2, <2>1 DEF header_combine_forward
    <2>t. \A t \in DOMAIN h \ {n, s} : g[t] = IF t = nn THEN [h[t] EXCEPT !.last = s] ELSE h[t]
      BY <1>2, <2>1 DEF header_combine_forward
    <2>3. \A t \in DOMAIN h : h[t] \in Segment
      BY DEF List
    <2>h. /\ h[s] \in Segment /\ h[n] \in Segment /\ nn \in Nat \cup {NULL}
          /\ v \in Nat /\ h[s].last \in Nat \cup {NULL} /\ h[s].free \in BOOLEAN
      BY <1>0, <2>1, <2>3 DEF Segment
    <2>4. g[s] = [length |-> v, next |-> nn, last |-> h[s].last, free |-> h[s].free]
      <3> HIDE DEF n, nn, g, v
      <3>1. [h[s] EXCEPT !.length = v, !.next = nn] =
              [length |-> v, next |-> nn, last |-> h[s].last, free |-> h[s].free]
        BY <2>h, LengthAndNext
      <3> QED BY <2>s, <3>1
    <2>5. \A t \in DOMAIN h \ {n, s} :
            g[t] = [length |-> h[t].length, next |-> h[t].next,
                    last |-> IF t = nn THEN s ELSE h[t].last, free |-> h[t].free]
      <3>1. SUFFICES ASSUME NEW t \in DOMAIN h \ {n, s}
                     PROVE  g[t] = [length |-> h[t].length, next |-> h[t].next,
                                    last |-> IF t = nn THEN s ELSE h[t].last, free |-> h[t].free]
        OBVIOUS
      <3>2. h[t] \in Segment /\ s \in Nat \cup {NULL}
        BY <2>3 DEF List
      <3> HIDE DEF n, nn, g
      <3>3. CASE t = nn
        BY <2>t, <3>2, <3>3, LastOnly
      <3>4. CASE t # nn
        BY <2>t, <3>2, <3>4 DEF Segment
      <3> QED BY <3>3, <3>4
    <2>6. /\ v = h[s].length + h[n].length + HDR /\ n = s + HDR + h[s].length
          /\ h[s].next = n /\ h[n].next = nn
      BY <2>1 DEF List
    <2>7. /\ DOMAIN h \subseteq Nat /\ e \in Nat /\ {0, l, x} \subseteq DOMAIN h
          /\ \A t \in DOMAIN h : h[t] \in Segment /\ t <= l
          /\ \A t \in DOMAIN h : t # l =>
               /\ h[t].next \in DOMAIN h /\ t < h[t].next
               /\ \A u \in DOMAIN h : t < u => h[t].next <= u
               /\ h[t].next = IF t = x THEN First ELSE t + HDR + h[t].length
               /\ h[t].next # x => h[h[t].next].last = t
          /\ h[l].next = NULL
          /\ e = IF l = x THEN First ELSE l + HDR + h[l].length
          /\ x # 0 /\ ~h[x].free /\ x < First
          /\ h[0].last = NULL
          /\ \A t \in DOMAIN h \ {0, x} : h[t].last \in DOMAIN h \ {l} /\ h[h[t].last].next = t
      BY DEF List
    <2> HIDE DEF n, nn, g, k, v
    <2>8. \A t \in DOMAIN h \ {l, s} : h[t].next # n
      BY <2>1, <2>6, <2>7
    <2>9. nn # NULL => \A t \in DOMAIN h \ {l, n} : h[t].next # nn
      BY <2>1, <2>6, <2>7
    <2>10. /\ \A t \in DOMAIN g : g[t] \in Segment /\ t <= k
           /\ {0, k, x} \subseteq DOMAIN g /\ DOMAIN g \subseteq Nat
      <3>1. g[s] \in Segment
        BY <2>h, <2>4 DEF Segment
      <3>s. s \in Nat
        BY <2>7
      <3>t. ASSUME NEW t \in DOMAIN h \ {n, s}
            PROVE  g[t] \in Segment
        <4>1. h[t] \in Segment
          BY <2>3
        <4>2. g[t] = [length |-> h[t].length, next |-> h[t].next,
                      last |-> IF t = nn THEN s ELSE h[t].last, free |-> h[t].free]
          BY <2>5
        <4> QED BY <3>s, <4>1, <4>2 DEF Segment
      <3>2. \A t \in DOMAIN g : t <= k
        BY <1>0, <2>1, <2>2, <2>6, <2>7
      <3> QED BY <2>1, <2>2, <2>7, <3>1, <3>t, <3>2
    <2>f. /\ g[s].length = v /\ g[s].next = nn /\ g[s].last = h[s].last /\ g[s].free = h[s].free
          /\ \A t \in DOMAIN h \ {n, s} :
               /\ g[t].length = h[t].length /\ g[t].next = h[t].next /\ g[t].free = h[t].free
               /\ g[t].last = IF t = nn THEN s ELSE h[t].last
      <3>1. g[s].length = v /\ g[s].next = nn /\ g[s].last = h[s].last /\ g[s].free = h[s].free
        BY <2>4
      <3>2. ASSUME NEW t \in DOMAIN h \ {n, s}
            PROVE  /\ g[t].length = h[t].length /\ g[t].next = h[t].next /\ g[t].free = h[t].free
                   /\ g[t].last = IF t = nn THEN s ELSE h[t].last
        <4>1. g[t] = [length |-> h[t].length, next |-> h[t].next,
                      last |-> IF t = nn THEN s ELSE h[t].last, free |-> h[t].free]
          BY <2>5
        <4> QED BY <4>1
      <3> QED BY <3>1, <3>2
    <2>l. \A t \in DOMAIN h : h[t].length \in Nat
      BY <2>3 DEF Segment
    <2>11. \A t \in DOMAIN g : t # k =>
             /\ g[t].next \in DOMAIN g /\ t < g[t].next
             /\ \A u \in DOMAIN g : t < u => g[t].next <= u
             /\ g[t].next = IF t = x THEN First ELSE t + HDR + g[t].length
             /\ g[t].next # x => g[g[t].next].last = t
      <3>1. ASSUME s # k
            PROVE  /\ g[s].next \in DOMAIN g /\ s < g[s].next
                   /\ \A u \in DOMAIN g : s < u => g[s].next <= u
                   /\ g[s].next = IF s = x THEN First ELSE s + HDR + g[s].length
                   /\ g[s].next # x => g[g[s].next].last = s
        <4>1. n # l /\ nn \in DOMAIN h \ {n, s} /\ k = l
          <5>1. n # l /\ k = l
            BY <2>2, <3>1
          <5> QED BY <2>1, <2>7, <5>1
        <4>2. s < nn /\ \A u \in DOMAIN g : s < u => nn <= u
          <5>1. s < nn /\ \A u \in DOMAIN h : n < u => nn <= u
            BY <2>1, <2>6, <2>7, <4>1
          <5>2. ASSUME NEW u \in DOMAIN g, s < u PROVE n < u
            <6>1. u \in DOMAIN h /\ u # n
              BY <2>2
            <6>2. n <= u
              BY <2>1, <2>6, <2>7, <5>2, <6>1
            <6>3. n \in Nat /\ u \in Nat
              BY <2>1, <2>7, <6>1
            <6> QED BY <6>1, <6>2, <6>3
          <5> QED BY <2>2, <5>1, <5>2
        <4>3. nn = s + HDR + v
          BY <1>0, <2>1, <2>6, <2>7, <2>l, <4>1
        <4> QED
          BY <2>2, <2>f, <4>1, <4>2, <4>3
      <3>2. ASSUME NEW t \in DOMAIN h \ {n, s}, t # k
            PROVE  /\ g[t].next \in DOMAIN g /\ t < g[t].next
                   /\ \A u \in DOMAIN g : t < u => g[t].next <= u
                   /\ g[t].next = IF t = x THEN First ELSE t + HDR + g[t].length
                   /\ g[t].next # x => g[g[t].next].last = t
        <4>0. t # l
          BY <2>2, <3>2
        <4>1. h[t].next \in DOMAIN h /\ h[t].next # n /\ h[t].next # nn
          BY <1>0, <2>7, <2>8, <2>9, <3>2, <4>0
        <4> QED
          BY <2>2, <2>7, <2>f, <3>2, <4>0, <4>1
      <3> QED
        BY <2>2, <2>f, <3>1, <3>2
    <2>12. /\ g[k].next = NULL
           /\ e = IF k = x THEN First ELSE k + HDR + g[k].length
           /\ ~g[x].free /\ g[0].last = NULL
      <3>1. CASE n = l
        BY <1>0, <2>1, <2>2, <2>6, <2>7, <2>f, <2>l, <3>1
      <3>2. CASE n # l
        BY <1>0, <2>1, <2>2, <2>6, <2>7, <2>f, <2>l, <3>2
      <3> QED BY <3>1, <3>2
    <2>13. \A t \in DOMAIN g \ {0, x} : g[t].last \in DOMAIN g \ {k} /\ g[g[t].last].next = t
      <3>1. CASE nn # NULL
        BY <1>0, <2>1, <2>2, <2>6, <2>7, <2>f, <3>1
      <3>2. ASSUME NEW t \in DOMAIN g \ {0, x}, t # nn
            PROVE  g[t].last \in DOMAIN g \ {k} /\ g[g[t].last].next = t
        <4>1. /\ g[t].last = h[t].last /\ h[t].last \in DOMAIN h \ {l}
              /\ h[h[t].last].next = t
          BY <2>2, <2>7, <2>f, <3>2
        <4>2. h[t].last # n /\ h[t].last # s
          BY <2>2, <2>6, <3>2, <4>1
        <4> QED
          BY <2>2, <2>f, <4>1, <4>2
      <3> QED
        BY <1>0, <2>10, <3>1, <3>2
    <2>14. List(g, k, e, x)
      BY <2>7, <2>10, <2>11, <2>12, <2>13 DEF List
    <2>15. Apart(g, k, R \ {s})
      <3>1. \A t \in DOMAIN h \ R : t # l => ~(h[t].free /\ h[h[t].next].free)
        BY DEF Apart
      <3>2. n \notin R
        BY <2>1, <2>6
      <3>3. s # k => ~g[nn].free
        BY <1>0, <1>2, <2>1, <2>2, <2>6, <2>7, <2>f, <3>1, <3>2
      <3>4. ASSUME NEW t \in DOMAIN g \ R, t # k, t # s
            PROVE  ~(g[t].free /\ g[g[t].next].free)
        <4>1. t # l /\ h[t].next # n /\ h[t].next \in DOMAIN h
          BY <2>1, <2>2, <2>7, <2>8, <3>4
        <4> QED
          BY <2>2, <2>f, <3>1, <3>4, <4>1
      <3> QED
        BY <2>2, <2>f, <3>3, <3>4 DEF Apart
    <2>16. /\ DOMAIN g \subseteq DOMAIN h /\ s \in DOMAIN g
           /\ g[s].length >= h[s].length
           /\ \A t \in DOMAIN h \ DOMAIN g : h[t].free /\ t > s
      BY <1>0, <1>2, <2>1, <2>2, <2>6, <2>7, <2>f, <2>l
    <2>17. \A t \in DOMAIN g \ {s} : g[t].free = h[t].free /\ g[t].length = h[t].length
      BY <2>2, <2>f
    <2>18. g[s].free = h[s].free /\ g[s].last = h[s].last
      BY <2>f
    <2>19. g = new.h /\ k = new.last
      BY DEF g, k
    <2> QED
      BY <2>14, <2>15, <2>16, <2>17, <2>18, <2>19 DEF Merged
  <1> QED BY <1>1, <1>2

(* g, up to k, is the list with segment s divided after n units.            *)
Divided(x, s, n, g, k) ==
    /\ List(g, k, heap_end, x) /\ Apart(g, k, {})
    /\ s + n + HDR \notin DOMAIN hdr /\ DOMAIN g = DOMAIN hdr \cup {s + n + HDR}
    /\ g[s + n + HDR].free /\ ~g[s].free /\ g[s].length = n
    /\ \A t \in DOMAIN hdr \ {s} : g[t].free = hdr[t].free /\ g[t].length = hdr[t].length

(* A split of a free segment, whose first part is taken. *)
LEMMA Split ==
    ASSUME NEW x, List(hdr, last_header, heap_end, x), Apart(hdr, last_header, {}),
           NEW s \in DOMAIN hdr, hdr[s].free, NEW n \in Nat \ {0}, Splits(s, n),
           NEW g, g = SplitAndTake(s, n),
           NEW k, k = IF last_header = s THEN s + n + HDR ELSE last_header
    PROVE  Divided(x, s, n, g, k)
  <1> DEFINE new == s + n + HDR
             nxt == hdr[s].next
             l == last_header
             v == hdr[s].length - n - HDR
  <1>0. NULL = -1 /\ HDR = 2 /\ MINLEN = 1 /\ First \in Nat
    BY Constants
  <1>1. /\ DOMAIN hdr \subseteq Nat /\ heap_end \in Nat /\ {0, l, x} \subseteq DOMAIN hdr
        /\ \A t \in DOMAIN hdr : t <= l
        /\ \A t \in DOMAIN hdr : t # l =>
             /\ hdr[t].next \in DOMAIN hdr /\ t < hdr[t].next
             /\ \A u \in DOMAIN hdr : t < u => hdr[t].next <= u
             /\ hdr[t].next = IF t = x THEN First ELSE t + HDR + hdr[t].length
             /\ hdr[t].next # x => hdr[hdr[t].next].last = t
        /\ hdr[l].next = NULL
        /\ heap_end = IF l = x THEN First ELSE l + HDR + hdr[l].length
        /\ x # 0 /\ ~hdr[x].free /\ x < First
        /\ hdr[0].last = NULL
        /\ \A t \in DOMAIN hdr \ {0, x} : hdr[t].last \in DOMAIN hdr \ {l} /\ hdr[hdr[t].last].next = t
    BY DEF List
  <1>2. \A t \in DOMAIN hdr : hdr[t] \in Segment
    BY DEF List
  <1>3. /\ \A t \in DOMAIN hdr : hdr[t].length \in Nat
        /\ nxt \in Nat \cup {NULL} /\ hdr[s].last \in Nat \cup {NULL}
    BY <1>2 DEF Segment
  <1>4. s # x /\ s \in Nat /\ v \in Nat \ {0} /\ new \in Nat /\ s < new
    BY <1>0, <1>1, <1>3 DEF Splits
  <1>5. /\ s # l => nxt = new + HDR + v /\ nxt \in DOMAIN hdr /\ new < nxt
        /\ s = l => heap_end = new + HDR + v
    <2>1. hdr[s].length \in Nat /\ hdr[s].length = v + n + HDR
      BY <1>0, <1>3, <1>4
    <2>2. s # l => nxt = s + HDR + hdr[s].length /\ nxt \in DOMAIN hdr
      BY <1>1, <1>4
    <2>3. s = l => heap_end = s + HDR + hdr[s].length
      BY <1>1, <1>4
    <2>4. s + HDR + hdr[s].length = new + HDR + v /\ new < new + HDR + v
      <3> HIDE DEF v
      <3> QED BY <1>0, <1>4, <2>1
    <2> HIDE DEF new, nxt, v
    <2> QED BY <2>2, <2>3, <2>4
  <1>6. /\ new \notin DOMAIN hdr
        /\ \A u \in DOMAIN hdr : u <= s \/ new < u
    <2>1. CASE s = l
      BY <1>1, <1>4, <2>1
    <2>2. CASE s # l
      <3>1. ASSUME NEW u \in DOMAIN hdr PROVE u <= s \/ new < u
        <4>1. u \in Nat /\ nxt \in Nat /\ (s < u => nxt <= u)
          BY <1>1, <1>5, <2>2
        <4> HIDE DEF new, nxt
        <4> QED BY <1>4, <1>5, <2>2, <4>1
      <3> QED BY <1>4, <3>1
    <2> QED BY <2>1, <2>2
  <1>7. DOMAIN g = DOMAIN hdr \cup {new}
    BY DEF SplitAndTake
  <1>8. g[s] = [length |-> n, next |-> new, last |-> hdr[s].last, free |-> FALSE]
    <2>1. g[s] = [hdr[s] EXCEPT !.length = n, !.next = new, !.free = FALSE]
      BY DEF SplitAndTake
    <2>2. hdr[s] \in Segment /\ n \in Nat /\ new \in Nat
      BY <1>2, <1>4
    <2> HIDE DEF new
    <2>3. [hdr[s] EXCEPT !.length = n, !.next = new, !.free = FALSE] =
            [length |-> n, next |-> new, last |-> hdr[s].last, free |-> FALSE]
      BY <2>2, LengthNextAndFree
    <2> QED BY <2>1, <2>3
  <1>9. g[new] = [length |-> v, next |-> nxt, last |-> s, free |-> TRUE]
    BY <1>6 DEF SplitAndTake
  <1>10. ASSUME NEW t \in DOMAIN hdr \ {s}
         PROVE  g[t] = [length |-> hdr[t].length, next |-> hdr[t].next,
                        last |-> IF t = nxt THEN new ELSE hdr[t].last, free |-> hdr[t].free]
    <2>1. g[t] = IF t = nxt THEN [hdr[t] EXCEPT !.last = new] ELSE hdr[t]
      BY <1>6 DEF SplitAndTake
    <2>2. hdr[t] \in Segment /\ new \in Nat
      BY <1>2, <1>4
    <2> HIDE DEF new, nxt
    <2>3. CASE t = nxt
      BY <2>1, <2>2, <2>3, LastOnly
    <2>4. CASE t # nxt
      BY <2>1, <2>2, <2>4 DEF Segment
    <2> QED BY <2>3, <2>4
  <1> HIDE DEF new, nxt, l, v
  <1>11. ASSUME NEW t \in DOMAIN hdr \ {s}
         PROVE  /\ g[t].length = hdr[t].length /\ g[t].next = hdr[t].next /\ g[t].free = hdr[t].free
                /\ g[t].last = IF t = nxt THEN new ELSE hdr[t].last
    <2>1. g[t] = [length |-> hdr[t].length, next |-> hdr[t].next,
                  last |-> IF t = nxt THEN new ELSE hdr[t].last, free |-> hdr[t].free]
      BY <1>10
    <2> QED BY <2>1
  <1>12. /\ g[s].length = n /\ g[s].next = new /\ g[s].last = hdr[s].last /\ g[s].free = FALSE
         /\ g[new].length = v /\ g[new].next = nxt /\ g[new].last = s /\ g[new].free = TRUE
    BY <1>8, <1>9
  <1>13. /\ k = (IF l = s THEN new ELSE l) /\ new = s + HDR + n
         /\ nxt = hdr[s].next
    BY <1>0, <1>4 DEF new, l, nxt
  <1>14. ASSUME NEW t \in DOMAIN g
         PROVE  g[t] \in Segment
    <2>1. CASE t = s
      <3>1. g[t] = [length |-> n, next |-> new, last |-> hdr[s].last, free |-> FALSE]
        BY <1>8, <2>1
      <3> QED BY <1>3, <1>4, <3>1 DEF Segment
    <2>2. CASE t = new
      <3>1. g[t] = [length |-> v, next |-> nxt, last |-> s, free |-> TRUE]
        BY <1>9, <2>2
      <3> QED BY <1>3, <1>4, <3>1 DEF Segment
    <2>3. CASE t \in DOMAIN hdr \ {s}
      <3>1. g[t] = [length |-> hdr[t].length, next |-> hdr[t].next,
                    last |-> IF t = nxt THEN new ELSE hdr[t].last, free |-> hdr[t].free]
        BY <1>10, <2>3
      <3>2. hdr[t] \in Segment /\ new \in Nat
        BY <1>2, <1>4, <2>3
      <3> QED BY <3>1, <3>2 DEF Segment
    <2> QED BY <1>7, <2>1, <2>2, <2>3
  <1>15. \A t \in DOMAIN g : t <= k
    <2>1. CASE s = l
      BY <1>1, <1>4, <1>7, <1>13, <2>1 DEF l
    <2>2. CASE s # l
      <3>1. new <= l
        BY <1>1, <1>4, <1>5, <2>2
      <3> QED BY <1>1, <1>7, <1>13, <2>2, <3>1 DEF l
    <2> QED BY <2>1, <2>2
  <1>16. ASSUME NEW t \in DOMAIN g, t # k
         PROVE  /\ g[t].next \in DOMAIN g /\ t < g[t].next
                /\ \A u \in DOMAIN g : t < u => g[t].next <= u
                /\ g[t].next = IF t = x THEN First ELSE t + HDR + g[t].length
                /\ g[t].next # x => g[g[t].next].last = t
    <2>1. CASE t = s
      <3>1. \A u \in DOMAIN hdr : s < u => new <= u
        BY <1>1, <1>4, <1>6
      <3> QED BY <1>4, <1>7, <1>12, <1>13, <2>1, <3>1
    <2>2. CASE t = new
      <3>1. s # l
        BY <1>13, <1>16, <2>2
      <3>2. nxt \in DOMAIN hdr /\ nxt = new + HDR + v /\ nxt # s /\ new # x
        BY <1>1, <1>4, <1>5, <1>6, <3>1
      <3>3. \A u \in DOMAIN hdr : new < u => nxt <= u
        BY <1>1, <1>4, <1>13, <3>1 DEF l
      <3>4. g[nxt].last = new
        BY <1>11, <3>2
      <3> QED BY <1>0, <1>4, <1>7, <1>12, <2>2, <3>2, <3>3, <3>4
    <2>3. CASE t \in DOMAIN hdr \ {s}
      <3>1. t # l
        BY <1>13, <1>16, <2>3, <1>1, <1>4 DEF l
      <3>2. /\ hdr[t].next \in DOMAIN hdr /\ t < hdr[t].next
            /\ \A u \in DOMAIN hdr : t < u => hdr[t].next <= u
            /\ hdr[t].next = IF t = x THEN First ELSE t + HDR + hdr[t].length
            /\ hdr[t].next # x => hdr[hdr[t].next].last = t
        BY <1>1, <2>3, <3>1 DEF l
      <3>3. t < new => hdr[t].next <= new
        <4>1. t < new => t < s
          BY <1>1, <1>4, <1>6, <2>3
        <4> QED BY <1>1, <1>4, <3>2, <4>1
      <3>4. hdr[t].next # nxt
        BY <1>0, <1>1, <1>4, <1>13, <2>3, <3>1, <3>2 DEF l
      <3>5. g[hdr[t].next].last = hdr[hdr[t].next].last
        BY <1>11, <1>12, <3>2, <3>4
      <3> QED BY <1>7, <1>11, <2>3, <3>2, <3>3, <3>5
    <2> QED BY <1>7, <2>1, <2>2, <2>3
  <1>17. /\ g[k].next = NULL
         /\ heap_end = IF k = x THEN First ELSE k + HDR + g[k].length
         /\ ~g[x].free /\ g[0].last = NULL
    <2>1. CASE s = l
      BY <1>0, <1>1, <1>3, <1>4, <1>5, <1>6, <1>11, <1>12, <1>13, <2>1 DEF l
    <2>2. CASE s # l
      BY <1>0, <1>1, <1>3, <1>4, <1>5, <1>11, <1>12, <1>13, <2>2 DEF l
    <2> QED BY <2>1, <2>2
  <1>18. ASSUME NEW t \in DOMAIN g \ {0, x}
         PROVE  g[t].last \in DOMAIN g \ {k} /\ g[g[t].last].next = t
    <2>1. CASE t = new
      BY <1>1, <1>4, <1>6, <1>7, <1>12, <1>13, <2>1 DEF l
    <2>2. CASE t = nxt
      <3>1. s # l /\ t \in DOMAIN hdr \ {s} /\ nxt = new + HDR + v
        BY <1>0, <1>1, <1>4, <1>5, <1>7, <1>13, <1>18, <2>2 DEF l
      <3> QED BY <1>1, <1>4, <1>6, <1>7, <1>11, <1>12, <1>13, <2>2, <3>1 DEF l
    <2>3. CASE t \in DOMAIN hdr /\ t # nxt
      <3>1. /\ hdr[t].last \in DOMAIN hdr \ {l} /\ hdr[hdr[t].last].next = t
        BY <1>1, <1>18, <2>3 DEF l
      <3>2. hdr[t].last # s /\ g[t].last = hdr[t].last
        BY <1>11, <1>12, <1>13, <2>3, <3>1
      <3> QED BY <1>6, <1>7, <1>11, <1>13, <3>1, <3>2
    <2> QED BY <1>7, <1>18, <2>1, <2>2, <2>3
  <1>19. List(g, k, heap_end, x)
    <2>1. DOMAIN g \subseteq Nat /\ heap_end \in Nat /\ {0, k, x} \subseteq DOMAIN g
      BY <1>1, <1>4, <1>7, <1>13 DEF l
    <2>2. x # 0 /\ x < First
      BY <1>1
    <2> QED BY <1>14, <1>15, <1>16, <1>17, <1>18, <2>1, <2>2 DEF List
  <1>20. Apart(g, k, {})
    <2>1. \A t \in DOMAIN hdr : t # l => ~(hdr[t].free /\ hdr[hdr[t].next].free)
      BY DEF Apart, l
    <2>2. SUFFICES ASSUME NEW t \in DOMAIN g, t # k, g[t].free, g[g[t].next].free
                   PROVE  FALSE
      BY DEF Apart
    <2>3. t # s
      BY <1>12, <2>2
    <2>4. CASE t = new
      <3>1. s # l /\ nxt \in DOMAIN hdr \ {s}
        BY <1>0, <1>1, <1>4, <1>5, <1>13, <2>2, <2>4 DEF l
      <3> QED BY <1>11, <1>12, <1>13, <2>1, <2>2, <2>4, <3>1
    <2>5. CASE t \in DOMAIN hdr
      <3>1. t # l /\ hdr[t].next \in DOMAIN hdr
        BY <1>1, <1>4, <1>13, <2>2, <2>3, <2>5 DEF l
      <3> QED BY <1>11, <1>12, <2>1, <2>2, <2>3, <2>5, <3>1
    <2> QED BY <1>7, <2>2, <2>4, <2>5
  <1> QED
    BY <1>6, <1>7, <1>11, <1>12, <1>19, <1>20 DEF new, Divided

(* What was used in h is as it was in new. *)
Keeps(h, new) ==
    /\ DOMAIN new.h \subseteq DOMAIN h
    /\ \A t \in DOMAIN h \ DOMAIN new.h : h[t].free
    /\ \A t \in DOMAIN new.h :
         /\ new.h[t].free = h[t].free
         /\ h[t].free \/ new.h[t].length = h[t].length

(* A merge with the segment in front. *)
LEMMA CombineBackward ==
    ASSUME NEW h, NEW l, NEW e, NEW x, NEW s \in DOMAIN h \ {0, x},
           List(h, l, e, x), Apart(h, l, {h[s].last}),
           NEW new, new = header_combine_backward([h |-> h, last |-> l], s)
    PROVE  List(new.h, new.last, e, x) /\ Apart(new.h, new.last, {}) /\ Keeps(h, new)
  <1> DEFINE p == h[s].last
  <1>1. p \in DOMAIN h /\ p # NULL /\ ~h[x].free
    BY Constants DEF List
  <1>2. CASE ~h[p].free
    <2>1. new.h = h /\ new.last = l
      BY <1>1, <1>2 DEF header_combine_backward
    <2>2. Apart(h, l, {})
      BY <1>2 DEF Apart
    <2> QED BY <2>1, <2>2 DEF Keeps
  <1>3. CASE h[p].free
    <2>1. new = header_combine_forward([h |-> h, last |-> l], p)
      BY <1>1, <1>3 DEF header_combine_backward
    <2>2. p \in DOMAIN h \ {x}
      BY <1>1, <1>3
    <2>3. /\ List(h, l, e, x) /\ Apart(h, l, {p})
          /\ p # l => h[p].next \notin {p} \ {p}
      OBVIOUS
    <2> HIDE DEF p
    <2>4. Merged(h, l, e, x, {p} \ {p}, p, new)
      BY <2>1, <2>2, <2>3, CombineForward
    <2>5. {p} \ {p} = {}
      OBVIOUS
    <2>6. Merged(h, l, e, x, {}, p, new)
      BY <2>4, <2>5
    <2> QED BY <1>3, <2>6 DEF Merged, Keeps
  <1> QED BY <1>2, <1>3

(* The list ends before the heap does. *)
LEMMA InsideHeap ==
    ASSUME NEW h, NEW l, NEW e, NEW x, List(h, l, e, x)
    PROVE  \A t \in DOMAIN h : t \in Nat /\ t < e
  <1>1. l < e /\ e \in Nat /\ l \in Nat
    <2>1. HDR = 2 /\ First \in Nat
      BY Constants
    <2>2. h[l].length \in Nat
      BY DEF List, Segment
    <2> QED BY <2>1, <2>2 DEF List
  <1> QED BY <1>1 DEF List

(* g is the list with a new segment at the end of the heap. *)
Grown(g, len) ==
    /\ DOMAIN g = DOMAIN hdr \cup {heap_end}
    /\ g[heap_end] = [length |-> len - HDR, next |-> NULL, last |-> last_header, free |-> TRUE]
    /\ \A t \in DOMAIN hdr :
          g[t] = [length |-> hdr[t].length,
                  next |-> IF t = last_header THEN heap_end ELSE hdr[t].next,
                  last |-> hdr[t].last, free |-> hdr[t].free]

(* A new free segment at the end of the heap. *)
LEMMA Expand ==
    ASSUME NEW x, List(hdr, last_header, heap_end, x), Apart(hdr, last_header, {}),
           NEW len \in Nat, len >= HDR, NEW g, Grown(g, len)
    PROVE  /\ List(g, heap_end, heap_end + len, x) /\ Apart(g, heap_end, {last_header})
           /\ heap_end \notin DOMAIN hdr /\ DOMAIN g = DOMAIN hdr \cup {heap_end}
           /\ g[heap_end].free /\ g[heap_end].last = last_header
           /\ \A t \in DOMAIN hdr : g[t].free = hdr[t].free /\ g[t].length = hdr[t].length
  <1> DEFINE l == last_header
             new == heap_end
  <1>0. NULL = -1 /\ HDR = 2 /\ First \in Nat
    BY Constants
  <1>1. /\ DOMAIN hdr \subseteq Nat /\ new \in Nat /\ {0, l, x} \subseteq DOMAIN hdr
        /\ \A t \in DOMAIN hdr : t <= l
        /\ \A t \in DOMAIN hdr : t # l =>
             /\ hdr[t].next \in DOMAIN hdr /\ t < hdr[t].next
             /\ \A u \in DOMAIN hdr : t < u => hdr[t].next <= u
             /\ hdr[t].next = IF t = x THEN First ELSE t + HDR + hdr[t].length
             /\ hdr[t].next # x => hdr[hdr[t].next].last = t
        /\ hdr[l].next = NULL
        /\ new = IF l = x THEN First ELSE l + HDR + hdr[l].length
        /\ x # 0 /\ ~hdr[x].free /\ x < First
        /\ hdr[0].last = NULL
        /\ \A t \in DOMAIN hdr \ {0, x} : hdr[t].last \in DOMAIN hdr \ {l} /\ hdr[hdr[t].last].next = t
    BY DEF List
  <1>2. \A t \in DOMAIN hdr : hdr[t] \in Segment
    BY DEF List
  <1>4. \A t \in DOMAIN hdr : t \in Nat /\ t < new
    BY InsideHeap
  <1>5. new \notin DOMAIN hdr /\ DOMAIN g = DOMAIN hdr \cup {new}
    BY <1>4 DEF Grown
  <1>6. g[new] = [length |-> len - HDR, next |-> NULL, last |-> l, free |-> TRUE]
    BY DEF Grown
  <1>7. ASSUME NEW t \in DOMAIN hdr
        PROVE  g[t] = [length |-> hdr[t].length, next |-> IF t = l THEN new ELSE hdr[t].next,
                       last |-> hdr[t].last, free |-> hdr[t].free]
    BY DEF Grown
  <1> HIDE DEF new, l
  <1>8. ASSUME NEW t \in DOMAIN hdr
        PROVE  /\ g[t].length = hdr[t].length /\ g[t].next = IF t = l THEN new ELSE hdr[t].next
               /\ g[t].last = hdr[t].last /\ g[t].free = hdr[t].free
    <2>1. g[t] = [length |-> hdr[t].length, next |-> IF t = l THEN new ELSE hdr[t].next,
                  last |-> hdr[t].last, free |-> hdr[t].free]
      BY <1>7
    <2> QED BY <2>1
  <1>9. /\ g[new].length = len - HDR /\ g[new].next = NULL
        /\ g[new].last = l /\ g[new].free = TRUE
    BY <1>6
  <1>10. ASSUME NEW t \in DOMAIN g
         PROVE  g[t] \in Segment
    <2>1. CASE t = new
      <3>1. l \in Nat /\ len - HDR \in Nat
        BY <1>0, <1>1
      <3>2. g[t] = [length |-> len - HDR, next |-> NULL, last |-> l, free |-> TRUE]
        BY <1>6, <2>1
      <3> QED BY <3>1, <3>2 DEF Segment
    <2>2. CASE t \in DOMAIN hdr
      <3>1. g[t] = [length |-> hdr[t].length, next |-> IF t = l THEN new ELSE hdr[t].next,
                    last |-> hdr[t].last, free |-> hdr[t].free]
        BY <1>7, <2>2
      <3>2. hdr[t] \in Segment /\ new \in Nat
        BY <1>1, <1>2, <2>2
      <3> QED BY <3>1, <3>2 DEF Segment
    <2> QED BY <1>5, <2>1, <2>2
  <1>11. ASSUME NEW t \in DOMAIN g, t # new
         PROVE  /\ g[t].next \in DOMAIN g /\ t < g[t].next
                /\ \A u \in DOMAIN g : t < u => g[t].next <= u
                /\ g[t].next = IF t = x THEN First ELSE t + HDR + g[t].length
                /\ g[t].next # x => g[g[t].next].last = t
    <2>0. t \in DOMAIN hdr
      BY <1>5, <1>11
    <2>1. CASE t = l
      <3>1. g[t].next = new /\ new # x
        BY <1>1, <1>5, <1>8, <2>0, <2>1
      <3>2. \A u \in DOMAIN g : t < u => u = new
        BY <1>1, <1>4, <1>5, <2>1
      <3>3. new = IF t = x THEN First ELSE t + HDR + g[t].length
        BY <1>1, <1>8, <2>0, <2>1
      <3> QED BY <1>1, <1>4, <1>5, <1>9, <2>0, <2>1, <3>1, <3>2, <3>3
    <2>2. CASE t # l
      <3>1. g[t].next = hdr[t].next /\ hdr[t].next \in DOMAIN hdr
        BY <1>1, <1>8, <2>0, <2>2
      <3>2. \A u \in DOMAIN g : t < u => hdr[t].next <= u
        BY <1>1, <1>4, <1>5, <2>0, <2>2, <3>1
      <3>3. g[hdr[t].next].last = hdr[hdr[t].next].last
        BY <1>8, <3>1
      <3> QED BY <1>1, <1>5, <1>8, <2>0, <2>2, <3>1, <3>2, <3>3
    <2> QED BY <2>1, <2>2
  <1>12. /\ new + len = IF new = x THEN First ELSE new + HDR + g[new].length
         /\ ~g[x].free /\ g[0].last = NULL
    BY <1>0, <1>1, <1>5, <1>8, <1>9
  <1>13. ASSUME NEW t \in DOMAIN g \ {0, x}
         PROVE  g[t].last \in DOMAIN g \ {new} /\ g[g[t].last].next = t
    <2>1. CASE t = new
      BY <1>1, <1>5, <1>8, <1>9, <2>1
    <2>2. CASE t \in DOMAIN hdr
      <3>1. hdr[t].last \in DOMAIN hdr \ {l} /\ hdr[hdr[t].last].next = t
        BY <1>1, <1>13, <2>2
      <3> QED BY <1>5, <1>8, <2>2, <3>1
    <2> QED BY <1>5, <2>1, <2>2
  <1>14. List(g, new, new + len, x)
    <2>1. /\ DOMAIN g \subseteq Nat /\ new + len \in Nat /\ {0, new, x} \subseteq DOMAIN g
          /\ \A t \in DOMAIN g : t <= new
      BY <1>1, <1>4, <1>5
    <2>2. x # 0 /\ x < First
      BY <1>1
    <2> QED BY <1>9, <1>10, <1>11, <1>12, <1>13, <2>1, <2>2 DEF List
  <1>15. Apart(g, new, {l})
    <2>1. \A t \in DOMAIN hdr : t # l => ~(hdr[t].free /\ hdr[hdr[t].next].free)
      BY DEF Apart, l
    <2>2. SUFFICES ASSUME NEW t \in DOMAIN hdr, t # l
                   PROVE  ~(g[t].free /\ g[g[t].next].free)
      BY <1>5 DEF Apart
    <2> QED BY <1>1, <1>8, <2>1, <2>2
  <1> QED
    BY <1>5, <1>8, <1>9, <1>14, <1>15 DEF new, l

(* g is the list but for the free flag of s. *)
Marked(g, s) ==
    /\ DOMAIN g = DOMAIN hdr /\ g[s].free \in BOOLEAN
    /\ \A t \in DOMAIN hdr :
          g[t] = [length |-> hdr[t].length, next |-> hdr[t].next, last |-> hdr[t].last,
                  free |-> IF t = s THEN g[s].free ELSE hdr[t].free]

LEMMA Mark ==
    ASSUME NEW x, List(hdr, last_header, heap_end, x), NEW s \in DOMAIN hdr, NEW b \in BOOLEAN
    PROVE  /\ Marked([hdr EXCEPT ![s].free = b], s)
           /\ [hdr EXCEPT ![s].free = b][s].free = b
  <1> DEFINE g == [hdr EXCEPT ![s].free = b]
  <1>1. DOMAIN g = DOMAIN hdr
    OBVIOUS
  <1>2. ASSUME NEW t \in DOMAIN hdr
        PROVE  g[t] = [length |-> hdr[t].length, next |-> hdr[t].next, last |-> hdr[t].last,
                       free |-> IF t = s THEN b ELSE hdr[t].free]
    <2>1. g[t] = IF t = s THEN [hdr[t] EXCEPT !.free = b] ELSE hdr[t]
      OBVIOUS
    <2>2. hdr[t] \in Segment
      BY DEF List
    <2> HIDE DEF g
    <2>3. CASE t = s
      BY <2>1, <2>2, <2>3, FreeOnly
    <2>4. CASE t # s
      BY <2>1, <2>2, <2>4 DEF Segment
    <2> QED BY <2>3, <2>4
  <1> HIDE DEF g
  <1>3. g[s].free = b
    <2>1. g[s] = [length |-> hdr[s].length, next |-> hdr[s].next, last |-> hdr[s].last, free |-> b]
      BY <1>2
    <2> QED BY <2>1
  <1>4. Marked(g, s)
    BY <1>1, <1>2, <1>3 DEF Marked
  <1> QED BY <1>3, <1>4 DEF g

(* A segment given back, before it is merged, or taken as it is. *)
LEMMA MarkedList ==
    ASSUME NEW x, List(hdr, last_header, heap_end, x), Apart(hdr, last_header, {}),
           NEW s \in DOMAIN hdr \ {x}, NEW g, Marked(g, s)
    PROVE  /\ List(g, last_header, heap_end, x)
           /\ g[s].last = hdr[s].last /\ g[s].length = hdr[s].length
           /\ s # 0 => /\ Apart(g, last_header, {hdr[s].last, s})
                       /\ hdr[s].last # s /\ (s # last_header => g[s].next # hdr[s].last)
           /\ ~g[s].free => Apart(g, last_header, {})
           /\ DOMAIN g = DOMAIN hdr
           /\ \A t \in DOMAIN hdr \ {s} : g[t].free = hdr[t].free /\ g[t].length = hdr[t].length
  <1> DEFINE l == last_header
             new == heap_end
  <1>1. /\ DOMAIN hdr \subseteq Nat /\ new \in Nat /\ {0, l, x} \subseteq DOMAIN hdr
        /\ \A t \in DOMAIN hdr : t <= l
        /\ \A t \in DOMAIN hdr : t # l =>
             /\ hdr[t].next \in DOMAIN hdr /\ t < hdr[t].next
             /\ \A u \in DOMAIN hdr : t < u => hdr[t].next <= u
             /\ hdr[t].next = IF t = x THEN First ELSE t + HDR + hdr[t].length
             /\ hdr[t].next # x => hdr[hdr[t].next].last = t
        /\ hdr[l].next = NULL
        /\ new = IF l = x THEN First ELSE l + HDR + hdr[l].length
        /\ x # 0 /\ ~hdr[x].free /\ x < First
        /\ hdr[0].last = NULL
        /\ \A t \in DOMAIN hdr \ {0, x} : hdr[t].last \in DOMAIN hdr \ {l} /\ hdr[hdr[t].last].next = t
    BY DEF List
  <1>2. \A t \in DOMAIN hdr : hdr[t] \in Segment
    BY DEF List
  <1> HIDE DEF l, new
  <1>3. ASSUME NEW t \in DOMAIN hdr
        PROVE  /\ g[t] \in Segment
               /\ g[t].length = hdr[t].length /\ g[t].next = hdr[t].next
               /\ g[t].last = hdr[t].last /\ g[t].free = IF t = s THEN g[s].free ELSE hdr[t].free
    <2>1. g[t] = [length |-> hdr[t].length, next |-> hdr[t].next, last |-> hdr[t].last,
                  free |-> IF t = s THEN g[s].free ELSE hdr[t].free]
      BY DEF Marked
    <2>2. g[t] \in Segment
      <3>1. hdr[t] \in Segment /\ g[s].free \in BOOLEAN
        BY <1>2 DEF Marked
      <3>2. CASE t = s
        BY <2>1, <3>1, <3>2 DEF Segment
      <3>3. CASE t # s
        BY <2>1, <3>1, <3>3 DEF Segment
      <3> QED BY <3>2, <3>3
    <2> QED BY <2>1, <2>2
  <1>d. DOMAIN g = DOMAIN hdr
    BY DEF Marked
  <1>f. \A t \in DOMAIN hdr :
               /\ g[t].length = hdr[t].length /\ g[t].next = hdr[t].next
               /\ g[t].last = hdr[t].last /\ g[t].free = IF t = s THEN g[s].free ELSE hdr[t].free
    BY <1>3
  <1>5. List(g, l, new, x)
    <2>1. ASSUME NEW t \in DOMAIN hdr, t # l
          PROVE  /\ g[t].next \in DOMAIN g /\ t < g[t].next
                 /\ \A u \in DOMAIN g : t < u => g[t].next <= u
                 /\ g[t].next = IF t = x THEN First ELSE t + HDR + g[t].length
                 /\ g[t].next # x => g[g[t].next].last = t
      <3>1. /\ hdr[t].next \in DOMAIN hdr /\ t < hdr[t].next
            /\ \A u \in DOMAIN hdr : t < u => hdr[t].next <= u
            /\ hdr[t].next = IF t = x THEN First ELSE t + HDR + hdr[t].length
            /\ hdr[t].next # x => hdr[hdr[t].next].last = t
        BY <1>1, <2>1
      <3> QED BY <1>d, <1>f, <3>1
    <2>2. ASSUME NEW t \in DOMAIN hdr \ {0, x}
          PROVE  g[t].last \in DOMAIN g \ {l} /\ g[g[t].last].next = t
      <3>1. hdr[t].last \in DOMAIN hdr \ {l} /\ hdr[hdr[t].last].next = t
        BY <1>1, <2>2
      <3> QED BY <1>d, <1>f, <3>1
    <2>3. /\ g[l].next = NULL /\ ~g[x].free /\ g[0].last = NULL
          /\ new = IF l = x THEN First ELSE l + HDR + g[l].length
      BY <1>1, <1>f
    <2> QED BY <1>1, <1>3, <1>d, <2>1, <2>2, <2>3 DEF List
  <1>6. \A t \in DOMAIN hdr : t # l => ~(hdr[t].free /\ hdr[hdr[t].next].free)
    BY DEF Apart, l
  <1>7. ASSUME s # 0
        PROVE  /\ Apart(g, l, {hdr[s].last, s})
               /\ hdr[s].last # s /\ (s # l => g[s].next # hdr[s].last)
    <2>1. hdr[s].last \in DOMAIN hdr /\ hdr[s].last < s /\ (s # l => s < hdr[s].next)
      BY <1>1, <1>7
    <2>2. hdr[s].last # s /\ (s # l => g[s].next # hdr[s].last)
      <3>1. s \in Nat /\ hdr[s].last \in Nat /\ (s # l => hdr[s].next \in Nat)
        BY <1>1, <2>1
      <3>2. g[s].next = hdr[s].next
        BY <1>f
      <3> QED BY <2>1, <3>1, <3>2
    <2>3. ASSUME NEW t \in DOMAIN hdr \ {hdr[s].last, s}, t # l
          PROVE  ~(g[t].free /\ g[g[t].next].free)
      <3>1. hdr[t].next \in DOMAIN hdr /\ hdr[t].next # s
        BY <1>1, <2>3
      <3> QED BY <1>f, <1>6, <2>3, <3>1
    <2> QED BY <1>d, <2>2, <2>3 DEF Apart
  <1>8. ASSUME ~g[s].free
        PROVE  Apart(g, l, {})
    <2>1. ASSUME NEW t \in DOMAIN hdr, t # l
          PROVE  ~(g[t].free /\ g[g[t].next].free)
      <3>1. hdr[t].next \in DOMAIN hdr
        BY <1>1, <2>1
      <3> QED BY <1>f, <1>6, <1>8, <2>1, <3>1
    <2> QED BY <1>d, <2>1 DEF Apart
  <1>9. /\ g[s].last = hdr[s].last /\ g[s].length = hdr[s].length
        /\ \A t \in DOMAIN hdr \ {s} : g[t].free = hdr[t].free /\ g[t].length = hdr[t].length
    BY <1>f
  <1> QED
    BY <1>5, <1>7, <1>8, <1>9, <1>d DEF l, new

(* A segment given back. *)
LEMMA Given ==
    ASSUME NEW x, List(hdr, last_header, heap_end, x), Apart(hdr, last_header, {}),
           NEW s \in DOMAIN hdr \ {0, x}, Release(s)
    PROVE  /\ List(hdr', last_header', heap_end', x) /\ Apart(hdr', last_header', {})
           /\ DOMAIN hdr' \subseteq DOMAIN hdr
           /\ \A t \in DOMAIN hdr \ DOMAIN hdr' : hdr[t].free \/ t = s
           /\ \A t \in DOMAIN hdr' \ {s} :
                /\ hdr'[t].free = hdr[t].free
                /\ hdr[t].free \/ hdr'[t].length = hdr[t].length
           /\ s \in DOMAIN hdr' => hdr'[s].free
  <1> DEFINE g   == [hdr EXCEPT ![s].free = TRUE]
             mid == header_combine_forward([h |-> g, last |-> last_header], s)
             new == header_combine_backward(mid, s)
             p   == hdr[s].last
  <1>1. Marked(g, s) /\ g[s].free
    BY Mark
  <1>3. hdr' = new.h /\ last_header' = new.last /\ heap_end' = heap_end
    BY DEF Release, SetHeap
  <1> HIDE DEF g
  <1>4. /\ DOMAIN g = DOMAIN hdr /\ List(g, last_header, heap_end, x) /\ Apart(g, last_header, {p, s})
        /\ g[s].free /\ g[s].last = p /\ p # s /\ (s # last_header => g[s].next # p)
        /\ \A t \in DOMAIN hdr \ {s} : g[t].free = hdr[t].free /\ g[t].length = hdr[t].length
    BY <1>1, MarkedList
  <1> HIDE DEF p
  <1>5. Merged(g, last_header, heap_end, x, {p, s} \ {s}, s, mid)
    <2>1. s \in DOMAIN g \ {x} /\ (s # last_header => g[s].next \notin {p, s} \ {s})
      BY <1>4
    <2> QED BY <1>4, <2>1, CombineForward
  <1>6. {p, s} \ {s} = {p}
    BY <1>4
  <1>7. mid = [h |-> mid.h, last |-> mid.last]
    BY DEF header_combine_forward
  <1> HIDE DEF mid
  <1>8. /\ List(mid.h, mid.last, heap_end, x) /\ Apart(mid.h, mid.last, {p})
        /\ DOMAIN mid.h \subseteq DOMAIN g /\ s \in DOMAIN mid.h
        /\ mid.h[s].free /\ mid.h[s].last = p
        /\ \A t \in DOMAIN g \ DOMAIN mid.h : g[t].free
        /\ \A t \in DOMAIN mid.h \ {s} : mid.h[t].free = g[t].free /\ mid.h[t].length = g[t].length
    BY <1>4, <1>5, <1>6 DEF Merged
  <1>9. List(new.h, new.last, heap_end, x) /\ Apart(new.h, new.last, {}) /\ Keeps(mid.h, new)
    <2>1. /\ s \in DOMAIN mid.h \ {0, x} /\ Apart(mid.h, mid.last, {mid.h[s].last})
          /\ new = header_combine_backward([h |-> mid.h, last |-> mid.last], s)
      BY <1>7, <1>8
    <2> HIDE DEF new
    <2> QED BY <1>8, <2>1, CombineBackward
  <1> HIDE DEF new
  <1>10. /\ DOMAIN new.h \subseteq DOMAIN mid.h
         /\ \A t \in DOMAIN mid.h \ DOMAIN new.h : mid.h[t].free
         /\ \A t \in DOMAIN new.h :
              /\ new.h[t].free = mid.h[t].free
              /\ mid.h[t].free \/ new.h[t].length = mid.h[t].length
    BY <1>9 DEF Keeps
  <1> QED
    BY <1>3, <1>4, <1>8, <1>9, <1>10

-----------------------------------------------------------------------------
(* Before the first block, which is the pools' node. *)
Virgin ==
    /\ DOMAIN hdr = {0}
    /\ hdr[0] = [length |-> First - HDR, next |-> NULL, last |-> NULL, free |-> TRUE]
    /\ last_header = 0 /\ heap_end = First
    /\ DOMAIN blocks = {}
    /\ \/ pc = "idle" /\ caller = AnyCaller
       \/ pc = "malloc" /\ caller = PoolCaller /\ size = NodeSize /\ current = 0

(* Every segment but x is free or handed out, and is as long as was asked.    *)
Used(h, b, x) ==
    /\ DOMAIN b \subseteq DOMAIN h /\ x \notin DOMAIN b
    /\ \A s \in DOMAIN b : ~h[s].free /\ h[s].length >= b[s]
    /\ \A s \in DOMAIN h : h[s].free \/ s \in DOMAIN b \/ s = x

(* From the first block on: where the call that runs has got. *)
Calls ==
    /\ pc \in {"idle", "malloc", "expand", "free"}
    /\ caller \in {AnyCaller} \cup (DOMAIN blocks \ {0})
    /\ pc = "idle" => caller = AnyCaller
    /\ pc = "malloc" => current \in DOMAIN hdr
    /\ pc \in {"malloc", "expand"} => size \in Nat \ {0}
    /\ pc = "free" => caller \in DOMAIN blocks \ {0}

HeapInv ==
    \/ lost = NULL /\ Virgin
    \/ /\ lost \in Nat
       /\ List(hdr, last_header, heap_end, lost) /\ Apart(hdr, last_header, {})
       /\ Used(hdr, blocks, lost)
       /\ Calls

LEMMA InvInit == Init => HeapInv
  <1> SUFFICES ASSUME Init PROVE Virgin /\ lost = NULL
    BY DEF HeapInv
  <1>1. DOMAIN hdr = {0} /\ heap_end = First
    BY DEF Init, First
  <1>2. hdr[0] = [length |-> First - HDR, next |-> NULL, last |-> NULL, free |-> TRUE]
    BY <1>1 DEF Init
  <1> QED BY <1>1, <1>2 DEF Init, Virgin

(* The first block: the header behind it is wiped. *)
LEMMA InvFirst ==
    ASSUME Virgin, lost = NULL, [Next]_vars
    PROVE  HeapInv'
  <1> DEFINE w == NodeSize + HDR
             wiped == [length |-> 0, next |-> NULL, last |-> NULL, free |-> FALSE]
  <1>0. /\ NULL = -1 /\ HDR = 2 /\ MINLEN = 1 /\ AnyCaller = -1 /\ PoolCaller = -2
        /\ First \in Nat /\ w \in Nat /\ NodeSize \in Nat \ {0} /\ w < PageUnits
        /\ First >= w + w /\ PageUnits \in Nat
    BY Constants DEF AnyCaller, PoolCaller
  <1>1. /\ DOMAIN hdr = {0} /\ hdr[0].length = First - HDR /\ hdr[0].next = NULL
        /\ hdr[0].last = NULL /\ hdr[0].free = TRUE /\ DOMAIN blocks = {}
        /\ hdr[0] \in Segment
    BY <1>0 DEF Virgin, Segment
  <1>2. CASE UNCHANGED vars
    BY <1>2 DEF HeapInv, Virgin, vars
  <1>3. CASE pool_node_call
    BY <1>3 DEF HeapInv, Virgin, pool_node_call, StartMalloc
  <1>4. CASE malloc_splits
    <2>1. /\ current = 0 /\ size = NodeSize /\ caller = PoolCaller /\ last_header = 0
          /\ heap_end = First
      BY <1>0, <1>4 DEF malloc_splits, Virgin
    <2> DEFINE h == SplitAndTake(0, NodeSize)
    <2>2. Deliver(0, h) /\ last_header' = w
      BY <1>0, <1>4, <2>1 DEF malloc_splits
    <2>3. DOMAIN h = {0, w}
      BY <1>0, <1>1 DEF SplitAndTake
    <2>4. h[0] = [length |-> NodeSize, next |-> w, last |-> NULL, free |-> FALSE]
      <3> DEFINE z == 0 + NodeSize + HDR
      <3>0. z = w /\ w \in Nat /\ NodeSize \in Nat /\ hdr[0].last = NULL
        BY <1>0, <1>1
      <3>1. h[0] = [hdr[0] EXCEPT !.length = NodeSize, !.next = z, !.free = FALSE]
        <4>1. 0 \in DOMAIN hdr
          BY <1>1
        <4> QED BY <4>1 DEF SplitAndTake
      <3> HIDE DEF z, w, h
      <3>2. [hdr[0] EXCEPT !.length = NodeSize, !.next = w, !.free = FALSE] =
              [length |-> NodeSize, next |-> w, last |-> hdr[0].last, free |-> FALSE]
        <4>1. hdr[0] \in Segment
          BY <1>1
        <4> QED BY <3>0, <4>1, LengthNextAndFree
      <3> QED BY <3>0, <3>1, <3>2
    <2> HIDE DEF h
    <2>5. {t \in DOMAIN h : 0 + HDR <= t /\ t < 0 + HDR + PageUnits} = {w}
      BY <1>0, <2>3
    <2>6. /\ DOMAIN hdr' = {0, w} /\ hdr'[0] = h[0] /\ hdr'[w] = wiped /\ lost' = w
      BY <1>0, <2>1, <2>2, <2>3, <2>5 DEF Deliver
    <2>7. /\ heap_end' = First /\ pc' = "idle" /\ caller' = AnyCaller
          /\ DOMAIN blocks' = {0} /\ blocks'[0] = NodeSize
      <3>1. caller \notin Addr
        BY <1>0, <2>1 DEF Addr
      <3> QED BY <1>1, <2>1, <2>2, <3>1 DEF Deliver
    <2> HIDE DEF w
    <2>8. /\ hdr'[0].length = NodeSize /\ hdr'[0].next = w /\ hdr'[0].last = NULL
          /\ hdr'[0].free = FALSE /\ hdr'[w].next = NULL /\ hdr'[w].free = FALSE
          /\ hdr'[0] \in Segment /\ hdr'[w] \in Segment
      BY <1>0, <2>4, <2>6 DEF Segment
    <2>9. w > 0 /\ w = 0 + HDR + NodeSize /\ w < First
      BY <1>0 DEF w
    <2>10. List(hdr', last_header', heap_end', lost')
      BY <1>0, <2>2, <2>6, <2>7, <2>8, <2>9 DEF List
    <2>11. Apart(hdr', last_header', {})
      BY <2>2, <2>6, <2>8 DEF Apart
    <2>12. Used(hdr', blocks', lost')
      BY <1>0, <2>6, <2>7, <2>8, <2>9 DEF Used
    <2>13. Calls'
      BY <2>7 DEF Calls
    <2> QED
      BY <1>0, <2>6, <2>10, <2>11, <2>12, <2>13 DEF HeapInv
  <1>5. ~malloc_takes_whole /\ ~malloc_goes_on
    <2>1. pc = "malloc" => current = 0 /\ size = NodeSize
      BY DEF Virgin
    <2>2. hdr[0].length > NodeSize /\ Splits(0, NodeSize)
      BY <1>0, <1>1 DEF Splits
    <2>3. ~malloc_takes_whole
      BY <1>0, <1>1, <2>1, <2>2 DEF malloc_takes_whole
    <2>4. ~malloc_goes_on
      BY <1>0, <1>1, <2>1, <2>2 DEF malloc_goes_on
    <2> QED BY <2>3, <2>4
  <1>6. ~heap_expand /\ ~realloc_frees /\ ~malloc_call /\ ~realloc_call /\ ~free_call
    BY <1>1 DEF heap_expand, realloc_frees, malloc_call, realloc_call, free_call, Virgin
  <1> QED
    BY <1>2, <1>3, <1>4, <1>5, <1>6 DEF Next, Running, malloc

(* malloc hands out segment s of the list h. *)
LEMMA InvDeliver ==
    ASSUME lost \in Nat, ~hdr[lost].free, Used(hdr, blocks, lost), Calls, pc = "malloc",
           hdr[current].free, NEW h, Deliver(current, h),
           List(h, last_header', heap_end, lost), Apart(h, last_header', {}),
           DOMAIN hdr \subseteq DOMAIN h, ~h[current].free, h[current].length >= size,
           \A t \in DOMAIN hdr \ {current} : h[t].free = hdr[t].free /\ h[t].length = hdr[t].length,
           \A t \in DOMAIN h \ DOMAIN hdr : h[t].free
    PROVE  HeapInv'
  <1>1. current \in DOMAIN hdr /\ size \in Nat \ {0} /\ current \notin DOMAIN blocks
    BY DEF Calls, Used
  <1>2. caller # PoolCaller
    BY DEF PoolCaller, AnyCaller, Calls, Used, List
  <1>3. hdr' = h /\ lost' = lost /\ heap_end' = heap_end /\ ~hdr'[current].free
    BY <1>2 DEF Deliver
  <1>4. /\ DOMAIN blocks' = {current} \cup DOMAIN blocks
        /\ blocks'[current] = size
        /\ \A s \in DOMAIN blocks : blocks'[s] = blocks[s]
    BY <1>1 DEF Deliver
  <1>5. lost # current
    OBVIOUS
  <1>6. Used(hdr', blocks', lost')
    BY <1>1, <1>3, <1>4, <1>5 DEF Used
  <1>7. Calls'
    BY <1>1, <1>4 DEF Calls, Deliver, Addr, AnyCaller
  <1> QED
    BY <1>3, <1>6, <1>7 DEF HeapInv

(* A step from the first block on. *)
LEMMA InvStep ==
    ASSUME lost \in Nat, List(hdr, last_header, heap_end, lost), Apart(hdr, last_header, {}),
           Used(hdr, blocks, lost), Calls, [Next]_vars
    PROVE  HeapInv'
  <1>0. /\ NULL = -1 /\ HDR = 2 /\ AnyCaller = -1 /\ PoolCaller = -2
        /\ NodeSize \in Nat \ {0} /\ Sizes \subseteq Nat \ {0}
    BY Constants DEF AnyCaller, PoolCaller
  <1>1. /\ DOMAIN hdr \subseteq Nat /\ 0 \in DOMAIN hdr /\ lost \in DOMAIN hdr /\ ~hdr[lost].free
        /\ lost # 0 /\ \A t \in DOMAIN hdr : hdr[t] \in Segment
        /\ \A t \in DOMAIN hdr : t # last_header => hdr[t].next \in DOMAIN hdr
        /\ hdr[last_header].next = NULL
    BY DEF List
  <1>2. CASE UNCHANGED vars
    BY <1>2 DEF HeapInv, Used, Calls, vars
  <1>3. ~pool_node_call
    BY <1>0 DEF pool_node_call
  <1>4. CASE malloc_call
    BY <1>0, <1>1, <1>4 DEF HeapInv, Used, Calls, malloc_call, StartMalloc
  <1>5. CASE realloc_call
    BY <1>0, <1>1, <1>5 DEF HeapInv, Used, Calls, realloc_call, StartMalloc
  <1>6. CASE malloc_goes_on
    BY <1>0, <1>1, <1>6 DEF HeapInv, Used, Calls, malloc_goes_on
  <1>7. CASE malloc_splits
    <2> DEFINE h == SplitAndTake(current, size)
    <2>1. /\ current \in DOMAIN hdr /\ hdr[current].free /\ size \in Nat \ {0}
          /\ Splits(current, size) /\ pc = "malloc" /\ Deliver(current, h)
          /\ last_header' = IF last_header = current THEN current + size + HDR ELSE last_header
          /\ heap_end' = heap_end
      BY <1>7 DEF malloc_splits, Calls, Deliver
    <2> HIDE DEF h
    <2>2. /\ List(h, last_header', heap_end, lost) /\ Apart(h, last_header', {})
          /\ DOMAIN h = DOMAIN hdr \cup {current + size + HDR}
          /\ h[current + size + HDR].free /\ ~h[current].free /\ h[current].length = size
          /\ \A t \in DOMAIN hdr \ {current} : h[t].free = hdr[t].free /\ h[t].length = hdr[t].length
      <3> DEFINE k == last_header'
      <3>1. h = SplitAndTake(current, size)
        BY DEF h
      <3>2. k = IF last_header = current THEN current + size + HDR ELSE last_header
        BY <2>1
      <3> HIDE DEF k
      <3>3. Divided(lost, current, size, h, k)
        BY <2>1, <3>1, <3>2, Split
      <3> QED BY <3>3 DEF Divided, k
    <2>3. h[current].length >= size /\ \A t \in DOMAIN h \ DOMAIN hdr : h[t].free
      BY <2>1, <2>2
    <2> QED BY <1>1, <2>1, <2>2, <2>3, InvDeliver
  <1>8. CASE malloc_takes_whole
    <2> DEFINE h == [hdr EXCEPT ![current].free = FALSE]
    <2>1. /\ current \in DOMAIN hdr \ {lost} /\ hdr[current].free /\ size \in Nat \ {0}
          /\ pc = "malloc" /\ Deliver(current, h) /\ last_header' = last_header
      BY <1>1, <1>8 DEF malloc_takes_whole, Calls
    <2>2. hdr[current].length >= size
      BY <1>1, <1>8, <2>1 DEF malloc_takes_whole, Segment
    <2>3. Marked(h, current) /\ ~h[current].free
      BY <2>1, Mark
    <2> HIDE DEF h
    <2>4. /\ List(h, last_header, heap_end, lost) /\ Apart(h, last_header, {})
          /\ DOMAIN h = DOMAIN hdr /\ h[current].length = hdr[current].length
          /\ \A t \in DOMAIN hdr \ {current} : h[t].free = hdr[t].free /\ h[t].length = hdr[t].length
      <3>1. List(h, last_header, heap_end, lost)
        BY <2>1, <2>3, MarkedList
      <3>2. ~h[current].free => Apart(h, last_header, {})
        BY <2>1, <2>3, MarkedList
      <3>3. DOMAIN h = DOMAIN hdr
        BY <2>3 DEF Marked
      <3>4. ASSUME NEW t \in DOMAIN hdr
            PROVE  h[t].length = hdr[t].length /\ (t # current => h[t].free = hdr[t].free)
        <4>1. h[t] = [length |-> hdr[t].length, next |-> hdr[t].next, last |-> hdr[t].last,
                      free |-> IF t = current THEN h[current].free ELSE hdr[t].free]
          BY <2>3 DEF Marked
        <4> QED BY <4>1
      <3> QED BY <2>1, <2>3, <3>1, <3>2, <3>3, <3>4
    <2> QED BY <1>1, <2>1, <2>2, <2>3, <2>4, InvDeliver
  <1>9. CASE heap_expand
    <2> DEFINE len == RoundToPage(size)
               g   == [t \in DOMAIN hdr \cup {heap_end} |->
                         IF t = heap_end
                         THEN [length |-> len - HDR, next |-> NULL, last |-> last_header,
                               free |-> TRUE]
                         ELSE IF t = last_header THEN [hdr[t] EXCEPT !.next = heap_end]
                         ELSE hdr[t]]
               new == header_combine_backward([h |-> g, last |-> heap_end], heap_end)
    <2>1. /\ pc = "expand" /\ size \in Nat \ {0} /\ heap_end' = heap_end + len
          /\ hdr' = new.h /\ last_header' = new.last /\ pc' = "malloc" /\ current' = 0
          /\ UNCHANGED <<size, caller, blocks, lost>>
      BY <1>9 DEF heap_expand, SetHeap, Calls
    <2>2. len \in Nat /\ len >= HDR
      BY <2>1, Rounded, Constants
    <2>3. \A t \in DOMAIN hdr : t \in Nat /\ t < heap_end
      BY InsideHeap
    <2>4. Grown(g, len)
      <3>1. ASSUME NEW t \in DOMAIN hdr
            PROVE  g[t] = [length |-> hdr[t].length,
                           next |-> IF t = last_header THEN heap_end ELSE hdr[t].next,
                           last |-> hdr[t].last, free |-> hdr[t].free]
        <4>1. g[t] = IF t = last_header THEN [hdr[t] EXCEPT !.next = heap_end] ELSE hdr[t]
          BY <2>3
        <4>2. hdr[t] \in Segment /\ heap_end \in Nat
          BY <1>1 DEF List
        <4> HIDE DEF g
        <4>3. CASE t = last_header
          BY <4>1, <4>2, <4>3, NextOnly
        <4>4. CASE t # last_header
          BY <4>1, <4>2, <4>4 DEF Segment
        <4> QED BY <4>3, <4>4
      <3>2. /\ DOMAIN g = DOMAIN hdr \cup {heap_end}
            /\ g[heap_end] = [length |-> len - HDR, next |-> NULL, last |-> last_header,
                              free |-> TRUE]
        OBVIOUS
      <3> HIDE DEF g, len
      <3> QED BY <3>1, <3>2 DEF Grown
    <2> HIDE DEF g, len
    <2>5. /\ List(g, heap_end, heap_end + len, lost) /\ Apart(g, heap_end, {last_header})
          /\ heap_end \notin DOMAIN hdr /\ DOMAIN g = DOMAIN hdr \cup {heap_end}
          /\ g[heap_end].free /\ g[heap_end].last = last_header
          /\ \A t \in DOMAIN hdr : g[t].free = hdr[t].free /\ g[t].length = hdr[t].length
      BY <2>2, <2>4, Expand
    <2>6. heap_end \in DOMAIN g \ {0, lost}
      BY <1>1, <2>5
    <2>7. /\ List(new.h, new.last, heap_end + len, lost) /\ Apart(new.h, new.last, {})
          /\ Keeps(g, new)
      BY <2>5, <2>6, CombineBackward
    <2> HIDE DEF new
    <2>8. /\ DOMAIN hdr' \subseteq DOMAIN g
          /\ \A t \in DOMAIN g \ DOMAIN hdr' : g[t].free
          /\ \A t \in DOMAIN hdr' :
               /\ hdr'[t].free = g[t].free
               /\ g[t].free \/ hdr'[t].length = g[t].length
      BY <2>1, <2>7 DEF Keeps
    <2>9. Used(hdr', blocks', lost')
      BY <2>1, <2>5, <2>8 DEF Used
    <2>10. List(hdr', last_header', heap_end', lost') /\ Apart(hdr', last_header', {})
      BY <2>1, <2>7
    <2>11. Calls'
      <3>1. 0 \in DOMAIN hdr'
        BY <2>10 DEF List
      <3> QED BY <2>1, <3>1 DEF Calls
    <2> QED BY <2>1, <2>9, <2>10, <2>11 DEF HeapInv
  <1>10. ASSUME NEW s \in DOMAIN blocks \ {0}, Release(s), pc' = "idle", caller' = AnyCaller
         PROVE  HeapInv'
    <2>1. s \in DOMAIN hdr \ {0, lost} /\ ~hdr[s].free
      BY <1>10 DEF Used
    <2>2. /\ List(hdr', last_header', heap_end', lost) /\ Apart(hdr', last_header', {})
          /\ DOMAIN hdr' \subseteq DOMAIN hdr
          /\ \A t \in DOMAIN hdr \ DOMAIN hdr' : hdr[t].free \/ t = s
          /\ \A t \in DOMAIN hdr' \ {s} :
               /\ hdr'[t].free = hdr[t].free
               /\ hdr[t].free \/ hdr'[t].length = hdr[t].length
          /\ s \in DOMAIN hdr' => hdr'[s].free
      BY <1>10, <2>1, Given
    <2>3. /\ DOMAIN blocks' = DOMAIN blocks \ {s} /\ lost' = lost
          /\ \A t \in DOMAIN blocks' : blocks'[t] = blocks[t]
      BY <1>10 DEF Release
    <2>4. Used(hdr', blocks', lost')
      BY <2>2, <2>3 DEF Used
    <2>5. Calls'
      BY <1>10 DEF Calls
    <2> QED BY <2>2, <2>3, <2>4, <2>5 DEF HeapInv
  <1>11. CASE free_call
    BY <1>10, <1>11 DEF free_call, Calls
  <1>12. CASE realloc_frees
    BY <1>10, <1>12 DEF realloc_frees, Calls
  <1> QED
    BY <1>2, <1>3, <1>4, <1>5, <1>6, <1>7, <1>8, <1>9, <1>11, <1>12 DEF Next, Running, malloc

(* The list of segments is sound between any two steps of malloc, free and    *)
(* realloc, from the first block on.                                       *)
THEOREM ListSound == Spec => []HeapInv
  <1>1. HeapInv /\ [Next]_vars => HeapInv'
    BY InvFirst, InvStep DEF HeapInv
  <1> QED
    BY InvInit, <1>1, PTL DEF Spec

(* A block that malloc handed out is a used segment of its own, as long as was *)
(* asked, until free is called on it.                                      *)
THEOREM BlocksApart == Spec => []BlocksAreApart
  <1>1. HeapInv => BlocksAreApart
    <2>1. ASSUME Virgin PROVE BlocksAreApart
      <3>1. DOMAIN hdr = {0} /\ hdr[0].free = TRUE /\ DOMAIN blocks = {}
        BY <2>1 DEF Virgin
      <3> QED BY <3>1 DEF BlocksAreApart
    <2>2. ASSUME List(hdr, last_header, heap_end, lost), Used(hdr, blocks, lost)
          PROVE  BlocksAreApart
      <3>1. ASSUME NEW s \in DOMAIN blocks
            PROVE  /\ \A t \in DOMAIN hdr : t > s => EndOf(s) <= t
                   /\ EndOf(s) <= heap_end
        <4>1. s \in DOMAIN hdr /\ s # lost
          BY <2>2 DEF Used
        <4>2. last_header \in DOMAIN hdr /\ \A t \in DOMAIN hdr : t <= last_header
          BY <2>2 DEF List
        <4>3. \A t \in DOMAIN hdr : t \in Nat /\ t < heap_end
          BY <2>2, InsideHeap
        <4>4. heap_end \in Nat
          BY <2>2 DEF List
        <4>5. CASE s = last_header
          <5>1. heap_end = EndOf(s)
            BY <2>2, <4>1, <4>5 DEF List, EndOf
          <5> QED BY <4>2, <4>3, <4>4, <4>5, <5>1
        <4>6. CASE s # last_header
          <5>1. /\ hdr[s].next = EndOf(s) /\ hdr[s].next \in DOMAIN hdr
                /\ \A t \in DOMAIN hdr : s < t => hdr[s].next <= t
            BY <2>2, <4>1, <4>6 DEF List, EndOf
          <5> QED BY <4>1, <4>3, <4>4, <5>1
        <4> QED BY <4>5, <4>6
      <3> QED BY <2>2, <3>1 DEF BlocksAreApart, Used
    <2> QED BY <2>1, <2>2 DEF HeapInv
  <1> QED BY ListSound, <1>1, PTL

(* The segments cover the heap, in the order of the list and linked both ways, *)
(* but for the header that clearing the pool node wiped.                    *)
THEOREM ListCovers == Spec => []ListCoversHeap
  <1>0. NULL = -1 /\ HDR = 2 /\ First \in Nat
    BY Constants
  <1>1. HeapInv => ListCoversHeap
    <2>1. ASSUME Virgin, lost = NULL PROVE ListCoversHeap
      <3>1. /\ DOMAIN hdr = {0} /\ hdr[0].next = NULL /\ hdr[0].length = First - HDR
            /\ last_header = 0 /\ heap_end = First
        BY <2>1 DEF Virgin
      <3> QED BY <1>0, <3>1 DEF ListCoversHeap, EndOf
    <2>2. ASSUME List(hdr, last_header, heap_end, lost) PROVE ListCoversHeap
      <3>1. SUFFICES ASSUME NEW s \in DOMAIN hdr
                     PROVE  /\ hdr[s].next = NULL <=> s = last_header
                            /\ hdr[s].next # NULL =>
                                 /\ hdr[s].next = IF s = lost THEN First ELSE EndOf(s)
                                 /\ hdr[s].next = lost \/ hdr[hdr[s].next].last = s
                            /\ hdr[s].next = NULL /\ s # lost => EndOf(s) = heap_end
        BY DEF ListCoversHeap, First
      <3>2. CASE s = last_header
        BY <2>2, <3>2 DEF List, EndOf
      <3>3. CASE s # last_header
        <4>1. /\ hdr[s].next \in DOMAIN hdr /\ DOMAIN hdr \subseteq Nat
              /\ hdr[s].next = IF s = lost THEN First ELSE EndOf(s)
              /\ hdr[s].next # lost => hdr[hdr[s].next].last = s
          BY <2>2, <3>3 DEF List, EndOf
        <4> QED BY <1>0, <3>3, <4>1
      <3> QED BY <3>2, <3>3
    <2> QED BY <2>1, <2>2 DEF HeapInv
  <1> QED BY ListSound, <1>1, PTL

(* free merges on both sides, and nothing else makes two free neighbours: not  *)
(* even while malloc is searching or has just grown the heap.               *)
THEOREM FreeMerged == Spec => []FreeSegmentsMerged
  <1>1. HeapInv => FreeSegmentsMerged
    <2>1. ASSUME Virgin PROVE FreeSegmentsMerged
      <3>1. DOMAIN hdr = {0} /\ hdr[0].next = NULL
        BY <2>1 DEF Virgin
      <3> QED BY <3>1 DEF FreeSegmentsMerged
    <2>2. ASSUME List(hdr, last_header, heap_end, lost), Apart(hdr, last_header, {})
          PROVE  FreeSegmentsMerged
      <3>1. hdr[last_header].next = NULL
        BY <2>2 DEF List
      <3> QED BY <2>2, <3>1 DEF FreeSegmentsMerged, Apart
    <2> QED BY <2>1, <2>2 DEF HeapInv
  <1> QED BY ListSound, <1>1, PTL
=============================================================================
