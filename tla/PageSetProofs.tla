--------------------------- MODULE PageSetProofs ---------------------------
(***************************************************************************)
(* What follows from the page allocator's specification alone, for every    *)
(* memory map and every size of a request.  OwnedApart is inductive as it    *)
(* stands.                                                                 *)
(***************************************************************************)
EXTENDS PageSet, TLAPS

(* At boot only the allocator's own headers are owned. *)
LEMMA InitOwnedApart == Init => OwnedApart
  BY Zenon DEF Init, OwnedApart

(* Answering a call takes the caller's pages out of the free ones. *)
LEMMA GrantOwnedApart == OwnedApart /\ grant => OwnedApart'
  <1> SUFFICES ASSUME OwnedApart, grant PROVE OwnedApart'
    OBVIOUS
  <1>1. PICK r : /\ Pages(r) \subseteq free
                 /\ free' = free \ Pages(r)
                 /\ held' = held \cup {r}
    BY DEF grant
  <1>2. ram' = ram /\ returning' = returning
    BY DEF grant
  <1>3. Pages(r)' = Pages(r)
    BY DEF Pages
  <1>4. (free \cup returning \subseteq ram)' /\ (free \cap returning = {})'
    BY <1>1, <1>2 DEF OwnedApart
  <1>5. ASSUME NEW s \in held' PROVE /\ Pages(s) \subseteq ram
                                     /\ Pages(s) \cap (free' \cup returning) = {}
    <2>1. CASE s = r
      BY <2>1, <1>1 DEF OwnedApart
    <2>2. CASE s \in held
      BY <2>2, <1>1 DEF OwnedApart
    <2> QED BY <2>1, <2>2, <1>1
  <1>6. ASSUME NEW s \in held', NEW t \in held', s # t
        PROVE Pages(s) \cap Pages(t) = {}
    <2>1. CASE s \in held /\ t \in held
      BY <2>1, <1>6 DEF OwnedApart
    <2>2. CASE s = r
      BY <2>2, <1>1, <1>6 DEF OwnedApart
    <2>3. CASE t = r
      BY <2>3, <1>1, <1>6 DEF OwnedApart
    <2> QED BY <2>1, <2>2, <2>3, <1>1
  <1> QED BY <1>2, <1>4, <1>5, <1>6 DEF OwnedApart, Pages

(* A page on its way back is nobody's until it is free. *)
LEMMA HandBackOwnedApart == OwnedApart /\ hand_back => OwnedApart'
  <1> SUFFICES ASSUME OwnedApart, hand_back PROVE OwnedApart'
    OBVIOUS
  <1>1. PICK r \in held : held' = held \ {r} /\ returning' = Pages(r)
    BY DEF hand_back
  <1>2. ram' = ram /\ free' = free
    BY DEF hand_back
  <1> QED BY <1>1, <1>2 DEF OwnedApart, Pages

(* No step gives a page a second owner. *)
LEMMA NextOwnedApart == OwnedApart /\ [Next]_vars => OwnedApart'
  <1> SUFFICES ASSUME OwnedApart, [Next]_vars PROVE OwnedApart'
    OBVIOUS
  <1>1. CASE ask
    BY <1>1 DEF ask, OwnedApart, Pages
  <1>2. CASE grant
    BY <1>2, GrantOwnedApart
  <1>3. CASE refuse
    BY <1>3 DEF refuse, OwnedApart, Pages
  <1>4. CASE hand_back
    BY <1>4, HandBackOwnedApart
  <1>5. CASE becomes_free
    BY <1>5 DEF becomes_free, OwnedApart, Pages
  <1>6. CASE forgotten
    BY <1>6 DEF forgotten, OwnedApart, Pages
  <1>7. CASE stops
    BY <1>7 DEF stops, OwnedApart, Pages
  <1>8. CASE UNCHANGED vars
    BY <1>8 DEF vars, OwnedApart, Pages
  <1> QED BY <1>1, <1>2, <1>3, <1>4, <1>5, <1>6, <1>7, <1>8 DEF Next

(* The allocator's specification keeps owners apart: no page is handed out  *)
(* twice, and reserved memory is never handed out.                          *)
THEOREM PagesApart == Spec => []OwnedApart
  BY InitOwnedApart, NextOwnedApart, PTL DEF Spec
=============================================================================
