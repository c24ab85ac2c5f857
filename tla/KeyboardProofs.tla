--------------------------- MODULE KeyboardProofs ---------------------------
(***************************************************************************)
(* The keyboard's page is shared without a lock between an interrupt handler *)
(* and a program.  What holds of it holds for every size of the page, every  *)
(* number of pages and keystrokes, and every width of the size field.        *)
(*                                                                         *)
(* The argument.  At each place of the program it is known who has the page  *)
(* (Owned, Own), and while the program may read it, that what it has not    *)
(* read yet are keystrokes later than those it has read, in order (Ordered). *)
(*                                                                         *)
(* Behind the page is the shell of Menus.  Its invariant, ShellInv, says     *)
(* which entry of the listeners' page is which (Listening), what the shift   *)
(* flag means (Fingers) and when an option is selected (Begun); what the     *)
(* keys decode to follows from where the tables have their rows (Laid).      *)
(***************************************************************************)
EXTENDS Keyboard, Menus, TLAPS, SequenceTheorems, WellFoundedInduction

Nobody == current_pid = None /\ current_buffer = None /\ current_size = None

(* The page is kb_man's, as far as the allocator and the program go. *)
Owned ==
    /\ current_buffer \in Pages \ free
    /\ current_buffer # listeners
Own == current_pid = Program /\ current_size = current_buffer /\ Owned

Reading == {"deliver", "clear", "zero"}

Places ==
    /\ listeners \notin free
    /\ pc = "alloc" => current_pid = Program /\ current_buffer = None /\ current_size = None
    /\ pc = "point" => current_pid = Program /\ current_size = None /\ Owned
    /\ pc \in {"zero_size", "map"} => Own
    /\ pc = "free" => current_pid = None /\ Owned
    /\ pc = "forget_buffer" => current_pid = None
    /\ pc = "forget_size" => current_pid = None /\ current_buffer = None
    /\ pc \notin {"alloc", "point", "zero_size", "map", "free", "forget_buffer", "forget_size"} => Nobody \/ Own
    /\ pc = "taken" /\ internal_buffer # None => Own /\ internal_buffer = current_buffer
    /\ pc = "pmap" => Own /\ internal_buffer = current_buffer
    /\ started => pc \in {"idle"} \cup Reading /\ Own /\ internal_buffer = current_buffer
    /\ pc \in Reading => started

(* Where the program may read the page, from what is still to be delivered.  *)
Readable == pc \in {"pmap", "deliver"} \/ (pc = "idle" /\ started)
First    == IF pc = "deliver" THEN i ELSE 0
Left     == First .. size[internal_buffer] - 1

Ordered ==
    /\ Readable =>
         \A j \in Left :
            /\ 0 < data[internal_buffer][j]
            /\ \A k \in Left : j < k => data[internal_buffer][j] < data[internal_buffer][k]
            /\ \A n \in 1 .. Len(delivered) : delivered[n] < data[internal_buffer][j]
    /\ pc = "deliver" => buffered_keys <= size[internal_buffer]

KeyboardInv == TypeOK /\ Places /\ Ordered /\ DeliveredInOrder

-----------------------------------------------------------------------------
(* None is no page and no pid. *)
LEMMA NoneFacts ==
    /\ None \notin Pages /\ None # Program
    /\ Cap \in Nat \ {0} /\ Byte \in Nat \ {0, 1} /\ MaxKeys \in Nat
  BY KeyboardAssumption DEF KeyboardAssumption

(* The low byte of the size field is cleared: it does not grow. *)
LEMMA ClearedIsLess ==
    ASSUME NEW n \in Nat, NEW b \in Nat \ {0} PROVE (n \div b) * b \in 0 .. n
  OBVIOUS

LEMMA KeyboardInitInv == Init => KeyboardInv
  <1> SUFFICES ASSUME Init PROVE KeyboardInv
    OBVIOUS
  <1>1. TypeOK
    <2>1. size \in [Pages -> 0 .. Cap] /\ data \in [Pages -> [0 .. Cap - 1 -> 0 .. pressed]]
      BY NoneFacts DEF Init
    <2>2. delivered \in Seq(0 .. pressed)
      BY DEF Init
    <2>3. /\ free \subseteq Pages /\ current_pid \in {None, Program} /\ started \in BOOLEAN
          /\ {current_buffer, current_size, internal_buffer, listeners} \subseteq Pages \cup {None}
          /\ pc \in PcType
      BY DEF Init, PcType
    <2>4. buffered_keys \in 0 .. Cap /\ i \in 0 .. buffered_keys /\ pressed \in Nat
      BY NoneFacts DEF Init
    <2> QED
      BY <2>1, <2>2, <2>3, <2>4 DEF TypeOK
  <1>2. Places
    BY NoneFacts DEF Init, Places, Nobody, Reading
  <1>3. Ordered /\ DeliveredInOrder
    BY DEF Init, Ordered, Readable, DeliveredInOrder
  <1> QED
    BY <1>1, <1>2, <1>3 DEF KeyboardInv

(* The steps of kb_man and of kbd_init and kbd_kill: no keystroke moves.      *)
Calls == kbd_init \/ kb_man_takes \/ kbd_kill \/ kb_man_releases \/ kbd_init_again

LEMMA CallsType == KeyboardInv /\ Calls => TypeOK'
  <1> SUFFICES ASSUME TypeOK, Places, Calls PROVE TypeOK'
    BY DEF KeyboardInv
  <1> USE NoneFacts DEF TypeOK, Goto, PcType
  <1>1. CASE kbd_init
    BY <1>1 DEF kbd_init, kbd_init_call, kbd_init_checks, kbd_init_listens, memory, kb_man_vars, loop
  <1>2. CASE kb_man_takes
    <2>1. CASE take_alloc
      <3>1. PICK p \in free, g \in Garbage :
              /\ size' = [size EXCEPT ![p] = g] /\ current_buffer' = p /\ free' = free \ {p}
              /\ data' = [data EXCEPT ![p] = [n \in DOMAIN @ |-> 0]]
        BY <2>1 DEF take_alloc
      <3>2. size' \in [Pages -> 0 .. Cap]
        BY <3>1 DEF Garbage
      <3>3. data' \in [Pages -> [0 .. Cap - 1 -> 0 .. pressed]]
        <4>1. [n \in DOMAIN data[p] |-> 0] \in [0 .. Cap - 1 -> 0 .. pressed]
          BY <3>1
        <4> QED
          BY <3>1, <4>1
      <3>4. /\ free' \subseteq Pages /\ current_buffer' \in Pages
            /\ UNCHANGED <<current_pid, current_size, internal_buffer, started, listeners, loop, pressed,
                           delivered>>
            /\ pc' \in PcType
        BY <2>1, <3>1 DEF take_alloc
      <3> HIDE DEF Goto, PcType
      <3> QED
        BY <3>2, <3>3, <3>4 DEF loop
    <2>2. CASE take_zero
      BY <2>2 DEF take_zero, Places, Own, Owned, kb_man_vars, loop
    <2> QED
      BY <1>2, <2>1, <2>2 DEF kb_man_takes, take_pid, take_point, take_returns, memory, kb_man_vars, loop
  <1>3. CASE kbd_kill \/ kbd_init_again
    BY <1>3 DEF kbd_kill, kbd_kill_call, kbd_kill_returns, kbd_init_again, memory, kb_man_vars, loop
  <1>4. CASE kb_man_releases
    BY <1>4 DEF kb_man_releases, release_pid, release_page, forget_buffer, forget_size, Places, Owned,
                memory, kb_man_vars, loop
  <1> QED
    BY <1>1, <1>2, <1>3, <1>4 DEF Calls

LEMMA CallsPlaces == KeyboardInv /\ Calls => Places'
  <1> SUFFICES ASSUME TypeOK, Places, Calls PROVE Places'
    BY DEF KeyboardInv
  <1> USE NoneFacts DEF TypeOK, Places, Nobody, Own, Owned, Goto, Reading, PcType
  <1>1. CASE kbd_init
    <2>1. CASE kbd_init_call
      BY <2>1 DEF kbd_init_call, memory, kb_man_vars, loop
    <2>2. CASE kbd_init_checks
      BY <2>2 DEF kbd_init_checks, CanStart, memory, kb_man_vars, loop
    <2>3. CASE kbd_init_listens
      BY <2>3 DEF kbd_init_listens, memory, kb_man_vars, loop
    <2> QED BY <1>1, <2>1, <2>2, <2>3 DEF kbd_init
  <1>2. CASE kb_man_takes
    <2>1. CASE take_pid
      BY <2>1 DEF take_pid, memory, kb_man_vars, loop
    <2>2. CASE take_alloc
      BY <2>2 DEF take_alloc, memory, kb_man_vars, loop
    <2>3. CASE take_point
      BY <2>3 DEF take_point, memory, kb_man_vars, loop
    <2>4. CASE take_zero
      BY <2>4 DEF take_zero, memory, kb_man_vars, loop
    <2>5. CASE take_returns
      BY <2>5 DEF take_returns, memory, kb_man_vars, loop
    <2> QED BY <1>2, <2>1, <2>2, <2>3, <2>4, <2>5 DEF kb_man_takes
  <1>3. CASE kbd_kill \/ kbd_init_again
    <2>1. CASE kbd_kill_call
      BY <2>1 DEF kbd_kill_call, memory, kb_man_vars, loop
    <2>2. CASE kbd_kill_returns
      BY <2>2 DEF kbd_kill_returns, memory, kb_man_vars, loop
    <2>3. CASE kbd_init_again
      BY <2>3 DEF kbd_init_again, memory, kb_man_vars, loop
    <2> QED BY <1>3, <2>1, <2>2, <2>3 DEF kbd_kill
  <1>4. CASE kb_man_releases
    <2>1. CASE release_pid
      BY <2>1 DEF release_pid, memory, kb_man_vars, loop
    <2>2. CASE release_page
      BY <2>2 DEF release_page, memory, kb_man_vars, loop
    <2>3. CASE forget_buffer
      BY <2>3 DEF forget_buffer, memory, kb_man_vars, loop
    <2>4. CASE forget_size
      BY <2>4 DEF forget_size, memory, kb_man_vars, loop
    <2> QED BY <1>4, <2>1, <2>2, <2>3, <2>4 DEF kb_man_releases
  <1> QED
    BY <1>1, <1>2, <1>3, <1>4 DEF Calls

(* The program may read the page from the moment kbd_init has found it empty. *)
LEMMA CallsOrdered == KeyboardInv /\ Calls => Ordered' /\ DeliveredInOrder'
  <1> SUFFICES ASSUME KeyboardInv, Calls PROVE Ordered' /\ DeliveredInOrder'
    OBVIOUS
  <1>1. delivered' = delivered /\ pc # "deliver" /\ pc' # "deliver"
    BY DEF Calls, kbd_init, kbd_init_call, kbd_init_checks, kbd_init_listens, kb_man_takes, take_pid, take_alloc,
           take_point, take_zero, take_returns, kbd_kill, kbd_kill_call, kbd_kill_returns, kbd_init_again,
           kb_man_releases, release_pid, release_page, forget_buffer, forget_size, Goto
  <1>2. DeliveredInOrder'
    BY <1>1 DEF KeyboardInv, DeliveredInOrder
  <1>3. CASE kbd_init_checks
    <2>1. CASE CanStart
      <3>1. size'[internal_buffer'] = 0
        BY <1>3, <2>1 DEF kbd_init_checks, CanStart, memory
      <3> QED
        BY <1>1, <1>2, <3>1 DEF Ordered, Left, First
    <2>2. CASE ~CanStart
      BY <1>1, <1>2, <1>3, <2>2 DEF kbd_init_checks, Ordered, Readable, Goto
    <2> QED BY <2>1, <2>2
  <1>4. CASE kbd_init_listens
    <2>1. Readable /\ UNCHANGED <<size, data, internal_buffer>>
      BY <1>4 DEF kbd_init_listens, Readable, Goto
    <2> QED
      BY <1>1, <1>2, <2>1 DEF KeyboardInv, Ordered, Left, First
  <1>5. CASE ~kbd_init_checks /\ ~kbd_init_listens
    <2>1. ~Readable'
      BY <1>5 DEF Calls, kbd_init, kbd_init_call, kb_man_takes, take_pid, take_alloc,
           take_point, take_zero, take_returns, kbd_kill, kbd_kill_call, kbd_kill_returns, kbd_init_again,
           kb_man_releases, release_pid, release_page, forget_buffer, forget_size, Goto, Readable, KeyboardInv, Places, Reading
    <2> QED
      BY <1>1, <1>2, <2>1 DEF Ordered
  <1> QED
    BY <1>3, <1>4, <1>5

-----------------------------------------------------------------------------
(* A keystroke is appended to the page, behind all that is there, or lost.    *)
LEMMA SaveKeyInv == KeyboardInv /\ save_key => KeyboardInv'
  <1> SUFFICES ASSUME KeyboardInv, save_key PROVE KeyboardInv'
    OBVIOUS
  <1>1. /\ pressed' = pressed + 1 /\ pressed \in Nat /\ delivered' = delivered
        /\ UNCHANGED <<free, kb_man_vars, internal_buffer, started, listeners, buffered_keys, i, pc>>
    BY DEF save_key, KeyboardInv, TypeOK, loop, kb_man_vars
  <1>2. delivered' \in Seq(0 .. pressed')
    <2>1. Len(delivered) \in Nat /\ \A n \in 1 .. Len(delivered) : delivered[n] \in 0 .. pressed'
      BY <1>1 DEF KeyboardInv, TypeOK
    <2> QED
      BY <1>1, <2>1 DEF KeyboardInv, TypeOK
  <1>3. Places' /\ DeliveredInOrder'
    BY <1>1 DEF KeyboardInv, Places, Nobody, Own, Owned, Reading, DeliveredInOrder, kb_man_vars
  <1>4. CASE SavesKey
    <2> DEFINE s == size[current_buffer]
    <2>1. /\ Own /\ current_buffer \in Pages /\ s \in 0 .. Cap - 1
          /\ data' = [data EXCEPT ![current_buffer] = [data[current_buffer] EXCEPT ![s] = pressed + 1]]
          /\ size' = [size EXCEPT ![current_buffer] = s + 1]
      <3>1. Own
        <4>1. None \notin {current_pid, current_buffer, current_size}
          BY <1>4 DEF SavesKey
        <4>2. Places
          BY DEF KeyboardInv
        <4> QED BY <4>1, <4>2, NoneFacts DEF Places, Nobody, Own
      <3>2. current_buffer \in Pages /\ current_size = current_buffer
        BY <3>1 DEF Own, Owned
      <3>3. s \in 0 .. Cap - 1
        <4>1. s \in 0 .. Cap /\ s < Cap
          BY <1>4, <3>2 DEF SavesKey, KeyboardInv, TypeOK
        <4> HIDE DEF s
        <4> QED BY <4>1, NoneFacts
      <3>4. /\ data' = [data EXCEPT ![current_buffer][s] = pressed + 1]
            /\ size' = [size EXCEPT ![current_buffer] = s + 1]
        BY <1>4, <3>2 DEF save_key
      <3> QED BY <3>1, <3>2, <3>3, <3>4
    <2>2. size' \in [Pages -> 0 .. Cap]
      <3>1. s + 1 \in 0 .. Cap
        <4> HIDE DEF s
        <4> QED
          BY <2>1, NoneFacts
      <3>2. size \in [Pages -> 0 .. Cap]
        BY DEF KeyboardInv, TypeOK
      <3> HIDE DEF s
      <3> QED
        BY <2>1, <3>1, <3>2
    <2>3. data \in [Pages -> [0 .. Cap - 1 -> 0 .. pressed']]
      BY <1>1 DEF KeyboardInv, TypeOK
    <2>4. data' \in [Pages -> [0 .. Cap - 1 -> 0 .. pressed']]
      <3>1. data[current_buffer] \in [0 .. Cap - 1 -> 0 .. pressed'] /\ pressed + 1 \in 0 .. pressed'
        BY <1>1, <2>1, <2>3
      <3>2. [data[current_buffer] EXCEPT ![s] = pressed + 1] \in [0 .. Cap - 1 -> 0 .. pressed']
        BY <3>1
      <3> QED
        BY <2>1, <2>3, <3>2
    <2>5. TypeOK'
      BY <1>1, <1>2, <2>2, <2>4 DEF KeyboardInv, TypeOK, kb_man_vars
    <2>6. Ordered'
      <3>1. ASSUME Readable' PROVE
              /\ Readable /\ internal_buffer = current_buffer /\ First' = First /\ First \in Nat
              /\ Left' = First .. s /\ Left = First .. s - 1
        <4>1. /\ pc' = pc /\ started' = started /\ i' = i /\ internal_buffer' = internal_buffer
              /\ i \in Nat /\ Places
          BY <1>1 DEF KeyboardInv, TypeOK
        <4>2. Readable /\ First' = First /\ First \in Nat
          BY <3>1, <4>1 DEF Readable, First
        <4>3. internal_buffer = current_buffer
          BY <4>1, <4>2 DEF Places, Readable, Reading
        <4>4. size'[current_buffer] = s + 1
          BY <2>1 DEF KeyboardInv, TypeOK
        <4>5. Left' = First .. (s + 1) - 1 /\ Left = First .. s - 1
          BY <4>1, <4>2, <4>3, <4>4 DEF Left
        <4>6. (s + 1) - 1 = s
          BY <2>1, NoneFacts
        <4> QED BY <4>2, <4>3, <4>5, <4>6
      <3>2. /\ data'[current_buffer][s] = pressed + 1
            /\ \A j \in 0 .. s - 1 : data'[current_buffer][j] = data[current_buffer][j]
                                     /\ data[current_buffer][j] \in 0 .. pressed
        <4>1. data[current_buffer] \in [0 .. Cap - 1 -> 0 .. pressed]
          BY <2>1 DEF KeyboardInv, TypeOK
        <4>2. data'[current_buffer] = [data[current_buffer] EXCEPT ![s] = pressed + 1]
          BY <2>1 DEF KeyboardInv, TypeOK
        <4> QED
          BY <2>1, <4>1, <4>2, NoneFacts
      <3>3. \A n \in 1 .. Len(delivered) : delivered[n] \in 0 .. pressed
        BY DEF KeyboardInv, TypeOK
      <3>4. ASSUME Readable', NEW j \in Left' PROVE
              /\ 0 < data'[current_buffer][j]
              /\ \A k \in Left' : j < k => data'[current_buffer][j] < data'[current_buffer][k]
              /\ \A n \in 1 .. Len(delivered) : delivered[n] < data'[current_buffer][j]
        <4>1. CASE j = s
          BY <1>1, <2>1, <3>1, <3>2, <3>3, <3>4, <4>1
        <4>2. CASE j # s
          <5>1. j \in Left /\ j \in 0 .. s - 1 /\ Readable /\ internal_buffer = current_buffer
            BY <2>1, <3>1, <3>4, <4>2
          <5>2. ASSUME NEW k \in Left', j < k PROVE data'[current_buffer][j] < data'[current_buffer][k]
            <6>1. CASE k = s
              BY <1>1, <3>2, <5>1, <6>1
            <6>2. CASE k # s
              <7>1. k \in Left /\ k \in 0 .. s - 1
                BY <2>1, <3>1, <3>4, <5>2, <6>2
              <7> QED
                BY <3>2, <5>1, <5>2, <7>1 DEF KeyboardInv, Ordered
            <6> QED BY <6>1, <6>2
          <5> QED
            BY <3>2, <5>1, <5>2 DEF KeyboardInv, Ordered
        <4> QED BY <4>1, <4>2
      <3>5. pc' = "deliver" => buffered_keys' <= size'[internal_buffer']
        BY <1>1, <2>1, <2>2 DEF KeyboardInv, TypeOK, Places, Ordered, Reading
      <3> QED
        BY <1>1, <3>1, <3>4, <3>5 DEF Ordered
    <2> QED
      BY <1>3, <2>5, <2>6 DEF KeyboardInv
  <1>5. CASE ~SavesKey
    <2>1. data' = data /\ size' = size
      BY <1>5 DEF save_key
    <2>2. data' \in [Pages -> [0 .. Cap - 1 -> 0 .. pressed']]
      BY <1>1, <2>1 DEF KeyboardInv, TypeOK
    <2>3. TypeOK'
      BY <1>1, <1>2, <2>1, <2>2 DEF KeyboardInv, TypeOK, kb_man_vars
    <2>4. Ordered'
      BY <1>1, <2>1 DEF KeyboardInv, Ordered, Readable, Left, First
    <2> QED
      BY <1>3, <2>3, <2>4 DEF KeyboardInv
  <1> QED BY <1>4, <1>5

-----------------------------------------------------------------------------
(* The program reads the page.  The first keystroke it has not delivered yet  *)
(* is later than all it has.                                               *)
LEMMA ReadsInv == KeyboardInv /\ kbd_update_reads => KeyboardInv'
  <1> SUFFICES ASSUME KeyboardInv, kbd_update_reads PROVE KeyboardInv'
    OBVIOUS
  <1>1. /\ pc = "idle" /\ started /\ pc' = "deliver" /\ i' = 0 /\ buffered_keys' = size[internal_buffer]
        /\ UNCHANGED <<memory, kb_man_vars, internal_buffer, started, listeners, pressed, delivered>>
    BY DEF kbd_update_reads, Goto
  <1>2. internal_buffer \in Pages /\ size[internal_buffer] \in 0 .. Cap
    BY <1>1 DEF KeyboardInv, TypeOK, Places, Own, Owned
  <1>3. TypeOK'
    BY <1>1, <1>2 DEF KeyboardInv, TypeOK, PcType, memory, kb_man_vars
  <1>4. Places' /\ DeliveredInOrder'
    BY <1>1 DEF KeyboardInv, Places, Nobody, Own, Owned, Reading, DeliveredInOrder, memory, kb_man_vars
  <1>5. Ordered'
    BY <1>1, <1>2 DEF KeyboardInv, Ordered, Readable, Left, First, memory
  <1> QED
    BY <1>3, <1>4, <1>5 DEF KeyboardInv

LEMMA DeliversInv == KeyboardInv /\ kbd_update_delivers => KeyboardInv'
  <1> SUFFICES ASSUME KeyboardInv, kbd_update_delivers PROVE KeyboardInv'
    OBVIOUS
  <1>1. /\ pc = "deliver" /\ started /\ internal_buffer \in Pages
        /\ UNCHANGED <<memory, kb_man_vars, internal_buffer, started, listeners, buffered_keys, pressed>>
    BY DEF kbd_update_delivers, Goto, KeyboardInv, Places, Reading, Own, Owned
  <1>2. i \in Nat /\ buffered_keys \in 0 .. Cap /\ buffered_keys <= size[internal_buffer]
        /\ size[internal_buffer] \in 0 .. Cap
    BY <1>1, NoneFacts DEF KeyboardInv, TypeOK, Ordered
  <1>3. CASE i < buffered_keys
    <2> DEFINE key == data[internal_buffer][i]
    <2>1. pc' = "deliver" /\ i' = i + 1 /\ delivered' = Append(delivered, key)
      BY <1>1, <1>3 DEF kbd_update_delivers
    <2>2. key \in 0 .. pressed /\ i \in 0 .. Cap - 1
      BY <1>1, <1>2, <1>3, NoneFacts DEF KeyboardInv, TypeOK
    <2>3. i \in Left /\ First = i
      BY <1>1, <1>2, <1>3, NoneFacts DEF Left, First
    <2>4. /\ 0 < key
          /\ \A k \in Left : i < k => key < data[internal_buffer][k]
          /\ \A n \in 1 .. Len(delivered) : delivered[n] < key
      BY <1>1, <2>3 DEF KeyboardInv, Ordered, Readable
    <2>5. delivered \in Seq(0 .. pressed)
      BY DEF KeyboardInv, TypeOK
    <2> HIDE DEF key
    <2>6. /\ delivered' \in Seq(0 .. pressed) /\ Len(delivered') = Len(delivered) + 1
          /\ Len(delivered) \in Nat
          /\ delivered'[Len(delivered) + 1] = key
          /\ \A n \in 1 .. Len(delivered) : delivered'[n] = delivered[n]
      BY <2>1, <2>2, <2>5
    <2>7. TypeOK'
      BY <1>1, <1>2, <1>3, <2>1, <2>6 DEF KeyboardInv, TypeOK, memory, kb_man_vars
    <2>8. Places'
      BY <1>1, <2>1 DEF KeyboardInv, Places, Nobody, Own, Owned, Reading, memory, kb_man_vars
    <2>9. DeliveredInOrder'
      <3>1. \A n \in 1 .. Len(delivered) : delivered[n] # 0
        BY <2>5 DEF KeyboardInv, DeliveredInOrder
      <3>2. \A m, n \in 1 .. Len(delivered) : m < n => delivered[m] < delivered[n]
        BY <2>5 DEF KeyboardInv, DeliveredInOrder
      <3>3. DOMAIN delivered' = 1 .. Len(delivered) + 1
        BY <2>6
      <3>4. \A n \in 1 .. Len(delivered) + 1 : delivered'[n] # 0
        BY <2>2, <2>4, <2>6, <3>1
      <3>5. \A m, n \in 1 .. Len(delivered) + 1 : m < n => delivered'[m] < delivered'[n]
        <4>1. ASSUME NEW m \in 1 .. Len(delivered) + 1, NEW n \in 1 .. Len(delivered) + 1, m < n
              PROVE  delivered'[m] < delivered'[n]
          <5>1. CASE n = Len(delivered) + 1
            BY <2>4, <2>6, <4>1, <5>1
          <5>2. CASE n # Len(delivered) + 1
            BY <2>6, <3>2, <4>1, <5>2
          <5> QED BY <5>1, <5>2
        <4> QED BY <4>1
      <3> QED
        BY <3>3, <3>4, <3>5 DEF DeliveredInOrder
    <2>10. Ordered'
      <3>1. Left' = i + 1 .. size[internal_buffer] - 1 /\ Left = i .. size[internal_buffer] - 1
        BY <1>1, <2>1, <2>3 DEF Left, First, memory
      <3>2. Readable /\ data' = data /\ internal_buffer' = internal_buffer
        BY <1>1 DEF Readable, memory
      <3>3. \A j \in Left' : j \in Left /\ i < j
        BY <1>2, <3>1
      <3>4. ASSUME NEW j \in Left', NEW n \in 1 .. Len(delivered')
            PROVE  delivered'[n] < data[internal_buffer][j]
        <4>1. CASE n = Len(delivered) + 1
          BY <2>4, <2>6, <3>3, <4>1
        <4>2. CASE n # Len(delivered) + 1
          BY <2>6, <3>2, <3>3, <4>2 DEF KeyboardInv, Ordered
        <4> QED BY <4>1, <4>2
      <3>5. ASSUME NEW j \in Left' PROVE
              /\ 0 < data[internal_buffer][j]
              /\ \A k \in Left' : j < k => data[internal_buffer][j] < data[internal_buffer][k]
        BY <3>2, <3>3 DEF KeyboardInv, Ordered
      <3>6. buffered_keys' <= size'[internal_buffer']
        BY <1>1, <1>2 DEF memory
      <3>7. \A j \in Left' :
              /\ 0 < data'[internal_buffer'][j]
              /\ \A k \in Left' : j < k => data'[internal_buffer'][j] < data'[internal_buffer'][k]
              /\ \A n \in 1 .. Len(delivered') : delivered'[n] < data'[internal_buffer'][j]
        BY <3>2, <3>4, <3>5
      <3> QED
        BY <3>6, <3>7 DEF Ordered
    <2> QED
      BY <2>7, <2>8, <2>9, <2>10 DEF KeyboardInv
  <1>4. CASE ~(i < buffered_keys)
    <2>1. pc' = "clear" /\ UNCHANGED <<i, delivered>>
      BY <1>1, <1>4 DEF kbd_update_delivers, Goto
    <2>2. TypeOK'
      BY <1>1, <2>1 DEF KeyboardInv, TypeOK, PcType, memory, kb_man_vars
    <2>3. Places' /\ Ordered' /\ DeliveredInOrder'
      BY <1>1, <2>1 DEF KeyboardInv, Places, Nobody, Own, Owned, Reading, Ordered, Readable, DeliveredInOrder,
                        memory, kb_man_vars
    <2> QED
      BY <2>2, <2>3 DEF KeyboardInv
  <1> QED BY <1>3, <1>4

(* The page is cleared, and its size with it: the keystrokes that came in    *)
(* between are gone.                                                       *)
LEMMA EndsInv == KeyboardInv /\ kbd_update_ends => KeyboardInv'
  <1> SUFFICES ASSUME KeyboardInv, kbd_update_ends PROVE KeyboardInv'
    OBVIOUS
  <1>1. /\ pc \in {"clear", "zero"} /\ started /\ internal_buffer \in Pages
        /\ UNCHANGED <<free, kb_man_vars, internal_buffer, started, listeners, loop, pressed, delivered>>
    BY DEF kbd_update_ends, Goto, KeyboardInv, Places, Reading, Own, Owned
  <1>2. Places' /\ DeliveredInOrder'
    BY <1>1 DEF kbd_update_ends, Goto, KeyboardInv, Places, Nobody, Own, Owned, Reading, DeliveredInOrder, kb_man_vars
  <1>3. /\ size \in [Pages -> 0 .. Cap] /\ data \in [Pages -> [0 .. Cap - 1 -> 0 .. pressed]]
        /\ pressed \in Nat /\ Cap \in Nat
    BY NoneFacts DEF KeyboardInv, TypeOK
  <1>4. CASE Goto("clear", "zero") /\ ClearBuffer(buffered_keys)
    <2>1. Cleared(buffered_keys) \in [0 .. Cap - 1 -> 0 .. pressed]
      BY <1>1, <1>3 DEF Cleared
    <2>2. data' \in [Pages -> [0 .. Cap - 1 -> 0 .. pressed]]
      BY <1>3, <1>4, <2>1 DEF ClearBuffer
    <2>3. size' \in [Pages -> 0 .. Cap]
      <3>1. size[internal_buffer] \in 0 .. Cap
        BY <1>1, <1>3
      <3>2. (size[internal_buffer] \div Byte) * Byte \in 0 .. size[internal_buffer]
        <4>1. size[internal_buffer] \in Nat /\ Byte \in Nat \ {0}
          BY <1>3, <3>1, NoneFacts
        <4> QED
          BY <4>1, ClearedIsLess
      <3>3. (size[internal_buffer] \div Byte) * Byte \in 0 .. Cap
        BY <1>3, <3>1, <3>2
      <3> QED
        BY <1>3, <1>4, <3>3 DEF ClearBuffer
    <2>4. TypeOK'
      BY <1>1, <1>4, <2>2, <2>3 DEF KeyboardInv, TypeOK, PcType, Goto, kb_man_vars, loop
    <2>5. Ordered'
      BY <1>4 DEF Ordered, Readable, Goto
    <2> QED
      BY <1>2, <2>4, <2>5 DEF KeyboardInv
  <1>5. CASE Goto("zero", "idle") /\ ZeroSize
    <2>1. size' \in [Pages -> 0 .. Cap] /\ data' = data /\ size'[internal_buffer'] = 0
      BY <1>1, <1>3, <1>5 DEF ZeroSize
    <2>2. TypeOK'
      BY <1>1, <1>3, <1>5, <2>1 DEF KeyboardInv, TypeOK, PcType, Goto, kb_man_vars, loop
    <2>3. Ordered'
      BY <1>5, <2>1 DEF Ordered, Left, First, Goto
    <2> QED
      BY <1>2, <2>2, <2>3 DEF KeyboardInv
  <1> QED
    BY <1>4, <1>5 DEF kbd_update_ends

LEMMA KeyboardNextInv == KeyboardInv /\ [Next]_vars => KeyboardInv'
  <1> SUFFICES ASSUME KeyboardInv, [Next]_vars PROVE KeyboardInv'
    OBVIOUS
  <1>1. CASE UNCHANGED vars
    BY <1>1 DEF vars, memory, kb_man_vars, loop, KeyboardInv, TypeOK, Places, Ordered, DeliveredInOrder,
                Nobody, Own, Owned, Readable, Left, First
  <1>2. CASE Calls
    BY <1>2, CallsType, CallsPlaces, CallsOrdered DEF KeyboardInv
  <1>3. CASE kbd_update
    BY <1>1, <1>3, ReadsInv, DeliversInv, EndsInv DEF kbd_update, kbd_update_idles
  <1> QED
    BY <1>1, <1>2, <1>3, SaveKeyInv DEF Next, Shell, Calls

-----------------------------------------------------------------------------
(* What holds, for every Cap, Byte, MaxKeys and set of pages.                *)

(* Every variable has its type: the size of a page never passes the page. *)
THEOREM TypeCorrect == Spec => []TypeOK
  <1>1. KeyboardInv => TypeOK
    BY DEF KeyboardInv
  <1> QED
    BY <1>1, KeyboardInitInv, KeyboardNextInv, PTL DEF Spec

(* Whenever __kb_man_save_key would write, it has a page of its own. *)
THEOREM WriterOwns == Spec => []WriterOwnsPage
  <1>1. KeyboardInv => WriterOwnsPage
    BY NoneFacts DEF KeyboardInv, TypeOK, Places, Nobody, Own, Owned, WriterOwnsPage
  <1> QED
    BY <1>1, KeyboardInitInv, KeyboardNextInv, PTL DEF Spec

(* The program reads the page the interrupt handler fills. *)
THEOREM ReaderOwns == Spec => []StartedOwnsBuffer
  <1>1. KeyboardInv => StartedOwnsBuffer
    BY DEF KeyboardInv, Places, Own, StartedOwnsBuffer
  <1> QED
    BY <1>1, KeyboardInitInv, KeyboardNextInv, PTL DEF Spec

(* The listener gets keystrokes only, in order, none twice. *)
THEOREM InOrder == Spec => []DeliveredInOrder
  <1>1. KeyboardInv => DeliveredInOrder
    BY DEF KeyboardInv
  <1> QED
    BY <1>1, KeyboardInitInv, KeyboardNextInv, PTL DEF Spec
-----------------------------------------------------------------------------
(* The shell behind the page.  What holds of the menu, of the listeners and  *)
(* of the modifiers is inductive together with the types and with this: the  *)
(* shell handles keys only once it was started, with an option selected.     *)
Looks == {"blank", "plain", "highlit", "Pong?", "Pong!"}
Screens == [Texts -> Looks]

ShowsOnly(s, option) == \A o \in Options : s[o] = IF o = option THEN "highlit" ELSE "plain"

Begun ==
    /\ stage = "start" => ~tui_on /\ listeners_count = 0 /\ added = <<>>
    /\ stage = "keys" => tui_on
    /\ tui_on => selected_option \in Options

Listening ==
    tui_on =>
        /\ listeners_count = Len(added) + 1
        /\ listener_page[0] = "menu"
        /\ \A q \in 1 .. Len(added) : listener_page[q] = added[q]

Fingers ==
    /\ down = Shifts => both
    /\ ~both => shift = (down # {})

ShellInv == ShellTypeOK /\ Begun /\ ShowsSelection /\ Listening /\ Fingers

(* The menu once an option was selected. *)
LEMMA Selecting ==
    ASSUME NEW m \in [selected : Nat, screen : Screens], NEW ready \in BOOLEAN,
           NEW option \in Options \cup {NULL}, NEW next,
           next = _menu_main_select_option(m, ready, option)
    PROVE  /\ next \in [selected : Nat, screen : Screens]
           /\ next.selected = IF option = NULL THEN m.selected ELSE option
           /\ ready /\ m.selected \in Options /\ ShowsOnly(m.screen, m.selected)
                => ShowsOnly(next.screen, next.selected)
  <1> DEFINE plain == [m.screen EXCEPT ![m.selected] = "plain"]
             lit == [plain EXCEPT ![option] = "highlit"]
  <1>1. m.selected \in Nat /\ m.screen \in Screens
    OBVIOUS
  <1>2. plain \in Screens /\ \A o \in Texts : plain[o] = IF o = m.selected THEN "plain" ELSE m.screen[o]
    BY <1>1 DEF Screens, Looks
  <1>3. lit \in Screens /\ \A o \in Texts : lit[o] = IF o = option THEN "highlit" ELSE plain[o]
    <2> HIDE DEF plain
    <2> QED BY <1>2 DEF Screens, Looks
  <1>4. CASE option = NULL
    <2>1. next = m
      BY <1>4 DEF _menu_main_select_option
    <2> QED BY <1>4, <2>1
  <1>5. CASE option # NULL /\ ~ready
    <2>1. next = [selected |-> option, screen |-> m.screen]
      BY <1>5 DEF _menu_main_select_option, highlight_option, unhighlight_option, menu_render_string_at
    <2> QED BY <1>1, <1>5, <2>1 DEF Options
  <1>6. CASE option # NULL /\ ready
    <2>1. next = [selected |-> option, screen |-> lit]
      BY <1>6 DEF _menu_main_select_option, highlight_option, unhighlight_option, menu_render_string_at
    <2> HIDE DEF lit, plain
    <2>2. next.selected = option /\ next.screen = lit /\ option \in Options
      <3>1. option \in Options
        BY <1>6
      <3>2. next.selected = option /\ next.screen = lit
        BY <2>1
      <3> QED BY <3>1, <3>2
    <2>3. next \in [selected : Nat, screen : Screens]
      BY <1>3, <2>1, <2>2 DEF Options
    <2>4. ASSUME ShowsOnly(m.screen, m.selected), NEW o \in Options
          PROVE  lit[o] = IF o = option THEN "highlit" ELSE "plain"
      BY <1>2, <1>3, <2>4 DEF ShowsOnly, Texts
    <2>5. ASSUME ShowsOnly(m.screen, m.selected) PROVE ShowsOnly(lit, option)
      BY <2>4, <2>5 DEF ShowsOnly
    <2> QED BY <1>6, <2>2, <2>3, <2>5
  <1> QED BY <1>4, <1>5, <1>6

(* Drawing the menu shows it. *)
LEMMA Drawing ==
    ASSUME NEW m \in [selected : Nat, screen : Screens], m.selected \in Options,
           NEW ready \in BOOLEAN, NEW next, next = _menu_main_draw(m, ready)
    PROVE  /\ next \in [selected : Nat, screen : Screens]
           /\ next.selected = m.selected
           /\ ready => ShowsOnly(next.screen, next.selected)
  <1> DEFINE fresh == [t \in Texts |-> IF t \in Options THEN "plain" ELSE Blank[t]]
  <1>1. Blank \in Screens
    BY DEF Blank, Screens, Looks
  <1>2. fresh \in Screens /\ \A o \in Options : fresh[o] = "plain"
    BY <1>1 DEF Screens, Looks, Texts
  <1>3. CASE ~ready
    <2>1. next = _menu_main_select_option([selected |-> m.selected, screen |-> m.screen], ready, m.selected)
      BY <1>3 DEF _menu_main_draw, text_render_clear
    <2>2. [selected |-> m.selected, screen |-> m.screen] \in [selected : Nat, screen : Screens]
      OBVIOUS
    <2>3. m.selected # NULL
      BY DEF Options, NULL
    <2> QED BY <1>3, <2>1, <2>2, <2>3, Selecting
  <1>4. CASE ready
    <2> HIDE DEF fresh
    <2> DEFINE d == [selected |-> m.selected, screen |-> fresh]
    <2>1. next = _menu_main_select_option(d, ready, m.selected)
      BY <1>4 DEF _menu_main_draw, text_render_clear, fresh
    <2>2. d \in [selected : Nat, screen : Screens] /\ d.screen = fresh /\ d.selected = m.selected
      BY <1>2
    <2> HIDE DEF d
    <2>3. m.selected # NULL
      BY DEF Options, NULL
    <2>4. next \in [selected : Nat, screen : Screens] /\ next.selected = m.selected
      BY <2>1, <2>2, <2>3, Selecting
    <2> DEFINE plain == [fresh EXCEPT ![m.selected] = "plain"]
               lit == [plain EXCEPT ![m.selected] = "highlit"]
    <2>5. next.screen = lit
      <3>1. next = [selected |-> m.selected, screen |-> lit]
        BY <1>4, <2>1, <2>2, <2>3
           DEF _menu_main_select_option, highlight_option, unhighlight_option, menu_render_string_at
      <3> QED BY <3>1
    <2>6. \A o \in Options : plain[o] = "plain" /\ plain \in Screens
      BY <1>2 DEF Screens, Looks, Texts
    <2> HIDE DEF plain
    <2>7. \A o \in Options : lit[o] = IF o = m.selected THEN "highlit" ELSE "plain"
      BY <2>6 DEF Screens, Texts
    <2> QED BY <2>4, <2>5, <2>7 DEF ShowsOnly
  <1> QED BY <1>3, <1>4

-----------------------------------------------------------------------------
(* The shell starts with nothing on the screen and no listener. *)
LEMMA ShellInitInv == ShellInit => ShellInv
  <1> SUFFICES ASSUME ShellInit PROVE ShellInv
    OBVIOUS
  <1>1. listener_page \in [0 .. MaxListeners -> {"menu", "null", "stray"} \cup Others]
    BY DEF ShellInit
  <1>2. screen \in [Texts -> {"blank", "plain", "highlit", "Pong?", "Pong!"}]
    BY DEF ShellInit, Blank
  <1>3. {shift, caps, nums, needs_update, pong, screen_ready, tui_on, both} \subseteq BOOLEAN
    BY Zenon DEF ShellInit
  <1>4. ShellTypeOK
    <2>1. added \in Seq(Others)
      <3>1. <<>> \in Seq(Others)
        BY EmptySeq
      <3>2. added = <<>>
        BY DEF ShellInit
      <3> QED BY <3>1, <3>2
    <2>2. listeners_count \in 0 .. MaxListeners /\ left \in 0 .. MaxBuffered
      BY MenusAssumption DEF MenusAssumption, ShellInit
    <2>3. /\ selected_option \in Options \cup {NULL} /\ down \subseteq Shifts
          /\ stage \in {"start", "update", "keys", "ended"}
      BY DEF ShellInit
    <2> QED BY <1>1, <1>2, <1>3, <2>1, <2>2, <2>3, Zenon DEF ShellTypeOK
  <1>5. Begun /\ ShowsSelection /\ Listening
    BY DEF ShellInit, Begun, ShowsSelection, Listening
  <1>6. Fingers
    BY DEF ShellInit, Fingers, Shifts
  <1> QED BY <1>4, <1>5, <1>6 DEF ShellInv

(* The menu as it is. *)
LEMMA MenuType ==
    ASSUME ShellTypeOK
    PROVE  /\ Menu \in [selected : Nat, screen : Screens]
           /\ Menu.selected = selected_option /\ Menu.screen = screen
  BY DEF ShellTypeOK, Menu, Screens, Looks, Options, NULL

(* The menu a step shows is a menu. *)
LEMMA Shown ==
    ASSUME NEW m \in [selected : Nat, screen : Screens], Shows(m)
    PROVE  /\ screen' \in Screens
           /\ selected_option' = m.selected /\ screen' = m.screen
  BY DEF Shows

(* A step of the menu: what is shown stays what is selected. *)
MenuStep ==
    /\ screen' \in Screens
    /\ {needs_update', pong'} \subseteq BOOLEAN
    /\ selected_option' \in Options
    /\ screen_ready /\ ~needs_update' => ShowsOnly(screen', selected_option')

(* An arrow key. *)
LEMMA SelectStep ==
    ASSUME ShellTypeOK, ShowsSelection, tui_on, selected_option \in Options,
           NEW option \in Options \cup {NULL}, select(option)
    PROVE  MenuStep
  <1> DEFINE next == _menu_main_select_option(Menu, screen_ready, option)
  <1>1. screen_ready \in BOOLEAN
    BY DEF ShellTypeOK
  <1>2. /\ next \in [selected : Nat, screen : Screens]
        /\ next.selected = IF option = NULL THEN selected_option ELSE option
        /\ screen_ready /\ ShowsOnly(screen, selected_option) => ShowsOnly(next.screen, next.selected)
    BY <1>1, MenuType, Selecting
  <1>3. Shows(next) /\ UNCHANGED <<needs_update, pong>>
    BY DEF select
  <1> HIDE DEF next
  <1>4. screen' \in Screens /\ selected_option' = next.selected /\ screen' = next.screen
    BY <1>2, <1>3, Shown
  <1>5. {needs_update', pong'} \subseteq BOOLEAN
    BY <1>3, Zenon DEF ShellTypeOK
  <1>6. selected_option' \in Options
    BY <1>2, <1>4
  <1>7. screen_ready /\ ~needs_update => ShowsOnly(screen, selected_option)
    BY DEF ShowsSelection, ShowsOnly
  <1>8. screen_ready /\ ~needs_update' => ShowsOnly(screen', selected_option')
    BY <1>2, <1>3, <1>4, <1>7
  <1> QED BY <1>4, <1>5, <1>6, <1>8 DEF MenuStep

(* Enter. *)
LEMMA PerformStep ==
    ASSUME ShellTypeOK, ShowsSelection, tui_on, selected_option \in Options, perform
    PROVE  MenuStep
  <1> DEFINE text == IF pong THEN "Pong!" ELSE "Pong?"
  <1>1. screen \in Screens /\ Blank \in Screens
    BY DEF ShellTypeOK, Screens, Looks, Blank
  <1>2. screen_ready /\ ~needs_update => ShowsOnly(screen, selected_option)
    BY DEF ShowsSelection, ShowsOnly
  <1>3. CASE __menu_option_clear
    <2>1. screen' \in Screens
      BY <1>1, <1>3 DEF __menu_option_clear, text_render_clear
    <2>2. needs_update' = TRUE /\ pong' = pong /\ selected_option' = selected_option
      BY <1>3 DEF __menu_option_clear
    <2>3. {needs_update', pong'} \subseteq BOOLEAN
      BY <2>2, Zenon DEF ShellTypeOK
    <2> QED BY <2>1, <2>2, <2>3 DEF MenuStep
  <1>4. CASE __menu_option_ping
    <2>1. screen' = IF screen_ready THEN [screen EXCEPT ![Pong] = text] ELSE screen
      BY <1>4 DEF __menu_option_ping, menu_render_string_at
    <2>2. text \in Looks
      BY DEF Looks
    <2> HIDE DEF text
    <2>3. screen' \in Screens /\ \A o \in Options : screen'[o] = screen[o]
      BY <1>1, <2>1, <2>2 DEF Screens, Texts, Options, Pong
    <2>4. needs_update' = needs_update /\ selected_option' = selected_option /\ pong' = ~pong
      BY <1>4 DEF __menu_option_ping
    <2>5. {needs_update', pong'} \subseteq BOOLEAN
      BY <2>4, Zenon DEF ShellTypeOK
    <2>6. ShowsOnly(screen, selected_option) => ShowsOnly(screen', selected_option')
      BY <2>3, <2>4 DEF ShowsOnly
    <2> QED BY <1>2, <2>3, <2>4, <2>5, <2>6 DEF MenuStep
  <1>5. CASE UNCHANGED menu
    <2>1. needs_update' = needs_update /\ selected_option' = selected_option /\ pong' = pong
          /\ screen' = screen
      BY <1>5 DEF menu
    <2>2. {needs_update', pong'} \subseteq BOOLEAN
      BY <2>1, Zenon DEF ShellTypeOK
    <2> QED BY <1>1, <1>2, <2>1, <2>2 DEF MenuStep
  <1> QED BY <1>3, <1>4, <1>5 DEF perform

(* Any key. *)
LEMMA KeyStep ==
    ASSUME ShellTypeOK, ShowsSelection, tui_on, selected_option \in Options,
           NEW keycode, menu_main_handle_key(keycode)
    PROVE  MenuStep
  <1>1. \A option \in Options : /\ up[option] \in Options \cup {NULL}
                                /\ down_[option] \in Options \cup {NULL}
                                /\ left_[option] \in Options \cup {NULL}
                                /\ right[option] \in Options \cup {NULL}
    BY DEF up, down_, left_, right, Options, NULL
  <1>2. CASE UNCHANGED menu
    <2>1. needs_update' = needs_update /\ selected_option' = selected_option /\ pong' = pong
          /\ screen' = screen
      BY <1>2 DEF menu
    <2>2. {needs_update', pong'} \subseteq BOOLEAN
      BY <2>1, Zenon DEF ShellTypeOK
    <2>3. screen' \in Screens
      BY <2>1 DEF ShellTypeOK, Screens, Looks
    <2>4. screen_ready /\ ~needs_update => ShowsOnly(screen, selected_option)
      BY DEF ShowsSelection, ShowsOnly
    <2> QED BY <2>1, <2>2, <2>3, <2>4 DEF MenuStep
  <1>3. CASE select(up[selected_option])
    BY <1>1, <1>3, SelectStep
  <1>4. CASE select(down_[selected_option])
    BY <1>1, <1>4, SelectStep
  <1>5. CASE select(left_[selected_option])
    BY <1>1, <1>5, SelectStep
  <1>6. CASE select(right[selected_option])
    BY <1>1, <1>6, SelectStep
  <1>7. CASE perform
    BY <1>7, PerformStep
  <1> QED BY <1>2, <1>3, <1>4, <1>5, <1>6, <1>7 DEF menu_main_handle_key

(* The flag for the shift keys: while one at most is held it says if one is. *)
LEMMA HandStep ==
    ASSUME ShellTypeOK, Fingers, NEW keycode \in Keys, Held(keycode), tracks(keycode)
    PROVE  /\ {shift', caps', nums', both'} \subseteq BOOLEAN
           /\ down' \subseteq Shifts
           /\ Fingers'
  <1>1. /\ HID_KEYCODE_LEFT_SHIFT = \h45 /\ HID_KEYCODE_RIGHT_SHIFT = \h46
        /\ Shifts = {\h45, \h46}
        /\ {Released(k) : k \in Shifts} = {\hC5, \hC6}
        /\ \A k \in Shifts : Released(k) = k + \h80
    BY DEF Shifts, Released, HID_KEYCODE_LEFT_SHIFT, HID_KEYCODE_RIGHT_SHIFT
  <1>2. down' = {k \in Shifts : k = keycode \/ (k \in down /\ keycode # Released(k))}
    BY DEF Held
  <1>3. both' = (both \/ down' = Shifts)
    BY DEF Held
  <1>4. caps' \in BOOLEAN
    BY Zenon DEF tracks, ShellTypeOK
  <1>5. nums' \in BOOLEAN
    BY Zenon DEF tracks, ShellTypeOK
  <1>6. shift \in BOOLEAN /\ both \in BOOLEAN
    BY DEF ShellTypeOK
  <1>7. shift' = CASE keycode \in Shifts -> TRUE
                  [] keycode \in {Released(k) : k \in Shifts} -> FALSE
                  [] OTHER -> shift
    BY DEF tracks
  <1>8. shift' \in BOOLEAN
    <2>1. CASE keycode \in Shifts
      BY <1>1, <1>7, <2>1
    <2>2. CASE keycode \in {Released(k) : k \in Shifts}
      BY <1>1, <1>7, <2>2
    <2>3. CASE keycode \notin Shifts /\ keycode \notin {Released(k) : k \in Shifts}
      BY <1>6, <1>7, <2>3, Zenon
    <2> QED BY <2>1, <2>2, <2>3
  <1>9. both' \in BOOLEAN
    BY <1>3, <1>6, Zenon
  <1>10. down' = Shifts => both'
    BY <1>3
  <1>11. ASSUME ~both' PROVE shift' = (down' # {})
    <2>1. ~both /\ down # Shifts /\ shift = (down # {}) /\ down' # Shifts
      BY <1>3, <1>11, Zenon DEF Fingers
    <2>2. CASE keycode \in Shifts
      <3>1. keycode \in down'
        BY <1>2, <2>2
      <3>2. shift' = TRUE
        BY <1>1, <1>7, <2>2
      <3> QED BY <3>1, <3>2
    <2>3. CASE keycode \in {Released(k) : k \in Shifts}
      <3>1. PICK k \in Shifts : keycode = Released(k)
        BY <2>3
      <3>2. k \in down
        BY <3>1 DEF Held
      <3>3. down = {k}
        <4>1. down \subseteq {\h45, \h46}
          BY <1>1 DEF ShellTypeOK
        <4>2. ~(\h45 \in down /\ \h46 \in down)
          <5>1. ASSUME \h45 \in down, \h46 \in down PROVE down = Shifts
            <6>1. \A x : x \in Shifts => x = \h45 \/ x = \h46
              BY <1>1
            <6>2. down \subseteq Shifts
              BY DEF ShellTypeOK
            <6>3. Shifts \subseteq down
              BY <5>1, <6>1
            <6> QED BY <6>2, <6>3, Zenon
          <5> QED BY <2>1, <5>1
        <4>3. ASSUME NEW x \in down PROVE x = k
          BY <3>2, <4>1, <4>2, <4>3
        <4> QED BY <3>2, <4>3, Zenon
      <3>4. down' = {}
        BY <1>1, <1>2, <3>1, <3>3
      <3>5. shift' = FALSE
        BY <1>1, <1>7, <2>3
      <3> QED BY <3>4, <3>5
    <2>4. CASE keycode \notin Shifts /\ keycode \notin {Released(k) : k \in Shifts}
      <3>1. \A k \in Shifts : keycode # k /\ keycode # Released(k)
        BY <2>4
      <3>2. down' = down
        BY <1>2, <3>1, Zenon DEF ShellTypeOK
      <3>3. shift' = shift
        BY <1>7, <2>4, Zenon
      <3> QED BY <2>1, <3>2, <3>3
    <2> QED BY <2>2, <2>3, <2>4
  <1>12. down' \subseteq Shifts
    BY <1>2
  <1>13. Fingers'
    BY <1>10, <1>11 DEF Fingers
  <1> QED BY <1>4, <1>5, <1>8, <1>9, <1>12, <1>13

-----------------------------------------------------------------------------
(* The listeners: kbd_remove_listener takes the first of its kind.           *)
LEMMA LeastOf ==
    ASSUME NEW T \in SUBSET Nat, T # {}
    PROVE  FirstOf(T) \in T /\ \A k \in T : FirstOf(T) <= k
  <1> DEFINE R == {ss \in Nat \X Nat : ss[1] < ss[2]}
  <1>1. IsWellFoundedOn(OpToRel(<, Nat), Nat)
    BY NatLessThanWellFounded
  <1>2. IsWellFoundedOn(R, Nat)
    BY <1>1 DEF OpToRel
  <1>3. PICK m \in T : \A k \in T : ~(<<k, m>> \in R)
    BY <1>2, WFMin
  <1>4. ASSUME NEW k \in T PROVE m <= k
    <2>1. k \in Nat /\ m \in Nat /\ <<k, m>> \in Nat \X Nat
      OBVIOUS
    <2> QED BY <1>3, <2>1
  <1>5. \E x \in T : \A k \in T : x <= k
    BY <1>4
  <1> QED BY <1>5, Zenon DEF FirstOf

(* A listener that comes is behind the others. *)
LEMMA AddStep ==
    ASSUME ShellTypeOK, Listening, tui_on, NEW l \in Others, kbd_add_listener(l),
           added' = Append(added, l), tui_on' = tui_on
    PROVE  /\ listener_page' \in [0 .. MaxListeners -> {"menu", "null", "stray"} \cup Others]
           /\ listeners_count' \in 0 .. MaxListeners
           /\ added' \in Seq(Others)
           /\ Listening'
  <1>1. /\ added \in Seq(Others) /\ Len(added) \in Nat /\ MaxListeners \in Nat
        /\ listeners_count = Len(added) + 1 /\ listener_page[0] = "menu"
        /\ \A q \in 1 .. Len(added) : listener_page[q] = added[q]
    BY MenusAssumption DEF MenusAssumption, ShellTypeOK, Listening
  <1>2. /\ added' \in Seq(Others) /\ Len(added') = Len(added) + 1
        /\ \A q \in 1 .. Len(added) : added'[q] = added[q]
        /\ added'[Len(added) + 1] = l
    BY <1>1
  <1>3. /\ listeners_count < MaxListeners /\ listeners_count' = listeners_count + 1
        /\ listener_page' = [listener_page EXCEPT ![listeners_count] = l]
    BY DEF kbd_add_listener
  <1>4. /\ listener_page' \in [0 .. MaxListeners -> {"menu", "null", "stray"} \cup Others]
        /\ \A q \in 0 .. MaxListeners :
             listener_page'[q] = IF q = listeners_count THEN l ELSE listener_page[q]
    BY <1>1, <1>3 DEF ShellTypeOK
  <1>5. listeners_count' \in 0 .. MaxListeners
    BY <1>1, <1>3
  <1>6. listener_page'[0] = "menu"
    BY <1>1, <1>3, <1>4
  <1>7. ASSUME NEW q \in 1 .. Len(added') PROVE listener_page'[q] = added'[q]
    <2>1. q \in 0 .. MaxListeners
      BY <1>1, <1>2, <1>3
    <2>2. CASE q = Len(added) + 1
      BY <1>1, <1>2, <1>4, <2>1, <2>2
    <2>3. CASE q # Len(added) + 1
      <3>1. q \in 1 .. Len(added) /\ q # listeners_count
        BY <1>1, <1>2, <2>3
      <3> QED BY <1>1, <1>2, <1>4, <2>1, <3>1
    <2> QED BY <2>2, <2>3
  <1>8. listeners_count' = Len(added') + 1
    BY <1>1, <1>2, <1>3
  <1>9. Listening'
    BY <1>6, <1>7, <1>8 DEF Listening
  <1> QED BY <1>2, <1>4, <1>5, <1>9

(* The one that is looked for is found where it was added first. *)
LEMMA TargetIsFirst ==
    ASSUME ShellTypeOK, Listening, tui_on, NEW l \in Others
    PROVE  \/ /\ TargetIndex(l) = 0
              /\ ~ \E q \in DOMAIN added : added[q] = l
           \/ /\ \E q \in DOMAIN added : added[q] = l
              /\ TargetIndex(l) = FirstIn(added, l)
              /\ FirstIn(added, l) \in 1 .. Len(added)
  <1>1. /\ added \in Seq(Others) /\ Len(added) \in Nat /\ DOMAIN added = 1 .. Len(added)
        /\ listeners_count = Len(added) + 1 /\ listener_page[0] = "menu"
        /\ \A q \in 1 .. Len(added) : listener_page[q] = added[q]
    BY DEF ShellTypeOK, Listening
  <1>2. l # "menu"
    BY MenusAssumption DEF MenusAssumption
  <1>3. ASSUME NEW q PROVE q \in IndicesOf(l) <=> q \in 1 .. Len(added) /\ added[q] = l
    BY <1>1, <1>2 DEF IndicesOf
  <1>4. CASE IndicesOf(l) = {}
    BY <1>1, <1>3, <1>4 DEF TargetIndex
  <1>5. CASE IndicesOf(l) # {}
    <2> DEFINE m == FirstOf(IndicesOf(l))
    <2>1. IndicesOf(l) \in SUBSET Nat
      BY <1>1, <1>3
    <2>2. m \in IndicesOf(l) /\ \A k \in IndicesOf(l) : m <= k
      BY <1>5, <2>1, LeastOf
    <2>3. TargetIndex(l) = m
      BY <1>5 DEF TargetIndex
    <2> HIDE DEF m
    <2>4. m \in 1 .. Len(added) /\ added[m] = l
      BY <1>3, <2>2
    <2>5. ASSUME NEW k \in 1 .. m - 1 PROVE added[k] # l
      <3>1. k \in 1 .. Len(added) /\ ~(m <= k)
        BY <1>1, <2>4
      <3> QED BY <1>3, <2>2, <3>1
    <2>6. ASSUME NEW x \in DOMAIN added, added[x] = l, \A k \in 1 .. x - 1 : added[k] # l
          PROVE  x = m
      <3>1. m <= x
        BY <1>1, <1>3, <2>2, <2>6
      <3>2. ~(m < x)
        BY <1>1, <2>4, <2>6
      <3> QED BY <1>1, <2>4, <3>1, <3>2
    <2>7. FirstIn(added, l) = m
      <3>1. m \in DOMAIN added /\ added[m] = l /\ \A k \in 1 .. m - 1 : added[k] # l
        BY <1>1, <2>4, <2>5
      <3> QED BY <2>6, <3>1, Zenon DEF FirstIn
    <2> QED BY <1>1, <2>3, <2>4, <2>7
  <1> QED BY <1>4, <1>5

(* One that goes leaves no gap. *)
LEMMA RemoveStep ==
    ASSUME ShellTypeOK, Listening, tui_on, NEW l \in Others, kbd_remove_listener(l),
           added' = Dropped(added, l), tui_on' = tui_on
    PROVE  /\ listener_page' \in [0 .. MaxListeners -> {"menu", "null", "stray"} \cup Others]
           /\ listeners_count' \in 0 .. MaxListeners
           /\ added' \in Seq(Others)
           /\ Listening'
  <1> DEFINE m == FirstIn(added, l)
             n == Len(added)
  <1>1. /\ added \in Seq(Others) /\ n \in Nat /\ MaxListeners \in Nat
        /\ listeners_count = n + 1 /\ listeners_count <= MaxListeners /\ listener_page[0] = "menu"
        /\ \A q \in 1 .. n : listener_page[q] = added[q] /\ added[q] \in Others
        /\ listener_page \in [0 .. MaxListeners -> {"menu", "null", "stray"} \cup Others]
    BY MenusAssumption DEF MenusAssumption, ShellTypeOK, Listening
  <1>2. CASE TargetIndex(l) = 0
    <2>1. ~ \E q \in DOMAIN added : added[q] = l
      <3>1. 0 \notin 1 .. n
        OBVIOUS
      <3> QED BY <1>2, <3>1, TargetIsFirst
    <2>2. added' = added
      BY <2>1, Zenon DEF Dropped
    <2>3. listener_page' = listener_page /\ listeners_count' = listeners_count
      BY <1>2 DEF kbd_remove_listener
    <2> QED BY <1>1, <2>2, <2>3 DEF Listening, ShellTypeOK
  <1>3. CASE TargetIndex(l) # 0
    <2>1. /\ \E q \in DOMAIN added : added[q] = l
          /\ TargetIndex(l) = m /\ m \in 1 .. n
      BY <1>3, TargetIsFirst
    <2>2. added' = SubSeq(added, 1, m - 1) \o SubSeq(added, m + 1, n)
      BY <2>1, Zenon DEF Dropped
    <2>3. listener_page' = Shift(m) /\ listeners_count' = listeners_count - 1
      BY <1>3, <2>1 DEF kbd_remove_listener
    <2> HIDE DEF m, n
    <2> DEFINE s == SubSeq(added, 1, m - 1)
               t == SubSeq(added, m + 1, n)
    <2>4. s \in Seq(Others) /\ Len(s) = m - 1 /\ \A q \in 1 .. m - 1 : s[q] = added[q]
      <3>1. \A q \in 1 .. m - 1 : added[q] \in Others
        BY <1>1, <2>1
      <3>2. 1 \in Int /\ m - 1 \in Int
        BY <1>1, <2>1
      <3>3. /\ s \in Seq(Others)
            /\ Len(s) = IF 1 <= m - 1 THEN (m - 1) - 1 + 1 ELSE 0
            /\ \A q \in 1 .. (m - 1) - 1 + 1 : s[q] = added[1 + q - 1]
        BY <3>1, <3>2, SubSeqProperties
      <3> HIDE DEF s
      <3> QED BY <1>1, <2>1, <3>3
    <2>5. t \in Seq(Others) /\ Len(t) = n - m /\ \A q \in 1 .. n - m : t[q] = added[m + q]
      <3>1. \A q \in m + 1 .. n : added[q] \in Others
        BY <1>1, <2>1
      <3>2. m + 1 \in Int /\ n \in Int
        BY <1>1, <2>1
      <3>3. /\ t \in Seq(Others)
            /\ Len(t) = IF m + 1 <= n THEN n - (m + 1) + 1 ELSE 0
            /\ \A q \in 1 .. n - (m + 1) + 1 : t[q] = added[(m + 1) + q - 1]
        BY <3>1, <3>2, SubSeqProperties
      <3> HIDE DEF t
      <3> QED BY <1>1, <2>1, <3>3
    <2> HIDE DEF s, t
    <2>6. /\ added' \in Seq(Others) /\ Len(added') = Len(s) + Len(t)
          /\ \A q \in 1 .. Len(s) + Len(t) :
               added'[q] = IF q <= Len(s) THEN s[q] ELSE t[q - Len(s)]
      <3>1. added' = s \o t
        BY <2>2 DEF s, t
      <3> QED BY <2>4, <2>5, <3>1, ConcatProperties
    <2>7. Len(added') = n - 1
      BY <1>1, <2>1, <2>4, <2>5, <2>6
    <2>8. ASSUME NEW q \in 1 .. n - 1
          PROVE  added'[q] = IF q < m THEN added[q] ELSE added[q + 1]
      <3>1. q \in 1 .. Len(s) + Len(t)
        BY <1>1, <2>1, <2>4, <2>5
      <3>2. CASE q < m
        <4>1. q \in 1 .. m - 1 /\ q <= Len(s)
          BY <1>1, <2>1, <2>4, <3>2
        <4> QED BY <2>4, <2>6, <3>1, <3>2, <4>1
      <3>3. CASE ~(q < m)
        <4>1. ~(q <= Len(s)) /\ q - Len(s) \in 1 .. n - m /\ m + (q - Len(s)) = q + 1
          BY <1>1, <2>1, <2>4, <3>3
        <4> QED BY <2>5, <2>6, <3>1, <3>3, <4>1
      <3> QED BY <3>2, <3>3
    <2>9. \A q \in 0 .. MaxListeners :
            listener_page'[q] = IF q = listeners_count THEN "null"
                                ELSE IF q >= m /\ q < listeners_count THEN listener_page[q + 1]
                                ELSE listener_page[q]
      BY <2>3 DEF Shift
    <2>10. listener_page' \in [0 .. MaxListeners -> {"menu", "null", "stray"} \cup Others]
      <3>1. ASSUME NEW q \in 0 .. MaxListeners
            PROVE  /\ listener_page[q] \in {"menu", "null", "stray"} \cup Others
                   /\ q < listeners_count => listener_page[q + 1] \in {"menu", "null", "stray"} \cup Others
        <4>1. q < listeners_count => q + 1 \in 0 .. MaxListeners
          BY <1>1
        <4> QED BY <1>1, <4>1
      <3> QED BY <2>3, <3>1 DEF Shift
    <2>11. listener_page'[0] = "menu"
      <3>1. 0 \in 0 .. MaxListeners /\ 0 # listeners_count /\ ~(0 >= m)
        BY <1>1, <2>1
      <3> QED BY <1>1, <2>9, <3>1
    <2>12. ASSUME NEW q \in 1 .. n - 1 PROVE listener_page'[q] = added'[q]
      <3>1. /\ q \in 0 .. MaxListeners /\ q # listeners_count /\ q < listeners_count
            /\ q \in 1 .. n /\ q + 1 \in 1 .. n /\ (q >= m <=> ~(q < m))
        BY <1>1, <2>1
      <3>2. CASE q < m
        BY <1>1, <2>8, <2>9, <3>1, <3>2
      <3>3. CASE ~(q < m)
        BY <1>1, <2>8, <2>9, <3>1, <3>3
      <3> QED BY <3>2, <3>3
    <2>13. listeners_count' = Len(added') + 1 /\ listeners_count' \in 0 .. MaxListeners
      BY <1>1, <2>1, <2>3, <2>7
    <2>14. Listening'
      BY <2>7, <2>11, <2>12, <2>13 DEF Listening
    <2> QED BY <2>6, <2>10, <2>13, <2>14
  <1> QED BY <1>2, <1>3

(* Before the shell starts there is no listener; then the menu is the first. *)
LEMMA FirstListener ==
    ASSUME ShellTypeOK, Begun, stage = "start", kbd_add_listener("menu"), tui_on' = TRUE,
           added' = added
    PROVE  /\ listener_page' \in [0 .. MaxListeners -> {"menu", "null", "stray"} \cup Others]
           /\ listeners_count' \in 0 .. MaxListeners
           /\ Listening'
  <1>1. MaxListeners \in Nat /\ MaxListeners # 0
    BY MenusAssumption DEF MenusAssumption
  <1>2. listeners_count = 0 /\ added = <<>>
    BY DEF Begun
  <1>3. /\ listeners_count' = 1
        /\ listener_page' = [listener_page EXCEPT ![0] = "menu"]
    BY <1>2 DEF kbd_add_listener
  <1>4. /\ listener_page' \in [0 .. MaxListeners -> {"menu", "null", "stray"} \cup Others]
        /\ listener_page'[0] = "menu"
    BY <1>1, <1>3 DEF ShellTypeOK
  <1>5. Len(added') = 0
    BY <1>2
  <1>6. listeners_count' \in 0 .. MaxListeners
    BY <1>1, <1>3
  <1> QED BY <1>3, <1>4, <1>5, <1>6 DEF Listening

-----------------------------------------------------------------------------
(* The steps of the shell, first what they leave alone.                      *)
LEMMA KeepsListening ==
    ASSUME ShellTypeOK, Listening, UNCHANGED listening, tui_on' = tui_on
    PROVE  /\ listener_page' \in [0 .. MaxListeners -> {"menu", "null", "stray"} \cup Others]
           /\ listeners_count' \in 0 .. MaxListeners
           /\ added' \in Seq(Others)
           /\ Listening'
  BY DEF ShellTypeOK, Listening, listening

LEMMA KeepsFingers ==
    ASSUME ShellTypeOK, Fingers, UNCHANGED modifiers
    PROVE  /\ {shift', caps', nums', both'} \subseteq BOOLEAN
           /\ down' \subseteq Shifts
           /\ Fingers'
  <1>1. shift' = shift /\ caps' = caps /\ nums' = nums /\ both' = both /\ down' = down
    BY DEF modifiers
  <1>2. {shift', caps', nums', both'} \subseteq BOOLEAN
    BY <1>1, Zenon DEF ShellTypeOK
  <1>3. Fingers'
    BY <1>1, Zenon DEF Fingers
  <1>4. down' \subseteq Shifts
    BY <1>1 DEF ShellTypeOK
  <1> QED BY <1>2, <1>3, <1>4

LEMMA KeepsMenu ==
    ASSUME ShellTypeOK, UNCHANGED menu
    PROVE  /\ {needs_update', pong'} \subseteq BOOLEAN
           /\ screen' \in Screens
           /\ selected_option' \in Options \cup {NULL}
           /\ screen' = screen /\ selected_option' = selected_option /\ needs_update' = needs_update
  <1>1. /\ screen' = screen /\ selected_option' = selected_option /\ needs_update' = needs_update
        /\ pong' = pong
    BY DEF menu
  <1>2. {needs_update', pong'} \subseteq BOOLEAN
    BY <1>1, Zenon DEF ShellTypeOK
  <1> QED BY <1>1, <1>2 DEF ShellTypeOK, Screens, Looks

LEMMA ShownNext ==
    ASSUME screen_ready' /\ tui_on' /\ ~needs_update' => ShowsOnly(screen', selected_option')
    PROVE  ShowsSelection'
  BY DEF ShowsSelection, ShowsOnly

LEMMA ShellTypeNext ==
    ASSUME {shift', caps', nums', both'} \subseteq BOOLEAN,
           {needs_update', pong'} \subseteq BOOLEAN,
           {screen_ready', tui_on'} \subseteq BOOLEAN,
           listener_page' \in [0 .. MaxListeners -> {"menu", "null", "stray"} \cup Others],
           listeners_count' \in 0 .. MaxListeners,
           selected_option' \in Options \cup {NULL},
           screen' \in Screens,
           stage' \in {"start", "update", "keys", "ended"},
           left' \in 0 .. MaxBuffered,
           down' \subseteq Shifts,
           added' \in Seq(Others)
    PROVE  ShellTypeOK'
  <1>1. {shift', caps', nums', needs_update', pong', screen_ready', tui_on', both'} \subseteq BOOLEAN
    BY Zenon
  <1>2. screen' \in [Texts -> {"blank", "plain", "highlit", "Pong?", "Pong!"}]
    BY DEF Screens, Looks
  <1> QED BY <1>1, <1>2, Zenon DEF ShellTypeOK

(* tui_start: the option is selected before the menu is drawn. *)
LEMMA StartStep == ASSUME ShellInv, tui_start PROVE ShellInv'
  <1>1. ShellTypeOK /\ Begun /\ ShowsSelection /\ Listening /\ Fingers
    BY DEF ShellInv
  <1>2. stage = "start" /\ stage' = "update" /\ UNCHANGED modifiers /\ added' = added /\ left' = left
    BY DEF tui_start
  <1>3. left' \in 0 .. MaxBuffered /\ added' \in Seq(Others) /\ screen \in Screens
    BY <1>1, <1>2 DEF ShellTypeOK, Screens, Looks
  <1>4. CASE tui_on' = FALSE /\ UNCHANGED <<listener_page, listeners_count, menu, screen_ready>>
    <2>1. {screen_ready', tui_on'} \subseteq BOOLEAN
      <3>1. screen_ready' = screen_ready /\ tui_on' = FALSE
        BY <1>4
      <3> QED BY <1>1, <3>1, Zenon DEF ShellTypeOK
    <2>2. /\ listener_page' \in [0 .. MaxListeners -> {"menu", "null", "stray"} \cup Others]
          /\ listeners_count' \in 0 .. MaxListeners
      BY <1>1, <1>4 DEF ShellTypeOK
    <2>3. ShellTypeOK'
      BY <1>1, <1>2, <1>3, <1>4, <2>1, <2>2, KeepsFingers, KeepsMenu, ShellTypeNext
    <2>4. Begun' /\ ShowsSelection' /\ Listening'
      BY <1>2, <1>4 DEF Begun, ShowsSelection, Listening
    <2> QED BY <1>1, <1>2, <2>3, <2>4, KeepsFingers DEF ShellInv
  <1>5. CASE ~(tui_on' = FALSE /\ UNCHANGED <<listener_page, listeners_count, menu, screen_ready>>)
    <2>1. /\ tui_on' = TRUE
          /\ kbd_add_listener("menu")
          /\ \E ready \in BOOLEAN :
              /\ screen_ready' = ready
              /\ Shows(_menu_main_draw(_menu_main_select_option(
                   [selected |-> 1, screen |-> text_render_clear(screen, ready)], ready, 1), ready))
          /\ needs_update' = FALSE
          /\ UNCHANGED pong
      BY <1>5 DEF tui_start
    <2>2. PICK ready \in BOOLEAN :
              /\ screen_ready' = ready
              /\ Shows(_menu_main_draw(_menu_main_select_option(
                   [selected |-> 1, screen |-> text_render_clear(screen, ready)], ready, 1), ready))
      BY <2>1
    <2> DEFINE first == [selected |-> 1, screen |-> text_render_clear(screen, ready)]
               chosen == _menu_main_select_option(first, ready, 1)
               drawn == _menu_main_draw(chosen, ready)
    <2>3. first \in [selected : Nat, screen : Screens]
      <3>1. Blank \in Screens
        BY DEF Blank, Screens, Looks
      <3>2. text_render_clear(screen, ready) \in Screens
        BY <1>3, <3>1 DEF text_render_clear
      <3> QED BY <3>2
    <2> HIDE DEF first
    <2>4. 1 \in Options /\ 1 # NULL
      BY DEF Options, NULL
    <2>5. chosen \in [selected : Nat, screen : Screens] /\ chosen.selected = 1
      BY <2>3, <2>4, Selecting
    <2> HIDE DEF chosen
    <2>6. /\ drawn \in [selected : Nat, screen : Screens]
          /\ drawn.selected = 1
          /\ ready => ShowsOnly(drawn.screen, drawn.selected)
      BY <2>4, <2>5, Drawing
    <2>7. Shows(drawn)
      BY <2>2 DEF first, chosen
    <2> HIDE DEF drawn
    <2>8. screen' \in Screens /\ selected_option' = drawn.selected /\ screen' = drawn.screen
      BY <2>6, <2>7, Shown
    <2>9. {screen_ready', tui_on'} \subseteq BOOLEAN
      BY <2>1, <2>2, Zenon
    <2>10. {needs_update', pong'} \subseteq BOOLEAN
      <3>1. needs_update' = FALSE /\ pong' = pong
        BY <2>1
      <3> QED BY <1>1, <3>1, Zenon DEF ShellTypeOK
    <2>11. /\ listener_page' \in [0 .. MaxListeners -> {"menu", "null", "stray"} \cup Others]
           /\ listeners_count' \in 0 .. MaxListeners
           /\ Listening'
      BY <1>1, <1>2, <2>1, FirstListener
    <2>12. selected_option' \in Options
      BY <2>4, <2>6, <2>8
    <2>13. ShellTypeOK'
      <3>1. selected_option' \in Options \cup {NULL} /\ stage' \in {"start", "update", "keys", "ended"}
        BY <1>2, <2>12
      <3> QED BY <1>1, <1>2, <1>3, <2>8, <2>9, <2>10, <2>11, <3>1, KeepsFingers, ShellTypeNext
    <2>14. Begun'
      BY <1>2, <2>12 DEF Begun
    <2>15. ShowsSelection'
      BY <2>2, <2>6, <2>8, ShownNext
    <2> QED BY <1>1, <1>2, <2>11, <2>13, <2>14, <2>15, KeepsFingers DEF ShellInv
  <1> QED BY <1>4, <1>5

(* kbd_update, a key: the modifiers and the menu. *)
LEMMA UpdateKeyStep == ASSUME ShellInv, kbd_update_key PROVE ShellInv'
  <1>1. ShellTypeOK /\ Begun /\ ShowsSelection /\ Listening /\ Fingers
    BY DEF ShellInv
  <1>2. /\ stage = "keys" /\ left > 0 /\ left' = left - 1
        /\ UNCHANGED listening /\ screen_ready' = screen_ready /\ tui_on' = tui_on /\ stage' = stage
    BY DEF kbd_update_key
  <1>3. PICK keycode \in Keys :
          /\ Held(keycode)
          /\ tracks(keycode)
          /\ IF IndicesOf("menu") # {} THEN menu_main_handle_key(keycode) ELSE UNCHANGED menu
    BY DEF kbd_update_key
  <1>4. tui_on /\ selected_option \in Options
    BY <1>1, <1>2 DEF Begun
  <1>5. MenuStep
    <2>1. CASE UNCHANGED menu
      <3>1. screen_ready /\ ~needs_update => ShowsOnly(screen, selected_option)
        BY <1>1, <1>4 DEF ShowsSelection, ShowsOnly
      <3> QED BY <1>1, <1>4, <2>1, <3>1, KeepsMenu DEF MenuStep
    <2>2. CASE menu_main_handle_key(keycode)
      BY <1>1, <1>4, <2>2, KeyStep
    <2> QED BY <1>3, <2>1, <2>2
  <1>6. {screen_ready', tui_on'} \subseteq BOOLEAN
    BY <1>1, <1>2, Zenon DEF ShellTypeOK
  <1>7. left' \in 0 .. MaxBuffered /\ stage' \in {"start", "update", "keys", "ended"}
    BY <1>1, <1>2, MenusAssumption DEF MenusAssumption, ShellTypeOK
  <1>8. /\ {shift', caps', nums', both'} \subseteq BOOLEAN
        /\ down' \subseteq Shifts /\ Fingers'
    BY <1>1, <1>3, HandStep
  <1>9. /\ listener_page' \in [0 .. MaxListeners -> {"menu", "null", "stray"} \cup Others]
        /\ listeners_count' \in 0 .. MaxListeners /\ added' \in Seq(Others) /\ Listening'
    BY <1>1, <1>2, KeepsListening
  <1>10. /\ {needs_update', pong'} \subseteq BOOLEAN /\ screen' \in Screens
         /\ selected_option' \in Options \cup {NULL}
    BY <1>5 DEF MenuStep
  <1>11. ShellTypeOK'
    BY <1>6, <1>7, <1>8, <1>9, <1>10, ShellTypeNext
  <1>12. Begun'
    BY <1>2, <1>4, <1>5 DEF Begun, MenuStep
  <1>13. ShowsSelection'
    BY <1>2, <1>5, ShownNext DEF MenuStep
  <1> QED BY <1>8, <1>9, <1>11, <1>12, <1>13 DEF ShellInv

(* A step that leaves the menu alone. *)
LEMMA OtherStep ==
    ASSUME ShellInv, UNCHANGED <<modifiers, menu>>, tui_on' = tui_on,
           screen_ready' => screen_ready,
           {screen_ready', tui_on'} \subseteq BOOLEAN,
           stage' \in {"update", "keys", "ended"}, stage' = "keys" => tui_on,
           left' \in 0 .. MaxBuffered,
           listener_page' \in [0 .. MaxListeners -> {"menu", "null", "stray"} \cup Others],
           listeners_count' \in 0 .. MaxListeners,
           added' \in Seq(Others), Listening'
    PROVE  ShellInv'
  <1>1. ShellTypeOK /\ Begun /\ ShowsSelection /\ Listening /\ Fingers
    BY DEF ShellInv
  <1>2. UNCHANGED modifiers /\ UNCHANGED menu
    OBVIOUS
  <1>3. stage' \in {"start", "update", "keys", "ended"} /\ stage' # "start"
    OBVIOUS
  <1>4. ShellTypeOK'
    BY <1>1, <1>2, <1>3, KeepsFingers, KeepsMenu, ShellTypeNext
  <1>5. Begun'
    BY <1>1, <1>2, <1>3, KeepsMenu DEF Begun
  <1>6. ShowsSelection'
    <2>1. screen_ready /\ tui_on /\ ~needs_update => ShowsOnly(screen, selected_option)
      BY <1>1 DEF ShowsSelection, ShowsOnly
    <2> QED BY <1>1, <1>2, <2>1, KeepsMenu, ShownNext
  <1> QED BY <1>1, <1>2, <1>4, <1>5, <1>6, KeepsFingers DEF ShellInv

(* tui_graphic_update: the menu is drawn where it was cleared. *)
LEMMA DrawStep == ASSUME ShellInv, tui_graphic_update PROVE ShellInv'
  <1>1. ShellTypeOK /\ Begun /\ ShowsSelection /\ Listening /\ Fingers
    BY DEF ShellInv
  <1>2. /\ stage = "keys" /\ stage' = "update" /\ needs_update' = FALSE
        /\ UNCHANGED modifiers /\ UNCHANGED listening
        /\ pong' = pong /\ screen_ready' = screen_ready /\ tui_on' = tui_on /\ left' = left
    BY DEF tui_graphic_update
  <1>3. tui_on /\ selected_option \in Options /\ screen_ready \in BOOLEAN
    BY <1>1, <1>2 DEF Begun, ShellTypeOK
  <1>4. /\ screen' \in Screens /\ selected_option' \in Options
        /\ screen_ready => ShowsOnly(screen', selected_option')
    <2>1. CASE needs_update
      <3> DEFINE drawn == _menu_main_draw(Menu, screen_ready)
      <3>1. Shows(drawn)
        BY <2>1 DEF tui_graphic_update
      <3>2. /\ drawn \in [selected : Nat, screen : Screens] /\ drawn.selected = selected_option
            /\ screen_ready => ShowsOnly(drawn.screen, drawn.selected)
        BY <1>1, <1>3, MenuType, Drawing
      <3> HIDE DEF drawn
      <3>3. screen' \in Screens /\ selected_option' = drawn.selected /\ screen' = drawn.screen
        BY <3>1, <3>2, Shown
      <3> QED BY <1>3, <3>2, <3>3
    <2>2. CASE ~needs_update
      <3>1. Shows(Menu)
        BY <2>2 DEF tui_graphic_update
      <3>2. screen' = screen /\ selected_option' = selected_option /\ screen' \in Screens
        BY <1>1, <3>1, MenuType, Shown
      <3>3. screen_ready => ShowsOnly(screen, selected_option)
        BY <1>1, <1>3, <2>2 DEF ShowsSelection, ShowsOnly
      <3> QED BY <1>3, <3>2, <3>3
    <2> QED BY <2>1, <2>2
  <1>5. {screen_ready', tui_on'} \subseteq BOOLEAN
    BY <1>1, <1>2, Zenon DEF ShellTypeOK
  <1>6. {needs_update', pong'} \subseteq BOOLEAN
    BY <1>1, <1>2, Zenon DEF ShellTypeOK
  <1>7. /\ left' \in 0 .. MaxBuffered /\ stage' \in {"start", "update", "keys", "ended"}
        /\ selected_option' \in Options \cup {NULL}
    BY <1>1, <1>2, <1>4 DEF ShellTypeOK
  <1>8. ShellTypeOK'
    BY <1>1, <1>2, <1>4, <1>5, <1>6, <1>7, KeepsFingers, KeepsListening, ShellTypeNext
  <1>9. Begun'
    BY <1>2, <1>4 DEF Begun
  <1>10. ShowsSelection'
    BY <1>2, <1>4, ShownNext
  <1> QED BY <1>1, <1>2, <1>8, <1>9, <1>10, KeepsFingers, KeepsListening DEF ShellInv

(* Every step of the shell. *)
LEMMA ShellNextInv == ShellInv /\ [ShellNext]_shell_vars => ShellInv'
  <1> SUFFICES ASSUME ShellInv, [ShellNext]_shell_vars PROVE ShellInv'
    OBVIOUS
  <1>1. ShellTypeOK /\ Begun /\ ShowsSelection /\ Listening /\ Fingers
    BY DEF ShellInv
  <1>2. CASE tui_start
    BY <1>2, StartStep
  <1>3. CASE kbd_update_key
    BY <1>3, UpdateKeyStep
  <1>4. CASE tui_graphic_update
    BY <1>4, DrawStep
  <1>5. CASE kbd_update_begins
    <2>1. /\ stage = "update" /\ tui_on /\ stage' = "keys" /\ tui_on' = tui_on
          /\ screen_ready' = screen_ready /\ left' \in 0 .. MaxBuffered
          /\ UNCHANGED <<modifiers, menu>> /\ UNCHANGED listening
      BY <1>5 DEF kbd_update_begins
    <2>2. {screen_ready', tui_on'} \subseteq BOOLEAN
      BY <1>1, <2>1, Zenon DEF ShellTypeOK
    <2>3. stage' \in {"update", "keys", "ended"}
      BY <2>1
    <2> QED BY <1>1, <2>1, <2>2, <2>3, KeepsListening, OtherStep
  <1>6. CASE main_ends
    <2>1. /\ stage = "update" /\ ~tui_on /\ stage' = "ended" /\ tui_on' = tui_on
          /\ screen_ready' = FALSE /\ left' = left
          /\ UNCHANGED <<modifiers, menu>> /\ UNCHANGED listening
      BY <1>6 DEF main_ends
    <2>2. {screen_ready', tui_on'} \subseteq BOOLEAN
      BY <1>1, <2>1, Zenon DEF ShellTypeOK
    <2>3. stage' \in {"update", "keys", "ended"} /\ left' \in 0 .. MaxBuffered
      BY <1>1, <2>1 DEF ShellTypeOK
    <2> QED BY <1>1, <2>1, <2>2, <2>3, KeepsListening, OtherStep
  <1>7. CASE listener_comes_or_goes
    <2>1. /\ stage = "update" /\ tui_on /\ stage' = stage /\ tui_on' = tui_on
          /\ screen_ready' = screen_ready /\ left' = left
          /\ UNCHANGED <<modifiers, menu>>
      BY <1>7 DEF listener_comes_or_goes
    <2>2. {screen_ready', tui_on'} \subseteq BOOLEAN
      BY <1>1, <2>1, Zenon DEF ShellTypeOK
    <2>3. stage' \in {"update", "keys", "ended"} /\ left' \in 0 .. MaxBuffered
      BY <1>1, <2>1 DEF ShellTypeOK
    <2>4. PICK l \in Others :
            \/ kbd_add_listener(l) /\ added' = Append(added, l)
            \/ kbd_remove_listener(l) /\ added' = Dropped(added, l)
      BY <1>7 DEF listener_comes_or_goes
    <2>5. /\ listener_page' \in [0 .. MaxListeners -> {"menu", "null", "stray"} \cup Others]
          /\ listeners_count' \in 0 .. MaxListeners /\ added' \in Seq(Others) /\ Listening'
      <3>1. CASE kbd_add_listener(l) /\ added' = Append(added, l)
        BY <1>1, <2>1, <3>1, AddStep
      <3>2. CASE kbd_remove_listener(l) /\ added' = Dropped(added, l)
        BY <1>1, <2>1, <3>2, RemoveStep
      <3> QED BY <2>4, <3>1, <3>2
    <2> QED BY <2>1, <2>2, <2>3, <2>5, OtherStep
  <1>8. CASE UNCHANGED shell_vars
    <2>1. /\ UNCHANGED modifiers /\ UNCHANGED listening /\ UNCHANGED menu
          /\ screen_ready' = screen_ready /\ tui_on' = tui_on /\ stage' = stage /\ left' = left
      BY <1>8 DEF shell_vars
    <2>2. {screen_ready', tui_on'} \subseteq BOOLEAN
      BY <1>1, <2>1, Zenon DEF ShellTypeOK
    <2>3. stage' \in {"start", "update", "keys", "ended"} /\ left' \in 0 .. MaxBuffered
      BY <1>1, <2>1 DEF ShellTypeOK
    <2>4. ShellTypeOK'
      BY <1>1, <2>1, <2>2, <2>3, KeepsFingers, KeepsListening, KeepsMenu, ShellTypeNext
    <2>5. Begun'
      BY <1>1, <2>1, KeepsMenu DEF Begun, listening
    <2>6. ShowsSelection'
      <3>1. screen_ready /\ tui_on /\ ~needs_update => ShowsOnly(screen, selected_option)
        BY <1>1 DEF ShowsSelection, ShowsOnly
      <3> QED BY <1>1, <2>1, <3>1, KeepsMenu, ShownNext
    <2> QED BY <1>1, <2>1, <2>4, <2>5, <2>6, KeepsFingers, KeepsListening DEF ShellInv
  <1> QED BY <1>2, <1>3, <1>4, <1>5, <1>6, <1>7, <1>8 DEF ShellNext, tui_update

-----------------------------------------------------------------------------
(* What holds of the shell, for every page of listeners, every set of them   *)
(* and any number of keystrokes to an update.                                *)

(* The menu, the listeners and the modifiers of the shell at every step. *)
THEOREM ShellInvariant == ShellSpec => []ShellInv
  <1> QED BY ShellInitInv, ShellNextInv, PTL DEF ShellSpec

(* Every variable of the shell has its type: the listeners fit in their page. *)
THEOREM ShellTypeCorrect == ShellSpec => []ShellTypeOK
  <1>1. ShellInv => ShellTypeOK
    BY DEF ShellInv
  <1> QED BY <1>1, ShellInvariant, PTL

(* While _menu_needs_update is not set the screen shows the menu, with the    *)
(* selected option highlighted and no other.                                *)
THEOREM SelectionIsShown == ShellSpec => []ShowsSelection
  <1>1. ShellInv => ShowsSelection
    BY DEF ShellInv
  <1> QED BY <1>1, ShellInvariant, PTL

(* The listeners as one sequence. *)
LEMMA ListeningIsOrder == ASSUME ShellTypeOK, Listening PROVE CalledInOrder
  <1> SUFFICES ASSUME tui_on
               PROVE  [q \in 1 .. listeners_count |-> listener_page[q - 1]] = <<"menu">> \o added
    BY DEF CalledInOrder
  <1> DEFINE A == {"menu"} \cup Others
             calls == [q \in 1 .. listeners_count |-> listener_page[q - 1]]
             n == Len(added)
  <1>1. /\ added \in Seq(Others) /\ n \in Nat
        /\ listeners_count = n + 1 /\ listener_page[0] = "menu"
        /\ \A q \in 1 .. n : listener_page[q] = added[q]
        /\ \A q \in 1 .. n : added[q] \in Others
    BY DEF ShellTypeOK, Listening
  <1>2. added \in Seq(A)
    BY <1>1, SeqMonotonic
  <1>3. <<"menu">> \in Seq(A) /\ Len(<<"menu">>) = 1 /\ <<"menu">>[1] = "menu"
    OBVIOUS
  <1>4. PICK one : one = <<"menu">>
    OBVIOUS
  <1>5. PICK all : all = one \o added
    OBVIOUS
  <1>6. /\ all \in Seq(A) /\ Len(all) = n + 1
        /\ \A q \in 1 .. n + 1 : all[q] = IF q <= 1 THEN "menu" ELSE added[q - 1]
    <2>1. /\ one \o added \in Seq(A) /\ Len(one \o added) = Len(one) + n
          /\ \A q \in 1 .. Len(one) + n :
               (one \o added)[q] = IF q <= Len(one) THEN one[q] ELSE added[q - Len(one)]
      BY <1>2, <1>3, <1>4, ConcatProperties
    <2>2. Len(one) = 1 /\ one[1] = "menu"
      BY <1>3, <1>4
    <2>3. ASSUME NEW q \in 1 .. n + 1 PROVE all[q] = IF q <= 1 THEN "menu" ELSE added[q - 1]
      <3>1. q \in 1 .. Len(one) + n
        BY <1>1, <2>2
      <3>2. all[q] = IF q <= 1 THEN one[q] ELSE added[q - 1]
        BY <1>5, <2>1, <2>2, <3>1
      <3>3. q <= 1 => q = 1
        BY <1>1
      <3> QED BY <2>2, <3>2, <3>3
    <2> QED BY <1>1, <1>5, <2>1, <2>2, <2>3
  <1>7. ASSUME NEW q \in 1 .. n + 1 PROVE listener_page[q - 1] = all[q] /\ all[q] \in A
    <2>1. CASE q = 1
      BY <1>1, <1>6, <2>1
    <2>2. CASE q # 1
      <3>1. q - 1 \in 1 .. n /\ ~(q <= 1)
        BY <1>1, <2>2
      <3> QED BY <1>1, <1>6, <3>1
    <2> QED BY <2>1, <2>2
  <1>8. all = [q \in 1 .. n + 1 |-> all[q]]
    BY <1>1, <1>6
  <1>9. calls = [q \in 1 .. n + 1 |-> all[q]]
    BY <1>1, <1>7
  <1> HIDE DEF calls
  <1>10. calls = <<"menu">> \o added
    BY <1>4, <1>5, <1>8, <1>9
  <1> QED BY <1>10 DEF calls

(* Those that are called on a key are the menu and the listeners that were    *)
(* added and not removed since, in the order they were added.                *)
THEOREM ListenersInOrder == ShellSpec => []CalledInOrder
  <1>1. ShellInv => CalledInOrder
    BY ListeningIsOrder DEF ShellInv
  <1> QED BY <1>1, ShellInvariant, PTL

-----------------------------------------------------------------------------
(* The tables of the keys, which are put together from rows.                 *)

(* The sequence u is t of length k behind s of length m. *)
Glued(u, s, m, t, k) ==
    \A q \in 1 .. m + k : u[q] = IF q <= m THEN s[q] ELSE t[q - m]

LEMMA Joint ==
    ASSUME NEW C, NEW s \in Seq(C), NEW t \in Seq(C)
    PROVE  s \o t \in Seq(C) /\ Len(s \o t) = Len(s) + Len(t) /\ Glued(s \o t, s, Len(s), t, Len(t))
  BY ConcatProperties DEF Glued

LEMMA GluedLeft ==
    ASSUME NEW u, NEW s, NEW t, NEW m \in Nat, NEW k \in Nat, Glued(u, s, m, t, k), NEW q \in 1 .. m
    PROVE  u[q] = s[q]
  <1>1. q \in 1 .. m + k /\ q <= m
    OBVIOUS
  <1> QED BY <1>1 DEF Glued

(* Three rows of a table, with their lengths. *)
Rows(C, r, n1, n2, n3) ==
    /\ r[1] \in Seq(C) /\ Len(r[1]) = n1
    /\ r[2] \in Seq(C) /\ Len(r[2]) = n2
    /\ r[3] \in Seq(C) /\ Len(r[3]) = n3

(* Where a table has the rows it is put together from. *)
Laid(t, digits, letters, marks, pad) ==
    /\ \A q \in 1 .. 13 : t[q] = digits[q]
    /\ \A q \in 14 .. 23 : t[q] = letters[1][q - 13]
    /\ \A q \in 24 .. 26 : t[q] = marks[1][q - 23]
    /\ \A q \in 27 .. 35 : t[q] = letters[2][q - 26]
    /\ \A q \in 36 .. 37 : t[q] = marks[2][q - 35]
    /\ \A q \in 38 .. 44 : t[q] = letters[3][q - 37]
    /\ \A q \in 45 .. 47 : t[q] = marks[3][q - 44]
    /\ t[48] = "space"
    /\ \A q \in 49 .. 64 : t[q] = pad[q - 48]
    /\ t[65] = "newline" /\ t[66] = "tab"

LEMMA TableIs ==
    ASSUME NEW C, {"space", "newline", "tab", "backspace"} \subseteq C,
           NEW digits \in Seq(C), Len(digits) = 13,
           NEW letters, Rows(C, letters, 10, 9, 7),
           NEW marks, Rows(C, marks, 3, 2, 3),
           NEW pad \in Seq(C), Len(pad) = 16,
           NEW t, t = Table(digits, letters, marks, pad)
    PROVE  Laid(t, digits, letters, marks, pad)
  <1> DEFINE r1 == letters[1]
             r2 == marks[1]
             r3 == letters[2]
             r4 == marks[2]
             r5 == letters[3]
             r6 == marks[3]
             r7 == <<"space">>
             r8 == pad
             r9 == <<"newline", "tab", "backspace">>
             k1 == digits \o r1
             k2 == k1 \o r2
             k3 == k2 \o r3
             k4 == k3 \o r4
             k5 == k4 \o r5
             k6 == k5 \o r6
             k7 == k6 \o r7
             k8 == k7 \o r8
             k9 == k8 \o r9
             e0 == 13
             e1 == 23
             e2 == 26
             e3 == 35
             e4 == 37
             e5 == 44
             e6 == 47
             e7 == 48
             e8 == 64
             e9 == 67
             d1 == 10
             d2 == 3
             d3 == 9
             d4 == 2
             d5 == 7
             d6 == 3
             d7 == 1
             d8 == 16
             d9 == 3
  <1>1. digits \in Seq(C) /\ Len(digits) = e0
    OBVIOUS
  <1>2. r1 \in Seq(C) /\ Len(r1) = d1
    BY DEF Rows
  <1>3. r2 \in Seq(C) /\ Len(r2) = d2
    BY DEF Rows
  <1>4. r3 \in Seq(C) /\ Len(r3) = d3
    BY DEF Rows
  <1>5. r4 \in Seq(C) /\ Len(r4) = d4
    BY DEF Rows
  <1>6. r5 \in Seq(C) /\ Len(r5) = d5
    BY DEF Rows
  <1>7. r6 \in Seq(C) /\ Len(r6) = d6
    BY DEF Rows
  <1>8. r7 \in Seq(C) /\ Len(r7) = d7
    OBVIOUS
  <1>9. r8 \in Seq(C) /\ Len(r8) = d8
    OBVIOUS
  <1>10. r9 \in Seq(C) /\ Len(r9) = d9
    OBVIOUS
  <1>11. r7[1] = "space" /\ r9[1] = "newline" /\ r9[2] = "tab"
    OBVIOUS
  <1>12. t = [q \in 0 .. \h43 |-> IF q = 0 THEN NoChar ELSE k9[q]]
    BY Zenon DEF Table
  <1>13. 
        /\ e0 \in Nat /\ e1 \in Nat /\ e2 \in Nat /\ e3 \in Nat /\ e4 \in Nat /\ e5 \in Nat
        /\ e6 \in Nat /\ e7 \in Nat /\ e8 \in Nat /\ e9 \in Nat /\ d1 \in Nat /\ d2 \in Nat
        /\ d3 \in Nat /\ d4 \in Nat /\ d5 \in Nat /\ d6 \in Nat /\ d7 \in Nat /\ d8 \in Nat
        /\ d9 \in Nat
    OBVIOUS
  <1>14. 
        /\ e1 = e0 + d1 /\ e2 = e1 + d2 /\ e3 = e2 + d3 /\ e4 = e3 + d4
        /\ e5 = e4 + d5 /\ e6 = e5 + d6 /\ e7 = e6 + d7 /\ e8 = e7 + d8
        /\ e9 = e8 + d9
    OBVIOUS
  <1>15. 
        /\ e0 <= e1 /\ e1 <= e2 /\ e2 <= e3 /\ e3 <= e4 /\ e4 <= e5
        /\ e5 <= e6 /\ e6 <= e7 /\ e7 <= e8 /\ e8 <= e9
    OBVIOUS
  <1>16. k1 = digits \o r1
    OBVIOUS
  <1>17. k2 = k1 \o r2
    OBVIOUS
  <1>18. k3 = k2 \o r3
    OBVIOUS
  <1>19. k4 = k3 \o r4
    OBVIOUS
  <1>20. k5 = k4 \o r5
    OBVIOUS
  <1>21. k6 = k5 \o r6
    OBVIOUS
  <1>22. k7 = k6 \o r7
    OBVIOUS
  <1>23. k8 = k7 \o r8
    OBVIOUS
  <1>24. k9 = k8 \o r9
    OBVIOUS
  <1>25. 
        /\ e0 = 13 /\ e1 = 23 /\ e2 = 26 /\ e3 = 35 /\ e4 = 37 /\ e5 = 44
        /\ e6 = 47 /\ e7 = 48 /\ e8 = 64 /\ e9 = 67 /\ d1 = 10 /\ d2 = 3
        /\ d3 = 9 /\ d4 = 2 /\ d5 = 7 /\ d6 = 3 /\ d7 = 1 /\ d8 = 16
        /\ d9 = 3
    OBVIOUS
  <1> HIDE DEF e0, e1, e2, e3, e4, e5, e6, e7, e8, e9, d1, d2, d3, d4, d5, d6, d7, d8, d9,
               k1, k2, k3, k4, k5, k6, k7, k8, k9, r1, r2, r3, r4, r5, r6, r7, r8, r9
  <1>26. ASSUME NEW q \in 1 .. 67 PROVE t[q] = k9[q]
    <2>1. q \in 0 .. 67 /\ q # 0
      OBVIOUS
    <2> QED BY <1>12, <2>1
  <1>27. k1 \in Seq(C) /\ Len(k1) = e1 /\ Glued(k1, digits, e0, r1, d1)
    <2>1. e0 \in Nat /\ d1 \in Nat /\ e1 = e0 + d1
      BY <1>13, <1>14
    <2> QED BY <1>1, <1>2, <1>16, <2>1, Joint
  <1>28. k2 \in Seq(C) /\ Len(k2) = e2 /\ Glued(k2, k1, e1, r2, d2)
    <2>1. e1 \in Nat /\ d2 \in Nat /\ e2 = e1 + d2
      BY <1>13, <1>14
    <2> QED BY <1>27, <1>3, <1>17, <2>1, Joint
  <1>29. k3 \in Seq(C) /\ Len(k3) = e3 /\ Glued(k3, k2, e2, r3, d3)
    <2>1. e2 \in Nat /\ d3 \in Nat /\ e3 = e2 + d3
      BY <1>13, <1>14
    <2> QED BY <1>28, <1>4, <1>18, <2>1, Joint
  <1>30. k4 \in Seq(C) /\ Len(k4) = e4 /\ Glued(k4, k3, e3, r4, d4)
    <2>1. e3 \in Nat /\ d4 \in Nat /\ e4 = e3 + d4
      BY <1>13, <1>14
    <2> QED BY <1>29, <1>5, <1>19, <2>1, Joint
  <1>31. k5 \in Seq(C) /\ Len(k5) = e5 /\ Glued(k5, k4, e4, r5, d5)
    <2>1. e4 \in Nat /\ d5 \in Nat /\ e5 = e4 + d5
      BY <1>13, <1>14
    <2> QED BY <1>30, <1>6, <1>20, <2>1, Joint
  <1>32. k6 \in Seq(C) /\ Len(k6) = e6 /\ Glued(k6, k5, e5, r6, d6)
    <2>1. e5 \in Nat /\ d6 \in Nat /\ e6 = e5 + d6
      BY <1>13, <1>14
    <2> QED BY <1>31, <1>7, <1>21, <2>1, Joint
  <1>33. k7 \in Seq(C) /\ Len(k7) = e7 /\ Glued(k7, k6, e6, r7, d7)
    <2>1. e6 \in Nat /\ d7 \in Nat /\ e7 = e6 + d7
      BY <1>13, <1>14
    <2> QED BY <1>32, <1>8, <1>22, <2>1, Joint
  <1>34. k8 \in Seq(C) /\ Len(k8) = e8 /\ Glued(k8, k7, e7, r8, d8)
    <2>1. e7 \in Nat /\ d8 \in Nat /\ e8 = e7 + d8
      BY <1>13, <1>14
    <2> QED BY <1>33, <1>9, <1>23, <2>1, Joint
  <1>35. k9 \in Seq(C) /\ Len(k9) = e9 /\ Glued(k9, k8, e8, r9, d9)
    <2>1. e8 \in Nat /\ d9 \in Nat /\ e9 = e8 + d9
      BY <1>13, <1>14
    <2> QED BY <1>34, <1>10, <1>24, <2>1, Joint
  <1>36. \A q \in 1 .. e9 : k9[q] = k9[q]
    OBVIOUS
  <1>37. ASSUME NEW q \in 1 .. e8 PROVE k9[q] = k8[q]
    <2>1. q \in 1 .. e9
      BY <1>13, <1>15
    <2>2. Glued(k9, k8, e8, r9, d9) /\ e8 \in Nat /\ d9 \in Nat
      BY <1>13, <1>35
    <2>3. k9[q] = k8[q]
      BY <2>2, GluedLeft
    <2> QED BY <1>36, <2>1, <2>3
  <1>38. ASSUME NEW q \in 1 .. e7 PROVE k9[q] = k7[q]
    <2>1. q \in 1 .. e8
      BY <1>13, <1>15
    <2>2. Glued(k8, k7, e7, r8, d8) /\ e7 \in Nat /\ d8 \in Nat
      BY <1>13, <1>34
    <2>3. k8[q] = k7[q]
      BY <2>2, GluedLeft
    <2> QED BY <1>37, <2>1, <2>3
  <1>39. ASSUME NEW q \in 1 .. e6 PROVE k9[q] = k6[q]
    <2>1. q \in 1 .. e7
      BY <1>13, <1>15
    <2>2. Glued(k7, k6, e6, r7, d7) /\ e6 \in Nat /\ d7 \in Nat
      BY <1>13, <1>33
    <2>3. k7[q] = k6[q]
      BY <2>2, GluedLeft
    <2> QED BY <1>38, <2>1, <2>3
  <1>40. ASSUME NEW q \in 1 .. e5 PROVE k9[q] = k5[q]
    <2>1. q \in 1 .. e6
      BY <1>13, <1>15
    <2>2. Glued(k6, k5, e5, r6, d6) /\ e5 \in Nat /\ d6 \in Nat
      BY <1>13, <1>32
    <2>3. k6[q] = k5[q]
      BY <2>2, GluedLeft
    <2> QED BY <1>39, <2>1, <2>3
  <1>41. ASSUME NEW q \in 1 .. e4 PROVE k9[q] = k4[q]
    <2>1. q \in 1 .. e5
      BY <1>13, <1>15
    <2>2. Glued(k5, k4, e4, r5, d5) /\ e4 \in Nat /\ d5 \in Nat
      BY <1>13, <1>31
    <2>3. k5[q] = k4[q]
      BY <2>2, GluedLeft
    <2> QED BY <1>40, <2>1, <2>3
  <1>42. ASSUME NEW q \in 1 .. e3 PROVE k9[q] = k3[q]
    <2>1. q \in 1 .. e4
      BY <1>13, <1>15
    <2>2. Glued(k4, k3, e3, r4, d4) /\ e3 \in Nat /\ d4 \in Nat
      BY <1>13, <1>30
    <2>3. k4[q] = k3[q]
      BY <2>2, GluedLeft
    <2> QED BY <1>41, <2>1, <2>3
  <1>43. ASSUME NEW q \in 1 .. e2 PROVE k9[q] = k2[q]
    <2>1. q \in 1 .. e3
      BY <1>13, <1>15
    <2>2. Glued(k3, k2, e2, r3, d3) /\ e2 \in Nat /\ d3 \in Nat
      BY <1>13, <1>29
    <2>3. k3[q] = k2[q]
      BY <2>2, GluedLeft
    <2> QED BY <1>42, <2>1, <2>3
  <1>44. ASSUME NEW q \in 1 .. e1 PROVE k9[q] = k1[q]
    <2>1. q \in 1 .. e2
      BY <1>13, <1>15
    <2>2. Glued(k2, k1, e1, r2, d2) /\ e1 \in Nat /\ d2 \in Nat
      BY <1>13, <1>28
    <2>3. k2[q] = k1[q]
      BY <2>2, GluedLeft
    <2> QED BY <1>43, <2>1, <2>3
  <1>45. ASSUME NEW q \in 1 .. e0 PROVE k9[q] = digits[q]
    <2>1. q \in 1 .. e1
      BY <1>13, <1>15
    <2>2. Glued(k1, digits, e0, r1, d1) /\ e0 \in Nat /\ d1 \in Nat
      BY <1>13, <1>27
    <2>3. q \in 1 .. e0 + d1 /\ q <= e0
      BY <2>2
    <2>4. k1[q] = digits[q]
      BY <2>2, <2>3 DEF Glued
    <2> QED BY <1>44, <2>1, <2>4
  <1>46. ASSUME NEW q \in 1 .. 13 PROVE t[q] = digits[q]
    <2>1. q \in 1 .. 67 /\ q \in 1 .. e0
      BY <1>25
    <2> QED BY <1>26, <1>45, <2>1
  <1>47. ASSUME NEW q \in 14 .. 23 PROVE t[q] = r1[q - 13]
    <2>1. Glued(k1, digits, e0, r1, d1) /\ q \in 1 .. 67 /\ q \in 1 .. e1
      BY <1>27, <1>25
    <2>2. q \in 1 .. e0 + d1 /\ ~(q <= e0) /\ e0 = 13
      BY <1>25
    <2>3. k1[q] = r1[q - 13]
      BY <2>1, <2>2 DEF Glued
    <2>4. t[q] = k9[q] /\ k9[q] = k1[q]
      BY <1>26, <1>44, <2>1
    <2> QED BY <2>3, <2>4
  <1>48. ASSUME NEW q \in 24 .. 26 PROVE t[q] = r2[q - 23]
    <2>1. Glued(k2, k1, e1, r2, d2) /\ q \in 1 .. 67 /\ q \in 1 .. e2
      BY <1>28, <1>25
    <2>2. q \in 1 .. e1 + d2 /\ ~(q <= e1) /\ e1 = 23
      BY <1>25
    <2>3. k2[q] = r2[q - 23]
      BY <2>1, <2>2 DEF Glued
    <2>4. t[q] = k9[q] /\ k9[q] = k2[q]
      BY <1>26, <1>43, <2>1
    <2> QED BY <2>3, <2>4
  <1>49. ASSUME NEW q \in 27 .. 35 PROVE t[q] = r3[q - 26]
    <2>1. Glued(k3, k2, e2, r3, d3) /\ q \in 1 .. 67 /\ q \in 1 .. e3
      BY <1>29, <1>25
    <2>2. q \in 1 .. e2 + d3 /\ ~(q <= e2) /\ e2 = 26
      BY <1>25
    <2>3. k3[q] = r3[q - 26]
      BY <2>1, <2>2 DEF Glued
    <2>4. t[q] = k9[q] /\ k9[q] = k3[q]
      BY <1>26, <1>42, <2>1
    <2> QED BY <2>3, <2>4
  <1>50. ASSUME NEW q \in 36 .. 37 PROVE t[q] = r4[q - 35]
    <2>1. Glued(k4, k3, e3, r4, d4) /\ q \in 1 .. 67 /\ q \in 1 .. e4
      BY <1>30, <1>25
    <2>2. q \in 1 .. e3 + d4 /\ ~(q <= e3) /\ e3 = 35
      BY <1>25
    <2>3. k4[q] = r4[q - 35]
      BY <2>1, <2>2 DEF Glued
    <2>4. t[q] = k9[q] /\ k9[q] = k4[q]
      BY <1>26, <1>41, <2>1
    <2> QED BY <2>3, <2>4
  <1>51. ASSUME NEW q \in 38 .. 44 PROVE t[q] = r5[q - 37]
    <2>1. Glued(k5, k4, e4, r5, d5) /\ q \in 1 .. 67 /\ q \in 1 .. e5
      BY <1>31, <1>25
    <2>2. q \in 1 .. e4 + d5 /\ ~(q <= e4) /\ e4 = 37
      BY <1>25
    <2>3. k5[q] = r5[q - 37]
      BY <2>1, <2>2 DEF Glued
    <2>4. t[q] = k9[q] /\ k9[q] = k5[q]
      BY <1>26, <1>40, <2>1
    <2> QED BY <2>3, <2>4
  <1>52. ASSUME NEW q \in 45 .. 47 PROVE t[q] = r6[q - 44]
    <2>1. Glued(k6, k5, e5, r6, d6) /\ q \in 1 .. 67 /\ q \in 1 .. e6
      BY <1>32, <1>25
    <2>2. q \in 1 .. e5 + d6 /\ ~(q <= e5) /\ e5 = 44
      BY <1>25
    <2>3. k6[q] = r6[q - 44]
      BY <2>1, <2>2 DEF Glued
    <2>4. t[q] = k9[q] /\ k9[q] = k6[q]
      BY <1>26, <1>39, <2>1
    <2> QED BY <2>3, <2>4
  <1>53. ASSUME NEW q \in 48 .. 48 PROVE t[q] = r7[q - 47]
    <2>1. Glued(k7, k6, e6, r7, d7) /\ q \in 1 .. 67 /\ q \in 1 .. e7
      BY <1>33, <1>25
    <2>2. q \in 1 .. e6 + d7 /\ ~(q <= e6) /\ e6 = 47
      BY <1>25
    <2>3. k7[q] = r7[q - 47]
      BY <2>1, <2>2 DEF Glued
    <2>4. t[q] = k9[q] /\ k9[q] = k7[q]
      BY <1>26, <1>38, <2>1
    <2> QED BY <2>3, <2>4
  <1>54. ASSUME NEW q \in 49 .. 64 PROVE t[q] = r8[q - 48]
    <2>1. Glued(k8, k7, e7, r8, d8) /\ q \in 1 .. 67 /\ q \in 1 .. e8
      BY <1>34, <1>25
    <2>2. q \in 1 .. e7 + d8 /\ ~(q <= e7) /\ e7 = 48
      BY <1>25
    <2>3. k8[q] = r8[q - 48]
      BY <2>1, <2>2 DEF Glued
    <2>4. t[q] = k9[q] /\ k9[q] = k8[q]
      BY <1>26, <1>37, <2>1
    <2> QED BY <2>3, <2>4
  <1>55. ASSUME NEW q \in 65 .. 67 PROVE t[q] = r9[q - 64]
    <2>1. Glued(k9, k8, e8, r9, d9) /\ q \in 1 .. 67 /\ q \in 1 .. e9
      BY <1>35, <1>25
    <2>2. q \in 1 .. e8 + d9 /\ ~(q <= e8) /\ e8 = 64
      BY <1>25
    <2>3. k9[q] = r9[q - 64]
      BY <2>1, <2>2 DEF Glued
    <2>4. t[q] = k9[q] /\ k9[q] = k9[q]
      BY <1>26, <1>36, <2>1
    <2> QED BY <2>3, <2>4
  <1>56. t[48] = "space" /\ t[65] = "newline" /\ t[66] = "tab"
    <2>1. t[48] = r7[48 - 47] /\ t[65] = r9[65 - 64] /\ t[66] = r9[66 - 64]
      BY <1>53, <1>55
    <2> QED BY <1>11, <2>1
  <1> QED BY <1>46, <1>47, <1>48, <1>49, <1>50, <1>51, <1>52, <1>53, <1>54, <1>56 DEF Laid, r1, r2, r3, r4, r5, r6, r8

(* The characters there are. *)
Glyphs ==
    {Digits[q] : q \in 1 .. 13} \cup {Symbols[q] : q \in 1 .. 13}
    \cup Characters(Lower) \cup Characters(Upper)
    \cup Characters(Marks) \cup Characters(TwoCommas) \cup Characters(Shifted)
    \cup {Pad[q] : q \in 1 .. 16}
    \cup {NoChar, "space", "newline", "tab", "backspace"}

LEMMA CharactersOf ==
    ASSUME NEW r, NEW row \in 1 .. 3, NEW q \in DOMAIN r[row]
    PROVE  r[row][q] \in Characters(r)
  <1>1. {r[row][k] : k \in DOMAIN r[row]} \in {{r[x][k] : k \in DOMAIN r[x]} : x \in 1 .. 3}
    OBVIOUS
  <1> QED BY <1>1 DEF Characters

(* The rows of digits and of the keypad have characters. *)
LEMMA PlainRows ==
    /\ Digits \in Seq(Glyphs) /\ Len(Digits) = 13
    /\ Symbols \in Seq(Glyphs) /\ Len(Symbols) = 13
    /\ Pad \in Seq(Glyphs) /\ Len(Pad) = 16
    /\ NoPad \in Seq(Glyphs) /\ Len(NoPad) = 16
  <1> DEFINE C == Glyphs
  <1>1. /\ {Digits[q] : q \in 1 .. 13} \subseteq C /\ {Symbols[q] : q \in 1 .. 13} \subseteq C
        /\ {Pad[q] : q \in 1 .. 16} \subseteq C /\ NoChar \in C
    BY DEF Glyphs
  <1> HIDE DEF C
  <1>2. Digits \in Seq(C) /\ Len(Digits) = 13
    BY <1>1 DEF Digits
  <1>3. Symbols \in Seq(C) /\ Len(Symbols) = 13
    BY <1>1 DEF Symbols
  <1>4. Pad \in Seq(C) /\ Len(Pad) = 16
    BY <1>1 DEF Pad
  <1>5. NoPad \in Seq(C) /\ Len(NoPad) = 16
    BY <1>1 DEF NoPad
  <1> QED BY <1>2, <1>3, <1>4, <1>5 DEF C

(* Three rows of characters of their own. *)
LEMMA OwnRows ==
    ASSUME NEW r, NEW C, Characters(r) \subseteq C,
           NEW n1 \in Nat, NEW n2 \in Nat, NEW n3 \in Nat,
           r[1] = [q \in 1 .. n1 |-> r[1][q]],
           r[2] = [q \in 1 .. n2 |-> r[2][q]],
           r[3] = [q \in 1 .. n3 |-> r[3][q]]
    PROVE  Rows(C, r, n1, n2, n3)
  <1>1. DOMAIN r[1] = 1 .. n1 /\ DOMAIN r[2] = 1 .. n2 /\ DOMAIN r[3] = 1 .. n3
    OBVIOUS
  <1>2. ASSUME NEW row \in 1 .. 3, NEW q \in DOMAIN r[row] PROVE r[row][q] \in C
    BY CharactersOf
  <1>3. \A q \in 1 .. n1 : r[1][q] \in C
    BY <1>1, <1>2
  <1>4. \A q \in 1 .. n2 : r[2][q] \in C
    BY <1>1, <1>2
  <1>5. \A q \in 1 .. n3 : r[3][q] \in C
    BY <1>1, <1>2
  <1>6. r[1] \in Seq(C) /\ Len(r[1]) = n1
    BY <1>3
  <1>7. r[2] \in Seq(C) /\ Len(r[2]) = n2
    BY <1>4
  <1>8. r[3] \in Seq(C) /\ Len(r[3]) = n3
    BY <1>5
  <1> QED BY <1>6, <1>7, <1>8 DEF Rows

LEMMA LetterRows == Rows(Glyphs, Lower, 10, 9, 7) /\ Rows(Glyphs, Upper, 10, 9, 7)
  <1>1. Characters(Lower) \subseteq Glyphs /\ Characters(Upper) \subseteq Glyphs
    BY DEF Glyphs
  <1>2. /\ Lower[1] = [q \in 1 .. 10 |-> Lower[1][q]]
        /\ Lower[2] = [q \in 1 .. 9 |-> Lower[2][q]]
        /\ Lower[3] = [q \in 1 .. 7 |-> Lower[3][q]]
    BY DEF Lower
  <1>3. /\ Upper[1] = [q \in 1 .. 10 |-> Upper[1][q]]
        /\ Upper[2] = [q \in 1 .. 9 |-> Upper[2][q]]
        /\ Upper[3] = [q \in 1 .. 7 |-> Upper[3][q]]
    BY DEF Upper
  <1>4. Rows(Glyphs, Lower, 10, 9, 7)
    BY <1>1, <1>2, OwnRows
  <1>5. Rows(Glyphs, Upper, 10, 9, 7)
    BY <1>1, <1>3, OwnRows
  <1> QED BY <1>4, <1>5

LEMMA MarkRows ==
    /\ Rows(Glyphs, Marks, 3, 2, 3) /\ Rows(Glyphs, TwoCommas, 3, 2, 3)
    /\ Rows(Glyphs, Shifted, 3, 2, 3)
  <1>1. /\ Characters(Marks) \subseteq Glyphs /\ Characters(TwoCommas) \subseteq Glyphs
        /\ Characters(Shifted) \subseteq Glyphs
    BY DEF Glyphs
  <1>2. /\ Marks[1] = [q \in 1 .. 3 |-> Marks[1][q]]
        /\ Marks[2] = [q \in 1 .. 2 |-> Marks[2][q]]
        /\ Marks[3] = [q \in 1 .. 3 |-> Marks[3][q]]
    BY DEF Marks
  <1>3. /\ Shifted[1] = [q \in 1 .. 3 |-> Shifted[1][q]]
        /\ Shifted[2] = [q \in 1 .. 2 |-> Shifted[2][q]]
        /\ Shifted[3] = [q \in 1 .. 3 |-> Shifted[3][q]]
    BY DEF Shifted
  <1>4. /\ TwoCommas[1] = [q \in 1 .. 3 |-> TwoCommas[1][q]]
        /\ TwoCommas[2] = [q \in 1 .. 2 |-> TwoCommas[2][q]]
        /\ TwoCommas[3] = [q \in 1 .. 3 |-> TwoCommas[3][q]]
    <2>1. /\ TwoCommas[1] = Marks[1] /\ TwoCommas[2] = Marks[2]
          /\ TwoCommas[3] = <<"comma", "comma", "/">>
      BY DEF TwoCommas, Marks
    <2> QED BY <1>2, <2>1
  <1>5. Rows(Glyphs, Marks, 3, 2, 3)
    BY <1>1, <1>2, OwnRows
  <1>6. Rows(Glyphs, Shifted, 3, 2, 3)
    BY <1>1, <1>3, OwnRows
  <1>7. Rows(Glyphs, TwoCommas, 3, 2, 3)
    BY <1>1, <1>4, OwnRows
  <1> QED BY <1>5, <1>6, <1>7

(* A table without the keypad and one with it, of the same rows. *)
Decent(quiet, numbers, letters) ==
    /\ \A k \in LetterKeys : quiet[k] \in Characters(letters) /\ numbers[k] \in Characters(letters)
    /\ \A k \in PadKeys : quiet[k] = NoChar /\ numbers[k] # NoChar
    /\ \A k \in (1 .. \h42) \ PadKeys : quiet[k] = numbers[k]

LEMMA TwoTables ==
    ASSUME NEW digits \in Seq(Glyphs), Len(digits) = 13,
           NEW letters, Rows(Glyphs, letters, 10, 9, 7),
           NEW marks, Rows(Glyphs, marks, 3, 2, 3),
           NEW quiet, quiet = Table(digits, letters, marks, NoPad),
           NEW numbers, numbers = Table(digits, letters, marks, Pad)
    PROVE  Decent(quiet, numbers, letters)
  <1>1. {"space", "newline", "tab", "backspace"} \subseteq Glyphs
    BY DEF Glyphs
  <1>2. Laid(quiet, digits, letters, marks, NoPad)
    BY <1>1, PlainRows, TableIs
  <1>3. Laid(numbers, digits, letters, marks, Pad)
    BY <1>1, PlainRows, TableIs
  <1>4. DOMAIN letters[1] = 1 .. 10 /\ DOMAIN letters[2] = 1 .. 9 /\ DOMAIN letters[3] = 1 .. 7
    BY DEF Rows
  <1>5. /\ \A q \in 1 .. 10 : letters[1][q] \in Characters(letters)
        /\ \A q \in 1 .. 9 : letters[2][q] \in Characters(letters)
        /\ \A q \in 1 .. 7 : letters[3][q] \in Characters(letters)
    BY <1>4, CharactersOf
  <1>6. ASSUME NEW t, NEW pad, Laid(t, digits, letters, marks, pad), NEW k \in LetterKeys
        PROVE  t[k] \in Characters(letters)
    <2>1. CASE k \in 14 .. 23
      <3>1. \A q \in 14 .. 23 : t[q] = letters[1][q - 13]
        BY <1>6 DEF Laid
      <3>2. k - 13 \in 1 .. 10
        BY <2>1
      <3> QED BY <1>5, <2>1, <3>1, <3>2
    <2>2. CASE k \in 27 .. 35
      <3>1. \A q \in 27 .. 35 : t[q] = letters[2][q - 26]
        BY <1>6 DEF Laid
      <3>2. k - 26 \in 1 .. 9
        BY <2>2
      <3> QED BY <1>5, <2>2, <3>1, <3>2
    <2>3. CASE k \in 38 .. 44
      <3>1. \A q \in 38 .. 44 : t[q] = letters[3][q - 37]
        BY <1>6 DEF Laid
      <3>2. k - 37 \in 1 .. 7
        BY <2>3
      <3> QED BY <1>5, <2>3, <3>1, <3>2
    <2>4. k \in 14 .. 23 \/ k \in 27 .. 35 \/ k \in 38 .. 44
      BY DEF LetterKeys
    <2> QED BY <2>1, <2>2, <2>3, <2>4
  <1>7. ASSUME NEW t, NEW pad, Laid(t, digits, letters, marks, pad), NEW k \in PadKeys
        PROVE  k - 48 \in 1 .. 16 /\ t[k] = pad[k - 48]
    <2>1. k - 48 \in 1 .. 16 /\ k \in 49 .. 64
      BY DEF PadKeys
    <2>2. \A q \in 49 .. 64 : t[q] = pad[q - 48]
      BY <1>7 DEF Laid
    <2> QED BY <2>1, <2>2
  <1>8. /\ \A q \in 1 .. 16 : NoPad[q] = NoChar
        /\ \A q \in 1 .. 16 : Pad[q] # NoChar
    BY DEF NoPad, Pad, NoChar
  <1>9. ASSUME NEW k \in (1 .. \h42) \ PadKeys PROVE quiet[k] = numbers[k]
    <2>1. k \in 1 .. 66 /\ ~(k \in 49 .. 64)
      BY <1>9 DEF PadKeys
    <2>2. \/ k \in 1 .. 13 \/ k \in 14 .. 23 \/ k \in 24 .. 26 \/ k \in 27 .. 35
          \/ k \in 36 .. 37 \/ k \in 38 .. 44 \/ k \in 45 .. 47 \/ k = 48 \/ k = 65 \/ k = 66
      BY <2>1
    <2>3. k \in 1 .. 13 => quiet[k] = numbers[k]
      <3>1. \A q \in 1 .. 13 : quiet[q] = digits[q]
        BY <1>2 DEF Laid
      <3>2. \A q \in 1 .. 13 : numbers[q] = digits[q]
        BY <1>3 DEF Laid
      <3> QED BY <3>1, <3>2
    <2>4. k \in 14 .. 23 => quiet[k] = numbers[k]
      <3>1. \A q \in 14 .. 23 : quiet[q] = letters[1][q - 13]
        BY <1>2 DEF Laid
      <3>2. \A q \in 14 .. 23 : numbers[q] = letters[1][q - 13]
        BY <1>3 DEF Laid
      <3> QED BY <3>1, <3>2
    <2>5. k \in 24 .. 26 => quiet[k] = numbers[k]
      <3>1. \A q \in 24 .. 26 : quiet[q] = marks[1][q - 23]
        BY <1>2 DEF Laid
      <3>2. \A q \in 24 .. 26 : numbers[q] = marks[1][q - 23]
        BY <1>3 DEF Laid
      <3> QED BY <3>1, <3>2
    <2>6. k \in 27 .. 35 => quiet[k] = numbers[k]
      <3>1. \A q \in 27 .. 35 : quiet[q] = letters[2][q - 26]
        BY <1>2 DEF Laid
      <3>2. \A q \in 27 .. 35 : numbers[q] = letters[2][q - 26]
        BY <1>3 DEF Laid
      <3> QED BY <3>1, <3>2
    <2>7. k \in 36 .. 37 => quiet[k] = numbers[k]
      <3>1. \A q \in 36 .. 37 : quiet[q] = marks[2][q - 35]
        BY <1>2 DEF Laid
      <3>2. \A q \in 36 .. 37 : numbers[q] = marks[2][q - 35]
        BY <1>3 DEF Laid
      <3> QED BY <3>1, <3>2
    <2>8. k \in 38 .. 44 => quiet[k] = numbers[k]
      <3>1. \A q \in 38 .. 44 : quiet[q] = letters[3][q - 37]
        BY <1>2 DEF Laid
      <3>2. \A q \in 38 .. 44 : numbers[q] = letters[3][q - 37]
        BY <1>3 DEF Laid
      <3> QED BY <3>1, <3>2
    <2>9. k \in 45 .. 47 => quiet[k] = numbers[k]
      <3>1. \A q \in 45 .. 47 : quiet[q] = marks[3][q - 44]
        BY <1>2 DEF Laid
      <3>2. \A q \in 45 .. 47 : numbers[q] = marks[3][q - 44]
        BY <1>3 DEF Laid
      <3> QED BY <3>1, <3>2
    <2>10. quiet[48] = numbers[48] /\ quiet[65] = numbers[65] /\ quiet[66] = numbers[66]
      BY <1>2, <1>3 DEF Laid
    <2> QED BY <2>2, <2>3, <2>4, <2>5, <2>6, <2>7, <2>8, <2>9, <2>10
  <1>10. ASSUME NEW k \in LetterKeys
         PROVE  quiet[k] \in Characters(letters) /\ numbers[k] \in Characters(letters)
    BY <1>2, <1>3, <1>6
  <1>11. ASSUME NEW k \in PadKeys PROVE quiet[k] = NoChar /\ numbers[k] # NoChar
    <2>1. k - 48 \in 1 .. 16 /\ quiet[k] = NoPad[k - 48]
      BY <1>2, <1>7
    <2>2. numbers[k] = Pad[k - 48]
      BY <1>3, <1>7
    <2> QED BY <1>8, <2>1, <2>2
  <1> QED BY <1>9, <1>10, <1>11 DEF Decent

(* Which tables kbd_char_decode chooses from. *)
LEMMA TablesOf ==
    ASSUME NEW sh \in BOOLEAN, NEW ca \in BOOLEAN
    PROVE  Decent(TableOf(sh, ca, FALSE), TableOf(sh, ca, TRUE), IF sh # ca THEN Upper ELSE Lower)
  <1>1. CASE sh /\ ca
    <2>1. /\ TableOf(sh, ca, FALSE) = Table(Symbols, Lower, Shifted, NoPad)
          /\ TableOf(sh, ca, TRUE) = Table(Symbols, Lower, Shifted, Pad)
          /\ (IF sh # ca THEN Upper ELSE Lower) = Lower
      BY <1>1 DEF TableOf, kbd_key_ascii_shift_capslock, kbd_key_ascii_shift_numlock_capslock
    <2> QED BY <2>1, PlainRows, LetterRows, MarkRows, TwoTables
  <1>2. CASE sh /\ ~ca
    <2>1. /\ TableOf(sh, ca, FALSE) = Table(Symbols, Upper, Shifted, NoPad)
          /\ TableOf(sh, ca, TRUE) = Table(Symbols, Upper, Shifted, Pad)
          /\ (IF sh # ca THEN Upper ELSE Lower) = Upper
      BY <1>2 DEF TableOf, kbd_key_ascii_shift, kbd_key_ascii_shift_numlock
    <2> QED BY <2>1, PlainRows, LetterRows, MarkRows, TwoTables
  <1>3. CASE ~sh /\ ca
    <2>1. /\ TableOf(sh, ca, FALSE) = Table(Digits, Upper, TwoCommas, NoPad)
          /\ TableOf(sh, ca, TRUE) = Table(Digits, Upper, TwoCommas, Pad)
          /\ (IF sh # ca THEN Upper ELSE Lower) = Upper
      BY <1>3 DEF TableOf, kbd_key_ascii_capslock, kbd_key_ascii_numlock_capslock
    <2> QED BY <2>1, PlainRows, LetterRows, MarkRows, TwoTables
  <1>4. CASE ~sh /\ ~ca
    <2>1. /\ TableOf(sh, ca, FALSE) = Table(Digits, Lower, Marks, NoPad)
          /\ TableOf(sh, ca, TRUE) = Table(Digits, Lower, Marks, Pad)
          /\ (IF sh # ca THEN Upper ELSE Lower) = Lower
      BY <1>4 DEF TableOf, kbd_key_ascii_default, kbd_key_ascii_numlock
    <2> QED BY <2>1, PlainRows, LetterRows, MarkRows, TwoTables
  <1> QED BY <1>1, <1>2, <1>3, <1>4

(* What a key and its release decode to. *)
LEMMA Decoded ==
    ASSUME NEW sh, NEW ca, NEW nu, NEW k \in 1 .. \h42
    PROVE  /\ kbd_char_decode(sh, ca, nu, k) = TableOf(sh, ca, nu)[k]
           /\ kbd_char_decode(sh, ca, nu, Released(k)) = TableOf(sh, ca, nu)[k]
  <1>1. k % \h80 = k /\ (k + \h80) % \h80 = k /\ ~(k > \h42)
    OBVIOUS
  <1> QED BY <1>1 DEF kbd_char_decode, Released

(* The tables and the flag together. *)
LEMMA FingersDecode == ASSUME ShellTypeOK, Fingers PROVE DecodesAsTyped
  <1> DEFINE letters == IF (down # {}) # caps THEN Upper ELSE Lower
  <1>1. shift \in BOOLEAN /\ caps \in BOOLEAN /\ nums \in BOOLEAN
    BY DEF ShellTypeOK
  <1> SUFFICES ASSUME ~both
               PROVE  /\ \A k \in LetterKeys : kbd_char_decode(shift, caps, nums, k) \in Characters(letters)
                      /\ \A k \in PadKeys : (kbd_char_decode(shift, caps, nums, k) # NoChar) = nums
                      /\ \A k \in (1 .. \h42) \ PadKeys :
                           kbd_char_decode(shift, caps, nums, k)
                             = kbd_char_decode(down # {}, caps, FALSE, Released(k))
    BY DEF DecodesAsTyped
  <1>2. shift = (down # {})
    BY DEF Fingers
  <1>3. Decent(TableOf(shift, caps, FALSE), TableOf(shift, caps, TRUE), letters)
    BY <1>1, <1>2, TablesOf
  <1> HIDE DEF letters
  <1>4. LetterKeys \subseteq 1 .. \h42 /\ PadKeys \subseteq 1 .. \h42
    BY DEF LetterKeys, PadKeys
  <1>5. nums = TRUE \/ nums = FALSE
    BY <1>1
  <1>6. ASSUME NEW k \in LetterKeys
        PROVE  kbd_char_decode(shift, caps, nums, k) \in Characters(letters)
    <2>1. kbd_char_decode(shift, caps, nums, k) = TableOf(shift, caps, nums)[k]
      BY <1>4, Decoded
    <2>2. /\ TableOf(shift, caps, FALSE)[k] \in Characters(letters)
          /\ TableOf(shift, caps, TRUE)[k] \in Characters(letters)
      BY <1>3 DEF Decent
    <2> QED BY <1>5, <2>1, <2>2, Zenon
  <1>7. ASSUME NEW k \in PadKeys PROVE (kbd_char_decode(shift, caps, nums, k) # NoChar) = nums
    <2>1. kbd_char_decode(shift, caps, nums, k) = TableOf(shift, caps, nums)[k]
      BY <1>4, Decoded
    <2>2. TableOf(shift, caps, FALSE)[k] = NoChar /\ TableOf(shift, caps, TRUE)[k] # NoChar
      BY <1>3 DEF Decent
    <2> QED BY <1>5, <2>1, <2>2, Zenon
  <1>8. ASSUME NEW k \in (1 .. \h42) \ PadKeys
        PROVE  kbd_char_decode(shift, caps, nums, k)
                 = kbd_char_decode(down # {}, caps, FALSE, Released(k))
    <2>1. kbd_char_decode(shift, caps, nums, k) = TableOf(shift, caps, nums)[k]
      BY <1>8, Decoded
    <2>2. kbd_char_decode(shift, caps, FALSE, Released(k)) = TableOf(shift, caps, FALSE)[k]
      BY <1>8, Decoded
    <2>3. TableOf(shift, caps, FALSE)[k] = TableOf(shift, caps, TRUE)[k]
      BY <1>3, <1>8 DEF Decent
    <2>4. TableOf(shift, caps, nums)[k] = TableOf(shift, caps, FALSE)[k]
      BY <1>5, <2>3, Zenon
    <2> QED BY <1>2, <2>1, <2>2, <2>4, Zenon
  <1> QED BY <1>6, <1>7, <1>8

(* As long as no one held both shift keys, a key decodes to what it says: its *)
(* case to shift and caps lock, the keypad to num lock, and no other key to   *)
(* num lock at all.                                                         *)
THEOREM TypedIsDecoded == ShellSpec => []DecodesAsTyped
  <1>1. ShellInv => DecodesAsTyped
    BY FingersDecode DEF ShellInv
  <1> QED BY <1>1, ShellInvariant, PTL
=============================================================================
