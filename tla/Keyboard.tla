------------------------------ MODULE Keyboard ------------------------------
(***************************************************************************)
(* The way of a keystroke from the interrupt handler to the shell: kb_man    *)
(* hands a program one page, __kb_man_save_key appends to it in the         *)
(* interrupt handler, and the shell's kbd.c empties it in its main loop.    *)
(* Nothing locks the page, so what holds rests on the order of the steps:   *)
(* an interrupt may fall between any two of them.                          *)
(*                                                                         *)
(* The kernel runs one program.  The page allocator is a set of free pages, *)
(* with pmm_free_page free to forget the page (see Pmm), and does not run   *)
(* out: kb_man does not look at what pmm_alloc_page returns.               *)
(***************************************************************************)
EXTENDS Naturals, Sequences

CONSTANTS
    Pages,    \* the pages pmm_alloc_page may hand out
    None,     \* NULL, and the pid -1
    Program,  \* the pid of the program
    Cap,      \* bytes in front of the size field, 4094
    Byte,     \* 2^8, for the width of the size field
    MaxKeys   \* bound on the keystrokes

KeyboardAssumption ==
    /\ None \notin Pages \cup {Program}
    /\ Cap \in Nat \ {0} /\ Byte \in Nat \ {0, 1} /\ MaxKeys \in Nat
ASSUME KeyboardAssumption

VARIABLES
    \* memory
    free,            \* pages pmm_alloc_page may hand out
    size,            \* the size field at the end of every page
    data,            \* the bytes in front of it, 0 for one that is no keystroke
    \* kb_man.c
    current_pid, current_buffer, current_size,
    \* kbd.c
    internal_buffer, started, listeners,
    buffered_keys, i, \* of kbd_update
    \* the rest
    pc,              \* where the program is
    pressed,         \* keystrokes so far: each is known by its number
    delivered        \* ghost: those the listener was called with

memory == <<free, size, data>>
kb_man_vars == <<current_pid, current_buffer, current_size>>
loop == <<buffered_keys, i>>
vars == <<memory, kb_man_vars, internal_buffer, started, listeners, loop, pc, pressed, delivered>>

Goto(a, b) == pc = a /\ pc' = b

-----------------------------------------------------------------------------
(* __kb_man_save_key: the interrupt handler runs to its end.                 *)
SavesKey ==
    /\ None \notin {current_pid, current_buffer, current_size}
    /\ size[current_size] < Cap

save_key ==
    /\ pressed < MaxKeys
    /\ pressed' = pressed + 1
    /\ IF SavesKey
       THEN /\ data' = [data EXCEPT ![current_buffer][size[current_size]] = pressed + 1]
            /\ size' = [size EXCEPT ![current_size] = @ + 1]
       ELSE UNCHANGED <<data, size>>
    /\ UNCHANGED <<free, kb_man_vars, internal_buffer, started, listeners, loop, pc, delivered>>

-----------------------------------------------------------------------------
(* kb_man(true), step by step.                                             *)

(* What is left where an allocated page carries the size field is garbage. *)
Garbage == {0, Cap - 1, Cap}

take_pid ==
    /\ IF current_pid # None
       THEN Goto("take", "taken") /\ internal_buffer' = None /\ UNCHANGED current_pid
       ELSE Goto("take", "alloc") /\ current_pid' = Program /\ UNCHANGED internal_buffer
    /\ UNCHANGED <<memory, current_buffer, current_size, started, listeners, loop, pressed, delivered>>

take_alloc ==
    /\ Goto("alloc", "point")
    /\ \E p \in free, g \in Garbage :
         /\ current_buffer' = p /\ free' = free \ {p}
         /\ size' = [size EXCEPT ![p] = g]
         /\ data' = [data EXCEPT ![p] = [n \in DOMAIN @ |-> 0]]
    /\ UNCHANGED <<current_pid, current_size, internal_buffer, started, listeners, loop, pressed, delivered>>

take_point ==
    /\ Goto("point", "zero_size") /\ current_size' = current_buffer
    /\ UNCHANGED <<memory, current_pid, current_buffer, internal_buffer, started, listeners, loop,
                   pressed, delivered>>

take_zero ==
    /\ Goto("zero_size", "map") /\ size' = [size EXCEPT ![current_size] = 0]
    /\ UNCHANGED <<free, data, kb_man_vars, internal_buffer, started, listeners, loop, pressed, delivered>>

take_returns ==
    /\ Goto("map", "taken") /\ internal_buffer' = current_buffer
    /\ UNCHANGED <<memory, kb_man_vars, started, listeners, loop, pressed, delivered>>

kb_man_takes == take_pid \/ take_alloc \/ take_point \/ take_zero \/ take_returns

-----------------------------------------------------------------------------
(* kb_man(false), step by step.                                            *)

release_pid ==
    /\ IF current_pid # Program
       THEN Goto("release", "released") /\ UNCHANGED current_pid
       ELSE Goto("release", "free") /\ current_pid' = None
    /\ UNCHANGED <<memory, current_buffer, current_size, internal_buffer, started, listeners, loop,
                   pressed, delivered>>

release_page ==
    /\ Goto("free", "forget_buffer")
    /\ free' \in {free, free \cup {current_buffer}}
    /\ UNCHANGED <<size, data, kb_man_vars, internal_buffer, started, listeners, loop, pressed, delivered>>

forget_buffer ==
    /\ Goto("forget_buffer", "forget_size") /\ current_buffer' = None
    /\ UNCHANGED <<memory, current_pid, current_size, internal_buffer, started, listeners, loop,
                   pressed, delivered>>

(* Mutant: the pointer to the size field survives the release. *)
forget_size_never ==
    /\ Goto("forget_size", "released")
    /\ UNCHANGED <<memory, kb_man_vars, internal_buffer, started, listeners, loop, pressed, delivered>>

forget_size ==
    /\ Goto("forget_size", "released") /\ current_size' = None
    /\ UNCHANGED <<memory, current_pid, current_buffer, internal_buffer, started, listeners, loop,
                   pressed, delivered>>

kb_man_releases == release_pid \/ release_page \/ forget_buffer \/ forget_size

-----------------------------------------------------------------------------
(* kbd.c of the shell, as tui_start and tui_update call it.                *)

(* The shell ends when its keyboard does not start: nothing takes back what *)
(* kb_man gave.                                                            *)
kbd_init_call ==
    /\ Goto("start", "take")
    /\ UNCHANGED <<memory, kb_man_vars, internal_buffer, started, listeners, loop, pressed, delivered>>

CanStart ==
    /\ internal_buffer # None
    /\ size[internal_buffer] = 0
    /\ listeners = None

kbd_init_checks ==
    /\ IF CanStart THEN Goto("taken", "pmap") ELSE Goto("taken", "stopped")
    /\ UNCHANGED <<memory, kb_man_vars, internal_buffer, started, listeners, loop, pressed, delivered>>

(* pmap of the page for the listeners, one of which tui_start adds.         *)
kbd_init_listens ==
    /\ Goto("pmap", "idle")
    /\ \E p \in free : listeners' = p /\ free' = free \ {p}
    /\ started' = TRUE
    /\ UNCHANGED <<size, data, kb_man_vars, internal_buffer, loop, pressed, delivered>>

kbd_init == kbd_init_call \/ kbd_init_checks \/ kbd_init_listens

kbd_update_reads ==
    /\ started /\ size[internal_buffer] # 0
    /\ Goto("idle", "deliver")
    /\ buffered_keys' = size[internal_buffer] /\ i' = 0
    /\ UNCHANGED <<memory, kb_man_vars, internal_buffer, started, listeners, pressed, delivered>>

(* Not started, or nothing to read: the main loop goes on. *)
kbd_update_idles ==
    /\ pc = "idle"
    /\ started => size[internal_buffer] = 0
    /\ UNCHANGED vars

(* Mutant: the last keystroke is left out. *)
kbd_update_stops_short ==
    /\ IF i + 1 < buffered_keys
       THEN /\ pc = "deliver" /\ i' = i + 1 /\ UNCHANGED pc
            /\ delivered' = Append(delivered, data[internal_buffer][i])
       ELSE Goto("deliver", "clear") /\ UNCHANGED <<i, delivered>>
    /\ UNCHANGED <<memory, kb_man_vars, internal_buffer, started, listeners, buffered_keys, pressed>>

kbd_update_delivers ==
    /\ IF i < buffered_keys
       THEN /\ pc = "deliver" /\ i' = i + 1 /\ UNCHANGED pc
            /\ delivered' = Append(delivered, data[internal_buffer][i])
       ELSE Goto("deliver", "clear") /\ UNCHANGED <<i, delivered>>
    /\ UNCHANGED <<memory, kb_man_vars, internal_buffer, started, listeners, buffered_keys, pressed>>

(* memset over one byte more than was read: if the page was full, the last   *)
(* one is the low byte of the size field.                                  *)
Cleared(n) == [j \in 0 .. Cap - 1 |-> IF j < n + 1 THEN 0 ELSE data[internal_buffer][j]]
ClearBuffer(n) ==
    /\ data' = [data EXCEPT ![internal_buffer] = Cleared(n)]
    /\ size' = IF n = Cap THEN [size EXCEPT ![internal_buffer] = (@ \div Byte) * Byte] ELSE size
ZeroSize == size' = [size EXCEPT ![internal_buffer] = 0] /\ UNCHANGED data

(* Mutant: the size is reset before the buffer is cleared. *)
kbd_update_resets_first ==
    /\ \/ Goto("clear", "zero") /\ ZeroSize
       \/ Goto("zero", "idle") /\ ClearBuffer(buffered_keys)
    /\ UNCHANGED <<free, kb_man_vars, internal_buffer, started, listeners, loop, pressed, delivered>>

kbd_update_ends ==
    /\ \/ Goto("clear", "zero") /\ ClearBuffer(buffered_keys)
       \/ Goto("zero", "idle") /\ ZeroSize
    /\ UNCHANGED <<free, kb_man_vars, internal_buffer, started, listeners, loop, pressed, delivered>>

kbd_update == kbd_update_reads \/ kbd_update_idles \/ kbd_update_delivers \/ kbd_update_ends

(* Mutant: the keyboard is released and kbd.c still counts as started. *)
kbd_kill_keeps_started ==
    /\ Goto("idle", "release")
    /\ UNCHANGED <<memory, kb_man_vars, internal_buffer, started, listeners, loop, pressed, delivered>>

(* kbd_kill, which nothing in the shell calls.                             *)
kbd_kill_call ==
    /\ Goto("idle", "release") /\ started' = FALSE
    /\ UNCHANGED <<memory, kb_man_vars, internal_buffer, listeners, loop, pressed, delivered>>

kbd_kill_returns ==
    /\ Goto("released", "idle") /\ internal_buffer' = None
    /\ UNCHANGED <<memory, kb_man_vars, started, listeners, loop, pressed, delivered>>

(* kbd_init once more, after a kbd_kill or after it failed.                *)
kbd_init_again ==
    /\ ~started
    /\ Goto("idle", "take") \/ Goto("stopped", "take")
    /\ UNCHANGED <<memory, kb_man_vars, internal_buffer, started, listeners, loop, pressed, delivered>>

kbd_kill == kbd_kill_call \/ kbd_kill_returns

-----------------------------------------------------------------------------
Init ==
    /\ free = Pages
    /\ size = [p \in Pages |-> 0] /\ data = [p \in Pages |-> [j \in 0 .. Cap - 1 |-> 0]]
    /\ current_pid = None /\ current_buffer = None /\ current_size = None
    /\ internal_buffer = None /\ started = FALSE /\ listeners = None
    /\ buffered_keys = 0 /\ i = 0
    /\ pc = "start" /\ pressed = 0 /\ delivered = <<>>

Shell == kbd_init \/ kb_man_takes \/ kbd_update

(* The shell calls neither kbd_kill nor kbd_init once more; a program may.  The *)
(* processor is its own but for the interrupts.                              *)
Next == save_key \/ Shell \/ kbd_kill \/ kb_man_releases \/ kbd_init_again
Spec == Init /\ [][Next]_vars /\ WF_vars(Shell)

-----------------------------------------------------------------------------
PcType == {"start", "take", "alloc", "point", "zero_size", "map", "taken", "pmap", "idle", "deliver",
           "clear", "zero", "release", "free", "forget_buffer", "forget_size", "released", "stopped"}

(* Every variable has its type: no size field ever counts more keystrokes    *)
(* than its page holds.                                                    *)
TypeOK ==
    /\ free \subseteq Pages
    /\ size \in [Pages -> 0 .. Cap]
    /\ data \in [Pages -> [0 .. Cap - 1 -> 0 .. pressed]]
    /\ current_pid \in {None, Program}
    /\ {current_buffer, current_size, internal_buffer, listeners} \subseteq Pages \cup {None}
    /\ started \in BOOLEAN
    /\ buffered_keys \in 0 .. Cap /\ i \in 0 .. buffered_keys
    /\ pc \in PcType
    /\ pressed \in Nat
    /\ delivered \in Seq(0 .. pressed)

(* kb_man.c writes pid, buffer and size one after the other while keyboard    *)
(* interrupts read them: whenever __kb_man_save_key would write, it has one   *)
(* page, which the allocator has not taken back and the program uses for      *)
(* nothing else.                                                           *)
WriterOwnsPage ==
    None \notin {current_pid, current_buffer, current_size} =>
        /\ current_size = current_buffer
        /\ current_buffer \notin free
        /\ current_buffer # listeners

(* Once kbd_init succeeded, the page the program reads is the page the       *)
(* interrupt handler fills, and still the program's own.                   *)
StartedOwnsBuffer ==
    started => /\ current_pid = Program
               /\ internal_buffer = current_buffer /\ current_size = current_buffer

(* kbd_update reads the page while interrupts fill it: the listener is      *)
(* called with keystrokes only, in the order they were made, none twice.    *)
DeliveredInOrder ==
    /\ \A n \in DOMAIN delivered : delivered[n] # 0
    /\ \A m, n \in DOMAIN delivered : m < n => delivered[m] < delivered[n]

(* What is lost is lost while kbd_update runs: a keystroke that is in the    *)
(* page when the program is outside of it reaches the listener, unless the   *)
(* program calls kbd_kill.                                                 *)
Waiting(k) ==
    /\ started /\ pc = "idle"
    /\ \E j \in 0 .. size[internal_buffer] - 1 : data[internal_buffer][j] = k

KeyInBufferIsDelivered ==
    \A k \in 1 .. MaxKeys :
        Waiting(k) ~> (~started \/ \E n \in DOMAIN delivered : delivered[n] = k)
=============================================================================
