------------------------------- MODULE Ps2Kbd -------------------------------
(***************************************************************************)
(* The PS/2 keyboard's interrupt handler and its translation of scan code  *)
(* set 2, src/kernel/src/iodev/hid/ps2/ps2_kbd.c, once ps2_kbd_init has     *)
(* unmasked its line (module Boot): every interrupt brings one byte, the      *)
(* handler decides from the bytes it holds whether the code is complete, and *)
(* registers the key.                                                      *)
(*                                                                         *)
(* The keyboard itself is external.  It sends the codes the translation     *)
(* knows, and around a navigation key it sends the fake shifts of real      *)
(* keyboards, which are no keys.                                           *)
(***************************************************************************)
EXTENDS Naturals, Sequences

CONSTANTS
    Plain,    \* codes of one byte the translation knows
    Extended  \* second bytes of the codes behind \hE0 it knows

(* No key is the byte a prefix is, and none behind \hE0 is one that goes on    *)
(* as a print screen or a pause does.                                      *)
KbdAssumption ==
    /\ Plain \subseteq 1 .. 255 \ {\hE0, \hE1, \hF0}
    /\ Extended \subseteq 1 .. 255 \ {\hE0, \hE1, \hF0, \h12, \h77, \h7C}
ASSUME KbdAssumption

PrintScreen   == <<\hE0, \h12, \hE0, \h7C>>
PrintReleased == <<\hE0, \hF0, \h7C, \hE0, \hF0, \h12>>
Pause         == <<\hE1, \h14, \h77, \hE1, \hF0, \h14, \hF0, \h77>>

Presses  == {<<b>> : b \in Plain} \cup {<<\hE0, b>> : b \in Extended}
            \cup {PrintScreen, Pause}
Releases == {<<\hF0, b>> : b \in Plain} \cup {<<\hE0, \hF0, b>> : b \in Extended}
            \cup {PrintReleased}

FakeShift    == <<\hE0, \h12>>
FakeShiftOff == <<\hE0, \hF0, \h12>>
Codes        == Presses \cup Releases \cup {FakeShift, FakeShiftOff}

VARIABLES
    scancode_buffer, \* the bytes held, __kbd_scancode_buffer_pos of them
    wire,            \* bytes of the code in flight that are still to come
    sent,            \* ghost: the code in flight, or the last one
    clean,           \* ghost: the handler held nothing when it began
    keys             \* ghost: the keystrokes registered since it was begun

kbd_vars == <<scancode_buffer, wire, sent, clean, keys>>

-----------------------------------------------------------------------------
(* Behind three bytes or more: only print screen and pause are as long. *)
needs_byte_of_long_code(b) ==
    \/ Len(b) = 3 /\ b[3] \in {\h77, \h7C, \hE0}
    \/ Len(b) = 4 /\ b[4] \in {\hE0, \hE1}
    \/ Len(b) = 5 /\ b[5] = \hF0
    \/ Len(b) = 6 /\ b[6] = \h14
    \/ Len(b) = 7 /\ b[7] = \hF0

\* Mutant: the second byte of the pause key counts behind every prefix.
needs_next_byte_any_14(b) ==
    \/ Len(b) = 1 /\ b[1] \in {\hE0, \hF0, \hE1}
    \/ Len(b) = 2 /\ b[2] \in {\hF0, \h14}
    \/ Len(b) = 2 /\ b[1] = \hE0 /\ b[2] = \h12
    \/ needs_byte_of_long_code(b)

(* What the bytes held say of the code: there is more to come. *)
ps2_kbd_needs_next_byte(b) ==
    \/ Len(b) = 1 /\ b[1] \in {\hE0, \hF0, \hE1}
    \/ Len(b) = 2 /\ \/ b[2] = \hF0
                     \/ b[1] = \hE0 /\ b[2] = \h12
                     \/ b[1] = \hE1 /\ b[2] = \h14
    \/ needs_byte_of_long_code(b)

(* A keystroke is the code of the key's press, with the high bit if it is     *)
(* released.  What the translation does not know is HID_KEYCODE_NULL.       *)
PressOf(code) ==
    IF code = PrintReleased THEN PrintScreen
    ELSE IF Len(code) = 2 THEN <<code[2]>> ELSE <<code[1], code[3]>>

ps2_translate_keycode(code) ==
    IF code \in Presses THEN {[key |-> code, released |-> FALSE]}
    ELSE IF code \in Releases THEN {[key |-> PressOf(code), released |-> TRUE]}
    ELSE {}

(* hid_register_keystroke drops the null keycode. *)
hid_register_keystroke(found) ==
    IF found = {} THEN keys' = keys
    ELSE \E k \in found : keys' = Append(keys, k)

(* The keyboard begins another code. *)
Key ==
    /\ wire = <<>>
    /\ \E code \in Codes : wire' = code /\ sent' = code
    /\ clean' = (scancode_buffer = <<>>)
    /\ keys' = <<>>
    /\ UNCHANGED scancode_buffer

kbd_ps2_irq_handler ==
    /\ wire # <<>>
    /\ LET held == Append(scancode_buffer, Head(wire))
       IN  IF ps2_kbd_needs_next_byte(held)
           THEN scancode_buffer' = held /\ UNCHANGED keys
           ELSE /\ hid_register_keystroke(ps2_translate_keycode(held))
                /\ scancode_buffer' = <<>>
    /\ wire' = Tail(wire)
    /\ UNCHANGED <<sent, clean>>

(* __ps2_kbd_clear_scan_buffer, at the end of ps2_kbd_init: the bytes of a    *)
(* code that came before are gone.                                         *)
ps2_kbd_clear_scan_buffer ==
    /\ scancode_buffer' = <<>>
    /\ clean' = FALSE
    /\ UNCHANGED <<wire, sent, keys>>

KbdInit ==
    /\ scancode_buffer = <<>> /\ wire = <<>> /\ sent = <<>>
    /\ clean = FALSE
    /\ keys = <<>>

(* The line is unmasked while the keyboard is in the middle of a code whose  *)
(* first bytes came too early.                                             *)
MidCode ==
    /\ \E code \in Codes : \E n \in 1 .. Len(code) :
         sent' = code /\ wire' = SubSeq(code, n + 1, Len(code))
    /\ UNCHANGED <<scancode_buffer, clean, keys>>

-----------------------------------------------------------------------------
(* Nothing but a fake shift puts the handler out of step, whatever the       *)
(* keyboard was doing when it was enabled: when a code ends it holds         *)
(* nothing, or it took a fake shift for the start of a print screen and goes *)
(* on collecting; and it never writes behind its eight bytes.  While it is   *)
(* in step it registers every key once, as what it is, and a fake shift is   *)
(* no keystroke.                                                           *)
InStep ==
    /\ Len(scancode_buffer) < 8
    /\ wire = <<>> /\ scancode_buffer # <<>> => SubSeq(scancode_buffer, 1, 2) = FakeShift
    /\ wire = <<>> /\ clean =>
         /\ sent \in Presses => keys = <<[key |-> sent, released |-> FALSE]>>
         /\ sent \in Releases => keys = <<[key |-> PressOf(sent), released |-> TRUE]>>
         /\ sent \in {FakeShift, FakeShiftOff} => keys = <<>>
=============================================================================
