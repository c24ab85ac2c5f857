----------------------------- MODULE KeyTables -----------------------------
(***************************************************************************)
(* The characters of the keys in the shell prism: the eight tables of       *)
(* apps/frames/prism/src/kbd/tables.c and the choice kbd_char_decode makes   *)
(* among them.  A table has one character for each of the codes 0 .. \h43.   *)
(***************************************************************************)
EXTENDS Naturals, Sequences

NoChar == "none"

(* What the tables are put together from: the row of digits, the three rows  *)
(* of letters, the marks behind each of these, and the keypad.              *)
Digits  == <<"grave", "1", "2", "3", "4", "5", "6", "7", "8", "9", "0", "-", "=">>
Symbols == <<"~", "!", "@", "#", "$", "%", "^", "&", "*", "(", ")", "underscore", "+">>
Lower == << <<"q", "w", "e", "r", "t", "y", "u", "i", "o", "p">>,
            <<"a", "s", "d", "f", "g", "h", "j", "k", "l">>,
            <<"z", "x", "c", "v", "b", "n", "m">> >>
Upper == << <<"Q", "W", "E", "R", "T", "Y", "U", "I", "O", "P">>,
            <<"A", "S", "D", "F", "G", "H", "J", "K", "L">>,
            <<"Z", "X", "C", "V", "B", "N", "M">> >>
Marks    == << <<"[", "]", "backslash">>, <<"semicolon", "apostrophe">>, <<"comma", ".", "/">> >>
TwoCommas == [Marks EXCEPT ![3] = <<"comma", "comma", "/">>]
Shifted  == << <<"openbrace", "closebrace", "|">>, <<":", "quote">>, <<"<", ">", "?">> >>
NoPad    == [i \in 1 .. 16 |-> NoChar]
Pad      == <<"/", "*", "-", "+", "7", "8", "9", "4", "5", "6", "1", "2", "3",
              "0", ".", "newline">>

Table(digits, letters, marks, pad) ==
    LET keys == digits \o letters[1] \o marks[1] \o letters[2] \o marks[2]
                \o letters[3] \o marks[3] \o <<"space">> \o pad
                \o <<"newline", "tab", "backspace">>
    IN  [k \in 0 .. \h43 |-> IF k = 0 THEN NoChar ELSE keys[k]]

kbd_key_ascii_default == Table(Digits, Lower, Marks, NoPad)
kbd_key_ascii_numlock == Table(Digits, Lower, Marks, Pad)
kbd_key_ascii_capslock == Table(Digits, Upper, TwoCommas, NoPad)
kbd_key_ascii_numlock_capslock == Table(Digits, Upper, TwoCommas, Pad)
kbd_key_ascii_shift == Table(Symbols, Upper, Shifted, NoPad)
kbd_key_ascii_shift_numlock == Table(Symbols, Upper, Shifted, Pad)
kbd_key_ascii_shift_capslock == Table(Symbols, Lower, Shifted, NoPad)
kbd_key_ascii_shift_numlock_capslock == Table(Symbols, Lower, Shifted, Pad)

TableOf(shift, caps, nums) ==
    CASE shift /\ caps /\ nums   -> kbd_key_ascii_shift_numlock_capslock
      [] shift /\ caps /\ ~nums  -> kbd_key_ascii_shift_capslock
      [] shift /\ ~caps /\ nums  -> kbd_key_ascii_shift_numlock
      [] shift /\ ~caps /\ ~nums -> kbd_key_ascii_shift
      [] ~shift /\ caps /\ nums  -> kbd_key_ascii_numlock_capslock
      [] ~shift /\ caps /\ ~nums -> kbd_key_ascii_capslock
      [] ~shift /\ ~caps /\ nums -> kbd_key_ascii_numlock
      [] OTHER                   -> kbd_key_ascii_default

(* The code of a released key has the high bit, and counts as the key. *)
kbd_char_decode(shift, caps, nums, keycode) ==
    LET key == keycode % \h80
    IN  IF key > \h42 THEN NoChar ELSE TableOf(shift, caps, nums)[key]

(* The keys a reader of the tables takes for letters. *)
LetterKeys == (\h0E .. \h17) \cup (\h1B .. \h23) \cup (\h26 .. \h2C)
PadKeys    == \h31 .. \h40
Characters(rows) == UNION {{rows[i][j] : j \in DOMAIN rows[i]} : i \in 1 .. 3}
=============================================================================
