----------------------------- MODULE MCKeyboard -----------------------------
(* The shell's keyboard on pages of three bytes and a size field. *)
EXTENDS Keyboard
=============================================================================
