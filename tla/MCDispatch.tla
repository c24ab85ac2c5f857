---------------------------- MODULE MCDispatch ----------------------------
(* The machine with the one task the kernel creates, and with three. *)
EXTENDS Dispatch
=============================================================================
