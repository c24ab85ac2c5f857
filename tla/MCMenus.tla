------------------------------ MODULE MCMenus ------------------------------
(* The shell with two listeners besides the menu, on a page with room for one *)
(* of them twice, or both.                                                  *)
EXTENDS Menus

MCOthers == {"first", "second"}
=============================================================================
