------------------------------ MODULE MCPaging ------------------------------
(* A machine with memory for the kernel's tables, two programs and a few      *)
(* pages.  The lower half of the addresses has the frames at their own       *)
(* numbers and then the heap, the upper half the direct map and then the     *)
(* kernel.                                                                 *)
EXTENDS Paging

MCWidth    == <<2, 1, 2, 64>>
MCImage    == {2, 3}
MCIst      == {4}
MCSegments == "a" :> (0 :> 5 @@ 1 :> 6) @@ "b" :> (0 :> 7 @@ 1 :> 8)
MCNamed    == {41, 64}
MCScreen   == {46, 47}
MCFree     == 9 .. 44
MCMemory   == (2 .. 44) \cup MCScreen
=============================================================================
