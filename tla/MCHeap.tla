------------------------------- MODULE MCHeap -------------------------------
(* A heap of two pages of eight units. *)
EXTENDS Heap
=============================================================================
