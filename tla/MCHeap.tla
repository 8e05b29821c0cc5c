------------------------------- MODULE MCHeap -------------------------------
(* Three pages of four bytes, a header of two; size_t has 32 values, so that *)
(* the requests reach past the rounding (27, 29) and past the header (31).  *)
EXTENDS Heap

MCAddress == 4 .. 15
=============================================================================
