------------------------------ MODULE MCBreak -------------------------------
(* Instances of the break and the offset: addresses up to 9, an off_t from -4 *)
(* to 3 in a file of 6.  MCProcess has them beside the other parts.           *)
EXTENDS Break

MCIncrement == {-1, 0, 2, 4}
MCOffset    == {-4, -1, 0, 2, 3}
=============================================================================
