------------------------------ MODULE MCDirent ------------------------------
(* A parent and a child, a directory of three entries read in batches of at *)
(* most two, two streams.                                                   *)
EXTENDS Dirent
=============================================================================
