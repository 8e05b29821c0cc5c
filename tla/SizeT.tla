-------------------------------- MODULE SizeT -------------------------------
(***************************************************************************)
(* The arithmetic of size_t.                                               *)
(***************************************************************************)
EXTENDS Integers

CONSTANT SizeMax   \* SIZE_MAX

ASSUME SizeTAssumption == SizeMax \in Nat

Wrap(n) == n % (SizeMax + 1)
=============================================================================
