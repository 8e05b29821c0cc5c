-------------------------------- MODULE Words -------------------------------
(***************************************************************************)
(* The integers of C, in two's complement.                                 *)
(***************************************************************************)
EXTENDS Integers

CONSTANTS
  IntMax,     \* the largest int
  TimeMax     \* the largest time_t

\* A time_t is a long, which is at least as wide as an int.
ASSUME WordsAssumption ==
  /\ IntMax \in Nat /\ TimeMax \in Nat
  /\ (TimeMax + 1) % (IntMax + 1) = 0

\* The value of n in a signed type, or an unsigned one, whose largest signed value is max.
Signed(n, max)   == ((n + max + 1) % (2 * (max + 1))) - (max + 1)
Unsigned(n, max) == n % (2 * (max + 1))

ToInt(n)  == Signed(n, IntMax)
ToUint(n) == Unsigned(n, IntMax)
ToTime(n) == Signed(n, TimeMax)
=============================================================================
