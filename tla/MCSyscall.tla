----------------------------- MODULE MCSyscall ------------------------------
(* All the architectures; words of four bits, three error numbers, so that   *)
(* the addresses from 8 to 12 are negative numbers and no errors.            *)
EXTENDS Syscall

MCArch == Supported

MCArchS390 == {s390}
=============================================================================
