-------------------------------- MODULE Errno -------------------------------
(***************************************************************************)
(* The error number that the wrappers of system calls share.                *)
(***************************************************************************)
EXTENDS Integers

VARIABLE errno

ESRCH     == 3
EINTR     == 4
ECHILD    == 10
ENOMEM    == 12
EINVAL    == 22
ERANGE    == 34
EOVERFLOW == 75
EILSEQ    == 84

SET_ERRNO(v) == errno' = v
=============================================================================
