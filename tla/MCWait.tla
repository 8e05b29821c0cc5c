------------------------------- MODULE MCWait -------------------------------
(* Two children; statuses at both ends of a byte and beyond it, one signal  *)
(* to die of, one signal for the parent.                                    *)
EXTENDS Wait

MCIntMin == -1000

MCOptions == {{}, {"WNOHANG"}, {"WUNTRACED", "WCONTINUED"}}
=============================================================================
