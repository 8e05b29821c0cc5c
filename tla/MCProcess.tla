----------------------------- MODULE MCProcess ------------------------------
(* The parts of a process that share nothing but errno, side by side: a      *)
(* behaviour is one of start and end, of waiting for time, of the break and   *)
(* an offset, of clocks and timers, of descriptors, or of children.  A second *)
(* has two milliseconds of two microseconds of two nanoseconds; an int and a  *)
(* time_t go from -4 to 3; MCBreak and MCWait have values of their own.      *)
EXTENDS Startup, Sleep, MCBreak, Clocks, Files, MCWait

VARIABLE part

MCEnvV == {<<>>, <<<<"A", "B", "=", "x">>, <<"A">>, <<"A", "=", "=", "y">>, <<"A", "=", "z">>>>,
           <<<<"=", "x">>, <<"A", "=">>>>}

MCAuxV == {<<>>, <<<<3, 0>>, <<6, 2>>>>, <<<<23, 0>>, <<6, 3>>, <<6, 2>>>>}

MCName == {<<"A">>, <<"A", "B">>, <<"B">>, <<>>}

MCSleepArg == [sleep |-> {0, 1, 3, 5, 7}, msleep |-> {1, 3, 7}, usleep |-> {3, 7}, poll |-> {-1, 0, 3}]

MCUserTime == {Timespec(0, 0), Timespec(3, 2), Timespec(1, 4)}

MCStackTime == {Timespec(-4, 4)}

MCStreamMode == {<<"r">>, <<"w">>, <<"w", "+">>, <<"a", "b", "+">>, <<"x">>, <<>>}

MCExitCode == {0, 300, -1}

vars == <<startupVars, sleepVars, breakVars, clocksVars, filesVars, waitVars, errno, part>>

Init ==
  /\ StartupInit /\ SleepInit /\ BreakInit /\ ClocksInit /\ FilesInit /\ WaitInit
  /\ errno = 0
  /\ part \in {"startup", "sleep", "break", "clocks", "files", "wait"}
  /\ part # "startup" => stack = KernelStack(0, <<>>, <<>>)
  /\ part # "sleep" => writesBack
  /\ part # "break" => hasLseek
  /\ part # "clocks" => time64
  /\ part # "files" => files = {} /\ streams = {} /\ hasDup3

Next ==
  /\ UNCHANGED part
  /\ \/ part = "startup" /\ StartupNext
        /\ UNCHANGED <<sleepVars, breakVars, clocksVars, filesVars, waitVars, errno>>
     \/ part = "sleep" /\ SleepNext
        /\ UNCHANGED <<startupVars, breakVars, clocksVars, filesVars, waitVars>>
     \/ part = "break" /\ BreakNext
        /\ UNCHANGED <<startupVars, sleepVars, clocksVars, filesVars, waitVars>>
     \/ part = "clocks" /\ ClocksNext
        /\ UNCHANGED <<startupVars, sleepVars, breakVars, filesVars, waitVars>>
     \/ part = "files" /\ FilesNext
        /\ UNCHANGED <<startupVars, sleepVars, breakVars, clocksVars, waitVars>>
     \/ part = "wait" /\ WaitNext
        /\ UNCHANGED <<startupVars, sleepVars, breakVars, clocksVars, filesVars>>

\* The program goes on calling wait(), where it has started to.
Spec ==
  /\ Init /\ [][Next]_vars /\ SleepFairness
  /\ WF_<<waitVars, errno>>(part = "wait" /\ WaitAny)
=============================================================================
