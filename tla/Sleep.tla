-------------------------------- MODULE Sleep -------------------------------
(***************************************************************************)
(* Waiting for time: sleep(), msleep() and usleep() over sys_select(), and  *)
(* poll().  The kernel wakes a process when the time is over or when a      *)
(* signal came; after a signal sleep() and msleep() tell how much is left,  *)
(* and the program calls them again with that.                             *)
(*                                                                         *)
(* What is left comes from the timeval, where the kernel has written it:    *)
(* select() does so, but where sys_select() has to use pselect6() it passes *)
(* a copy, and the timeval keeps the whole time.                           *)
(*                                                                         *)
(* Time is in microseconds.  A second has fewer of them than in the code,  *)
(* int and time_t have fewer values.                                       *)
(***************************************************************************)
EXTENDS Errno, Words

CONSTANTS
  MsPerSec, UsPerMs,   \* 1000 each in the code
  SleepArg,            \* SleepArg[f]: the arguments given to the function f
  MaxSignals           \* the number of signals

SleepFunction == {"sleep", "msleep", "usleep", "poll"}

ASSUME SleepAssumption ==
  /\ MsPerSec \in Nat \ {0} /\ UsPerMs \in Nat \ {0}
  /\ MaxSignals \in Nat
  /\ \A f \in SleepFunction \ {"poll"} : SleepArg[f] \subseteq 0 .. (2 * IntMax + 1)
  /\ SleepArg["poll"] \subseteq -1 .. IntMax

VARIABLES
  writesBack,    \* whether sys_select() is a call that writes the timeval
  nap,           \* the call in progress, or the one that has just returned
  tv,            \* its my_timeval, or the timespec of poll()
  asleep,        \* whether the call is in the kernel
  ret,           \* what the last call returned
  slept, asked,  \* how long the program has slept, and how long it wanted to, since
                 \* it began: one call, and the ones with the time that was left
  signals

sleepVars == <<writesBack, nap, tv, asleep, ret, slept, asked, signals>>

UsPerSec == MsPerSec * UsPerMs

Nap(f, arg) == [fn |-> f, arg |-> arg]
NoNap       == Nap("none", 0)

Timeval(sec, usec) == [sec |-> sec, usec |-> usec]
Forever            == Timeval(-1, 0)   \* what stands for a NULL timeout of poll()

Micros(t) == t.sec * UsPerSec + t.usec

\* The time an argument stands for.
Meant(f, arg) ==
  CASE f = "sleep" -> arg * UsPerSec
    [] f = "usleep" -> arg
    [] OTHER -> arg * UsPerMs

-----------------------------------------------------------------------------
(* The calls.                                                              *)

\* Mutant of TimevalOf: the rest is not scaled to microseconds.
TimevalUnscaled(f, arg) ==
  CASE f = "sleep"  -> Timeval(ToTime(arg), 0)
    [] f = "msleep" -> Timeval(arg \div MsPerSec, arg % MsPerSec)
    [] f = "usleep" -> Timeval(arg \div UsPerSec, arg % UsPerSec)
    [] f = "poll"   -> IF arg < 0 THEN Forever
                       ELSE Timeval(arg \div MsPerSec, (arg % MsPerSec) * UsPerMs)

\* What the argument becomes for the kernel; the time_t may be too small for it.
TimevalOf(f, arg) ==
  CASE f = "sleep"  -> Timeval(ToTime(arg), 0)
    [] f = "msleep" -> Timeval(arg \div MsPerSec, (arg % MsPerSec) * UsPerMs)
    [] f = "usleep" -> Timeval(arg \div UsPerSec, arg % UsPerSec)
    [] f = "poll"   -> IF arg < 0 THEN Forever
                       ELSE Timeval(arg \div MsPerSec, (arg % MsPerSec) * UsPerMs)

CallsSelect(f, arg) ==
  /\ nap' = Nap(f, arg)
  /\ tv' = TimevalOf(f, arg)
  /\ asleep' = TRUE
  /\ UNCHANGED <<writesBack, ret, signals, errno>>

Begin(f, arg) ==
  /\ ~asleep
  /\ CallsSelect(f, arg)
  /\ slept' = 0 /\ asked' = Meant(f, arg)

\* The program calls again with what is left.
Again ==
  /\ ~asleep
  /\ nap.fn \in {"sleep", "msleep"} /\ ret > 0
  /\ CallsSelect(nap.fn, ret)
  /\ UNCHANGED <<slept, asked>>

\* Mutant of RoundedUp: what is left of a unit is dropped.
RoundedDown(n, unit) == n \div unit

RoundedUp(n, unit) == n \div unit + (IF n % unit = 0 THEN 0 ELSE 1)

\* What the call returns when sys_select() or poll() gave error, and the timeval
\* is t.  usleep() hands on the negative number itself.
Result(f, t, error) ==
  CASE f = "sleep"  -> ToUint(t.sec + RoundedUp(t.usec, UsPerSec))
    [] f = "msleep" -> ToInt(ToUint(t.sec * MsPerSec + RoundedUp(t.usec, UsPerMs)))
    [] f = "usleep" -> -error
    [] f = "poll"   -> -1

\* The call fails; only poll() sets errno.
Fails(t, error) ==
  /\ asleep' = FALSE
  /\ tv' = t
  /\ ret' = Result(nap.fn, t, error)
  /\ IF nap.fn = "poll" THEN SET_ERRNO(error) ELSE UNCHANGED errno
  /\ UNCHANGED <<writesBack, nap, asked>>

\* No time is given: poll() with a negative timeout.
Endless == nap.fn = "poll" /\ tv = Forever

\* The kernel refuses a negative number of seconds.
Refused ==
  /\ asleep /\ ~Endless /\ tv.sec < 0
  /\ Fails(tv, EINVAL)
  /\ UNCHANGED <<slept, signals>>

Wakes(result, time) ==
  /\ asleep' = FALSE
  /\ ret' = result
  /\ slept' = slept + time
  /\ UNCHANGED <<writesBack, nap, asked, signals, errno>>

\* Mutant of TimesOut: the result is that of the timeval, whatever select() returned.
TimesOutTellsTimeval ==
  /\ asleep /\ tv.sec >= 0
  /\ tv' = IF writesBack THEN Timeval(0, 0) ELSE tv
  /\ Wakes(IF nap.fn = "poll" THEN 0 ELSE Result(nap.fn, tv', 0), Micros(tv))

\* The time is over.
TimesOut ==
  /\ asleep /\ tv.sec >= 0
  /\ Wakes(0, Micros(tv))
  /\ tv' = IF writesBack THEN Timeval(0, 0) ELSE tv

\* A descriptor of poll() is ready first.
Ready ==
  /\ asleep /\ nap.fn = "poll"
  /\ Wakes(1, 0)
  /\ UNCHANGED tv

\* Mutant of LeftIn: nothing is left, whenever the signal came.
LeftInNothing(t, time) == Timeval(0, 0)

\* What a signal after some time leaves in the timeval.
LeftIn(t, time) ==
  IF writesBack
    THEN Timeval((Micros(t) - time) \div UsPerSec, (Micros(t) - time) % UsPerSec)
    ELSE t

\* A signal, at any time up to the last moment.
Signal(time) ==
  /\ asleep /\ signals < MaxSignals
  /\ Endless \/ tv.sec >= 0
  /\ signals' = signals + 1
  /\ slept' = slept + time
  /\ Fails(IF nap.fn = "poll" THEN tv ELSE LeftIn(tv, time), EINTR)

-----------------------------------------------------------------------------

SleepInit ==
  /\ writesBack \in BOOLEAN
  /\ nap = NoNap /\ tv = Timeval(0, 0) /\ asleep = FALSE /\ ret = 0
  /\ slept = 0 /\ asked = 0 /\ signals = 0

SignalTime == IF Endless THEN {0} ELSE 0 .. Micros(tv)

SleepNext ==
  \/ \E f \in SleepFunction : \E arg \in SleepArg[f] : Begin(f, arg)
  \/ Again
  \/ Refused
  \/ TimesOut
  \/ Ready
  \/ \E time \in SignalTime : Signal(time)

SleepSpec == SleepInit /\ [][SleepNext]_<<sleepVars, errno>>

\* The time passes, and the program goes on until nothing is left.
SleepFairness == WF_sleepVars(TimesOut) /\ WF_sleepVars(Refused) /\ WF_sleepVars(Again)

-----------------------------------------------------------------------------
(* Properties.                                                             *)

SleepTypeOK ==
  /\ writesBack \in BOOLEAN /\ asleep \in BOOLEAN
  /\ nap.fn \in SleepFunction \cup {"none"}
  /\ tv.sec \in Int /\ tv.usec \in 0 .. (UsPerSec - 1)
  /\ slept \in Nat /\ signals \in 0 .. MaxSignals
  /\ ret \in (-(IntMax + 1) .. (2 * IntMax + 1)) \cup {-EINTR, -EINVAL}

\* What is left after the last call, as a time.
Rest == IF ~asleep /\ nap.fn \in {"sleep", "msleep"} THEN Meant(nap.fn, ret)
        ELSE IF asleep THEN Meant(nap.fn, nap.arg) ELSE 0

\* Whether the arguments are such that no conversion loses a bit.
Fits == nap.fn = "msleep" => nap.arg <= IntMax

\* No sleep is shorter than it says: what was slept and what sleep() or msleep()
\* says is left make at least the time asked for, after any signals at any time and
\* for both kinds of kernels; and a program that goes on until nothing is left is
\* late by less than a unit for each signal, where the kernel writes the rest back.
\* poll() returns 0 only at its timeout.
SleepsAsAsked ==
  Fits /\ nap # NoNap =>
    /\ nap.fn \in {"sleep", "msleep"} \/ (ret = 0 /\ ~asleep) => slept + Rest >= asked
    /\ nap.fn \in {"sleep", "msleep"} /\ writesBack =>
         slept + Rest <= asked + signals * (Meant(nap.fn, 1) - 1)
    /\ nap.fn = "poll" /\ ret = 0 /\ ~asleep => nap.arg >= 0

\* The loop of a program around sleep() or msleep() ends, although what is left is
\* rounded up and some kernels say that all of it is: not for a number of seconds
\* that time_t cannot hold, which is refused each time.
SleepLoopEnds ==
  \A f \in {"sleep", "msleep"} :
    nap.fn = f /\ asleep ~> \/ ~asleep /\ ret <= 0
                            \/ nap.fn # f
                            \/ f = "sleep" /\ nap.arg > TimeMax
=============================================================================
