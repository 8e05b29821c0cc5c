-------------------------------- MODULE Clocks ------------------------------
(***************************************************************************)
(* Clocks and timers: clock_gettime(), clock_settime(), gettimeofday(),     *)
(* time(), and the timers of timer_settime() and timerfd_settime(), which   *)
(* differ in the number of the system call only.                           *)
(*                                                                         *)
(* A kernel that has only the calls for 64-bit times is given structures of *)
(* its own, which the library copies to and from those of the program; the  *)
(* structures it has not filled hold whatever was on the stack.            *)
(***************************************************************************)
EXTENDS Errno, Words

CONSTANTS
  KSecMax,     \* the last second of the kernel's clock
  NsPerUs, NsPerSec,   \* 1000 and 1000000000 in the code
  UserTime,    \* the times a program passes
  StackTime    \* the times that may happen to be on the stack

ASSUME ClocksAssumption ==
  /\ KSecMax \in Nat /\ NsPerUs \in Nat \ {0} /\ NsPerSec \in Nat \ {0}
  /\ UserTime \cup StackTime \subseteq [sec : (-(TimeMax + 1)) .. TimeMax, nsec : Nat]

VARIABLES
  time64,      \* whether the kernel has the calls for 64-bit times only
  clock,       \* the clock of the kernel
  timer,       \* what is left of its timer, and what it starts again with
  tp,          \* the program's struct timespec or struct timeval
  its,         \* the program's struct itimerspec
  call         \* the last call, and its result

clocksVars == <<time64, clock, timer, tp, its, call>>

Timespec(sec, nsec)          == [sec |-> sec, nsec |-> nsec]
Itimerspec(value, interval)  == [value |-> value, interval |-> interval]
Call(f, ok)                  == [fn |-> f, ok |-> ok]

Zero == Timespec(0, 0)

Settings(times) == [value : times, interval : times]

-----------------------------------------------------------------------------
(* Conversions.                                                            *)

\* Mutant of KernelToUser: the seconds of the kernel that do not fit are the last
\* that do.
KernelToUserCapped(t) == Timespec(IF t.sec > TimeMax THEN TimeMax ELSE t.sec, t.nsec)

\* The time_t of the program may be too narrow; the old calls cut it as well.
KernelToUser(t) == Timespec(ToTime(t.sec), t.nsec)

UserToKernel(t) == t

\* Mutant of ItsToUser: the two parts change places.
ItsSwapped(k) == Itimerspec(KernelToUser(k.interval), KernelToUser(k.value))

ItsToUser(k) == Itimerspec(KernelToUser(k.value), KernelToUser(k.interval))

ItsToKernel(u) == Itimerspec(UserToKernel(u.value), UserToKernel(u.interval))

-----------------------------------------------------------------------------
(* The kernel refuses times that are none.                                 *)

Valid(t) == t.sec >= 0 /\ t.nsec < NsPerSec

ValidSetting(k) == Valid(k.value) /\ Valid(k.interval)

Succeeds(f) == call' = Call(f, TRUE) /\ UNCHANGED <<time64, errno>>

Refuses(f) ==
  /\ call' = Call(f, FALSE)
  /\ SET_ERRNO(EINVAL)
  /\ UNCHANGED <<time64, clock, timer>>

-----------------------------------------------------------------------------
(* The clock.                                                              *)

\* A clock that the kernel does not have fills in no time, and the structure on the
\* stack is copied all the same.
ClockGettime ==
  \/ Succeeds("clock_gettime") /\ tp' = KernelToUser(clock) /\ UNCHANGED <<clock, timer, its>>
  \/ /\ Refuses("clock_gettime")
     /\ IF time64 THEN tp' \in StackTime ELSE UNCHANGED tp
     /\ UNCHANGED its

ClockSettime ==
  LET kts == UserToKernel(tp)
  IN  /\ IF Valid(kts)
           THEN Succeeds("clock_settime") /\ clock' = kts /\ UNCHANGED timer
           ELSE Refuses("clock_settime")
      /\ UNCHANGED <<tp, its>>

\* Over clock_gettime() where there is no such call; time() returns the seconds.
Gettimeofday ==
  /\ Succeeds("gettimeofday")
  /\ tp' = Timespec(KernelToUser(clock).sec, clock.nsec \div NsPerUs)
  /\ UNCHANGED <<clock, timer, its>>

-----------------------------------------------------------------------------
(* The timers.                                                             *)

TimerGettime ==
  /\ Succeeds("timer_gettime")
  /\ its' = ItsToUser(timer)
  /\ UNCHANGED <<clock, timer, tp>>

\* A timer that is none.
TimerGettimeFails ==
  /\ Refuses("timer_gettime")
  /\ IF time64 THEN its' \in Settings(StackTime) ELSE UNCHANGED its
  /\ UNCHANGED tp

\* Mutant of TimerSettime: the old setting is copied back, whether it was asked for or
\* not, to the structure that held the new one.
TimerSettimeCopiesBack ==
  /\ IF ValidSetting(ItsToKernel(its))
       THEN Succeeds("timer_settime") /\ timer' = ItsToKernel(its) /\ UNCHANGED <<clock, its>>
       ELSE /\ Refuses("timer_settime")
            /\ IF time64 THEN its' \in Settings(StackTime) ELSE UNCHANGED its
  /\ UNCHANGED tp

TimerSettime ==
  /\ IF ValidSetting(ItsToKernel(its))
       THEN Succeeds("timer_settime") /\ timer' = ItsToKernel(its) /\ UNCHANGED clock
       ELSE Refuses("timer_settime")
  /\ UNCHANGED <<tp, its>>

\* Mutant of TimerExchange: the old setting is copied before the new one is taken.
TimerExchangeOldFirst ==
  /\ ValidSetting(ItsToKernel(its))
  /\ Succeeds("timer_exchange")
  /\ its' = ItsToUser(timer) /\ timer' = ItsToKernel(its')
  /\ UNCHANGED <<clock, tp>>

\* timer_settime() with the same structure for the old setting.
TimerExchange ==
  /\ IF ValidSetting(ItsToKernel(its))
       THEN /\ Succeeds("timer_exchange")
            /\ timer' = ItsToKernel(its)
            /\ its' = ItsToUser(timer)
            /\ UNCHANGED clock
       ELSE /\ Refuses("timer_exchange")
            /\ IF time64 THEN its' \in Settings(StackTime) ELSE UNCHANGED its
  /\ UNCHANGED tp

-----------------------------------------------------------------------------
(* The program sets its structures, and a second passes.                   *)

Prepare ==
  /\ \/ tp' \in UserTime /\ UNCHANGED its
     \/ its' \in Settings(UserTime) /\ UNCHANGED tp
  /\ call' = Call("none", TRUE)
  /\ UNCHANGED <<time64, clock, timer, errno>>

\* The timer has less left, and starts again when nothing is.
Elapsed(k) ==
  IF k.value.sec > 1 \/ (k.value.sec = 1 /\ k.value.nsec > 0)
    THEN Itimerspec(Timespec(k.value.sec - 1, k.value.nsec), k.interval)
    ELSE Itimerspec(k.interval, k.interval)

Tick ==
  /\ clock.sec < KSecMax
  /\ clock' = [clock EXCEPT !.sec = @ + 1]
  /\ timer' = IF timer.value = Zero THEN timer ELSE Elapsed(timer)
  /\ call' = Call("none", TRUE)
  /\ UNCHANGED <<time64, tp, its, errno>>

-----------------------------------------------------------------------------

ClocksInit ==
  /\ time64 \in BOOLEAN
  /\ clock = Zero /\ tp = Zero
  /\ timer = Itimerspec(Zero, Zero) /\ its = Itimerspec(Zero, Zero)
  /\ call = Call("none", TRUE)

ClocksNext ==
  \/ ClockGettime
  \/ ClockSettime
  \/ Gettimeofday
  \/ TimerGettime
  \/ TimerGettimeFails
  \/ TimerSettime
  \/ TimerExchange
  \/ Prepare
  \/ Tick

ClocksSpec == ClocksInit /\ errno = 0 /\ [][ClocksNext]_<<clocksVars, errno>>

-----------------------------------------------------------------------------
(* Properties.                                                             *)

\* Times of the kernel, and those of a program, which may be none.
KernelTime  == [sec : Nat, nsec : Nat]
ProgramTime == [sec : Int, nsec : Nat]

ClocksTypeOK ==
  /\ time64 \in BOOLEAN
  /\ clock \in KernelTime /\ timer \in Settings(KernelTime)
  /\ tp \in ProgramTime /\ its \in Settings(ProgramTime)
  /\ call.ok \in BOOLEAN

\* The program's time u is the kernel's time k, as far as a time_t can hold it.
Tells(u, k) ==
  u.nsec = k.nsec /\ u.sec \in (-(TimeMax + 1)) .. TimeMax /\ (k.sec - u.sec) % (2 * (TimeMax + 1)) = 0

TellsBoth(u, k) == Tells(u.value, k.value) /\ Tells(u.interval, k.interval)

TimesToldStep ==
  /\ ~call'.ok =>
       /\ UNCHANGED <<clock, timer>> /\ errno' = EINVAL
       /\ ~time64 => UNCHANGED <<tp, its>>
  /\ call'.fn \in {"clock_settime", "timer_gettime", "timer_settime", "timer_exchange"} => UNCHANGED tp
  /\ call'.fn \in {"clock_gettime", "clock_settime", "gettimeofday", "timer_settime"} => UNCHANGED its
  /\ call'.ok =>
       CASE call'.fn = "clock_gettime"  -> Tells(tp', clock) /\ clock' = clock
         [] call'.fn = "clock_settime"  -> clock' = tp /\ Valid(tp)
         [] call'.fn = "gettimeofday"   -> Tells(tp', [clock EXCEPT !.nsec = @ \div NsPerUs])
         [] call'.fn = "timer_gettime"  -> TellsBoth(its', timer) /\ timer' = timer
         [] call'.fn = "timer_settime"  -> timer' = its /\ ValidSetting(its)
         [] call'.fn = "timer_exchange" -> timer' = its /\ TellsBoth(its', timer)
         [] OTHER -> TRUE

\* On both kinds of kernels the program reads the clock and the timer as they are and
\* sets them to what it asked for, also where one structure is the new setting and
\* gets the old one; seconds that time_t cannot hold come as their low bits.  A
\* refused call changes neither, and sets errno.  A call writes at most the one structure
\* it was to fill, whether it is refused or not: what the library's stack happens to hold
\* does not reach another structure, nor any where the structures are the kernel's.
TimesTold == [][TimesToldStep]_clocksVars
=============================================================================
