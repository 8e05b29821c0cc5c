-------------------------------- MODULE Wait --------------------------------
(***************************************************************************)
(* Children: fork(), setpgid(), exit(), wait() and waitpid().              *)
(*                                                                         *)
(* waitpid() is not a system call here: it asks waitid() and rebuilds from  *)
(* the siginfo the status word that wait4() would have given, which the     *)
(* macros of types.h take apart again.  Meanwhile the children exit, are    *)
(* killed, stop and go on, and signals interrupt the parent.                *)
(***************************************************************************)
EXTENDS Errno

CONSTANTS
  Child,         \* the pids of the children, each of which is used once
  ParentPid,     \* the pid of the caller, which is also its process group
  ExitStatus,    \* the arguments children give to exit()
  FatalSignal,   \* the signals that kill a child
  Options,       \* the sets of options the parent passes
  IntMin,        \* INT_MIN
  MaxInterrupts  \* the signals that interrupt the parent

ASSUME WaitAssumption ==
  /\ Child \subseteq Nat \ {0} /\ ParentPid \in Nat \ ({0} \cup Child)
  /\ ExitStatus \subseteq Int
  /\ FatalSignal \subseteq 1 .. 64
  /\ IntMin \in Int /\ \A c \in Child : IntMin < -c
  /\ Options \subseteq SUBSET {"WNOHANG", "WUNTRACED", "WCONTINUED"}
  /\ MaxInterrupts \in Nat

VARIABLES
  proc,        \* proc[c]: "none", "running", "stopped", "zombie" or "reaped"
  group,       \* group[c]: its process group
  pending,     \* pending[c]: the change of state that was not waited for, or Quiet
  got,         \* what the last waitpid() returned, and the change it was about
  interrupts   \* the signals that have interrupted the parent so far

waitVars == <<proc, group, pending, got, interrupts>>

\* The si_code and si_status of a siginfo.
Change == [code : {"CLD_EXITED", "CLD_KILLED", "CLD_DUMPED", "CLD_STOPPED", "CLD_CONTINUED"},
           status : 0 .. 255]
Quiet  == [code |-> "0", status |-> 0]

SIGSTOP == 19
SIGCONT == 18

Group == Child \cup {ParentPid}

-----------------------------------------------------------------------------
(* The children, as the kernel sees them.                                  *)

\* A child starts in the group of its parent.
Fork(c) ==
  /\ proc[c] = "none"
  /\ proc' = [proc EXCEPT ![c] = "running"]
  /\ UNCHANGED <<group, pending, got, errno, interrupts>>

Setpgid(c, g) ==
  /\ proc[c] \in {"running", "stopped"}
  /\ group' = [group EXCEPT ![c] = g]
  /\ UNCHANGED <<proc, pending, got, errno, interrupts>>

Becomes(c, state, change) ==
  /\ proc' = [proc EXCEPT ![c] = state]
  /\ pending' = [pending EXCEPT ![c] = change]
  /\ UNCHANGED <<group, got, errno, interrupts>>

\* Mutant of Exited: the status is passed on as it is.
ExitedUnmasked(c, status) ==
  /\ proc[c] = "running"
  /\ Becomes(c, "zombie", [code |-> "CLD_EXITED", status |-> status])

\* sys_exit() keeps the low eight bits.
Exited(c, status) ==
  /\ proc[c] = "running"
  /\ Becomes(c, "zombie", [code |-> "CLD_EXITED", status |-> status % 256])

Killed(c, sig) ==
  /\ proc[c] \in {"running", "stopped"}
  /\ \E code \in {"CLD_KILLED", "CLD_DUMPED"} :
       Becomes(c, "zombie", [code |-> code, status |-> sig])

Stopped(c) ==
  /\ proc[c] = "running"
  /\ Becomes(c, "stopped", [code |-> "CLD_STOPPED", status |-> SIGSTOP])

Continued(c) ==
  /\ proc[c] = "stopped"
  /\ Becomes(c, "running", [code |-> "CLD_CONTINUED", status |-> SIGCONT])

\* The status word of wait4().
KernelStatus(change) ==
  CASE change.code = "CLD_EXITED"    -> change.status * 256
    [] change.code = "CLD_KILLED"    -> change.status
    [] change.code = "CLD_DUMPED"    -> 128 + change.status
    [] change.code = "CLD_STOPPED"   -> change.status * 256 + 127
    [] change.code = "CLD_CONTINUED" -> 65535

-----------------------------------------------------------------------------
(* waitpid().                                                              *)

\* Mutant of IdType: the sign of pid is not taken off, nobody is in the group.
IdTypeSigned(pid) ==
  CASE pid < -1 -> <<"P_PGID", pid>>
    [] pid = -1 -> <<"P_ALL", 0>>
    [] pid = 0  -> <<"P_PGID", 0>>
    [] OTHER    -> <<"P_PID", pid>>

\* Mutant of IdType: pid 0 stands for any child.
IdTypeZeroIsAll(pid) ==
  CASE pid < -1 -> <<"P_PGID", -pid>>
    [] pid > 0  -> <<"P_PID", pid>>
    [] OTHER    -> <<"P_ALL", 0>>

IdType(pid) ==
  CASE pid < -1 -> <<"P_PGID", -pid>>
    [] pid = -1 -> <<"P_ALL", 0>>
    [] pid = 0  -> <<"P_PGID", 0>>
    [] OTHER    -> <<"P_PID", pid>>

\* The children waitid() considers; group 0 is the caller's own.
Considered(id) ==
  {c \in Child :
     /\ proc[c] \notin {"none", "reaped"}
     /\ CASE id[1] = "P_ALL"  -> TRUE
          [] id[1] = "P_PID"  -> c = id[2]
          [] id[1] = "P_PGID" -> group[c] = IF id[2] = 0 THEN ParentPid ELSE id[2]}

\* The changes that the options ask for: waitpid() adds WEXITED.
Asked(options) ==
  {"CLD_EXITED", "CLD_KILLED", "CLD_DUMPED"}
    \cup (IF "WUNTRACED" \in options THEN {"CLD_STOPPED"} ELSE {})
    \cup (IF "WCONTINUED" \in options THEN {"CLD_CONTINUED"} ELSE {})

Reporting(id, options) == {c \in Considered(id) : pending[c].code \in Asked(options)}

\* Mutant of Status: the low byte of a status that exit() was given is not
\* moved up.
StatusUnshifted(info) ==
  CASE info.code = "CLD_EXITED" -> info.status % 256
    [] info.code = "CLD_STOPPED" -> info.status * 256 + 127
    [] info.code = "CLD_CONTINUED" -> 65535
    [] OTHER -> info.status % 128

\* The switch on si_code; 0 is the answer to WNOHANG.  CLD_TRAPPED is the stop of a child
\* that is traced, which no child is here.  The kernel has no other code: the default,
\* which returns -1 without a status, is not reached.
Status(info) ==
  CASE info.code = "0"             -> 0
    [] info.code = "CLD_EXITED"    -> (info.status % 256) * 256
    [] info.code = "CLD_KILLED"    -> info.status % 128
    [] info.code = "CLD_DUMPED"    -> (info.status % 128) + 128
    [] info.code \in {"CLD_STOPPED", "CLD_TRAPPED"} -> info.status * 256 + 127
    [] info.code = "CLD_CONTINUED" -> 65535

Returns(asked, pid, status, info) ==
  got' = [asked |-> asked, pid |-> pid, status |-> status, info |-> info,
          group |-> IF pid \in Child THEN group[pid] ELSE 0]

\* Mutant of Reaps: the child stays a zombie, as with WNOWAIT.
ReapsNothing(c) == UNCHANGED <<proc, pending>>

\* waitid() takes the change off the child, and the child if it has ended.
Reaps(c) ==
  /\ pending' = [pending EXCEPT ![c] = Quiet]
  /\ proc' = [proc EXCEPT ![c] = IF @ = "zombie" THEN "reaped" ELSE @]

WaitpidReports(pid, options, c) ==
  /\ c \in Reporting(IdType(pid), options)
  /\ Reaps(c)
  /\ Returns(pid, c, Status(pending[c]), pending[c])
  /\ UNCHANGED <<group, errno, interrupts>>

\* No child has anything to report yet.
WaitpidNothing(pid, options) ==
  /\ Considered(IdType(pid)) # {} /\ Reporting(IdType(pid), options) = {}
  /\ "WNOHANG" \in options
  /\ Returns(pid, 0, Status(Quiet), Quiet)
  /\ UNCHANGED <<proc, group, pending, errno, interrupts>>

WaitpidFails(pid, error) ==
  /\ SET_ERRNO(error)
  /\ Returns(pid, -1, 0, Quiet)
  /\ UNCHANGED <<proc, group, pending>>

WaitpidNoChild(pid) ==
  /\ Considered(IdType(pid)) = {}
  /\ WaitpidFails(pid, ECHILD)
  /\ UNCHANGED interrupts

WaitpidInterrupted(pid, options) ==
  /\ Considered(IdType(pid)) # {} /\ Reporting(IdType(pid), options) = {}
  /\ "WNOHANG" \notin options
  /\ interrupts < MaxInterrupts
  /\ interrupts' = interrupts + 1
  /\ WaitpidFails(pid, EINTR)

\* -INT_MIN is not an int.
WaitpidIntMin(pid) ==
  /\ WaitpidFails(pid, ESRCH)
  /\ UNCHANGED interrupts

Waitpid(pid, options) ==
  IF pid = IntMin
    THEN WaitpidIntMin(pid)
    ELSE \/ \E c \in Child : WaitpidReports(pid, options, c)
         \/ WaitpidNothing(pid, options)
         \/ WaitpidNoChild(pid)
         \/ WaitpidInterrupted(pid, options)

WaitAny == Waitpid(-1, {})

-----------------------------------------------------------------------------

\* The pids a program can pass.
Pid == {IntMin, -1, 0} \cup Child \cup {-g : g \in Group}

WaitInit ==
  /\ proc = [c \in Child |-> "none"]
  /\ group = [c \in Child |-> ParentPid]
  /\ pending = [c \in Child |-> Quiet]
  /\ got = [asked |-> -1, pid |-> -1, status |-> 0, info |-> Quiet, group |-> 0]
  /\ interrupts = 0

WaitNext ==
  \/ \E c \in Child :
       \/ Fork(c)
       \/ \E g \in {c, ParentPid} : Setpgid(c, g)
       \/ \E status \in ExitStatus : Exited(c, status)
       \/ \E sig \in FatalSignal : Killed(c, sig)
       \/ Stopped(c)
       \/ Continued(c)
  \/ \E pid \in Pid, options \in Options : Waitpid(pid, options)

\* The program goes on calling wait().
WaitSpec ==
  WaitInit /\ errno = 0 /\ [][WaitNext]_<<waitVars, errno>> /\ WF_<<waitVars, errno>>(WaitAny)

-----------------------------------------------------------------------------
(* types.h.                                                                *)

WEXITSTATUS(status) == (status \div 256) % 256
WIFEXITED(status)   == (status % 128) = 0
WTERMSIG(status)    == status % 128
WIFSIGNALED(status) == status - 1 < 255

-----------------------------------------------------------------------------
(* Properties.                                                             *)

WaitTypeOK ==
  /\ proc \in [Child -> {"none", "running", "stopped", "zombie", "reaped"}]
  /\ group \in [Child -> Group]
  /\ pending \in [Child -> Change \cup {Quiet}]
  /\ got \in [asked : Pid, pid : Child \cup {-1, 0}, status : 0 .. 65535,
              info : Change \cup {Quiet}, group : Group \cup {0}]
  /\ errno \in {0, ESRCH, EINTR, ECHILD}
  /\ interrupts \in 0 .. MaxInterrupts

\* The children that the argument of waitpid() means, as waitpid(2) has it.
Selects(pid, c) ==
  CASE pid = -1 -> TRUE
    [] pid = 0  -> group[c] = ParentPid
    [] pid > 0  -> c = pid
    [] OTHER    -> group[c] = -pid

\* The child waitpid() reports is one that pid selects at that moment: by its pid,
\* by its group, by the group of the caller, or any; and it fails with ECHILD, and
\* a program stops waiting, only when pid selects no child that is left.
SelectedChild ==
  [][got' # got =>
       /\ got'.pid > 0 => Selects(got'.asked, got'.pid)
       /\ errno' = ECHILD /\ got'.pid = -1 =>
            \A c \in Child : proc[c] \notin {"none", "reaped"} => ~Selects(got'.asked, c)]_<<waitVars, errno>>

\* The status waitpid() builds from the siginfo is the one wait4() would have
\* given: the two can be mixed, and a program that takes the status apart finds
\* how the child ended.
StatusIsKernels ==
  got.pid > 0 =>
    /\ got.status = KernelStatus(got.info)
    /\ WIFEXITED(got.status) <=> got.info.code = "CLD_EXITED"
    /\ WIFEXITED(got.status) => WEXITSTATUS(got.status) = got.info.status
    /\ got.info.code \in {"CLD_KILLED", "CLD_DUMPED"} =>
         WIFSIGNALED(got.status) /\ WTERMSIG(got.status) = got.info.status

\* A program that goes on calling wait() is left with no zombie.
NoZombieStays == (\E c \in Child : proc[c] = "zombie") ~> \A c \in Child : proc[c] # "zombie"

\* WIFSIGNALED(), as wait(2) has it: the child was terminated by a signal.
SignaledMeansKilled ==
  got.pid > 0 /\ WIFSIGNALED(got.status) => got.info.code \in {"CLD_KILLED", "CLD_DUMPED"}
=============================================================================
