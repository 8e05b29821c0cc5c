------------------------------- MODULE Syscall ------------------------------
(***************************************************************************)
(* The way of a call into the kernel and back: my_syscall0() to             *)
(* my_syscall6() of each architecture, and __sysret() or the test of mmap() *)
(* on the value they give.                                                 *)
(*                                                                         *)
(* A macro puts the number and the arguments where the kernel looks for     *)
(* them, runs a few instructions and tells the compiler which registers     *)
(* have changed; in all the others the compiler goes on to keep what it     *)
(* had there.  A record describes the macros of an architecture:            *)
(*   num, args, ret: the registers the macros assign;                      *)
(*   changed: the outputs and clobbers of their asm statement;             *)
(* and the kernel, as the comment above the macros tells:                  *)
(*   knum, kargs, kret: where it takes its input from and leaves its result; *)
(*   flag: the register that tells an error from a result, if there is one; *)
(*   lost: the others it does not preserve; where the comment does not tell, *)
(*         those that the macros give as clobbers for it.                  *)
(*                                                                         *)
(* Words are those of a small machine, in two's complement; the stack has   *)
(* one word per address and signal handlers run on it.                     *)
(***************************************************************************)
EXTENDS Integers, Sequences

CONSTANTS
  Arch,        \* the architectures, some of those that are Supported
  WordSize,    \* the number of words, 2^32 or 2^64 in the code
  MaxErrno,    \* the largest error number, 4095 in the code
  IntResult,   \* the results of system calls that return a number
  PtrResult,   \* the results of system calls that return an address
  Error,       \* the error numbers
  MaxSignals   \* the number of signals

-----------------------------------------------------------------------------
(* The architectures.                                                      *)

NoFlag == "none"

\* The place of an argument that is in memory, in the caller's frame.
Memory == "memory"

\* Instructions.
Trap        == [op |-> "trap"]
Push(r)     == [op |-> "push", reg |-> r]
PushAt(n)   == [op |-> "pushat", off |-> n]               \* the word n above sp
Pop(r)      == [op |-> "pop", reg |-> r]
Load(r, n)  == [op |-> "load", reg |-> r, off |-> n]     \* from n words above sp
Save(r, n)  == [op |-> "save", reg |-> r, off |-> n]
MoveSp(n)   == [op |-> "movesp", off |-> n]
Swap(r, s)  == [op |-> "swap", reg |-> r, with |-> s]
Move(r, s)  == [op |-> "move", reg |-> r, with |-> s]    \* from s to r
NegIf(r, f) == [op |-> "negif", reg |-> r, with |-> f]   \* if f is set
Ret         == [op |-> "ret"]                            \* the C code behind the statement

x86_64 ==
  [name |-> "x86_64",
   num  |-> "rax", args  |-> <<"rdi", "rsi", "rdx", "r10", "r8", "r9">>, ret  |-> "rax",
   knum |-> "rax", kargs |-> <<"rdi", "rsi", "rdx", "r10", "r8", "r9">>, kret |-> "rax",
   changed |-> {"rax", "rcx", "r11", "cc"}, lost |-> {"rcx", "r11"}, flag |-> NoFlag]

\* The sixth argument is in memory, where the compiler may address it through esp, and
\* goes through ebp, which may be the frame pointer.
i386 ==
  [name |-> "i386",
   num  |-> "eax", args  |-> <<"ebx", "ecx", "edx", "esi", "edi", Memory>>, ret  |-> "eax",
   knum |-> "eax", kargs |-> <<"ebx", "ecx", "edx", "esi", "edi", "ebp">>, kret |-> "eax",
   changed |-> {"eax", "cc"}, lost |-> {}, flag |-> NoFlag]

arm ==
  [name |-> "arm",
   num  |-> "r7", args  |-> <<"r0", "r1", "r2", "r3", "r4", "r5">>, ret  |-> "r0",
   knum |-> "r7", kargs |-> <<"r0", "r1", "r2", "r3", "r4", "r5">>, kret |-> "r0",
   changed |-> {"r0", "r7", "lr", "cc"}, lost |-> {"lr"}, flag |-> NoFlag]

\* In Thumb mode r7 is the frame pointer, and the number comes in r6.
thumb ==
  [name |-> "thumb",
   num  |-> "r6", args  |-> <<"r0", "r1", "r2", "r3", "r4", "r5">>, ret  |-> "r0",
   knum |-> "r7", kargs |-> <<"r0", "r1", "r2", "r3", "r4", "r5">>, kret |-> "r0",
   changed |-> {"r0", "r6", "lr", "cc"}, lost |-> {"lr"}, flag |-> NoFlag]

aarch64 ==
  [name |-> "aarch64",
   num  |-> "x8", args  |-> <<"x0", "x1", "x2", "x3", "x4", "x5">>, ret  |-> "x0",
   knum |-> "x8", kargs |-> <<"x0", "x1", "x2", "x3", "x4", "x5">>, kret |-> "x0",
   changed |-> {"x0", "cc"}, lost |-> {}, flag |-> NoFlag]

MipsTemporaries == {"t0", "t1", "t2", "t3", "t4", "t5", "t6", "t7", "t8", "t9"}

\* The kernel takes the fifth and sixth argument from the stack; the macros have
\* them in registers of the compiler's choice, here s0 and s1.
mips ==
  [name |-> "mips",
   num  |-> "v0", args  |-> <<"a0", "a1", "a2", "a3", "s0", "s1">>, ret  |-> "v0",
   knum |-> "v0", kargs |-> <<"a0", "a1", "a2", "a3">>, kret |-> "v0",
   changed |-> {"v0", "a3", "at", "v1", "hi", "lo", "cc"} \cup MipsTemporaries,
   lost |-> {"at", "v1", "hi", "lo"} \cup MipsTemporaries, flag |-> "a3"]

powerpc ==
  [name |-> "powerpc",
   num  |-> "r0", args  |-> <<"r3", "r4", "r5", "r6", "r7", "r8">>, ret  |-> "r3",
   knum |-> "r0", kargs |-> <<"r3", "r4", "r5", "r6", "r7", "r8">>, kret |-> "r3",
   changed |-> {"r0", "r3", "r4", "r5", "r6", "r7", "r8", "r9", "r10", "r11", "r12", "cr0"},
   lost |-> {"r4", "r5", "r6", "r7", "r8", "r9", "r10", "r11", "r12"}, flag |-> "cr0"]

riscv ==
  [name |-> "riscv",
   num  |-> "a7", args  |-> <<"a0", "a1", "a2", "a3", "a4", "a5">>, ret  |-> "a0",
   knum |-> "a7", kargs |-> <<"a0", "a1", "a2", "a3", "a4", "a5">>, kret |-> "a0",
   changed |-> {"a0", "cc"}, lost |-> {}, flag |-> NoFlag]

s390 ==
  [name |-> "s390",
   num  |-> "r1", args  |-> <<"r2", "r3", "r4", "r5", "r6", "r7">>, ret  |-> "r2",
   knum |-> "r1", kargs |-> <<"r2", "r3", "r4", "r5", "r6", "r7">>, kret |-> "r2",
   changed |-> {"r2", "cc"}, lost |-> {"r1"}, flag |-> NoFlag]

LoongarchTemporaries == {"t0", "t1", "t2", "t3", "t4", "t5", "t6", "t7", "t8"}

loongarch ==
  [name |-> "loongarch",
   num  |-> "a7", args  |-> <<"a0", "a1", "a2", "a3", "a4", "a5">>, ret  |-> "a0",
   knum |-> "a7", kargs |-> <<"a0", "a1", "a2", "a3", "a4", "a5">>, kret |-> "a0",
   changed |-> {"a0"} \cup LoongarchTemporaries, lost |-> LoongarchTemporaries,
   flag |-> NoFlag]

sparc ==
  [name |-> "sparc",
   num  |-> "g1", args  |-> <<"o0", "o1", "o2", "o3", "o4", "o5">>, ret  |-> "o0",
   knum |-> "g1", kargs |-> <<"o0", "o1", "o2", "o3", "o4", "o5">>, kret |-> "o0",
   changed |-> {"o0", "cc"}, lost |-> {}, flag |-> "cc"]

m68k ==
  [name |-> "m68k",
   num  |-> "d0", args  |-> <<"d1", "d2", "d3", "d4", "d5", "a0">>, ret  |-> "d0",
   knum |-> "d0", kargs |-> <<"d1", "d2", "d3", "d4", "d5", "a0">>, kret |-> "d0",
   changed |-> {"d0"}, lost |-> {}, flag |-> NoFlag]

Supported == {x86_64, i386, arm, thumb, aarch64, mips, powerpc, riscv, s390, loongarch, sparc,
              m68k}

ASSUME SyscallAssumption ==
  /\ Arch \subseteq Supported
  /\ WordSize \in Nat /\ MaxErrno \in Nat /\ MaxSignals \in Nat
  /\ WordSize % 2 = 0 /\ 0 < MaxErrno /\ MaxErrno < WordSize \div 2
  /\ IntResult \subseteq 0 .. (WordSize \div 2 - 1)
  /\ PtrResult \subseteq 0 .. (WordSize - MaxErrno - 1)
  /\ Error \subseteq 1 .. MaxErrno

\* Mutants of Before: the arguments are stored before the frame is there; the
\* frame pointer is not saved, or is saved before the sixth argument is read, which is
\* then no longer where esp tells.
BeforeTooEarly(a, n) ==
  CASE a.name = "mips"  -> (IF n >= 5 THEN <<Save(a.args[5], -4)>> ELSE <<>>)
                             \o (IF n >= 6 THEN <<Save(a.args[6], -3)>> ELSE <<>>)
                             \o <<MoveSp(-8)>>
    [] a.name = "thumb" -> <<Swap("r7", "r6")>>
    [] a.name = "i386" /\ n = 6 -> <<PushAt(0), Push("ebp"), Load("ebp", 1)>>
    [] OTHER -> <<>>

BeforeMoves(a, n) ==
  CASE a.name = "mips"  -> <<MoveSp(-8)>>
                             \o (IF n >= 5 THEN <<Save(a.args[5], 4)>> ELSE <<>>)
                             \o (IF n >= 6 THEN <<Save(a.args[6], 5)>> ELSE <<>>)
    [] a.name = "thumb" -> <<Move("r7", "r6")>>
    [] a.name = "i386" /\ n = 6 -> <<PushAt(0), Push("ebp"), Load("ebp", 1)>>
    [] OTHER -> <<>>

BeforeSavesFirst(a, n) ==
  CASE a.name = "mips"  -> <<MoveSp(-8)>>
                             \o (IF n >= 5 THEN <<Save(a.args[5], 4)>> ELSE <<>>)
                             \o (IF n >= 6 THEN <<Save(a.args[6], 5)>> ELSE <<>>)
    [] a.name = "thumb" -> <<Swap("r7", "r6")>>
    [] a.name = "i386" /\ n = 6 -> <<Push("ebp"), PushAt(0), Load("ebp", 0)>>
    [] OTHER -> <<>>

\* What the asm statement for n arguments runs before the trap.
Before(a, n) ==
  CASE a.name = "mips"  -> <<MoveSp(-8)>>
                             \o (IF n >= 5 THEN <<Save(a.args[5], 4)>> ELSE <<>>)
                             \o (IF n >= 6 THEN <<Save(a.args[6], 5)>> ELSE <<>>)
    [] a.name = "thumb" -> <<Swap("r7", "r6")>>
    [] a.name = "i386" /\ n = 6 -> <<PushAt(0), Push("ebp"), Load("ebp", 1)>>
    [] OTHER -> <<>>

\* Mutant of After: the flag is not looked at.
AfterUnchecked(a, n) ==
  CASE a.name = "mips"    -> <<MoveSp(8)>>
    [] a.name = "thumb"   -> <<Move("r7", "r6")>>
    [] a.name = "i386" /\ n = 6 -> <<Pop("ebp"), MoveSp(1)>>
    [] OTHER -> <<>>

\* And after it.  The macros of mips negate v0 in C.
After(a, n) ==
  CASE a.name = "mips"    -> <<MoveSp(8), NegIf("v0", "a3")>>
    [] a.name = "thumb"   -> <<Move("r7", "r6")>>
    [] a.name = "powerpc" -> <<NegIf("r3", "cr0")>>
    [] a.name = "sparc"   -> <<NegIf("o0", "cc")>>
    [] a.name = "i386" /\ n = 6 -> <<Pop("ebp"), MoveSp(1)>>
    [] OTHER -> <<>>

-----------------------------------------------------------------------------
(* The machine.                                                            *)

VARIABLES
  arch,     \* the architecture
  call,     \* the call in progress: its number of arguments and type of result
  code,     \* the instructions of it that are left; <<>> between two calls
  regs,     \* what the registers hold
  stack, sp,
  given,    \* what they held when the call started
  got,      \* the arguments the kernel was given, argument 0 being the number
  answer,   \* its answer: an error number or 0, and a result
  ret,      \* what the last call returned to the program
  errno,
  signals

vars == <<arch, call, code, regs, stack, sp, given, got, answer, ret, errno, signals>>

\* What a register or a word of the stack may hold: a value the program keeps
\* there, an argument, a word, or something else.
Kept(r)     == <<"kept", r>>
Argument(i) == <<"argument", i>>
Val(n)      == <<"word", n>>
Garbage     == <<"garbage", 0>>

RangeOf(s)  == {s[i] : i \in DOMAIN s}
Register(a) == ({a.num, a.knum, a.ret, a.flag} \cup RangeOf(a.args) \cup RangeOf(a.kargs)
                  \cup a.changed \cup a.lost) \ {NoFlag, Memory}

Top       == 9                        \* sp between two calls; above it, the frame
StackAddr == 0 .. (Top + 1)           \* of the caller
Frame     == {b \in StackAddr : b >= Top}

\* What the compiler has there: values of its own and the argument that is in memory.
FrameWord(a, n, b) ==
  IF b = Top /\ n = 6 /\ a.args[6] = Memory THEN Argument(6) ELSE Kept(b)

Minus(n) == (WordSize - n) % WordSize
Negative(n) == n >= WordSize \div 2

Idle == code = <<>>

\* my_syscall<n>() for a system call whose result is an int or a pointer.
Call(n, type) ==
  /\ Idle
  /\ call' = [n |-> n, type |-> type]
  /\ code' = Before(arch, n) \o <<Trap>> \o After(arch, n) \o <<Ret>>
  /\ regs' = [r \in Register(arch) |->
                IF r = arch.num THEN Argument(0)
                ELSE IF \E i \in 1 .. n : arch.args[i] = r
                       THEN Argument(CHOOSE i \in 1 .. n : arch.args[i] = r)
                ELSE Kept(r)]
  /\ given' = regs'
  /\ stack' = [b \in StackAddr |-> IF b \in Frame THEN FrameWord(arch, n, b) ELSE stack[b]]
  /\ got' = <<>>
  /\ UNCHANGED <<arch, sp, answer, ret, errno, signals>>

Goes(op) == ~Idle /\ Head(code).op = op /\ code' = Tail(code)

Instruction ==
  LET i == Head(code)
      quiet == UNCHANGED <<arch, call, given, got, answer, ret, errno, signals>>
  IN  \/ /\ Goes("push") /\ quiet
         /\ sp' = sp - 1 /\ stack' = [stack EXCEPT ![sp - 1] = regs[i.reg]]
         /\ UNCHANGED regs
      \/ /\ Goes("pushat") /\ quiet
         /\ sp' = sp - 1 /\ stack' = [stack EXCEPT ![sp - 1] = stack[sp + i.off]]
         /\ UNCHANGED regs
      \/ /\ Goes("pop") /\ quiet
         /\ sp' = sp + 1 /\ regs' = [regs EXCEPT ![i.reg] = stack[sp]]
         /\ UNCHANGED stack
      \/ /\ Goes("load") /\ quiet
         /\ regs' = [regs EXCEPT ![i.reg] = stack[sp + i.off]]
         /\ UNCHANGED <<stack, sp>>
      \/ /\ Goes("save") /\ quiet
         /\ stack' = [stack EXCEPT ![sp + i.off] = regs[i.reg]]
         /\ UNCHANGED <<regs, sp>>
      \/ /\ Goes("movesp") /\ quiet
         /\ sp' = sp + i.off
         /\ UNCHANGED <<regs, stack>>
      \/ /\ Goes("swap") /\ quiet
         /\ regs' = [regs EXCEPT ![i.reg] = regs[i.with], ![i.with] = regs[i.reg]]
         /\ UNCHANGED <<stack, sp>>
      \/ /\ Goes("move") /\ quiet
         /\ regs' = [regs EXCEPT ![i.reg] = regs[i.with]]
         /\ UNCHANGED <<stack, sp>>
      \/ /\ Goes("negif") /\ quiet
         /\ regs' = [regs EXCEPT ![i.reg] = IF regs[i.with] = Val(1) THEN Val(Minus(@[2]))
                                            ELSE @]
         /\ UNCHANGED <<stack, sp>>

\* Where the kernel finds argument i: the number, a register, or the stack.
KernelArg(i) ==
  IF i = 0 THEN regs[arch.knum]
  ELSE IF i <= Len(arch.kargs) THEN regs[arch.kargs[i]]
  ELSE stack[sp + i - 1]

\* The kernel answers with an error number or with a result of the type of the
\* call.  On mips it may use the stack to save a0 to a3.
KernelAnswers(error, result) ==
  LET value == IF error = 0 THEN result ELSE IF arch.flag = NoFlag THEN Minus(error) ELSE error
  IN  /\ Goes("trap")
      /\ got' = [i \in 0 .. call.n |-> KernelArg(i)]
      /\ answer' = [error |-> error, result |-> result]
      /\ regs' = [r \in DOMAIN regs |->
                    CASE r = arch.kret -> Val(value)
                      [] r = arch.flag -> Val(IF error = 0 THEN 0 ELSE 1)
                      [] r \in arch.lost -> Garbage
                      [] OTHER -> regs[r]]
      /\ stack' = [b \in StackAddr |->
                     IF arch.name = "mips" /\ b \in sp .. (sp + 3) THEN Garbage ELSE stack[b]]
      /\ UNCHANGED <<arch, call, sp, given, ret, errno, signals>>

\* A handler runs on the stack below sp, and leaves all the registers alone.
Signal ==
  /\ ~Idle
  /\ signals < MaxSignals
  /\ signals' = signals + 1
  /\ stack' = [b \in StackAddr |-> IF b < sp THEN Garbage ELSE stack[b]]
  /\ UNCHANGED <<arch, call, code, regs, sp, given, got, answer, ret, errno>>

\* __sysret() takes all negative numbers for errors, mmap() and mremap() only
\* the last MaxErrno addresses.
IsError(type, value) ==
  IF type = "int" THEN Negative(value) ELSE value >= WordSize - MaxErrno

\* Mutant of ErrorNumber: the sign stays.
ErrorNumberSigned(value) == value

ErrorNumber(value) == Minus(value)

Return ==
  LET value == regs[arch.ret][2]
  IN  /\ Goes("ret")
      /\ IF IsError(call.type, value)
           THEN ret' = WordSize - 1 /\ errno' = ErrorNumber(value)
           ELSE ret' = value /\ UNCHANGED errno
      /\ UNCHANGED <<arch, call, regs, stack, sp, given, got, answer, signals>>

ClearErrno ==
  /\ Idle
  /\ errno' = 0
  /\ UNCHANGED <<arch, call, code, regs, stack, sp, given, got, answer, ret, signals>>

Init ==
  /\ arch \in Arch
  /\ call = [n |-> 0, type |-> "int"] /\ code = <<>>
  /\ regs = [r \in Register(arch) |-> Kept(r)] /\ given = regs
  /\ stack = [b \in StackAddr |-> Kept(b)] /\ sp = Top
  /\ got = <<>> /\ answer = [error |-> 0, result |-> 0]
  /\ ret = 0 /\ errno = 0 /\ signals = 0

Next ==
  \/ \E n \in 0 .. 6, type \in {"int", "ptr"} : Call(n, type)
  \/ Instruction
  \/ \E error \in Error : KernelAnswers(error, 0)
  \/ \E result \in (IF call.type = "int" THEN IntResult ELSE PtrResult) :
       KernelAnswers(0, result)
  \/ Signal
  \/ Return
  \/ ClearErrno

Spec == Init /\ [][Next]_vars

-----------------------------------------------------------------------------
(* Properties.                                                             *)

TypeOK ==
  /\ arch \in Arch
  /\ call \in [n : 0 .. 6, type : {"int", "ptr"}]
  /\ DOMAIN regs = Register(arch) /\ DOMAIN given = Register(arch)
  /\ DOMAIN stack = StackAddr /\ sp \in StackAddr
  /\ answer \in [error : Error \cup {0}, result : IntResult \cup PtrResult \cup {0}]
  /\ ret \in 0 .. (WordSize - 1)
  /\ errno \in 0 .. MaxErrno
  /\ signals \in 0 .. MaxSignals

\* The kernel is given the number and the arguments of the call, each in its
\* place, with a signal at any moment: none was left where a handler writes, or
\* moved away by the instructions before the trap.
ArgumentsArrive ==
  got # <<>> => \A i \in 0 .. call.n : got[i] = Argument(i)

\* After the asm statement the registers that it does not name as changed, those
\* of the arguments among them, and the stack hold what the compiler has in them:
\* the frame pointer that i386 and Thumb use on the way has come back.
CompilerKeepsValues ==
  Idle =>
    /\ \A r \in Register(arch) \ (arch.changed \cup ({arch.num} \cap arch.lost)) :
         regs[r] = given[r]
    /\ sp = Top /\ \A b \in Frame : stack[b] = FrameWord(arch, call.n, b)

\* "r1 and r2 are clobbered": the register of the number too holds what the
\* compiler has in it, unless the asm statement names it as changed.
NumberKept ==
  Idle /\ arch.num \notin arch.changed => regs[arch.num] = given[arch.num]

\* A call returns -1 if and only if the kernel refused it, with the error of the
\* kernel in errno, or else the result of the kernel, on the architectures that
\* tell the two apart by the sign and on those with a flag; addresses with the
\* highest bit set are results.
RefusedMeansMinusOne ==
  Idle /\ got # <<>> =>
    IF answer.error # 0
      THEN ret = WordSize - 1 /\ errno \in {answer.error, 0}
      ELSE ret = answer.result /\ ret # WordSize - 1
=============================================================================
