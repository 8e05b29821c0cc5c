---------------------------- MODULE SyscallProofs ----------------------------
(* Proofs about the macros of the architectures, for words of any size, any    *)
(* results and errors of the kernel, and any number of signals.                *)
EXTENDS Syscall, SequenceTheorems, TLAPS

-----------------------------------------------------------------------------
(* The places of a call.                                                   *)

Flagged(a) == a.name \in {"mips", "powerpc", "sparc"}

\* No instruction of these macros touches a register before the trap.
Plain(a, n) == a.name \notin {"mips", "thumb"} /\ ~(a.name = "i386" /\ n = 6)

\* What the macros and the compiler have put into the registers.
GivenOK ==
  given = [r \in Register(arch) |->
             IF r = arch.num THEN Argument(0)
             ELSE IF \E i \in 1 .. call.n : arch.args[i] = r
                    THEN Argument(CHOOSE i \in 1 .. call.n : arch.args[i] = r)
             ELSE Kept(r)]

AnswerOK ==
  \/ answer.error \in Error /\ answer.result = 0
  \/ answer.error = 0 /\ answer.result \in (IF call.type = "int" THEN IntResult ELSE PtrResult)

Arrived == \A i \in 0 .. call.n : got[i] = Argument(i)

FrameKept == \A b \in Frame : stack[b] = FrameWord(arch, call.n, b)

\* The registers the compiler relies on, but for those in R.
KeptBut(R) == \A r \in Register(arch) \ (arch.changed \cup ({arch.num} \cap arch.lost) \cup R) :
                regs[r] = given[r]

\* The answer as the kernel gives it, and with the sign that __sysret() looks at.
Raw ==
  /\ regs[arch.ret] = Val(IF answer.error = 0 THEN answer.result ELSE answer.error)
  /\ regs[arch.flag] = Val(IF answer.error = 0 THEN 0 ELSE 1)

Signed ==
  regs[arch.ret] = Val(IF answer.error = 0 THEN answer.result ELSE Minus(answer.error))

At(c, s) == code = c /\ sp = s

Negate == NegIf(arch.ret, arch.flag)

PlainTraps ==
  /\ Plain(arch, call.n) /\ regs = given
  /\ \/ ~Flagged(arch) /\ At(<<Trap, Ret>>, Top)
     \/ Flagged(arch) /\ At(<<Trap, Negate, Ret>>, Top)

ThumbSwaps ==
  /\ arch = thumb /\ regs = given
  /\ At(<<Swap("r7", "r6"), Trap, Move("r7", "r6"), Ret>>, Top)

ThumbTraps ==
  /\ arch = thumb /\ At(<<Trap, Move("r7", "r6"), Ret>>, Top)
  /\ regs["r6"] = given["r7"] /\ regs["r7"] = given["r6"]
  /\ \A r \in Register(thumb) \ {"r6", "r7"} : regs[r] = given[r]

ThumbMoves ==
  /\ arch = thumb /\ At(<<Move("r7", "r6"), Ret>>, Top)
  /\ KeptBut({"r7"}) /\ regs["r6"] = given["r7"] /\ Signed

\* The frame of the macros of mips, with room for the registers of the arguments.
MipsFrame == Top - 8

MipsBegins ==
  /\ arch = mips /\ regs = given
  /\ \/ call.n < 5 /\ At(<<MoveSp(-8), Trap, MoveSp(8), Negate, Ret>>, Top)
     \/ call.n = 5 /\ At(<<MoveSp(-8), Save("s0", 4), Trap, MoveSp(8), Negate, Ret>>, Top)
     \/ call.n = 6 /\ At(<<MoveSp(-8), Save("s0", 4), Save("s1", 5), Trap, MoveSp(8), Negate,
                           Ret>>, Top)

MipsSaves ==
  /\ arch = mips /\ regs = given
  /\ \/ call.n = 5 /\ At(<<Save("s0", 4), Trap, MoveSp(8), Negate, Ret>>, MipsFrame)
     \/ call.n = 6 /\ At(<<Save("s0", 4), Save("s1", 5), Trap, MoveSp(8), Negate, Ret>>, MipsFrame)
     \/ /\ call.n = 6 /\ At(<<Save("s1", 5), Trap, MoveSp(8), Negate, Ret>>, MipsFrame)
        /\ stack[MipsFrame + 4] = given["s0"]

MipsTraps ==
  /\ arch = mips /\ regs = given
  /\ At(<<Trap, MoveSp(8), Negate, Ret>>, MipsFrame)
  /\ call.n >= 5 => stack[MipsFrame + 4] = given["s0"]
  /\ call.n >= 6 => stack[MipsFrame + 5] = given["s1"]

MipsLeaves ==
  arch = mips /\ At(<<MoveSp(8), Negate, Ret>>, MipsFrame) /\ KeptBut({}) /\ Raw

I386Pushes ==
  /\ arch = i386 /\ call.n = 6 /\ regs = given
  /\ \/ At(<<PushAt(0), Push("ebp"), Load("ebp", 1), Trap, Pop("ebp"), MoveSp(1), Ret>>, Top)
     \/ /\ At(<<Push("ebp"), Load("ebp", 1), Trap, Pop("ebp"), MoveSp(1), Ret>>, Top - 1)
        /\ stack[Top - 1] = Argument(6)
     \/ /\ At(<<Load("ebp", 1), Trap, Pop("ebp"), MoveSp(1), Ret>>, Top - 2)
        /\ stack[Top - 1] = Argument(6) /\ stack[Top - 2] = given["ebp"]

I386Traps ==
  /\ arch = i386 /\ call.n = 6
  /\ At(<<Trap, Pop("ebp"), MoveSp(1), Ret>>, Top - 2)
  /\ regs["ebp"] = Argument(6) /\ stack[Top - 2] = given["ebp"]
  /\ \A r \in Register(i386) \ {"ebp"} : regs[r] = given[r]

I386Pops ==
  /\ arch = i386
  /\ \/ /\ At(<<Pop("ebp"), MoveSp(1), Ret>>, Top - 2)
        /\ KeptBut({"ebp"}) /\ stack[Top - 2] = given["ebp"]
     \/ At(<<MoveSp(1), Ret>>, Top - 1) /\ KeptBut({})
  /\ Signed

Negates == Flagged(arch) /\ At(<<Negate, Ret>>, Top) /\ KeptBut({}) /\ Raw

Returns == At(<<Ret>>, Top) /\ KeptBut({}) /\ Signed

-----------------------------------------------------------------------------
(* The inductive invariant.                                                *)

BeforeTrap ==
  /\ got = <<>> /\ GivenOK
  /\ \/ PlainTraps \/ ThumbSwaps \/ ThumbTraps \/ MipsBegins \/ MipsSaves \/ MipsTraps
     \/ I386Pushes \/ I386Traps

BehindTrap ==
  /\ \/ ThumbMoves \/ MipsLeaves \/ I386Pops \/ Negates \/ Returns
  /\ Arrived /\ AnswerOK

Told ==
  IF answer.error # 0
    THEN ret = WordSize - 1 /\ errno \in {answer.error, 0}
    ELSE ret = answer.result /\ ret # WordSize - 1

AtRest ==
  /\ At(<<>>, Top) /\ KeptBut({})
  /\ got # <<>> => Arrived /\ Told

SyscallInv == TypeOK /\ FrameKept /\ (BeforeTrap \/ BehindTrap \/ AtRest)

-----------------------------------------------------------------------------
(* Facts about the architectures.                                          *)

\* The registers of the macros are where the proofs need them.
Described(a) ==
  /\ Len(a.args) = 6 /\ DOMAIN a.args = 1 .. 6
  /\ \A i \in 1 .. 6 : /\ a.args[i] \in Register(a) \/ (i = 6 /\ a.name = "i386")
                       /\ a.args[i] # a.num
  /\ \A i, j \in 1 .. 6 : a.args[i] = a.args[j] => i = j
  /\ a.num \in Register(a) /\ a.ret \in Register(a) /\ a.kret = a.ret
  /\ a.ret \in a.changed /\ a.ret \notin a.lost /\ a.lost \subseteq a.changed \cup {a.num}
  /\ a.flag # a.ret /\ a.flag \notin a.lost
  /\ a.flag = NoFlag \/ (a.flag \in a.changed /\ a.flag \in Register(a))
  /\ a.flag # NoFlag <=> Flagged(a)

LEMMA SupportedDescribed == \A a \in Supported : Described(a)
  <1> USE DEF Described, Register, RangeOf, NoFlag, Memory, Flagged
  <1>1. Described(x86_64)
    BY SMT DEF x86_64
  <1>2. Described(i386)
    BY SMT DEF i386
  <1>3. Described(arm)
    BY SMT DEF arm
  <1>4. Described(thumb)
    BY SMT DEF thumb
  <1>5. Described(aarch64)
    BY SMT DEF aarch64
  <1>6. Described(mips)
    BY SMT DEF mips, MipsTemporaries
  <1>7. Described(powerpc)
    BY SMT DEF powerpc
  <1>8. Described(riscv)
    BY SMT DEF riscv
  <1>9. Described(s390)
    BY SMT DEF s390
  <1>10. Described(loongarch)
    BY SMT DEF loongarch, LoongarchTemporaries
  <1>11. Described(sparc)
    BY SMT DEF sparc
  <1>12. Described(m68k)
    BY SMT DEF m68k
  <1> HIDE DEF Described
  <1>13. QED
    BY <1>1, <1>2, <1>3, <1>4, <1>5, <1>6, <1>7, <1>8, <1>9, <1>10, <1>11, <1>12 DEF Supported

\* Where the kernel finds what the macros have put there, if nothing has moved.
LEMMA SamePlaces ==
  /\ \A a \in Supported : a.name \notin {"mips", "thumb"} => a.knum = a.num
  /\ \A a \in Supported : a.name \notin {"mips", "thumb", "i386"} => a.kargs = a.args
  /\ \A a \in Supported : (a.name = "mips" => a = mips) /\ (a.name = "thumb" => a = thumb)
                          /\ (a.name = "i386" => a = i386)
  BY DEF Supported, x86_64, i386, arm, thumb, aarch64, mips, powerpc, riscv, s390, loongarch,
         sparc, m68k

-----------------------------------------------------------------------------
(* The code of a call.                                                     *)

\* Two sequences in a row: the first, and behind its length the other.
IsRow(u, s, t) ==
  /\ Len(u) = Len(s) + Len(t)
  /\ \A i \in 1 .. Len(s) : u[i] = s[i]
  /\ \A i \in 1 .. Len(t) : u[Len(s) + i] = t[i]

LEMMA InARow ==
  ASSUME NEW S, NEW s \in Seq(S), NEW t \in Seq(S), NEW u \in Seq(S), IsRow(u, s, t)
  PROVE  s \o t = u
  <1> DEFINE c == s \o t
             m == Len(s)
             n == Len(t)
  <1>1. m \in Nat /\ n \in Nat
    BY LenProperties
  <1>2. /\ c \in Seq(S) /\ Len(c) = m + n
        /\ \A i \in 1 .. m + n : c[i] = IF i <= m THEN s[i] ELSE t[i - m]
    BY ConcatProperties
  <1>3. /\ Len(u) = m + n
        /\ \A i \in 1 .. m : u[i] = s[i]
        /\ \A i \in 1 .. n : u[m + i] = t[i]
    BY DEF IsRow
  <1> HIDE DEF c, m, n
  <1>4. ASSUME NEW i \in 1 .. m + n PROVE c[i] = u[i]
    <2>1. i \in 1 .. m \/ (~(i <= m) /\ i - m \in 1 .. n /\ m + (i - m) = i)
      BY <1>1, SMT
    <2>2. i \in 1 .. m => i <= m
      BY <1>1, SMT
    <2>3. QED
      BY <1>2, <1>3, <2>1, <2>2
  <1>5. QED
    BY <1>2, <1>3, <1>4, SeqEqual DEF c

\* The parts of the code of a call in a row.
LEMMA Rows ==
  /\ \A x, y : <<x>> \o <<y>> = <<x, y>>
  /\ \A x, y, z : <<x, y>> \o <<z>> = <<x, y, z>>
  /\ \A x, y, z, u : <<x, y, z>> \o <<u>> = <<x, y, z, u>>
  /\ \A x, y, z, u, v : <<x, y, z, u>> \o <<v>> = <<x, y, z, u, v>>
  /\ \A x, y, z, u, v, w : <<x, y, z, u, v>> \o <<w>> = <<x, y, z, u, v, w>>
  /\ \A x, y, z, u, v, w, t : <<x, y, z, u, v, w>> \o <<t>> = <<x, y, z, u, v, w, t>>
  /\ \A x, y, z, u : <<x, y>> \o <<z, u>> = <<x, y, z, u>>
  /\ \A x, y, z, u, v : <<x, y, z>> \o <<u, v>> = <<x, y, z, u, v>>
  /\ \A x, y, z, u, v, w : <<x, y, z, u>> \o <<v, w>> = <<x, y, z, u, v, w>>
  <1>1. \A x, y : <<x>> \o <<y>> = <<x, y>>
    <2> TAKE x, y
    <2> DEFINE S == {x, y}
               a == <<x>>
               b == <<y>>
               c == <<x, y>>
    <2>1. a \in Seq(S) /\ b \in Seq(S) /\ c \in Seq(S)
      BY SMT
    <2>2. IsRow(c, a, b)
      <3>1. /\ Len(c) = 2 /\ Len(a) = 1 /\ Len(b) = 1
            /\ c[1] = x /\ c[2] = y /\ a[1] = x /\ b[1] = y
        BY SMT
      <3> HIDE DEF a, b, c
      <3>2. QED
        BY <3>1, SMT DEF IsRow
    <2> HIDE DEF S, a, b, c
    <2>3. a \o b = c
      BY <2>1, <2>2, InARow
    <2>4. QED
      BY <2>3 DEF a, b, c
  <1>2. \A x, y, z : <<x, y>> \o <<z>> = <<x, y, z>>
    <2> TAKE x, y, z
    <2> DEFINE S == {x, y, z}
               a == <<x, y>>
               b == <<z>>
               c == <<x, y, z>>
    <2>1. a \in Seq(S) /\ b \in Seq(S) /\ c \in Seq(S)
      BY SMT
    <2>2. IsRow(c, a, b)
      BY SMT DEF IsRow
    <2> HIDE DEF S, a, b, c
    <2>3. a \o b = c
      BY <2>1, <2>2, InARow
    <2>4. QED
      BY <2>3 DEF a, b, c
  <1>3. \A x, y, z, u : <<x, y, z>> \o <<u>> = <<x, y, z, u>>
    <2> TAKE x, y, z, u
    <2> DEFINE S == {x, y, z, u}
               a == <<x, y, z>>
               b == <<u>>
               c == <<x, y, z, u>>
    <2>1. a \in Seq(S) /\ b \in Seq(S) /\ c \in Seq(S)
      BY SMT
    <2>2. IsRow(c, a, b)
      BY SMT DEF IsRow
    <2> HIDE DEF S, a, b, c
    <2>3. a \o b = c
      BY <2>1, <2>2, InARow
    <2>4. QED
      BY <2>3 DEF a, b, c
  <1>4. \A x, y, z, u, v : <<x, y, z, u>> \o <<v>> = <<x, y, z, u, v>>
    <2> TAKE x, y, z, u, v
    <2> DEFINE S == {x, y, z, u, v}
               a == <<x, y, z, u>>
               b == <<v>>
               c == <<x, y, z, u, v>>
    <2>1. a \in Seq(S) /\ b \in Seq(S) /\ c \in Seq(S)
      BY SMT
    <2>2. IsRow(c, a, b)
      BY SMT DEF IsRow
    <2> HIDE DEF S, a, b, c
    <2>3. a \o b = c
      BY <2>1, <2>2, InARow
    <2>4. QED
      BY <2>3 DEF a, b, c
  <1>5. \A x, y, z, u, v, w : <<x, y, z, u, v>> \o <<w>> = <<x, y, z, u, v, w>>
    <2> TAKE x, y, z, u, v, w
    <2> DEFINE S == {x, y, z, u, v, w}
               a == <<x, y, z, u, v>>
               b == <<w>>
               c == <<x, y, z, u, v, w>>
    <2>1. a \in Seq(S) /\ b \in Seq(S) /\ c \in Seq(S)
      BY SMT
    <2>2. IsRow(c, a, b)
      BY SMT DEF IsRow
    <2> HIDE DEF S, a, b, c
    <2>3. a \o b = c
      BY <2>1, <2>2, InARow
    <2>4. QED
      BY <2>3 DEF a, b, c
  <1>6. \A x, y, z, u, v, w, t : <<x, y, z, u, v, w>> \o <<t>> = <<x, y, z, u, v, w, t>>
    <2> TAKE x, y, z, u, v, w, t
    <2> DEFINE S == {x, y, z, u, v, w, t}
               a == <<x, y, z, u, v, w>>
               b == <<t>>
               c == <<x, y, z, u, v, w, t>>
    <2>1. a \in Seq(S) /\ b \in Seq(S) /\ c \in Seq(S)
      BY SMT
    <2>2. IsRow(c, a, b)
      BY SMT DEF IsRow
    <2> HIDE DEF S, a, b, c
    <2>3. a \o b = c
      BY <2>1, <2>2, InARow
    <2>4. QED
      BY <2>3 DEF a, b, c
  <1>7. \A x, y, z, u : <<x, y>> \o <<z, u>> = <<x, y, z, u>>
    <2> TAKE x, y, z, u
    <2> DEFINE S == {x, y, z, u}
               a == <<x, y>>
               b == <<z, u>>
               c == <<x, y, z, u>>
    <2>1. a \in Seq(S) /\ b \in Seq(S) /\ c \in Seq(S)
      BY SMT
    <2>2. IsRow(c, a, b)
      BY SMT DEF IsRow
    <2> HIDE DEF S, a, b, c
    <2>3. a \o b = c
      BY <2>1, <2>2, InARow
    <2>4. QED
      BY <2>3 DEF a, b, c
  <1>8. \A x, y, z, u, v : <<x, y, z>> \o <<u, v>> = <<x, y, z, u, v>>
    <2> TAKE x, y, z, u, v
    <2> DEFINE S == {x, y, z, u, v}
               a == <<x, y, z>>
               b == <<u, v>>
               c == <<x, y, z, u, v>>
    <2>1. a \in Seq(S) /\ b \in Seq(S) /\ c \in Seq(S)
      BY SMT
    <2>2. IsRow(c, a, b)
      BY SMT DEF IsRow
    <2> HIDE DEF S, a, b, c
    <2>3. a \o b = c
      BY <2>1, <2>2, InARow
    <2>4. QED
      BY <2>3 DEF a, b, c
  <1>9. \A x, y, z, u, v, w : <<x, y, z, u>> \o <<v, w>> = <<x, y, z, u, v, w>>
    <2> TAKE x, y, z, u, v, w
    <2> DEFINE S == {x, y, z, u, v, w}
               a == <<x, y, z, u>>
               b == <<v, w>>
               c == <<x, y, z, u, v, w>>
    <2>1. a \in Seq(S) /\ b \in Seq(S) /\ c \in Seq(S)
      BY SMT
    <2>2. IsRow(c, a, b)
      BY SMT DEF IsRow
    <2> HIDE DEF S, a, b, c
    <2>3. a \o b = c
      BY <2>1, <2>2, InARow
    <2>4. QED
      BY <2>3 DEF a, b, c
  <1>10. QED
    BY <1>1, <1>2, <1>3, <1>4, <1>5, <1>6, <1>7, <1>8, <1>9

\* What Call runs.
LEMMA CodeOf ==
  ASSUME NEW a \in Supported, NEW n \in 0 .. 6
  PROVE  LET c == Before(a, n) \o <<Trap>> \o After(a, n) \o <<Ret>>
             negate == NegIf(a.ret, a.flag)
         IN  /\ Plain(a, n) /\ ~Flagged(a) => c = <<Trap, Ret>>
             /\ Plain(a, n) /\ Flagged(a) => c = <<Trap, negate, Ret>>
             /\ a = thumb => c = <<Swap("r7", "r6"), Trap, Move("r7", "r6"), Ret>>
             /\ a = mips /\ n < 5 => c = <<MoveSp(-8), Trap, MoveSp(8), negate, Ret>>
             /\ a = mips /\ n = 5 => c = <<MoveSp(-8), Save("s0", 4), Trap, MoveSp(8), negate, Ret>>
             /\ a = mips /\ n = 6 =>
                  c = <<MoveSp(-8), Save("s0", 4), Save("s1", 5), Trap, MoveSp(8), negate, Ret>>
             /\ a = i386 /\ n = 6 =>
                  c = <<PushAt(0), Push("ebp"), Load("ebp", 1), Trap, Pop("ebp"), MoveSp(1), Ret>>
  <1> DEFINE c == Before(a, n) \o <<Trap>> \o After(a, n) \o <<Ret>>
             negate == NegIf(a.ret, a.flag)
  <1>1. \A x, y : /\ <<>> \o <<x>> = <<x>> /\ <<x>> \o <<>> = <<x>>
                  /\ <<x, y>> \o <<>> = <<x, y>>
    <2> TAKE x, y
    <2>1. <<x>> \in Seq({x, y}) /\ <<x, y>> \in Seq({x, y})
      BY SMT
    <2>2. QED
      BY <2>1, ConcatEmptySeq
  <1> HIDE DEF c
  <1>2. ASSUME Plain(a, n), ~Flagged(a) PROVE c = <<Trap, Ret>>
    <2>1. Before(a, n) = <<>> /\ After(a, n) = <<>>
      BY <1>2 DEF Plain, Flagged, Before, After
    <2>2. QED
      BY <2>1, <1>1, Rows DEF c
  <1>3. ASSUME Plain(a, n), Flagged(a) PROVE c = <<Trap, negate, Ret>>
    <2>1. Before(a, n) = <<>> /\ After(a, n) = <<negate>>
      BY <1>3 DEF Plain, Flagged, Before, After, Supported, powerpc, sparc, x86_64, i386, arm,
                  thumb, aarch64, mips, riscv, s390, loongarch, m68k
    <2>2. <<>> \o <<Trap>> = <<Trap>>
      BY <1>1
    <2>3. <<Trap>> \o <<negate>> = <<Trap, negate>>
      BY Rows
    <2>4. <<Trap, negate>> \o <<Ret>> = <<Trap, negate, Ret>>
      BY Rows
    <2>5. QED
      BY <2>1, <2>2, <2>3, <2>4 DEF c
  <1>4. ASSUME a = thumb PROVE c = <<Swap("r7", "r6"), Trap, Move("r7", "r6"), Ret>>
    <2>1. Before(a, n) = <<Swap("r7", "r6")>> /\ After(a, n) = <<Move("r7", "r6")>>
      BY <1>4 DEF Before, After, thumb
    <2>2. <<Swap("r7", "r6")>> \o <<Trap>> = <<Swap("r7", "r6"), Trap>>
      BY Rows
    <2>3. <<Swap("r7", "r6"), Trap>> \o <<Move("r7", "r6")>> = <<Swap("r7", "r6"), Trap, Move("r7", "r6")>>
      BY Rows
    <2>4. <<Swap("r7", "r6"), Trap, Move("r7", "r6")>> \o <<Ret>> = <<Swap("r7", "r6"), Trap, Move("r7", "r6"), Ret>>
      BY Rows
    <2>5. QED
      BY <2>1, <2>2, <2>3, <2>4 DEF c
  <1>5. ASSUME a = mips
        PROVE  /\ n < 5 => c = <<MoveSp(-8), Trap, MoveSp(8), negate, Ret>>
               /\ n = 5 => c = <<MoveSp(-8), Save("s0", 4), Trap, MoveSp(8), negate, Ret>>
               /\ n = 6 => c = <<MoveSp(-8), Save("s0", 4), Save("s1", 5), Trap, MoveSp(8),
                                 negate, Ret>>
    <2> DEFINE five == IF n >= 5 THEN <<Save("s0", 4)>> ELSE <<>>
               six  == IF n >= 6 THEN <<Save("s1", 5)>> ELSE <<>>
    <2>1. Before(a, n) = <<MoveSp(-8)>> \o five \o six /\ After(a, n) = <<MoveSp(8), negate>>
      <3>1. a.name = "mips" /\ a.args[5] = "s0" /\ a.args[6] = "s1" /\ a.ret = "v0" /\ a.flag = "a3"
        BY <1>5, SMT DEF mips
      <3>2. QED
        BY <3>1 DEF Before, After
    <2>2. c = <<MoveSp(-8)>> \o five \o six \o <<Trap>> \o <<MoveSp(8), negate>> \o <<Ret>>
      BY <2>1 DEF c
    <2>3. /\ n < 5 => five = <<>> /\ six = <<>>
          /\ n = 5 => five = <<Save("s0", 4)>> /\ six = <<>>
          /\ n = 6 => five = <<Save("s0", 4)>> /\ six = <<Save("s1", 5)>>
      BY SMT
    <2> HIDE DEF five, six
    <2>4. ASSUME n < 5
          PROVE  c = <<MoveSp(-8), Trap, MoveSp(8), negate, Ret>>
      <3>1. <<MoveSp(-8)>> \o <<>> = <<MoveSp(-8)>>
        BY <1>1
      <3>2. <<MoveSp(-8)>> \o <<>> = <<MoveSp(-8)>>
        BY <1>1
      <3>3. <<MoveSp(-8)>> \o <<Trap>> = <<MoveSp(-8), Trap>>
        BY Rows
      <3>4. <<MoveSp(-8), Trap>> \o <<MoveSp(8), negate>> = <<MoveSp(-8), Trap, MoveSp(8), negate>>
        BY Rows
      <3>5. <<MoveSp(-8), Trap, MoveSp(8), negate>> \o <<Ret>> = <<MoveSp(-8), Trap, MoveSp(8), negate, Ret>>
        BY Rows
      <3>6. five = <<>> /\ six = <<>>
        BY <2>3, <2>4
      <3>7. QED
        BY <2>2, <3>1, <3>2, <3>3, <3>4, <3>5, <3>6
    <2>5. ASSUME n = 5
          PROVE  c = <<MoveSp(-8), Save("s0", 4), Trap, MoveSp(8), negate, Ret>>
      <3>1. <<MoveSp(-8)>> \o <<Save("s0", 4)>> = <<MoveSp(-8), Save("s0", 4)>>
        BY Rows
      <3>2. <<MoveSp(-8), Save("s0", 4)>> \o <<>> = <<MoveSp(-8), Save("s0", 4)>>
        BY <1>1
      <3>3. <<MoveSp(-8), Save("s0", 4)>> \o <<Trap>> = <<MoveSp(-8), Save("s0", 4), Trap>>
        BY Rows
      <3>4. <<MoveSp(-8), Save("s0", 4), Trap>> \o <<MoveSp(8), negate>> = <<MoveSp(-8), Save("s0", 4), Trap, MoveSp(8), negate>>
        BY Rows
      <3>5. <<MoveSp(-8), Save("s0", 4), Trap, MoveSp(8), negate>> \o <<Ret>> = <<MoveSp(-8), Save("s0", 4), Trap, MoveSp(8), negate, Ret>>
        BY Rows
      <3>6. five = <<Save("s0", 4)>> /\ six = <<>>
        BY <2>3, <2>5
      <3>7. QED
        BY <2>2, <3>1, <3>2, <3>3, <3>4, <3>5, <3>6
    <2>6. ASSUME n = 6
          PROVE  c = <<MoveSp(-8), Save("s0", 4), Save("s1", 5), Trap, MoveSp(8), negate, Ret>>
      <3>1. <<MoveSp(-8)>> \o <<Save("s0", 4)>> = <<MoveSp(-8), Save("s0", 4)>>
        BY Rows
      <3>2. <<MoveSp(-8), Save("s0", 4)>> \o <<Save("s1", 5)>> = <<MoveSp(-8), Save("s0", 4), Save("s1", 5)>>
        BY Rows
      <3>3. <<MoveSp(-8), Save("s0", 4), Save("s1", 5)>> \o <<Trap>> = <<MoveSp(-8), Save("s0", 4), Save("s1", 5), Trap>>
        BY Rows
      <3>4. <<MoveSp(-8), Save("s0", 4), Save("s1", 5), Trap>> \o <<MoveSp(8), negate>> = <<MoveSp(-8), Save("s0", 4), Save("s1", 5), Trap, MoveSp(8), negate>>
        BY Rows
      <3>5. <<MoveSp(-8), Save("s0", 4), Save("s1", 5), Trap, MoveSp(8), negate>> \o <<Ret>> = <<MoveSp(-8), Save("s0", 4), Save("s1", 5), Trap, MoveSp(8), negate, Ret>>
        BY Rows
      <3>6. five = <<Save("s0", 4)>> /\ six = <<Save("s1", 5)>>
        BY <2>3, <2>6
      <3>7. QED
        BY <2>2, <3>1, <3>2, <3>3, <3>4, <3>5, <3>6
    <2>7. QED
      BY <2>4, <2>5, <2>6
  <1>6. ASSUME a = i386, n = 6
        PROVE  c = <<PushAt(0), Push("ebp"), Load("ebp", 1), Trap, Pop("ebp"), MoveSp(1), Ret>>
    <2>1. /\ Before(a, n) = <<PushAt(0), Push("ebp"), Load("ebp", 1)>>
          /\ After(a, n) = <<Pop("ebp"), MoveSp(1)>>
      BY <1>6 DEF Before, After, i386
    <2>2. <<PushAt(0), Push("ebp"), Load("ebp", 1)>> \o <<Trap>> = <<PushAt(0), Push("ebp"), Load("ebp", 1), Trap>>
      BY Rows
    <2>3. <<PushAt(0), Push("ebp"), Load("ebp", 1), Trap>> \o <<Pop("ebp"), MoveSp(1)>> = <<PushAt(0), Push("ebp"), Load("ebp", 1), Trap, Pop("ebp"), MoveSp(1)>>
      BY Rows
    <2>4. <<PushAt(0), Push("ebp"), Load("ebp", 1), Trap, Pop("ebp"), MoveSp(1)>> \o <<Ret>> = <<PushAt(0), Push("ebp"), Load("ebp", 1), Trap, Pop("ebp"), MoveSp(1), Ret>>
      BY Rows
    <2>5. QED
      BY <2>1, <2>2, <2>3, <2>4 DEF c
  <1>7. QED
    BY <1>2, <1>3, <1>4, <1>5, <1>6 DEF c

-----------------------------------------------------------------------------
(* The instructions.                                                       *)

\* While a call is in progress the program takes the first of the instructions, or a
\* signal comes.
LEMMA InProgress ==
  ASSUME Next, ~Idle, ~Signal
  PROVE  /\ code' = Tail(code)
         /\ Instruction \/ Return
              \/ (\E error \in Error : KernelAnswers(error, 0))
              \/ (\E result \in (IF call.type = "int" THEN IntResult ELSE PtrResult) :
                   KernelAnswers(0, result))
  BY DEF Next, Call, ClearErrno, Instruction, Return, KernelAnswers, Goes

\* What each of them does.
LEMMA PushStep ==
  ASSUME Next, ~Idle, ~Signal, NEW r, Head(code) = Push(r)
  PROVE  /\ UNCHANGED <<arch, call, given, got, answer, ret, errno, signals>>
         /\ sp' = sp - 1 /\ stack' = [stack EXCEPT ![sp - 1] = regs[r]] /\ regs' = regs
  BY InProgress DEF Instruction, Return, KernelAnswers, Goes, Push

LEMMA PushAtStep ==
  ASSUME Next, ~Idle, ~Signal, NEW n, Head(code) = PushAt(n)
  PROVE  /\ UNCHANGED <<arch, call, given, got, answer, ret, errno, signals>>
         /\ sp' = sp - 1 /\ stack' = [stack EXCEPT ![sp - 1] = stack[sp + n]] /\ regs' = regs
  BY InProgress DEF Instruction, Return, KernelAnswers, Goes, PushAt

LEMMA PopStep ==
  ASSUME Next, ~Idle, ~Signal, NEW r, Head(code) = Pop(r)
  PROVE  /\ UNCHANGED <<arch, call, given, got, answer, ret, errno, signals>>
         /\ sp' = sp + 1 /\ regs' = [regs EXCEPT ![r] = stack[sp]] /\ stack' = stack
  BY InProgress DEF Instruction, Return, KernelAnswers, Goes, Pop

LEMMA LoadStep ==
  ASSUME Next, ~Idle, ~Signal, NEW r, NEW n, Head(code) = Load(r, n)
  PROVE  /\ UNCHANGED <<arch, call, given, got, answer, ret, errno, signals>>
         /\ regs' = [regs EXCEPT ![r] = stack[sp + n]] /\ stack' = stack /\ sp' = sp
  BY InProgress DEF Instruction, Return, KernelAnswers, Goes, Load

LEMMA SaveStep ==
  ASSUME Next, ~Idle, ~Signal, NEW r, NEW n, Head(code) = Save(r, n)
  PROVE  /\ UNCHANGED <<arch, call, given, got, answer, ret, errno, signals>>
         /\ stack' = [stack EXCEPT ![sp + n] = regs[r]] /\ regs' = regs /\ sp' = sp
  BY InProgress DEF Instruction, Return, KernelAnswers, Goes, Save

LEMMA MoveSpStep ==
  ASSUME Next, ~Idle, ~Signal, NEW n, Head(code) = MoveSp(n)
  PROVE  /\ UNCHANGED <<arch, call, given, got, answer, ret, errno, signals>>
         /\ sp' = sp + n /\ regs' = regs /\ stack' = stack
  BY InProgress DEF Instruction, Return, KernelAnswers, Goes, MoveSp

LEMMA SwapStep ==
  ASSUME Next, ~Idle, ~Signal, NEW r, NEW q, Head(code) = Swap(r, q)
  PROVE  /\ UNCHANGED <<arch, call, given, got, answer, ret, errno, signals>>
         /\ regs' = [regs EXCEPT ![r] = regs[q], ![q] = regs[r]]
         /\ stack' = stack /\ sp' = sp
  BY InProgress DEF Instruction, Return, KernelAnswers, Goes, Swap

LEMMA MoveStep ==
  ASSUME Next, ~Idle, ~Signal, NEW r, NEW q, Head(code) = Move(r, q)
  PROVE  /\ UNCHANGED <<arch, call, given, got, answer, ret, errno, signals>>
         /\ regs' = [regs EXCEPT ![r] = regs[q]] /\ stack' = stack /\ sp' = sp
  BY InProgress DEF Instruction, Return, KernelAnswers, Goes, Move

LEMMA NegIfStep ==
  ASSUME Next, ~Idle, ~Signal, NEW r, NEW f, Head(code) = NegIf(r, f)
  PROVE  /\ UNCHANGED <<arch, call, given, got, answer, ret, errno, signals>>
         /\ regs' = [regs EXCEPT ![r] = IF regs[f] = Val(1) THEN Val(Minus(@[2])) ELSE @]
         /\ stack' = stack /\ sp' = sp
  BY InProgress DEF Instruction, Return, KernelAnswers, Goes, NegIf

LEMMA RetStep ==
  ASSUME Next, ~Idle, ~Signal, Head(code) = Ret
  PROVE  Return
  BY InProgress DEF Instruction, KernelAnswers, Goes, Ret

LEMMA SignalStep ==
  ASSUME Signal, sp \in StackAddr
  PROVE  /\ UNCHANGED <<arch, call, code, regs, sp, given, got, answer, ret, errno>>
         /\ signals < MaxSignals /\ signals' = signals + 1
         /\ DOMAIN stack' = StackAddr
         /\ \A b \in StackAddr : sp <= b => stack'[b] = stack[b]
  <1>1. stack' = [b \in StackAddr |-> IF b < sp THEN Garbage ELSE stack[b]]
    BY DEF Signal
  <1>2. QED
    BY <1>1 DEF Signal, StackAddr

\* The kernel finds the arguments in their places, and answers.
LEMMA TrapStep ==
  ASSUME Next, ~Idle, ~Signal, Head(code) = Trap, TypeOK,
         \A i \in 0 .. call.n : KernelArg(i) = Argument(i)
  PROVE  /\ UNCHANGED <<arch, call, sp, given, ret, errno, signals>>
         /\ Arrived' /\ AnswerOK'
         /\ answer' \in [error : Error \cup {0}, result : IntResult \cup PtrResult \cup {0}]
         /\ DOMAIN regs' = Register(arch) /\ DOMAIN stack' = StackAddr
         /\ arch.flag = NoFlag => Signed'
         /\ arch.flag # NoFlag => Raw'
         /\ \A r \in Register(arch) \ (arch.lost \cup {arch.ret, arch.flag}) : regs'[r] = regs[r]
         /\ \A b \in StackAddr : arch.name # "mips" \/ b > sp + 3 => stack'[b] = stack[b]
  <1>1. PICK error, result : /\ KernelAnswers(error, result)
                             /\ \/ error \in Error /\ result = 0
                                \/ /\ error = 0
                                   /\ result \in (IF call.type = "int" THEN IntResult ELSE PtrResult)
    <2>1. ~Instruction /\ ~Return
      BY DEF Instruction, Return, Goes, Trap
    <2>2. QED
      BY <2>1, InProgress
  <1> DEFINE value == IF error = 0 THEN result
                      ELSE IF arch.flag = NoFlag THEN Minus(error) ELSE error
             mark  == IF error = 0 THEN 0 ELSE 1
  <1>2. /\ got' = [i \in 0 .. call.n |-> KernelArg(i)]
        /\ answer' = [error |-> error, result |-> result]
        /\ regs' = [r \in DOMAIN regs |->
                      CASE r = arch.kret -> Val(value)
                        [] r = arch.flag -> Val(mark)
                        [] r \in arch.lost -> Garbage
                        [] OTHER -> regs[r]]
        /\ stack' = [b \in StackAddr |->
                       IF arch.name = "mips" /\ b \in sp .. (sp + 3) THEN Garbage ELSE stack[b]]
        /\ UNCHANGED <<arch, call, sp, given, ret, errno, signals>>
    BY <1>1 DEF KernelAnswers
  <1>3. arch \in Supported /\ DOMAIN regs = Register(arch) /\ sp \in StackAddr
    BY SyscallAssumption DEF TypeOK
  <1>4. Described(arch)
    BY <1>3, SupportedDescribed
  <1>5. Arrived'
    BY <1>2 DEF Arrived
  <1>6. AnswerOK'
    BY <1>1, <1>2 DEF AnswerOK
  <1>7. answer' \in [error : Error \cup {0}, result : IntResult \cup PtrResult \cup {0}]
    BY <1>1, <1>2
  <1> HIDE DEF value, mark
  <1>8. regs'[arch.ret] = Val(value)
    BY <1>2, <1>3, <1>4 DEF Described
  <1>9. arch.flag # NoFlag => regs'[arch.flag] = Val(mark)
    BY <1>2, <1>3, <1>4 DEF Described
  <1>10. ASSUME NEW r \in Register(arch) \ (arch.lost \cup {arch.ret, arch.flag})
         PROVE  regs'[r] = regs[r]
    BY <1>2, <1>3, <1>4, <1>10 DEF Described
  <1>11. arch.flag = NoFlag => Signed'
    BY <1>2, <1>8 DEF Signed, value, Minus
  <1>12. arch.flag # NoFlag => Raw'
    BY <1>2, <1>8, <1>9 DEF Raw, value, mark
  <1>13. DOMAIN regs' = Register(arch) /\ DOMAIN stack' = StackAddr
    BY <1>2, <1>3
  <1>14. ASSUME NEW b \in StackAddr, arch.name # "mips" \/ b > sp + 3 PROVE stack'[b] = stack[b]
    <2>1. b > sp + 3 => b \notin sp .. (sp + 3)
      BY <1>3, SMT DEF StackAddr
    <2>2. QED
      BY <1>2, <1>14, <2>1
  <1>15. QED
    BY <1>2, <1>5, <1>6, <1>7, <1>10, <1>11, <1>12, <1>13, <1>14

-----------------------------------------------------------------------------
(* The invariant is kept.                                                  *)

LEMMA ArchFacts ==
  ASSUME TypeOK
  PROVE  arch \in Supported /\ Described(arch) /\ call.n \in 0 .. 6
  BY SyscallAssumption, SupportedDescribed DEF TypeOK

\* What a step within a call has to leave alone.
LEMMA Steady ==
  ASSUME TypeOK, FrameKept, UNCHANGED <<arch, call, ret, errno, signals, given>>,
         answer' \in [error : Error \cup {0}, result : IntResult \cup PtrResult \cup {0}],
         DOMAIN regs' = Register(arch), DOMAIN stack' = StackAddr, sp' \in StackAddr,
         \A b \in Frame : stack'[b] = stack[b]
  PROVE  TypeOK' /\ FrameKept'
  BY DEF TypeOK, FrameKept, FrameWord

\* The compiler relies on no register that the trap changes.
LEMMA ReliedOn ==
  ASSUME Described(arch), NEW r \in Register(arch) \ (arch.changed \cup ({arch.num} \cap arch.lost))
  PROVE  r \in Register(arch) \ (arch.lost \cup {arch.ret, arch.flag})
  BY DEF Described, Register

LEMMA GivenArguments ==
  ASSUME TypeOK, GivenOK
  PROVE  /\ given[arch.num] = Argument(0)
         /\ \A i \in 1 .. call.n :
              (arch.name = "i386" => i # 6) => given[arch.args[i]] = Argument(i)
  <1>1. Described(arch) /\ call.n \in 0 .. 6
    BY ArchFacts
  <1>2. given[arch.num] = Argument(0)
    BY <1>1 DEF GivenOK, Described
  <1>3. ASSUME NEW i \in 1 .. call.n, arch.name = "i386" => i # 6
        PROVE  given[arch.args[i]] = Argument(i)
    <2>1. i \in 1 .. 6 /\ \A j \in 1 .. call.n : j \in 1 .. 6
      BY <1>1, SMT
    <2>2. (CHOOSE j \in 1 .. call.n : arch.args[j] = arch.args[i]) = i
      BY <1>1, <2>1 DEF Described
    <2>3. arch.args[i] \in Register(arch) /\ arch.args[i] # arch.num
      BY <1>1, <1>3, <2>1 DEF Described
    <2>4. QED
      BY <2>2, <2>3 DEF GivenOK
  <1>4. QED
    BY <1>2, <1>3

\* The head and the tail of what is left.
LEMMA HeadAndTail ==
  /\ \A x : /\ <<x>> # <<>> /\ Head(<<x>>) = x
            /\ Tail(<<x>>) = <<>>
  /\ \A x, y : /\ <<x, y>> # <<>> /\ Head(<<x, y>>) = x
               /\ Tail(<<x, y>>) = <<y>>
  /\ \A x, y, z : /\ <<x, y, z>> # <<>> /\ Head(<<x, y, z>>) = x
                  /\ Tail(<<x, y, z>>) = <<y, z>>
  /\ \A x, y, z, u : /\ <<x, y, z, u>> # <<>> /\ Head(<<x, y, z, u>>) = x
                     /\ Tail(<<x, y, z, u>>) = <<y, z, u>>
  /\ \A x, y, z, u, v : /\ <<x, y, z, u, v>> # <<>> /\ Head(<<x, y, z, u, v>>) = x
                        /\ Tail(<<x, y, z, u, v>>) = <<y, z, u, v>>
  /\ \A x, y, z, u, v, w : /\ <<x, y, z, u, v, w>> # <<>> /\ Head(<<x, y, z, u, v, w>>) = x
                           /\ Tail(<<x, y, z, u, v, w>>) = <<y, z, u, v, w>>
  /\ \A x, y, z, u, v, w, t : /\ <<x, y, z, u, v, w, t>> # <<>> /\ Head(<<x, y, z, u, v, w, t>>) = x
                              /\ Tail(<<x, y, z, u, v, w, t>>) = <<y, z, u, v, w, t>>
  <1>1. \A x : /\ <<x>> # <<>> /\ Head(<<x>>) = x
               /\ Tail(<<x>>) = <<>>
    BY SMT
  <1>2. \A x, y : /\ <<x, y>> # <<>> /\ Head(<<x, y>>) = x
                  /\ Tail(<<x, y>>) = <<y>>
    BY SMT
  <1>3. \A x, y, z : /\ <<x, y, z>> # <<>> /\ Head(<<x, y, z>>) = x
                     /\ Tail(<<x, y, z>>) = <<y, z>>
    BY SMT
  <1>4. \A x, y, z, u : /\ <<x, y, z, u>> # <<>> /\ Head(<<x, y, z, u>>) = x
                        /\ Tail(<<x, y, z, u>>) = <<y, z, u>>
    BY SMT
  <1>5. \A x, y, z, u, v : /\ <<x, y, z, u, v>> # <<>> /\ Head(<<x, y, z, u, v>>) = x
                           /\ Tail(<<x, y, z, u, v>>) = <<y, z, u, v>>
    BY SMT
  <1>6. \A x, y, z, u, v, w : /\ <<x, y, z, u, v, w>> # <<>> /\ Head(<<x, y, z, u, v, w>>) = x
                              /\ Tail(<<x, y, z, u, v, w>>) = <<y, z, u, v, w>>
    BY SMT
  <1>7. \A x, y, z, u, v, w, t : /\ <<x, y, z, u, v, w, t>> # <<>> /\ Head(<<x, y, z, u, v, w, t>>) = x
                                 /\ Tail(<<x, y, z, u, v, w, t>>) = <<y, z, u, v, w, t>>
    BY SMT
  <1>8. QED
    BY <1>1, <1>2, <1>3, <1>4, <1>5, <1>6, <1>7

LEMMA StepPlainTraps ==
  ASSUME TypeOK, FrameKept, GivenOK, PlainTraps, Next, ~Signal
  PROVE  SyscallInv'
  <1>1. arch \in Supported /\ Described(arch) /\ call.n \in 0 .. 6
    BY ArchFacts
  <1>2. /\ Plain(arch, call.n) /\ regs = given /\ sp = Top
        /\ \/ ~Flagged(arch) /\ code = <<Trap, Ret>>
           \/ Flagged(arch) /\ code = <<Trap, Negate, Ret>>
    BY DEF PlainTraps, At
  <1>3. /\ ~Idle /\ Head(code) = Trap
        /\ ~Flagged(arch) => Tail(code) = <<Ret>>
        /\ Flagged(arch) => Tail(code) = <<Negate, Ret>>
    <2>1. CASE ~Flagged(arch)
      <3>1. code = <<Trap, Ret>>
        BY <1>2, <2>1
      <3>2. QED
        BY <2>1, <3>1, HeadAndTail DEF Idle
    <2>2. CASE Flagged(arch)
      <3>1. code = <<Trap, Negate, Ret>>
        BY <1>2, <2>2
      <3>2. QED
        BY <2>2, <3>1, HeadAndTail DEF Idle
    <2>3. QED
      BY <2>1, <2>2
  <1>4. /\ arch.knum = arch.num
        /\ \A i \in 1 .. call.n : /\ i <= Len(arch.kargs) /\ arch.kargs[i] = arch.args[i]
                                  /\ arch.name = "i386" => i # 6
    <2>1. arch.knum = arch.num
      BY <1>1, <1>2, SamePlaces DEF Plain
    <2>2. CASE arch.name # "i386"
      <3>1. arch.kargs = arch.args
        BY <1>1, <1>2, <2>2, SamePlaces DEF Plain
      <3>2. \A i \in 1 .. call.n : i <= 6
        BY <1>1, SMT
      <3>3. QED
        BY <1>1, <2>1, <2>2, <3>1, <3>2 DEF Described
    <2>3. CASE arch.name = "i386"
      <3>1. arch = i386
        BY <1>1, <2>3, SamePlaces
      <3>2. Len(i386.kargs) = 6 /\ \A i \in 1 .. 5 : i386.kargs[i] = i386.args[i]
        BY SMT DEF i386
      <3>3. \A i \in 1 .. call.n : i \in 1 .. 5 /\ i <= 6 /\ i # 6
        BY <1>1, <1>2, <2>3, SMT DEF Plain
      <3>4. QED
        BY <2>1, <3>1, <3>2, <3>3
    <2>4. QED
      BY <2>2, <2>3
  <1>5. ASSUME NEW i \in 0 .. call.n PROVE KernelArg(i) = Argument(i)
    <2>1. i = 0 \/ (i # 0 /\ i \in 1 .. call.n)
      BY <1>1, SMT
    <2>2. QED
      BY <1>2, <1>4, <2>1, GivenArguments DEF KernelArg
  <1>6. code' = Tail(code)
    BY <1>3, InProgress
  <1>7. /\ UNCHANGED <<arch, call, sp, given, ret, errno, signals>>
        /\ Arrived' /\ AnswerOK'
        /\ answer' \in [error : Error \cup {0}, result : IntResult \cup PtrResult \cup {0}]
        /\ DOMAIN regs' = Register(arch) /\ DOMAIN stack' = StackAddr
        /\ arch.flag = NoFlag => Signed'
        /\ arch.flag # NoFlag => Raw'
        /\ \A r \in Register(arch) \ (arch.lost \cup {arch.ret, arch.flag}) : regs'[r] = regs[r]
        /\ \A b \in StackAddr : arch.name # "mips" \/ b > sp + 3 => stack'[b] = stack[b]
    BY <1>3, <1>5, TrapStep
  <1>8. TypeOK' /\ FrameKept'
    <2>1. arch.name # "mips" /\ sp' \in StackAddr
      BY <1>2, <1>7 DEF Plain, TypeOK
    <2>2. \A b \in Frame : stack'[b] = stack[b]
      BY <1>7, <2>1 DEF Frame
    <2>3. QED
      BY <1>7, <2>1, <2>2, Steady
  <1>9. KeptBut({})'
    <2>1. \A r \in Register(arch) \ (arch.changed \cup ({arch.num} \cap arch.lost)) : regs'[r] = given[r]
      BY <1>1, <1>2, <1>7, ReliedOn
    <2>2. QED
      BY <1>7, <2>1 DEF KeptBut
  <1>10. Negates' \/ Returns'
    <2>1. CASE Flagged(arch)
      BY <1>1, <1>2, <1>3, <1>6, <1>7, <1>9, <2>1 DEF Negates, Negate, At, Described, Top
    <2>2. CASE ~Flagged(arch)
      BY <1>1, <1>2, <1>3, <1>6, <1>7, <1>9, <2>2 DEF Returns, At, Described, Top
    <2>3. QED
      BY <2>1, <2>2
  <1>11. QED
    BY <1>7, <1>8, <1>10 DEF SyscallInv, BehindTrap

\* r7 and r6 are swapped on the way to the kernel.
LEMMA ThumbFacts ==
  /\ Register(thumb) = {"r0", "r1", "r2", "r3", "r4", "r5", "r6", "r7", "lr", "cc"}
  /\ thumb.changed = {"r0", "r6", "lr", "cc"} /\ thumb.lost = {"lr"}
  /\ thumb.num = "r6" /\ thumb.knum = "r7" /\ thumb.ret = "r0" /\ thumb.flag = NoFlag
  /\ Len(thumb.kargs) = 6
  /\ \A i \in 1 .. 6 : /\ thumb.kargs[i] = thumb.args[i]
                       /\ thumb.args[i] \in Register(thumb) \ {"r6", "r7"}
  /\ thumb.name = "thumb"
  BY SMT DEF thumb, Register, RangeOf, NoFlag, Memory

LEMMA StepThumbSwaps ==
  ASSUME TypeOK, FrameKept, got = <<>>, GivenOK, ThumbSwaps, Next, ~Signal
  PROVE  SyscallInv'
  <1>1. /\ arch = thumb /\ regs = given /\ sp = Top
        /\ code = <<Swap("r7", "r6"), Trap, Move("r7", "r6"), Ret>>
    BY DEF ThumbSwaps, At
  <1>2. /\ ~Idle /\ Head(code) = Swap("r7", "r6")
        /\ Tail(code) = <<Trap, Move("r7", "r6"), Ret>>
    BY <1>1, HeadAndTail DEF Idle
  <1>3. /\ code' = <<Trap, Move("r7", "r6"), Ret>>
        /\ UNCHANGED <<arch, call, given, got, answer, ret, errno, signals>>
        /\ regs' = [given EXCEPT !["r7"] = given["r6"], !["r6"] = given["r7"]]
        /\ stack' = stack /\ sp' = sp
    BY <1>1, <1>2, InProgress, SwapStep
  <1>4. TypeOK' /\ FrameKept'
    <2>1. DOMAIN given = Register(arch) /\ DOMAIN stack = StackAddr /\ sp \in StackAddr
          /\ answer \in [error : Error \cup {0}, result : IntResult \cup PtrResult \cup {0}]
      BY DEF TypeOK
    <2>2. DOMAIN regs' = Register(arch)
      BY <1>3, <2>1
    <2>3. QED
      BY <1>3, <2>1, <2>2, Steady
  <1>5. ThumbTraps'
    <2>1. DOMAIN given = Register(thumb) /\ "r6" \in Register(thumb) /\ "r7" \in Register(thumb)
      BY <1>1, ThumbFacts DEF TypeOK
    <2>2. /\ regs'["r6"] = given["r7"] /\ regs'["r7"] = given["r6"]
          /\ \A r \in Register(thumb) \ {"r6", "r7"} : regs'[r] = given[r]
      BY <1>3, <2>1
    <2>3. QED
      BY <1>1, <1>3, <2>2 DEF ThumbTraps, At, Top
  <1>6. GivenOK'
    BY <1>3 DEF GivenOK
  <1>7. QED
    BY <1>3, <1>4, <1>5, <1>6 DEF SyscallInv, BeforeTrap

LEMMA StepThumbTraps ==
  ASSUME TypeOK, FrameKept, GivenOK, ThumbTraps, Next, ~Signal
  PROVE  SyscallInv'
  <1>1. /\ arch = thumb /\ sp = Top /\ code = <<Trap, Move("r7", "r6"), Ret>>
        /\ regs["r6"] = given["r7"] /\ regs["r7"] = given["r6"]
        /\ \A r \in Register(thumb) \ {"r6", "r7"} : regs[r] = given[r]
    BY DEF ThumbTraps, At
  <1>2. ~Idle /\ Head(code) = Trap /\ Tail(code) = <<Move("r7", "r6"), Ret>>
    BY <1>1, HeadAndTail DEF Idle
  <1>3. ASSUME NEW i \in 0 .. call.n PROVE KernelArg(i) = Argument(i)
    <2>1. i = 0 \/ (i # 0 /\ i <= 6 /\ i \in 1 .. 6 /\ i \in 1 .. call.n)
      BY ArchFacts, SMT
    <2>2. given["r6"] = Argument(0) /\ \A j \in 1 .. call.n : given[thumb.args[j]] = Argument(j)
      BY <1>1, GivenArguments, ThumbFacts
    <2>3. CASE i = 0
      BY <1>1, <2>2, <2>3, ThumbFacts DEF KernelArg
    <2>4. CASE i # 0 /\ i <= 6 /\ i \in 1 .. 6 /\ i \in 1 .. call.n
      BY <1>1, <2>2, <2>4, ThumbFacts DEF KernelArg
    <2>5. QED
      BY <2>1, <2>3, <2>4
  <1>4. /\ code' = <<Move("r7", "r6"), Ret>>
        /\ UNCHANGED <<arch, call, sp, given, ret, errno, signals>>
        /\ Arrived' /\ AnswerOK'
        /\ answer' \in [error : Error \cup {0}, result : IntResult \cup PtrResult \cup {0}]
        /\ DOMAIN regs' = Register(arch) /\ DOMAIN stack' = StackAddr
        /\ Signed'
        /\ \A r \in Register(thumb) \ {"lr", "r0", NoFlag} : regs'[r] = regs[r]
        /\ \A b \in StackAddr : stack'[b] = stack[b]
    BY <1>1, <1>2, <1>3, InProgress, TrapStep, ThumbFacts
  <1>5. TypeOK' /\ FrameKept'
    <2>1. sp' \in StackAddr /\ \A b \in Frame : stack'[b] = stack[b]
      BY <1>4 DEF TypeOK, Frame
    <2>2. QED
      BY <1>4, <2>1, Steady
  <1>6. ThumbMoves'
    <2>1. regs'["r6"] = given["r7"]
      BY <1>1, <1>4, ThumbFacts DEF NoFlag
    <2>2. ASSUME NEW r \in Register(thumb) \ (thumb.changed \cup ({thumb.num} \cap thumb.lost) \cup {"r7"})
          PROVE  regs'[r] = given[r]
      <3>1. r \in Register(thumb) \ {"r0", "r6", "lr", "cc", "r7"} /\ r # NoFlag
        BY ThumbFacts DEF NoFlag
      <3>2. QED
        BY <1>1, <1>4, <3>1
    <2>3. QED
      BY <1>1, <1>4, <2>1, <2>2 DEF ThumbMoves, KeptBut, At, Top
  <1>7. QED
    BY <1>4, <1>5, <1>6 DEF SyscallInv, BehindTrap

LEMMA StepThumbMoves ==
  ASSUME TypeOK, FrameKept, Arrived, AnswerOK, ThumbMoves, Next, ~Signal
  PROVE  SyscallInv'
  <1>1. /\ arch = thumb /\ sp = Top /\ code = <<Move("r7", "r6"), Ret>>
        /\ KeptBut({"r7"}) /\ regs["r6"] = given["r7"] /\ Signed
    BY DEF ThumbMoves, At
  <1>2. ~Idle /\ Head(code) = Move("r7", "r6") /\ Tail(code) = <<Ret>>
    BY <1>1, HeadAndTail DEF Idle
  <1>3. /\ code' = <<Ret>>
        /\ UNCHANGED <<arch, call, given, got, answer, ret, errno, signals>>
        /\ regs' = [regs EXCEPT !["r7"] = given["r7"]]
        /\ stack' = stack /\ sp' = sp
    BY <1>1, <1>2, InProgress, MoveStep
  <1>4. /\ DOMAIN regs = Register(thumb) /\ DOMAIN stack = StackAddr /\ sp \in StackAddr
        /\ answer \in [error : Error \cup {0}, result : IntResult \cup PtrResult \cup {0}]
    BY <1>1 DEF TypeOK
  <1>5. TypeOK' /\ FrameKept'
    BY <1>1, <1>3, <1>4, Steady
  <1>6. KeptBut({})'
    <2>1. ASSUME NEW r \in Register(thumb) \ (thumb.changed \cup ({thumb.num} \cap thumb.lost))
          PROVE  regs'[r] = given[r]
      BY <1>1, <1>3, <1>4 DEF KeptBut
    <2>2. QED
      BY <1>1, <1>3, <2>1 DEF KeptBut
  <1>7. Signed'
    <2>1. regs'["r0"] = regs["r0"]
      BY <1>3, <1>4, ThumbFacts
    <2>2. QED
      BY <1>1, <1>3, <2>1, ThumbFacts DEF Signed
  <1>8. Returns'
    BY <1>1, <1>3, <1>6, <1>7 DEF Returns, At, Top
  <1>9. Arrived' /\ AnswerOK'
    BY <1>3 DEF Arrived, AnswerOK
  <1>10. QED
    BY <1>5, <1>8, <1>9 DEF SyscallInv, BehindTrap

\* The fifth and the sixth argument go into the frame of the macros.
LEMMA MipsFacts ==
  /\ mips.num = "v0" /\ mips.knum = "v0" /\ mips.ret = "v0" /\ mips.flag = "a3"
  /\ mips.args[5] = "s0" /\ mips.args[6] = "s1" /\ Len(mips.kargs) = 4
  /\ \A i \in 1 .. 4 : mips.kargs[i] = mips.args[i]
  /\ mips.name = "mips" /\ mips.flag # NoFlag
  BY SMT DEF mips, NoFlag

\* A step before the trap that only builds the frame.
LEMMA BuildsFrame ==
  ASSUME TypeOK, FrameKept, got = <<>>, GivenOK,
         UNCHANGED <<arch, call, regs, given, got, answer, ret, errno, signals>>,
         DOMAIN stack' = StackAddr, sp' \in StackAddr, \A b \in Frame : stack'[b] = stack[b]
  PROVE  TypeOK' /\ FrameKept' /\ got' = <<>> /\ GivenOK'
  <1>1. DOMAIN regs' = Register(arch)
        /\ answer' \in [error : Error \cup {0}, result : IntResult \cup PtrResult \cup {0}]
    BY DEF TypeOK
  <1>2. TypeOK' /\ FrameKept'
    BY <1>1, Steady
  <1>3. GivenOK'
    BY DEF GivenOK
  <1>4. QED
    BY <1>2, <1>3

LEMMA StepMipsBegins ==
  ASSUME TypeOK, FrameKept, got = <<>>, GivenOK, MipsBegins, Next, ~Signal
  PROVE  SyscallInv'
  <1>1. /\ arch = mips /\ regs = given /\ sp = Top
        /\ \/ call.n < 5 /\ code = <<MoveSp(-8), Trap, MoveSp(8), Negate, Ret>>
           \/ call.n = 5 /\ code = <<MoveSp(-8), Save("s0", 4), Trap, MoveSp(8), Negate, Ret>>
           \/ call.n = 6 /\ code = <<MoveSp(-8), Save("s0", 4), Save("s1", 5), Trap, MoveSp(8),
                                     Negate, Ret>>
    BY DEF MipsBegins, At
  <1>2. /\ ~Idle /\ Head(code) = MoveSp(-8)
        /\ \/ call.n < 5 /\ Tail(code) = <<Trap, MoveSp(8), Negate, Ret>>
           \/ call.n = 5 /\ Tail(code) = <<Save("s0", 4), Trap, MoveSp(8), Negate, Ret>>
           \/ call.n = 6 /\ Tail(code) = <<Save("s0", 4), Save("s1", 5), Trap, MoveSp(8),
                                           Negate, Ret>>
    <2>1. CASE call.n < 5 /\ code = <<MoveSp(-8), Trap, MoveSp(8), Negate, Ret>>
      BY <2>1, HeadAndTail DEF Idle
    <2>2. CASE call.n = 5 /\ code = <<MoveSp(-8), Save("s0", 4), Trap, MoveSp(8), Negate, Ret>>
      BY <2>2, HeadAndTail DEF Idle
    <2>3. CASE call.n = 6 /\ code = <<MoveSp(-8), Save("s0", 4), Save("s1", 5), Trap, MoveSp(8),
                                     Negate, Ret>>
      BY <2>3, HeadAndTail DEF Idle
    <2>4. QED
      BY <1>1, <2>1, <2>2, <2>3
  <1>3. /\ code' = Tail(code)
        /\ UNCHANGED <<arch, call, given, got, answer, ret, errno, signals>>
        /\ sp' = sp + (-8) /\ regs' = regs /\ stack' = stack
    BY <1>2, InProgress, MoveSpStep
  <1>4. sp' = MipsFrame /\ sp' \in StackAddr
    BY <1>1, <1>3, SMT DEF MipsFrame, Top, StackAddr
  <1>5. TypeOK' /\ FrameKept' /\ got' = <<>> /\ GivenOK'
    <2>1. DOMAIN stack = StackAddr
      BY DEF TypeOK
    <2>2. QED
      BY <1>3, <1>4, <2>1, BuildsFrame
  <1>6. MipsSaves' \/ MipsTraps'
    <2>1. Negate' = Negate /\ MipsFrame' = MipsFrame
      BY <1>3 DEF Negate, MipsFrame, Top
    <2>2. CASE call.n < 5 /\ Tail(code) = <<Trap, MoveSp(8), Negate, Ret>>
      <3>1. ~(call.n >= 5) /\ ~(call.n >= 6)
        BY <2>2, ArchFacts, SMT
      <3>2. QED
        BY <1>1, <1>3, <1>4, <2>1, <2>2, <3>1 DEF MipsTraps, At
    <2>3. CASE call.n = 5 /\ Tail(code) = <<Save("s0", 4), Trap, MoveSp(8), Negate, Ret>>
      BY <1>1, <1>3, <1>4, <2>1, <2>3 DEF MipsSaves, At
    <2>4. CASE call.n = 6 /\ Tail(code) = <<Save("s0", 4), Save("s1", 5), Trap, MoveSp(8),
                                           Negate, Ret>>
      BY <1>1, <1>3, <1>4, <2>1, <2>4 DEF MipsSaves, At
    <2>5. QED
      BY <1>2, <2>2, <2>3, <2>4
  <1>7. QED
    BY <1>5, <1>6 DEF SyscallInv, BeforeTrap

LEMMA StepMipsSaves ==
  ASSUME TypeOK, FrameKept, got = <<>>, GivenOK, MipsSaves, Next, ~Signal
  PROVE  SyscallInv'
  <1>1. arch = mips /\ regs = given /\ sp = MipsFrame
    BY DEF MipsSaves, At
  <1>2. /\ MipsFrame \in StackAddr /\ DOMAIN stack = StackAddr
        /\ MipsFrame + 4 \in StackAddr /\ MipsFrame + 5 \in StackAddr
        /\ MipsFrame + 4 # MipsFrame + 5
        /\ \A b \in Frame : b # MipsFrame + 4 /\ b # MipsFrame + 5 /\ b \in StackAddr
    BY SMT DEF TypeOK, MipsFrame, Top, StackAddr, Frame
  <1>3. ASSUME NEW r, NEW n \in {4, 5}, ~Idle, Head(code) = Save(r, n)
        PROVE  /\ code' = Tail(code)
               /\ UNCHANGED <<arch, call, regs, sp>>
               /\ TypeOK' /\ FrameKept' /\ got' = <<>> /\ GivenOK'
               /\ given' = given /\ Negate' = Negate /\ MipsFrame' = MipsFrame
               /\ stack'[MipsFrame + n] = regs[r]
               /\ n = 5 => stack'[MipsFrame + 4] = stack[MipsFrame + 4]
    <2>1. /\ code' = Tail(code)
          /\ UNCHANGED <<arch, call, given, got, answer, ret, errno, signals>>
          /\ stack' = [stack EXCEPT ![sp + n] = regs[r]] /\ regs' = regs /\ sp' = sp
      BY <1>3, InProgress, SaveStep
    <2>2. DOMAIN stack' = StackAddr /\ sp' \in StackAddr
      BY <1>1, <1>2, <2>1
    <2>3. \A b \in Frame : stack'[b] = stack[b]
      BY <1>1, <1>2, <2>1
    <2>4. TypeOK' /\ FrameKept' /\ got' = <<>> /\ GivenOK'
      BY <2>1, <2>2, <2>3, BuildsFrame
    <2>5. /\ stack'[MipsFrame + n] = regs[r]
          /\ n = 5 => stack'[MipsFrame + 4] = stack[MipsFrame + 4]
      BY <1>1, <1>2, <2>1
    <2>6. Negate' = Negate /\ MipsFrame' = MipsFrame
      BY <2>1 DEF Negate, MipsFrame, Top
    <2>7. QED
      BY <2>1, <2>4, <2>5, <2>6
  <1>4. CASE call.n = 5 /\ code = <<Save("s0", 4), Trap, MoveSp(8), Negate, Ret>>
    <2>1. ~Idle /\ Head(code) = Save("s0", 4) /\ Tail(code) = <<Trap, MoveSp(8), Negate, Ret>>
      BY <1>4, HeadAndTail DEF Idle
    <2>2. /\ code' = <<Trap, MoveSp(8), Negate', Ret>> /\ UNCHANGED <<arch, call, regs, sp>>
          /\ TypeOK' /\ FrameKept' /\ got' = <<>> /\ GivenOK'
          /\ given' = given /\ MipsFrame' = MipsFrame /\ stack'[MipsFrame + 4] = regs["s0"]
      BY <1>3, <2>1
    <2>3. ~(call.n >= 6)
      BY <1>4, SMT
    <2>4. MipsTraps'
      BY <1>1, <2>2, <2>3 DEF MipsTraps, At
    <2>5. QED
      BY <2>2, <2>4 DEF SyscallInv, BeforeTrap
  <1>5. CASE call.n = 6 /\ code = <<Save("s0", 4), Save("s1", 5), Trap, MoveSp(8), Negate, Ret>>
    <2>1. /\ ~Idle /\ Head(code) = Save("s0", 4)
          /\ Tail(code) = <<Save("s1", 5), Trap, MoveSp(8), Negate, Ret>>
      BY <1>5, HeadAndTail DEF Idle
    <2>2. /\ code' = <<Save("s1", 5), Trap, MoveSp(8), Negate', Ret>>
          /\ UNCHANGED <<arch, call, regs, sp>>
          /\ TypeOK' /\ FrameKept' /\ got' = <<>> /\ GivenOK'
          /\ given' = given /\ MipsFrame' = MipsFrame /\ stack'[MipsFrame + 4] = regs["s0"]
      BY <1>3, <2>1
    <2>3. MipsSaves'
      BY <1>1, <1>5, <2>2 DEF MipsSaves, At
    <2>4. QED
      BY <2>2, <2>3 DEF SyscallInv, BeforeTrap
  <1>6. CASE /\ call.n = 6 /\ code = <<Save("s1", 5), Trap, MoveSp(8), Negate, Ret>>
             /\ stack[MipsFrame + 4] = given["s0"]
    <2>1. ~Idle /\ Head(code) = Save("s1", 5) /\ Tail(code) = <<Trap, MoveSp(8), Negate, Ret>>
      BY <1>6, HeadAndTail DEF Idle
    <2>2. /\ code' = <<Trap, MoveSp(8), Negate', Ret>> /\ UNCHANGED <<arch, call, regs, sp>>
          /\ TypeOK' /\ FrameKept' /\ got' = <<>> /\ GivenOK'
          /\ given' = given /\ MipsFrame' = MipsFrame
          /\ stack'[MipsFrame + 5] = regs["s1"] /\ stack'[MipsFrame + 4] = stack[MipsFrame + 4]
      BY <1>3, <2>1
    <2>3. MipsTraps'
      BY <1>1, <1>6, <2>2 DEF MipsTraps, At
    <2>4. QED
      BY <2>2, <2>3 DEF SyscallInv, BeforeTrap
  <1>7. QED
    BY <1>4, <1>5, <1>6 DEF MipsSaves, At

LEMMA StepMipsTraps ==
  ASSUME TypeOK, FrameKept, GivenOK, MipsTraps, Next, ~Signal
  PROVE  SyscallInv'
  <1>1. /\ arch = mips /\ regs = given /\ sp = MipsFrame /\ code = <<Trap, MoveSp(8), Negate, Ret>>
        /\ call.n >= 5 => stack[MipsFrame + 4] = given["s0"]
        /\ call.n >= 6 => stack[MipsFrame + 5] = given["s1"]
    BY DEF MipsTraps, At
  <1>2. ~Idle /\ Head(code) = Trap /\ Tail(code) = <<MoveSp(8), Negate, Ret>>
    BY <1>1, HeadAndTail DEF Idle
  <1>3. ASSUME NEW i \in 0 .. call.n PROVE KernelArg(i) = Argument(i)
    <2>1. /\ given["v0"] = Argument(0)
          /\ \A j \in 1 .. call.n : given[mips.args[j]] = Argument(j)
      BY <1>1, GivenArguments, MipsFacts
    <2>2. CASE i = 0
      BY <1>1, <2>1, <2>2, MipsFacts DEF KernelArg
    <2>3. CASE i \in 1 .. 4
      <3>1. i # 0 /\ i <= 4 /\ i \in 1 .. call.n
        BY <2>3, ArchFacts, SMT
      <3>2. QED
        BY <1>1, <2>1, <2>3, <3>1, MipsFacts DEF KernelArg
    <2>4. CASE i = 5
      <3>1. i # 0 /\ ~(i <= 4) /\ i \in 1 .. call.n /\ call.n >= 5 /\ sp + i - 1 = MipsFrame + 4
        BY <1>1, <2>4, ArchFacts, SMT DEF MipsFrame, Top
      <3>2. KernelArg(i) = stack[sp + i - 1]
        BY <1>1, <3>1, MipsFacts DEF KernelArg
      <3>3. QED
        BY <1>1, <2>1, <2>4, <3>1, <3>2, MipsFacts
    <2>5. CASE i = 6
      <3>1. i # 0 /\ ~(i <= 4) /\ i \in 1 .. call.n /\ call.n >= 6 /\ sp + i - 1 = MipsFrame + 5
        BY <1>1, <2>5, ArchFacts, SMT DEF MipsFrame, Top
      <3>2. KernelArg(i) = stack[sp + i - 1]
        BY <1>1, <3>1, MipsFacts DEF KernelArg
      <3>3. QED
        BY <1>1, <2>1, <2>5, <3>1, <3>2, MipsFacts
    <2>6. QED
      BY <2>2, <2>3, <2>4, <2>5, ArchFacts, SMT
  <1>4. /\ code' = Tail(code)
        /\ UNCHANGED <<arch, call, sp, given, ret, errno, signals>>
        /\ Arrived' /\ AnswerOK'
        /\ answer' \in [error : Error \cup {0}, result : IntResult \cup PtrResult \cup {0}]
        /\ DOMAIN regs' = Register(arch) /\ DOMAIN stack' = StackAddr
        /\ Raw'
        /\ \A r \in Register(arch) \ (arch.lost \cup {arch.ret, arch.flag}) : regs'[r] = regs[r]
        /\ \A b \in StackAddr : b > sp + 3 => stack'[b] = stack[b]
    BY <1>1, <1>2, <1>3, InProgress, TrapStep, MipsFacts
  <1>5. TypeOK' /\ FrameKept'
    <2>1. \A b \in Frame : b \in StackAddr /\ b > sp + 3
      BY <1>1, SMT DEF MipsFrame, Top, Frame, StackAddr
    <2>2. sp' \in StackAddr /\ \A b \in Frame : stack'[b] = stack[b]
      BY <1>4, <2>1 DEF TypeOK
    <2>3. QED
      BY <1>4, <2>2, Steady
  <1>6. KeptBut({})'
    <2>1. \A r \in Register(arch) \ (arch.changed \cup ({arch.num} \cap arch.lost)) : regs'[r] = given[r]
      BY <1>1, <1>4, ReliedOn, ArchFacts
    <2>2. QED
      BY <1>4, <2>1 DEF KeptBut
  <1>7. MipsLeaves'
    BY <1>1, <1>2, <1>4, <1>6 DEF MipsLeaves, At, MipsFrame, Top, Negate
  <1>8. QED
    BY <1>4, <1>5, <1>7 DEF SyscallInv, BehindTrap

\* A step behind the trap that changes no register the compiler relies on.
LEMMA LeavesFrame ==
  ASSUME TypeOK, FrameKept, Arrived, AnswerOK, KeptBut({}),
         UNCHANGED <<arch, call, stack, given, got, answer, ret, errno, signals>>,
         sp' \in StackAddr, DOMAIN regs' = Register(arch),
         \A r \in Register(arch) \ arch.changed : regs'[r] = regs[r]
  PROVE  TypeOK' /\ FrameKept' /\ Arrived' /\ AnswerOK' /\ KeptBut({})'
  <1>1. /\ answer' \in [error : Error \cup {0}, result : IntResult \cup PtrResult \cup {0}]
        /\ DOMAIN stack' = StackAddr
    BY DEF TypeOK
  <1>2. TypeOK' /\ FrameKept'
    BY <1>1, Steady
  <1>3. KeptBut({})'
    BY DEF KeptBut
  <1>4. Arrived' /\ AnswerOK'
    BY DEF Arrived, AnswerOK
  <1>5. QED
    BY <1>2, <1>3, <1>4

LEMMA StepMipsLeaves ==
  ASSUME TypeOK, FrameKept, Arrived, AnswerOK, MipsLeaves, Next, ~Signal
  PROVE  SyscallInv'
  <1>1. arch = mips /\ code = <<MoveSp(8), Negate, Ret>> /\ sp = MipsFrame /\ KeptBut({}) /\ Raw
    BY DEF MipsLeaves, At
  <1>2. ~Idle /\ Head(code) = MoveSp(8) /\ Tail(code) = <<Negate, Ret>>
    BY <1>1, HeadAndTail DEF Idle
  <1>3. /\ code' = <<Negate, Ret>>
        /\ UNCHANGED <<arch, call, given, got, answer, ret, errno, signals>>
        /\ sp' = sp + 8 /\ regs' = regs /\ stack' = stack
    BY <1>2, InProgress, MoveSpStep
  <1>4. sp' = Top /\ sp' \in StackAddr
    BY <1>1, <1>3, SMT DEF MipsFrame, Top, StackAddr
  <1>5. TypeOK' /\ FrameKept' /\ Arrived' /\ AnswerOK' /\ KeptBut({})'
    <2>1. DOMAIN regs' = Register(arch)
      BY <1>3 DEF TypeOK
    <2>2. QED
      BY <1>1, <1>3, <1>4, <2>1, LeavesFrame
  <1>6. Negates'
    <2>1. Flagged(arch)
      BY <1>1, MipsFacts DEF Flagged
    <2>2. Raw'
      BY <1>1, <1>3 DEF Raw
    <2>3. QED
      BY <1>3, <1>4, <1>5, <2>1, <2>2 DEF Negates, At, Negate, Top
  <1>7. QED
    BY <1>5, <1>6 DEF SyscallInv, BehindTrap

LEMMA StepNegates ==
  ASSUME TypeOK, FrameKept, Arrived, AnswerOK, Negates, Next, ~Signal
  PROVE  SyscallInv'
  <1>1. Flagged(arch) /\ code = <<Negate, Ret>> /\ sp = Top /\ KeptBut({}) /\ Raw
    BY DEF Negates, At
  <1>2. ~Idle /\ Head(code) = Negate /\ Tail(code) = <<Ret>>
    BY <1>1, HeadAndTail DEF Idle
  <1>3. /\ code' = <<Ret>>
        /\ UNCHANGED <<arch, call, given, got, answer, ret, errno, signals>>
        /\ regs' = [regs EXCEPT ![arch.ret] = IF regs[arch.flag] = Val(1) THEN Val(Minus(@[2])) ELSE @]
        /\ stack' = stack /\ sp' = sp
    BY <1>2, InProgress, NegIfStep DEF Negate
  <1>4. Described(arch) /\ DOMAIN regs = Register(arch) /\ sp \in StackAddr
    BY ArchFacts DEF TypeOK
  <1>5. /\ DOMAIN regs' = Register(arch)
        /\ \A r \in Register(arch) \ arch.changed : regs'[r] = regs[r]
    BY <1>3, <1>4 DEF Described
  <1>6. TypeOK' /\ FrameKept' /\ Arrived' /\ AnswerOK' /\ KeptBut({})'
    BY <1>1, <1>3, <1>4, <1>5, LeavesFrame
  <1>7. Signed'
    <2>1. regs'[arch.ret] = IF regs[arch.flag] = Val(1) THEN Val(Minus(regs[arch.ret][2]))
                            ELSE regs[arch.ret]
      BY <1>3, <1>4 DEF Described
    <2>2. CASE answer.error = 0
      <3>1. regs[arch.ret] = Val(answer.result) /\ regs[arch.flag] = Val(0)
        BY <1>1, <2>2 DEF Raw
      <3>2. Val(0) # Val(1)
        BY DEF Val
      <3>3. QED
        BY <1>3, <2>1, <2>2, <3>1, <3>2 DEF Signed
    <2>3. CASE answer.error # 0
      <3>1. regs[arch.ret] = Val(answer.error) /\ regs[arch.flag] = Val(1)
        BY <1>1, <2>3 DEF Raw
      <3>2. Val(answer.error)[2] = answer.error
        BY DEF Val
      <3>3. regs'[arch.ret] = Val(Minus(answer.error))
        BY <2>1, <3>1, <3>2
      <3>4. QED
        BY <1>3, <2>3, <3>3 DEF Signed, Minus
    <2>4. QED
      BY <2>2, <2>3
  <1>8. Returns'
    BY <1>1, <1>3, <1>6, <1>7 DEF Returns, At, Top
  <1>9. QED
    BY <1>6, <1>8 DEF SyscallInv, BehindTrap

\* The sixth argument goes through ebp, and ebp over the stack.
LEMMA I386Facts ==
  /\ Register(i386) = {"eax", "ebx", "ecx", "edx", "esi", "edi", "ebp", "cc"}
  /\ i386.changed = {"eax", "cc"} /\ i386.lost = {} /\ i386.flag = NoFlag
  /\ i386.num = "eax" /\ i386.knum = "eax" /\ i386.ret = "eax" /\ i386.name = "i386"
  /\ Len(i386.kargs) = 6 /\ i386.kargs[6] = "ebp" /\ i386.args[6] = Memory
  /\ \A i \in 1 .. 5 : /\ i386.kargs[i] = i386.args[i]
                       /\ i386.args[i] \in Register(i386) \ {"ebp"}
  BY SMT DEF i386, Register, RangeOf, NoFlag, Memory

LEMMA StepI386Pushes ==
  ASSUME TypeOK, FrameKept, got = <<>>, GivenOK, I386Pushes, Next, ~Signal
  PROVE  SyscallInv'
  <1>1. arch = i386 /\ call.n = 6 /\ regs = given
    BY DEF I386Pushes
  <1>2. /\ DOMAIN stack = StackAddr /\ DOMAIN regs = Register(arch) /\ Top \in StackAddr
        /\ Top - 1 \in StackAddr /\ Top - 2 \in StackAddr /\ Top - 1 # Top - 2
        /\ Top - 1 - 1 = Top - 2 /\ Top - 2 + 1 = Top - 1
        /\ \A b \in Frame : b # Top - 1 /\ b # Top - 2 /\ b \in StackAddr
    BY SMT DEF TypeOK, Top, StackAddr, Frame
  <1>3. ASSUME ~Idle, sp \in {Top, Top - 1}, NEW x, stack' = [stack EXCEPT ![sp - 1] = x],
               sp' = sp - 1, regs' = regs,
               UNCHANGED <<arch, call, given, got, answer, ret, errno, signals>>
        PROVE  /\ code' = Tail(code)
               /\ TypeOK' /\ FrameKept' /\ got' = <<>> /\ GivenOK'
               /\ stack'[sp - 1] = x
               /\ sp = Top - 1 => stack'[Top - 1] = stack[Top - 1]
    <2>1. code' = Tail(code)
      BY <1>3, InProgress
    <2>2. sp - 1 \in {Top - 1, Top - 2} /\ (sp = Top - 1 => sp - 1 = Top - 2)
      BY <1>2, <1>3
    <2>3. DOMAIN stack' = StackAddr /\ sp' \in StackAddr /\ \A b \in Frame : stack'[b] = stack[b]
      BY <1>2, <1>3, <2>2
    <2>4. TypeOK' /\ FrameKept' /\ got' = <<>> /\ GivenOK'
      BY <1>3, <2>3, BuildsFrame
    <2>5. stack'[sp - 1] = x /\ (sp = Top - 1 => stack'[Top - 1] = stack[Top - 1])
      BY <1>2, <1>3, <2>2
    <2>6. QED
      BY <2>1, <2>4, <2>5
  <1>4. CASE At(<<PushAt(0), Push("ebp"), Load("ebp", 1), Trap, Pop("ebp"), MoveSp(1), Ret>>, Top)
    <2>1. /\ ~Idle /\ Head(code) = PushAt(0) /\ sp = Top
          /\ Tail(code) = <<Push("ebp"), Load("ebp", 1), Trap, Pop("ebp"), MoveSp(1), Ret>>
      BY <1>4, HeadAndTail DEF Idle, At
    <2>2. /\ code' = <<Push("ebp"), Load("ebp", 1), Trap, Pop("ebp"), MoveSp(1), Ret>>
          /\ UNCHANGED <<arch, call, regs, given>>
          /\ TypeOK' /\ FrameKept' /\ got' = <<>> /\ GivenOK'
          /\ sp' = Top - 1 /\ stack'[Top - 1] = Argument(6)
      <3>1. /\ UNCHANGED <<arch, call, given, got, answer, ret, errno, signals>>
            /\ sp' = sp - 1 /\ stack' = [stack EXCEPT ![sp - 1] = stack[sp + 0]] /\ regs' = regs
        BY <2>1, PushAtStep
      <3>2. stack[sp + 0] = Argument(6)
        <4>1. Top + 0 = Top /\ Top \in Frame
          BY SMT DEF Top, Frame, StackAddr
        <4>2. QED
          BY <1>1, <2>1, <4>1, I386Facts DEF FrameKept, FrameWord
      <3>3. QED
        BY <1>3, <2>1, <3>1, <3>2
    <2>3. I386Pushes'
      BY <1>1, <2>2 DEF I386Pushes, At, Top
    <2>4. QED
      BY <2>2, <2>3 DEF SyscallInv, BeforeTrap
  <1>5. CASE /\ At(<<Push("ebp"), Load("ebp", 1), Trap, Pop("ebp"), MoveSp(1), Ret>>, Top - 1)
             /\ stack[Top - 1] = Argument(6)
    <2>1. /\ ~Idle /\ Head(code) = Push("ebp") /\ sp = Top - 1
          /\ Tail(code) = <<Load("ebp", 1), Trap, Pop("ebp"), MoveSp(1), Ret>>
      BY <1>5, HeadAndTail DEF Idle, At
    <2>2. /\ code' = <<Load("ebp", 1), Trap, Pop("ebp"), MoveSp(1), Ret>>
          /\ UNCHANGED <<arch, call, regs, given>>
          /\ TypeOK' /\ FrameKept' /\ got' = <<>> /\ GivenOK'
          /\ sp' = Top - 2 /\ stack'[Top - 2] = regs["ebp"] /\ stack'[Top - 1] = Argument(6)
      <3>1. /\ UNCHANGED <<arch, call, given, got, answer, ret, errno, signals>>
            /\ sp' = sp - 1 /\ stack' = [stack EXCEPT ![sp - 1] = regs["ebp"]] /\ regs' = regs
        BY <2>1, PushStep
      <3>2. QED
        BY <1>2, <1>3, <1>5, <2>1, <3>1
    <2>3. I386Pushes'
      BY <1>1, <2>2 DEF I386Pushes, At, Top
    <2>4. QED
      BY <2>2, <2>3 DEF SyscallInv, BeforeTrap
  <1>6. CASE /\ At(<<Load("ebp", 1), Trap, Pop("ebp"), MoveSp(1), Ret>>, Top - 2)
             /\ stack[Top - 1] = Argument(6) /\ stack[Top - 2] = given["ebp"]
    <2>1. /\ ~Idle /\ Head(code) = Load("ebp", 1) /\ sp = Top - 2
          /\ Tail(code) = <<Trap, Pop("ebp"), MoveSp(1), Ret>>
      BY <1>6, HeadAndTail DEF Idle, At
    <2>2. /\ code' = <<Trap, Pop("ebp"), MoveSp(1), Ret>>
          /\ UNCHANGED <<arch, call, given, got, answer, ret, errno, signals>>
          /\ regs' = [regs EXCEPT !["ebp"] = Argument(6)] /\ stack' = stack /\ sp' = sp
      <3>1. stack[sp + 1] = Argument(6)
        BY <1>2, <1>6, <2>1
      <3>2. /\ UNCHANGED <<arch, call, given, got, answer, ret, errno, signals>>
            /\ regs' = [regs EXCEPT !["ebp"] = stack[sp + 1]] /\ stack' = stack /\ sp' = sp
        BY <2>1, LoadStep
      <3>3. QED
        BY <2>1, <3>1, <3>2, InProgress
    <2>3. /\ DOMAIN regs' = Register(arch) /\ sp' \in StackAddr /\ DOMAIN stack' = StackAddr
          /\ answer' \in [error : Error \cup {0}, result : IntResult \cup PtrResult \cup {0}]
      BY <1>2, <2>1, <2>2 DEF TypeOK
    <2>4. TypeOK' /\ FrameKept'
      BY <2>2, <2>3, Steady
    <2>5. /\ regs'["ebp"] = Argument(6)
          /\ \A r \in Register(i386) \ {"ebp"} : regs'[r] = given[r]
      BY <1>1, <1>2, <2>2, I386Facts
    <2>6. I386Traps'
      BY <1>1, <1>6, <2>1, <2>2, <2>5 DEF I386Traps, At, Top
    <2>7. GivenOK'
      BY <2>2 DEF GivenOK
    <2>8. QED
      BY <2>2, <2>4, <2>6, <2>7 DEF SyscallInv, BeforeTrap
  <1>7. QED
    BY <1>4, <1>5, <1>6 DEF I386Pushes

LEMMA StepI386Traps ==
  ASSUME TypeOK, FrameKept, GivenOK, I386Traps, Next, ~Signal
  PROVE  SyscallInv'
  <1>1. /\ arch = i386 /\ call.n = 6 /\ sp = Top - 2
        /\ code = <<Trap, Pop("ebp"), MoveSp(1), Ret>>
        /\ regs["ebp"] = Argument(6) /\ stack[Top - 2] = given["ebp"]
        /\ \A r \in Register(i386) \ {"ebp"} : regs[r] = given[r]
    BY DEF I386Traps, At
  <1>2. ~Idle /\ Head(code) = Trap /\ Tail(code) = <<Pop("ebp"), MoveSp(1), Ret>>
    BY <1>1, HeadAndTail DEF Idle
  <1>3. ASSUME NEW i \in 0 .. call.n PROVE KernelArg(i) = Argument(i)
    <2>1. /\ given["eax"] = Argument(0)
          /\ \A j \in 1 .. 5 : given[i386.args[j]] = Argument(j)
      <3>1. \A j \in 1 .. 5 : j \in 1 .. call.n
        BY <1>1, SMT
      <3>2. QED
        BY <1>1, <3>1, GivenArguments, I386Facts
    <2>2. i = 0 \/ (i # 0 /\ i <= 6 /\ i \in 1 .. 5 /\ i \in 1 .. 6)
                \/ (i # 0 /\ i <= 6 /\ i = 6 /\ i \in 1 .. 6)
      BY <1>1, SMT
    <2>3. CASE i = 0
      BY <1>1, <2>1, <2>3, I386Facts DEF KernelArg
    <2>4. CASE i # 0 /\ i <= 6 /\ i \in 1 .. 5 /\ i \in 1 .. 6
      BY <1>1, <2>1, <2>4, I386Facts DEF KernelArg
    <2>5. CASE i # 0 /\ i <= 6 /\ i = 6 /\ i \in 1 .. 6
      BY <1>1, <2>1, <2>5, I386Facts DEF KernelArg
    <2>6. QED
      BY <2>2, <2>3, <2>4, <2>5
  <1>4. /\ code' = Tail(code)
        /\ UNCHANGED <<arch, call, sp, given, ret, errno, signals>>
        /\ Arrived' /\ AnswerOK'
        /\ answer' \in [error : Error \cup {0}, result : IntResult \cup PtrResult \cup {0}]
        /\ DOMAIN regs' = Register(arch) /\ DOMAIN stack' = StackAddr
        /\ Signed'
        /\ \A r \in Register(arch) \ (arch.lost \cup {arch.ret, arch.flag}) : regs'[r] = regs[r]
        /\ \A b \in StackAddr : stack'[b] = stack[b]
    BY <1>1, <1>2, <1>3, InProgress, TrapStep, I386Facts
  <1>5. TypeOK' /\ FrameKept'
    <2>1. sp' \in StackAddr /\ \A b \in Frame : stack'[b] = stack[b]
      BY <1>4 DEF TypeOK, Frame
    <2>2. QED
      BY <1>4, <2>1, Steady
  <1>6. I386Pops'
    <2>1. stack'[Top - 2] = given["ebp"]
      <3>1. Top - 2 \in StackAddr
        BY SMT DEF Top, StackAddr
      <3>2. QED
        BY <1>1, <1>4, <3>1
    <2>2. ASSUME NEW r \in Register(arch) \ (arch.changed \cup ({arch.num} \cap arch.lost) \cup {"ebp"})
          PROVE  regs'[r] = given[r]
      BY <1>1, <1>4, ReliedOn, ArchFacts
    <2>3. QED
      BY <1>1, <1>2, <1>4, <2>1, <2>2 DEF I386Pops, KeptBut, At, Top
  <1>7. QED
    BY <1>4, <1>5, <1>6 DEF SyscallInv, BehindTrap

LEMMA StepI386Pops ==
  ASSUME TypeOK, FrameKept, Arrived, AnswerOK, I386Pops, Next, ~Signal
  PROVE  SyscallInv'
  <1>1. /\ arch = i386 /\ Signed
        /\ DOMAIN regs = Register(i386) /\ DOMAIN stack = StackAddr /\ sp \in StackAddr
        /\ answer \in [error : Error \cup {0}, result : IntResult \cup PtrResult \cup {0}]
    BY DEF I386Pops, TypeOK
  <1>2. CASE /\ At(<<Pop("ebp"), MoveSp(1), Ret>>, Top - 2)
             /\ KeptBut({"ebp"}) /\ stack[Top - 2] = given["ebp"]
    <2>1. ~Idle /\ Head(code) = Pop("ebp") /\ Tail(code) = <<MoveSp(1), Ret>> /\ sp = Top - 2
      BY <1>2, HeadAndTail DEF Idle, At
    <2>2. /\ code' = <<MoveSp(1), Ret>>
          /\ UNCHANGED <<arch, call, given, got, answer, ret, errno, signals>>
          /\ sp' = sp + 1 /\ regs' = [regs EXCEPT !["ebp"] = given["ebp"]] /\ stack' = stack
      BY <1>2, <2>1, InProgress, PopStep
    <2>3. sp' = Top - 1 /\ sp' \in StackAddr
      BY <2>1, <2>2, SMT DEF Top, StackAddr
    <2>4. TypeOK' /\ FrameKept'
      BY <1>1, <2>2, <2>3, Steady
    <2>5. KeptBut({})'
      <3>1. ASSUME NEW r \in Register(arch) \ (arch.changed \cup ({arch.num} \cap arch.lost))
            PROVE  regs'[r] = given[r]
        BY <1>1, <1>2, <2>2 DEF KeptBut
      <3>2. QED
        BY <2>2, <3>1 DEF KeptBut
    <2>6. Signed'
      <3>1. regs'["eax"] = regs["eax"]
        BY <1>1, <2>2, I386Facts
      <3>2. QED
        BY <1>1, <2>2, <3>1, I386Facts DEF Signed
    <2>7. I386Pops'
      BY <1>1, <2>2, <2>3, <2>5, <2>6 DEF I386Pops, At, Top
    <2>8. Arrived' /\ AnswerOK'
      BY <2>2 DEF Arrived, AnswerOK
    <2>9. QED
      BY <2>4, <2>7, <2>8 DEF SyscallInv, BehindTrap
  <1>3. CASE At(<<MoveSp(1), Ret>>, Top - 1) /\ KeptBut({})
    <2>1. ~Idle /\ Head(code) = MoveSp(1) /\ Tail(code) = <<Ret>> /\ sp = Top - 1
      BY <1>3, HeadAndTail DEF Idle, At
    <2>2. /\ code' = <<Ret>>
          /\ UNCHANGED <<arch, call, given, got, answer, ret, errno, signals>>
          /\ sp' = sp + 1 /\ regs' = regs /\ stack' = stack
      BY <2>1, InProgress, MoveSpStep
    <2>3. sp' = Top /\ sp' \in StackAddr
      BY <2>1, <2>2, SMT DEF Top, StackAddr
    <2>4. TypeOK' /\ FrameKept' /\ Arrived' /\ AnswerOK' /\ KeptBut({})'
      BY <1>1, <1>3, <2>2, <2>3, LeavesFrame
    <2>5. Signed'
      BY <1>1, <2>2 DEF Signed
    <2>6. Returns'
      BY <2>2, <2>3, <2>4, <2>5 DEF Returns, At, Top
    <2>7. QED
      BY <2>4, <2>6 DEF SyscallInv, BehindTrap
  <1>4. QED
    BY <1>2, <1>3 DEF I386Pops

\* What the macros return and the C code makes of it.
LEMMA ReturnFacts ==
  ASSUME Returns, AnswerOK, Return
  PROVE  /\ Told' /\ errno' \in {errno} \cup 0 .. MaxErrno /\ ret' \in 0 .. (WordSize - 1)
         /\ UNCHANGED <<arch, call, regs, stack, sp, given, got, answer, signals>>
         /\ code' = <<>>
  <1> DEFINE half == WordSize \div 2
             value == regs[arch.ret][2]
  <1>1. /\ WordSize \in Nat /\ MaxErrno \in Nat /\ half \in Nat /\ WordSize = 2 * half
        /\ 0 < MaxErrno /\ MaxErrno < half
    <2>1. /\ WordSize \in Nat /\ MaxErrno \in Nat /\ WordSize % 2 = 0
          /\ 0 < MaxErrno /\ MaxErrno < half
      BY SyscallAssumption
    <2>2. half \in Nat /\ WordSize = 2 * half
      BY <2>1, SMT
    <2>3. QED
      BY <2>1, <2>2
  <1>2. /\ IsError(call.type, value) => ret' = WordSize - 1 /\ errno' = Minus(value)
        /\ ~IsError(call.type, value) => ret' = value /\ errno' = errno
        /\ UNCHANGED <<arch, call, regs, stack, sp, given, got, answer, signals>>
        /\ code' = Tail(code)
    BY DEF Return, Goes, ErrorNumber
  <1>3. code' = <<>>
    BY <1>2, HeadAndTail DEF Returns, At
  <1>4. value = IF answer.error = 0 THEN answer.result ELSE Minus(answer.error)
    BY DEF Returns, Signed, Val
  <1>5. IsError(call.type, value) <=> IF call.type = "int" THEN value >= half
                                      ELSE value >= WordSize - MaxErrno
    BY DEF IsError, Negative
  <1> HIDE DEF half, value
  <1>6. CASE answer.error \in Error /\ answer.result = 0
    <2> DEFINE e == answer.error
    <2>1. e \in 1 .. MaxErrno
      BY <1>6, SyscallAssumption
    <2> HIDE DEF e
    <2>2. e # 0 /\ WordSize - e \in 0 .. (WordSize - 1) /\ WordSize - (WordSize - e) = e
          /\ e \in 0 .. (WordSize - 1) /\ WordSize - e >= half /\ WordSize - e >= WordSize - MaxErrno
      BY <1>1, <2>1, SMT
    <2>3. Minus(e) = WordSize - e /\ Minus(WordSize - e) = e
      BY <1>1, <2>2, SMT DEF Minus
    <2>4. value = WordSize - e
      BY <1>4, <2>2, <2>3 DEF e
    <2>5. ret' = WordSize - 1 /\ errno' = e
      BY <1>2, <1>5, <2>2, <2>3, <2>4
    <2>6. Told'
      BY <1>2, <2>2, <2>5 DEF Told, e
    <2>7. ret' \in 0 .. (WordSize - 1) /\ errno' \in 0 .. MaxErrno
      BY <1>1, <2>1, <2>5, SMT
    <2>8. QED
      BY <1>2, <1>3, <2>6, <2>7
  <1>7. CASE /\ answer.error = 0
             /\ answer.result \in (IF call.type = "int" THEN IntResult ELSE PtrResult)
    <2>1. value = answer.result
      BY <1>4, <1>7
    <2>2. /\ call.type = "int" => value \in 0 .. (half - 1)
          /\ call.type # "int" => value \in 0 .. (WordSize - MaxErrno - 1)
      BY <1>7, <2>1, SyscallAssumption DEF half
    <2>3. /\ call.type = "int" => ~(value >= half) /\ value \in 0 .. (WordSize - 1) /\ value # WordSize - 1
          /\ call.type # "int" => ~(value >= WordSize - MaxErrno) /\ value \in 0 .. (WordSize - 1)
                                  /\ value # WordSize - 1
      BY <1>1, <2>2, SMT
    <2>4. ret' = value /\ errno' = errno /\ value \in 0 .. (WordSize - 1) /\ value # WordSize - 1
      BY <1>2, <1>5, <2>3
    <2>5. Told'
      BY <1>2, <1>7, <2>1, <2>4 DEF Told
    <2>6. QED
      BY <1>2, <1>3, <2>4, <2>5
  <1>8. QED
    BY <1>6, <1>7 DEF AnswerOK

LEMMA StepReturns ==
  ASSUME TypeOK, FrameKept, Arrived, AnswerOK, Returns, Next, ~Signal
  PROVE  SyscallInv'
  <1>1. code = <<Ret>> /\ sp = Top /\ KeptBut({})
    BY DEF Returns, At
  <1>2. ~Idle /\ Head(code) = Ret
    BY <1>1, HeadAndTail DEF Idle
  <1>3. Return
    BY <1>2, RetStep
  <1>4. /\ Told' /\ errno' \in {errno} \cup 0 .. MaxErrno /\ ret' \in 0 .. (WordSize - 1)
        /\ UNCHANGED <<arch, call, regs, stack, sp, given, got, answer, signals>>
        /\ code' = <<>>
    BY <1>3, ReturnFacts
  <1>5. TypeOK' /\ FrameKept'
    BY <1>4 DEF TypeOK, FrameKept, FrameWord
  <1>6. KeptBut({})' /\ Arrived'
    BY <1>1, <1>4 DEF KeptBut, Arrived
  <1>7. AtRest'
    BY <1>1, <1>4, <1>6 DEF AtRest, At, Top
  <1>8. QED
    BY <1>5, <1>7 DEF SyscallInv

\* Between two calls: the next one starts, or the program clears errno.
LEMMA StepAtRest ==
  ASSUME TypeOK, FrameKept, AtRest, Next
  PROVE  SyscallInv'
  <1>1. code = <<>> /\ sp = Top /\ KeptBut({}) /\ (got # <<>> => Arrived /\ Told)
    BY DEF AtRest, At
  <1>2. ClearErrno \/ \E n \in 0 .. 6, type \in {"int", "ptr"} : Call(n, type)
    BY <1>1 DEF Next, Instruction, KernelAnswers, Signal, Return, Goes, Idle
  <1>3. CASE ClearErrno
    <2>1. errno' = 0 /\ UNCHANGED <<arch, call, code, regs, stack, sp, given, got, answer, ret, signals>>
      BY <1>3 DEF ClearErrno
    <2>2. TypeOK' /\ FrameKept'
      <3>1. 0 \in 0 .. MaxErrno
        BY SyscallAssumption, SMT
      <3>2. QED
        BY <2>1, <3>1 DEF TypeOK, FrameKept, FrameWord
    <2>3. got' # <<>> => Arrived' /\ Told'
      BY <1>1, <2>1 DEF Arrived, Told
    <2>4. AtRest'
      BY <1>1, <2>1, <2>3 DEF AtRest, At, KeptBut, Top
    <2>5. QED
      BY <2>2, <2>4 DEF SyscallInv
  <1>4. ASSUME NEW n \in 0 .. 6, NEW type \in {"int", "ptr"}, Call(n, type) PROVE SyscallInv'
    <2>1. /\ call' = [n |-> n, type |-> type]
          /\ code' = Before(arch, n) \o <<Trap>> \o After(arch, n) \o <<Ret>>
          /\ regs' = [r \in Register(arch) |->
                        IF r = arch.num THEN Argument(0)
                        ELSE IF \E i \in 1 .. n : arch.args[i] = r
                               THEN Argument(CHOOSE i \in 1 .. n : arch.args[i] = r)
                        ELSE Kept(r)]
          /\ given' = regs' /\ got' = <<>>
          /\ stack' = [b \in StackAddr |-> IF b \in Frame THEN FrameWord(arch, n, b) ELSE stack[b]]
          /\ UNCHANGED <<arch, sp, answer, ret, errno, signals>>
      BY <1>4 DEF Call
    <2>2. TypeOK' /\ FrameKept'
      <3>1. \A b \in Frame : stack'[b] = FrameWord(arch, n, b)
        BY <2>1 DEF Frame
      <3>2. QED
        BY <2>1, <3>1 DEF TypeOK, FrameKept, FrameWord
    <2>3. GivenOK'
      BY <2>1 DEF GivenOK
    <2>4. arch \in Supported
      BY ArchFacts
    <2>5. call'.n = n /\ Negate' = NegIf(arch.ret, arch.flag) /\ sp' = Top
      BY <1>1, <2>1 DEF Negate
    <2>6. CASE Plain(arch, n)
      <3>1. PlainTraps'
        BY <2>1, <2>4, <2>5, <2>6, CodeOf DEF PlainTraps, At, Top
      <3>2. QED
        BY <2>1, <2>2, <2>3, <3>1 DEF SyscallInv, BeforeTrap
    <2>7. CASE arch = thumb
      <3>1. ThumbSwaps'
        BY <2>1, <2>4, <2>5, <2>7, CodeOf DEF ThumbSwaps, At, Top
      <3>2. QED
        BY <2>1, <2>2, <2>3, <3>1 DEF SyscallInv, BeforeTrap
    <2>8. CASE arch = mips
      <3>1. n < 5 \/ n = 5 \/ n = 6
        BY SMT
      <3>2. MipsBegins'
        BY <2>1, <2>4, <2>5, <2>8, <3>1, CodeOf DEF MipsBegins, At, Top
      <3>3. QED
        BY <2>1, <2>2, <2>3, <3>2 DEF SyscallInv, BeforeTrap
    <2>9. CASE arch = i386 /\ n = 6
      <3>1. I386Pushes'
        BY <2>1, <2>4, <2>5, <2>9, CodeOf DEF I386Pushes, At, Top
      <3>2. QED
        BY <2>1, <2>2, <2>3, <3>1 DEF SyscallInv, BeforeTrap
    <2>10. QED
      BY <2>4, <2>6, <2>7, <2>8, <2>9, SamePlaces DEF Plain
  <1>5. QED
    BY <1>2, <1>3, <1>4

LEMMA BelowFrame ==
  ASSUME BeforeTrap \/ BehindTrap \/ AtRest
  PROVE  sp \in {Top, Top - 1, Top - 2, MipsFrame}
  BY DEF BeforeTrap, BehindTrap, AtRest, PlainTraps, ThumbSwaps, ThumbTraps, ThumbMoves, MipsBegins,
         MipsSaves, MipsTraps, MipsLeaves, I386Pushes, I386Traps, I386Pops, Negates, Returns, At

\* All that the call relies on is in registers, or on the stack at sp or above.
LEMMA StaysInPlace ==
  ASSUME BeforeTrap \/ BehindTrap \/ AtRest,
         UNCHANGED <<arch, call, code, regs, sp, given, got, answer, ret, errno>>,
         \A b \in StackAddr : sp <= b => stack'[b] = stack[b]
  PROVE  (BeforeTrap \/ BehindTrap \/ AtRest)'
  <1>1. /\ sp = MipsFrame => stack'[MipsFrame + 4] = stack[MipsFrame + 4]
        /\ sp = MipsFrame => stack'[MipsFrame + 5] = stack[MipsFrame + 5]
        /\ sp = Top - 1 => stack'[Top - 1] = stack[Top - 1]
        /\ sp = Top - 2 => stack'[Top - 1] = stack[Top - 1]
        /\ sp = Top - 2 => stack'[Top - 2] = stack[Top - 2]
    <2>1. /\ MipsFrame + 4 \in StackAddr /\ MipsFrame <= MipsFrame + 4
          /\ MipsFrame + 5 \in StackAddr /\ MipsFrame <= MipsFrame + 5
          /\ Top - 1 \in StackAddr /\ Top - 1 <= Top - 1 /\ Top - 2 <= Top - 1
          /\ Top - 2 \in StackAddr /\ Top - 2 <= Top - 2
      BY SMT DEF MipsFrame, Top, StackAddr
    <2>2. QED
      BY <2>1
  <1>2. /\ GivenOK' <=> GivenOK
        /\ AnswerOK' <=> AnswerOK
        /\ Arrived' <=> Arrived
        /\ Told' <=> Told
        /\ Signed' <=> Signed
        /\ Raw' <=> Raw
        /\ KeptBut({})' <=> KeptBut({})
        /\ KeptBut({"r7"})' <=> KeptBut({"r7"})
        /\ KeptBut({"ebp"})' <=> KeptBut({"ebp"})
        /\ Negate' = Negate
    BY DEF GivenOK, AnswerOK, Arrived, Told, Signed, Raw, KeptBut, Negate
  <1>3. CASE BeforeTrap
    <2>1. got' = <<>> /\ GivenOK'
      BY <1>2, <1>3 DEF BeforeTrap
    <2>2. CASE PlainTraps
      BY <1>2, <2>1, <2>2 DEF BeforeTrap, PlainTraps, At, Top
    <2>3. CASE ThumbSwaps
      BY <2>1, <2>3 DEF BeforeTrap, ThumbSwaps, At, Top
    <2>4. CASE ThumbTraps
      BY <2>1, <2>4 DEF BeforeTrap, ThumbTraps, At, Top
    <2>5. CASE MipsBegins
      BY <1>2, <2>1, <2>5 DEF BeforeTrap, MipsBegins, At, Top
    <2>6. CASE MipsSaves
      <3>1. MipsSaves'
        BY <1>1, <1>2, <2>6 DEF MipsSaves, At, MipsFrame, Top
      <3>2. QED
        BY <2>1, <3>1 DEF BeforeTrap
    <2>7. CASE MipsTraps
      <3>1. MipsTraps'
        BY <1>1, <1>2, <2>7 DEF MipsTraps, At, MipsFrame, Top
      <3>2. QED
        BY <2>1, <3>1 DEF BeforeTrap
    <2>8. CASE I386Pushes
      <3>1. I386Pushes'
        BY <1>1, <2>8 DEF I386Pushes, At, Top
      <3>2. QED
        BY <2>1, <3>1 DEF BeforeTrap
    <2>9. CASE I386Traps
      <3>1. I386Traps'
        BY <1>1, <2>9 DEF I386Traps, At, Top
      <3>2. QED
        BY <2>1, <3>1 DEF BeforeTrap
    <2>10. QED
      BY <1>3, <2>2, <2>3, <2>4, <2>5, <2>6, <2>7, <2>8, <2>9 DEF BeforeTrap
  <1>4. CASE BehindTrap
    <2>1. Arrived' /\ AnswerOK'
      BY <1>2, <1>4 DEF BehindTrap
    <2>2. CASE ThumbMoves
      <3>1. ThumbMoves'
        BY <1>2, <2>2 DEF ThumbMoves, At, Top
      <3>2. QED
        BY <2>1, <3>1 DEF BehindTrap
    <2>3. CASE MipsLeaves
      <3>1. MipsLeaves'
        BY <1>2, <2>3 DEF MipsLeaves, At, MipsFrame, Top
      <3>2. QED
        BY <2>1, <3>1 DEF BehindTrap
    <2>4. CASE I386Pops
      <3>1. I386Pops'
        BY <1>1, <1>2, <2>4 DEF I386Pops, At, Top
      <3>2. QED
        BY <2>1, <3>1 DEF BehindTrap
    <2>5. CASE Negates
      <3>1. Negates'
        BY <1>2, <2>5 DEF Negates, At, Top
      <3>2. QED
        BY <2>1, <3>1 DEF BehindTrap
    <2>6. CASE Returns
      <3>1. Returns'
        BY <1>2, <2>6 DEF Returns, At, Top
      <3>2. QED
        BY <2>1, <3>1 DEF BehindTrap
    <2>7. QED
      BY <1>4, <2>2, <2>3, <2>4, <2>5, <2>6 DEF BehindTrap
  <1>5. CASE AtRest
    <2>1. AtRest'
      BY <1>2, <1>5 DEF AtRest, At, Top
    <2>2. QED
      BY <2>1
  <1>6. QED
    BY <1>3, <1>4, <1>5

\* A handler writes below sp only, where nothing of the call is.
LEMMA StepSignal ==
  ASSUME SyscallInv, Signal
  PROVE  SyscallInv'
  <1>1. TypeOK /\ FrameKept /\ sp \in StackAddr /\ (BeforeTrap \/ BehindTrap \/ AtRest)
    BY DEF SyscallInv, TypeOK
  <1>2. /\ UNCHANGED <<arch, call, code, regs, sp, given, got, answer, ret, errno>>
        /\ signals < MaxSignals /\ signals' = signals + 1
        /\ DOMAIN stack' = StackAddr
        /\ \A b \in StackAddr : sp <= b => stack'[b] = stack[b]
    BY <1>1, SignalStep
  <1>3. signals' \in 0 .. MaxSignals
    <2>1. signals \in 0 .. MaxSignals /\ MaxSignals \in Nat
      BY <1>1, SyscallAssumption DEF TypeOK
    <2>2. QED
      BY <1>2, <2>1, SMT
  <1>4. TypeOK'
    BY <1>1, <1>2, <1>3 DEF TypeOK
  <1>5. FrameKept'
    <2>1. \A b \in Frame : b \in StackAddr /\ sp <= b
      BY <1>1, BelowFrame, SMT DEF Frame, StackAddr, Top, MipsFrame
    <2>2. QED
      BY <1>1, <1>2, <2>1 DEF FrameKept, FrameWord
  <1>6. (BeforeTrap \/ BehindTrap \/ AtRest)'
    BY <1>1, <1>2, StaysInPlace
  <1>7. QED
    BY <1>4, <1>5, <1>6 DEF SyscallInv

LEMMA SyscallInvInit == Init => SyscallInv
  <1> SUFFICES ASSUME Init PROVE SyscallInv
    OBVIOUS
  <1>1. /\ arch \in Arch /\ call = [n |-> 0, type |-> "int"] /\ code = <<>>
        /\ regs = [r \in Register(arch) |-> Kept(r)] /\ given = regs
        /\ stack = [b \in StackAddr |-> Kept(b)] /\ sp = Top
        /\ got = <<>> /\ answer = [error |-> 0, result |-> 0]
        /\ ret = 0 /\ errno = 0 /\ signals = 0
    BY DEF Init
  <1>2. TypeOK
    <2>1. 0 \in 0 .. (WordSize - 1) /\ 0 \in 0 .. MaxErrno /\ 0 \in 0 .. MaxSignals
      <3>1. /\ WordSize \in Nat /\ MaxErrno \in Nat /\ MaxSignals \in Nat
            /\ 0 < MaxErrno /\ MaxErrno < WordSize \div 2
        BY SyscallAssumption
      <3>2. QED
        BY <3>1, SMT
    <2>2. Top \in StackAddr
      BY SMT DEF Top, StackAddr
    <2>3. 0 \in 0 .. 6
      BY SMT
    <2>4. QED
      BY <1>1, <2>1, <2>2, <2>3 DEF TypeOK
  <1>3. FrameKept
    BY <1>1 DEF FrameKept, FrameWord, Frame
  <1>4. AtRest
    BY <1>1 DEF AtRest, At, KeptBut
  <1>5. QED
    BY <1>2, <1>3, <1>4 DEF SyscallInv

LEMMA SyscallInvNext == SyscallInv /\ [Next]_vars => SyscallInv'
  <1> SUFFICES ASSUME SyscallInv, [Next]_vars PROVE SyscallInv'
    OBVIOUS
  <1>1. CASE Next /\ Signal
    BY <1>1, StepSignal
  <1>2. CASE Next /\ ~Signal
    <2>1. TypeOK /\ FrameKept
      BY DEF SyscallInv
    <2>2. CASE BeforeTrap
      <3>1. got = <<>> /\ GivenOK
        BY <2>2 DEF BeforeTrap
      <3>2. CASE PlainTraps
        BY <1>2, <2>1, <3>1, <3>2, StepPlainTraps
      <3>3. CASE ThumbSwaps
        BY <1>2, <2>1, <3>1, <3>3, StepThumbSwaps
      <3>4. CASE ThumbTraps
        BY <1>2, <2>1, <3>1, <3>4, StepThumbTraps
      <3>5. CASE MipsBegins
        BY <1>2, <2>1, <3>1, <3>5, StepMipsBegins
      <3>6. CASE MipsSaves
        BY <1>2, <2>1, <3>1, <3>6, StepMipsSaves
      <3>7. CASE MipsTraps
        BY <1>2, <2>1, <3>1, <3>7, StepMipsTraps
      <3>8. CASE I386Pushes
        BY <1>2, <2>1, <3>1, <3>8, StepI386Pushes
      <3>9. CASE I386Traps
        BY <1>2, <2>1, <3>1, <3>9, StepI386Traps
      <3>10. QED
        BY <2>2, <3>2, <3>3, <3>4, <3>5, <3>6, <3>7, <3>8, <3>9 DEF BeforeTrap
    <2>3. CASE BehindTrap
      <3>1. Arrived /\ AnswerOK
        BY <2>3 DEF BehindTrap
      <3>2. CASE ThumbMoves
        BY <1>2, <2>1, <3>1, <3>2, StepThumbMoves
      <3>3. CASE MipsLeaves
        BY <1>2, <2>1, <3>1, <3>3, StepMipsLeaves
      <3>4. CASE I386Pops
        BY <1>2, <2>1, <3>1, <3>4, StepI386Pops
      <3>5. CASE Negates
        BY <1>2, <2>1, <3>1, <3>5, StepNegates
      <3>6. CASE Returns
        BY <1>2, <2>1, <3>1, <3>6, StepReturns
      <3>7. QED
        BY <2>3, <3>2, <3>3, <3>4, <3>5, <3>6 DEF BehindTrap
    <2>4. CASE AtRest
      BY <1>2, <2>1, <2>4, StepAtRest
    <2>5. QED
      BY <2>2, <2>3, <2>4 DEF SyscallInv
  <1>3. CASE UNCHANGED vars
    <2>1. /\ TypeOK /\ FrameKept /\ (BeforeTrap \/ BehindTrap \/ AtRest)
          /\ UNCHANGED <<arch, call, code, regs, stack, sp, given, got, answer, ret, errno, signals>>
      BY <1>3 DEF SyscallInv, vars
    <2>2. TypeOK' /\ FrameKept'
      BY <2>1 DEF TypeOK, FrameKept, FrameWord
    <2>3. (BeforeTrap \/ BehindTrap \/ AtRest)'
      BY <2>1, StaysInPlace
    <2>4. QED
      BY <2>2, <2>3 DEF SyscallInv
  <1>4. QED
    BY <1>1, <1>2, <1>3

-----------------------------------------------------------------------------
(* The theorems.                                                           *)

\* While a call is in progress there are instructions left.
LEMMA NotIdleWithin == BeforeTrap \/ BehindTrap => ~Idle
  <1>1. BeforeTrap => code # <<>>
    BY HeadAndTail DEF BeforeTrap, PlainTraps, ThumbSwaps, ThumbTraps, MipsBegins, MipsSaves,
                       MipsTraps, I386Pushes, I386Traps, At
  <1>2. BehindTrap => code # <<>>
    <2>1. ThumbMoves \/ Negates \/ Returns => code # <<>>
      BY HeadAndTail DEF ThumbMoves, Negates, Returns, At
    <2>2. MipsLeaves \/ I386Pops => code # <<>>
      BY HeadAndTail DEF MipsLeaves, I386Pops, At
    <2>3. QED
      BY <2>1, <2>2 DEF BehindTrap
  <1>3. QED
    BY <1>1, <1>2 DEF Idle

LEMMA SyscallInvImplies ==
  ASSUME SyscallInv
  PROVE  TypeOK /\ ArgumentsArrive /\ CompilerKeepsValues /\ RefusedMeansMinusOne
  <1>1. TypeOK /\ FrameKept /\ (BeforeTrap \/ BehindTrap \/ AtRest)
    BY DEF SyscallInv
  <1>2. ArgumentsArrive
    BY <1>1 DEF ArgumentsArrive, BeforeTrap, BehindTrap, AtRest, Arrived
  <1>3. CompilerKeepsValues
    <2>1. Idle => AtRest
      BY <1>1, NotIdleWithin
    <2>2. QED
      BY <1>1, <2>1 DEF CompilerKeepsValues, AtRest, KeptBut, At, FrameKept
  <1>4. RefusedMeansMinusOne
    <2>1. Idle => AtRest
      BY <1>1, NotIdleWithin
    <2>2. QED
      BY <2>1 DEF RefusedMeansMinusOne, AtRest, Told
  <1>5. QED
    BY <1>1, <1>2, <1>3, <1>4

LEMMA SyscallInvHolds == Spec => []SyscallInv
  BY SyscallInvInit, SyscallInvNext, PTL DEF Spec

\* The instructions of the macros of the supported architectures name registers of
\* theirs only, move sp within the stack, and what __sysret() and mmap() leave is a
\* word and an error number.
THEOREM SyscallTypes == Spec => []TypeOK
  <1>1. SyscallInv => TypeOK
    BY SyscallInvImplies
  <1>2. QED
    BY <1>1, SyscallInvHolds, PTL

\* On every supported architecture my_syscall0() to my_syscall6() give the kernel the
\* number and each argument in its place: through the swap of r7 and r6 in Thumb mode,
\* the frame of mips and the words i386 pushes, with signal handlers that write over
\* the stack below sp before any of the instructions.
THEOREM ArgumentsAlwaysArrive == Spec => []ArgumentsArrive
  <1>1. SyscallInv => ArgumentsArrive
    BY SyscallInvImplies
  <1>2. QED
    BY <1>1, SyscallInvHolds, PTL

\* Behind each asm statement the registers it does not name as changed, but for that of
\* the number where the kernel loses it, the stack pointer and the caller's frame are
\* as the compiler left them.
THEOREM CompilerValuesKept == Spec => []CompilerKeepsValues
  <1>1. SyscallInv => CompilerKeepsValues
    BY SyscallInvImplies
  <1>2. QED
    BY <1>1, SyscallInvHolds, PTL

\* __sysret() and mmap() return -1 with the number of the error if and only if the kernel
\* refused the call, for words of any even number of values of which less than half
\* are errors, whether the architecture tells an error by its sign or by a flag.
THEOREM RefusalIsTold == Spec => []RefusedMeansMinusOne
  <1>1. SyscallInv => RefusedMeansMinusOne
    BY SyscallInvImplies
  <1>2. QED
    BY <1>1, SyscallInvHolds, PTL
=============================================================================
