-------------------------------- MODULE Break -------------------------------
(***************************************************************************)
(* The two positions a program moves in the kernel and is told by number:   *)
(* the program break with brk() and sbrk(), and the offset of a file with   *)
(* lseek(), which on some 32-bit kernels has to make do with llseek().      *)
(*                                                                         *)
(* Offsets of the kernel are wider than an off_t of the program.            *)
(***************************************************************************)
EXTENDS Errno, Integers

CONSTANTS
  AddressMax,       \* the largest address
  BreakStart, BreakLimit,   \* between them the kernel lets the break move
  BreakArg,         \* the addresses given to brk()
  Increment,        \* the increments given to sbrk()
  OffMax,           \* the largest off_t
  PosMax,           \* the largest offset of the kernel
  FileSize,
  Offset            \* the offsets given to lseek()

ASSUME BreakAssumption ==
  /\ AddressMax \in Nat /\ BreakStart \in 1 .. AddressMax
  /\ BreakLimit \in BreakStart .. AddressMax
  /\ Increment \subseteq Int /\ BreakArg \subseteq 0 .. AddressMax
  /\ OffMax \in Nat /\ PosMax \in Nat /\ FileSize \in 0 .. PosMax
  /\ Offset \subseteq (-(OffMax + 1)) .. OffMax

VARIABLES
  break,       \* the program break
  pos,         \* the offset of the open file
  hasLseek,    \* whether the kernel has lseek()
  move,        \* the last call: its function, where it was to go, and where from
  result       \* what it returned

breakVars == <<break, pos, hasLseek, move, result>>

Move(f, to, from) == [fn |-> f, to |-> to, from |-> from]

MinusOne == -1

-----------------------------------------------------------------------------
(* The break.                                                              *)

Wrap(address) == address % (AddressMax + 1)

\* The kernel moves the break, or leaves it and returns where it is; it never
\* moves it beyond its bounds.
BreakAfter(address) ==
  {break} \cup (IF address \in BreakStart .. BreakLimit THEN {address} ELSE {})

sys_brk(address, next) == next \in BreakAfter(address) /\ break' = next

\* The kernel's answer is where the break is, whether it was moved or not, and so never
\* NULL: the call says 0 although it was refused (BrkZeroMeansMoved).
brk(address) ==
  /\ \E next \in BreakAfter(address) :
       /\ sys_brk(address, next)
       /\ IF next = 0 THEN result' = MinusOne /\ SET_ERRNO(ENOMEM)
          ELSE result' = 0 /\ UNCHANGED errno
  /\ move' = Move("brk", address, break)
  /\ UNCHANGED <<pos, hasLseek>>

\* Mutant of Agrees: any answer is a success, as for brk().
AgreesAlways(answer, address) == answer # 0

\* Whether the kernel has moved the break to the address.
Agrees(answer, address) == answer = address

\* The first call, with 0, only asks for the break.
sbrk(inc) ==
  LET address == Wrap(break + inc)
  IN  /\ \E next \in BreakAfter(address) :
           /\ sys_brk(address, next)
           /\ IF break # 0 /\ Agrees(next, address)
                THEN result' = address /\ UNCHANGED errno
                ELSE result' = MinusOne /\ SET_ERRNO(ENOMEM)
      /\ move' = Move("sbrk", break + inc, break)
      /\ UNCHANGED <<pos, hasLseek>>

-----------------------------------------------------------------------------
(* The offset.                                                             *)

Whence == {"SEEK_SET", "SEEK_CUR", "SEEK_END"}

Base(whence) == CASE whence = "SEEK_SET" -> 0
                  [] whence = "SEEK_CUR" -> pos
                  [] whence = "SEEK_END" -> FileSize

\* (unsigned long)offset, with a high word of 0.
LowWord(offset) == offset % (2 * (OffMax + 1))

\* Mutant of ToldOffset: the low word of the offset, whatever the high word is.
ToldLowWord(loff) == IF loff % (2 * (OffMax + 1)) <= OffMax
                     THEN loff % (2 * (OffMax + 1)) ELSE -EOVERFLOW

\* Mutant of ToldOffset: the kernel's offset, whether off_t can hold it or not.
ToldUnchecked(loff) == loff

\* An offset that off_t cannot hold is an error, although the file is there now:
\* the kernel's lseek() has it so too.
ToldOffset(loff) == IF loff <= OffMax THEN loff ELSE -EOVERFLOW

\* The kernel moves the offset by what it is given.
Seeks(loff) ==
  IF loff \in 0 .. PosMax
    THEN pos' = loff /\ result' = IF ToldOffset(loff) >= 0 THEN ToldOffset(loff) ELSE MinusOne
    ELSE UNCHANGED pos /\ result' = MinusOne

SeekError(loff) == IF loff \in 0 .. PosMax THEN -ToldOffset(loff) ELSE EINVAL

lseek(offset, whence) ==
  LET given == IF hasLseek THEN offset ELSE LowWord(offset)
      loff  == Base(whence) + given
  IN  /\ Seeks(loff)
      /\ IF result' = MinusOne THEN SET_ERRNO(SeekError(loff)) ELSE UNCHANGED errno
      /\ move' = Move("lseek", Base(whence) + offset, pos)
      /\ UNCHANGED <<break, hasLseek>>

-----------------------------------------------------------------------------

BreakInit ==
  /\ break = BreakStart /\ pos = 0
  /\ hasLseek \in BOOLEAN
  /\ move = Move("none", 0, 0) /\ result = 0

BreakNext ==
  \/ \E address \in BreakArg : brk(address)
  \/ \E inc \in Increment : sbrk(inc)
  \/ \E offset \in Offset, whence \in Whence : lseek(offset, whence)

BreakSpec == BreakInit /\ errno = 0 /\ [][BreakNext]_<<breakVars, errno>>

-----------------------------------------------------------------------------
(* Properties.                                                             *)

BreakTypeOK ==
  /\ break \in BreakStart .. BreakLimit
  /\ pos \in 0 .. PosMax
  /\ hasLseek \in BOOLEAN
  /\ result \in {MinusOne} \cup 0 .. (IF move.fn = "lseek" THEN OffMax ELSE AddressMax)

\* sbrk() says -1, with ENOMEM, exactly when the break is still where it was and not
\* where it was to go; of the address it returns otherwise see SbrkReturnsPrevious.  An
\* offset that lseek() tells is the one the file has and the one asked for, and after an
\* error the file's is what it was, unless off_t cannot hold the new one.  The low word
\* of a negative offset is a large number: on a kernel without lseek() such a seek fails,
\* but it never says that it went somewhere else.
PositionsTold ==
  /\ move.fn = "sbrk" =>
       IF result = MinusOne
         THEN break = move.from /\ break # Wrap(move.to) /\ errno = ENOMEM
         ELSE break = Wrap(move.to)
  /\ move.fn = "lseek" =>
       IF result = MinusOne THEN pos = move.from \/ errno = EOVERFLOW
       ELSE result = pos /\ result = move.to

-----------------------------------------------------------------------------
(* What man(2) documents, which sys.h says the functions closely match.     *)

\* brk() returns 0 only if the break is now at the address it was given.
BrkZeroMeansMoved ==
  move.fn = "brk" /\ result = 0 => break = move.to

\* An sbrk() that moves the break returns where it was before, which is where the memory
\* begins that the program has asked for.
SbrkReturnsPrevious ==
  move.fn = "sbrk" /\ result # MinusOne => result = move.from
=============================================================================
