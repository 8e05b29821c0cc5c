------------------------------- MODULE Strings ------------------------------
(***************************************************************************)
(* The memory and string functions of string.h: one call, on any memory of  *)
(* a few bytes.  They keep no state, so that a call after another is one on *)
(* another memory.                                                         *)
(*                                                                         *)
(* memmove() and memcpy() copy a byte per step, in the order of the C code  *)
(* or of the assembly of x86_64; the others are one step each, for areas    *)
(* that do not overlap.  The program keeps to what the functions ask of it: *)
(* terminated strings, and room for what is written.                       *)
(***************************************************************************)
EXTENDS SizeT, Sequences

CONSTANTS
  MemSize,    \* the number of bytes
  Byte,       \* the values they take
  CharArg,    \* the ints given for characters
  SizeArg     \* the sizes given to the functions

ASSUME StringsAssumption ==
  /\ MemSize \in Nat /\ MemSize <= SizeMax
  /\ {0} \subseteq Byte /\ Byte \subseteq 0 .. 255
  /\ CharArg \subseteq Int /\ \A c \in CharArg : c % 256 \in Byte
  /\ SizeArg \subseteq 0 .. SizeMax

VARIABLES
  mem,         \* the memory
  before,      \* the memory when the call began
  op,          \* the call
  ret,         \* its result
  pos, len,    \* the loop of memmove() and memcpy(); len is 0 behind it
  rep          \* whether they are those of x86_64

stringsVars == <<mem, before, op, ret, pos, len, rep>>

Place   == 0 .. (MemSize - 1)
Nowhere == -1     \* NULL

Area(p, n)  == p .. (p + n - 1)
InMemory(s) == s \subseteq Place

Call(f, dst, src, n, c) == [fn |-> f, dst |-> dst, src |-> src, n |-> n, c |-> c]

NoCall  == op.fn = "none"
Copying == len > 0

\* The least number for which the loop condition fails.
Until(Stop(_)) == CHOOSE k \in 0 .. MemSize : Stop(k) /\ \A j \in 0 .. (k - 1) : ~Stop(j)

-----------------------------------------------------------------------------
(* Functions that only read.                                               *)

strnlen(p, max) == Until(LAMBDA k : k = max \/ mem[p + k] = 0)

strlen(p) == Until(LAMBDA k : mem[p + k] = 0)

\* Mutant of memcmp: characters are signed.
memcmpSigned(p, q, n) ==
  LET ofs == Until(LAMBDA k : k = n \/ mem[p + k] # mem[q + k])
      Char(b) == IF b > 127 THEN b - 256 ELSE b
  IN  IF ofs = n THEN 0 ELSE Char(mem[p + ofs]) - Char(mem[q + ofs])

memcmp(p, q, n) ==
  LET ofs == Until(LAMBDA k : k = n \/ mem[p + k] # mem[q + k])
  IN  IF ofs = n THEN 0 ELSE mem[p + ofs] - mem[q + ofs]

strncmp(p, q, n) ==
  LET ofs == Until(LAMBDA k : k = n \/ mem[p + k] # mem[q + k] \/ mem[q + k] = 0)
  IN  IF ofs = n THEN 0 ELSE mem[p + ofs] - mem[q + ofs]

\* Without a size nothing but the end of both strings ends the loop.
strcmp(p, q) == strncmp(p, q, MemSize)

\* The terminator is not looked at.
strchr(p, c) ==
  LET ofs == Until(LAMBDA k : mem[p + k] = 0 \/ mem[p + k] = c % 256)
  IN  IF mem[p + ofs] = 0 THEN Nowhere ELSE p + ofs

strrchr(p, c) ==
  LET hits == {q \in Area(p, strlen(p)) : mem[q] = c % 256}
  IN  IF hits = {} THEN Nowhere ELSE CHOOSE q \in hits : \A r \in hits : r <= q

\* An empty needle is not found.
strstr(haystack, needle) ==
  LET len_needle == strlen(needle)
      tries      == haystack .. (haystack + strlen(haystack) - len_needle)
      hits       == {q \in tries : memcmp(q, needle, len_needle) = 0}
  IN  IF len_needle = 0 \/ hits = {} THEN Nowhere ELSE CHOOSE q \in hits : \A r \in hits : q <= r

-----------------------------------------------------------------------------
(* What a program may pass.                                                *)

IsString(p) == \E q \in Place : p <= q /\ mem[q] = 0

\* A scan from p that ends at a zero or after n bytes.
Scannable(p, n) == IsString(p) \/ InMemory(Area(p, n))

Text(p, n) == Area(p, n + 1)

\* The call is made and returns.
Returns(f, dst, src, n, c, result) ==
  /\ op' = Call(f, dst, src, n, c)
  /\ before' = mem
  /\ ret' = result
  /\ UNCHANGED <<pos, len, rep>>

\* The written bytes are memory and no byte of them is read.
Writes(written, read) == InMemory(written) /\ written \cap read = {}

Reads(p, q, n, c) ==
  /\ \/ IsString(p) /\ Returns("strlen", p, p, 0, 0, strlen(p))
     \/ Scannable(p, n) /\ Returns("strnlen", p, p, n, 0, strnlen(p, n))
     \/ IsString(p) /\ Returns("strchr", p, p, 0, c, strchr(p, c))
     \/ IsString(p) /\ Returns("strrchr", p, p, 0, c, strrchr(p, c))
     \/ /\ InMemory(Area(p, n)) /\ InMemory(Area(q, n))
        /\ Returns("memcmp", p, q, n, 0, memcmp(p, q, n))
     \/ /\ Scannable(p, n) /\ Scannable(q, n)
        /\ Returns("strncmp", p, q, n, 0, strncmp(p, q, n))
     \/ IsString(p) /\ IsString(q) /\ Returns("strcmp", p, q, 0, 0, strcmp(p, q))
     \/ IsString(p) /\ IsString(q) /\ Returns("strstr", p, q, 0, 0, strstr(p, q))
  /\ UNCHANGED mem

-----------------------------------------------------------------------------
(* Copies of areas that do not overlap.                                    *)

\* n bytes from src to dst, and then the bytes tail.
Stored(dst, src, n, tail) ==
  [p \in Place |-> IF p \in Area(dst, n) THEN mem[src + (p - dst)]
                   ELSE IF p \in Area(dst + n, Len(tail)) THEN tail[p - (dst + n) + 1]
                   ELSE mem[p]]

Zeros(n) == [i \in 1 .. n |-> 0]

memset(dst, c, n) ==
  /\ InMemory(Area(dst, n))
  /\ Returns("memset", dst, dst, n, c, dst)
  /\ mem' = Stored(dst, dst, 0, [i \in 1 .. n |-> c % 256])

strcpy(dst, src) ==
  /\ IsString(src) /\ Writes(Text(dst, strlen(src)), Text(src, strlen(src)))
  /\ Returns("strcpy", dst, src, 0, 0, dst)
  /\ mem' = Stored(dst, src, strlen(src), <<0>>)

strncpy(dst, src, n) ==
  LET k == strnlen(src, n)
  IN  /\ Scannable(src, n) /\ Writes(Area(dst, n), Text(src, k))
      /\ Returns("strncpy", dst, src, n, 0, dst)
      /\ mem' = Stored(dst, src, k, Zeros(n - k))

strncat(dst, src, n) ==
  LET end == dst + strlen(dst)
      k   == strnlen(src, n)
  IN  /\ IsString(dst) /\ Scannable(src, n) /\ Writes(Text(dst, strlen(dst) + k), Text(src, k))
      /\ Returns("strncat", dst, src, n, 0, dst)
      /\ mem' = Stored(end, src, k, <<0>>)

\* Mutant of strlcpy: a string that fills the buffer has no terminator.
strlcpyUnterminated(dst, src, size) ==
  LET k == strnlen(src, size)
  IN  /\ IsString(src) /\ Writes(Area(dst, k) \cup (IF k < size THEN {dst + k} ELSE {}),
                                 Text(src, strlen(src)))
      /\ Returns("strlcpy", dst, src, size, 0, strlen(src))
      /\ mem' = Stored(dst, src, k, IF k < size THEN <<0>> ELSE <<>>)

\* size bytes are copied when there is no zero among them, and the last is then
\* replaced.
strlcpy(dst, src, size) ==
  LET k == strnlen(src, size)
  IN  /\ IsString(src)
      /\ Writes(IF k < size THEN Text(dst, k) ELSE Area(dst, size), Text(src, strlen(src)))
      /\ IF k < size
           THEN /\ Returns("strlcpy", dst, src, size, 0, k)
                /\ mem' = Stored(dst, src, k, <<0>>)
           ELSE /\ Returns("strlcpy", dst, src, size, 0, strlen(src))
                /\ mem' = IF size > 0 THEN Stored(dst, src, size - 1, <<0>>) ELSE mem

\* Mutant of HasRoom: the code without its comment, len < size - 1.
HasRoomWraps(used, size) == used < Wrap(size - 1)

HasRoom(used, size) == Wrap(used + 1) < size

strlcat(dst, src, size) ==
  LET used == strnlen(dst, size)
      k    == Until(LAMBDA i : ~HasRoom(used + i, size) \/ mem[src + i] = 0)
      last == used + k
  IN  /\ Scannable(dst, size) /\ IsString(src)
      /\ Writes(IF last < size THEN Text(dst, last) ELSE Area(dst, last), Text(src, strlen(src)))
      /\ Returns("strlcat", dst, src, size, 0, last + strlen(src + k))
      /\ mem' = Stored(dst + used, src, k, IF last < size THEN <<0>> ELSE <<>>)

-----------------------------------------------------------------------------
(* memmove() and memcpy().                                                 *)

\* Mutant of Upwards: always from the first byte on.
UpwardsAlways(f, dst, src, n) == TRUE

\* From the first byte on, or from the last one down.
Upwards(f, dst, src, n) ==
  IF rep THEN ~(Wrap(dst - src) < n) ELSE f = "memcpy" \/ dst < src

\* Before the first byte, or behind the last.
CopyBegins(f, dst, src, n) ==
  /\ InMemory(Area(dst, n)) /\ InMemory(Area(src, n))
  /\ f = "memcpy" => Area(dst, n) \cap Area(src, n) = {}
  /\ op' = Call(f, dst, src, n, 0)
  /\ before' = mem
  /\ pos' = IF Upwards(f, dst, src, n) THEN Wrap(-1) ELSE n
  /\ len' = n
  /\ ret' = dst
  /\ UNCHANGED <<mem, rep>>

CopyByte ==
  /\ Copying
  /\ pos' = Wrap(pos + (IF Upwards(op.fn, op.dst, op.src, op.n) THEN 1 ELSE -1))
  /\ mem' = [mem EXCEPT ![op.dst + pos'] = mem[op.src + pos']]
  /\ len' = len - 1
  /\ UNCHANGED <<before, op, ret, rep>>

-----------------------------------------------------------------------------

StringsInit ==
  /\ mem \in [Place -> Byte]
  /\ before = mem
  /\ op = Call("none", 0, 0, 0, 0)
  /\ ret = Nowhere /\ pos = 0 /\ len = 0
  /\ rep \in BOOLEAN

Begins ==
  \/ \E p, q \in Place, n \in SizeArg, c \in CharArg : Reads(p, q, n, c)
  \/ \E dst \in Place, n \in SizeArg, c \in CharArg : memset(dst, c, n)
  \/ \E dst, src \in Place : strcpy(dst, src)
  \/ \E dst, src \in Place, n \in SizeArg : strncpy(dst, src, n)
  \/ \E dst, src \in Place, n \in SizeArg : strncat(dst, src, n)
  \/ \E dst, src \in Place, n \in SizeArg : strlcpy(dst, src, n)
  \/ \E dst, src \in Place, n \in SizeArg : strlcat(dst, src, n)
  \/ \E f \in {"memmove", "memcpy"}, dst, src \in Place, n \in SizeArg : CopyBegins(f, dst, src, n)

StringsNext == (NoCall /\ Begins) \/ CopyByte

StringsSpec == StringsInit /\ [][StringsNext]_stringsVars

-----------------------------------------------------------------------------
(* Properties.                                                             *)

StringsTypeOK ==
  /\ mem \in [Place -> Byte] /\ before \in [Place -> Byte]
  /\ pos \in 0 .. SizeMax /\ len \in 0 .. SizeMax
  /\ rep \in BOOLEAN

\* The n bytes at p when the call began, the string at p, and at most n of it.
Bytes(p, n)  == [i \in 1 .. n |-> before[p + i - 1]]
Str(p)       == LET end == CHOOSE q \in Place : p <= q /\ before[q] = 0 /\ \A r \in p .. (q - 1) : before[r] # 0
                IN  Bytes(p, end - p)
StrAtMost(p, n) == IF \E q \in Place : p <= q /\ q < p + n /\ before[q] = 0 THEN Str(p) ELSE Bytes(p, n)

Take(s, n) == SubSeq(s, 1, IF n < Len(s) THEN n ELSE Len(s))

\* The bytes from p on are s, and every other byte is what it was.
OnlyChanges(p, s) ==
  mem = [q \in Place |-> IF q \in Area(p, Len(s)) THEN s[q - p + 1] ELSE before[q]]

Unchanged == mem = before

\* The order of two strings of bytes.
Less(s, t) ==
  \E i \in 1 .. (Len(s) + 1) :
    /\ i <= Len(t) /\ SubSeq(s, 1, i - 1) = SubSeq(t, 1, i - 1)
    /\ i > Len(s) \/ s[i] < t[i]

Compares(s, t) == (ret < 0 <=> Less(s, t)) /\ (ret > 0 <=> Less(t, s))

\* The places of the byte c in the string at p, and of the string t in it.
PlacesOf(c, p) == {q \in Area(p, Len(Str(p))) : before[q] = c % 256}
Matches(t, p)  == {q \in Area(p, Len(Str(p)) - Len(t) + 1) : Bytes(q, Len(t)) = t}

First(s) == IF s = {} THEN Nowhere ELSE CHOOSE p \in s : \A q \in s : p <= q
Last(s)  == IF s = {} THEN Nowhere ELSE CHOOSE p \in s : \A q \in s : p >= q

\* The area is moved as if through a copy, whatever the overlap.
Moved(dst, src, n) == OnlyChanges(dst, Bytes(src, n)) /\ ret = dst

\* What a call did, from the memory it found: the bounded copies cut and terminate
\* their result and tell the length it would have had, for sizes of 0 and SIZE_MAX
\* too; overlapping areas are moved as if through a copy; comparisons are those of
\* unsigned bytes; no byte but those of the result is written.
Did(f, dst, src, n, c) ==
  CASE f = "strlen"  -> Unchanged /\ ret = Len(Str(dst))
    [] f = "strnlen" -> Unchanged /\ ret = Len(StrAtMost(dst, n))
    [] f = "strchr"  -> Unchanged /\ ret = First(IF c % 256 = 0 THEN {} ELSE PlacesOf(c, dst))
    [] f = "strrchr" -> Unchanged /\ ret = Last(IF c % 256 = 0 THEN {} ELSE PlacesOf(c, dst))
    [] f = "memcmp"  -> Unchanged /\ Compares(Bytes(dst, n), Bytes(src, n))
    [] f = "strcmp"  -> Unchanged /\ Compares(Str(dst), Str(src))
    [] f = "strncmp" -> Unchanged /\ Compares(StrAtMost(dst, n), StrAtMost(src, n))
    [] f = "strstr"  -> Unchanged /\ ret = First(IF Str(src) = <<>> THEN {} ELSE Matches(Str(src), dst))
    [] f = "memset"  -> OnlyChanges(dst, [i \in 1 .. n |-> c % 256])
    [] f \in {"memmove", "memcpy"} -> Moved(dst, src, n)
    [] f = "strcpy"  -> OnlyChanges(dst, Append(Str(src), 0))
    [] f = "strncpy" -> OnlyChanges(dst, Take(StrAtMost(src, n) \o Zeros(n), n))
    [] f = "strncat" -> OnlyChanges(dst, Str(dst) \o Append(StrAtMost(src, n), 0))
    [] f = "strlcpy" ->
         /\ ret = Len(Str(src))
         /\ IF n = 0 THEN Unchanged ELSE OnlyChanges(dst, Append(Take(Str(src), n - 1), 0))
    [] f = "strlcat" ->
         LET old == StrAtMost(dst, n)
         IN  /\ ret = Len(old) + Len(Str(src))
             /\ IF Len(old) = n THEN Unchanged
                ELSE OnlyChanges(dst, Append(Take(old \o Str(src), n - 1), 0))
    [] OTHER -> Unchanged

\* Behind every call the memory and the result are what its function is defined to do.
StringsAsDefined == ~Copying => Did(op.fn, op.dst, op.src, op.n, op.c)
=============================================================================
