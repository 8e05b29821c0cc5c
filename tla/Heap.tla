-------------------------------- MODULE Heap --------------------------------
(***************************************************************************)
(* The dynamic memory of nolibc: malloc(), calloc(), realloc(), free(),    *)
(* strdup() and strndup() over mmap() and munmap().                        *)
(*                                                                         *)
(* Every block is a mapping of its own.  Its first word, the header        *)
(* (struct nolibc_heap), holds the length that was asked from mmap(); the  *)
(* user pointer follows the header.  free() and realloc() trust that word. *)
(*                                                                         *)
(* Addresses are bytes.  Sizes are values of size_t: every sum and product *)
(* the code computes on them is taken modulo SizeMax + 1.  The calls are   *)
(* atomic: nolibc has no threads and a process has a heap of its own.  The *)
(* kernel decides where a mapping goes and whether a call succeeds.        *)
(***************************************************************************)
EXTENDS SizeT

CONSTANTS
  PageSize,    \* the granularity of mmap(), 4096 in the code
  HeaderSize,  \* sizeof(struct nolibc_heap)
  Address,     \* the addresses the kernel may map, none of them NULL
  Request,     \* the sizes the program asks for
  StrLen       \* the lengths of the strings the program duplicates: a string is
               \* in memory, which leaves out the page of NULL

ASSUME HeapAssumption ==
  /\ PageSize \in Nat /\ HeaderSize \in Nat
  /\ 0 < HeaderSize /\ HeaderSize < PageSize
  /\ PageSize <= SizeMax
  /\ (SizeMax + 1) % PageSize = 0
  /\ Address \subseteq Nat \ {0}
  /\ Request \subseteq 0 .. SizeMax
  /\ StrLen \subseteq 0 .. (SizeMax - PageSize)

VARIABLES
  mapped,   \* the bytes that are mapped
  nonzero,  \* the mapped user bytes that do not hold zero
  header,   \* header[b]: the heap->len stored at address b, 0 when unmapped
  live,     \* the user pointers the program owns
  size,     \* size[p]: the bytes the program was promised at p, 0 if not owned
  leaked,   \* the bytes of released blocks that munmap() refused to unmap
  failed,   \* the last call returned NULL
  errno,
  overrun   \* the request whose realloc() copied past the end of the new block,
            \* None otherwise; what follows such a copy is undefined

vars == <<mapped, nonzero, header, live, size, leaked, failed, errno, overrun>>

Errno == {"0", "ENOMEM", "EINVAL"}

None == -1

\* The bytes [a, a + n[.
Extent(a, n) == a .. (a + n - 1)

\* Mutant of RoundedLen: rounds down.
RoundedDown(len) ==
  LET n == Wrap(HeaderSize + len) IN n - (n % PageSize)

\* malloc(): the header is added, then the sum is rounded up to whole pages.
RoundedLen(len) ==
  LET up == Wrap(Wrap(HeaderSize + len) + (PageSize - 1))
  IN  up - (up % PageSize)

ContainerOf(p) == p - HeaderSize

UserP(b) == b + HeaderSize

UserLen(p) == header[ContainerOf(p)] - HeaderSize

\* A request malloc() can add the header to without leaving size_t.
Representable(n) == n + HeaderSize <= SizeMax

\* The bytes the program may use at p, and all the bytes of the block of p.
Promise(p) == IF Representable(size[p]) THEN Extent(p, size[p]) ELSE {}
Block(p)   == Extent(ContainerOf(p), header[ContainerOf(p)])

-----------------------------------------------------------------------------
(* The kernel.  mmap() places a mapping of len > 0 bytes on free pages.     *)

CanMap(b, len) ==
  /\ len > 0
  /\ b % PageSize = 0
  /\ Extent(b, len) \subseteq Address \ mapped

\* mmap() may refuse at any time for want of memory; a null length is EINVAL.
MmapError(len) == IF len = 0 THEN "EINVAL" ELSE "ENOMEM"

Cleared(s) == [a \in Address |-> IF a \in s THEN 0 ELSE header[a]]

-----------------------------------------------------------------------------
(* malloc(len), as every caller of it uses it.                             *)

MallocFails(len) ==
  /\ failed' = TRUE
  /\ errno' = MmapError(RoundedLen(len))
  /\ UNCHANGED <<mapped, nonzero, header, live, size, leaked, overrun>>

\* The mapping goes to b; the program asked for want bytes, stored holds the
\* offsets of the user bytes its caller in the library then sets.
MallocAt(b, len, want, stored) ==
  /\ CanMap(b, RoundedLen(len))
  /\ mapped' = mapped \cup Extent(b, RoundedLen(len))
  /\ header' = [header EXCEPT ![b] = RoundedLen(len)]
  /\ live' = live \cup {UserP(b)}
  /\ size' = [size EXCEPT ![UserP(b)] = want]
  /\ nonzero' = nonzero \cup {UserP(b) + i : i \in stored}
  /\ failed' = FALSE
  /\ UNCHANGED <<leaked, errno, overrun>>

Malloc(len) ==
  /\ overrun = None
  /\ \/ MallocFails(len)
     \/ \E b \in Address : MallocAt(b, len, len, {})

\* Mutant of CallocOverflows: the product is compared with SIZE_MAX, which it
\* cannot exceed.
NoOverflowTest(n, nmemb) == Wrap(n * nmemb) > SizeMax

\* size * nmemb is computed in size_t and checked by a division.
CallocOverflows(n, nmemb) == n # 0 /\ Wrap(n * nmemb) \div n # nmemb

\* Mutant of Calloc: the overflow is refused without a word in errno.
CallocSilent(n, nmemb) ==
  /\ overrun = None
  /\ CallocOverflows(n, nmemb)
  /\ failed' = TRUE
  /\ UNCHANGED <<mapped, nonzero, header, live, size, leaked, errno, overrun>>

Calloc(n, nmemb) ==
  /\ overrun = None
  /\ \/ /\ CallocOverflows(n, nmemb)
        /\ failed' = TRUE
        /\ errno' = "ENOMEM"
        /\ UNCHANGED <<mapped, nonzero, header, live, size, leaked, overrun>>
     \/ /\ ~CallocOverflows(n, nmemb)
        /\ \/ MallocFails(Wrap(n * nmemb))
           \/ \E b \in Address : MallocAt(b, Wrap(n * nmemb), n * nmemb, {})

\* strdup() and strndup(): len bytes, none of them zero, and the terminator.
DupAt(b, len) == MallocAt(b, len + 1, len + 1, 0 .. (len - 1))

Strdup(len) ==
  /\ overrun = None
  /\ \/ MallocFails(len + 1)
     \/ \E b \in Address : DupAt(b, len)

Strndup(strlen, maxlen) ==
  LET len == IF strlen < maxlen THEN strlen ELSE maxlen
  IN  /\ overrun = None
      /\ \/ MallocFails(len + 1)
         \/ \E b \in Address : DupAt(b, len)

-----------------------------------------------------------------------------
(* free(ptr) on a pointer the program owns.  The result of munmap() is not *)
(* looked at: when the kernel refuses, the pages stay mapped for ever.     *)

FreeNull ==
  /\ overrun = None
  /\ failed' = FALSE
  /\ UNCHANGED <<mapped, nonzero, header, live, size, leaked, errno, overrun>>

Free(p) ==
  /\ overrun = None
  /\ live' = live \ {p}
  /\ size' = [size EXCEPT ![p] = 0]
  /\ failed' = FALSE
  /\ \/ /\ mapped' = mapped \ Block(p)
        /\ nonzero' = nonzero \ Block(p)
        /\ header' = Cleared(Block(p))
        /\ UNCHANGED <<leaked, errno>>
     \/ /\ leaked' = leaked \cup Block(p)
        /\ errno' = "ENOMEM"
        /\ UNCHANGED <<mapped, nonzero, header>>
  /\ UNCHANGED overrun

-----------------------------------------------------------------------------
(* realloc(old_ptr, new_size)                                              *)

\* The block is large enough: the same pointer is returned.
ReallocInPlace(p, new) ==
  /\ UserLen(p) >= new
  /\ size' = [size EXCEPT ![p] = new]
  /\ failed' = FALSE
  /\ UNCHANGED <<mapped, nonzero, header, live, leaked, errno, overrun>>

\* Mutant of ReallocFails: the old block is given back first.
ReallocFreesFirst(p, new) ==
  /\ UserLen(p) < new
  /\ live' = live \ {p} /\ size' = [size EXCEPT ![p] = 0]
  /\ mapped' = mapped \ Block(p) /\ nonzero' = nonzero \ Block(p)
  /\ header' = Cleared(Block(p))
  /\ failed' = TRUE /\ errno' = "ENOMEM"
  /\ UNCHANGED <<leaked, overrun>>

\* malloc(new_size) returns NULL: the old block is left alone.
ReallocFails(p, new) ==
  /\ UserLen(p) < new
  /\ MallocFails(new)

\* Mutant of Copied: the last byte is left behind.
CopiedShort(p) == {i \in 0 .. (UserLen(p) - 2) : p + i \in nonzero}

\* The offsets of the nonzero bytes memcpy() moves from p.
Copied(p) == {i \in 0 .. (UserLen(p) - 1) : p + i \in nonzero}

\* The pointer goes from p to the new block at b.
MovesTo(p, new, b) ==
  /\ UserLen(p) < new
  /\ CanMap(b, RoundedLen(new))
  /\ live' = (live \ {p}) \cup {UserP(b)}
  /\ size' = [size EXCEPT ![p] = 0, ![UserP(b)] = new]
  /\ failed' = FALSE
  /\ UNCHANGED overrun

\* Mutants of ReallocMoves: the old block is unmapped with the length of the
\* new one; the old block is not unmapped.
ReallocUnmapsNewLen(p, new, b) ==
  LET gone == Extent(ContainerOf(p), RoundedLen(new))
  IN  /\ MovesTo(p, new, b)
      /\ mapped' = (mapped \cup Extent(b, RoundedLen(new))) \ gone
      /\ nonzero' = nonzero \cup {UserP(b) + i : i \in Copied(p)}
      /\ header' = [Cleared(gone) EXCEPT ![b] = RoundedLen(new)]
      /\ UNCHANGED <<leaked, errno>>

ReallocKeepsOld(p, new, b) ==
  /\ MovesTo(p, new, b)
  /\ mapped' = mapped \cup Extent(b, RoundedLen(new))
  /\ nonzero' = nonzero \cup {UserP(b) + i : i \in Copied(p)}
  /\ header' = [header EXCEPT ![b] = RoundedLen(new)]
  /\ UNCHANGED <<leaked, errno>>

\* All the user bytes of the old block are copied into the new one, and the old
\* one is unmapped, or leaked when munmap() refuses.
ReallocMoves(p, new, b) ==
  /\ MovesTo(p, new, b)
  /\ UserLen(p) <= RoundedLen(new) - HeaderSize
  /\ \/ /\ mapped' = (mapped \cup Extent(b, RoundedLen(new))) \ Block(p)
        /\ nonzero' = (nonzero \ Block(p)) \cup {UserP(b) + i : i \in Copied(p)}
        /\ header' = [Cleared(Block(p)) EXCEPT ![b] = RoundedLen(new)]
        /\ UNCHANGED <<leaked, errno>>
     \/ /\ mapped' = mapped \cup Extent(b, RoundedLen(new))
        /\ nonzero' = nonzero \cup {UserP(b) + i : i \in Copied(p)}
        /\ header' = [header EXCEPT ![b] = RoundedLen(new)]
        /\ leaked' = leaked \cup Block(p)
        /\ errno' = "ENOMEM"

\* Mutant of ReallocOverruns: a block that is large enough is moved as well.
ReallocShrinks(p, new, b) ==
  /\ CanMap(b, RoundedLen(new))
  /\ UserLen(p) > RoundedLen(new) - HeaderSize
  /\ overrun' = new
  /\ UNCHANGED <<mapped, nonzero, header, live, size, leaked, failed, errno>>

\* The new block is smaller than what memcpy() copies into it.
ReallocOverruns(p, new, b) ==
  /\ UserLen(p) < new
  /\ CanMap(b, RoundedLen(new))
  /\ UserLen(p) > RoundedLen(new) - HeaderSize
  /\ overrun' = new
  /\ UNCHANGED <<mapped, nonzero, header, live, size, leaked, failed, errno>>

Realloc(p, new) ==
  /\ overrun = None
  /\ \/ ReallocInPlace(p, new)
     \/ ReallocFails(p, new)
     \/ \E b \in Address : ReallocMoves(p, new, b)
     \/ \E b \in Address : ReallocOverruns(p, new, b)

ReallocNull(new) == Malloc(new)

-----------------------------------------------------------------------------
(* The program: it sets bytes of the areas it was promised, and reads errno *)
(* before it clears it.                                                    *)

Write(p, i) ==
  /\ overrun = None
  /\ p + i \in Promise(p)
  /\ nonzero' = nonzero \cup {p + i}
  /\ failed' = FALSE
  /\ UNCHANGED <<mapped, header, live, size, leaked, errno, overrun>>

ClearErrno ==
  /\ overrun = None
  /\ errno' = "0"
  /\ failed' = FALSE
  /\ UNCHANGED <<mapped, nonzero, header, live, size, leaked, overrun>>

Init ==
  /\ mapped = {} /\ nonzero = {} /\ leaked = {} /\ live = {}
  /\ header = [a \in Address |-> 0]
  /\ size = [a \in Address |-> 0]
  /\ failed = FALSE /\ errno = "0" /\ overrun = None

Next ==
  \/ \E len \in Request : Malloc(len)
  \/ \E n, nmemb \in Request : Calloc(n, nmemb)
  \/ \E len \in StrLen : Strdup(len)
  \/ \E len \in StrLen, maxlen \in Request : Strndup(len, maxlen)
  \/ FreeNull
  \/ \E p \in live : Free(p)
  \/ \E p \in live, new \in Request : Realloc(p, new)
  \/ \E new \in Request : ReallocNull(new)
  \/ \E p \in live : \E i \in {0, size[p] - 1} : Write(p, i)
  \/ ClearErrno

Spec == Init /\ [][Next]_vars

-----------------------------------------------------------------------------
(* Properties.                                                             *)

TypeOK ==
  /\ mapped \subseteq Address /\ nonzero \subseteq mapped
  /\ leaked \subseteq mapped
  /\ header \in [Address -> 0 .. SizeMax]
  /\ live \subseteq Address
  /\ size \in [Address -> Nat]
  /\ failed \in BOOLEAN
  /\ errno \in Errno
  /\ overrun \in Request \cup {None}

\* The length in the header of a block is that of its mapping, whatever calls
\* led there: free() and realloc(), which pass it to munmap(), unmap pages of
\* no other block.  Blocks share no byte, and none has a byte that was leaked.
BlocksDisjoint ==
  \A p \in live :
    /\ Block(p) \subseteq mapped \ leaked
    /\ \A q \in live \ {p} : Block(p) \cap Block(q) = {}

\* Every mapped byte is reachable from a pointer of the program, except for
\* those munmap() refused to give back: neither a failed call nor a realloc()
\* that moves a block leaves a mapping behind.
NothingLost == mapped = (UNION {Block(p) : p \in live}) \cup leaked

\* The room of each pointer of the program.
BlocksCover ==
  \A p \in live :
    /\ size[p] <= SizeMax
    /\ Representable(size[p]) => size[p] <= UserLen(p)

\* The memcpy() of realloc().
OverrunOnlyWhenWrapped == overrun # None => ~Representable(overrun)

\* A pointer that malloc(), calloc(), realloc() or strdup() returned has room
\* for what was asked, also after the size was rounded up, multiplied, or
\* changed in place; the last HeaderSize values of size_t, to which malloc()
\* cannot add the header, are the only requests that get less.  Nor does the
\* memcpy() of realloc(), which copies the whole old block without looking at
\* the size of the new one, leave the new block for any other request.
CapacityCoversRequest == BlocksCover /\ OverrunOnlyWhenWrapped

\* A call that returns NULL says why in errno and leaves the program every block
\* it had, at the same place and size: realloc() lets go of the old block only
\* once it has a new one.
FailedCallKeepsBlocks ==
  [][failed' => errno' # "0" /\ UNCHANGED <<mapped, live, size, nonzero>>]_vars

\* nolibc's heap implements the allocator of module Allocator: an area for each
\* request of at most SIZE_MAX - sizeof(struct nolibc_heap) bytes.
A == INSTANCE Allocator WITH
       MaxObject <- SizeMax - HeaderSize,
       stored <- nonzero \cap UNION {Promise(p) : p \in live},
       void <- overrun # None

AllocatorSpec == A!Spec
=============================================================================
