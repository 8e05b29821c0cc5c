---------------------------- MODULE MemoryProofs ----------------------------
(* Proofs about memory and the size_t it is counted in: the heap of module   *)
(* Heap, for every page size, header size, SIZE_MAX, set of addresses and set  *)
(* of requests; the functions of module Strings, in C and on x86_64, for every *)
(* memory, every SIZE_MAX and every argument.                                *)
EXTENDS Heap, Strings, Arithmetic, SequenceTheorems, TLAPS

-----------------------------------------------------------------------------
(* Arithmetic.                                                             *)

\* The facts of ModFacts about size_t: a sum of at most twice its range loses at most
\* one multiple of it.
LEMMA WrapFacts ==
  ASSUME NEW n \in Nat
  PROVE  /\ Wrap(n) \in 0 .. SizeMax
         /\ n <= SizeMax => Wrap(n) = n
         /\ n > SizeMax /\ n < 2 * (SizeMax + 1) => Wrap(n) = n - (SizeMax + 1)
  <1>1. SizeMax + 1 \in Nat /\ SizeMax + 1 > 0 /\ SizeMax \in Nat
    BY HeapAssumption, SizeTAssumption, SMT
  <1>2. /\ n % (SizeMax + 1) \in 0 .. ((SizeMax + 1) - 1)
        /\ n < SizeMax + 1 => n % (SizeMax + 1) = n
        /\ n >= SizeMax + 1 /\ n < 2 * (SizeMax + 1)
             => n % (SizeMax + 1) = n - (SizeMax + 1)
    BY <1>1, ModFacts
  <1>3. QED
    BY <1>1, <1>2, SMT DEF Wrap

\* What malloc() asks from mmap(): nothing, when the rounding wraps around, or
\* at least a page; and enough for the header and the request, if the request
\* leaves room for the header in size_t.
LEMMA RoundedLenFacts ==
  ASSUME NEW req \in 0 .. SizeMax
  PROVE  /\ RoundedLen(req) \in 0 .. SizeMax
         /\ RoundedLen(req) > 0 => RoundedLen(req) >= PageSize
         /\ RoundedLen(req) > 0 /\ Representable(req)
              => RoundedLen(req) >= HeaderSize + req
  <1> USE HeapAssumption, SizeTAssumption
  <1> DEFINE total == Wrap(HeaderSize + req)
             sum   == total + (PageSize - 1)
             up    == Wrap(sum)
             low   == up % PageSize
  <1>1. /\ total \in 0 .. SizeMax
        /\ Representable(req) => total = HeaderSize + req
    <2>1. HeaderSize + req \in Nat
      BY SMT
    <2>2. QED
      BY <2>1, WrapFacts DEF Representable
  <1>2. /\ up \in 0 .. SizeMax
        /\ sum <= SizeMax => up = sum
        /\ sum > SizeMax => up = sum - (SizeMax + 1)
    <2> HIDE DEF total
    <2>1. sum \in Nat /\ sum < 2 * (SizeMax + 1)
      BY <1>1, SMT
    <2> HIDE DEF sum
    <2>2. QED
      BY <2>1, WrapFacts
  <1> HIDE DEF total, up
  <1>3. /\ low \in 0 .. (PageSize - 1)
        /\ up < PageSize => low = up
        /\ up >= PageSize => up - low >= PageSize
    <2>1. up \in Nat /\ PageSize \in Nat /\ PageSize > 0
      BY <1>2, SMT
    <2>2. QED
      BY <2>1, ModFacts
  <1>4. RoundedLen(req) = up - low
    BY DEF RoundedLen, up, total
  <1> HIDE DEF low
  <1>5. QED
    BY <1>1, <1>2, <1>3, <1>4, SMT DEF Representable

\* calloc() lets through only products that size_t can hold.
LEMMA CallocFacts ==
  ASSUME NEW n \in 0 .. SizeMax, NEW nmemb \in 0 .. SizeMax,
         ~CallocOverflows(n, nmemb)
  PROVE  n * nmemb \in 0 .. SizeMax /\ Wrap(n * nmemb) = n * nmemb
  <1> USE HeapAssumption, SizeTAssumption
  <1>1. n * nmemb \in Nat
    BY SMT
  <1>2. Wrap(n * nmemb) \in 0 .. SizeMax
    BY <1>1, WrapFacts
  <1>3. n * nmemb <= SizeMax
    <2>1. CASE n = 0
      BY <2>1, SMT
    <2>2. CASE n # 0
      <3> DEFINE x == Wrap(n * nmemb)
      <3>1. x \div n = nmemb
        BY <2>2 DEF CallocOverflows
      <3>2. x \in Nat /\ x <= SizeMax /\ n \in Nat /\ n > 0
        BY <1>2, <2>2, SMT
      <3> HIDE DEF x
      <3>3. n * (x \div n) <= x
        BY <3>2, SMT
      <3>4. QED
        BY <1>1, <3>1, <3>2, <3>3, SMT
    <2>3. QED
      BY <2>1, <2>2
  <1>4. QED
    BY <1>1, <1>3, WrapFacts

-----------------------------------------------------------------------------
(* The inductive invariant.                                                *)

\* Every user pointer has its header in front of it, in a mapping of a page at
\* least.  The other invariants say nothing of where a header is, and without
\* it no step could be shown to leave the header of another block alone.
Rooted ==
  \A p \in live :
    /\ ContainerOf(p) \in Address
    /\ header[ContainerOf(p)] >= PageSize

\* Whenever a call has just returned NULL, errno tells why.
NullSetsErrno == failed => errno # "0"

IInv ==
  /\ TypeOK
  /\ Rooted
  /\ BlocksDisjoint
  /\ NothingLost
  /\ BlocksCover
  /\ OverrunOnlyWhenWrapped
  /\ NullSetsErrno

\* What IInv says of one block.
LEMMA BlockFacts ==
  ASSUME IInv, NEW p \in live
  PROVE  /\ p \in Nat /\ ContainerOf(p) \in Address /\ ContainerOf(p) \in Nat
         /\ header[ContainerOf(p)] \in PageSize .. SizeMax
         /\ ContainerOf(p) \in Block(p)
         /\ Block(p) \subseteq mapped \ leaked
         /\ \A q \in live \ {p} : ContainerOf(q) \notin Block(p)
  <1> USE HeapAssumption, SizeTAssumption
  <1>1. ASSUME NEW q \in live
        PROVE  /\ q \in Nat /\ ContainerOf(q) \in Address /\ ContainerOf(q) \in Nat
               /\ header[ContainerOf(q)] \in PageSize .. SizeMax
               /\ ContainerOf(q) \in Block(q)
    <2>1. live \subseteq Address /\ header \in [Address -> 0 .. SizeMax]
      BY DEF IInv, TypeOK
    <2>2. ContainerOf(q) \in Address /\ header[ContainerOf(q)] >= PageSize
      BY DEF IInv, Rooted
    <2>3. q \in Nat /\ ContainerOf(q) \in Nat
      BY <2>1, <2>2
    <2>4. header[ContainerOf(q)] \in 0 .. SizeMax
      BY <2>1, <2>2
    <2>5. header[ContainerOf(q)] \in PageSize .. SizeMax
      BY <2>2, <2>4, SMT
    <2>6. ContainerOf(q) \in Block(q)
      BY <2>3, <2>5, SMT DEF Block, Extent
    <2>7. QED
      BY <2>2, <2>3, <2>5, <2>6
  <1>2. \A q \in live : /\ Block(q) \subseteq mapped \ leaked
                        /\ \A r \in live \ {q} : Block(q) \cap Block(r) = {}
    BY DEF IInv, BlocksDisjoint
  <1>3. QED
    BY <1>1, <1>2

\* What a mapping at b adds to the heap: it has room for its header, its user
\* pointer is new, and no block of the heap has its header in it.
LEMMA NewBlockFacts ==
  ASSUME IInv, NEW req \in 0 .. SizeMax, NEW b \in Address,
         CanMap(b, RoundedLen(req))
  PROVE  /\ RoundedLen(req) \in PageSize .. SizeMax
         /\ Representable(req) => HeaderSize + req <= RoundedLen(req)
         /\ b \in Nat /\ b \in Extent(b, RoundedLen(req))
         /\ Extent(b, RoundedLen(req)) \subseteq Address \ mapped
         /\ UserP(b) \in Address /\ UserP(b) \in Nat /\ UserP(b) \notin live
         /\ ContainerOf(UserP(b)) = b
         /\ \A q \in live : /\ ContainerOf(q) # b
                            /\ Block(q) \cap Extent(b, RoundedLen(req)) = {}
  <1> USE HeapAssumption, SizeTAssumption
  <1>1. /\ RoundedLen(req) \in PageSize .. SizeMax
        /\ Representable(req) => HeaderSize + req <= RoundedLen(req)
    BY RoundedLenFacts, SMT DEF CanMap
  <1>2. /\ b \in Nat /\ b \in Extent(b, RoundedLen(req))
        /\ UserP(b) \in Extent(b, RoundedLen(req)) /\ UserP(b) \in Nat
        /\ ContainerOf(UserP(b)) = b
    BY <1>1, SMT DEF Extent, UserP, ContainerOf
  <1>3. Extent(b, RoundedLen(req)) \subseteq Address \ mapped
    BY DEF CanMap
  <1>4. \A q \in live : ContainerOf(q) \in mapped /\ Block(q) \subseteq mapped
    BY BlockFacts
  <1>5. UserP(b) \notin live
    BY <1>2, <1>3, <1>4
  <1>6. QED
    BY <1>1, <1>2, <1>3, <1>4, <1>5

-----------------------------------------------------------------------------
(* One lemma for each thing a call can do to the heap.                     *)

\* A call that touches no block keeps the invariant if errno and overrun are
\* right: a failed call, a Write, free(NULL), the program clearing errno.
LEMMA SameBlocks ==
  ASSUME IInv, TypeOK', NullSetsErrno', OverrunOnlyWhenWrapped',
         UNCHANGED <<mapped, header, live, size, leaked>>
  PROVE  IInv'
  <1>1. Rooted'
    BY DEF IInv, Rooted
  <1>2. BlocksDisjoint'
    BY DEF IInv, BlocksDisjoint, Block
  <1>3. NothingLost'
    BY DEF IInv, NothingLost, Block
  <1>4. BlocksCover'
    BY DEF IInv, BlocksCover, UserLen
  <1>5. QED
    BY <1>1, <1>2, <1>3, <1>4 DEF IInv

\* malloc() returns NULL, which mmap() answered for want of memory or because
\* the length was rounded to zero.
LEMMA MallocFailsStep ==
  ASSUME IInv, overrun = None, NEW req \in 0 .. SizeMax, MallocFails(req)
  PROVE  IInv'
  <1>1. TypeOK'
    BY DEF IInv, TypeOK, MallocFails, MmapError, Errno
  <1>2. NullSetsErrno'
    BY DEF MallocFails, MmapError, NullSetsErrno
  <1>3. OverrunOnlyWhenWrapped'
    BY DEF MallocFails, OverrunOnlyWhenWrapped
  <1>4. QED
    BY <1>1, <1>2, <1>3, SameBlocks DEF MallocFails

\* malloc() adds one block, with its header, and its caller fills part of it.
LEMMA MallocStep ==
  ASSUME IInv, overrun = None, NEW req \in 0 .. SizeMax, NEW b \in Address,
         NEW stored, stored \subseteq 0 .. (req - 1),
         stored # {} => Representable(req),
         MallocAt(b, req, req, stored)
  PROVE  IInv'
  <1> USE HeapAssumption, SizeTAssumption
  <1> DEFINE u == UserP(b)
             L == RoundedLen(req)
  <1>1. CanMap(b, L)
    BY DEF MallocAt
  <1>2. /\ L \in PageSize .. SizeMax
        /\ Representable(req) => HeaderSize + req <= L
        /\ b \in Nat /\ b \in Extent(b, L)
        /\ Extent(b, L) \subseteq Address \ mapped
        /\ u \in Address /\ u \in Nat /\ u \notin live
        /\ ContainerOf(u) = b
        /\ \A q \in live : ContainerOf(q) # b /\ Block(q) \cap Extent(b, L) = {}
    BY <1>1, NewBlockFacts
  <1>3. {u + i : i \in stored} \subseteq Extent(b, L)
    BY <1>2, SMT DEF Extent, UserP
  <1> HIDE DEF L
  <1>4. /\ mapped' = mapped \cup Extent(b, L)
        /\ header' = [header EXCEPT ![b] = L]
        /\ live' = live \cup {u}
        /\ size' = [size EXCEPT ![u] = req]
        /\ nonzero' = nonzero \cup {u + i : i \in stored}
        /\ failed' = FALSE
        /\ UNCHANGED <<leaked, errno, overrun>>
    BY DEF MallocAt, L
  <1> HIDE DEF u
  <1>5. TypeOK'
    <2>1. header' \in [Address -> 0 .. SizeMax] /\ size' \in [Address -> Nat]
      BY <1>2, <1>4 DEF IInv, TypeOK
    <2>2. /\ mapped' \subseteq Address /\ nonzero' \subseteq mapped'
          /\ leaked' \subseteq mapped' /\ live' \subseteq Address
      BY <1>2, <1>3, <1>4 DEF IInv, TypeOK
    <2>3. failed' \in BOOLEAN /\ errno' \in Errno /\ overrun' \in Request \cup {None}
      BY <1>4 DEF IInv, TypeOK
    <2>4. QED
      BY <2>1, <2>2, <2>3 DEF TypeOK
  <1>6. /\ header'[b] = L /\ size'[u] = req
        /\ \A q \in live : /\ header'[ContainerOf(q)] = header[ContainerOf(q)]
                           /\ size'[q] = size[q]
    BY <1>2, <1>4 DEF IInv, TypeOK
  <1>7. Rooted'
    BY <1>2, <1>4, <1>6 DEF IInv, TypeOK, Rooted
  <1>8. Block(u)' = Extent(b, L) /\ \A q \in live : Block(q)' = Block(q)
    BY <1>2, <1>6 DEF Block
  <1>9. BlocksDisjoint'
    <2>1. \A q \in live : /\ Block(q) \subseteq mapped \ leaked
                          /\ \A r \in live \ {q} : Block(q) \cap Block(r) = {}
      BY DEF IInv, BlocksDisjoint
    <2>2. Extent(b, L) \cap leaked = {}
      BY <1>2 DEF IInv, TypeOK
    <2>3. \A q \in live' : Block(q)' \subseteq mapped' \ leaked'
      BY <1>4, <1>8, <2>1, <2>2
    <2>4. \A q, r \in live' : q # r => Block(q)' \cap Block(r)' = {}
      BY <1>2, <1>4, <1>8, <2>1
    <2>5. QED
      BY <2>3, <2>4 DEF BlocksDisjoint
  <1>10. NothingLost'
    BY <1>4, <1>8 DEF IInv, NothingLost
  <1>11. BlocksCover'
    <2>1. \A q \in live : UserLen(q)' = UserLen(q)
      BY <1>6 DEF UserLen
    <2>2. Representable(req) => req <= UserLen(u)'
      BY <1>2, <1>6, SMT DEF UserLen
    <2>3. QED
      BY <1>4, <1>6, <2>1, <2>2 DEF IInv, BlocksCover, Representable
  <1>12. OverrunOnlyWhenWrapped' /\ NullSetsErrno'
    BY <1>4 DEF OverrunOnlyWhenWrapped, NullSetsErrno
  <1>13. QED
    BY <1>5, <1>7, <1>9, <1>10, <1>11, <1>12 DEF IInv

\* free() takes one block away, or leaks it, and no byte of the others.
LEMMA FreeStep ==
  ASSUME IInv, NEW p \in live, Free(p)
  PROVE  IInv'
  <1> USE HeapAssumption, SizeTAssumption
  <1>1. /\ ContainerOf(p) \in Address
        /\ Block(p) \subseteq mapped \ leaked
        /\ \A q \in live \ {p} : /\ ContainerOf(q) \notin Block(p)
                                 /\ Block(q) \subseteq mapped \ leaked
                                 /\ Block(q) \cap Block(p) = {}
                                 /\ ContainerOf(q) \in Address
    BY BlockFacts DEF IInv, BlocksDisjoint
  <1>2. /\ live' = live \ {p} /\ size' = [size EXCEPT ![p] = 0]
        /\ failed' = FALSE /\ overrun' = None /\ overrun = None
        /\ \/ /\ mapped' = mapped \ Block(p) /\ nonzero' = nonzero \ Block(p)
              /\ header' = Cleared(Block(p)) /\ leaked' = leaked /\ errno' = errno
           \/ /\ leaked' = leaked \cup Block(p) /\ errno' = "ENOMEM"
              /\ mapped' = mapped /\ nonzero' = nonzero /\ header' = header
    BY DEF Free
  <1>3. TypeOK'
    <2>1. header' \in [Address -> 0 .. SizeMax]
      BY <1>2 DEF IInv, TypeOK, Cleared
    <2>2. size' \in [Address -> Nat]
      BY <1>2 DEF IInv, TypeOK
    <2>3. /\ mapped' \subseteq Address /\ nonzero' \subseteq mapped'
          /\ leaked' \subseteq mapped' /\ live' \subseteq Address
      BY <1>1, <1>2 DEF IInv, TypeOK
    <2>4. failed' \in BOOLEAN /\ errno' \in Errno /\ overrun' \in Request \cup {None}
      BY <1>2 DEF IInv, TypeOK, Errno
    <2>5. QED
      BY <2>1, <2>2, <2>3, <2>4 DEF TypeOK
  <1>4. \A q \in live' : /\ header'[ContainerOf(q)] = header[ContainerOf(q)]
                         /\ size'[q] = size[q]
    BY <1>1, <1>2 DEF IInv, TypeOK, Cleared
  <1>5. \A q \in live' : Block(q)' = Block(q)
    BY <1>4 DEF Block
  <1>6. Rooted'
    BY <1>2, <1>4 DEF IInv, Rooted
  <1>7. BlocksDisjoint'
    BY <1>1, <1>2, <1>5 DEF IInv, BlocksDisjoint
  <1>8. NothingLost'
    <2>1. mapped = (UNION {Block(q) : q \in live \ {p}}) \cup Block(p) \cup leaked
      BY DEF IInv, NothingLost
    <2>2. \A q \in live \ {p} : Block(q) \cap Block(p) = {}
      BY <1>1
    <2>3. Block(p) \cap leaked = {}
      BY <1>1
    <2>4. UNION {Block(q)' : q \in live'} = UNION {Block(q) : q \in live \ {p}}
      BY <1>2, <1>5
    <2>5. QED
      BY <1>2, <2>1, <2>2, <2>3, <2>4 DEF NothingLost
  <1>9. BlocksCover'
    BY <1>2, <1>4 DEF IInv, BlocksCover, UserLen
  <1>10. OverrunOnlyWhenWrapped' /\ NullSetsErrno'
    BY <1>2 DEF OverrunOnlyWhenWrapped, NullSetsErrno
  <1>11. QED
    BY <1>3, <1>6, <1>7, <1>8, <1>9, <1>10 DEF IInv

\* realloc() that returns the same pointer has room for the new size.
LEMMA ReallocInPlaceStep ==
  ASSUME IInv, overrun = None, NEW p \in live, NEW new \in 0 .. SizeMax,
         ReallocInPlace(p, new)
  PROVE  IInv'
  <1> USE HeapAssumption, SizeTAssumption
  <1>1. /\ size' = [size EXCEPT ![p] = new] /\ UserLen(p) >= new /\ failed' = FALSE
        /\ UNCHANGED <<mapped, nonzero, header, live, leaked, errno, overrun>>
    BY DEF ReallocInPlace
  <1>2. TypeOK'
    <2>1. size' \in [Address -> Nat]
      BY <1>1 DEF IInv, TypeOK
    <2>2. QED
      BY <1>1, <2>1 DEF IInv, TypeOK
  <1>3. Rooted' /\ BlocksDisjoint' /\ NothingLost'
    BY <1>1 DEF IInv, Rooted, BlocksDisjoint, NothingLost, Block
  <1>4. BlocksCover'
    <2>1. p \in Address /\ size \in [Address -> Nat]
      BY DEF IInv, TypeOK
    <2>2. \A q \in live : /\ size'[q] = IF q = p THEN new ELSE size[q]
                          /\ UserLen(q)' = UserLen(q)
      BY <1>1, <2>1 DEF UserLen, IInv, TypeOK
    <2>3. UserLen(p) \in Int
      BY BlockFacts, SMT DEF UserLen
    <2>4. new <= UserLen(p) /\ new <= SizeMax
      BY <1>1, <2>3, SMT
    <2>5. QED
      BY <1>1, <2>2, <2>4 DEF IInv, BlocksCover, Representable
  <1>5. OverrunOnlyWhenWrapped' /\ NullSetsErrno'
    BY <1>1 DEF OverrunOnlyWhenWrapped, NullSetsErrno, IInv
  <1>6. QED
    BY <1>2, <1>3, <1>4, <1>5 DEF IInv

\* The one step that could read or write past a block: it is taken only when
\* the header could not be added to the request.
LEMMA ReallocOverrunsStep ==
  ASSUME IInv, NEW p \in live, NEW new \in Request, NEW b \in Address,
         ReallocOverruns(p, new, b)
  PROVE  IInv'
  <1> USE HeapAssumption, SizeTAssumption
  <1>1. new \in 0 .. SizeMax /\ CanMap(b, RoundedLen(new))
    BY DEF ReallocOverruns
  <1>2. /\ UserLen(p) < new /\ UserLen(p) > RoundedLen(new) - HeaderSize
        /\ overrun' = new
        /\ UNCHANGED <<mapped, nonzero, header, live, size, leaked, failed, errno>>
    BY DEF ReallocOverruns
  <1>3. UserLen(p) \in Int
    BY BlockFacts, SMT DEF UserLen
  <1>4. /\ RoundedLen(new) \in PageSize .. SizeMax
        /\ Representable(new) => HeaderSize + new <= RoundedLen(new)
    BY <1>1, NewBlockFacts
  <1>5. ~Representable(new)
    BY <1>1, <1>2, <1>3, <1>4, SMT
  <1>6. OverrunOnlyWhenWrapped'
    BY <1>2, <1>5 DEF OverrunOnlyWhenWrapped, Representable
  <1>7. TypeOK' /\ NullSetsErrno'
    BY <1>2 DEF IInv, TypeOK, NullSetsErrno
  <1>8. QED
    BY <1>2, <1>6, <1>7, SameBlocks

\* The new block is mapped before the old one is given back, and what is copied
\* fits in it.
LEMMA ReallocMovesStep ==
  ASSUME IInv, overrun = None, NEW p \in live, NEW new \in 0 .. SizeMax,
         NEW b \in Address, ReallocMoves(p, new, b)
  PROVE  IInv'
  <1> USE HeapAssumption, SizeTAssumption
  <1> DEFINE u == UserP(b)
             L == RoundedLen(new)
             kept == {u + i : i \in Copied(p)}
  <1>1. CanMap(b, L) /\ UserLen(p) <= L - HeaderSize
    BY DEF ReallocMoves, MovesTo
  <1>2. /\ L \in PageSize .. SizeMax
        /\ Representable(new) => HeaderSize + new <= L
        /\ b \in Nat /\ b \in Extent(b, L)
        /\ Extent(b, L) \subseteq Address \ mapped
        /\ u \in Address /\ u \in Nat /\ u \notin live
        /\ ContainerOf(u) = b
        /\ \A q \in live : ContainerOf(q) # b /\ Block(q) \cap Extent(b, L) = {}
    BY <1>1, NewBlockFacts
  <1>3. kept \subseteq Extent(b, L)
    <2>1. UserLen(p) \in Int
      BY BlockFacts, SMT DEF UserLen
    <2>2. Copied(p) \subseteq 0 .. (UserLen(p) - 1)
      BY DEF Copied
    <2>3. QED
      BY <1>1, <1>2, <2>1, <2>2, SMT DEF Extent, UserP
  <1> HIDE DEF L, kept
  <1>4. /\ ContainerOf(p) \in Address
        /\ Block(p) \subseteq mapped \ leaked
        /\ \A q \in live \ {p} : /\ ContainerOf(q) \notin Block(p)
                                 /\ Block(q) \subseteq mapped \ leaked
                                 /\ Block(q) \cap Block(p) = {}
                                 /\ ContainerOf(q) \in Address
    BY BlockFacts DEF IInv, BlocksDisjoint
  <1>5. /\ live' = (live \ {p}) \cup {u}
        /\ size' = [size EXCEPT ![p] = 0, ![u] = new]
        /\ failed' = FALSE /\ overrun' = overrun
        /\ \/ /\ mapped' = (mapped \cup Extent(b, L)) \ Block(p)
              /\ nonzero' = (nonzero \ Block(p)) \cup kept
              /\ header' = [Cleared(Block(p)) EXCEPT ![b] = L]
              /\ leaked' = leaked /\ errno' = errno
           \/ /\ mapped' = mapped \cup Extent(b, L)
              /\ nonzero' = nonzero \cup kept
              /\ header' = [header EXCEPT ![b] = L]
              /\ leaked' = leaked \cup Block(p) /\ errno' = "ENOMEM"
    BY DEF ReallocMoves, MovesTo, L, kept
  <1> HIDE DEF u
  <1>6. TypeOK'
    <2>1. Cleared(Block(p)) \in [Address -> 0 .. SizeMax]
      BY DEF IInv, TypeOK, Cleared
    <2>2. header' \in [Address -> 0 .. SizeMax]
      <3>1. /\ header \in [Address -> 0 .. SizeMax] /\ L \in 0 .. SizeMax
            /\ \/ header' = [header EXCEPT ![b] = L]
               \/ header' = [Cleared(Block(p)) EXCEPT ![b] = L]
        BY <1>2, <1>5, SMT DEF IInv, TypeOK
      <3>2. QED
        BY <2>1, <3>1
    <2>3. size' \in [Address -> Nat]
      BY <1>2, <1>5 DEF IInv, TypeOK
    <2>4. /\ mapped' \subseteq Address /\ nonzero' \subseteq mapped'
          /\ leaked' \subseteq mapped' /\ live' \subseteq Address
      BY <1>2, <1>3, <1>4, <1>5 DEF IInv, TypeOK
    <2>5. failed' \in BOOLEAN /\ errno' \in Errno /\ overrun' \in Request \cup {None}
      BY <1>5 DEF IInv, TypeOK, Errno
    <2>6. QED
      BY <2>2, <2>3, <2>4, <2>5 DEF TypeOK
  <1>7. /\ header'[b] = L /\ size'[u] = new
        /\ \A q \in live \ {p} : /\ header'[ContainerOf(q)] = header[ContainerOf(q)]
                                 /\ size'[q] = size[q]
    <2>1. \A q \in live \ {p} : Cleared(Block(p))[ContainerOf(q)] = header[ContainerOf(q)]
      BY <1>4 DEF Cleared
    <2>2. Cleared(Block(p)) \in [Address -> 0 .. SizeMax]
      BY DEF IInv, TypeOK, Cleared
    <2>3. /\ header'[b] = L
          /\ \A q \in live \ {p} : header'[ContainerOf(q)] = header[ContainerOf(q)]
      BY <1>2, <1>4, <1>5, <2>1, <2>2 DEF IInv, TypeOK
    <2>4. size'[u] = new /\ \A q \in live \ {p} : size'[q] = size[q]
      BY <1>2, <1>5 DEF IInv, TypeOK
    <2>5. QED
      BY <2>3, <2>4
  <1>8. /\ Block(u)' = Extent(b, L)
        /\ \A q \in live \ {p} : Block(q)' = Block(q)
    BY <1>2, <1>7 DEF Block
  <1>9. Rooted'
    BY <1>2, <1>5, <1>7 DEF IInv, Rooted
  <1>10. BlocksDisjoint'
    <2>1. \A q, r \in live \ {p} : q # r => Block(q) \cap Block(r) = {}
      BY DEF IInv, BlocksDisjoint
    <2>2. Extent(b, L) \cap (leaked \cup Block(p)) = {}
      BY <1>2, <1>4 DEF IInv, TypeOK
    <2>3. \A q \in live' : Block(q)' \subseteq mapped' \ leaked'
      BY <1>4, <1>5, <1>8, <2>2
    <2>4. \A q, r \in live' : q # r => Block(q)' \cap Block(r)' = {}
      BY <1>2, <1>5, <1>8, <2>1
    <2>5. QED
      BY <2>3, <2>4 DEF BlocksDisjoint
  <1>11. NothingLost'
    <2>1. mapped = (UNION {Block(q) : q \in live \ {p}}) \cup Block(p) \cup leaked
      BY DEF IInv, NothingLost
    <2>2. /\ \A q \in live \ {p} : Block(q) \cap Block(p) = {}
          /\ Block(p) \cap leaked = {} /\ Block(p) \cap Extent(b, L) = {}
      BY <1>2, <1>4
    <2>3. UNION {Block(q)' : q \in live'}
            = (UNION {Block(q) : q \in live \ {p}}) \cup Extent(b, L)
      BY <1>5, <1>8
    <2>4. \/ mapped' = (mapped \cup Extent(b, L)) \ Block(p) /\ leaked' = leaked
          \/ mapped' = mapped \cup Extent(b, L) /\ leaked' = leaked \cup Block(p)
      BY <1>5
    <2>5. mapped' = (UNION {Block(q)' : q \in live'}) \cup leaked'
      <3> DEFINE others == UNION {Block(q) : q \in live \ {p}}
      <3>1. others \cap Block(p) = {}
        BY <2>2
      <3> HIDE DEF others
      <3>2. QED
        BY <2>1, <2>2, <2>3, <2>4, <3>1 DEF others
    <2>6. QED
      BY <2>5 DEF NothingLost
  <1>12. BlocksCover'
    <2>1. \A q \in live \ {p} : UserLen(q)' = UserLen(q)
      BY <1>7 DEF UserLen
    <2>2. Representable(new) => new <= UserLen(u)'
      BY <1>2, <1>7, SMT DEF UserLen
    <2>3. \A q \in live \ {p} :
            /\ size[q] <= SizeMax
            /\ Representable(size[q]) => size[q] <= UserLen(q)
      BY DEF IInv, BlocksCover
    <2>4. ASSUME NEW q \in live'
          PROVE  /\ size'[q] <= SizeMax
                 /\ Representable(size'[q]) => size'[q] <= UserLen(q)'
      <3>1. CASE q = u
        BY <1>7, <2>2, <3>1
      <3>2. CASE q \in live \ {p}
        BY <1>7, <2>1, <2>3, <3>2
      <3>3. QED
        BY <1>5, <3>1, <3>2
    <2>5. QED
      BY <2>4 DEF BlocksCover, Representable
  <1>13. OverrunOnlyWhenWrapped' /\ NullSetsErrno'
    BY <1>5 DEF OverrunOnlyWhenWrapped, NullSetsErrno
  <1>14. QED
    BY <1>6, <1>9, <1>10, <1>11, <1>12, <1>13 DEF IInv

\* A program that keeps to what it was promised writes mapped bytes only, and no
\* header.
LEMMA WriteStep ==
  ASSUME IInv, NEW p \in live, NEW i, Write(p, i)
  PROVE  IInv'
  <1> USE HeapAssumption, SizeTAssumption
  <1>1. /\ overrun = None /\ p + i \in Promise(p)
        /\ nonzero' = nonzero \cup {p + i} /\ failed' = FALSE
        /\ UNCHANGED <<mapped, header, live, size, leaked, errno, overrun>>
    BY DEF Write
  <1>2. p + i \in mapped
    <2>1. /\ p \in Nat /\ ContainerOf(p) \in Nat
          /\ header[ContainerOf(p)] \in PageSize .. SizeMax
          /\ Block(p) \subseteq mapped
      BY BlockFacts
    <2>2. Representable(size[p]) /\ p + i \in p .. (p + size[p] - 1)
      BY <1>1 DEF Promise, Extent
    <2>3. size[p] \in Nat /\ size[p] <= UserLen(p)
      BY <2>2 DEF IInv, TypeOK, BlocksCover
    <2>4. p + i \in Block(p)
      BY <2>1, <2>2, <2>3, SMT DEF Block, Extent, ContainerOf, UserLen
    <2>5. QED
      BY <2>1, <2>4
  <1>3. TypeOK' /\ NullSetsErrno' /\ OverrunOnlyWhenWrapped'
    BY <1>1, <1>2 DEF IInv, TypeOK, NullSetsErrno, OverrunOnlyWhenWrapped
  <1>4. QED
    BY <1>1, <1>3, SameBlocks

\* A call of malloc(), with either outcome.
LEMMA MallocCallStep ==
  ASSUME IInv, NEW req \in 0 .. SizeMax, Malloc(req)
  PROVE  IInv'
  <1>1. overrun = None
    BY DEF Malloc
  <1>2. CASE MallocFails(req)
    BY <1>1, <1>2, MallocFailsStep
  <1>3. ASSUME NEW b \in Address, MallocAt(b, req, req, {})
        PROVE  IInv'
    BY <1>1, <1>3, MallocStep
  <1>4. QED
    BY <1>2, <1>3 DEF Malloc

\* A call of calloc(): refused by its overflow test, or a malloc() of a product
\* that size_t holds.
LEMMA CallocStep ==
  ASSUME IInv, NEW n \in 0 .. SizeMax, NEW nmemb \in 0 .. SizeMax, Calloc(n, nmemb)
  PROVE  IInv'
  <1>1. overrun = None
    BY DEF Calloc
  <1>2. CASE CallocOverflows(n, nmemb)
    <2>1. /\ failed' = TRUE /\ errno' = "ENOMEM"
          /\ UNCHANGED <<mapped, nonzero, header, live, size, leaked, overrun>>
      BY <1>2 DEF Calloc
    <2>2. TypeOK' /\ NullSetsErrno' /\ OverrunOnlyWhenWrapped'
      BY <2>1 DEF IInv, TypeOK, Errno, NullSetsErrno, OverrunOnlyWhenWrapped
    <2>3. QED
      BY <2>1, <2>2, SameBlocks
  <1>3. CASE ~CallocOverflows(n, nmemb)
    <2> DEFINE req == n * nmemb
    <2>1. req \in 0 .. SizeMax /\ Wrap(req) = req
      BY <1>3, CallocFacts
    <2>2. MallocFails(req) \/ \E b \in Address : MallocAt(b, req, req, {})
      BY <1>3, <2>1 DEF Calloc
    <2> HIDE DEF req
    <2>3. QED
      BY <1>1, <2>1, <2>2, MallocFailsStep, MallocStep
  <1>4. QED
    BY <1>2, <1>3

\* strdup() and strndup() of so many characters.
LEMMA DupStep ==
  ASSUME IInv, overrun = None, NEW req \in 0 .. (SizeMax - PageSize),
         MallocFails(req + 1) \/ \E b \in Address : DupAt(b, req)
  PROVE  IInv'
  <1> USE HeapAssumption, SizeTAssumption
  <1>1. /\ req + 1 \in 0 .. SizeMax /\ Representable(req + 1)
        /\ 0 .. (req - 1) \subseteq 0 .. ((req + 1) - 1)
    BY SMT DEF Representable
  <1> DEFINE n == req + 1
             str == 0 .. (req - 1)
  <1>2. MallocFails(n) \/ \E b \in Address : MallocAt(b, n, n, str)
    BY DEF DupAt
  <1>3. n \in 0 .. SizeMax /\ Representable(n) /\ str \subseteq 0 .. (n - 1)
    BY <1>1
  <1> HIDE DEF n, str
  <1>4. QED
    BY <1>2, <1>3, MallocFailsStep, MallocStep

-----------------------------------------------------------------------------
(* The invariant holds in every reachable state.                           *)

\* A program starts with no block.
LEMMA InitIInv == Init => IInv
  <1> SUFFICES ASSUME Init PROVE IInv
    OBVIOUS
  <1> USE DEF Init
  <1>1. TypeOK
    <2>1. 0 \in 0 .. SizeMax /\ 0 \in Nat
      BY HeapAssumption, SizeTAssumption, SMT
    <2>2. header \in [Address -> 0 .. SizeMax] /\ size \in [Address -> Nat]
      BY <2>1
    <2>3. QED
      BY <2>2 DEF TypeOK, Errno
  <1>2. Rooted /\ BlocksDisjoint /\ NothingLost /\ BlocksCover
    BY DEF Rooted, BlocksDisjoint, NothingLost, BlocksCover
  <1>3. OverrunOnlyWhenWrapped /\ NullSetsErrno
    BY DEF OverrunOnlyWhenWrapped, NullSetsErrno
  <1>4. QED
    BY <1>1, <1>2, <1>3 DEF IInv

\* Every call of the program keeps the invariant.
LEMMA NextIInv == IInv /\ [Next]_vars => IInv'
  <1> SUFFICES ASSUME IInv, [Next]_vars PROVE IInv'
    OBVIOUS
  <1> USE HeapAssumption, SizeTAssumption
  <1>1. ASSUME NEW req \in Request, Malloc(req) PROVE IInv'
    BY <1>1, MallocCallStep
  <1>2. ASSUME NEW n \in Request, NEW nmemb \in Request, Calloc(n, nmemb) PROVE IInv'
    BY <1>2, CallocStep
  <1>3. ASSUME NEW req \in StrLen, Strdup(req) PROVE IInv'
    BY <1>3, DupStep DEF Strdup
  <1>4. ASSUME NEW chars \in StrLen, NEW maxlen \in Request, Strndup(chars, maxlen)
        PROVE  IInv'
    <2> DEFINE req == IF chars < maxlen THEN chars ELSE maxlen
    <2>1. req \in 0 .. (SizeMax - PageSize)
      BY SMT
    <2>2. overrun = None /\ (MallocFails(req + 1) \/ \E b \in Address : DupAt(b, req))
      BY <1>4 DEF Strndup
    <2> HIDE DEF req
    <2>3. QED
      BY <2>1, <2>2, DupStep
  <1>5. CASE FreeNull \/ ClearErrno
    <2>1. /\ failed' = FALSE /\ errno' \in {errno, "0"} /\ overrun = None
          /\ UNCHANGED <<mapped, nonzero, header, live, size, leaked, overrun>>
      BY <1>5 DEF FreeNull, ClearErrno
    <2>2. TypeOK' /\ NullSetsErrno' /\ OverrunOnlyWhenWrapped'
      BY <2>1 DEF IInv, TypeOK, Errno, NullSetsErrno, OverrunOnlyWhenWrapped
    <2>3. QED
      BY <2>1, <2>2, SameBlocks
  <1>6. ASSUME NEW p \in live, Free(p) PROVE IInv'
    BY <1>6, FreeStep
  <1>7. ASSUME NEW p \in live, NEW new \in Request, Realloc(p, new) PROVE IInv'
    <2>1. overrun = None /\ new \in 0 .. SizeMax
      BY <1>7 DEF Realloc
    <2>2. CASE ReallocInPlace(p, new)
      BY <2>1, <2>2, ReallocInPlaceStep
    <2>3. CASE ReallocFails(p, new)
      BY <2>1, <2>3, MallocFailsStep DEF ReallocFails
    <2>4. ASSUME NEW b \in Address, ReallocMoves(p, new, b) PROVE IInv'
      BY <2>1, <2>4, ReallocMovesStep
    <2>5. ASSUME NEW b \in Address, ReallocOverruns(p, new, b) PROVE IInv'
      BY <2>5, ReallocOverrunsStep
    <2>6. QED
      BY <1>7, <2>2, <2>3, <2>4, <2>5 DEF Realloc
  <1>8. ASSUME NEW new \in Request, ReallocNull(new) PROVE IInv'
    BY <1>8, MallocCallStep DEF ReallocNull
  <1>9. ASSUME NEW p \in live, NEW i \in {0, size[p] - 1}, Write(p, i) PROVE IInv'
    BY <1>9, WriteStep
  <1>10. CASE UNCHANGED vars
    <2>1. UNCHANGED <<mapped, nonzero, header, live, size, leaked, failed, errno, overrun>>
      BY <1>10 DEF vars
    <2>2. TypeOK' /\ NullSetsErrno' /\ OverrunOnlyWhenWrapped'
      BY <2>1 DEF IInv, TypeOK, NullSetsErrno, OverrunOnlyWhenWrapped
    <2>3. QED
      BY <2>1, <2>2, SameBlocks
  <1>11. QED
    BY <1>1, <1>2, <1>3, <1>4, <1>5, <1>6, <1>7, <1>8, <1>9, <1>10 DEF Next

\* The invariant holds after any sequence of calls.
THEOREM HeapInvariant == Spec => []IInv
  BY InitIInv, NextIInv, PTL DEF Spec

\* Every variable stays in its type: no call writes past the mapped bytes.
THEOREM HeapTypeOK == Spec => []TypeOK
  <1>1. IInv => TypeOK
    BY DEF IInv
  <1>2. QED
    BY <1>1, HeapInvariant, PTL

\* The length free() and realloc() pass to munmap() is that of the mapping, so
\* that no call unmaps a byte of another block, for any sequence of calls.
THEOREM HeapBlocksDisjoint == Spec => []BlocksDisjoint
  <1>1. IInv => BlocksDisjoint
    BY DEF IInv
  <1>2. QED
    BY <1>1, HeapInvariant, PTL

\* Nothing is lost but what munmap() refused.
THEOREM HeapNothingLost == Spec => []NothingLost
  <1>1. IInv => NothingLost
    BY DEF IInv
  <1>2. QED
    BY <1>1, HeapInvariant, PTL

\* The rounding of malloc(), the overflow test of calloc() and the test for
\* room of realloc() never leave a pointer with less than was asked, and realloc()
\* copies no byte behind the new block, unless the header could not be added to
\* the request.
THEOREM HeapCapacity == Spec => []CapacityCoversRequest
  <1>1. IInv => CapacityCoversRequest
    BY DEF IInv, CapacityCoversRequest
  <1>2. QED
    BY <1>1, HeapInvariant, PTL

\* A call that returns NULL changes no block and sets errno: every path that sets
\* failed gives up before it touches the heap.
THEOREM HeapFailedCall == Spec => FailedCallKeepsBlocks
  <1> DEFINE Keeps == failed' => errno' # "0" /\ UNCHANGED <<mapped, live, size, nonzero>>
  <1>1. ASSUME IInv', [Next]_vars PROVE [Keeps]_vars
    <2> DEFINE Same == UNCHANGED <<mapped, live, size, nonzero>>
    <2> SUFFICES ASSUME failed', ~ UNCHANGED vars
                 PROVE  errno' # "0" /\ Same
      OBVIOUS
    <2>1. ASSUME NEW req, Malloc(req) PROVE Same
      BY <2>1 DEF Malloc, MallocFails, MallocAt
    <2>2. ASSUME NEW n, NEW nmemb, Calloc(n, nmemb) PROVE Same
      BY <2>2 DEF Calloc, MallocFails, MallocAt
    <2>3. ASSUME NEW req, Strdup(req) PROVE Same
      BY <2>3 DEF Strdup, MallocFails, DupAt, MallocAt
    <2>4. ASSUME NEW req, NEW maxlen, Strndup(req, maxlen) PROVE Same
      BY <2>4 DEF Strndup, MallocFails, DupAt, MallocAt
    <2>5. ASSUME NEW p, Free(p) PROVE Same
      BY <2>5 DEF Free
    <2>6. ASSUME NEW p, NEW new, Realloc(p, new) PROVE Same
      BY <2>6 DEF Realloc, ReallocInPlace, ReallocFails, MallocFails, ReallocMoves,
                  MovesTo, ReallocOverruns
    <2>7. ASSUME NEW new, ReallocNull(new) PROVE Same
      BY <2>1, <2>7 DEF ReallocNull
    <2>8. ASSUME NEW p, NEW i, Write(p, i) PROVE Same
      BY <2>8 DEF Write
    <2>9. CASE FreeNull \/ ClearErrno
      BY <2>9 DEF FreeNull, ClearErrno
    <2>10. Same
      BY <1>1, <2>1, <2>2, <2>3, <2>4, <2>5, <2>6, <2>7, <2>8, <2>9 DEF Next
    <2>11. errno' # "0"
      BY <1>1 DEF IInv, NullSetsErrno
    <2>12. QED
      BY <2>10, <2>11
  <1>2. Spec => [][Keeps]_vars
    BY <1>1, HeapInvariant, PTL DEF Spec
  <1>3. QED
    BY <1>2 DEF FailedCallKeepsBlocks

-----------------------------------------------------------------------------
(* Module Heap implements module Allocator: each call is an allocation, a       *)
(* release, a resizing, a store, or the end of the promise.                  *)

\* The bytes promised at any pointer, at any but p, and those that do not hold zero.
Promised  == UNION {Promise(q) : q \in live}
Others(p) == UNION {Promise(q) : q \in live \ {p}}
Kept    == nonzero \cap Promised

\* A step of the allocator, or one that changes nothing of it.
Refines == [A!AllocatorNext]_(A!allocVars)

-----------------------------------------------------------------------------
(* Areas and blocks.                                                       *)

\* An area of the allocator is what the program may use of a block.
LEMMA AreaIsExtent ==
  ASSUME NEW p, NEW n \in Nat
  PROVE  A!Bytes(p, n) = IF Representable(n) THEN Extent(p, n) ELSE {}
  <1>1. n <= SizeMax - HeaderSize <=> n + HeaderSize <= SizeMax
    BY HeapAssumption, SizeTAssumption, SMT
  <1>2. QED
    BY <1>1 DEF A!Bytes, Representable, Extent

\* Each pointer's area lies in its block and holds no byte of another's area.
LEMMA AreaFacts ==
  ASSUME IInv
  PROVE  /\ \A p \in live : /\ size[p] \in Nat
                            /\ A!Bytes(p, size[p]) = Promise(p)
                            /\ Promise(p) \subseteq Block(p)
                            /\ Promise(p) \cap Others(p) = {}
                            /\ Block(p) \cap Others(p) = {}
                            /\ Promised = Promise(p) \cup Others(p)
         /\ \A p : A!Used(p) = Others(p) /\ Others(p) \subseteq mapped
         /\ Promised \subseteq mapped
  <1> USE HeapAssumption, SizeTAssumption
  <1>1. \A p \in live : size[p] \in Nat
    BY DEF IInv, TypeOK
  <1>2. \A p \in live : A!Bytes(p, size[p]) = Promise(p)
    BY <1>1, AreaIsExtent DEF Promise
  <1>3. ASSUME NEW p \in live PROVE Promise(p) \subseteq Block(p)
    <2>1. p \in Nat /\ header[ContainerOf(p)] \in Nat
      BY <1>3, BlockFacts, SMT
    <2>2. Representable(size[p]) => size[p] <= header[ContainerOf(p)] - HeaderSize
      BY DEF IInv, BlocksCover, UserLen
    <2>3. CASE Representable(size[p])
      <3>1. p .. (p + size[p] - 1)
              \subseteq (p - HeaderSize) .. (p - HeaderSize + header[ContainerOf(p)] - 1)
        BY <1>1, <2>1, <2>2, <2>3, SMT
      <3>2. QED
        BY <2>3, <3>1 DEF Promise, Block, Extent, ContainerOf
    <2>4. CASE ~Representable(size[p])
      BY <2>4 DEF Promise
    <2>5. QED
      BY <2>3, <2>4
  <1>4. \A p \in live : /\ Block(p) \subseteq mapped
                        /\ \A q \in live \ {p} : Block(p) \cap Block(q) = {}
    BY DEF IInv, BlocksDisjoint
  <1>5. \A p \in live : Block(p) \cap Others(p) = {}
    BY <1>3, <1>4 DEF Others
  <1>6. \A p \in live : Promised = Promise(p) \cup Others(p)
    BY DEF Promised, Others
  <1>7. \A p : A!Used(p) = Others(p)
    BY <1>2 DEF A!Used, Others
  <1>8. Promised \subseteq mapped /\ \A p : Others(p) \subseteq Promised
    BY <1>3, <1>4 DEF Promised, Others
  <1>9. QED
    BY <1>1, <1>2, <1>3, <1>5, <1>6, <1>7, <1>8

\* The area at the user pointer of a new mapping lies in it.
LEMMA NewAreaFacts ==
  ASSUME IInv, NEW req \in 0 .. SizeMax, NEW b \in Address, CanMap(b, RoundedLen(req))
  PROVE  /\ A!Bytes(UserP(b), req) \subseteq Extent(b, RoundedLen(req))
         /\ Extent(b, RoundedLen(req)) \cap mapped = {}
         /\ UserP(b) \notin live
  <1> USE HeapAssumption, SizeTAssumption
  <1>1. /\ RoundedLen(req) \in Nat /\ b \in Nat
        /\ Representable(req) => HeaderSize + req <= RoundedLen(req)
        /\ Extent(b, RoundedLen(req)) \cap mapped = {} /\ UserP(b) \notin live
    BY NewBlockFacts, SMT
  <1>2. Representable(req) => Extent(UserP(b), req) \subseteq Extent(b, RoundedLen(req))
    BY <1>1, SMT DEF Extent, UserP
  <1>3. A!Bytes(UserP(b), req) = IF Representable(req) THEN Extent(UserP(b), req) ELSE {}
    BY AreaIsExtent
  <1>4. QED
    BY <1>1, <1>2, <1>3

\* The areas of the pointers that a call leaves alone.
LEMMA SamePromise ==
  ASSUME NEW p, size'[p] = size[p]
  PROVE  Promise(p)' = Promise(p)
  BY DEF Promise

-----------------------------------------------------------------------------
(* The calls.                                                              *)

\* A call that changes no block is a stutter of the allocator.
LEMMA StutterStep ==
  ASSUME UNCHANGED <<nonzero, live, size, overrun>>
  PROVE  Refines
  BY DEF Refines, A!allocVars, Promise

\* The steps of the allocator, one for each thing a call can do.
LEMMA AllocatorStep ==
  ASSUME overrun = None, overrun' = None,
         \/ \E p \in live' : A!Allocate(p, size'[p])
         \/ \E p \in live : A!Release(p)
         \/ \E p \in live, q \in live' : A!Resize(p, q, size'[q])
         \/ \E p \in live : \E a \in A!Bytes(p, size[p]) : A!Store(p, a)
  PROVE  Refines
  BY DEF Refines, A!AllocatorNext

\* malloc(), calloc() and strdup(): an area that is new, away from the others.
LEMMA MallocAllocates ==
  ASSUME IInv, overrun = None, NEW req \in 0 .. SizeMax, NEW b \in Address,
         NEW stored, stored \subseteq 0 .. (req - 1),
         stored # {} => Representable(req),
         MallocAt(b, req, req, stored)
  PROVE  Refines
  <1> USE HeapAssumption, SizeTAssumption
  <1> DEFINE u   == UserP(b)
             L   == RoundedLen(req)
             new == A!Bytes(u, req)
             set == {u + i : i \in stored}
  <1>1. /\ CanMap(b, L) /\ live' = live \cup {u} /\ size' = [size EXCEPT ![u] = req]
        /\ nonzero' = nonzero \cup set /\ overrun' = overrun
    BY DEF MallocAt
  <1>2. new \subseteq Extent(b, L) /\ Extent(b, L) \cap mapped = {} /\ u \notin live
    BY <1>1, NewAreaFacts
  <1>3. u \in Address /\ u \in Nat
    BY <1>1, NewBlockFacts
  <1>4. set \subseteq new
    <2>1. new = IF Representable(req) THEN Extent(u, req) ELSE {}
      BY AreaIsExtent
    <2>2. set \subseteq Extent(u, req)
      BY <1>3, SMT DEF Extent
    <2>3. QED
      BY <2>1, <2>2
  <1>5. size'[u] = req /\ \A q \in live : size'[q] = size[q]
    BY <1>1, <1>2, <1>3 DEF IInv, TypeOK
  <1>6. Promise(u)' = new
    <2>1. Promise(u)' = IF Representable(req) THEN Extent(u, req) ELSE {}
      BY <1>5 DEF Promise
    <2>2. QED
      BY <2>1, AreaIsExtent
  <1> HIDE DEF L, new, set, u
  <1>7. \A q \in live : Promise(q)' = Promise(q)
    BY <1>5, SamePromise
  <1>8. Promised' = Promised \cup new
    BY <1>1, <1>6, <1>7 DEF Promised
  <1>9. Promised \cap new = {} /\ A!Used(u) \cap new = {}
    BY <1>2, AreaFacts
  <1>10. Kept' \ new = Kept
    BY <1>1, <1>4, <1>8, <1>9 DEF Kept
  <1>11. A!Allocate(u, size'[u])
    BY <1>1, <1>2, <1>5, <1>9, <1>10 DEF A!Allocate, Kept, Promised, new
  <1>12. QED
    BY <1>1, <1>11, AllocatorStep

\* free(): the area is gone, whether munmap() succeeds or not.
LEMMA FreeReleases ==
  ASSUME IInv, NEW p \in live, Free(p)
  PROVE  Refines
  <1>1. /\ live' = live \ {p} /\ size' = [size EXCEPT ![p] = 0]
        /\ nonzero' = nonzero \ Block(p) \/ nonzero' = nonzero
        /\ overrun = None /\ overrun' = None
    BY DEF Free
  <1>2. /\ A!Bytes(p, size[p]) = Promise(p)
        /\ Block(p) \cap Others(p) = {} /\ Promise(p) \cap Others(p) = {}
        /\ Promised = Promise(p) \cup Others(p)
    BY AreaFacts
  <1>3. \A q \in live \ {p} : size'[q] = size[q]
    BY <1>1 DEF IInv, TypeOK
  <1>4. \A q \in live \ {p} : Promise(q)' = Promise(q)
    BY <1>3, SamePromise
  <1>5. Promised' = Others(p)
    BY <1>1, <1>4 DEF Promised, Others
  <1>6. Kept' = Kept \ Promise(p)
    BY <1>1, <1>2, <1>5 DEF Kept
  <1>7. A!Release(p)
    BY <1>1, <1>2, <1>6 DEF A!Release, Kept, Promised
  <1>8. QED
    BY <1>1, <1>7, AllocatorStep

\* realloc() that finds room: the area changes its size where it is.
LEMMA InPlaceResizes ==
  ASSUME IInv, overrun = None, NEW p \in live, NEW new \in 0 .. SizeMax,
         ReallocInPlace(p, new)
  PROVE  Refines
  <1> USE HeapAssumption, SizeTAssumption
  <1> DEFINE area == A!Bytes(p, new)
  <1>1. /\ UserLen(p) >= new /\ size' = [size EXCEPT ![p] = new]
        /\ UNCHANGED <<nonzero, live, overrun>>
    BY DEF ReallocInPlace
  <1>2. /\ A!Bytes(p, size[p]) = Promise(p) /\ A!Used(p) = Others(p)
        /\ Block(p) \cap Others(p) = {} /\ Promise(p) \cap Others(p) = {}
        /\ Promised = Promise(p) \cup Others(p)
    BY AreaFacts
  <1>3. p \in Nat /\ header[ContainerOf(p)] \in Nat /\ p \in Address
    BY BlockFacts, SMT DEF IInv, TypeOK
  <1>4. area = IF Representable(new) THEN Extent(p, new) ELSE {}
    BY AreaIsExtent
  <1>5. Extent(p, new) \subseteq Block(p)
    <2>1. new <= header[ContainerOf(p)] - HeaderSize
      BY <1>1, <1>3, SMT DEF UserLen
    <2>2. p .. (p + new - 1)
            \subseteq (p - HeaderSize) .. (p - HeaderSize + header[ContainerOf(p)] - 1)
      BY <1>3, <2>1, SMT
    <2>3. QED
      BY <2>2 DEF Block, Extent, ContainerOf
  <1>6. area \cap Others(p) = {}
    BY <1>2, <1>4, <1>5
  <1>7. /\ size'[p] = new /\ \A q \in live \ {p} : size'[q] = size[q]
        /\ size' = [[size EXCEPT ![p] = 0] EXCEPT ![p] = new]
    BY <1>1, <1>3 DEF IInv, TypeOK
  <1>8. Promise(p)' = area
    BY <1>4, <1>7 DEF Promise
  <1> HIDE DEF area
  <1>9. \A q \in live \ {p} : Promise(q)' = Promise(q)
    BY <1>7, SamePromise
  <1>10. Promised' = area \cup Others(p)
    BY <1>1, <1>8, <1>9 DEF Promised, Others
  <1>11. Kept' \ area = Kept \ Promise(p)
    BY <1>1, <1>2, <1>6, <1>10 DEF Kept
  <1>12. \A a \in Promise(p) :
           a + (p - p) \in area => (a + (p - p) \in Kept' <=> a \in Kept)
    <2> SUFFICES ASSUME NEW a \in Promise(p), a + (p - p) \in area
                 PROVE  a + (p - p) \in Kept' <=> a \in Kept
      OBVIOUS
    <2>1. a \in Nat
      BY <1>3, SMT DEF Promise, Extent
    <2>2. a + (p - p) = a
      BY <1>3, <2>1, SMT
    <2>3. QED
      BY <1>1, <1>2, <1>10, <2>2 DEF Kept
  <1>13. A!Resize(p, p, size'[p])
    BY <1>1, <1>2, <1>6, <1>7, <1>11, <1>12 DEF A!Resize, Kept, Promised, area
  <1>14. QED
    BY <1>1, <1>13, AllocatorStep

\* realloc() that moves a block: the bytes of the old area are those of the new one.
LEMMA MovesResizes ==
  ASSUME IInv, overrun = None, NEW p \in live, NEW new \in 0 .. SizeMax,
         NEW b \in Address, ReallocMoves(p, new, b)
  PROVE  Refines
  <1> USE HeapAssumption, SizeTAssumption
  <1> DEFINE u    == UserP(b)
             L    == RoundedLen(new)
             area == A!Bytes(u, new)
             kept == {u + i : i \in Copied(p)}
  <1>1. /\ CanMap(b, L) /\ UserLen(p) <= L - HeaderSize
        /\ live' = (live \ {p}) \cup {u} /\ size' = [size EXCEPT ![p] = 0, ![u] = new]
        /\ nonzero' = (nonzero \ Block(p)) \cup kept \/ nonzero' = nonzero \cup kept
        /\ overrun' = overrun
    BY DEF ReallocMoves, MovesTo
  <1>2. area \subseteq Extent(b, L) /\ Extent(b, L) \cap mapped = {} /\ u \notin live
    BY <1>1, NewAreaFacts
  <1>3. b \in Nat /\ u \in Address /\ u \in Nat /\ u = b + HeaderSize /\ L \in Nat
    BY <1>1, NewBlockFacts, SMT DEF UserP
  <1>4. /\ p \in Nat /\ p \in Address
        /\ header[ContainerOf(p)] \in Nat /\ UserLen(p) = header[ContainerOf(p)] - HeaderSize
    BY BlockFacts, SMT DEF IInv, TypeOK, UserLen
  <1>5. /\ A!Bytes(p, size[p]) = Promise(p) /\ size[p] \in Nat
        /\ A!Used(p) = Others(p) /\ Others(p) \subseteq mapped
        /\ Promise(p) \subseteq Block(p) /\ Block(p) \cap Others(p) = {}
        /\ Promised = Promise(p) \cup Others(p) /\ Promised \subseteq mapped
    BY AreaFacts
  <1>6. kept \subseteq Extent(b, L)
    <2> SUFFICES ASSUME NEW i \in Copied(p) PROVE u + i \in Extent(b, L)
      OBVIOUS
    <2>1. i \in 0 .. (UserLen(p) - 1)
      BY DEF Copied
    <2>2. i \in Nat /\ i < L - HeaderSize
      BY <1>1, <1>3, <1>4, <2>1, SMT
    <2>3. u + i \in b .. (b + L - 1)
      BY <1>3, <2>2, SMT
    <2>4. QED
      BY <2>3 DEF Extent
  <1>7. /\ size'[u] = new /\ \A q \in live \ {p} : size'[q] = size[q]
        /\ size' = [[size EXCEPT ![p] = 0] EXCEPT ![u] = new]
    BY <1>1, <1>2, <1>3, <1>4 DEF IInv, TypeOK
  <1>8. Promise(u)' = area
    <2>1. Promise(u)' = IF Representable(new) THEN Extent(u, new) ELSE {}
      BY <1>7 DEF Promise
    <2>2. QED
      BY <2>1, AreaIsExtent
  <1>9. \A q \in live \ {p} : Promise(q)' = Promise(q)
    BY <1>7, SamePromise
  <1>10. \A a \in Promise(p) : /\ a + (u - p) \in area => a + (u - p) \notin nonzero
                               /\ a + (u - p) \in kept <=> a \in nonzero
    <2> SUFFICES ASSUME NEW a \in Promise(p)
                 PROVE  /\ a + (u - p) \in area => a + (u - p) \notin nonzero
                        /\ a + (u - p) \in kept <=> a \in nonzero
      OBVIOUS
    <2>1. Representable(size[p]) /\ a \in p .. (p + size[p] - 1)
      BY DEF Promise, Extent
    <2>2. size[p] <= UserLen(p)
      BY <2>1 DEF IInv, BlocksCover
    <2> DEFINE i == a - p
    <2>3. i \in 0 .. (UserLen(p) - 1) /\ p + i = a /\ a + (u - p) = u + i
      BY <1>3, <1>4, <1>5, <2>1, <2>2, SMT
    <2> HIDE DEF i
    <2>4. a \in nonzero <=> i \in Copied(p)
      BY <2>3 DEF Copied
    <2>5. u + i \in kept <=> i \in Copied(p)
      <3>1. Copied(p) \subseteq Int /\ i \in Int
        BY <2>3, SMT DEF Copied
      <3> HIDE DEF u
      <3>2. \A j \in Int : u + j = u + i => j = i
        BY <1>3, <3>1, SMT
      <3>3. QED
        BY <3>1, <3>2
    <2>6. nonzero \subseteq mapped
      BY DEF IInv, TypeOK
    <2>7. QED
      BY <1>2, <2>3, <2>4, <2>5, <2>6
  <1> HIDE DEF u, L, area, kept
  <1>11. Promised' = area \cup Others(p)
    BY <1>1, <1>8, <1>9 DEF Promised, Others
  <1>12. area \cap Others(p) = {} /\ kept \cap Others(p) = {}
    BY <1>2, <1>5, <1>6
  <1>13. Kept' \ area = Kept \ Promise(p)
    BY <1>1, <1>5, <1>11, <1>12 DEF Kept
  <1>14. \A a \in Promise(p) :
           a + (u - p) \in area => (a + (u - p) \in Kept' <=> a \in Kept)
    BY <1>1, <1>5, <1>10, <1>11 DEF Kept
  <1>15. A!Resize(p, u, size'[u])
    BY <1>1, <1>2, <1>5, <1>7, <1>12, <1>13, <1>14 DEF A!Resize, Kept, Promised, area
  <1>16. QED
    BY <1>1, <1>15, AllocatorStep

\* realloc() that copies past the end: nothing is promised from here on.
LEMMA OverrunVoids ==
  ASSUME overrun = None, NEW p, NEW new \in 0 .. SizeMax, NEW b, ReallocOverruns(p, new, b)
  PROVE  Refines
  <1>1. overrun' # None
    BY HeapAssumption, SizeTAssumption, SMT DEF ReallocOverruns, None
  <1>2. QED
    BY <1>1 DEF Refines, A!AllocatorNext

\* The program sets a byte of an area.
LEMMA WriteStores ==
  ASSUME IInv, NEW p \in live, NEW i, Write(p, i)
  PROVE  Refines
  <1>1. /\ p + i \in Promise(p) /\ nonzero' = nonzero \cup {p + i}
        /\ live' = live /\ size' = size /\ overrun = None /\ overrun' = None
    BY DEF Write
  <1>2. A!Bytes(p, size[p]) = Promise(p) /\ Promise(p) \subseteq Promised
    BY AreaFacts
  <1>3. Promised' = Promised
    BY <1>1 DEF Promised, Promise
  <1>4. Kept' = Kept \cup {p + i}
    BY <1>1, <1>2, <1>3 DEF Kept
  <1>5. A!Store(p, p + i)
    BY <1>1, <1>2, <1>4 DEF A!Store, Kept, Promised
  <1>6. QED
    BY <1>1, <1>2, <1>5, AllocatorStep

-----------------------------------------------------------------------------
(* The specification.                                                      *)

\* An empty heap is an allocator that has promised nothing.
LEMMA InitAllocator == Init => A!AllocatorInit
  BY DEF Init, A!AllocatorInit

\* malloc(), which most of the others call.
LEMMA MallocRefines ==
  ASSUME IInv, NEW req \in 0 .. SizeMax, Malloc(req)
  PROVE  Refines
  <1>1. overrun = None
    BY DEF Malloc
  <1>2. CASE MallocFails(req)
    BY <1>2, StutterStep DEF MallocFails
  <1>3. ASSUME NEW b \in Address, MallocAt(b, req, req, {}) PROVE Refines
    BY <1>1, <1>3, MallocAllocates
  <1>4. QED
    BY <1>2, <1>3 DEF Malloc

\* calloc(): its division lets through only products that malloc() sees whole.
LEMMA CallocRefines ==
  ASSUME IInv, NEW n \in 0 .. SizeMax, NEW nmemb \in 0 .. SizeMax, Calloc(n, nmemb)
  PROVE  Refines
  <1>1. overrun = None
    BY DEF Calloc
  <1>2. CASE CallocOverflows(n, nmemb)
    BY <1>2, StutterStep DEF Calloc
  <1>3. CASE ~CallocOverflows(n, nmemb)
    <2>1. n * nmemb \in 0 .. SizeMax /\ Wrap(n * nmemb) = n * nmemb
      BY <1>3, CallocFacts
    <2>2. MallocFails(n * nmemb) \/ \E b \in Address : MallocAt(b, n * nmemb, n * nmemb, {})
      BY <1>3, <2>1 DEF Calloc
    <2>3. CASE MallocFails(n * nmemb)
      BY <2>3, StutterStep DEF MallocFails
    <2>4. ASSUME NEW b \in Address, MallocAt(b, n * nmemb, n * nmemb, {}) PROVE Refines
      BY <1>1, <2>1, <2>4, MallocAllocates
    <2>5. QED
      BY <2>2, <2>3, <2>4
  <1>4. QED
    BY <1>2, <1>3

\* strdup() and strndup(): the string is in the area from the start.
LEMMA DupRefines ==
  ASSUME IInv, overrun = None, NEW req \in 0 .. (SizeMax - PageSize),
         MallocFails(req + 1) \/ \E b \in Address : DupAt(b, req)
  PROVE  Refines
  <1> USE HeapAssumption, SizeTAssumption
  <1>1. /\ req + 1 \in 0 .. SizeMax /\ Representable(req + 1)
        /\ 0 .. (req - 1) \subseteq 0 .. ((req + 1) - 1)
    BY SMT DEF Representable
  <1> DEFINE n == req + 1
  <1>2. CASE MallocFails(n)
    BY <1>2, StutterStep DEF MallocFails
  <1>3. ASSUME NEW b \in Address, MallocAt(b, n, n, 0 .. (req - 1)) PROVE Refines
    BY <1>1, <1>3, MallocAllocates
  <1>4. QED
    BY <1>2, <1>3 DEF DupAt

\* realloc(), with room, without memory, and with a new block.
LEMMA ReallocRefines ==
  ASSUME IInv, NEW p \in live, NEW new \in 0 .. SizeMax, Realloc(p, new)
  PROVE  Refines
  <1>1. overrun = None
    BY DEF Realloc
  <1>2. CASE ReallocInPlace(p, new)
    BY <1>1, <1>2, InPlaceResizes
  <1>3. CASE ReallocFails(p, new)
    BY <1>3, StutterStep DEF ReallocFails, MallocFails
  <1>4. ASSUME NEW b \in Address, ReallocMoves(p, new, b) PROVE Refines
    BY <1>1, <1>4, MovesResizes
  <1>5. ASSUME NEW b \in Address, ReallocOverruns(p, new, b) PROVE Refines
    BY <1>1, <1>5, OverrunVoids
  <1>6. QED
    BY <1>2, <1>3, <1>4, <1>5 DEF Realloc

\* Every step of the heap is a step of the allocator or changes nothing of it.
LEMMA NextAllocator == IInv /\ [Next]_vars => Refines
  <1> SUFFICES ASSUME IInv, [Next]_vars PROVE Refines
    OBVIOUS
  <1> USE HeapAssumption, SizeTAssumption
  <1>1. ASSUME NEW req \in Request, Malloc(req) PROVE Refines
    BY <1>1, MallocRefines
  <1>2. ASSUME NEW n \in Request, NEW nmemb \in Request, Calloc(n, nmemb) PROVE Refines
    BY <1>2, CallocRefines
  <1>3. ASSUME NEW req \in StrLen, Strdup(req) PROVE Refines
    BY <1>3, DupRefines DEF Strdup
  <1>4. ASSUME NEW chars \in StrLen, NEW maxlen \in Request, Strndup(chars, maxlen)
        PROVE  Refines
    <2> DEFINE req == IF chars < maxlen THEN chars ELSE maxlen
    <2>1. req \in 0 .. (SizeMax - PageSize)
      BY SMT
    <2>2. overrun = None /\ (MallocFails(req + 1) \/ \E b \in Address : DupAt(b, req))
      BY <1>4 DEF Strndup
    <2> HIDE DEF req
    <2>3. QED
      BY <2>1, <2>2, DupRefines
  <1>5. CASE FreeNull \/ ClearErrno
    BY <1>5, StutterStep DEF FreeNull, ClearErrno
  <1>6. ASSUME NEW p \in live, Free(p) PROVE Refines
    BY <1>6, FreeReleases
  <1>7. ASSUME NEW p \in live, NEW new \in Request, Realloc(p, new) PROVE Refines
    BY <1>7, ReallocRefines
  <1>8. ASSUME NEW new \in Request, ReallocNull(new) PROVE Refines
    BY <1>8, MallocRefines DEF ReallocNull
  <1>9. ASSUME NEW p \in live, NEW i \in {0, size[p] - 1}, Write(p, i) PROVE Refines
    BY <1>9, WriteStores
  <1>10. CASE UNCHANGED vars
    BY <1>10, StutterStep DEF vars
  <1>11. CASE Next
    BY <1>1, <1>2, <1>3, <1>4, <1>5, <1>6, <1>7, <1>8, <1>9, <1>11 DEF Next
  <1>12. QED
    BY <1>10, <1>11

\* For any sequence of calls and any choices of the kernel, a program of nolibc's
\* heap sees an allocator: areas that do not overlap and keep what was stored,
\* whatever mmap() and munmap() refuse, up to a realloc() that runs over.
THEOREM HeapImplementsAllocator == Spec => AllocatorSpec
  BY InitAllocator, NextAllocator, HeapInvariant, PTL DEF Spec, AllocatorSpec, A!Spec, Refines

-----------------------------------------------------------------------------
(* memmove() and memcpy().                                                 *)

Moves == {"memmove", "memcpy"}

Up == Upwards(op.fn, op.dst, op.src, op.n)

\* The bytes that are copied already.
Done == IF Up THEN Area(op.dst, op.n - len) ELSE Area(op.dst + len, op.n - len)

\* The arguments of a copy, and how far it has come: the bytes that are copied are
\* those that the source had when the call began, and all others are untouched.
CopyInv ==
  /\ op.dst \in Place /\ op.src \in Place /\ op.n \in Nat
  /\ op.dst + op.n <= MemSize /\ op.src + op.n <= MemSize
  /\ op.fn = "memcpy" => op.dst + op.n <= op.src \/ op.src + op.n <= op.dst \/ op.n = 0
  /\ len \in 0 .. op.n
  /\ ret = op.dst
  /\ pos = IF Up THEN Wrap(op.n - len - 1) ELSE len
  /\ mem = [q \in Place |-> IF q \in Done THEN before[op.src + (q - op.dst)] ELSE before[q]]

MoveInv ==
  /\ rep \in BOOLEAN
  /\ op.fn \in Moves => CopyInv
  /\ op.fn \notin Moves => len = 0
  /\ NoCall => mem \in [Place -> Byte]

-----------------------------------------------------------------------------

\* Positions in a memory that are one below zero wrap to SIZE_MAX, and back.
LEMMA WrapPlace ==
  ASSUME NEW n \in Int, n >= -MemSize, n <= MemSize
  PROVE  /\ Wrap(n) \in 0 .. SizeMax
         /\ n >= 0 => Wrap(n) = n
         /\ n < 0 => Wrap(n) = n + SizeMax + 1
  <1>1. SizeMax + 1 \in Nat /\ SizeMax + 1 > 0 /\ MemSize < SizeMax + 1 /\ MemSize \in Nat
    BY StringsAssumption, SizeTAssumption, SMT
  <1>2. /\ n % (SizeMax + 1) \in 0 .. ((SizeMax + 1) - 1)
        /\ n >= 0 /\ n < SizeMax + 1 => n % (SizeMax + 1) = n
        /\ n < 0 /\ n >= -(SizeMax + 1) => n % (SizeMax + 1) = n + (SizeMax + 1)
    BY <1>1, ModNear
  <1>3. QED
    BY <1>1, <1>2, StringsAssumption, SizeTAssumption, SMT DEF Wrap

\* From the first byte on, or down to -1 and up again: the next position.
LEMMA NextPos ==
  ASSUME NEW k \in Nat, k < MemSize
  PROVE  Wrap(Wrap(k - 1) + 1) = k
  <1>1. MemSize \in Nat /\ SizeMax \in Nat /\ MemSize <= SizeMax
    BY StringsAssumption, SizeTAssumption
  <1>2. CASE k = 0
    <2>1. Wrap(-1) = SizeMax
      BY <1>1, <1>2, WrapPlace, SMT
    <2>2. SizeMax + 1 \in Nat /\ SizeMax + 1 > 0
      BY <1>1, SMT
    <2>3. (SizeMax + 1) % (SizeMax + 1) = (SizeMax + 1) - (SizeMax + 1)
      <3>1. SizeMax + 1 < 2 * (SizeMax + 1) /\ SizeMax + 1 >= SizeMax + 1
        BY <1>1, SMT
      <3>2. QED
        BY <2>2, <3>1, ModFacts
    <2>4. Wrap(SizeMax + 1) = 0
      BY <1>1, <2>3, SMT DEF Wrap
    <2>5. k - 1 = -1
      BY <1>2, SMT
    <2>6. QED
      BY <1>2, <2>1, <2>4, <2>5
  <1>3. CASE k > 0
    <2>1. Wrap(k - 1) = k - 1
      BY <1>1, <1>3, WrapPlace, SMT
    <2>2. Wrap(k) = k
      BY <1>1, <1>3, WrapPlace, SMT
    <2>3. (k - 1) + 1 = k
      BY SMT
    <2>4. QED
      BY <2>1, <2>2, <2>3
  <1>4. QED
    BY <1>2, <1>3, SMT

\* The direction is such that a byte of the source is read before it is written: the
\* comparison of unsigned differences on x86_64 included.
LEMMA Direction ==
  ASSUME NEW f \in Moves, NEW dst \in Place, NEW src \in Place, NEW n \in Nat,
         dst + n <= MemSize, src + n <= MemSize, rep \in BOOLEAN,
         f = "memcpy" => dst + n <= src \/ src + n <= dst \/ n = 0
  PROVE  IF Upwards(f, dst, src, n) THEN dst < src \/ src + n <= dst \/ n = 0
         ELSE src <= dst \/ dst + n <= src \/ n = 0
  <1>1. MemSize \in Nat /\ SizeMax \in Nat /\ MemSize <= SizeMax
    BY StringsAssumption, SizeTAssumption
  <1>2. CASE rep
    <2>1. /\ dst - src >= 0 => Wrap(dst - src) = dst - src
          /\ dst - src < 0 => Wrap(dst - src) = dst - src + SizeMax + 1
      <3>1. dst - src \in Int /\ dst - src >= -MemSize /\ dst - src <= MemSize
        BY <1>1, SMT DEF Place
      <3>2. QED
        BY <3>1, WrapPlace
    <2>2. Upwards(f, dst, src, n) = ~(Wrap(dst - src) < n)
      BY <1>2 DEF Upwards
    <2>3. CASE Wrap(dst - src) < n
      <3>1. src <= dst \/ n = 0
        BY <1>1, <2>1, <2>3, SMT DEF Place
      <3>2. QED
        BY <2>2, <2>3, <3>1
    <2>4. CASE ~(Wrap(dst - src) < n)
      <3>1. dst < src \/ src + n <= dst \/ n = 0
        BY <1>1, <2>1, <2>4, SMT DEF Place
      <3>2. QED
        BY <2>2, <2>4, <3>1
    <2>5. QED
      BY <2>3, <2>4
  <1>3. CASE ~rep
    <2>1. Upwards(f, dst, src, n) <=> (f = "memcpy" \/ dst < src)
      BY <1>3 DEF Upwards
    <2>2. QED
      BY <1>1, <2>1, SMT DEF Place, Moves
  <1>4. QED
    BY <1>2, <1>3

-----------------------------------------------------------------------------

\* No call has been made.
LEMMA MoveInvInit == StringsInit => MoveInv
  BY SMT DEF StringsInit, MoveInv, Moves, NoCall, Call

\* A call of another function, or the first step of a copy.
LEMMA MoveInvBegins ==
  ASSUME MoveInv, NoCall, Begins
  PROVE  MoveInv'
  <1>1. rep \in BOOLEAN /\ len = 0 /\ mem \in [Place -> Byte]
    BY DEF MoveInv, NoCall, Moves
  <1>2. CASE \E f \in Moves, dst, src \in Place, n \in SizeArg : CopyBegins(f, dst, src, n)
    <2>1. PICK f \in Moves, dst \in Place, src \in Place, n \in SizeArg : CopyBegins(f, dst, src, n)
      BY <1>2
    <2>2. /\ op' = Call(f, dst, src, n, 0) /\ before' = mem /\ mem' = mem
          /\ pos' = IF Upwards(f, dst, src, n) THEN Wrap(-1) ELSE n
          /\ len' = n /\ ret' = dst /\ rep' = rep
          /\ InMemory(Area(dst, n)) /\ InMemory(Area(src, n))
          /\ f = "memcpy" => Area(dst, n) \cap Area(src, n) = {}
      BY <2>1 DEF CopyBegins
    <2>3. op'.fn = f /\ op'.dst = dst /\ op'.src = src /\ op'.n = n
      BY <2>2 DEF Call
    <2>4. n \in Nat /\ MemSize \in Nat
      BY StringsAssumption, SizeTAssumption, SMT
    <2>5. dst + n <= MemSize /\ src + n <= MemSize
      <3>1. CASE n = 0
        BY <2>4, <3>1, SMT DEF Place
      <3>2. CASE n > 0
        <4>1. dst + n - 1 \in Area(dst, n) /\ src + n - 1 \in Area(src, n)
          BY <2>4, <3>2, SMT DEF Area, Place
        <4>2. dst + n - 1 \in Place /\ src + n - 1 \in Place
          BY <2>2, <4>1 DEF InMemory
        <4>3. QED
          BY <2>4, <4>2, SMT DEF Place
      <3>3. QED
        BY <2>4, <3>1, <3>2, SMT
    <2>6. f = "memcpy" => dst + n <= src \/ src + n <= dst \/ n = 0
      <3> SUFFICES ASSUME f = "memcpy", n > 0, ~(dst + n <= src), ~(src + n <= dst)
                   PROVE  FALSE
        BY <2>4, SMT
      <3>1. CASE dst <= src
        <4>1. src \in Area(dst, n) /\ src \in Area(src, n)
          BY <2>4, <3>1, SMT DEF Area, Place
        <4>2. QED
          BY <2>2, <4>1
      <3>2. CASE src <= dst
        <4>1. dst \in Area(dst, n) /\ dst \in Area(src, n)
          BY <2>4, <3>2, SMT DEF Area, Place
        <4>2. QED
          BY <2>2, <4>1
      <3>3. QED
        BY <3>1, <3>2, SMT DEF Place
    <2>7. (Up)' <=> Upwards(f, dst, src, n)
      BY <2>2, <2>3 DEF Up, Upwards
    <2>8. (Done)' = {}
      BY <2>2, <2>3, <2>4, SMT DEF Done, Area, Place
    <2>9. mem' = [q \in Place |-> IF q \in (Done)' THEN before'[op'.src + (q - op'.dst)] ELSE before'[q]]
      BY <1>1, <2>2, <2>8
    <2>10. pos' = IF (Up)' THEN Wrap(op'.n - len' - 1) ELSE len'
      <3>1. n - n - 1 = -1
        BY <2>4, SMT
      <3>2. QED
        BY <2>2, <2>3, <2>7, <3>1
    <2>11. CopyInv'
      BY <2>2, <2>3, <2>4, <2>5, <2>6, <2>9, <2>10, SMT DEF CopyInv
    <2>12. QED
      BY <1>1, <2>2, <2>3, <2>11 DEF MoveInv, NoCall, Moves
  <1>3. CASE ~\E f \in Moves, dst, src \in Place, n \in SizeArg : CopyBegins(f, dst, src, n)
    <2>1. /\ op'.fn \notin Moves /\ op'.fn # "none"
          /\ UNCHANGED <<len, rep>>
      <3>1. CASE \E p, q \in Place, n \in SizeArg, c \in CharArg : Reads(p, q, n, c)
        <4>1. PICK p, q \in Place, n \in SizeArg, c \in CharArg : Reads(p, q, n, c)
          BY <3>1
        <4>2. \E f \in {"strlen", "strnlen", "strchr", "strrchr", "memcmp", "strncmp", "strcmp", "strstr"} :
                /\ op'.fn = f
                /\ UNCHANGED <<len, rep>>
          <5>1. CASE IsString(p) /\ Returns("strlen", p, p, 0, 0, strlen(p))
            BY <5>1 DEF Returns, Call
          <5>2. CASE Scannable(p, n) /\ Returns("strnlen", p, p, n, 0, strnlen(p, n))
            BY <5>2 DEF Returns, Call
          <5>3. CASE IsString(p) /\ Returns("strchr", p, p, 0, c, strchr(p, c))
            BY <5>3 DEF Returns, Call
          <5>4. CASE IsString(p) /\ Returns("strrchr", p, p, 0, c, strrchr(p, c))
            BY <5>4 DEF Returns, Call
          <5>5. CASE Returns("memcmp", p, q, n, 0, memcmp(p, q, n))
            BY <5>5 DEF Returns, Call
          <5>6. CASE Returns("strncmp", p, q, n, 0, strncmp(p, q, n))
            BY <5>6 DEF Returns, Call
          <5>7. CASE Returns("strcmp", p, q, 0, 0, strcmp(p, q))
            BY <5>7 DEF Returns, Call
          <5>8. CASE Returns("strstr", p, q, 0, 0, strstr(p, q))
            BY <5>8 DEF Returns, Call
          <5>9. QED
            BY <4>1, <5>1, <5>2, <5>3, <5>4, <5>5, <5>6, <5>7, <5>8 DEF Reads
        <4>3. QED
          BY <4>2 DEF Moves
      <3>2. CASE \E dst \in Place, n \in SizeArg, c \in CharArg : memset(dst, c, n)
        BY <3>2 DEF memset, Returns, Call, Moves
      <3>3. CASE \E dst, src \in Place : strcpy(dst, src)
        BY <3>3 DEF strcpy, Returns, Call, Moves
      <3>4. CASE \E dst, src \in Place, n \in SizeArg : strncpy(dst, src, n)
        BY <3>4 DEF strncpy, Returns, Call, Moves
      <3>5. CASE \E dst, src \in Place, n \in SizeArg : strncat(dst, src, n)
        BY <3>5 DEF strncat, Returns, Call, Moves
      <3>6. CASE \E dst, src \in Place, n \in SizeArg : strlcpy(dst, src, n)
        BY <3>6 DEF strlcpy, Returns, Call, Moves
      <3>7. CASE \E dst, src \in Place, n \in SizeArg : strlcat(dst, src, n)
        BY <3>7 DEF strlcat, Returns, Call, Moves
      <3>8. QED
        BY <1>3, <3>1, <3>2, <3>3, <3>4, <3>5, <3>6, <3>7 DEF Begins, Moves
    <2>2. QED
      BY <1>1, <2>1 DEF MoveInv, NoCall
  <1>4. QED
    BY <1>2, <1>3

\* A byte of the copy: the byte of the source that is read was not written yet.
LEMMA MoveInvCopyByte ==
  ASSUME MoveInv, CopyByte
  PROVE  MoveInv'
  <1>1. /\ len > 0 /\ len' = len - 1
        /\ pos' = Wrap(pos + (IF Up THEN 1 ELSE -1))
        /\ mem' = [mem EXCEPT ![op.dst + pos'] = mem[op.src + pos']]
        /\ UNCHANGED <<before, op, ret, rep>>
    BY DEF CopyByte, Copying, Up
  <1>2. op.fn \in Moves /\ CopyInv /\ rep \in BOOLEAN
    BY <1>1, SMT DEF MoveInv
  <1> DEFINE dst == op.dst
             src == op.src
             n   == op.n
  <1>3. /\ dst \in Place /\ src \in Place /\ n \in Nat
        /\ dst + n <= MemSize /\ src + n <= MemSize
        /\ len \in 1 .. n /\ len' \in 0 .. n
        /\ MemSize \in Nat /\ SizeMax \in Nat /\ MemSize <= SizeMax
    BY <1>1, <1>2, StringsAssumption, SizeTAssumption, SMT DEF CopyInv
  <1>4. IF Up THEN dst < src \/ src + n <= dst \/ n = 0
        ELSE src <= dst \/ dst + n <= src \/ n = 0
    BY <1>2, <1>3, Direction DEF CopyInv, Up
  <1>5. (Up)' <=> Up
    BY <1>1 DEF Up, Upwards
  <1>6. mem = [q \in Place |-> IF q \in Done THEN before[src + (q - dst)] ELSE before[q]]
    BY <1>2 DEF CopyInv
  <1>7. CASE Up
    <2> DEFINE k == n - len
    <2>1. pos' = k
      <3>1. k \in Nat /\ k < MemSize
        BY <1>3, SMT DEF Place
      <3>2. pos = Wrap(k - 1)
        BY <1>2, <1>7 DEF CopyInv
      <3>3. QED
        BY <1>1, <1>7, <3>1, <3>2, NextPos
    <2>2. Done = Area(dst, k)
      BY <1>7 DEF Done
    <2>3. (Done)' = Area(dst, k + 1)
      <3>1. n - (len - 1) = k + 1
        BY <1>3, SMT
      <3>2. QED
        BY <1>1, <1>5, <1>7, <3>1 DEF Done
    <2>4. src + k \in Place /\ src + k \notin Area(dst, k) /\ dst + k \in Place
      BY <1>3, <1>4, <1>7, SMT DEF Area, Place
    <2>5. mem[src + k] = before[src + k]
      BY <1>6, <2>2, <2>4
    <2>6. mem' = [q \in Place |-> IF q \in (Done)' THEN before[src + (q - dst)] ELSE before[q]]
      <3>1. mem' = [q \in Place |-> IF q = dst + k THEN before[src + k] ELSE mem[q]]
        BY <1>1, <1>6, <2>1, <2>5
      <3>2. ASSUME NEW q \in Place
            PROVE  (IF q = dst + k THEN before[src + k] ELSE mem[q])
                     = IF q \in (Done)' THEN before[src + (q - dst)] ELSE before[q]
        <4>1. q \in Area(dst, k + 1) <=> q = dst + k \/ q \in Area(dst, k)
          BY <1>3, SMT DEF Area, Place
        <4>2. CASE q = dst + k
          <5>1. src + (q - dst) = src + k
            BY <1>3, <4>2, SMT DEF Place
          <5>2. QED
            BY <2>3, <4>1, <4>2, <5>1
        <4>3. CASE q # dst + k
          BY <1>6, <2>2, <2>3, <4>1, <4>3
        <4>4. QED
          BY <4>2, <4>3
      <3>3. QED
        BY <3>1, <3>2
    <2>7. pos' = Wrap(n - len' - 1)
      <3>1. n - len' - 1 = k /\ k >= 0 /\ k <= MemSize
        BY <1>1, <1>3, SMT DEF Place
      <3>2. Wrap(k) = k
        BY <1>3, <3>1, WrapPlace, SMT
      <3>3. QED
        BY <2>1, <3>1, <3>2
    <2>8. CopyInv'
      BY <1>1, <1>2, <1>3, <1>5, <1>7, <2>6, <2>7 DEF CopyInv
    <2>9. QED
      BY <1>1, <1>2, <2>8 DEF MoveInv, NoCall, Moves
  <1>8. CASE ~Up
    <2> DEFINE k == len - 1
    <2>1. pos' = k
      <3>1. len + (-1) = k /\ k >= 0 /\ k <= MemSize /\ k \in Int
        BY <1>3, SMT DEF Place
      <3>2. Wrap(k) = k
        BY <1>3, <3>1, WrapPlace, SMT
      <3>3. pos = len
        BY <1>2, <1>8 DEF CopyInv
      <3>4. QED
        BY <1>1, <1>8, <3>1, <3>2, <3>3
    <2>2. Done = Area(dst + len, n - len)
      BY <1>8 DEF Done
    <2>3. (Done)' = Area(dst + k, n - k)
      BY <1>1, <1>5, <1>8 DEF Done
    <2>4. src + k \in Place /\ src + k \notin Area(dst + len, n - len) /\ dst + k \in Place
      BY <1>3, <1>4, <1>8, SMT DEF Area, Place
    <2>5. mem[src + k] = before[src + k]
      BY <1>6, <2>2, <2>4
    <2>6. mem' = [q \in Place |-> IF q \in (Done)' THEN before[src + (q - dst)] ELSE before[q]]
      <3>1. mem' = [q \in Place |-> IF q = dst + k THEN before[src + k] ELSE mem[q]]
        BY <1>1, <1>6, <2>1, <2>5
      <3>2. ASSUME NEW q \in Place
            PROVE  (IF q = dst + k THEN before[src + k] ELSE mem[q])
                     = IF q \in (Done)' THEN before[src + (q - dst)] ELSE before[q]
        <4>1. q \in Area(dst + k, n - k) <=> q = dst + k \/ q \in Area(dst + len, n - len)
          BY <1>3, SMT DEF Area, Place
        <4>2. CASE q = dst + k
          <5>1. src + (q - dst) = src + k
            BY <1>3, <4>2, SMT DEF Place
          <5>2. QED
            BY <2>3, <4>1, <4>2, <5>1
        <4>3. CASE q # dst + k
          BY <1>6, <2>2, <2>3, <4>1, <4>3
        <4>4. QED
          BY <4>2, <4>3
      <3>3. QED
        BY <3>1, <3>2
    <2>7. CopyInv'
      BY <1>1, <1>2, <1>3, <1>5, <1>8, <2>1, <2>6 DEF CopyInv
    <2>8. QED
      BY <1>1, <1>2, <2>7 DEF MoveInv, NoCall, Moves
  <1>9. QED
    BY <1>7, <1>8

\* Every step keeps what is known of a copy.
LEMMA MoveInvNext == MoveInv /\ [StringsNext]_stringsVars => MoveInv'
  <1> SUFFICES ASSUME MoveInv, [StringsNext]_stringsVars PROVE MoveInv'
    OBVIOUS
  <1>1. CASE NoCall /\ Begins
    BY <1>1, MoveInvBegins
  <1>2. CASE CopyByte
    BY <1>2, MoveInvCopyByte
  <1>3. CASE UNCHANGED stringsVars
    BY <1>3 DEF stringsVars, MoveInv, CopyInv, Done, Up, Upwards, NoCall
  <1>4. QED
    BY <1>1, <1>2, <1>3 DEF StringsNext

\* A call of memmove() or memcpy() that has returned.
MoveReturned == ~Copying /\ op.fn \in Moves => Moved(op.dst, op.src, op.n)

\* A copy of which nothing is left to do is a move.
LEMMA MoveInvReturned == MoveInv => MoveReturned
  <1> SUFFICES ASSUME MoveInv, ~Copying, op.fn \in Moves
               PROVE  Moved(op.dst, op.src, op.n)
    BY DEF MoveReturned
  <1> DEFINE s == Bytes(op.src, op.n)
  <1>1. CopyInv /\ len = 0
    BY SMT DEF MoveInv, CopyInv, Copying
  <1>2. op.n \in Nat /\ op.dst \in Place /\ op.src \in Place /\ ret = op.dst
    BY <1>1 DEF CopyInv
  <1>3. Done = Area(op.dst, op.n)
    BY <1>1, <1>2, SMT DEF Done, Place
  <1>4. Len(s) = op.n /\ \A i \in 1 .. op.n : s[i] = before[op.src + i - 1]
    BY <1>2, SMT DEF Bytes
  <1>5. ASSUME NEW q \in Place
        PROVE  (IF q \in Area(op.dst, Len(s)) THEN s[q - op.dst + 1] ELSE before[q])
                 = IF q \in Done THEN before[op.src + (q - op.dst)] ELSE before[q]
    <2>1. CASE q \in Done
      <3>1. q - op.dst + 1 \in 1 .. op.n /\ op.src + (q - op.dst + 1) - 1 = op.src + (q - op.dst)
        BY <1>2, <1>3, <2>1, SMT DEF Area, Place
      <3>2. QED
        BY <1>3, <1>4, <2>1, <3>1
    <2>2. CASE q \notin Done
      BY <1>3, <1>4, <2>2
    <2>3. QED
      BY <2>1, <2>2
  <1>6. mem = [q \in Place |-> IF q \in Area(op.dst, Len(s)) THEN s[q - op.dst + 1] ELSE before[q]]
    BY <1>1, <1>5 DEF CopyInv
  <1>7. QED
    BY <1>2, <1>6 DEF Moved, OnlyChanges

\* Whatever the memory, the areas and their overlap, and in C as on x86_64: behind a
\* memmove() the destination holds what the source held before the call, no other byte
\* has changed, and the destination is returned; so behind a memcpy() of areas that do
\* not overlap.
THEOREM MovesAsIfCopied == StringsSpec => []MoveReturned
  <1>1. StringsSpec => []MoveInv
    BY MoveInvInit, MoveInvNext, PTL DEF StringsSpec
  <1>2. QED
    BY <1>1, MoveInvReturned, PTL

-----------------------------------------------------------------------------
(* The functions that do not move memory, one by one.                      *)

\* The string at p has n characters.
StringAt(p, n) ==
  /\ n \in Nat /\ p + n \in Place /\ mem[p + n] = 0
  /\ \A j \in 0 .. (n - 1) : p + j \in Place /\ mem[p + j] # 0

\* It has k of them among its first max bytes.
ScanAt(p, max, k) ==
  /\ k \in Nat /\ k <= max
  /\ \A j \in 0 .. (k - 1) : p + j \in Place /\ mem[p + j] # 0
  /\ k = max \/ (p + k \in Place /\ mem[p + k] = 0)

\* A string has so many characters.
LEMMA StringEnds ==
  ASSUME NEW p \in Place, IsString(p)
  PROVE  \E n \in Nat : StringAt(p, n)
  <1> DEFINE S == {k \in Nat : p + k \in Place /\ mem[p + k] = 0}
  <1>1. PICK q \in Place : p <= q /\ mem[q] = 0
    BY DEF IsString
  <1>2. q - p \in Nat /\ p + (q - p) = q
    BY <1>1, StringsAssumption, SMT DEF Place
  <1>3. S \subseteq Nat /\ q - p \in S
    BY <1>1, <1>2
  <1>4. PICK n \in S : \A m \in S : n <= m
    BY <1>3, LowestNatural
  <1>5. ASSUME NEW j \in 0 .. (n - 1) PROVE p + j \in Place /\ mem[p + j] # 0
    <2>1. j \in Nat /\ ~(n <= j) /\ p + j \in Place
      BY <1>4, StringsAssumption, SMT DEF Place
    <2>2. QED
      BY <1>4, <2>1
  <1>6. QED
    BY <1>4, <1>5 DEF StringAt

\* A bounded scan ends.
LEMMA ScanEnds ==
  ASSUME NEW p \in Place, NEW max \in Nat, Scannable(p, max)
  PROVE  \E k \in Nat : ScanAt(p, max, k)
  <1>1. CASE \E n \in Nat : StringAt(p, n) /\ n <= max
    BY <1>1 DEF StringAt, ScanAt
  <1>2. CASE \E n \in Nat : StringAt(p, n) /\ ~(n <= max)
    <2>1. PICK n \in Nat : StringAt(p, n) /\ ~(n <= max)
      BY <1>2
    <2>2. \A j \in 0 .. (max - 1) : j \in 0 .. (n - 1)
      BY <2>1, SMT
    <2>3. max <= max
      BY SMT
    <2>4. ScanAt(p, max, max)
      BY <2>1, <2>2, <2>3 DEF StringAt, ScanAt
    <2>5. QED
      BY <2>4
  <1>3. CASE ~\E n \in Nat : StringAt(p, n)
    <2>1. InMemory(Area(p, max)) /\ ~IsString(p)
      BY <1>3, StringEnds DEF Scannable
    <2>2. ASSUME NEW j \in 0 .. (max - 1) PROVE p + j \in Place /\ mem[p + j] # 0
      <3>1. p + j \in Area(p, max) /\ p <= p + j
        BY SMT DEF Area, Place
      <3>2. QED
        BY <2>1, <3>1 DEF InMemory, IsString
    <2>3. max <= max
      BY SMT
    <2>4. QED
      BY <2>2, <2>3 DEF ScanAt
  <1>4. QED
    BY <1>1, <1>2, <1>3

\* The bytes of an area, as a sequence.
LEMMA BytesFacts ==
  ASSUME before' = mem, NEW p \in Place, NEW n \in Nat
  PROVE  /\ Len(Bytes(p, n)') = n /\ DOMAIN (Bytes(p, n)') = 1 .. n
         /\ \A i \in 1 .. n : Bytes(p, n)'[i] = mem[p + i - 1]
  BY SMT DEF Bytes

\* strlen() counts the characters of the string.
LEMMA StringFacts ==
  ASSUME before' = mem, NEW p \in Place, NEW n, StringAt(p, n)
  PROVE  /\ strlen(p) = n /\ Str(p)' = Bytes(p, n)'
         /\ n \in Nat /\ n < MemSize /\ IsString(p)
  <1>1. n \in 0 .. MemSize /\ n < MemSize /\ p <= p + n /\ p + n \in Place
    BY StringsAssumption, SMT DEF StringAt, Place
  <1>2. strlen(p) = n
    <2> DEFINE Stop(k) == mem[p + k] = 0 /\ \A j \in 0 .. (k - 1) : ~(mem[p + j] = 0)
    <2>1. Stop(n)
      BY DEF StringAt
    <2>2. ASSUME NEW k \in 0 .. MemSize, Stop(k) PROVE k = n
      <3>1. k < n => k \in 0 .. (n - 1)
        BY <1>1, SMT
      <3>2. n < k => n \in 0 .. (k - 1)
        BY <1>1, SMT
      <3>3. k < n \/ n < k \/ k = n
        BY <1>1, SMT
      <3>4. QED
        BY <2>2, <3>1, <3>2, <3>3 DEF StringAt
    <2>3. strlen(p) = CHOOSE k \in 0 .. MemSize : Stop(k)
      BY DEF strlen, Until
    <2> HIDE DEF Stop
    <2>4. QED
      BY <1>1, <2>1, <2>2, <2>3
  <1>3. Str(p)' = Bytes(p, n)'
    <2> DEFINE End(q) == p <= q /\ mem[q] = 0 /\ \A r \in p .. (q - 1) : mem[r] # 0
    <2>1. End(p + n)
      <3>1. ASSUME NEW r \in p .. ((p + n) - 1) PROVE mem[r] # 0
        <4>1. r - p \in 0 .. (n - 1) /\ p + (r - p) = r
          BY <1>1, SMT DEF Place
        <4>2. QED
          BY <4>1 DEF StringAt
      <3>2. p <= p + n /\ mem[p + n] = 0
        BY <1>1 DEF StringAt
      <3>3. QED
        BY <3>1, <3>2
    <2>2. ASSUME NEW q \in Place, End(q) PROVE q = p + n
      <3>1. q < p + n => q - p \in 0 .. (n - 1) /\ p + (q - p) = q
        BY <1>1, <2>2, SMT DEF Place
      <3>2. p + n < q => p + n \in p .. (q - 1)
        BY <1>1, SMT DEF Place
      <3>3. q < p + n \/ p + n < q \/ q = p + n
        BY <1>1, SMT DEF Place
      <3>4. QED
        BY <2>2, <3>1, <3>2, <3>3 DEF StringAt
    <2>3. Str(p)' = [i \in 1 .. ((CHOOSE q \in Place : End(q)) - p) |-> mem[p + i - 1]]
      BY DEF Str, Bytes
    <2> HIDE DEF End
    <2>4. (CHOOSE q \in Place : End(q)) = p + n
      BY <1>1, <2>1, <2>2
    <2>5. (p + n) - p = n
      BY <1>1, SMT DEF Place
    <2>6. QED
      BY <2>3, <2>4, <2>5 DEF Bytes
  <1>4. QED
    BY <1>1, <1>2, <1>3 DEF StringAt, IsString

\* strnlen() counts those among the first max bytes.
LEMMA ScanFacts ==
  ASSUME before' = mem, NEW p \in Place, NEW max \in Nat, NEW k, ScanAt(p, max, k)
  PROVE  /\ strnlen(p, max) = k /\ StrAtMost(p, max)' = Bytes(p, k)'
         /\ k \in Nat /\ k <= max /\ k <= MemSize
  <1>1. k \in Nat /\ k <= max /\ k \in 0 .. MemSize
    <2>1. k > 0 => k - 1 \in 0 .. (k - 1)
      BY SMT DEF ScanAt
    <2>2. k > 0 => p + (k - 1) \in Place
      BY <2>1 DEF ScanAt
    <2>3. QED
      BY <2>2, StringsAssumption, SMT DEF ScanAt, Place
  <1>2. strnlen(p, max) = k
    <2> DEFINE Stop(j) == j = max \/ mem[p + j] = 0
               Least(j) == Stop(j) /\ \A i \in 0 .. (j - 1) : ~Stop(i)
    <2>1. Least(k)
      <3>1. ASSUME NEW i \in 0 .. (k - 1) PROVE i # max
        BY <1>1, SMT
      <3>2. QED
        BY <3>1 DEF ScanAt
    <2>2. ASSUME NEW j \in 0 .. MemSize, Least(j) PROVE j = k
      <3>1. j < k => j \in 0 .. (k - 1)
        BY <1>1, SMT
      <3>2. k < j => k \in 0 .. (j - 1)
        BY <1>1, SMT
      <3>3. j < k \/ k < j \/ j = k
        BY <1>1, SMT
      <3>4. QED
        BY <2>1, <2>2, <3>1, <3>2, <3>3
    <2>3. strnlen(p, max) = CHOOSE j \in 0 .. MemSize : Least(j)
      BY DEF strnlen, Until
    <2> HIDE DEF Least
    <2>4. QED
      BY <1>1, <2>1, <2>2, <2>3
  <1>3. StrAtMost(p, max)' = Bytes(p, k)'
    <2>1. StrAtMost(p, max)' = IF \E q \in Place : p <= q /\ q < p + max /\ mem[q] = 0
                               THEN Str(p)' ELSE Bytes(p, max)'
      BY DEF StrAtMost
    <2>2. CASE \E q \in Place : p <= q /\ q < p + max /\ mem[q] = 0
      <3>1. PICK q \in Place : p <= q /\ q < p + max /\ mem[q] = 0
        BY <2>2
      <3>2. k # max
        <4>1. q - p \in 0 .. (max - 1) /\ p + (q - p) = q
          BY <3>1, StringsAssumption, SMT DEF Place
        <4>2. QED
          BY <3>1, <4>1 DEF ScanAt
      <3>3. StringAt(p, k)
        BY <3>2 DEF ScanAt, StringAt
      <3>4. QED
        BY <2>1, <2>2, <3>3, StringFacts
    <2>3. CASE ~\E q \in Place : p <= q /\ q < p + max /\ mem[q] = 0
      <3>1. k = max
        <4> SUFFICES ASSUME k # max PROVE FALSE
          OBVIOUS
        <4>1. p + k \in Place /\ mem[p + k] = 0
          BY DEF ScanAt
        <4>2. p <= p + k /\ p + k < p + max
          BY <1>1, SMT DEF Place
        <4>3. QED
          BY <2>3, <4>1, <4>2
      <3>2. QED
        BY <2>1, <2>3, <3>1
    <2>4. QED
      BY <2>2, <2>3
  <1>4. QED
    BY <1>1, <1>2, <1>3

\* The first of a set of places, and the last.
LEMMA FirstIs ==
  ASSUME NEW S \in SUBSET Int, NEW q \in S, \A r \in S : q <= r
  PROVE  First(S) = q
  <1>1. ASSUME NEW p \in S, \A r \in S : p <= r PROVE p = q
    <2>1. p <= q /\ q <= p /\ p \in Int /\ q \in Int
      BY <1>1
    <2>2. QED
      BY <2>1, SMT
  <1>2. First(S) = CHOOSE p \in S : \A r \in S : p <= r
    BY DEF First
  <1>3. QED
    BY <1>1, <1>2

LEMMA LastIs ==
  ASSUME NEW S \in SUBSET Int, NEW q \in S, \A r \in S : r <= q
  PROVE  Last(S) = q
  <1>1. ASSUME NEW p \in S, \A r \in S : p >= r PROVE p = q
    <2>1. p >= q /\ q <= q /\ p <= q /\ p \in Int /\ q \in Int
      BY <1>1, SMT
    <2>2. QED
      BY <2>1, SMT
  <1>2. \A r \in S : q >= r
    BY SMT
  <1>3. Last(S) = CHOOSE p \in S : \A r \in S : p >= r
    BY DEF Last
  <1>4. QED
    BY <1>1, <1>2, <1>3

\* NULL stands for none.
LEMMA NothingFound == First({}) = Nowhere /\ Last({}) = Nowhere
  BY DEF First, Last

\* A set of places has a first one and a last one.
LEMMA FirstPlaceOf ==
  ASSUME NEW S \in SUBSET Place, S # {}
  PROVE  \E q \in S : \A r \in S : q <= r
  <1>1. S \in SUBSET Nat
    BY StringsAssumption, SMT DEF Place
  <1>2. QED
    BY <1>1, LowestNatural

LEMMA LastPlaceOf ==
  ASSUME NEW S \in SUBSET Place, S # {}
  PROVE  \E q \in S : \A r \in S : r <= q
  <1> DEFINE T == {MemSize - q : q \in S}
  <1>1. MemSize \in Nat /\ \A q \in S : q \in Nat /\ MemSize - q \in Nat
    BY StringsAssumption, SMT DEF Place
  <1>2. T \in SUBSET Nat /\ T # {}
    BY <1>1
  <1>3. PICK t \in T : \A u \in T : t <= u
    BY <1>2, LowestNatural
  <1>4. PICK q \in S : t = MemSize - q
    OBVIOUS
  <1>5. ASSUME NEW r \in S PROVE r <= q
    <2>1. MemSize - q <= MemSize - r
      BY <1>3, <1>4
    <2>2. QED
      BY <1>1, <2>1, SMT
  <1>6. QED
    BY <1>5

\* What a call did is told by the record of it.
LEMMA DidNow ==
  ASSUME NEW f, NEW dst, NEW src, NEW n, NEW c, op' = Call(f, dst, src, n, c),
         Did(f, dst, src, n, c)'
  PROVE  Did(op.fn, op.dst, op.src, op.n, op.c)'
  <1>1. op'.fn = f /\ op'.dst = dst /\ op'.src = src /\ op'.n = n /\ op'.c = c
    BY DEF Call
  <1>2. QED
    BY <1>1

\* What strlen() and strnlen() return.
LEMMA StrlenDid ==
  ASSUME before' = mem, mem' = mem, NEW p \in Place, IsString(p), ret' = strlen(p)
  PROVE  Did("strlen", p, p, 0, 0)'
  <1>1. PICK n \in Nat : StringAt(p, n)
    BY StringEnds
  <1>2. ret' = Len(Str(p)')
    BY <1>1, StringFacts, BytesFacts
  <1>3. QED
    BY <1>2 DEF Did, Unchanged

LEMMA StrnlenDid ==
  ASSUME before' = mem, mem' = mem, NEW p \in Place, NEW n \in Nat, Scannable(p, n),
         ret' = strnlen(p, n)
  PROVE  Did("strnlen", p, p, n, 0)'
  <1>1. PICK k \in Nat : ScanAt(p, n, k)
    BY ScanEnds
  <1>2. ret' = Len(StrAtMost(p, n)')
    BY <1>1, ScanFacts, BytesFacts
  <1>3. QED
    BY <1>2 DEF Did, Unchanged

\* The places of a character that is not 0.
LEMMA PlacesFacts ==
  ASSUME before' = mem, NEW p \in Place, NEW n, StringAt(p, n), NEW c
  PROVE  /\ PlacesOf(c, p)' = {q \in Area(p, n) : mem[q] = c % 256}
         /\ Area(p, n) \subseteq Place
         /\ \A q \in Area(p, n) : mem[q] # 0 /\ q - p \in 0 .. (n - 1) /\ p + (q - p) = q
         /\ \A j \in 0 .. (n - 1) : p + j \in Area(p, n)
  <1>1. n \in Nat /\ Len(Str(p)') = n
    <2>1. n \in Nat
      BY DEF StringAt
    <2>2. Str(p)' = Bytes(p, n)'
      BY StringFacts
    <2>3. QED
      BY <2>1, <2>2, BytesFacts
  <1>2. PlacesOf(c, p)' = {q \in Area(p, n) : mem[q] = c % 256}
    BY <1>1 DEF PlacesOf, Area
  <1>3. ASSUME NEW q \in Area(p, n)
        PROVE  q - p \in 0 .. (n - 1) /\ p + (q - p) = q
    BY <1>1, StringsAssumption, SMT DEF Area, Place
  <1>4. ASSUME NEW q \in Area(p, n) PROVE q \in Place /\ mem[q] # 0
    BY <1>3 DEF StringAt
  <1>5. \A j \in 0 .. (n - 1) : p + j \in Area(p, n)
    BY <1>1, StringsAssumption, SMT DEF Area, Place
  <1>6. QED
    BY <1>2, <1>3, <1>4, <1>5

\* strchr() stops at the first character that is c, unless c is 0.
LEMMA StrchrDid ==
  ASSUME before' = mem, mem' = mem, NEW p \in Place, NEW c \in Int, IsString(p),
         ret' = strchr(p, c)
  PROVE  Did("strchr", p, p, 0, c)'
  <1> DEFINE ch == c % 256
             Stop(k) == mem[p + k] = 0 \/ mem[p + k] = ch
             Least(k) == Stop(k) /\ \A j \in 0 .. (k - 1) : ~Stop(j)
  <1>1. PICK n \in Nat : StringAt(p, n)
    BY StringEnds
  <1>2. n \in 0 .. MemSize
    BY <1>1, StringFacts, StringsAssumption, SMT
  <1>3. ASSUME NEW k \in 0 .. MemSize, Least(k)
        PROVE  strchr(p, c) = IF mem[p + k] = 0 THEN Nowhere ELSE p + k
    <2>1. ASSUME NEW j \in 0 .. MemSize, Least(j) PROVE j = k
      <3>1. j < k => j \in 0 .. (k - 1)
        BY SMT
      <3>2. k < j => k \in 0 .. (j - 1)
        BY SMT
      <3>3. j < k \/ k < j \/ j = k
        BY SMT
      <3>4. QED
        BY <1>3, <2>1, <3>1, <3>2, <3>3
    <2>2. strchr(p, c) = LET ofs == CHOOSE j \in 0 .. MemSize : Least(j)
                         IN  IF mem[p + ofs] = 0 THEN Nowhere ELSE p + ofs
      BY DEF strchr, Until
    <2> HIDE DEF Least
    <2>3. (CHOOSE j \in 0 .. MemSize : Least(j)) = k
      BY <1>3, <2>1
    <2>4. QED
      BY <2>2, <2>3
  <1>4. strchr(p, c) = First(IF ch = 0 THEN {} ELSE PlacesOf(c, p)')
    <2> DEFINE S == {q \in Area(p, n) : mem[q] = ch}
    <2>1. PlacesOf(c, p)' = S
      BY <1>1, PlacesFacts
    <2>2. CASE ch = 0 \/ S = {}
      <3>1. ASSUME NEW j \in 0 .. (n - 1) PROVE mem[p + j] # 0 /\ mem[p + j] # ch
        <4>1. p + j \in Area(p, n) /\ mem[p + j] # 0
          BY <1>1, PlacesFacts DEF StringAt
        <4>2. QED
          BY <2>2, <4>1
      <3>2. mem[p + n] = 0 /\ Least(n)
        BY <1>1, <3>1 DEF StringAt
      <3>3. strchr(p, c) = Nowhere
        BY <1>2, <1>3, <3>2
      <3>4. QED
        BY <2>1, <2>2, <3>3, NothingFound
    <2>3. CASE ch # 0 /\ S # {}
      <3>1. S \in SUBSET Place
        BY <1>1, PlacesFacts
      <3>2. PICK q \in S : \A r \in S : q <= r
        BY <2>3, <3>1, FirstPlaceOf
      <3>3. q - p \in 0 .. (n - 1) /\ p + (q - p) = q /\ mem[q] # 0 /\ mem[q] = ch /\ q \in Place
        BY <1>1, <3>1, PlacesFacts
      <3>4. ASSUME NEW j \in 0 .. (q - p - 1) PROVE mem[p + j] # 0 /\ mem[p + j] # ch
        <4>1. j \in 0 .. (n - 1) /\ ~(q <= p + j)
          BY <3>3, SMT DEF Place
        <4>2. p + j \in Area(p, n) /\ mem[p + j] # 0
          BY <1>1, <4>1, PlacesFacts DEF StringAt
        <4>3. p + j \notin S
          BY <3>2, <4>1
        <4>4. QED
          BY <4>2, <4>3
      <3>5. q - p \in 0 .. MemSize
        BY <1>2, <3>3, StringsAssumption, SMT DEF Place
      <3>6. Least(q - p)
        BY <3>3, <3>4
      <3>7. strchr(p, c) = q
        BY <1>3, <3>3, <3>5, <3>6
      <3>8. First(S) = q
        <4>1. S \in SUBSET Int
          BY <3>1, SMT DEF Place
        <4>2. QED
          BY <3>2, <4>1, FirstIs
      <3>9. QED
        BY <2>1, <2>3, <3>7, <3>8
    <2>4. QED
      BY <2>2, <2>3
  <1>5. QED
    BY <1>4 DEF Did, Unchanged

\* strrchr() finds the last.
LEMMA StrrchrDid ==
  ASSUME before' = mem, mem' = mem, NEW p \in Place, NEW c \in Int, IsString(p),
         ret' = strrchr(p, c)
  PROVE  Did("strrchr", p, p, 0, c)'
  <1> DEFINE ch == c % 256
  <1>1. PICK n \in Nat : StringAt(p, n)
    BY StringEnds
  <1> DEFINE S == {q \in Area(p, n) : mem[q] = ch}
  <1>2. PlacesOf(c, p)' = S /\ S \in SUBSET Place /\ (ch = 0 => S = {})
    BY <1>1, PlacesFacts
  <1>3. strrchr(p, c) = IF S = {} THEN Nowhere ELSE CHOOSE q \in S : \A r \in S : r <= q
    <2>1. strlen(p) = n
      BY <1>1, StringFacts
    <2>2. QED
      BY <2>1 DEF strrchr
  <1> HIDE DEF S, ch
  <1>4. strrchr(p, c) = Last(S)
    <2>1. CASE S = {}
      BY <1>3, <2>1, NothingFound
    <2>2. CASE S # {}
      <3>1. PICK q \in S : \A r \in S : r <= q
        BY <1>2, <2>2, LastPlaceOf
      <3>2. S \in SUBSET Int
        BY <1>2, SMT DEF Place
      <3>3. ASSUME NEW x \in S, \A r \in S : r <= x PROVE x = q
        <4>1. x <= q /\ q <= x /\ x \in Int /\ q \in Int
          BY <3>1, <3>2, <3>3
        <4>2. QED
          BY <4>1, SMT
      <3>4. (CHOOSE x \in S : \A r \in S : r <= x) = q
        BY <3>1, <3>3
      <3>5. Last(S) = q
        BY <3>1, <3>2, LastIs
      <3>6. QED
        BY <1>3, <2>2, <3>4, <3>5
    <2>3. QED
      BY <2>1, <2>2
  <1>5. S = IF c % 256 = 0 THEN {} ELSE PlacesOf(c, p)'
    BY <1>2 DEF ch
  <1>6. QED
    BY <1>4, <1>5 DEF Did, Unchanged

-----------------------------------------------------------------------------
(* Comparisons.                                                            *)

\* Two sequences that agree up to d, where one of them ends or they differ.
PartAt(s, t, d) ==
  /\ d \in Nat /\ d <= Len(s) /\ d <= Len(t)
  /\ \A i \in 1 .. d : s[i] = t[i]
  /\ d < Len(s) /\ d < Len(t) => s[d + 1] # t[d + 1]

\* Prefixes are equal when their elements are.
LEMMA SamePrefix ==
  ASSUME NEW s \in Seq(Int), NEW t \in Seq(Int), NEW m \in Nat, m <= Len(s), m <= Len(t)
  PROVE  SubSeq(s, 1, m) = SubSeq(t, 1, m) <=> \A i \in 1 .. m : s[i] = t[i]
  <1> DEFINE u == SubSeq(s, 1, m)
             v == SubSeq(t, 1, m)
  <1>1. u = [i \in 1 .. m |-> s[i]] /\ v = [i \in 1 .. m |-> t[i]]
    BY SMT
  <1> HIDE DEF u, v
  <1>2. u = v <=> \A i \in 1 .. m : s[i] = t[i]
    BY <1>1
  <1>3. QED
    BY <1>2 DEF u, v

\* The order of two sequences is decided where they part.
LEMMA LessMeans ==
  ASSUME NEW s \in Seq(Int), NEW t \in Seq(Int), NEW d, PartAt(s, t, d)
  PROVE  Less(s, t) <=> d < Len(t) /\ (d = Len(s) \/ s[d + 1] < t[d + 1])
  <1> DEFINE ls == Len(s)
             lt == Len(t)
  <1>1. ls \in Nat /\ lt \in Nat /\ d \in Nat /\ d <= ls /\ d <= lt
    BY DEF PartAt
  <1>2. \A i \in 1 .. d : s[i] = t[i]
    BY DEF PartAt
  <1>3. d < ls /\ d < lt => s[d + 1] # t[d + 1]
    BY DEF PartAt
  <1>4. ASSUME NEW i \in 1 .. (ls + 1), i <= lt
        PROVE  SubSeq(s, 1, i - 1) = SubSeq(t, 1, i - 1) <=> i - 1 <= d
    <2>1. i - 1 \in Nat /\ i - 1 <= ls /\ i - 1 <= lt
      BY <1>1, <1>4, SMT
    <2>2. SubSeq(s, 1, i - 1) = SubSeq(t, 1, i - 1) <=> \A j \in 1 .. (i - 1) : s[j] = t[j]
      BY <2>1, SamePrefix
    <2>3. i - 1 <= d => \A j \in 1 .. (i - 1) : j \in 1 .. d
      BY <1>1, SMT
    <2>4. ~(i - 1 <= d) => d + 1 \in 1 .. (i - 1) /\ d < ls /\ d < lt
      BY <1>1, <2>1, SMT
    <2>5. QED
      BY <1>2, <1>3, <2>2, <2>3, <2>4
  <1>5. Less(s, t) <=> \E i \in 1 .. (ls + 1) :
                         /\ i <= lt /\ SubSeq(s, 1, i - 1) = SubSeq(t, 1, i - 1)
                         /\ i > ls \/ s[i] < t[i]
    BY DEF Less
  <1> HIDE DEF ls, lt
  <1>6. ASSUME Less(s, t) PROVE d < lt /\ (d = ls \/ s[d + 1] < t[d + 1])
    <2>1. PICK i \in 1 .. (ls + 1) : /\ i <= lt /\ SubSeq(s, 1, i - 1) = SubSeq(t, 1, i - 1)
                                     /\ i > ls \/ s[i] < t[i]
      BY <1>5, <1>6
    <2>2. i - 1 <= d
      BY <1>4, <2>1
    <2>3. CASE i - 1 = d
      <3>1. i = d + 1 /\ d < lt /\ (i > ls => d = ls)
        BY <1>1, <2>1, <2>3, SMT
      <3>2. QED
        BY <2>1, <3>1
    <2>4. CASE i - 1 # d
      <3>1. i \in 1 .. d /\ ~(i > ls)
        BY <1>1, <2>2, <2>4, SMT
      <3>2. s[i] = t[i] /\ s[i] < t[i] /\ s[i] \in Int
        <4>1. i \in 1 .. Len(s)
          BY <1>1, <3>1, SMT DEF ls
        <4>2. QED
          BY <1>2, <2>1, <3>1, <4>1
      <3>3. QED
        BY <3>2, SMT
    <2>5. QED
      BY <2>3, <2>4
  <1>7. ASSUME d < lt, d = ls \/ s[d + 1] < t[d + 1] PROVE Less(s, t)
    <2>1. d + 1 \in 1 .. (ls + 1) /\ d + 1 <= lt /\ (d + 1) - 1 <= d /\ (d = ls => d + 1 > ls)
      BY <1>1, <1>7, SMT
    <2>2. SubSeq(s, 1, (d + 1) - 1) = SubSeq(t, 1, (d + 1) - 1)
      BY <1>4, <2>1
    <2>3. QED
      BY <1>5, <1>7, <2>1, <2>2
  <1>8. QED
    BY <1>6, <1>7 DEF ls, lt

\* What the functions return there.
LEMMA ComparesAt ==
  ASSUME NEW s \in Seq(Int), NEW t \in Seq(Int), NEW d, PartAt(s, t, d),
         /\ d = Len(s) /\ d = Len(t) => ret' = 0
         /\ d = Len(s) /\ d < Len(t) => ret' < 0
         /\ d < Len(s) /\ d = Len(t) => ret' > 0
         /\ d < Len(s) /\ d < Len(t) => ret' = s[d + 1] - t[d + 1],
         ret' \in Int
  PROVE  (ret' < 0 <=> Less(s, t)) /\ (ret' > 0 <=> Less(t, s))
  <1> DEFINE ls == Len(s)
             lt == Len(t)
             r == ret'
  <1>1. PartAt(t, s, d)
    BY DEF PartAt
  <1>2. /\ Less(s, t) <=> d < lt /\ (d = ls \/ s[d + 1] < t[d + 1])
        /\ Less(t, s) <=> d < ls /\ (d = lt \/ t[d + 1] < s[d + 1])
    BY <1>1, LessMeans
  <1>3. /\ ls \in Nat /\ lt \in Nat /\ d \in Nat /\ d <= ls /\ d <= lt /\ r \in Int
        /\ d < ls => s[d + 1] \in Int
        /\ d < lt => t[d + 1] \in Int
        /\ d < ls /\ d < lt => s[d + 1] # t[d + 1]
    <2>1. ls \in Nat /\ lt \in Nat /\ d \in Nat /\ d <= ls /\ d <= lt /\ r \in Int
      BY DEF PartAt
    <2>2. d < ls => d + 1 \in 1 .. ls
      BY <2>1, SMT
    <2>3. d < lt => d + 1 \in 1 .. lt
      BY <2>1, SMT
    <2>4. QED
      BY <2>1, <2>2, <2>3 DEF PartAt
  <1>4. /\ d = ls /\ d = lt => r = 0
        /\ d = ls /\ d < lt => r < 0
        /\ d < ls /\ d = lt => r > 0
        /\ d < ls /\ d < lt => r = s[d + 1] - t[d + 1]
    OBVIOUS
  <1> HIDE DEF ls, lt, r
  <1>5. r < 0 <=> Less(s, t)
    BY <1>2, <1>3, <1>4, SMT
  <1>6. r > 0 <=> Less(t, s)
    BY <1>2, <1>3, <1>4, SMT
  <1>7. QED
    BY <1>5, <1>6 DEF r

\* The bytes of an area are numbers.
LEMMA BytesSeq ==
  ASSUME before' = mem, mem \in [Place -> Byte], NEW p \in Place, NEW n \in Nat,
         \A j \in 0 .. (n - 1) : p + j \in Place
  PROVE  /\ Bytes(p, n)' \in Seq(Int) /\ Len(Bytes(p, n)') = n
         /\ \A j \in 0 .. (n - 1) : Bytes(p, n)'[j + 1] = mem[p + j] /\ mem[p + j] \in 0 .. 255
  <1>1. ASSUME NEW i \in 1 .. n PROVE mem[p + i - 1] \in Int
    <2>1. i - 1 \in 0 .. (n - 1) /\ p + (i - 1) = p + i - 1
      BY StringsAssumption, SMT DEF Place
    <2>2. mem[p + (i - 1)] \in Byte
      BY <2>1
    <2>3. Byte \subseteq Int
      BY StringsAssumption, SMT
    <2>4. QED
      BY <2>1, <2>2, <2>3
  <1>2. Bytes(p, n)' = [i \in 1 .. n |-> mem[p + i - 1]]
    BY DEF Bytes
  <1>3. Bytes(p, n)' \in Seq(Int)
    BY <1>1, <1>2, SMT
  <1>4. ASSUME NEW j \in 0 .. (n - 1)
        PROVE  Bytes(p, n)'[j + 1] = mem[p + j] /\ mem[p + j] \in 0 .. 255
    <2>1. j + 1 \in 1 .. n /\ p + (j + 1) - 1 = p + j
      BY StringsAssumption, SMT DEF Place
    <2>2. mem[p + j] \in Byte
      OBVIOUS
    <2>3. QED
      BY <1>2, <2>1, <2>2, StringsAssumption
  <1>5. QED
    BY <1>3, <1>4, BytesFacts

\* The loop of memcmp() ends where the areas differ, or at their end.
LEMMA MemcmpFacts ==
  ASSUME before' = mem, mem \in [Place -> Byte], NEW p \in Place, NEW q \in Place, NEW n \in Nat,
         \A j \in 0 .. (n - 1) : p + j \in Place /\ q + j \in Place
  PROVE  /\ memcmp(p, q, n) \in Int
         /\ ret' = memcmp(p, q, n) => Compares(Bytes(p, n), Bytes(q, n))'
         /\ memcmp(p, q, n) = 0 <=> Bytes(p, n)' = Bytes(q, n)'
  <1> DEFINE Stop(k) == k = n \/ mem[p + k] # mem[q + k]
             Least(k) == Stop(k) /\ \A j \in 0 .. (k - 1) : ~Stop(j)
             s == Bytes(p, n)'
             t == Bytes(q, n)'
  <1>1. n \in 0 .. MemSize
    <2>1. CASE n = 0
      BY <2>1, StringsAssumption, SMT
    <2>2. CASE n # 0
      <3>1. n - 1 \in 0 .. (n - 1)
        BY <2>2, SMT
      <3>2. p + (n - 1) \in Place
        BY <3>1
      <3>3. QED
        BY <3>2, StringsAssumption, SMT DEF Place
    <2>3. QED
      BY <2>1, <2>2
  <1>2. PICK d \in 0 .. n : Least(d)
    <2> DEFINE S == {k \in 0 .. n : Stop(k)}
    <2>1. S \in SUBSET Nat /\ n \in S
      BY SMT
    <2>2. PICK d \in S : \A k \in S : d <= k
      BY <2>1, LowestNatural
    <2>3. ASSUME NEW j \in 0 .. (d - 1) PROVE ~Stop(j)
      <3>1. j \in 0 .. n /\ ~(d <= j)
        BY SMT
      <3>2. QED
        BY <2>2, <3>1
    <2>4. QED
      BY <2>3
  <1>3. memcmp(p, q, n) = IF d = n THEN 0 ELSE mem[p + d] - mem[q + d]
    <2>1. ASSUME NEW j \in 0 .. MemSize, Least(j) PROVE j = d
      <3>1. j < d => j \in 0 .. (d - 1)
        BY SMT
      <3>2. d < j => d \in 0 .. (j - 1)
        BY SMT
      <3>3. j < d \/ d < j \/ j = d
        BY SMT
      <3>4. QED
        BY <1>2, <2>1, <3>1, <3>2, <3>3
    <2>2. memcmp(p, q, n) = LET ofs == CHOOSE j \in 0 .. MemSize : Least(j)
                            IN  IF ofs = n THEN 0 ELSE mem[p + ofs] - mem[q + ofs]
      BY DEF memcmp, Until
    <2> HIDE DEF Least
    <2>3. d \in 0 .. MemSize
      BY <1>1, StringsAssumption, SMT
    <2>4. (CHOOSE j \in 0 .. MemSize : Least(j)) = d
      BY <1>2, <2>1, <2>3
    <2>5. QED
      BY <2>2, <2>4
  <1>4. /\ s \in Seq(Int) /\ Len(s) = n /\ t \in Seq(Int) /\ Len(t) = n
        /\ \A j \in 0 .. (n - 1) : s[j + 1] = mem[p + j] /\ mem[p + j] \in 0 .. 255
        /\ \A j \in 0 .. (n - 1) : t[j + 1] = mem[q + j] /\ mem[q + j] \in 0 .. 255
    BY BytesSeq
  <1>5. d < n => d \in 0 .. (n - 1)
    BY SMT
  <1>6. d = n \/ d < n
    BY SMT
  <1> HIDE DEF s, t
  <1>7. PartAt(s, t, d)
    <2>1. ASSUME NEW i \in 1 .. d PROVE s[i] = t[i]
      <3>1. i - 1 \in 0 .. (d - 1) /\ i - 1 \in 0 .. (n - 1) /\ (i - 1) + 1 = i
        BY SMT
      <3>2. mem[p + (i - 1)] = mem[q + (i - 1)]
        BY <1>2, <3>1
      <3>3. QED
        BY <1>4, <3>1, <3>2
    <2>2. d < n => s[d + 1] # t[d + 1]
      BY <1>2, <1>4, <1>5, SMT
    <2>3. d \in Nat /\ d <= n
      BY SMT
    <2>4. QED
      BY <1>4, <2>1, <2>2, <2>3 DEF PartAt
  <1>8. /\ d = n => memcmp(p, q, n) = 0
        /\ d < n => memcmp(p, q, n) = s[d + 1] - t[d + 1] /\ memcmp(p, q, n) # 0
        /\ memcmp(p, q, n) \in Int
    <2>1. CASE d = n
      BY <1>3, <2>1, SMT
    <2>2. CASE d < n
      <3>1. d # n /\ s[d + 1] = mem[p + d] /\ t[d + 1] = mem[q + d] /\ s[d + 1] # t[d + 1]
            /\ mem[p + d] \in 0 .. 255 /\ mem[q + d] \in 0 .. 255
        <4>1. d # n
          BY <2>2, SMT
        <4>2. QED
          BY <1>2, <1>4, <1>5, <2>2, <4>1
      <3>2. ASSUME NEW a \in 0 .. 255, NEW b \in 0 .. 255, a # b PROVE a - b # 0 /\ a - b \in Int
        BY <3>2, SMT
      <3>3. memcmp(p, q, n) = mem[p + d] - mem[q + d]
        BY <1>3, <3>1
      <3>4. QED
        BY <2>2, <3>1, <3>2, <3>3
    <2>3. QED
      BY <1>6, <2>1, <2>2
  <1>9. ASSUME ret' = memcmp(p, q, n)
        PROVE  (ret' < 0 <=> Less(s, t)) /\ (ret' > 0 <=> Less(t, s))
    <2>1. /\ d = Len(s) /\ d = Len(t) => ret' = 0
          /\ d = Len(s) /\ d < Len(t) => ret' < 0
          /\ d < Len(s) /\ d = Len(t) => ret' > 0
          /\ d < Len(s) /\ d < Len(t) => ret' = s[d + 1] - t[d + 1]
          /\ ret' \in Int
      BY <1>4, <1>6, <1>8, <1>9, SMT
    <2>2. QED
      BY <1>4, <1>7, <2>1, ComparesAt
  <1>10. memcmp(p, q, n) = 0 <=> s = t
    <2>1. d < n => s # t
      BY <1>5, <1>7, <1>4 DEF PartAt
    <2>2. d = n => s = t
      BY <1>4, <1>7, SeqEqual DEF PartAt
    <2>3. QED
      BY <1>6, <1>8, <2>1, <2>2
  <1>11. QED
    BY <1>8, <1>9, <1>10 DEF s, t, Compares

\* The places of an area in the memory.
LEMMA AreaPlaces ==
  ASSUME NEW p \in Place, NEW n \in Nat, InMemory(Area(p, n))
  PROVE  \A j \in 0 .. (n - 1) : p + j \in Place
  <1>1. \A j \in 0 .. (n - 1) : p + j \in Area(p, n)
    BY StringsAssumption, SMT DEF Area, Place
  <1>2. QED
    BY <1>1 DEF InMemory

\* What the comparisons return.
LEMMA MemcmpDid ==
  ASSUME before' = mem, mem' = mem, mem \in [Place -> Byte], NEW p \in Place, NEW q \in Place,
         NEW n \in Nat, InMemory(Area(p, n)), InMemory(Area(q, n)), ret' = memcmp(p, q, n)
  PROVE  Did("memcmp", p, q, n, 0)'
  <1>1. \A j \in 0 .. (n - 1) : p + j \in Place /\ q + j \in Place
    BY AreaPlaces
  <1>2. Compares(Bytes(p, n), Bytes(q, n))'
    BY <1>1, MemcmpFacts
  <1>3. QED
    BY <1>2 DEF Did, Unchanged

\* The loop of strncmp() ends where the strings differ, at the end of one, or at max.
LEMMA StrncmpFacts ==
  ASSUME before' = mem, mem \in [Place -> Byte], NEW p \in Place, NEW q \in Place, NEW max \in Nat,
         NEW a, ScanAt(p, max, a), NEW b, ScanAt(q, max, b), ret' = strncmp(p, q, max)
  PROVE  Compares(Bytes(p, a), Bytes(q, b))'
  <1> DEFINE Stop(k) == k = max \/ mem[p + k] # mem[q + k] \/ mem[q + k] = 0
             Least(k) == Stop(k) /\ \A j \in 0 .. (k - 1) : ~Stop(j)
             m == IF a <= b THEN a ELSE b
             s == Bytes(p, a)'
             t == Bytes(q, b)'
  <1>1. a \in Nat /\ b \in Nat /\ a <= max /\ b <= max /\ a <= MemSize /\ b <= MemSize
    BY ScanFacts
  <1>2. /\ \A j \in 0 .. (a - 1) : p + j \in Place /\ mem[p + j] # 0
        /\ \A j \in 0 .. (b - 1) : q + j \in Place /\ mem[q + j] # 0
        /\ a < max => mem[p + a] = 0
        /\ b < max => mem[q + b] = 0
    <2>1. a < max => a # max
      BY <1>1, SMT
    <2>2. b < max => b # max
      BY <1>1, SMT
    <2>3. QED
      BY <2>1, <2>2 DEF ScanAt
  <1>3. m \in Nat /\ m <= a /\ m <= b /\ (m = a \/ m = b)
    BY <1>1, SMT
  <1>4. Stop(m)
    <2>1. CASE a = max
      <3>1. m = max \/ (b < max /\ m = b)
        BY <1>1, <2>1, SMT
      <3>2. QED
        BY <1>2, <3>1
    <2>2. CASE a < max /\ a = b
      <3>1. m = a
        BY <1>1, <2>2, SMT
      <3>2. QED
        BY <1>2, <2>2, <3>1
    <2>3. CASE a < max /\ a < b
      <3>1. m = a /\ a \in 0 .. (b - 1)
        BY <1>1, <2>3, SMT
      <3>2. QED
        BY <1>2, <2>3, <3>1
    <2>4. CASE a < max /\ b < a
      <3>1. m = b /\ b < max
        BY <1>1, <2>4, SMT
      <3>2. QED
        BY <1>2, <3>1
    <2>5. QED
      BY <1>1, <2>1, <2>2, <2>3, <2>4, SMT
  <1> HIDE DEF m
  <1>5. PICK d \in 0 .. m : Least(d)
    <2> DEFINE S == {k \in 0 .. m : Stop(k)}
    <2>1. m \in 0 .. m /\ S \subseteq 0 .. m
      BY <1>3, SMT
    <2>2. S \in SUBSET Nat /\ m \in S
      BY <1>3, <1>4, <2>1, SMT
    <2>3. PICK d \in S : \A k \in S : d <= k
      BY <2>2, LowestNatural
    <2>4. ASSUME NEW j \in 0 .. (d - 1) PROVE ~Stop(j)
      <3>1. j \in 0 .. m /\ ~(d <= j)
        BY <1>3, <2>1, SMT
      <3>2. QED
        BY <2>3, <3>1
    <2>5. QED
      BY <2>3, <2>4
  <1>6. strncmp(p, q, max) = IF d = max THEN 0 ELSE mem[p + d] - mem[q + d]
    <2>1. ASSUME NEW j \in 0 .. MemSize, Least(j) PROVE j = d
      <3>1. j < d => j \in 0 .. (d - 1)
        BY <1>3, SMT
      <3>2. d < j => d \in 0 .. (j - 1)
        BY <1>3, SMT
      <3>3. j < d \/ d < j \/ j = d
        BY <1>3, SMT
      <3>4. QED
        BY <1>5, <2>1, <3>1, <3>2, <3>3
    <2>2. strncmp(p, q, max) = LET ofs == CHOOSE j \in 0 .. MemSize : Least(j)
                               IN  IF ofs = max THEN 0 ELSE mem[p + ofs] - mem[q + ofs]
      BY DEF strncmp, Until
    <2> HIDE DEF Least
    <2>3. d \in 0 .. MemSize
      BY <1>1, <1>3, StringsAssumption, SMT
    <2>4. (CHOOSE j \in 0 .. MemSize : Least(j)) = d
      BY <1>5, <2>1, <2>3
    <2>5. QED
      BY <2>2, <2>4
  <1>7. /\ s \in Seq(Int) /\ Len(s) = a /\ t \in Seq(Int) /\ Len(t) = b
        /\ \A j \in 0 .. (a - 1) : s[j + 1] = mem[p + j] /\ mem[p + j] \in 0 .. 255
        /\ \A j \in 0 .. (b - 1) : t[j + 1] = mem[q + j] /\ mem[q + j] \in 0 .. 255
    BY <1>1, <1>2, BytesSeq
  <1> HIDE DEF s, t
  <1>8. /\ d \in Nat /\ d <= a /\ d <= b
        /\ d < a => d \in 0 .. (a - 1) /\ d # max /\ d < max
        /\ d < b => d \in 0 .. (b - 1) /\ d # max /\ d < max
    BY <1>1, <1>3, SMT
  <1>9. PartAt(s, t, d)
    <2>1. ASSUME NEW i \in 1 .. d PROVE s[i] = t[i]
      <3>1. i - 1 \in 0 .. (d - 1) /\ i - 1 \in 0 .. (a - 1) /\ i - 1 \in 0 .. (b - 1)
            /\ (i - 1) + 1 = i
        BY <1>1, <1>8, SMT
      <3>2. mem[p + (i - 1)] = mem[q + (i - 1)]
        BY <1>5, <3>1
      <3>3. QED
        BY <1>7, <3>1, <3>2
    <2>2. ASSUME d < a, d < b PROVE s[d + 1] # t[d + 1]
      <3>1. mem[q + d] # 0 /\ d # max
        BY <1>2, <1>8, <2>2
      <3>2. mem[p + d] # mem[q + d]
        BY <1>5, <3>1
      <3>3. QED
        BY <1>7, <1>8, <2>2, <3>2
    <2>3. QED
      BY <1>7, <1>8, <2>1, <2>2 DEF PartAt
  <1>10. ret' = IF d = max THEN 0 ELSE mem[p + d] - mem[q + d]
    BY <1>6
  <1>11. CASE d = a /\ d = b
    <2>1. ret' = 0
      <3>1. CASE d = max
        BY <1>10, <3>1
      <3>2. CASE d # max
        <4>1. a < max /\ b < max
          BY <1>1, <1>11, <3>2, SMT
        <4>2. mem[p + d] = 0 /\ mem[q + d] = 0
          BY <1>2, <1>11, <4>1
        <4>3. QED
          BY <1>10, <3>2, <4>2, SMT
      <3>3. QED
        BY <3>1, <3>2
    <2>2. ~(d < a) /\ ~(d < b) /\ ret' \in Int
      BY <1>11, <2>1, <1>1, SMT
    <2>3. QED
      BY <1>7, <1>9, <2>1, <2>2, ComparesAt DEF Compares, s, t
  <1>12. CASE d = a /\ d < b
    <2>1. mem[p + d] = 0 /\ mem[q + d] # 0 /\ mem[q + d] \in 0 .. 255 /\ d # max
      BY <1>2, <1>7, <1>8, <1>12
    <2>2. ret' = mem[p + d] - mem[q + d]
      BY <1>10, <2>1
    <2>3. ret' < 0 /\ ret' \in Int /\ ~(d < a) /\ ~(d = b)
      BY <1>1, <1>12, <2>1, <2>2, SMT
    <2>4. QED
      BY <1>7, <1>9, <2>3, ComparesAt DEF Compares, s, t
  <1>13. CASE d < a /\ d = b
    <2>1. mem[q + d] = 0 /\ mem[p + d] # 0 /\ mem[p + d] \in 0 .. 255 /\ d # max
      BY <1>2, <1>7, <1>8, <1>13
    <2>2. ret' = mem[p + d] - mem[q + d]
      BY <1>10, <2>1
    <2>3. ret' > 0 /\ ret' \in Int /\ ~(d < b) /\ ~(d = a)
      BY <1>1, <1>13, <2>1, <2>2, SMT
    <2>4. QED
      BY <1>7, <1>9, <2>3, ComparesAt DEF Compares, s, t
  <1>14. CASE d < a /\ d < b
    <2>1. /\ s[d + 1] = mem[p + d] /\ t[d + 1] = mem[q + d]
          /\ mem[p + d] \in 0 .. 255 /\ mem[q + d] \in 0 .. 255 /\ d # max
      BY <1>7, <1>8, <1>14
    <2>2. ret' = s[d + 1] - t[d + 1]
      BY <1>10, <2>1
    <2>3. ret' \in Int /\ ~(d = a) /\ ~(d = b)
      BY <1>1, <1>14, <2>1, <2>2, SMT
    <2>4. QED
      BY <1>7, <1>9, <2>2, <2>3, ComparesAt DEF Compares, s, t
  <1>15. QED
    <2>1. (d = a \/ d < a) /\ (d = b \/ d < b)
      BY <1>1, <1>8, SMT
    <2>2. QED
      BY <1>11, <1>12, <1>13, <1>14, <2>1

LEMMA StrncmpDid ==
  ASSUME before' = mem, mem' = mem, mem \in [Place -> Byte], NEW p \in Place, NEW q \in Place,
         NEW n \in Nat, Scannable(p, n), Scannable(q, n), ret' = strncmp(p, q, n)
  PROVE  Did("strncmp", p, q, n, 0)'
  <1>1. PICK a \in Nat : ScanAt(p, n, a)
    BY ScanEnds
  <1>2. PICK b \in Nat : ScanAt(q, n, b)
    BY ScanEnds
  <1>3. Compares(Bytes(p, a), Bytes(q, b))'
    BY <1>1, <1>2, StrncmpFacts
  <1>4. Compares(StrAtMost(p, n), StrAtMost(q, n))'
    BY <1>1, <1>2, <1>3, ScanFacts DEF Compares
  <1>5. QED
    BY <1>4 DEF Did, Unchanged

LEMMA StrcmpDid ==
  ASSUME before' = mem, mem' = mem, mem \in [Place -> Byte], NEW p \in Place, NEW q \in Place,
         IsString(p), IsString(q), ret' = strcmp(p, q)
  PROVE  Did("strcmp", p, q, 0, 0)'
  <1>1. PICK a \in Nat : StringAt(p, a)
    BY StringEnds
  <1>2. PICK b \in Nat : StringAt(q, b)
    BY StringEnds
  <1>3. /\ a \in Nat /\ a < MemSize /\ b \in Nat /\ b < MemSize /\ MemSize \in Nat
        /\ Str(p)' = Bytes(p, a)' /\ Str(q)' = Bytes(q, b)'
    BY <1>1, <1>2, StringFacts, StringsAssumption
  <1>4. ScanAt(p, MemSize, a) /\ ScanAt(q, MemSize, b)
    <2>1. a <= MemSize /\ b <= MemSize
      BY <1>3, SMT
    <2>2. QED
      BY <1>1, <1>2, <2>1 DEF StringAt, ScanAt
  <1>5. ret' = strncmp(p, q, MemSize)
    BY DEF strcmp
  <1>6. Compares(Bytes(p, a), Bytes(q, b))'
    BY <1>3, <1>4, <1>5, StrncmpFacts
  <1>7. Compares(Str(p), Str(q))'
    BY <1>3, <1>6 DEF Compares
  <1>8. QED
    BY <1>7 DEF Did, Unchanged

\* strstr() finds the first place where the needle is in the haystack.
LEMMA StrstrDid ==
  ASSUME before' = mem, mem' = mem, mem \in [Place -> Byte], NEW p \in Place, NEW q \in Place,
         IsString(p), IsString(q), ret' = strstr(p, q)
  PROVE  Did("strstr", p, q, 0, 0)'
  <1>1. PICK a \in Nat : StringAt(p, a)
    BY StringEnds
  <1>2. PICK b \in Nat : StringAt(q, b)
    BY StringEnds
  <1> DEFINE tries == p .. (p + (a - b))
             S == {r \in tries : memcmp(r, q, b) = 0}
             M == {r \in tries : Bytes(r, b)' = Bytes(q, b)'}
  <1>3. /\ strlen(p) = a /\ Len(Str(p)') = a
        /\ strlen(q) = b /\ Len(Str(q)') = b /\ Str(q)' = Bytes(q, b)'
    BY <1>1, <1>2, StringFacts, BytesFacts
  <1>4. strstr(p, q) = IF b = 0 \/ S = {} THEN Nowhere ELSE CHOOSE r \in S : \A x \in S : r <= x
    BY <1>3 DEF strstr
  <1>5. Matches(Str(q), p)' = M
    <2>1. Matches(Str(q), p)' = {r \in Area(p, a - b + 1) : Bytes(r, b)' = Bytes(q, b)'}
      BY <1>3 DEF Matches, Area
    <2>2. Area(p, a - b + 1) = tries
      BY StringsAssumption, SMT DEF Area, Place
    <2>3. QED
      BY <2>1, <2>2
  <1>6. Str(q)' = <<>> <=> b = 0
    BY <1>3, BytesFacts, SMT
  <1>7. CASE b = 0
    BY <1>4, <1>6, <1>7, NothingFound DEF Did, Unchanged
  <1>8. CASE b # 0
    <2>1. ASSUME NEW r \in tries
          PROVE  r \in Place /\ \A j \in 0 .. (b - 1) : r + j \in Place /\ q + j \in Place
      <3>1. \A j \in 0 .. (b - 1) : q + j \in Place
        BY <1>2 DEF StringAt
      <3>2. p + a \in Place
        BY <1>1 DEF StringAt
      <3>3. r \in Place /\ \A j \in 0 .. (b - 1) : r + j \in Place
        BY <1>8, <3>2, StringsAssumption, SMT DEF Place
      <3>4. QED
        BY <3>1, <3>3
    <2>2. ASSUME NEW r \in tries PROVE memcmp(r, q, b) = 0 <=> Bytes(r, b)' = Bytes(q, b)'
      BY <2>1, MemcmpFacts
    <2>3. S = M /\ M \in SUBSET Place
      BY <2>1, <2>2
    <2>4. strstr(p, q) = First(M)
      <3>1. CASE M = {}
        BY <1>4, <2>3, <3>1, NothingFound
      <3>2. CASE M # {}
        <4>1. PICK r \in M : \A x \in M : r <= x
          BY <2>3, <3>2, FirstPlaceOf
        <4>2. strstr(p, q) = CHOOSE y \in M : \A x \in M : y <= x
          BY <1>4, <1>8, <2>3, <3>2
        <4>3. First(M) = CHOOSE y \in M : \A x \in M : y <= x
          BY <3>2 DEF First
        <4>4. QED
          BY <4>2, <4>3
      <3>3. QED
        BY <3>1, <3>2
    <2>5. ret' = First(Matches(Str(q), p)')
      BY <1>5, <2>4
    <2>6. QED
      BY <1>6, <1>8, <2>5 DEF Did, Unchanged
  <1>9. QED
    BY <1>7, <1>8

-----------------------------------------------------------------------------
(* Copies of areas that do not overlap.                                    *)

\* o bytes at dst, k bytes at src, and m others.
Parts(s, dst, o, end, src, k, tail, m) ==
  /\ dst \in Place /\ src \in Place /\ o \in Nat /\ k \in Nat /\ m \in Nat
  /\ end = dst + o /\ Len(s) = o + k + m /\ Len(tail) = m
  /\ \A j \in 0 .. (o - 1) : s[j + 1] = mem[dst + j]
  /\ \A j \in 0 .. (k - 1) : s[o + j + 1] = mem[src + j]
  /\ \A j \in 0 .. (m - 1) : s[o + k + j + 1] = tail[j + 1]

\* The memory with s at dst.
Put(dst, s) == [q \in Place |-> IF q \in Area(dst, Len(s)) THEN s[q - dst + 1] ELSE mem[q]]

\* What is stored behind o bytes that are kept: k bytes of src, and m more.
LEMMA StoredIs ==
  ASSUME NEW s, NEW dst, NEW o, NEW end, NEW src, NEW k, NEW tail, NEW m,
         Parts(s, dst, o, end, src, k, tail, m)
  PROVE  Stored(end, src, k, tail) = Put(dst, s)
  <1> USE DEF Parts
  <1> DEFINE Old(q) == IF q \in Area(dst + o, k) THEN mem[src + (q - (dst + o))]
                       ELSE IF q \in Area(dst + o + k, m) THEN tail[q - (dst + o + k) + 1]
                       ELSE mem[q]
             New(q) == IF q \in Area(dst, o + k + m) THEN s[q - dst + 1] ELSE mem[q]
  <1>1. ASSUME NEW q \in Place PROVE Old(q) = New(q)
    <2> DEFINE j == q - dst
    <2>1. j \in Int /\ q = dst + j /\ dst \in Int
      BY StringsAssumption, SMT DEF Place
    <2>2. /\ q \in Area(dst + o, k) <=> o <= j /\ j < o + k
          /\ q \in Area(dst + o + k, m) <=> o + k <= j /\ j < o + k + m
          /\ q \in Area(dst, o + k + m) <=> 0 <= j /\ j < o + k + m
      BY StringsAssumption, SMT DEF Area, Place
    <2>3. CASE 0 <= j /\ j < o
      <3>1. j \in 0 .. (o - 1)
        BY <2>1, <2>3, SMT
      <3>2. s[j + 1] = mem[q]
        BY <2>1, <3>1
      <3>3. ~(o <= j) /\ ~(o + k <= j) /\ j < o + k + m
        BY <2>1, <2>3, SMT
      <3>4. QED
        BY <2>2, <2>3, <3>2, <3>3
    <2>4. CASE o <= j /\ j < o + k
      <3>1. j - o \in 0 .. (k - 1) /\ o + (j - o) + 1 = j + 1 /\ q - (dst + o) = j - o
            /\ 0 <= j /\ j < o + k + m
        BY <2>1, <2>4, SMT
      <3>2. s[j + 1] = mem[src + (q - (dst + o))]
        BY <3>1
      <3>3. QED
        BY <2>2, <2>4, <3>1, <3>2
    <2>5. CASE o + k <= j /\ j < o + k + m
      <3>1. j - (o + k) \in 0 .. (m - 1) /\ o + k + (j - (o + k)) + 1 = j + 1
            /\ q - (dst + o + k) = j - (o + k) /\ 0 <= j /\ ~(j < o + k)
        BY <2>1, <2>5, SMT
      <3>2. s[j + 1] = tail[q - (dst + o + k) + 1]
        BY <3>1
      <3>3. QED
        BY <2>2, <2>5, <3>1, <3>2
    <2>6. CASE ~(0 <= j /\ j < o + k + m)
      <3>1. ~(o <= j /\ j < o + k) /\ ~(o + k <= j /\ j < o + k + m)
        BY <2>1, <2>6, SMT
      <3>2. QED
        BY <2>2, <2>6, <3>1
    <2>7. QED
      BY <2>1, <2>3, <2>4, <2>5, <2>6, SMT
  <1>2. Stored(end, src, k, tail) = [q \in Place |-> Old(q)]
    BY DEF Stored
  <1> HIDE DEF Old
  <1>3. [q \in Place |-> Old(q)] = [q \in Place |-> New(q)]
    BY <1>1
  <1>4. QED
    BY <1>2, <1>3 DEF Put

\* Nothing is stored by a copy of no bytes.
LEMMA StoredNothing ==
  ASSUME mem \in [Place -> Byte], NEW dst \in Int, NEW src
  PROVE  Stored(dst, src, 0, <<>>) = mem
  <1>1. Area(dst, 0) = {} /\ Area(dst + 0, Len(<<>>)) = {}
    BY SMT DEF Area
  <1>2. Stored(dst, src, 0, <<>>) = [q \in Place |-> mem[q]]
    BY <1>1 DEF Stored
  <1>3. QED
    BY <1>2

\* memset() writes the low byte of c.
LEMMA MemsetDid ==
  ASSUME before' = mem, NEW dst \in Place, NEW c \in Int, NEW n \in Nat,
         mem' = Stored(dst, dst, 0, [i \in 1 .. n |-> c % 256])
  PROVE  Did("memset", dst, dst, n, c)'
  <1> DEFINE s == [i \in 1 .. n |-> c % 256]
  <1>1. Len(s) = 0 + 0 + n /\ Len(s) = n
    BY SMT
  <1>2. \A j \in 0 .. (n - 1) : s[0 + 0 + j + 1] = s[j + 1]
    BY SMT
  <1>3. dst + 0 = dst /\ 0 \in Nat /\ 0 .. (0 - 1) = {}
    BY SMT DEF Place
  <1> HIDE DEF s
  <1>4. Parts(s, dst, 0, dst, dst, 0, s, n)
    BY <1>1, <1>2, <1>3 DEF Parts
  <1>8. Stored(dst, dst, 0, s) = Put(dst, s)
    BY <1>3, <1>4, StoredIs
  <1>5. mem' = Put(dst, s)
    BY <1>8 DEF s
  <1>6. OnlyChanges(dst, [i \in 1 .. n |-> c % 256])'
    BY <1>5 DEF s, OnlyChanges, Put
  <1>7. QED
    BY <1>6 DEF Did

\* Sequences of numbers, put together, extended and cut.
LEMMA ConcatTwo ==
  ASSUME NEW u \in Seq(Int), NEW v \in Seq(Int)
  PROVE  /\ u \o v \in Seq(Int) /\ Len(u \o v) = Len(u) + Len(v)
         /\ \A i \in 1 .. Len(u) + Len(v) : (u \o v)[i] = IF i <= Len(u) THEN u[i] ELSE v[i - Len(u)]
  BY ConcatProperties

LEMMA AppendFacts ==
  ASSUME NEW x \in Seq(Int)
  PROVE  /\ Append(x, 0) \in Seq(Int) /\ Len(Append(x, 0)) = Len(x) + 1
         /\ \A i \in 1 .. Len(x) : Append(x, 0)[i] = x[i]
         /\ Append(x, 0)[Len(x) + 1] = 0
  BY AppendProperties

LEMMA TakeFacts ==
  ASSUME NEW x \in Seq(Int), NEW n \in Nat
  PROVE  /\ Take(x, n) \in Seq(Int)
         /\ Len(Take(x, n)) = (IF n < Len(x) THEN n ELSE Len(x))
         /\ \A i \in 1 .. Len(Take(x, n)) : Take(x, n)[i] = x[i]
  <1> DEFINE m == IF n < Len(x) THEN n ELSE Len(x)
  <1>1. m \in Nat /\ m <= Len(x)
    BY LenProperties, SMT
  <1> HIDE DEF m
  <1>2. /\ SubSeq(x, 1, m) \in Seq(Int) /\ Len(SubSeq(x, 1, m)) = m
        /\ \A i \in 1 .. m : SubSeq(x, 1, m)[i] = x[i]
    BY <1>1, SMT
  <1>3. Take(x, n) = SubSeq(x, 1, m)
    BY DEF Take, m
  <1>4. QED
    BY <1>2, <1>3 DEF m

\* The text x is o bytes at dst and k bytes at src.
TextOf(x, dst, o, end, src, k) ==
  /\ x \in Seq(Int) /\ Len(x) = o + k /\ end = dst + o
  /\ dst \in Place /\ src \in Place /\ o \in Nat /\ k \in Nat
  /\ \A j \in 0 .. (o - 1) : x[j + 1] = mem[dst + j]
  /\ \A j \in 0 .. (k - 1) : x[o + j + 1] = mem[src + j]

\* What ends a string.
Terminator == << 0 >>

\* A text that is stored is followed by a 0.
LEMMA TextStored ==
  ASSUME NEW x, NEW dst, NEW o, NEW end, NEW src, NEW k, TextOf(x, dst, o, end, src, k)
  PROVE  Stored(end, src, k, Terminator) = Put(dst, Append(x, 0))
  <1> USE DEF TextOf
  <1> DEFINE s == Append(x, 0)
  <1>1. x \in Seq(Int)
    OBVIOUS
  <1>2. /\ Len(s) = o + k + 1
        /\ \A i \in 1 .. o + k : s[i] = x[i]
        /\ s[o + k + 1] = 0
    BY <1>1, AppendFacts
  <1> HIDE DEF s
  <1>3. ASSUME NEW j \in 0 .. (o - 1) PROVE s[j + 1] = mem[dst + j]
    <2>1. j + 1 \in 1 .. o + k
      BY SMT
    <2>2. QED
      BY <1>2, <2>1
  <1>4. ASSUME NEW j \in 0 .. (k - 1) PROVE s[o + j + 1] = mem[src + j]
    <2>1. o + j + 1 \in 1 .. o + k
      BY SMT
    <2>2. QED
      BY <1>2, <2>1
  <1>5. ASSUME NEW j \in 0 .. (1 - 1) PROVE s[o + k + j + 1] = Terminator[j + 1]
    <2>1. j = 0 /\ o + k + j + 1 = o + k + 1 /\ Terminator[1] = 0
      BY SMT DEF Terminator
    <2>2. QED
      BY <1>2, <2>1
  <1>6. Len(Terminator) = 1 /\ 1 \in Nat
    BY SMT DEF Terminator
  <1>7. Parts(s, dst, o, end, src, k, Terminator, 1)
    BY <1>2, <1>3, <1>4, <1>5, <1>6 DEF Parts
  <1>8. Stored(end, src, k, Terminator) = Put(dst, s)
    BY <1>7, StoredIs
  <1>9. QED
    BY <1>8 DEF s

\* The bytes of the string or the area at p.
LEMMA TextAt ==
  ASSUME before' = mem, mem \in [Place -> Byte], NEW p \in Place, NEW n \in Nat, NEW dst \in Place,
         \A j \in 0 .. (n - 1) : p + j \in Place
  PROVE  TextOf(Bytes(p, n)', dst, 0, dst, p, n)
  <1>1. /\ Bytes(p, n)' \in Seq(Int) /\ Len(Bytes(p, n)') = n
        /\ \A j \in 0 .. (n - 1) : Bytes(p, n)'[j + 1] = mem[p + j]
    BY BytesSeq
  <1>2. /\ n = 0 + n /\ dst = dst + 0 /\ 0 \in Nat /\ 0 .. (0 - 1) = {}
        /\ \A j \in 0 .. (n - 1) : 0 + j + 1 = j + 1
    BY SMT DEF Place
  <1>3. QED
    BY <1>1, <1>2 DEF TextOf

\* strcpy() copies the string and its end.
LEMMA StrcpyDid ==
  ASSUME before' = mem, mem \in [Place -> Byte], NEW dst \in Place, NEW src \in Place, IsString(src),
         mem' = Stored(dst, src, strlen(src), << 0 >>)
  PROVE  Did("strcpy", dst, src, 0, 0)'
  <1>1. PICK a \in Nat : StringAt(src, a)
    BY StringEnds
  <1>2. strlen(src) = a /\ Str(src)' = Bytes(src, a)'
    BY <1>1, StringFacts
  <1>3. \A j \in 0 .. (a - 1) : src + j \in Place
    BY <1>1 DEF StringAt
  <1>4. TextOf(Str(src)', dst, 0, dst, src, a)
    BY <1>2, <1>3, TextAt
  <1> DEFINE x == Str(src)'
  <1>6. mem' = Put(dst, Append(x, 0))
    <2> HIDE DEF x
    <2>1. TextOf(x, dst, 0, dst, src, a)
      BY <1>4 DEF x
    <2>2. Stored(dst, src, a, Terminator) = Put(dst, Append(x, 0))
      BY <2>1, TextStored
    <2>3. QED
      BY <1>2, <2>2 DEF Terminator
  <1>7. OnlyChanges(dst, Append(Str(src), 0))'
    BY <1>6 DEF OnlyChanges, Put
  <1>8. QED
    BY <1>7 DEF Did

\* strncpy() fills what is left with zeros.
LEMMA StrncpyDid ==
  ASSUME before' = mem, mem \in [Place -> Byte], NEW dst \in Place, NEW src \in Place,
         NEW n \in Nat, Scannable(src, n),
         mem' = Stored(dst, src, strnlen(src, n), Zeros(n - strnlen(src, n)))
  PROVE  Did("strncpy", dst, src, n, 0)'
  <1>1. PICK k \in Nat : ScanAt(src, n, k)
    BY ScanEnds
  <1>2. strnlen(src, n) = k /\ StrAtMost(src, n)' = Bytes(src, k)' /\ k <= n
    BY <1>1, ScanFacts
  <1> DEFINE v == Bytes(src, k)'
             m == n - k
             z == Zeros(m)
             zs == Zeros(n)
             y == v \o zs
             s == Take(y, n)
  <1>3. m \in Nat /\ k + m = n /\ n = 0 + k + m /\ dst = dst + 0 /\ 0 \in Nat /\ 0 .. (0 - 1) = {}
    BY <1>2, SMT DEF Place
  <1>4. \A j \in 0 .. (k - 1) : src + j \in Place
    BY <1>1 DEF ScanAt
  <1>5. v \in Seq(Int) /\ Len(v) = k /\ \A j \in 0 .. (k - 1) : v[j + 1] = mem[src + j]
    BY <1>4, BytesSeq
  <1> HIDE DEF v, m
  <1>6. /\ Len(z) = m /\ \A j \in 0 .. (m - 1) : z[j + 1] = 0
        /\ zs \in Seq(Int) /\ Len(zs) = n /\ \A i \in 1 .. n : zs[i] = 0
    BY <1>3, SMT DEF Zeros
  <1> HIDE DEF z, zs
  <1>7. y \in Seq(Int) /\ Len(y) = k + n
    <2>1. y \in Seq(Int)
      BY <1>5, <1>6, ConcatTwo
    <2>2. Len(y) = Len(v) + Len(zs)
      BY <1>5, <1>6, ConcatTwo
    <2>3. QED
      BY <1>5, <1>6, <2>1, <2>2
  <1>8. \A i \in 1 .. k + n : y[i] = IF i <= k THEN v[i] ELSE zs[i - k]
    <2>1. \A i \in 1 .. Len(v) + Len(zs) : y[i] = IF i <= Len(v) THEN v[i] ELSE zs[i - Len(v)]
      BY <1>5, <1>6, ConcatTwo
    <2>2. QED
      BY <1>5, <1>6, <2>1
  <1> HIDE DEF y
  <1>9. Len(s) = n /\ \A i \in 1 .. n : s[i] = y[i]
    <2>1. /\ Len(s) = (IF n < Len(y) THEN n ELSE Len(y))
          /\ \A i \in 1 .. Len(s) : s[i] = y[i]
      BY <1>7, TakeFacts
    <2>2. (IF n < Len(y) THEN n ELSE Len(y)) = n
      BY <1>7, SMT
    <2>3. QED
      BY <2>1, <2>2
  <1> HIDE DEF s
  <1>10. ASSUME NEW j \in 0 .. (k - 1) PROVE s[0 + j + 1] = mem[src + j]
    <2>1. 0 + j + 1 = j + 1 /\ j + 1 \in 1 .. n /\ j + 1 \in 1 .. k + n /\ j + 1 <= k
      BY <1>2, SMT
    <2>2. QED
      BY <1>5, <1>8, <1>9, <2>1
  <1>11. ASSUME NEW j \in 0 .. (m - 1) PROVE s[0 + k + j + 1] = z[j + 1]
    <2>1. /\ 0 + k + j + 1 \in 1 .. n /\ 0 + k + j + 1 \in 1 .. k + n /\ ~(0 + k + j + 1 <= k)
          /\ (0 + k + j + 1) - k \in 1 .. n
      BY <1>3, SMT
    <2>2. s[0 + k + j + 1] = zs[(0 + k + j + 1) - k]
      BY <1>8, <1>9, <2>1
    <2>3. QED
      BY <1>6, <2>1, <2>2
  <1>12. Parts(s, dst, 0, dst, src, k, z, m)
    BY <1>3, <1>6, <1>9, <1>10, <1>11 DEF Parts
  <1>13. Stored(dst, src, k, z) = Put(dst, s)
    BY <1>12, StoredIs
  <1>14. mem' = Put(dst, s)
    BY <1>2, <1>13 DEF z, m
  <1>15. Take(StrAtMost(src, n)' \o Zeros(n), n) = s
    BY <1>2 DEF s, y, v, zs
  <1>16. OnlyChanges(dst, Take(StrAtMost(src, n) \o Zeros(n), n))'
    <2>1. (OnlyChanges(dst, Take(StrAtMost(src, n) \o Zeros(n), n)))'
            <=> mem' = Put(dst, Take(StrAtMost(src, n)' \o Zeros(n), n))
      BY DEF OnlyChanges, Put, Take, Zeros
    <2>2. QED
      BY <1>14, <1>15, <2>1
  <1>17. QED
    BY <1>16 DEF Did

\* What is appended to the second is appended to both.
LEMMA ConcatAppend ==
  ASSUME NEW u \in Seq(Int), NEW v \in Seq(Int)
  PROVE  u \o Append(v, 0) = Append(u \o v, 0)
  <1> DEFINE x == u \o v
             w == Append(v, 0)
             y == u \o w
             z == Append(x, 0)
             n == Len(u) + Len(v) + 1
  <1>1. Len(u) \in Nat /\ Len(v) \in Nat
    BY LenProperties
  <1>2. x \in Seq(Int)
    BY ConcatTwo
  <1>3. Len(x) = Len(u) + Len(v)
    BY ConcatTwo
  <1>4. \A i \in 1 .. Len(u) + Len(v) : x[i] = IF i <= Len(u) THEN u[i] ELSE v[i - Len(u)]
    BY ConcatTwo
  <1>5. /\ w \in Seq(Int) /\ Len(w) = Len(v) + 1
        /\ \A i \in 1 .. Len(v) : w[i] = v[i]
        /\ w[Len(v) + 1] = 0
    BY AppendFacts
  <1> HIDE DEF x, w
  <1>6. y \in Seq(Int)
    BY <1>5, ConcatTwo
  <1>7. Len(y) = Len(u) + Len(w)
    BY <1>5, ConcatTwo
  <1>8. \A i \in 1 .. Len(u) + Len(w) : y[i] = IF i <= Len(u) THEN u[i] ELSE w[i - Len(u)]
    BY <1>5, ConcatTwo
  <1>9. /\ z \in Seq(Int) /\ Len(z) = Len(x) + 1
        /\ \A i \in 1 .. Len(x) : z[i] = x[i]
        /\ z[Len(x) + 1] = 0
    BY <1>2, AppendFacts
  <1> HIDE DEF y, z
  <1>10. Len(y) = n /\ Len(z) = n
    BY <1>1, <1>3, <1>5, <1>7, <1>9, SMT
  <1>11. ASSUME NEW i \in 1 .. n PROVE y[i] = z[i]
    <2>1. i \in 1 .. Len(u) + Len(w)
      BY <1>1, <1>5, SMT
    <2>2. CASE i <= Len(u)
      <3>1. i \in 1 .. Len(u) + Len(v) /\ i \in 1 .. Len(x)
        BY <1>1, <1>3, <2>2, SMT
      <3>2. QED
        BY <1>4, <1>8, <1>9, <2>1, <2>2, <3>1
    <2>3. CASE ~(i <= Len(u)) /\ i # n
      <3>1. i \in 1 .. Len(u) + Len(v) /\ i \in 1 .. Len(x) /\ i - Len(u) \in 1 .. Len(v)
        BY <1>1, <1>3, <2>3, SMT
      <3>2. QED
        BY <1>4, <1>5, <1>8, <1>9, <2>1, <2>3, <3>1
    <2>4. CASE i = n
      <3>1. i - Len(u) = Len(v) + 1 /\ ~(i <= Len(u)) /\ i = Len(x) + 1
        BY <1>1, <1>3, <2>4, SMT
      <3>2. QED
        BY <1>5, <1>8, <1>9, <2>1, <3>1
    <2>5. QED
      BY <2>2, <2>3, <2>4
  <1>12. y = z
    BY <1>6, <1>9, <1>10, <1>11, SeqEqual
  <1>13. QED
    BY <1>12 DEF x, y, w, z

\* Bytes from dst on and from src on make one text.
LEMMA TwoTexts ==
  ASSUME before' = mem, mem \in [Place -> Byte], NEW dst \in Place, NEW src \in Place,
         NEW o \in Nat, NEW k \in Nat,
         \A j \in 0 .. (o - 1) : dst + j \in Place, \A j \in 0 .. (k - 1) : src + j \in Place
  PROVE  TextOf(Bytes(dst, o)' \o Bytes(src, k)', dst, o, dst + o, src, k)
  <1> DEFINE u == Bytes(dst, o)'
             v == Bytes(src, k)'
             x == u \o v
  <1>1. /\ u \in Seq(Int) /\ Len(u) = o /\ \A j \in 0 .. (o - 1) : u[j + 1] = mem[dst + j]
        /\ v \in Seq(Int) /\ Len(v) = k /\ \A j \in 0 .. (k - 1) : v[j + 1] = mem[src + j]
    BY BytesSeq
  <1> HIDE DEF u, v
  <1>2. x \in Seq(Int)
    BY <1>1, ConcatTwo
  <1>3. Len(x) = Len(u) + Len(v)
    BY <1>1, ConcatTwo
  <1>4. \A i \in 1 .. o + k : x[i] = IF i <= o THEN u[i] ELSE v[i - o]
    <2>1. \A i \in 1 .. Len(u) + Len(v) : x[i] = IF i <= Len(u) THEN u[i] ELSE v[i - Len(u)]
      BY <1>1, ConcatTwo
    <2>2. QED
      BY <1>1, <2>1
  <1> HIDE DEF x
  <1>5. ASSUME NEW j \in 0 .. (o - 1) PROVE x[j + 1] = mem[dst + j]
    <2>1. j + 1 \in 1 .. o + k /\ j + 1 <= o
      BY SMT
    <2>2. QED
      BY <1>1, <1>4, <2>1
  <1>6. ASSUME NEW j \in 0 .. (k - 1) PROVE x[o + j + 1] = mem[src + j]
    <2>1. o + j + 1 \in 1 .. o + k /\ ~(o + j + 1 <= o) /\ (o + j + 1) - o = j + 1
      BY SMT
    <2>2. QED
      BY <1>1, <1>4, <2>1
  <1>7. Len(x) = o + k
    BY <1>1, <1>3
  <1>8. TextOf(x, dst, o, dst + o, src, k)
    BY <1>2, <1>5, <1>6, <1>7 DEF TextOf
  <1>9. QED
    BY <1>8 DEF x, u, v

\* strncat() ends what it appends.
LEMMA StrncatDid ==
  ASSUME before' = mem, mem \in [Place -> Byte], NEW dst \in Place, NEW src \in Place,
         NEW n \in Nat, IsString(dst), Scannable(src, n),
         mem' = Stored(dst + strlen(dst), src, strnlen(src, n), << 0 >>)
  PROVE  Did("strncat", dst, src, n, 0)'
  <1>1. PICK o \in Nat : StringAt(dst, o)
    BY StringEnds
  <1>2. PICK k \in Nat : ScanAt(src, n, k)
    BY ScanEnds
  <1>3. /\ strlen(dst) = o /\ Str(dst)' = Bytes(dst, o)'
        /\ strnlen(src, n) = k /\ StrAtMost(src, n)' = Bytes(src, k)'
    BY <1>1, <1>2, StringFacts, ScanFacts
  <1>4. /\ \A j \in 0 .. (o - 1) : dst + j \in Place
        /\ \A j \in 0 .. (k - 1) : src + j \in Place
    BY <1>1, <1>2 DEF StringAt, ScanAt
  <1> DEFINE u == Str(dst)'
             v == StrAtMost(src, n)'
             x == u \o v
  <1>5. TextOf(x, dst, o, dst + o, src, k)
    BY <1>3, <1>4, TwoTexts
  <1>6. u \in Seq(Int) /\ v \in Seq(Int)
    BY <1>3, <1>4, BytesSeq
  <1>7. u \o Append(v, 0) = Append(x, 0)
    <2> HIDE DEF u, v
    <2>1. QED
      BY <1>6, ConcatAppend
  <1>8. mem' = Put(dst, Append(x, 0))
    <2> HIDE DEF x
    <2>1. Stored(dst + o, src, k, Terminator) = Put(dst, Append(x, 0))
      BY <1>5, TextStored
    <2>2. QED
      BY <1>3, <2>1 DEF Terminator
  <1>9. mem' = Put(dst, u \o Append(v, 0))
    BY <1>7, <1>8
  <1>10. OnlyChanges(dst, Str(dst) \o Append(StrAtMost(src, n), 0))'
    BY <1>9 DEF OnlyChanges, Put
  <1>11. QED
    BY <1>10 DEF Did

\* The first bytes of an area.
LEMMA TakeBytes ==
  ASSUME before' = mem, mem \in [Place -> Byte], NEW p \in Place, NEW n \in Nat, NEW m \in Nat,
         \A j \in 0 .. (n - 1) : p + j \in Place
  PROVE  Take(Bytes(p, n)', m) = Bytes(p, IF m < n THEN m ELSE n)'
  <1> DEFINE l == IF m < n THEN m ELSE n
             u == Bytes(p, n)'
             v == Bytes(p, l)'
             w == Take(u, m)
  <1>1. l \in Nat /\ l <= n /\ \A j \in 0 .. (l - 1) : j \in 0 .. (n - 1)
    BY SMT
  <1> HIDE DEF l
  <1>2. u \in Seq(Int) /\ Len(u) = n /\ \A j \in 0 .. (n - 1) : u[j + 1] = mem[p + j]
    BY BytesSeq
  <1>3. v \in Seq(Int) /\ Len(v) = l /\ \A j \in 0 .. (l - 1) : v[j + 1] = mem[p + j]
    BY <1>1, BytesSeq
  <1> HIDE DEF u, v
  <1>4. /\ w \in Seq(Int) /\ Len(w) = (IF m < Len(u) THEN m ELSE Len(u))
        /\ \A i \in 1 .. Len(w) : w[i] = u[i]
    BY <1>2, TakeFacts
  <1> HIDE DEF w
  <1>5. Len(w) = l
    BY <1>2, <1>4 DEF l
  <1>6. ASSUME NEW i \in 1 .. l PROVE w[i] = v[i]
    <2>1. i - 1 \in 0 .. (l - 1) /\ (i - 1) + 1 = i
      BY <1>1, SMT
    <2>2. i - 1 \in 0 .. (n - 1)
      BY <1>1, <2>1
    <2>3. QED
      BY <1>2, <1>3, <1>4, <1>5, <2>1, <2>2
  <1>7. w = v
    BY <1>3, <1>4, <1>5, <1>6, SeqEqual
  <1>8. QED
    BY <1>7 DEF w, u, v, l

\* strlcpy() cuts to the size, and returns the length of the string.
LEMMA StrlcpyDid ==
  ASSUME before' = mem, mem \in [Place -> Byte], NEW dst \in Place, NEW src \in Place,
         NEW cap \in Nat, IsString(src),
         ret' = IF strnlen(src, cap) < cap THEN strnlen(src, cap) ELSE strlen(src),
         mem' = IF strnlen(src, cap) < cap THEN Stored(dst, src, strnlen(src, cap), << 0 >>)
                ELSE IF cap > 0 THEN Stored(dst, src, cap - 1, << 0 >>) ELSE mem
  PROVE  Did("strlcpy", dst, src, cap, 0)'
  <1>1. PICK a \in Nat : StringAt(src, a)
    BY StringEnds
  <1>2. strlen(src) = a /\ Str(src)' = Bytes(src, a)' /\ Len(Str(src)') = a
    BY <1>1, StringFacts, BytesFacts
  <1>3. \A j \in 0 .. (a - 1) : src + j \in Place
    BY <1>1 DEF StringAt
  <1> DEFINE k == IF a < cap THEN a ELSE cap
             m == IF cap - 1 < a THEN cap - 1 ELSE a
  <1>4. strnlen(src, cap) = k
    <2>1. ScanAt(src, cap, k)
      <3>1. k \in Nat /\ k <= cap /\ \A j \in 0 .. (k - 1) : j \in 0 .. (a - 1)
        BY SMT
      <3>2. k = cap \/ k = a
        OBVIOUS
      <3>3. QED
        BY <1>1, <3>1, <3>2 DEF StringAt, ScanAt
    <2>2. QED
      BY <2>1, ScanFacts
  <1>5. (k < cap => k = a) /\ (~(k < cap) => k = cap)
    BY SMT
  <1>6. ret' = Len(Str(src)')
    BY <1>2, <1>4, <1>5
  <1>7. CASE cap = 0
    <2>1. ~(k < cap) /\ ~(cap > 0)
      BY <1>7, SMT
    <2>2. Unchanged'
      BY <1>4, <2>1 DEF Unchanged
    <2>3. QED
      BY <1>6, <1>7, <2>2 DEF Did
  <1>8. CASE cap # 0
    <2>1. /\ cap - 1 \in Nat /\ m \in Nat /\ m <= a /\ cap > 0
          /\ k < cap => m = k
          /\ ~(k < cap) => m = cap - 1
          /\ \A j \in 0 .. (m - 1) : j \in 0 .. (a - 1)
      BY <1>8, SMT
    <2> DEFINE x == Bytes(src, m)'
    <2>2. mem' = Stored(dst, src, m, << 0 >>)
      BY <1>4, <2>1
    <2>3. Take(Str(src)', cap - 1) = x
      BY <1>2, <1>3, <2>1, TakeBytes
    <2> HIDE DEF m
    <2>4. TextOf(x, dst, 0, dst, src, m)
      BY <1>3, <2>1, TextAt
    <2> HIDE DEF x
    <2>5. Stored(dst, src, m, Terminator) = Put(dst, Append(x, 0))
      BY <2>4, TextStored
    <2>6. mem' = Put(dst, Append(Take(Str(src)', cap - 1), 0))
      BY <2>2, <2>3, <2>5 DEF Terminator
    <2>7. OnlyChanges(dst, Append(Take(Str(src), cap - 1), 0))'
      BY <2>6 DEF OnlyChanges, Put
    <2>8. QED
      BY <1>6, <1>8, <2>7 DEF Did
  <1>9. QED
    BY <1>7, <1>8

\* The sum in strlcat() does not wrap below SIZE_MAX.
LEMMA HasRoomMeans ==
  ASSUME NEW i \in Nat, i < SizeMax, NEW cap
  PROVE  HasRoom(i, cap) <=> i + 1 < cap
  <1>1. i + 1 \in Nat /\ SizeMax + 1 \in Nat /\ SizeMax + 1 > 0 /\ i + 1 < SizeMax + 1
    BY SizeTAssumption, SMT
  <1>2. (i + 1) % (SizeMax + 1) = i + 1
    BY <1>1, ModFacts
  <1>3. QED
    BY <1>2 DEF HasRoom, Wrap

\* What is without an end in a memory with a string is shorter than the memory.
LEMMA ScanIsShort ==
  ASSUME NEW p \in Place, NEW max \in Nat, NEW k, ScanAt(p, max, k), NEW src, NEW n, src \in Place,
         StringAt(src, n)
  PROVE  k < MemSize
  <1>1. k \in Nat /\ n \in Nat /\ src + n \in Place /\ mem[src + n] = 0
    BY DEF ScanAt, StringAt
  <1>2. ASSUME ~(k < MemSize) PROVE FALSE
    <2>1. MemSize - 1 \in 0 .. (k - 1)
      BY <1>1, <1>2, StringsAssumption, SMT DEF Place
    <2>2. p + (MemSize - 1) \in Place
      BY <2>1 DEF ScanAt
    <2>3. p = 0
      BY <2>2, StringsAssumption, SMT DEF Place
    <2>4. src + n \in 0 .. (k - 1) /\ p + (src + n) = src + n
      BY <1>1, <1>2, <2>3, StringsAssumption, SMT DEF Place
    <2>5. mem[src + n] # 0
      BY <2>4 DEF ScanAt
    <2>6. QED
      BY <1>1, <2>5
  <1>3. QED
    BY <1>2

\* strlcat() cuts what both make to the size, and returns the length they would have.
LEMMA StrlcatDid ==
  ASSUME mem \in [Place -> Byte], NEW dst \in Place, NEW src \in Place, NEW cap \in 0 .. SizeMax,
         strlcat(dst, src, cap)
  PROVE  Did("strlcat", dst, src, cap, 0)'
  <1>1. before' = mem /\ IsString(src) /\ Scannable(dst, cap) /\ cap \in Nat
    BY SMT DEF strlcat, Returns
  <1>2. PICK l \in Nat : StringAt(src, l)
    BY <1>1, StringEnds
  <1>3. PICK used \in Nat : ScanAt(dst, cap, used)
    BY <1>1, ScanEnds
  <1>4. /\ Str(src)' = Bytes(src, l)' /\ Len(Str(src)') = l /\ l < MemSize
        /\ strnlen(dst, cap) = used /\ StrAtMost(dst, cap)' = Bytes(dst, used)'
        /\ Len(StrAtMost(dst, cap)') = used /\ used <= cap
    BY <1>1, <1>2, <1>3, StringFacts, ScanFacts, BytesFacts
  <1>5. used < MemSize
    BY <1>1, <1>2, <1>3, ScanIsShort
  <1>6. /\ \A j \in 0 .. (l - 1) : src + j \in Place /\ mem[src + j] # 0
        /\ src + l \in Place /\ mem[src + l] = 0
        /\ \A j \in 0 .. (used - 1) : dst + j \in Place
    BY <1>2, <1>3 DEF StringAt, ScanAt
  <1> DEFINE Stop(i) == ~HasRoom(used + i, cap) \/ mem[src + i] = 0
             Least(i) == Stop(i) /\ \A j \in 0 .. (i - 1) : ~Stop(j)
             k == CHOOSE i \in 0 .. MemSize : Least(i)
             n == IF used = cap THEN 0 ELSE IF l < cap - used THEN l ELSE cap - used - 1
  <1>7. /\ ret' = used + k + strlen(src + k)
        /\ mem' = Stored(dst + used, src, k, IF used + k < cap THEN << 0 >> ELSE <<>>)
    BY <1>4 DEF strlcat, Returns, Until
  <1>8. n \in Nat /\ n <= l /\ n <= MemSize /\ \A j \in 0 .. (n - 1) : j \in 0 .. (l - 1)
    BY <1>4, StringsAssumption, SMT
  <1>9. Least(n)
    <2>1. Stop(n)
      <3>1. CASE n = l
        BY <1>6, <3>1
      <3>2. CASE n # l
        <4>1. /\ used + n \in Nat /\ used + n < SizeMax /\ ~((used + n) + 1 < cap)
          BY <1>1, <1>4, <1>5, <3>2, SizeTAssumption, StringsAssumption, SMT
        <4>2. QED
          BY <4>1, HasRoomMeans
      <3>3. QED
        BY <3>1, <3>2
    <2>2. ASSUME NEW j \in 0 .. (n - 1) PROVE ~Stop(j)
      <3>1. mem[src + j] # 0
        BY <1>6, <1>8
      <3>2. /\ used + j \in Nat /\ used + j < SizeMax /\ (used + j) + 1 < cap
        BY <1>1, <1>4, <1>8, SizeTAssumption, SMT
      <3>3. HasRoom(used + j, cap)
        BY <3>2, HasRoomMeans
      <3>4. QED
        BY <3>1, <3>3
    <2>3. QED
      BY <2>1, <2>2
  <1>10. k = n
    <2>1. n \in 0 .. MemSize
      BY <1>8, StringsAssumption, SMT
    <2>2. ASSUME NEW j \in 0 .. MemSize, Least(j) PROVE j = n
      <3>1. j < n => j \in 0 .. (n - 1)
        BY <1>8, SMT
      <3>2. n < j => n \in 0 .. (j - 1)
        BY <1>8, SMT
      <3>3. j < n \/ n < j \/ j = n
        BY <1>8, SMT
      <3>4. QED
        BY <1>9, <2>2, <3>1, <3>2, <3>3
    <2> HIDE DEF Least, n
    <2>3. QED
      BY <1>9, <2>1, <2>2
  <1> HIDE DEF k
  <1>11. ret' = used + l
    <2>1. src + n \in Place
      <3>1. n = l \/ n \in 0 .. (l - 1)
        BY <1>8, SMT
      <3>2. QED
        BY <1>6, <3>1
    <2>2. StringAt(src + n, l - n)
      <3>1. l - n \in Nat /\ (src + n) + (l - n) = src + l
        BY <1>8, SMT DEF Place
      <3>2. ASSUME NEW j \in 0 .. ((l - n) - 1)
            PROVE  (src + n) + j \in Place /\ mem[(src + n) + j] # 0
        <4>1. n + j \in 0 .. (l - 1) /\ (src + n) + j = src + (n + j)
          BY <1>8, SMT DEF Place
        <4>2. QED
          BY <1>6, <4>1
      <3>3. QED
        BY <1>6, <3>1, <3>2 DEF StringAt
    <2>3. strlen(src + n) = l - n
      BY <1>1, <2>1, <2>2, StringFacts
    <2> HIDE DEF n
    <2>4. ret' = used + n + (l - n)
      BY <1>7, <1>10, <2>3
    <2>5. QED
      BY <1>8, <2>4, SMT
  <1>12. ret' = Len(StrAtMost(dst, cap)') + Len(Str(src)')
    BY <1>4, <1>11
  <1>13. CASE used = cap
    <2>1. ~(used + n < cap) /\ n = 0 /\ dst + used \in Int
      BY <1>13, SMT DEF Place
    <2>2. Stored(dst + used, src, 0, <<>>) = mem
      BY <2>1, StoredNothing
    <2>3. Unchanged'
      <3>1. mem' = Stored(dst + used, src, 0, <<>>)
        BY <1>7, <1>10, <2>1
      <3>2. QED
        BY <1>1, <2>2, <3>1 DEF Unchanged
    <2>4. Len(StrAtMost(dst, cap)') = cap
      BY <1>4, <1>13
    <2>5. QED
      BY <1>12, <2>3, <2>4 DEF Did
  <1>14. CASE used # cap
    <2> DEFINE u == StrAtMost(dst, cap)'
               v == Str(src)'
               y == u \o v
               x == Take(y, cap - 1)
    <2>1. /\ used + n < cap /\ cap - 1 \in Nat
          /\ (IF cap - 1 < used + l THEN cap - 1 ELSE used + l) = used + n
          /\ used + n <= used + l
      BY <1>1, <1>4, <1>8, <1>14, SMT
    <2>2. TextOf(y, dst, used, dst + used, src, l)
      BY <1>1, <1>4, <1>6, TwoTexts
    <2> HIDE DEF n, y
    <2>3. /\ Len(x) = used + n /\ x \in Seq(Int)
          /\ \A i \in 1 .. used + n : x[i] = y[i]
      <3>1. y \in Seq(Int) /\ Len(y) = used + l
        BY <2>2 DEF TextOf
      <3>2. /\ Len(x) = (IF cap - 1 < Len(y) THEN cap - 1 ELSE Len(y)) /\ x \in Seq(Int)
            /\ \A i \in 1 .. Len(x) : x[i] = y[i]
        BY <2>1, <3>1, TakeFacts
      <3>3. QED
        BY <2>1, <3>1, <3>2
    <2> HIDE DEF x
    <2>4. TextOf(x, dst, used, dst + used, src, n)
      <3>1. ASSUME NEW j \in 0 .. (used - 1) PROVE x[j + 1] = mem[dst + j]
        <4>1. j + 1 \in 1 .. used + n
          BY <1>8, SMT
        <4>2. QED
          BY <2>2, <2>3, <4>1 DEF TextOf
      <3>2. ASSUME NEW j \in 0 .. (n - 1) PROVE x[used + j + 1] = mem[src + j]
        <4>1. used + j + 1 \in 1 .. used + n /\ j \in 0 .. (l - 1)
          BY <1>8, SMT
        <4>2. QED
          BY <2>2, <2>3, <4>1 DEF TextOf
      <3>3. QED
        BY <1>8, <2>3, <3>1, <3>2 DEF TextOf
    <2>5. Stored(dst + used, src, n, Terminator) = Put(dst, Append(x, 0))
      BY <2>4, TextStored
    <2>6. mem' = Put(dst, Append(x, 0))
      BY <1>7, <1>10, <2>1, <2>5 DEF Terminator
    <2>7. mem' = Put(dst, Append(Take(u \o v, cap - 1), 0))
      BY <2>6 DEF x, y
    <2>8. OnlyChanges(dst, Append(Take(StrAtMost(dst, cap) \o Str(src), cap - 1), 0))'
      BY <1>1, <2>7 DEF OnlyChanges, Put
    <2>9. Len(StrAtMost(dst, cap)') # cap
      BY <1>4, <1>14
    <2>10. QED
      BY <1>12, <2>8, <2>9 DEF Did
  <1>15. QED
    BY <1>13, <1>14

-----------------------------------------------------------------------------
(* The specification.                                                      *)

\* The call that has been made did what its function is defined to do, unless it is a
\* copy that may be under way: MoveInv is about those.
DefInv == MoveInv /\ (op.fn \notin Moves => Did(op.fn, op.dst, op.src, op.n, op.c))

\* The call in the record of the next state.
DidLast == Did(op.fn, op.dst, op.src, op.n, op.c)

\* The functions that only read.
LEMMA ReadsDid ==
  ASSUME mem \in [Place -> Byte], NEW p \in Place, NEW q \in Place, NEW n \in SizeArg,
         NEW c \in CharArg, Reads(p, q, n, c)
  PROVE  DidLast'
  <1> USE DEF DidLast
  <1>1. n \in Nat /\ c \in Int
    BY StringsAssumption, SizeTAssumption, SMT
  <1>2. mem' = mem
    BY DEF Reads
  <1>3. CASE IsString(p) /\ Returns("strlen", p, p, 0, 0, strlen(p))
    BY <1>2, <1>3, StrlenDid, DidNow DEF Returns
  <1>4. CASE Scannable(p, n) /\ Returns("strnlen", p, p, n, 0, strnlen(p, n))
    BY <1>1, <1>2, <1>4, StrnlenDid, DidNow DEF Returns
  <1>5. CASE IsString(p) /\ Returns("strchr", p, p, 0, c, strchr(p, c))
    BY <1>1, <1>2, <1>5, StrchrDid, DidNow DEF Returns
  <1>6. CASE IsString(p) /\ Returns("strrchr", p, p, 0, c, strrchr(p, c))
    BY <1>1, <1>2, <1>6, StrrchrDid, DidNow DEF Returns
  <1>7. CASE /\ InMemory(Area(p, n)) /\ InMemory(Area(q, n))
             /\ Returns("memcmp", p, q, n, 0, memcmp(p, q, n))
    BY <1>1, <1>2, <1>7, MemcmpDid, DidNow DEF Returns
  <1>8. CASE /\ Scannable(p, n) /\ Scannable(q, n)
             /\ Returns("strncmp", p, q, n, 0, strncmp(p, q, n))
    BY <1>1, <1>2, <1>8, StrncmpDid, DidNow DEF Returns
  <1>9. CASE IsString(p) /\ IsString(q) /\ Returns("strcmp", p, q, 0, 0, strcmp(p, q))
    BY <1>2, <1>9, StrcmpDid, DidNow DEF Returns
  <1>10. CASE IsString(p) /\ IsString(q) /\ Returns("strstr", p, q, 0, 0, strstr(p, q))
    BY <1>2, <1>10, StrstrDid, DidNow DEF Returns
  <1>11. QED
    BY <1>3, <1>4, <1>5, <1>6, <1>7, <1>8, <1>9, <1>10 DEF Reads

\* The bounded copies.
LEMMA WritesDid ==
  ASSUME mem \in [Place -> Byte], NEW dst \in Place, NEW src \in Place, NEW n \in SizeArg
  PROVE  /\ strncpy(dst, src, n) => DidLast'
         /\ strncat(dst, src, n) => DidLast'
         /\ strlcpy(dst, src, n) => DidLast'
         /\ strlcat(dst, src, n) => DidLast'
  <1> USE DEF DidLast
  <1>1. n \in Nat /\ n \in 0 .. SizeMax
    BY StringsAssumption, SizeTAssumption, SMT
  <1>4. ASSUME strncpy(dst, src, n) PROVE DidLast'
    BY <1>1, <1>4, StrncpyDid, DidNow DEF strncpy, Returns
  <1>5. ASSUME strncat(dst, src, n) PROVE DidLast'
    BY <1>1, <1>5, StrncatDid, DidNow DEF strncat, Returns
  <1>6. ASSUME strlcpy(dst, src, n) PROVE DidLast'
    <2>1. /\ IsString(src) /\ before' = mem /\ op' = Call("strlcpy", dst, src, n, 0)
          /\ ret' = IF strnlen(src, n) < n THEN strnlen(src, n) ELSE strlen(src)
          /\ mem' = IF strnlen(src, n) < n THEN Stored(dst, src, strnlen(src, n), << 0 >>)
                    ELSE IF n > 0 THEN Stored(dst, src, n - 1, << 0 >>) ELSE mem
      BY <1>6 DEF strlcpy, Returns
    <2>2. Did("strlcpy", dst, src, n, 0)'
      BY <1>1, <2>1, StrlcpyDid
    <2>3. QED
      BY <2>1, <2>2, DidNow
  <1>7. ASSUME strlcat(dst, src, n) PROVE DidLast'
    <2>1. op' = Call("strlcat", dst, src, n, 0)
      BY <1>7 DEF strlcat, Returns
    <2>2. Did("strlcat", dst, src, n, 0)'
      BY <1>1, <1>7, StrlcatDid
    <2>3. QED
      BY <2>1, <2>2, DidNow
  <1>8. QED
    BY <1>4, <1>5, <1>6, <1>7

\* No call has been made.
LEMMA DefInvInit == StringsInit => DefInv
  <1> SUFFICES ASSUME StringsInit PROVE DefInv
    OBVIOUS
  <1>1. op.fn = "none" /\ mem = before
    BY DEF StringsInit, Call
  <1>2. Did("none", op.dst, op.src, op.n, op.c)
    BY <1>1 DEF Did, Unchanged
  <1>3. QED
    BY <1>1, <1>2, MoveInvInit DEF DefInv

\* A call that is made does what its function is defined to do; a copy of a byte is
\* of a call that MoveInv is about.
LEMMA DefInvNext == DefInv /\ [StringsNext]_stringsVars => DefInv'
  <1> SUFFICES ASSUME DefInv, [StringsNext]_stringsVars PROVE DefInv'
    OBVIOUS
  <1>1. MoveInv /\ MoveInv'
    BY MoveInvNext DEF DefInv
  <1>2. ASSUME NoCall, Begins PROVE op'.fn \notin Moves => DidLast'
    <2>1. mem \in [Place -> Byte]
      BY <1>1, <1>2 DEF MoveInv
    <2>2. ASSUME NEW p \in Place, NEW q \in Place, NEW n \in SizeArg, NEW c \in CharArg,
                 Reads(p, q, n, c)
          PROVE  DidLast'
      BY <2>1, <2>2, ReadsDid
    <2>3. ASSUME NEW f \in Moves, NEW dst, NEW src, NEW n, CopyBegins(f, dst, src, n)
          PROVE  op'.fn \in Moves
      BY <2>3 DEF CopyBegins, Call
    <2>4. ASSUME NEW dst \in Place, NEW src \in Place, NEW n \in SizeArg,
                 strncpy(dst, src, n) \/ strncat(dst, src, n)
                   \/ strlcpy(dst, src, n) \/ strlcat(dst, src, n)
          PROVE  DidLast'
      BY <2>1, <2>4, WritesDid
    <2>5. ASSUME NEW dst \in Place, NEW n \in SizeArg, NEW c \in CharArg, memset(dst, c, n)
          PROVE  DidLast'
      <3>1. n \in Nat /\ c \in Int
        BY StringsAssumption, SizeTAssumption, SMT
      <3>2. QED
        BY <2>5, <3>1, MemsetDid, DidNow DEF memset, Returns, DidLast
    <2>6. ASSUME NEW dst \in Place, NEW src \in Place, strcpy(dst, src)
          PROVE  DidLast'
      BY <2>1, <2>6, StrcpyDid, DidNow DEF strcpy, Returns, DidLast
    <2>7. QED
      BY <1>2, <2>2, <2>3, <2>4, <2>5, <2>6 DEF Begins, Moves
  <1>3. CASE NoCall /\ Begins
    BY <1>1, <1>2, <1>3 DEF DefInv, DidLast
  <1>4. CASE CopyByte
    <2>1. op' = op /\ len # 0
      BY <1>4, SMT DEF CopyByte, Copying
    <2>2. op.fn \in Moves
      BY <1>1, <2>1 DEF MoveInv
    <2>3. QED
      BY <1>1, <2>1, <2>2 DEF DefInv
  <1>5. CASE UNCHANGED stringsVars
    <2>1. op' = op /\ mem' = mem /\ before' = before /\ ret' = ret
      BY <1>5 DEF stringsVars
    <2>2. DidLast' <=> DidLast
      BY <2>1 DEF DidLast, Did, Unchanged, Str, Bytes, StrAtMost, OnlyChanges, Compares, Less,
                  PlacesOf, Matches, Moved
    <2>3. QED
      BY <1>1, <2>1, <2>2 DEF DefInv, DidLast
  <1>6. QED
    BY <1>3, <1>4, <1>5 DEF StringsNext

\* Whatever the memory, the arguments, SIZE_MAX and the order of the bytes that are
\* copied: behind a call of any function of string.h that the model has, the memory and the
\* result are what the function is defined to do.  The bounded copies cut and end what
\* they write and return the length it would have had, for sizes of 0 and SIZE_MAX too;
\* comparisons are those of unsigned bytes; no byte but those of the result changes.
THEOREM StringFunctionsAsDefined == StringsSpec => []StringsAsDefined
  <1>1. StringsSpec => []DefInv
    BY DefInvInit, DefInvNext, PTL DEF StringsSpec
  <1>2. DefInv => StringsAsDefined
    <2> SUFFICES ASSUME DefInv, ~Copying PROVE Did(op.fn, op.dst, op.src, op.n, op.c)
      BY DEF StringsAsDefined
    <2>1. CASE op.fn \notin Moves
      BY <2>1 DEF DefInv
    <2>2. CASE op.fn \in Moves
      <3>1. Moved(op.dst, op.src, op.n)
        BY <2>2, MoveInvReturned DEF DefInv, MoveReturned
      <3>2. QED
        BY <2>2, <3>1 DEF Did, Moves
    <2>3. QED
      BY <2>1, <2>2
  <1>3. QED
    BY <1>1, <1>2, PTL
=============================================================================
