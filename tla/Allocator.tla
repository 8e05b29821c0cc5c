----------------------------- MODULE Allocator ------------------------------
(***************************************************************************)
(* What malloc(), calloc(), realloc(), free(), strdup() and strndup()      *)
(* promise to a program, without pages or headers: a set of areas that do  *)
(* not overlap, each with the contents the program gave it.  A request of  *)
(* more than MaxObject bytes may be refused or answered by a pointer that  *)
(* comes without any area; after it the promise may be void.               *)
(***************************************************************************)
EXTENDS Integers

CONSTANTS
  Address,   \* the addresses a pointer may have
  MaxObject  \* the largest request that is answered with an area

VARIABLES
  live,    \* the pointers the program owns
  size,    \* the size of the object at each of them, 0 elsewhere
  stored,  \* the bytes of the objects that do not hold zero
  void     \* nothing is promised any longer

allocVars == <<live, size, stored, void>>

\* The bytes that an object of n bytes at p takes.
Bytes(p, n) == IF n <= MaxObject THEN p .. (p + n - 1) ELSE {}

\* The bytes of all the objects, except for that of p.
Used(p) == UNION {Bytes(q, size[q]) : q \in live \ {p}}

\* An object of n bytes appears at p, away from all the others; what it holds
\* is up to the call.
Allocate(p, n) ==
  /\ p \notin live
  /\ Bytes(p, n) \cap Used(p) = {}
  /\ live' = live \cup {p}
  /\ size' = [size EXCEPT ![p] = n]
  /\ stored' \ Bytes(p, n) = stored

Release(p) ==
  /\ live' = live \ {p}
  /\ size' = [size EXCEPT ![p] = 0]
  /\ stored' = stored \ Bytes(p, size[p])

\* The object of p goes to q with n bytes.  Its first bytes keep their values,
\* and so do all the other objects.
Resize(p, q, n) ==
  /\ q \notin live \ {p}
  /\ Bytes(q, n) \cap Used(p) = {}
  /\ live' = (live \ {p}) \cup {q}
  /\ size' = [[size EXCEPT ![p] = 0] EXCEPT ![q] = n]
  /\ stored' \ Bytes(q, n) = stored \ Bytes(p, size[p])
  /\ \A a \in Bytes(p, size[p]) :
       a + (q - p) \in Bytes(q, n) => (a + (q - p) \in stored' <=> a \in stored)

Store(p, a) ==
  /\ a \in Bytes(p, size[p])
  /\ stored' = stored \cup {a}
  /\ UNCHANGED <<live, size>>

AllocatorInit ==
  /\ live = {} /\ stored = {} /\ void = FALSE
  /\ size = [p \in Address |-> 0]

AllocatorNext ==
  /\ ~void
  /\ \/ /\ \/ \E p \in live' : Allocate(p, size'[p])
           \/ \E p \in live : Release(p)
           \/ \E p \in live, q \in live' : Resize(p, q, size'[q])
           \/ \E p \in live : \E a \in Bytes(p, size[p]) : Store(p, a)
        /\ void' = FALSE
     \/ void' = TRUE

Spec == AllocatorInit /\ [][AllocatorNext]_allocVars
=============================================================================
