----------------------------- MODULE Arithmetic -----------------------------
(* Facts about the remainder, for the proofs about integers that wrap.      *)
EXTENDS Integers, WellFoundedInduction, TLAPS

\* Numbers have a lowest one.
LEMMA LowestNatural ==
  ASSUME NEW S \in SUBSET Nat, S # {}
  PROVE  \E n \in S : \A m \in S : n <= m
  <1>1. PICK n \in S : \A m \in S : ~(<<m, n>> \in OpToRel(<, Nat))
    BY NatLessThanWellFounded, WFMin
  <1>2. ASSUME NEW m \in S PROVE n <= m
    <2>1. n \in Nat /\ m \in Nat /\ ~(m < n)
      BY <1>1 DEF OpToRel
    <2>2. QED
      BY <2>1, SMT
  <1>3. QED
    BY <1>2

\* Induction on a rank: what holds of each thing as soon as it holds of all things of
\* lower rank holds of all.
LEMMA InductionByRank ==
  ASSUME NEW D, NEW rank \in [D -> Nat], NEW B,
         \A i \in D : (\A j \in D : rank[j] < rank[i] => j \in B) => i \in B
  PROVE  D \subseteq B
  <1> DEFINE Bad == {rank[i] : i \in D \ B}
  <1>1. SUFFICES ASSUME ~(D \subseteq B) PROVE FALSE
    OBVIOUS
  <1>2. Bad \in SUBSET Nat /\ Bad # {}
    BY <1>1
  <1> HIDE DEF Bad
  <1>3. PICK k \in Bad : \A m \in Bad : k <= m
    BY <1>2, LowestNatural
  <1>4. PICK i \in D \ B : k = rank[i]
    BY DEF Bad
  <1>5. PICK j \in D : rank[j] < rank[i] /\ j \notin B
    BY <1>4
  <1>6. rank[j] \in Bad /\ rank[j] \in Nat /\ k \in Nat
    BY <1>4, <1>5 DEF Bad
  <1>7. k <= rank[j] /\ rank[j] < k
    BY <1>3, <1>4, <1>5, <1>6
  <1>8. QED
    BY <1>6, <1>7, SMT

\* Induction on a number.
LEMMA InductionUpTo ==
  ASSUME NEW k \in Nat, NEW B, 0 \in B, \A i \in 1 .. k : i - 1 \in B => i \in B
  PROVE  0 .. k \subseteq B
  <1> DEFINE D    == 0 .. k
             rank == [i \in D |-> i]
  <1>1. rank \in [D -> Nat]
    BY SMT
  <1>2. ASSUME NEW i \in D, \A j \in D : rank[j] < rank[i] => j \in B PROVE i \in B
    <2>1. CASE i = 0
      BY <2>1
    <2>2. CASE i # 0
      <3>1. i \in 1 .. k /\ i - 1 \in D /\ i - 1 < i
        BY <2>2, SMT
      <3>2. i - 1 \in B
        BY <1>2, <3>1
      <3>3. QED
        BY <3>1, <3>2
    <2>3. QED
      BY <2>1, <2>2
  <1> HIDE DEF D, rank
  <1>3. D \subseteq B
    BY <1>1, <1>2, InductionByRank
  <1>4. QED
    BY <1>3 DEF D

\* A recursive definition on D: the value at i comes by step[i] from that at next[i], if
\* this one is of a lower rank, and is base[i] otherwise.
Recursion(D, V, max, rank, next, base, step) ==
  /\ max \in Nat /\ rank \in [D -> 0 .. max] /\ next \in [D -> D]
  /\ base \in [D -> V] /\ step \in [D -> [V -> V]]

Solves(f, D, rank, next, base, step) ==
  \A i \in D : f[i] = IF rank[next[i]] < rank[i] THEN step[i][f[next[i]]] ELSE base[i]

\* There is a function that it defines.
LEMMA RecursionExists ==
  ASSUME NEW D, NEW V, NEW max, NEW rank, NEW next, NEW base, NEW step,
         Recursion(D, V, max, rank, next, base, step)
  PROVE  \E f \in [D -> V] : Solves(f, D, rank, next, base, step)
  <1> USE DEF Recursion
  <1> DEFINE Rhs(f, i) == IF rank[next[i]] < rank[i] THEN step[i][f[next[i]]] ELSE base[i]
             Good(n) == \E f \in [D -> V] : \A i \in D : rank[i] <= n => f[i] = Rhs(f, i)
             Bad == {n \in 0 .. max : ~Good(n)}
  <1>1. \A f \in [D -> V] : \A i \in D : Rhs(f, i) \in V
    OBVIOUS
  <1>2. Good(0)
    <2>1. \A i \in D : rank[i] <= 0 => base[i] = Rhs(base, i)
      <3>1. \A i \in D : rank[i] \in Nat /\ rank[next[i]] \in Nat
        BY SMT
      <3>2. QED
        BY <3>1, SMT
    <2>2. QED
      BY <2>1
  <1>3. ASSUME NEW n \in 1 .. max, Good(n - 1) PROVE Good(n)
    <2>1. PICK f \in [D -> V] : \A i \in D : rank[i] <= n - 1 => f[i] = Rhs(f, i)
      BY <1>3
    <2> DEFINE g == [i \in D |-> Rhs(f, i)]
    <2>2. g \in [D -> V]
      BY <1>1
    <2>3. ASSUME NEW i \in D, rank[i] <= n PROVE g[i] = Rhs(g, i)
      <3>1. rank[i] \in 0 .. max /\ next[i] \in D /\ rank[next[i]] \in 0 .. max
        OBVIOUS
      <3>2. rank[next[i]] < rank[i] => rank[next[i]] <= n - 1
        BY <2>3, <3>1, SMT
      <3>3. rank[next[i]] < rank[i] => g[next[i]] = f[next[i]]
        BY <2>1, <3>1, <3>2
      <3>4. QED
        BY <3>3
    <2>4. QED
      BY <2>2, <2>3
  <1> HIDE DEF Good
  <1>4. Bad = {}
    <2>1. SUFFICES ASSUME Bad # {} PROVE FALSE
      OBVIOUS
    <2>2. Bad \in SUBSET Nat
      BY SMT
    <2> HIDE DEF Bad
    <2>3. PICK n \in Bad : \A m \in Bad : n <= m
      BY <2>1, <2>2, LowestNatural
    <2>4. n \in 0 .. max /\ ~Good(n)
      BY DEF Bad
    <2>5. n # 0
      BY <1>2, <2>4
    <2>6. n \in 1 .. max /\ n - 1 \in 0 .. max /\ ~(n <= n - 1)
      BY <2>4, <2>5, SMT
    <2>7. n - 1 \notin Bad
      BY <2>3, <2>6
    <2>8. Good(n - 1)
      BY <2>6, <2>7 DEF Bad
    <2>9. QED
      BY <1>3, <2>4, <2>6, <2>8
  <1>5. Good(max)
    BY <1>4, SMT
  <1>6. PICK f \in [D -> V] : \A i \in D : rank[i] <= max => f[i] = Rhs(f, i)
    BY <1>5 DEF Good
  <1>7. \A i \in D : rank[i] <= max
    BY SMT
  <1>8. QED
    BY <1>6, <1>7 DEF Solves

\* A recursive definition on numbers: the value at i comes from that at i - 1.
Chain(f, k, V, b, step) ==
  f \in [0 .. k -> V] /\ f[0] = b /\ \A i \in 1 .. k : f[i] = step[i][f[i - 1]]

\* There is a function that it defines.
LEMMA RecursionUpTo ==
  ASSUME NEW k \in Nat, NEW V, NEW b \in V, NEW step \in [1 .. k -> [V -> V]]
  PROVE  \E f : Chain(f, k, V, b, step)
  <1> DEFINE D    == 0 .. k
             rank == [i \in D |-> i]
             next == [i \in D |-> IF i = 0 THEN 0 ELSE i - 1]
             base == [i \in D |-> b]
             all  == [i \in D |-> IF i = 0 THEN [v \in V |-> b] ELSE step[i]]
  <1>1. rank \in [D -> 0 .. k] /\ next \in [D -> D] /\ base \in [D -> V]
    BY SMT
  <1>2. all \in [D -> [V -> V]]
    <2>1. ASSUME NEW i \in D, i # 0 PROVE step[i] \in [V -> V]
      <3>1. i \in 1 .. k
        BY <2>1, SMT
      <3>2. QED
        BY <3>1
    <2>2. [v \in V |-> b] \in [V -> V]
      OBVIOUS
    <2> HIDE DEF D
    <2>3. QED
      BY <2>1, <2>2
  <1>3. PICK f \in [D -> V] : Solves(f, D, rank, next, base, all)
    <2>1. Recursion(D, V, k, rank, next, base, all)
      BY <1>1, <1>2 DEF Recursion
    <2> HIDE DEF D, rank, next, base, all
    <2>2. QED
      BY <2>1, RecursionExists
  <1>4. f[0] = b
    <2>1. 0 \in D
      BY SMT
    <2>2. next[0] = 0 /\ base[0] = b /\ rank[0] = 0
      BY <2>1
    <2>3. QED
      BY <1>3, <2>1, <2>2 DEF Solves
  <1>5. ASSUME NEW i \in 1 .. k PROVE f[i] = step[i][f[i - 1]]
    <2>1. i \in D /\ i # 0 /\ i - 1 \in D /\ i - 1 < i
      BY SMT
    <2>2. next[i] = i - 1 /\ rank[i] = i /\ rank[i - 1] = i - 1 /\ all[i] = step[i]
      BY <2>1
    <2>3. QED
      BY <1>3, <2>1, <2>2 DEF Solves
  <1>6. f \in [0 .. k -> V]
    BY <1>3
  <1>7. Chain(f, k, V, b, step)
    BY <1>4, <1>5, <1>6 DEF Chain
  <1>8. QED
    BY <1>7

\* Quotient and remainder.
LEMMA DivisionFacts ==
  ASSUME NEW n \in Nat, NEW d \in Nat, d > 0
  PROVE  n \div d \in Nat /\ n % d \in 0 .. (d - 1) /\ n = d * (n \div d) + (n % d)
  <1> DEFINE q == n \div d
             r == n % d
  <1>1. q \in Int /\ r \in 0 .. (d - 1) /\ n = d * q + r
    OBVIOUS
  <1> HIDE DEF q, r
  <1>2. q <= -1 => d * q <= -d
    BY <1>1, SMT
  <1>3. q \in Nat
    BY <1>1, <1>2, SMT
  <1>4. QED
    BY <1>1, <1>3 DEF q, r

\* What n % d is for a positive divisor: the remainder of the division, n
\* itself below d, and never so large that n - n % d falls below d above it.
LEMMA ModFacts ==
  ASSUME NEW n \in Nat, NEW d \in Nat, d > 0
  PROVE  /\ n % d \in 0 .. (d - 1)
         /\ n < d => n % d = n
         /\ n >= d => n - (n % d) >= d
         /\ n >= d /\ n < 2 * d => n % d = n - d
  <1> DEFINE q == n \div d
             r == n % d
  <1>1. q \in Nat /\ r \in 0 .. (d - 1) /\ n = d * q + r
    OBVIOUS
  <1> HIDE DEF q, r
  <1>2. q = 0 => n = r
    BY <1>1, SMT
  <1>3. q >= 1 => d * q >= d
    BY <1>1, SMT
  <1>4. q >= 2 => d * q >= 2 * d
    BY <1>1, SMT
  <1>5. q = 1 => d * q = d
    BY <1>1, SMT
  <1>6. /\ r \in 0 .. (d - 1)
        /\ n < d => r = n
        /\ n >= d => n - r >= d
        /\ n >= d /\ n < 2 * d => r = n - d
    BY <1>1, <1>2, <1>3, <1>4, <1>5, SMT
  <1>7. QED
    BY <1>6 DEF r

\* The same for any integer that is less than one or two divisors away from 0.
LEMMA ModNear ==
  ASSUME NEW n \in Int, NEW d \in Nat, d > 0
  PROVE  /\ n % d \in 0 .. (d - 1)
         /\ n >= 0 /\ n < d => n % d = n
         /\ n < 0 /\ n >= -d => n % d = n + d
  <1> DEFINE q == n \div d
             r == n % d
  <1>1. q \in Int /\ r \in 0 .. (d - 1) /\ n = d * q + r
    OBVIOUS
  <1> HIDE DEF q, r
  <1>2. q >= 1 => d * q >= d
    BY <1>1, SMT
  <1>3. q <= -2 => d * q <= -(2 * d)
    BY <1>1, SMT
  <1>4. /\ q = 0 => d * q = 0
        /\ q = -1 => d * q = -d
        /\ q <= -1 => d * q <= -d
    BY <1>1, SMT
  <1>5. /\ r \in 0 .. (d - 1)
        /\ n >= 0 /\ n < d => r = n
        /\ n < 0 /\ n >= -d => r = n + d
    BY <1>1, <1>2, <1>3, <1>4, SMT
  <1>6. QED
    BY <1>5 DEF r

\* A multiple of the divisor leaves nothing.
LEMMA ModMultiple ==
  ASSUME NEW q \in Int, NEW d \in Nat, d > 0
  PROVE  (d * q) % d = 0
  <1> DEFINE n == d * q
             p == n \div d
             r == n % d
  <1>1. n \in Int
    BY SMT
  <1>2. p \in Int /\ r \in 0 .. (d - 1) /\ n = d * p + r
    BY <1>1
  <1> HIDE DEF p, r
  <1>3. d * q = d * p + r
    BY <1>2
  <1>4. q - p >= 1 => d * (q - p) >= d
    BY <1>2, SMT
  <1>5. q - p <= -1 => d * (q - p) <= -d
    BY <1>2, SMT
  <1>6. d * (q - p) = r
    BY <1>2, <1>3, SMT
  <1>7. q - p = 0
    BY <1>2, <1>4, <1>5, <1>6, SMT
  <1>8. r = 0
    BY <1>2, <1>3, <1>7, SMT
  <1>9. QED
    BY <1>8 DEF r

\* A number and its remainder differ by a multiple of the divisor.
LEMMA ModDifference ==
  ASSUME NEW n \in Int, NEW d \in Nat, d > 0
  PROVE  (n - (n % d)) % d = 0
  <1> DEFINE q == n \div d
             r == n % d
  <1>1. q \in Int /\ r \in 0 .. (d - 1) /\ n = d * q + r
    OBVIOUS
  <1> HIDE DEF q, r
  <1>2. n - r = d * q
    BY <1>1, SMT
  <1>3. (d * q) % d = 0
    BY <1>1, ModMultiple
  <1>4. QED
    BY <1>2, <1>3 DEF r

\* A multiple of the divisor less makes no difference.
LEMMA ModShift ==
  ASSUME NEW d \in Nat, d > 0, NEW n \in 0 .. (d - 1), NEW k \in Int
  PROVE  (n - d * k) % d = n
  <1> DEFINE m == n - d * k
             q == m \div d
             r == m % d
  <1>1. m \in Int
    BY SMT
  <1>2. q \in Int /\ r \in 0 .. (d - 1) /\ m = d * q + r
    BY <1>1
  <1> HIDE DEF q, r
  <1>3. d * (q + k) = n - r
    BY <1>2, SMT
  <1>4. /\ q + k >= 1 => d * (q + k) >= d
        /\ q + k <= -1 => d * (q + k) <= -d
        /\ q + k = 0 => d * (q + k) = 0
    BY <1>2, SMT
  <1>5. r = n
    BY <1>2, <1>3, <1>4, SMT
  <1>6. QED
    BY <1>5 DEF r

LEMMA NegativeTwice == \A n \in Int : -(-n) = n
  BY SMT

\* What takes the steps of a recursive definition is the function that it defines.
LEMMA ChainByStep ==
  ASSUME NEW k \in Nat, NEW V, NEW b \in V, NEW step \in [1 .. k -> [V -> V]], NEW f,
         f = [i \in 0 .. k |-> f[i]], f[0] = b,
         \A i \in 1 .. k : f[i - 1] \in V => f[i] = step[i][f[i - 1]]
  PROVE  Chain(f, k, V, b, step)
  <1> DEFINE B == {i \in 0 .. k : f[i] \in V}
  <1>1. 0 \in B
    BY SMT
  <1>2. ASSUME NEW i \in 1 .. k, i - 1 \in B PROVE i \in B
    <2>1. f[i - 1] \in V /\ i \in 0 .. k
      BY <1>2, SMT
    <2>2. f[i] = step[i][f[i - 1]] /\ step[i] \in [V -> V]
      BY <2>1
    <2>3. QED
      BY <2>1, <2>2
  <1>3. \A i \in 0 .. k : f[i] \in V
    <2>1. 0 .. k \subseteq B
      <3> HIDE DEF B
      <3>1. QED
        BY <1>1, <1>2, InductionUpTo
    <2>2. QED
      BY <2>1
  <1>4. f \in [0 .. k -> V]
    BY <1>3, Zenon
  <1>5. ASSUME NEW i \in 1 .. k PROVE f[i] = step[i][f[i - 1]]
    <2>1. i - 1 \in 0 .. k
      BY SMT
    <2>2. QED
      BY <1>3, <2>1
  <1>6. QED
    BY <1>4, <1>5 DEF Chain

\* Two recursive definitions with the same first steps agree on these.
SameSteps(f, g, k) == f[0] = g[0] /\ \A i \in 1 .. k : f[i - 1] = g[i - 1] => f[i] = g[i]

LEMMA ChainsAgree ==
  ASSUME NEW k \in Nat, NEW f, NEW g, SameSteps(f, g, k)
  PROVE  \A i \in 0 .. k : f[i] = g[i]
  <1> DEFINE B == {i \in 0 .. k : f[i] = g[i]}
  <1>1. 0 \in B
    BY SMT DEF SameSteps
  <1>2. ASSUME NEW i \in 1 .. k, i - 1 \in B PROVE i \in B
    <2>1. f[i - 1] = g[i - 1] /\ i \in 0 .. k
      BY <1>2, SMT
    <2>2. QED
      BY <2>1 DEF SameSteps
  <1>3. 0 .. k \subseteq B
    <2> HIDE DEF B
    <2>1. QED
      BY <1>1, <1>2, InductionUpTo
  <1>4. QED
    BY <1>3

\* A number that is a multiple and something below the divisor is divided into these.
LEMMA ModUnique ==
  ASSUME NEW d \in Nat, d > 0, NEW r \in 0 .. (d - 1), NEW k \in Int
  PROVE  (d * k + r) % d = r /\ (d * k + r) \div d = k
  <1> DEFINE n == d * k + r
             q == n \div d
             m == n % d
  <1>1. n \in Int
    BY SMT
  <1>2. q \in Int /\ m \in 0 .. (d - 1) /\ n = d * q + m
    BY <1>1
  <1> HIDE DEF q, m
  <1>3. d * (q - k) = r - m
    BY <1>2, SMT
  <1>4. /\ q - k >= 1 => d * (q - k) >= d
        /\ q - k <= -1 => d * (q - k) <= -d
        /\ q - k = 0 => d * (q - k) = 0
    BY <1>2, SMT
  <1>5. m = r /\ q = k
    BY <1>2, <1>3, <1>4, SMT
  <1>6. QED
    BY <1>5 DEF q, m

\* Numbers that differ by a multiple of the divisor have the same remainder.
LEMMA ModSame ==
  ASSUME NEW d \in Nat, d > 0, NEW a \in Int, NEW k \in Int
  PROVE  (a + d * k) % d = a % d
  <1> DEFINE q == a \div d
             r == a % d
  <1>1. q \in Int /\ r \in 0 .. (d - 1) /\ a = d * q + r
    OBVIOUS
  <1> HIDE DEF q, r
  <1>2. q + k \in Int /\ a + d * k = d * (q + k) + r
    BY <1>1, SMT
  <1>3. (d * (q + k) + r) % d = r
    BY <1>1, <1>2, ModUnique
  <1>4. QED
    BY <1>2, <1>3 DEF r

\* The remainder may be taken before a number is used: in a sum with a multiple of it,
\* in its negative, and for a divisor of the divisor.
LEMMA ModBefore ==
  ASSUME NEW d \in Nat, d > 0, NEW v \in Int
  PROVE  /\ \A b, c \in Int : ((v % d) * b + c) % d = (v * b + c) % d
         /\ (-(v % d)) % d = (-v) % d
         /\ \A e \in Nat : e > 0 /\ d % e = 0 => (v % d) % e = v % e /\ (-(v % d)) % e = (-v) % e
  <1> DEFINE q == v \div d
             r == v % d
  <1>1. q \in Int /\ r \in 0 .. (d - 1) /\ v = d * q + r
    OBVIOUS
  <1> HIDE DEF q, r
  <1>2. ASSUME NEW b \in Int, NEW c \in Int PROVE (r * b + c) % d = (v * b + c) % d
    <2>1. r * b + c \in Int /\ q * b \in Int
      BY <1>1, SMT
    <2>2. (d * q) * b = d * (q * b)
      BY <1>1, SMT
    <2>3. v * b + c = (r * b + c) + d * (q * b)
      BY <1>1, <2>2, SMT
    <2>4. ((r * b + c) + d * (q * b)) % d = (r * b + c) % d
      BY <2>1, ModSame
    <2>5. QED
      BY <2>3, <2>4
  <1>3. (-r) % d = (-v) % d
    <2>1. -v \in Int /\ -r = -v + d * q
      BY <1>1, SMT
    <2>2. (-v + d * q) % d = (-v) % d
      BY <1>1, <2>1, ModSame
    <2>3. QED
      BY <2>1, <2>2
  <1>4. ASSUME NEW e \in Nat, e > 0, d % e = 0
        PROVE  r % e = v % e /\ (-r) % e = (-v) % e
    <2> DEFINE m == d \div e
    <2>1. m \in Int /\ d = e * m + (d % e)
      BY <1>4
    <2> HIDE DEF m
    <2>2. m \in Int /\ d = e * m
      BY <1>4, <2>1
    <2> DEFINE p == m * q
    <2>3. d * q = e * p /\ p \in Int
      BY <1>1, <2>2, SMT
    <2> HIDE DEF p
    <2>4. r \in Int /\ -v \in Int /\ v = r + e * p /\ -r = -v + e * p
      BY <1>1, <2>3, SMT
    <2>5. (r + e * p) % e = r % e
      BY <1>4, <2>3, <2>4, ModSame
    <2>6. (-v + e * p) % e = (-v) % e
      BY <1>4, <2>3, <2>4, ModSame
    <2>7. QED
      BY <2>4, <2>5, <2>6
  <1>5. QED
    BY <1>2, <1>3, <1>4 DEF r
=============================================================================
