---------------------------- MODULE NumbersProofs ----------------------------
(* Proofs about Numbers and Scanf, for integers of any widths, all of their    *)
(* values, any strings and bases, any format that printf() and sscanf() share, *)
(* and any other format and text: from digits and numerals to the loops that   *)
(* write and read them, and on to the walk of sscanf() through a text of printf(). *)
EXTENDS Scanf, Arithmetic, SequenceTheorems, TLAPS

-----------------------------------------------------------------------------
(* Characters.                                                             *)

\* Characters that are no space and no letter, and those of numerals.
Sign   == {"%", "-", "+", End}
Digits == {"0", "1", "2", "3", "4", "5", "6", "7", "8", "9"}
Small  == {"a", "b", "c", "d", "e", "f", "g", "h", "i", "j", "k", "l", "m", "n", "o", "p", "q",
           "r", "s", "t", "u", "v", "w", "x", "y", "z"}
Large  == {"A", "B", "C", "D", "E", "F", "G", "H", "I", "J", "K", "L", "M", "N", "O", "P", "Q",
           "R", "S", "T", "U", "V", "W", "X", "Y", "Z"}

\* No space is one of them.
LEMMA SpacesAreNone ==
  ASSUME NEW ch, IsSpace(ch)
  PROVE  ch \notin Sign \cup Digits \cup Small \cup Large
  <1>1. " " \notin Sign
    BY Zenon DEF Sign, End
  <1>2. " " \notin Digits
    BY Zenon DEF Digits
  <1>3. " " \notin Small
    BY ZenonT(60) DEF Small
  <1>4. " " \notin Large
    BY ZenonT(60) DEF Large
  <1>5. ASSUME ch \in {"\t", "\n", "vt", "\f", "\r"}
        PROVE  ch \notin Sign \cup Digits \cup Small \cup Large
    BY <1>5, SMT DEF Sign, Digits, Small, Large, End
  <1>6. ch = " " \/ ch \in {"\t", "\n", "vt", "\f", "\r"}
    BY Zenon DEF IsSpace
  <1>7. QED
    BY <1>1, <1>2, <1>3, <1>4, <1>5, <1>6, Zenon

\* The numerals are different characters, and letters and digits.
LEMMA NumeralsDiffer ==
  /\ \A i, j \in 1 .. 36 : Numeral[i] = Numeral[j] => i = j
  /\ \A i \in 1 .. 36 : Numeral[i] \in Digits \cup Small
  /\ \A i \in 1 .. 26 : Capital[i] \in Large
  <1>1. \A i, j \in 1 .. 36 : Numeral[i] = Numeral[j] => i = j
    BY SMTT(60) DEF Numeral
  <1>2. \A i \in 1 .. 36 : Numeral[i] \in Digits \cup Small
    BY SMTT(60) DEF Numeral, Digits, Small
  <1>3. \A i \in 1 .. 26 : Capital[i] \in Large
    BY SMTT(60) DEF Capital, Large
  <1>4. QED
    BY <1>1, <1>2, <1>3

\* A character has a value: as a digit, or 36.
LEMMA ValueRange ==
  ASSUME NEW ch
  PROVE  Value(ch) \in 0 .. 36
  <1> DEFINE i == CHOOSE k \in 1 .. 36 : Numeral[k] = ch
             j == CHOOSE k \in 1 .. 26 : Capital[k] = ch
  <1>1. (\E k \in 1 .. 36 : Numeral[k] = ch) => i \in 1 .. 36
    OBVIOUS
  <1>2. (\E k \in 1 .. 26 : Capital[k] = ch) => j \in 1 .. 26
    OBVIOUS
  <1>3. Value(ch) = IF \E k \in 1 .. 36 : Numeral[k] = ch THEN i - 1
                    ELSE IF \E k \in 1 .. 26 : Capital[k] = ch THEN j + 9 ELSE 36
    BY DEF Value
  <1> HIDE DEF i, j
  <1>4. QED
    BY <1>1, <1>2, <1>3, SMT

\* The value of a digit.
LEMMA ValueOfNumeral ==
  ASSUME NEW k \in 1 .. 36
  PROVE  Value(Numeral[k]) = k - 1
  <1> DEFINE i == CHOOSE j \in 1 .. 36 : Numeral[j] = Numeral[k]
  <1>1. i \in 1 .. 36 /\ Numeral[i] = Numeral[k]
    OBVIOUS
  <1>2. i = k
    BY <1>1, NumeralsDiffer
  <1>3. Value(Numeral[k]) = i - 1
    BY DEF Value
  <1>4. QED
    BY <1>2, <1>3

\* What is neither a digit nor a letter has no value.
LEMMA NoValue ==
  ASSUME NEW ch, ch \in Sign \/ IsSpace(ch)
  PROVE  Value(ch) = 36
  <1>1. ch \notin Digits \cup Small \cup Large
    <2>1. CASE ch \in Sign
      BY <2>1, SMT DEF Sign, Digits, Small, Large, End
    <2>2. CASE IsSpace(ch)
      BY <2>2, SpacesAreNone
    <2>3. QED
      BY <2>1, <2>2
  <1>2. ~\E k \in 1 .. 36 : Numeral[k] = ch
    BY <1>1, NumeralsDiffer
  <1>3. ~\E k \in 1 .. 26 : Capital[k] = ch
    BY <1>1, NumeralsDiffer
  <1>4. QED
    BY <1>2, <1>3 DEF Value

-----------------------------------------------------------------------------
(* Powers, and the widths of the types.                                    *)

\* Powers as the steps of their definition make them.
LEMMA PowerFacts ==
  ASSUME NEW base \in Nat
  PROVE  /\ Power(base, 0) = 1
         /\ \A p \in Nat : Power(base, p) \in Nat
         /\ \A p \in Nat : Power(base, p + 1) = base * Power(base, p)
  <1> DEFINE Rhs(h, i) == IF i = 0 THEN 1 ELSE base * h[i - 1]
             G(p) == CHOOSE h : h = [i \in 0 .. p |-> Rhs(h, i)]
             Step(p) == [i \in 1 .. p |-> [v \in Nat |-> base * v]]
  <1>1. ASSUME NEW p \in Nat PROVE Chain(G(p), p, Nat, 1, Step(p))
    <2> DEFINE step == Step(p)
    <2>1. step \in [1 .. p -> [Nat -> Nat]]
      BY SMT
    <2>2. PICK f : Chain(f, p, Nat, 1, step)
      <3> HIDE DEF step
      <3>1. QED
        BY <2>1, RecursionUpTo
    <2>3. f = [i \in 0 .. p |-> Rhs(f, i)]
      <3>1. f \in [0 .. p -> Nat]
        BY <2>2 DEF Chain
      <3>2. ASSUME NEW i \in 0 .. p PROVE f[i] = Rhs(f, i)
        <4>1. CASE i = 0
          BY <2>2, <4>1 DEF Chain
        <4>2. CASE i # 0
          <5>1. i \in 1 .. p /\ i - 1 \in 0 .. p
            BY <4>2, SMT
          <5>2. f[i] = step[i][f[i - 1]] /\ f[i - 1] \in Nat
            BY <2>2, <5>1 DEF Chain
          <5>3. QED
            BY <4>2, <5>1, <5>2
        <4>3. QED
          BY <4>1, <4>2
      <3>3. QED
        BY <3>1, <3>2
    <2> DEFINE g == G(p)
    <2>4. g = [i \in 0 .. p |-> Rhs(g, i)]
      BY <2>3
    <2> HIDE DEF g
    <2>5. g = [i \in 0 .. p |-> g[i]]
      BY <2>4
    <2>6. g[0] = 1
      BY <2>4, SMT
    <2>7. ASSUME NEW i \in 1 .. p, g[i - 1] \in Nat PROVE g[i] = step[i][g[i - 1]]
      <3>1. i \in 0 .. p /\ i # 0
        BY SMT
      <3>2. g[i] = base * g[i - 1]
        BY <2>4, <3>1
      <3>3. QED
        BY <2>7, <3>2
    <2>8. Chain(g, p, Nat, 1, step)
      <3> HIDE DEF step
      <3>1. QED
        BY <2>1, <2>5, <2>6, <2>7, ChainByStep
    <2>9. QED
      BY <2>8 DEF g
  <1>2. ASSUME NEW p \in Nat PROVE Power(base, p) = G(p)[p]
    BY DEF Power
  <1> HIDE DEF G
  <1>3. ASSUME NEW p \in Nat
        PROVE  /\ G(p)[0] = 1
               /\ \A i \in 0 .. p : G(p)[i] \in Nat
               /\ \A i \in 1 .. p : G(p)[i] = base * G(p)[i - 1]
    <2>1. \A i \in 0 .. p : G(p)[i] \in Nat
      BY <1>1 DEF Chain
    <2>2. ASSUME NEW i \in 1 .. p PROVE G(p)[i] = base * G(p)[i - 1]
      <3>1. i - 1 \in 0 .. p
        BY SMT
      <3>2. G(p)[i] = Step(p)[i][G(p)[i - 1]]
        BY <1>1 DEF Chain
      <3>3. QED
        BY <2>1, <3>1, <3>2
    <2>3. QED
      BY <1>1, <2>1, <2>2 DEF Chain
  <1>4. Power(base, 0) = 1
    BY <1>2, <1>3
  <1>5. \A p \in Nat : Power(base, p) \in Nat
    BY <1>2, <1>3
  <1>6. ASSUME NEW p \in Nat PROVE Power(base, p + 1) = base * Power(base, p)
    <2> DEFINE f == G(p)
               g == G(p + 1)
    <2>1. p + 1 \in Nat /\ p \in 0 .. (p + 1) /\ p + 1 \in 1 .. (p + 1) /\ (p + 1) - 1 = p
          /\ \A i \in 1 .. p : i \in 1 .. (p + 1)
      BY SMT
    <2>2. f[0] = g[0] /\ \A i \in 1 .. p : f[i - 1] = g[i - 1] => f[i] = g[i]
      BY <1>3, <2>1
    <2>3. g[p + 1] = base * g[p]
      BY <1>3, <2>1
    <2> HIDE DEF f, g
    <2>4. f[p] = g[p]
      <3>1. \A i \in 0 .. p : f[i] = g[i]
        <4>1. SameSteps(f, g, p)
          BY <2>2 DEF SameSteps
        <4>2. QED
          BY <4>1, ChainsAgree
      <3>2. QED
        BY <3>1, SMT
    <2>5. QED
      BY <1>2, <2>1, <2>3, <2>4 DEF f, g
  <1>7. QED
    BY <1>4, <1>5, <1>6

\* The power of a base from two on grows with each factor, and is above the exponent.
LEMMA PowerGrows ==
  ASSUME NEW base \in Nat, base >= 2
  PROVE  \A p \in Nat : Power(base, p) >= p + 1
  <1> DEFINE B == {p \in Nat : Power(base, p) >= p + 1}
  <1>1. 0 \in B
    BY PowerFacts, SMT
  <1>2. ASSUME NEW p \in Nat, p \in B PROVE p + 1 \in B
    <2> DEFINE q == Power(base, p)
    <2>1. q \in Nat /\ q >= p + 1 /\ Power(base, p + 1) = base * q
      BY <1>2, PowerFacts
    <2> HIDE DEF q
    <2>2. base * q >= 2 * q
      BY <2>1, SMT
    <2>3. base * q >= (p + 1) + 1
      BY <2>1, <2>2, SMT
    <2>4. QED
      BY <2>1, <2>3
  <1>3. ASSUME NEW p \in Nat PROVE p \in B
    <2>1. \A i \in 1 .. p : i - 1 \in B => i \in B
      <3>1. ASSUME NEW i \in 1 .. p, i - 1 \in B PROVE i \in B
        <4>1. i - 1 \in Nat /\ (i - 1) + 1 = i
          BY SMT
        <4>2. QED
          BY <1>2, <3>1, <4>1
      <3>2. QED
        BY <3>1
    <2> HIDE DEF B
    <2>2. 0 .. p \subseteq B
      BY <1>1, <2>1, InductionUpTo
    <2>3. QED
      BY <2>2, SMT
  <1>4. QED
    BY <1>3

\* The types have an even number of values, and that of long long is a multiple.
LEMMA ModulusFacts ==
  ASSUME NEW t \in IntType
  PROVE  /\ Modulus[t] \in Nat /\ Modulus[t] >= 2
         /\ Modulus[t] \div 2 \in Nat /\ Modulus[t] = 2 * (Modulus[t] \div 2)
         /\ "llong" \in IntType /\ Modulus["llong"] \in Nat
         /\ Modulus["llong"] % Modulus[t] = 0 /\ Modulus[t] <= Modulus["llong"]
  <1> DEFINE m == Modulus[t]
             w == Modulus["llong"]
  <1>1. m \in Nat /\ m > 0 /\ m % 2 = 0 /\ w \in Nat /\ w > 0 /\ w % m = 0
    BY NumbersAssumption DEF NumbersAssumption, IntType
  <1> HIDE DEF m, w
  <1>2. m >= 2 /\ m \div 2 \in Nat /\ m = 2 * (m \div 2)
    BY <1>1, SMT
  <1>3. m <= w
    BY <1>1, ModFacts
  <1>4. QED
    BY <1>1, <1>2, <1>3 DEF m, w, IntType

\* The largest number of a type has a first digit.
LEMMA HighestDigitFacts ==
  ASSUME NEW t \in IntType, NEW base \in Nat, base >= 2
  PROVE  LET p == HighestDigit(t, base)
         IN  p \in Nat /\ Power(base, p) < Modulus[t] /\ Modulus[t] <= Power(base, p + 1)
  <1> DEFINE m == Modulus[t]
             S == {p \in Nat : Power(base, p + 1) >= m}
             P(p) == Power(base, p) < m /\ Power(base, p + 1) >= m
  <1>1. m \in Nat /\ m >= 2
    BY ModulusFacts
  <1>2. m \in S
    <2>1. m + 1 \in Nat /\ (m + 1) + 1 >= m
      BY <1>1, SMT
    <2>2. Power(base, m + 1) >= (m + 1) + 1 /\ Power(base, m + 1) \in Nat
      BY <2>1, PowerGrows, PowerFacts
    <2> HIDE DEF m
    <2>3. Power(base, m + 1) >= m
      BY <1>1, <2>1, <2>2, SMT
    <2>4. QED
      BY <1>1, <2>3
  <1>3. PICK p \in S : \A q \in S : p <= q
    <2>1. S \in SUBSET Nat /\ S # {}
      BY <1>2
    <2> HIDE DEF S
    <2>2. QED
      BY <2>1, LowestNatural
  <1>4. p \in 0 .. m /\ P(p)
    <2>1. p \in Nat /\ p <= m
      BY <1>2, <1>3
    <2>2. CASE p = 0
      <3>1. Power(base, p) = 1
        BY <2>2, PowerFacts
      <3>2. QED
        BY <1>1, <1>3, <2>1, <3>1, SMT
    <2>3. CASE p # 0
      <3>1. p - 1 \in Nat /\ (p - 1) + 1 = p /\ ~(p <= p - 1)
        BY <2>1, <2>3, SMT
      <3>2. p - 1 \notin S
        BY <1>3, <3>1
      <3>3. ~(Power(base, p) >= m) /\ Power(base, p) \in Nat
        BY <2>1, <3>1, <3>2, PowerFacts
      <3>4. Power(base, p + 1) >= m
        BY <1>3
      <3>5. QED
        BY <1>1, <2>1, <3>3, <3>4, SMT
    <2>4. QED
      BY <2>2, <2>3
  <1> DEFINE h == HighestDigit(t, base)
  <1>5. h = CHOOSE q \in 0 .. m : P(q)
    BY DEF HighestDigit
  <1> HIDE DEF P, h
  <1>6. h \in 0 .. m /\ P(h)
    BY <1>4, <1>5
  <1>7. h \in Nat
    BY <1>1, <1>6, SMT
  <1>8. Power(base, h + 1) \in Nat
    <2>1. h + 1 \in Nat
      BY <1>7, SMT
    <2>2. QED
      BY <2>1, PowerFacts
  <1>9. m <= Power(base, h + 1) /\ Power(base, h) < m
    BY <1>1, <1>6, <1>8, SMT DEF P
  <1>10. QED
    BY <1>7, <1>9 DEF h

-----------------------------------------------------------------------------
(* The number that digits stand for.                                       *)

\* The numbers of the beginnings of a string, one behind the other.
Beginnings(f, s, base) ==
  /\ f \in [0 .. Len(s) -> Nat] /\ f[0] = 0
  /\ \A i \in 1 .. Len(s) : f[i] = base * f[i - 1] + Value(s[i])

\* NumberOf() takes a digit more by the place value.
LEMMA NumberOfIsLast ==
  ASSUME NEW s, Len(s) \in Nat, NEW base \in Nat
  PROVE  \E f : Beginnings(f, s, base) /\ NumberOf(s, base) = f[Len(s)]
  <1> DEFINE k == Len(s)
             Rhs(h, i) == IF i = 0 THEN 0 ELSE base * h[i - 1] + Value(s[i])
             g == CHOOSE h : h = [i \in 0 .. k |-> Rhs(h, i)]
             step == [i \in 1 .. k |-> [v \in Nat |-> base * v + Value(s[i])]]
  <1>1. step \in [1 .. k -> [Nat -> Nat]]
    <2>1. ASSUME NEW i \in 1 .. k, NEW v \in Nat PROVE base * v + Value(s[i]) \in Nat
      <3> DEFINE d == Value(s[i])
      <3>1. d \in 0 .. 36
        BY ValueRange
      <3> HIDE DEF d
      <3>2. base * v + d \in Nat
        BY <3>1, SMT
      <3>3. QED
        BY <3>2 DEF d
    <2> HIDE DEF k
    <2>2. QED
      BY <2>1
  <1>2. k \in Nat
    OBVIOUS
  <1> HIDE DEF k
  <1>3. PICK f : Chain(f, k, Nat, 0, step)
    <2> HIDE DEF step
    <2>1. QED
      BY <1>1, <1>2, RecursionUpTo
  <1>4. f = [i \in 0 .. k |-> Rhs(f, i)]
    <2>1. f \in [0 .. k -> Nat]
      BY <1>3 DEF Chain
    <2>2. ASSUME NEW i \in 0 .. k PROVE f[i] = Rhs(f, i)
      <3>1. CASE i = 0
        BY <1>3, <3>1 DEF Chain
      <3>2. CASE i # 0
        <4>1. i \in 1 .. k /\ i - 1 \in 0 .. k
          BY <1>2, <3>2, SMT
        <4>2. f[i] = step[i][f[i - 1]] /\ f[i - 1] \in Nat
          BY <1>3, <4>1 DEF Chain
        <4>3. QED
          BY <3>2, <4>1, <4>2
      <3>3. QED
        BY <3>1, <3>2
    <2>3. QED
      BY <2>1, <2>2
  <1>5. g = [i \in 0 .. k |-> Rhs(g, i)]
    BY <1>4
  <1>6. NumberOf(s, base) = g[k]
    BY DEF NumberOf, k
  <1> HIDE DEF g
  <1>7. g = [i \in 0 .. k |-> g[i]]
    BY <1>5
  <1>8. g[0] = 0
    BY <1>2, <1>5, SMT
  <1>9. ASSUME NEW i \in 1 .. k PROVE g[i] = base * g[i - 1] + Value(s[i])
    <2>1. i \in 0 .. k /\ i # 0
      BY <1>2, SMT
    <2>2. QED
      BY <1>5, <2>1
  <1>10. Chain(g, k, Nat, 0, step)
    <2>1. \A i \in 1 .. k : g[i - 1] \in Nat => g[i] = step[i][g[i - 1]]
      BY <1>9
    <2> HIDE DEF step
    <2>2. QED
      BY <1>1, <1>2, <1>7, <1>8, <2>1, ChainByStep
  <1>11. Beginnings(g, s, base)
    BY <1>8, <1>9, <1>10 DEF Beginnings, Chain, k
  <1>12. QED
    BY <1>6, <1>11 DEF k

\* Strings that begin alike have the same numbers there.
LEMMA BeginningsAgree ==
  ASSUME NEW s, NEW u, Len(s) \in Nat, Len(u) \in Nat, NEW base \in Nat, NEW f, NEW g,
         Beginnings(f, s, base), Beginnings(g, u, base),
         NEW k \in Nat, k <= Len(s), k <= Len(u), \A i \in 1 .. k : s[i] = u[i]
  PROVE  \A i \in 0 .. k : f[i] = g[i]
  <1>1. f[0] = g[0]
    BY DEF Beginnings
  <1>2. ASSUME NEW i \in 1 .. k, f[i - 1] = g[i - 1] PROVE f[i] = g[i]
    <2>1. i \in 1 .. Len(s) /\ i \in 1 .. Len(u)
      BY SMT
    <2>2. f[i] = base * f[i - 1] + Value(s[i]) /\ g[i] = base * g[i - 1] + Value(u[i])
      BY <2>1 DEF Beginnings
    <2>3. QED
      BY <1>2, <2>2
  <1>3. \A i \in 1 .. k : f[i - 1] = g[i - 1] => f[i] = g[i]
    BY <1>2
  <1>4. QED
    <2>1. SameSteps(f, g, k)
      BY <1>1, <1>3 DEF SameSteps
    <2>2. QED
      BY <2>1, ChainsAgree

\* The number of each beginning of a string.
LEMMA NumberOfBeginnings ==
  ASSUME NEW X, NEW s \in Seq(X), NEW base \in Nat, NEW f, Beginnings(f, s, base)
  PROVE  /\ NumberOf(s, base) = f[Len(s)]
         /\ \A k \in 0 .. Len(s) : NumberOf(SubSeq(s, 1, k), base) = f[k]
  <1>1. Len(s) \in Nat
    BY LenProperties
  <1>2. ASSUME NEW u, Len(u) \in Nat, Len(u) <= Len(s), \A i \in 1 .. Len(u) : s[i] = u[i]
        PROVE  NumberOf(u, base) = f[Len(u)]
    <2>1. PICK g : Beginnings(g, u, base) /\ NumberOf(u, base) = g[Len(u)]
      BY <1>2, NumberOfIsLast
    <2>2. \A i \in 0 .. Len(u) : f[i] = g[i]
      BY <1>1, <1>2, <2>1, BeginningsAgree
    <2>3. Len(u) \in 0 .. Len(u)
      BY <1>2, SMT
    <2>4. QED
      BY <2>1, <2>2, <2>3
  <1>3. ASSUME NEW k \in 0 .. Len(s) PROVE NumberOf(SubSeq(s, 1, k), base) = f[k]
    <2> DEFINE u == SubSeq(s, 1, k)
    <2>1. Len(u) = k /\ \A i \in 1 .. k : u[i] = s[i]
      <3>1. \A i \in 1 .. k : 1 + i - 1 = i
        BY SMT
      <3>2. 1 \in 1 .. (Len(s) + 1) /\ k \in 0 .. Len(s) /\ k \in Nat
        BY <1>1, SMT
      <3>3. Len(u) = k
        BY <1>1, <3>2, LenProperties, SMT
      <3>4. \A i \in 1 .. k : u[i] = s[i]
        BY <1>1, <3>2, SMT
      <3>5. QED
        BY <3>3, <3>4
    <2>2. k \in Nat /\ k <= Len(s)
      BY <1>1, SMT
    <2> HIDE DEF u
    <2>3. NumberOf(u, base) = f[Len(u)]
      BY <1>2, <2>1, <2>2
    <2>4. QED
      BY <2>1, <2>3 DEF u
  <1>4. NumberOf(s, base) = f[Len(s)]
    <2>1. Len(s) <= Len(s)
      BY <1>1, SMT
    <2>2. QED
      BY <1>1, <1>2, <2>1
  <1>5. QED
    BY <1>3, <1>4

\* A digit more.
LEMMA NumberOfAppend ==
  ASSUME NEW X, NEW s \in Seq(X), NEW c \in X, NEW base \in Nat
  PROVE  /\ NumberOf(s, base) \in Nat
         /\ NumberOf(Append(s, c), base) = base * NumberOf(s, base) + Value(c)
  <1> DEFINE u == Append(s, c)
  <1>1. Len(s) \in Nat /\ Len(u) = Len(s) + 1 /\ u[Len(s) + 1] = c
        /\ \A i \in 1 .. Len(s) : u[i] = s[i]
    OBVIOUS
  <1> HIDE DEF u
  <1>2. Len(u) \in Nat
    BY <1>1
  <1>3. PICK f : Beginnings(f, s, base) /\ NumberOf(s, base) = f[Len(s)]
    BY <1>1, NumberOfIsLast
  <1>4. PICK g : Beginnings(g, u, base) /\ NumberOf(u, base) = g[Len(u)]
    BY <1>2, NumberOfIsLast
  <1>5. \A i \in 0 .. Len(s) : f[i] = g[i]
    <2>1. Len(s) <= Len(s) /\ Len(s) <= Len(u) /\ \A i \in 1 .. Len(s) : s[i] = u[i]
      BY <1>1, SMT
    <2>2. QED
      BY <1>1, <1>2, <1>3, <1>4, <2>1, BeginningsAgree
  <1>6. g[Len(u)] = base * g[Len(s)] + Value(c)
    <2>1. Len(u) \in 1 .. Len(u) /\ Len(u) - 1 = Len(s) /\ u[Len(u)] = c
      BY <1>1, SMT
    <2>2. QED
      BY <1>4, <2>1 DEF Beginnings
  <1>7. Len(s) \in 0 .. Len(s)
    BY <1>1, SMT
  <1>8. f[Len(s)] \in Nat
    BY <1>3, <1>7 DEF Beginnings
  <1>9. QED
    BY <1>3, <1>4, <1>5, <1>6, <1>7, <1>8 DEF u

\* There is no number in an empty string.
LEMMA NumberOfNothing ==
  ASSUME NEW base \in Nat
  PROVE  NumberOf(<<>>, base) = 0
  <1>1. Len(<<>>) = 0
    OBVIOUS
  <1>2. PICK f : Beginnings(f, <<>>, base) /\ NumberOf(<<>>, base) = f[Len(<<>>)]
    BY <1>1, NumberOfIsLast
  <1>3. QED
    BY <1>1, <1>2 DEF Beginnings

-----------------------------------------------------------------------------
(* Writing.                                                                *)

\* The digits of a base.
Symbols(base) == {Numeral[k] : k \in 1 .. base}

\* One turn of the loops that write: the digit of a place, unless it is a zero in front.
DigitStep(s, p, base) ==
  IF s.text # <<>> \/ s.in >= Power(base, p) \/ p = 0
    THEN [in |-> s.in % Power(base, p), text |-> Append(s.text, Numeral[s.in \div Power(base, p) + 1])]
    ELSE s

\* What is written when some places are left: what v is without its last ones, and these
\* are the rest.
Written(s, rem, v, base) ==
  /\ s.in \in Nat /\ s.in < Power(base, rem)
  /\ s.text \in Seq(Symbols(base))
  /\ v = NumberOf(s.text, base) * Power(base, rem) + s.in
  /\ s.text # <<>> => s.text[1] # "0" \/ (rem = 0 /\ Len(s.text) = 1)
  /\ rem = 0 => s.text # <<>>

\* A text that is written: digits, and the numeral of a number.
IsWritten(text, v, base) == text \in Seq(Symbols(base)) /\ IsNumeralOf(text, v, base)

\* The digit of a place.
LEMMA DigitOfPlace ==
  ASSUME NEW base \in 2 .. 36, NEW p \in Nat, NEW n \in Nat, n < Power(base, p + 1)
  PROVE  LET d == n \div Power(base, p)
             r == n % Power(base, p)
         IN  /\ d \in 0 .. (base - 1) /\ r \in Nat /\ r < Power(base, p)
             /\ n = Power(base, p) * d + r
             /\ d = 0 <=> n < Power(base, p)
  <1> DEFINE P == Power(base, p)
             d == n \div P
             r == n % P
  <1>1. base \in Nat /\ base >= 2 /\ base > 0
    BY SMT
  <1>2. P \in Nat /\ Power(base, p + 1) = base * P /\ P >= p + 1
    BY <1>1, PowerFacts, PowerGrows
  <1> HIDE DEF P
  <1>3. P > 0
    BY <1>2, SMT
  <1>4. d \in Nat /\ r \in 0 .. (P - 1) /\ n = P * d + r
    BY <1>2, <1>3, DivisionFacts
  <1> HIDE DEF d, r
  <1>5. d >= base => P * d >= P * base
    BY <1>1, <1>2, <1>3, <1>4, SMT
  <1>6. n < P * base
    BY <1>1, <1>2, SMT
  <1>7. d <= base - 1
    BY <1>1, <1>2, <1>4, <1>5, <1>6, SMT
  <1>8. d >= 1 => P * d >= P
    BY <1>2, <1>3, <1>4, SMT
  <1>9. d = 0 <=> n < P
    BY <1>2, <1>4, <1>8, SMT
  <1>10. QED
    BY <1>1, <1>2, <1>4, <1>7, <1>9, SMT DEF P, d, r

\* "0" is the first of the numerals and only that.
LEMMA ZeroIsFirst == \A k \in 1 .. 36 : Numeral[k] = "0" <=> k = 1
  BY SMTT(60) DEF Numeral

\* "0" is a symbol of every base.
LEMMA ZeroIsSymbol ==
  ASSUME NEW base \in 2 .. 36
  PROVE  "0" \in Symbols(base)
  <1>1. 1 \in 1 .. base /\ 1 \in 1 .. 36
    BY SMT
  <1>2. QED
    BY <1>1, ZeroIsFirst DEF Symbols

\* A turn of the loop keeps what is written.
LEMMA DigitStepKeeps ==
  ASSUME NEW base \in 2 .. 36, NEW p \in Nat, NEW v, NEW s, Written(s, p + 1, v, base)
  PROVE  Written(DigitStep(s, p, base), p, v, base)
  <1> DEFINE P == Power(base, p)
             n == s.in
             d == n \div P
             r == n % P
             N == NumberOf(s.text, base)
             c == Numeral[d + 1]
  <1>1. base \in Nat /\ base >= 2 /\ 1 .. base \subseteq 1 .. 36
    BY SMT
  <1>2. P \in Nat /\ Power(base, p + 1) = base * P
    BY <1>1, PowerFacts
  <1>3. n \in Nat /\ n < Power(base, p + 1)
    BY DEF Written
  <1>4. d \in 0 .. (base - 1) /\ r \in Nat /\ r < P /\ n = P * d + r /\ (d = 0 <=> n < P)
    BY <1>3, DigitOfPlace
  <1>5. s.text \in Seq(Symbols(base)) /\ v = N * (base * P) + n /\ p + 1 # 0
    BY <1>2, SMT DEF Written
  <1>6. s.text # <<>> => s.text[1] # "0"
    BY <1>5 DEF Written
  <1>7. N \in Nat
    <2>1. "0" \in Symbols(base)
      BY ZeroIsSymbol
    <2>2. QED
      BY <1>1, <1>5, <2>1, NumberOfAppend
  <1>8. CASE s.text # <<>> \/ n >= P \/ p = 0
    <2> DEFINE u == Append(s.text, c)
               z == [in |-> r, text |-> u]
    <2>1. DigitStep(s, p, base) = z
      BY <1>8 DEF DigitStep
    <2> HIDE DEF P, n, d, r, N
    <2>2. d + 1 \in 1 .. base /\ d + 1 \in 1 .. 36 /\ (d + 1) - 1 = d
      BY <1>1, <1>4, SMT
    <2>3. c \in Symbols(base) /\ Value(c) = d /\ (c = "0" <=> d + 1 = 1)
      BY <2>2, ValueOfNumeral, ZeroIsFirst DEF Symbols
    <2> HIDE DEF c
    <2>4. u \in Seq(Symbols(base)) /\ u # <<>>
      BY <1>5, <2>3
    <2>5. NumberOf(u, base) = base * N + d
      BY <1>1, <1>5, <2>3, NumberOfAppend DEF N
    <2>6. v = (base * N + d) * P + r
      <3>1. N * (base * P) = (base * N) * P
        BY <1>1, <1>2, <1>7, SMT
      <3>2. base * N \in Nat
        BY <1>1, <1>7, SMT
      <3>3. (base * N + d) * P = (base * N) * P + P * d
        BY <1>2, <1>4, <3>2, SMT
      <3>4. (base * N) * P \in Nat /\ P * d \in Nat
        BY <1>2, <1>4, <3>2, SMT
      <3>5. QED
        BY <1>4, <1>5, <3>1, <3>3, <3>4, SMT
    <2>7. u[1] # "0" \/ (p = 0 /\ Len(u) = 1)
      <3>1. CASE s.text = <<>>
        <4>1. u[1] = c /\ Len(u) = 1
          BY <3>1
        <4>2. CASE p = 0
          BY <4>1, <4>2
        <4>3. CASE p # 0
          <5>1. ~(n < P)
            BY <1>2, <1>3, <1>8, <3>1, <4>3, SMT DEF n
          <5>2. d # 0 /\ d + 1 # 1
            BY <1>4, <5>1, SMT
          <5>3. QED
            BY <2>3, <4>1, <5>2
        <4>4. QED
          BY <4>2, <4>3
      <3>2. CASE s.text # <<>>
        <4>1. u[1] = s.text[1]
          BY <1>5, <3>2
        <4>2. QED
          BY <1>6, <3>2, <4>1
      <3>3. QED
        BY <3>1, <3>2
    <2> HIDE DEF u
    <2>8. Written(z, p, v, base)
      BY <1>4, <2>4, <2>5, <2>6, <2>7 DEF Written, P
    <2>9. QED
      BY <2>1, <2>8
  <1>9. CASE ~(s.text # <<>> \/ n >= P \/ p = 0)
    <2>1. DigitStep(s, p, base) = s
      BY <1>9 DEF DigitStep
    <2>2. s.text = <<>> /\ p # 0
      BY <1>9
    <2>3. n < P
      <3>1. ~(n >= P)
        BY <1>9
      <3> HIDE DEF n, P
      <3>2. QED
        BY <1>2, <1>3, <3>1, SMT
    <2>4. N = 0
      BY <1>1, <2>2, NumberOfNothing
    <2>5. v = N * P + n
      <3> HIDE DEF n, P, N
      <3>1. 0 * (base * P) = 0 /\ 0 * P = 0
        BY <1>1, <1>2, SMT
      <3>2. QED
        BY <1>5, <2>4, <3>1
    <2>6. QED
      BY <1>3, <1>5, <2>1, <2>2, <2>3, <2>5 DEF Written
  <1>10. QED
    BY <1>8, <1>9

\* All turns of the loop write the numeral.
LEMMA LoopWrites ==
  ASSUME NEW base \in 2 .. 36, NEW k \in Nat, NEW v \in Nat, v < Power(base, k), k > 0, NEW g,
         g[0] = [in |-> v, text |-> <<>>],
         \A i \in 1 .. k : Written(g[i - 1], k - (i - 1), v, base)
                             => g[i] = DigitStep(g[i - 1], k - i, base)
  PROVE  IsWritten(g[k].text, v, base)
  <1> DEFINE B == {i \in 0 .. k : Written(g[i], k - i, v, base)}
  <1>1. base \in Nat
    BY SMT
  <1>2. 0 \in B
    <2>1. NumberOf(<<>>, base) = 0 /\ Power(base, k) \in Nat
      BY <1>1, NumberOfNothing, PowerFacts
    <2>2. v = 0 * Power(base, k) + v
      BY <2>1, SMT
    <2>3. k - 0 = k /\ k # 0 /\ 0 \in 0 .. k
      BY SMT
    <2>4. Written(g[0], k, v, base)
      BY <2>1, <2>2, <2>3 DEF Written
    <2>5. QED
      BY <2>3, <2>4
  <1>3. ASSUME NEW i \in 1 .. k, i - 1 \in B PROVE i \in B
    <2>1. Written(g[i - 1], k - (i - 1), v, base)
      BY <1>3
    <2>2. k - (i - 1) = (k - i) + 1 /\ k - i \in Nat /\ i \in 0 .. k
      BY SMT
    <2>3. Written(g[i - 1], (k - i) + 1, v, base)
      BY <2>1, <2>2
    <2>4. Written(DigitStep(g[i - 1], k - i, base), k - i, v, base)
      BY <2>2, <2>3, DigitStepKeeps
    <2>5. g[i] = DigitStep(g[i - 1], k - i, base)
      BY <2>1
    <2>6. QED
      BY <2>2, <2>4, <2>5
  <1>4. Written(g[k], 0, v, base)
    <2> HIDE DEF B
    <2>1. 0 .. k \subseteq B
      BY ONLY <1>2, <1>3, InductionUpTo, k \in Nat
    <2>2. k \in 0 .. k /\ k - k = 0
      BY SMT
    <2>3. QED
      BY <2>1, <2>2 DEF B
  <1> DEFINE s == g[k]
  <1>5. s.text \in Seq(Symbols(base)) /\ s.text # <<>> /\ s.in \in Nat /\ s.in < Power(base, 0)
        /\ v = NumberOf(s.text, base) * Power(base, 0) + s.in
        /\ (s.text[1] = "0" => Len(s.text) = 1)
    BY <1>4 DEF Written
  <1> HIDE DEF s
  <1>6. Power(base, 0) = 1
    BY <1>1, PowerFacts
  <1>7. NumberOf(s.text, base) \in Nat
    <2>1. "0" \in Symbols(base)
      BY ZeroIsSymbol
    <2>2. QED
      BY <1>1, <1>5, <2>1, NumberOfAppend
  <1>8. v = NumberOf(s.text, base)
    BY <1>5, <1>6, <1>7, SMT
  <1>9. \A i \in DOMAIN s.text : s.text[i] \in Symbols(base)
    BY <1>5
  <1>10. QED
    BY <1>5, <1>8, <1>9 DEF IsWritten, IsNumeralOf, Symbols, s

\* The states of the loops: a number and a text.
State == [in : Nat, text : Seq({Numeral[n] : n \in Nat})]

\* A turn of the loop makes another state.
LEMMA DigitStepCloses ==
  ASSUME NEW s \in State, NEW p \in Nat, NEW base \in 2 .. 36
  PROVE  DigitStep(s, p, base) \in State
  <1> DEFINE P == Power(base, p)
             d == s.in \div P
             r == s.in % P
  <1>1. base \in Nat /\ base >= 2
    BY SMT
  <1>2. P \in Nat /\ P >= p + 1
    BY <1>1, PowerFacts, PowerGrows
  <1> HIDE DEF P
  <1>3. s.in \in Nat /\ s.text \in Seq({Numeral[n] : n \in Nat})
    BY DEF State
  <1>4. d \in Nat /\ r \in Nat
    <2>1. P > 0
      BY <1>2, SMT
    <2>2. d \in Nat /\ r \in 0 .. (P - 1)
      BY <1>2, <1>3, <2>1, DivisionFacts
    <2> HIDE DEF r
    <2>3. QED
      BY <1>2, <2>2, SMT
  <1> HIDE DEF d, r
  <1>5. Numeral[d + 1] \in {Numeral[n] : n \in Nat}
    <2>1. d + 1 \in Nat
      BY <1>4, SMT
    <2>2. QED
      BY <2>1
  <1>6. Append(s.text, Numeral[d + 1]) \in Seq({Numeral[n] : n \in Nat})
    BY <1>3, <1>5
  <1>7. [in |-> r, text |-> Append(s.text, Numeral[d + 1])] \in State
    BY <1>4, <1>6 DEF State
  <1>8. QED
    BY <1>7 DEF DigitStep, P, d, r

\* A turn of utoa_r()'s loop.
LEMMA DecimalIsStep ==
  ASSUME NEW s, s.in \in Nat, NEW p \in Nat
  PROVE  DecimalDigit(s, p) = DigitStep(s, p, 10)
  BY DEF DecimalDigit, DigitStep

\* A turn of utoh_r()'s loop: the number without its first digit is the remainder.
LEMMA HexIsStep ==
  ASSUME NEW s, s.in \in Nat, s = [in |-> s.in, text |-> s.text], NEW p \in Nat
  PROVE  HexDigit(s, p) = DigitStep(s, p, 16)
  <1> DEFINE n == s.in
             P == Power(16, p)
             d == n \div P
             r == n % P
  <1>0. 16 \in Nat /\ 16 >= 2
    BY SMT
  <1>1. P \in Nat /\ P >= p + 1
    BY <1>0, PowerFacts, PowerGrows
  <1> HIDE DEF P
  <1>2. P > 0
    BY <1>1, SMT
  <1>3. d \in Nat /\ r \in 0 .. (P - 1) /\ n = P * d + r
    BY <1>1, <1>2, DivisionFacts
  <1>4. HexDigit(s, p) = [in |-> n - d * P, text |-> IF d # 0 \/ s.text # <<>> \/ p = 0
                                                       THEN Append(s.text, Numeral[d + 1]) ELSE s.text]
    BY DEF HexDigit, P
  <1>5. DigitStep(s, p, 16) = IF s.text # <<>> \/ n >= P \/ p = 0
                                THEN [in |-> r, text |-> Append(s.text, Numeral[d + 1])] ELSE s
    BY DEF DigitStep, P
  <1> HIDE DEF n, d, r
  <1>6. n \in Nat
    BY DEF n
  <1>7. d >= 1 => P * d >= P
    BY <1>1, <1>2, <1>3, SMT
  <1>8. n - d * P = r /\ (d # 0 <=> n >= P)
    BY <1>1, <1>2, <1>3, <1>6, <1>7, SMT
  <1>9. d = 0 => r = n
    <2>1. P * 0 = 0
      BY <1>1, SMT
    <2>2. QED
      BY <1>3, <1>6, <2>1, SMT
  <1>10. CASE d # 0 \/ s.text # <<>> \/ p = 0
    BY <1>4, <1>5, <1>8, <1>10
  <1>11. CASE ~(d # 0 \/ s.text # <<>> \/ p = 0)
    <2>1. HexDigit(s, p) = [in |-> n, text |-> s.text]
      BY <1>4, <1>8, <1>9, <1>11
    <2>2. DigitStep(s, p, 16) = s
      BY <1>5, <1>8, <1>11
    <2>3. QED
      BY <2>1, <2>2 DEF n
  <1>12. QED
    BY <1>10, <1>11

\* utoa_r() and u64toa_r() write the decimal numeral of every number of their type.
THEOREM DecimalsWritten ==
  ASSUME NEW t \in IntType, NEW v \in 0 .. (Modulus[t] - 1)
  PROVE  IsWritten(utoa_r(v, t), v, 10)
  <1> DEFINE pos == HighestDigit(t, 10)
             k == pos + 1
             b == [in |-> v, text |-> <<>>]
             Rhs(h, i) == IF i = 0 THEN b ELSE DecimalDigit(h[i - 1], k - i)
             g == CHOOSE h : h = [i \in 0 .. k |-> Rhs(h, i)]
             step == [i \in 1 .. k |-> [s \in State |-> DecimalDigit(s, k - i)]]
  <1>1. pos \in Nat /\ Modulus[t] <= Power(10, pos + 1)
    BY HighestDigitFacts
  <1>2. v \in Nat /\ v < Power(10, k) /\ k \in Nat /\ k > 0
    <2>1. k \in Nat /\ k > 0
      BY <1>1, SMT
    <2>2. Power(10, k) \in Nat /\ Modulus[t] \in Nat
      BY <2>1, PowerFacts, ModulusFacts
    <2>3. QED
      BY <1>1, <2>1, <2>2, SMT
  <1>3. utoa_r(v, t) = g[k].text
    BY DEF utoa_r
  <1> HIDE DEF pos, k
  <1>4. b \in State
    BY <1>2 DEF State
  <1>5. step \in [1 .. k -> [State -> State]]
    <2>1. ASSUME NEW i \in 1 .. k, NEW s \in State PROVE DecimalDigit(s, k - i) \in State
      <3>1. k - i \in Nat
        BY <1>2, SMT
      <3>2. s.in \in Nat /\ s = [in |-> s.in, text |-> s.text] /\ 10 \in 2 .. 36
        BY SMT DEF State
      <3>3. DecimalDigit(s, k - i) \in State
        BY <3>1, <3>2, DigitStepCloses, DecimalIsStep
      <3>4. QED
        BY <3>3
    <2>2. QED
      BY <2>1
  <1> HIDE DEF b
  <1>6. PICK f : Chain(f, k, State, b, step)
    <2> HIDE DEF step
    <2>1. QED
      BY <1>2, <1>4, <1>5, RecursionUpTo
  <1>7. f = [i \in 0 .. k |-> Rhs(f, i)]
    <2>1. f \in [0 .. k -> State]
      BY <1>6 DEF Chain
    <2>2. ASSUME NEW i \in 0 .. k PROVE f[i] = Rhs(f, i)
      <3>1. CASE i = 0
        BY <1>6, <3>1 DEF Chain
      <3>2. CASE i # 0
        <4>1. i \in 1 .. k /\ i - 1 \in 0 .. k
          BY <1>2, <3>2, SMT
        <4>2. f[i] = step[i][f[i - 1]] /\ f[i - 1] \in State
          BY <1>6, <4>1 DEF Chain
        <4>3. QED
          BY <3>2, <4>1, <4>2
      <3>3. QED
        BY <3>1, <3>2
    <2>3. QED
      BY <2>1, <2>2
  <1>8. g = [i \in 0 .. k |-> Rhs(g, i)]
    BY <1>7
  <1> HIDE DEF g
  <1>9. g[0] = b
    BY <1>2, <1>8, SMT
  <1>10. ASSUME NEW i \in 1 .. k PROVE g[i] = DecimalDigit(g[i - 1], k - i)
    <2>1. i \in 0 .. k /\ i # 0
      BY <1>2, SMT
    <2>2. QED
      BY <1>8, <2>1
  <1>11. ASSUME NEW i \in 1 .. k, Written(g[i - 1], k - (i - 1), v, 10)
         PROVE  g[i] = DigitStep(g[i - 1], k - i, 10)
    <2>1. k - i \in Nat
      BY <1>2, SMT
    <2>2. g[i - 1].in \in Nat
      BY <1>11 DEF Written
    <2>3. QED
      BY <1>10, <2>1, <2>2, DecimalIsStep
  <1>12. g[0] = [in |-> v, text |-> <<>>]
    BY <1>9 DEF b
  <1>13. 10 \in 2 .. 36
    BY SMT
  <1>14. IsWritten(g[k].text, v, 10)
    BY ONLY <1>2, <1>11, <1>12, <1>13, LoopWrites
  <1>15. QED
    BY <1>3, <1>14

\* utoh_r() and u64toh_r() write the hexadecimal one.
THEOREM HexadecimalsWritten ==
  ASSUME NEW t \in IntType, NEW v \in 0 .. (Modulus[t] - 1)
  PROVE  IsWritten(utoh_r(v, t), v, 16)
  <1> DEFINE pos == HighestDigit(t, 16)
             k == pos + 1
             b == [in |-> v, text |-> <<>>]
             Rhs(h, i) == IF i = 0 THEN b ELSE HexDigit(h[i - 1], k - i)
             g == CHOOSE h : h = [i \in 0 .. k |-> Rhs(h, i)]
             step == [i \in 1 .. k |-> [s \in State |-> HexDigit(s, k - i)]]
  <1>1. pos \in Nat /\ Modulus[t] <= Power(16, pos + 1)
    BY HighestDigitFacts
  <1>2. v \in Nat /\ v < Power(16, k) /\ k \in Nat /\ k > 0
    <2>1. k \in Nat /\ k > 0
      BY <1>1, SMT
    <2>2. Power(16, k) \in Nat /\ Modulus[t] \in Nat
      BY <2>1, PowerFacts, ModulusFacts
    <2>3. QED
      BY <1>1, <2>1, <2>2, SMT
  <1>3. utoh_r(v, t) = g[k].text
    BY DEF utoh_r
  <1> HIDE DEF pos, k
  <1>4. b \in State
    BY <1>2 DEF State
  <1>5. step \in [1 .. k -> [State -> State]]
    <2>1. ASSUME NEW i \in 1 .. k, NEW s \in State PROVE HexDigit(s, k - i) \in State
      <3>1. k - i \in Nat
        BY <1>2, SMT
      <3>2. s.in \in Nat /\ s = [in |-> s.in, text |-> s.text] /\ 16 \in 2 .. 36
        BY SMT DEF State
      <3>3. HexDigit(s, k - i) \in State
        BY <3>1, <3>2, DigitStepCloses, HexIsStep
      <3>4. QED
        BY <3>3
    <2>2. QED
      BY <2>1
  <1> HIDE DEF b
  <1>6. PICK f : Chain(f, k, State, b, step)
    <2> HIDE DEF step
    <2>1. QED
      BY <1>2, <1>4, <1>5, RecursionUpTo
  <1>7. f = [i \in 0 .. k |-> Rhs(f, i)]
    <2>1. f \in [0 .. k -> State]
      BY <1>6 DEF Chain
    <2>2. ASSUME NEW i \in 0 .. k PROVE f[i] = Rhs(f, i)
      <3>1. CASE i = 0
        BY <1>6, <3>1 DEF Chain
      <3>2. CASE i # 0
        <4>1. i \in 1 .. k /\ i - 1 \in 0 .. k
          BY <1>2, <3>2, SMT
        <4>2. f[i] = step[i][f[i - 1]] /\ f[i - 1] \in State
          BY <1>6, <4>1 DEF Chain
        <4>3. QED
          BY <3>2, <4>1, <4>2
      <3>3. QED
        BY <3>1, <3>2
    <2>3. QED
      BY <2>1, <2>2
  <1>8. g = [i \in 0 .. k |-> Rhs(g, i)]
    BY <1>7
  <1> HIDE DEF g
  <1>9. g[0] = b
    BY <1>2, <1>8, SMT
  <1>10. ASSUME NEW i \in 1 .. k PROVE g[i] = HexDigit(g[i - 1], k - i)
    <2>1. i \in 0 .. k /\ i # 0
      BY <1>2, SMT
    <2>2. QED
      BY <1>8, <2>1
  <1>11. ASSUME NEW i \in 1 .. k, Written(g[i - 1], k - (i - 1), v, 16)
         PROVE  g[i] = DigitStep(g[i - 1], k - i, 16)
    <2>1. k - i \in Nat /\ i - 1 \in 0 .. k
      BY <1>2, SMT
    <2>2. Chain(g, k, State, b, step)
      <3>1. g = [j \in 0 .. k |-> g[j]]
        BY <1>8
      <3>2. \A j \in 1 .. k : g[j - 1] \in State => g[j] = step[j][g[j - 1]]
        BY <1>10
      <3> HIDE DEF step
      <3>3. QED
        BY ONLY <1>2, <1>4, <1>5, <1>9, <3>1, <3>2, ChainByStep
    <2>3. g[i - 1] \in State
      BY <2>1, <2>2 DEF Chain
    <2>4. g[i - 1].in \in Nat /\ g[i - 1] = [in |-> g[i - 1].in, text |-> g[i - 1].text]
      BY <2>3 DEF State
    <2>5. QED
      BY <1>10, <2>1, <2>4, HexIsStep
  <1>12. g[0] = [in |-> v, text |-> <<>>]
    BY <1>9 DEF b
  <1>13. 16 \in 2 .. 36
    BY SMT
  <1>14. IsWritten(g[k].text, v, 16)
    BY ONLY <1>2, <1>11, <1>12, <1>13, LoopWrites
  <1>15. QED
    BY <1>3, <1>14

\* itoa_r() and i64toa_r() write a sign and the numeral, for the smallest number too.
THEOREM SignedWritten ==
  ASSUME NEW t \in IntType, NEW v \in LeastOf(t) .. GreatestOf(t)
  PROVE  \/ v >= 0 /\ IsWritten(itoa_r(v, t), v, 10)
         \/ /\ v < 0 /\ itoa_r(v, t) = <<"-">> \o utoa_r(-v, t)
            /\ -v \in 0 .. (Modulus[t] - 1)
            /\ IsWritten(utoa_r(-v, t), -v, 10)
  <1> DEFINE m == Modulus[t]
             h == m \div 2
  <1>1. m \in Nat /\ m >= 2 /\ h \in Nat /\ m = 2 * h
    BY ModulusFacts
  <1>2. v \in (-h) .. (h - 1)
    BY DEF LeastOf, GreatestOf
  <1> HIDE DEF h
  <1>3. CASE v >= 0
    <2>1. v \in 0 .. (m - 1) /\ ~(v < 0)
      BY <1>1, <1>2, <1>3, SMT
    <2>2. QED
      BY <1>3, <2>1, DecimalsWritten DEF itoa_r
  <1>4. CASE ~(v >= 0)
    <2>1. v < 0 /\ -v \in 0 .. (m - 1) /\ -v \in Nat /\ -v < m /\ m > 0
      BY <1>1, <1>2, <1>4, SMT
    <2>2. (-v) % m = -v
      BY <1>1, <2>1, ModFacts
    <2>3. itoa_r(v, t) = <<"-">> \o utoa_r(-v, t)
      BY <2>1, <2>2 DEF itoa_r, Cut
    <2>4. QED
      BY <2>1, <2>3, DecimalsWritten
  <1>5. QED
    BY <1>3, <1>4

-----------------------------------------------------------------------------
(* Reading.                                                                *)

\* A character that is not the terminator is one of the string.
LEMMA AtFacts ==
  ASSUME NEW s, Len(s) \in Nat
  PROVE  /\ \A i \in Nat : At(s, i) # End => i <= Len(s) /\ At(s, i) = s[i]
         /\ \A i \in Nat : i <= Len(s) => At(s, i) = s[i]
         /\ \A i \in Nat : i > Len(s) => At(s, i) = End
  <1>1. ASSUME NEW i \in Nat, i > Len(s) PROVE ~(i <= Len(s))
    BY <1>1, SMT
  <1>2. QED
    BY <1>1 DEF At

\* The place behind spaces: spaces up to it, and none at it.
IsBehindSpaces(k, s, i) ==
  k \in i .. (Len(s) + 1) /\ ~IsSpace(At(s, k)) /\ \A j \in i .. (k - 1) : IsSpace(At(s, j))

\* It is there, and there is one.
LEMMA BehindSpacesFacts ==
  ASSUME NEW s, Len(s) \in Nat, NEW i \in 1 .. (Len(s) + 1)
  PROVE  /\ IsBehindSpaces(BehindSpaces(s, i), s, i)
         /\ \A k : IsBehindSpaces(k, s, i) => k = BehindSpaces(s, i)
  <1> DEFINE S == {k \in i .. (Len(s) + 1) : ~IsSpace(At(s, k))}
  <1>1. Len(s) + 1 \in S
    <2>1. Len(s) + 1 \in Nat /\ Len(s) + 1 > Len(s) /\ Len(s) + 1 \in i .. (Len(s) + 1)
      BY SMT
    <2>2. At(s, Len(s) + 1) = End
      BY <2>1, AtFacts
    <2>3. ~IsSpace(End)
      BY SpacesAreNone DEF Sign
    <2>4. QED
      BY <2>1, <2>2, <2>3
  <1>2. S \in SUBSET Nat
    BY SMT
  <1>3. PICK k \in S : \A m \in S : k <= m
    <2> HIDE DEF S
    <2>1. QED
      BY <1>1, <1>2, LowestNatural
  <1>4. \A j \in i .. (k - 1) : IsSpace(At(s, j))
    <2>1. ASSUME NEW j \in i .. (k - 1) PROVE IsSpace(At(s, j))
      <3>1. j \in i .. (Len(s) + 1) /\ ~(k <= j)
        BY <1>3, SMT
      <3>2. QED
        BY <1>3, <3>1
    <2>2. QED
      BY <2>1
  <1>5. IsBehindSpaces(k, s, i)
    BY <1>3, <1>4 DEF IsBehindSpaces
  <1> DEFINE b == BehindSpaces(s, i)
  <1>6. IsBehindSpaces(b, s, i)
    <2>1. b = CHOOSE n \in i .. (Len(s) + 1) : ~IsSpace(At(s, n)) /\ \A j \in i .. (n - 1) : IsSpace(At(s, j))
      BY DEF BehindSpaces
    <2> HIDE DEF b
    <2>2. QED
      BY <1>5, <2>1 DEF IsBehindSpaces
  <1> HIDE DEF b
  <1>7. ASSUME NEW n, IsBehindSpaces(n, s, i) PROVE n = b
    <2>1. n \in i .. (Len(s) + 1) /\ b \in i .. (Len(s) + 1)
      BY <1>6, <1>7 DEF IsBehindSpaces
    <2>2. n < b => n \in i .. (b - 1)
      BY <2>1, SMT
    <2>3. b < n => b \in i .. (n - 1)
      BY <2>1, SMT
    <2>4. ~(n < b) /\ ~(b < n)
      BY <1>6, <1>7, <2>2, <2>3 DEF IsBehindSpaces
    <2>5. QED
      BY <2>1, <2>4, SMT
  <1>8. QED
    BY <1>6, <1>7 DEF b

\* A character is a digit of a base or it is not.
LEMMA DigitOrNot ==
  ASSUME NEW ch, NEW base \in Nat
  PROVE  Value(ch) < base <=> ~(Value(ch) >= base)
  <1> DEFINE v == Value(ch)
  <1>1. v \in Nat
    <2>1. v \in 0 .. 36
      BY ValueRange
    <2> HIDE DEF v
    <2>2. QED
      BY <2>1, SMT
  <1> HIDE DEF v
  <1>2. v < base <=> ~(v >= base)
    BY <1>1, SMT
  <1>3. QED
    BY <1>2 DEF v

\* The place behind the digits of a base.
IsBehindDigits(k, s, i, base) ==
  /\ k \in i .. (Len(s) + 1) /\ Value(At(s, k)) >= base
  /\ \A j \in i .. (k - 1) : Value(At(s, j)) < base

\* It is there, and there is one.
LEMMA BehindDigitsFacts ==
  ASSUME NEW s, Len(s) \in Nat, NEW i \in 1 .. (Len(s) + 1), NEW base \in 0 .. 36
  PROVE  /\ IsBehindDigits(BehindDigits(s, i, base), s, i, base)
         /\ \A k : IsBehindDigits(k, s, i, base) => k = BehindDigits(s, i, base)
  <1> DEFINE S == {k \in i .. (Len(s) + 1) : Value(At(s, k)) >= base}
  <1>1. Len(s) + 1 \in S
    <2>1. Len(s) + 1 \in Nat /\ Len(s) + 1 > Len(s) /\ Len(s) + 1 \in i .. (Len(s) + 1)
          /\ 36 >= base
      BY SMT
    <2>2. At(s, Len(s) + 1) = End
      BY <2>1, AtFacts
    <2>3. Value(End) = 36
      BY NoValue DEF Sign
    <2>4. QED
      BY <2>1, <2>2, <2>3
  <1>2. S \in SUBSET Nat
    BY SMT
  <1>3. PICK k \in S : \A m \in S : k <= m
    <2> HIDE DEF S
    <2>1. QED
      BY <1>1, <1>2, LowestNatural
  <1>4. \A j \in i .. (k - 1) : Value(At(s, j)) < base
    <2>1. ASSUME NEW j \in i .. (k - 1) PROVE Value(At(s, j)) < base
      <3>1. j \in i .. (Len(s) + 1) /\ ~(k <= j)
        BY <1>3, SMT
      <3>2. ~(Value(At(s, j)) >= base)
        BY <1>3, <3>1
      <3>3. base \in Nat
        BY SMT
      <3>4. QED
        BY <3>2, <3>3, DigitOrNot
    <2>2. QED
      BY <2>1
  <1>5. IsBehindDigits(k, s, i, base)
    BY <1>3, <1>4 DEF IsBehindDigits
  <1> DEFINE b == BehindDigits(s, i, base)
  <1>6. IsBehindDigits(b, s, i, base)
    <2>1. b = CHOOSE n \in i .. (Len(s) + 1) : /\ Value(At(s, n)) >= base
                                               /\ \A j \in i .. (n - 1) : Value(At(s, j)) < base
      BY DEF BehindDigits
    <2> HIDE DEF b
    <2>2. QED
      BY <1>5, <2>1 DEF IsBehindDigits
  <1> HIDE DEF b
  <1>7. ASSUME NEW n, IsBehindDigits(n, s, i, base) PROVE n = b
    <2>1. n \in i .. (Len(s) + 1) /\ b \in i .. (Len(s) + 1)
      BY <1>6, <1>7 DEF IsBehindDigits
    <2>2. n < b => n \in i .. (b - 1)
      BY <2>1, SMT
    <2>3. b < n => b \in i .. (n - 1)
      BY <2>1, SMT
    <2>4. n < b => Value(At(s, n)) < base /\ Value(At(s, n)) >= base
      BY <1>6, <1>7, <2>2 DEF IsBehindDigits
    <2>5. b < n => Value(At(s, b)) < base /\ Value(At(s, b)) >= base
      BY <1>6, <1>7, <2>3 DEF IsBehindDigits
    <2>6. base \in Nat
      BY SMT
    <2>7. ~(n < b) /\ ~(b < n)
      BY <2>4, <2>5, <2>6, DigitOrNot
    <2>8. QED
      BY <2>1, <2>7, SMT
  <1>8. QED
    BY <1>6, <1>7 DEF b

\* What is left of a string from a place on.
Suffix(s, k) == SubSeq(s, k, Len(s))

\* The characters of the rest are those of the string, the terminator too.
LEMMA SuffixFacts ==
  ASSUME NEW X, NEW s \in Seq(X), NEW k \in 1 .. (Len(s) + 1)
  PROVE  /\ Suffix(s, k) \in Seq(X) /\ Len(Suffix(s, k)) = Len(s) - k + 1
         /\ \A i \in Nat : i >= 1 => At(Suffix(s, k), i) = At(s, k + i - 1)
  <1> DEFINE u == Suffix(s, k)
  <1>1. Len(s) \in Nat /\ \A i \in 1 .. Len(s) : s[i] \in X
    BY ElementOfSeq, LenProperties
  <1>2. k \in Int /\ Len(s) \in Int /\ \A i \in k .. Len(s) : i \in 1 .. Len(s)
    BY <1>1, SMT
  <1>3. /\ u \in Seq(X)
        /\ Len(u) = IF k <= Len(s) THEN Len(s) - k + 1 ELSE 0
        /\ \A i \in 1 .. (Len(s) - k + 1) : u[i] = s[k + i - 1]
    <2>1. \A i \in k .. Len(s) : s[i] \in X
      BY <1>1, <1>2
    <2>2. QED
      BY <1>2, <2>1, SubSeqProperties DEF Suffix
  <1> HIDE DEF u
  <1>4. Len(u) = Len(s) - k + 1 /\ Len(u) \in Nat
    BY <1>1, <1>3, SMT
  <1>5. ASSUME NEW i \in Nat, i >= 1 PROVE At(u, i) = At(s, k + i - 1)
    <2>1. k + i - 1 \in Nat /\ (i <= Len(u) <=> k + i - 1 <= Len(s))
      BY <1>1, <1>4, <1>5, SMT
    <2>2. i <= Len(u) => u[i] = s[k + i - 1]
      BY <1>3, <1>4, <1>5, SMT
    <2>3. QED
      BY <2>1, <2>2 DEF At
  <1>6. QED
    BY <1>3, <1>4, <1>5 DEF u

\* A rest of a rest, and the beginning of one.
LEMMA SuffixOfSuffix ==
  ASSUME NEW X, NEW s \in Seq(X), NEW k \in 1 .. (Len(s) + 1)
  PROVE  /\ \A m \in Nat : m >= 1 /\ k + m - 1 <= Len(s) + 1 => Suffix(Suffix(s, k), m) = Suffix(s, k + m - 1)
         /\ \A m \in Nat : k + m - 1 <= Len(s) => SubSeq(Suffix(s, k), 1, m) = SubSeq(s, k, k + m - 1)
  <1> DEFINE u == Suffix(s, k)
  <1>1. Len(s) \in Nat /\ \A i \in 1 .. Len(s) : s[i] \in X
    BY ElementOfSeq, LenProperties
  <1>2. u \in Seq(X) /\ Len(u) = Len(s) - k + 1 /\ \A i \in 1 .. Len(u) : u[i] = s[k + i - 1]
    <2>1. u \in Seq(X) /\ Len(u) = Len(s) - k + 1
      BY SuffixFacts
    <2> HIDE DEF u
    <2>2. ASSUME NEW i \in 1 .. Len(u) PROVE u[i] = s[k + i - 1]
      <3>1. i \in Nat /\ i >= 1 /\ i <= Len(u) /\ k + i - 1 \in Nat /\ k + i - 1 <= Len(s)
        BY <1>1, <2>1, SMT
      <3>2. At(u, i) = At(s, k + i - 1)
        BY <3>1, SuffixFacts DEF u
      <3>3. QED
        BY <3>1, <3>2 DEF At
    <2>3. QED
      BY <2>1, <2>2
  <1> HIDE DEF u
  <1>3. ASSUME NEW m \in Nat, m >= 1, k + m - 1 <= Len(s) + 1
        PROVE  Suffix(u, m) = Suffix(s, k + m - 1)
    <2>1. m \in 1 .. (Len(u) + 1) /\ k + m - 1 \in 1 .. (Len(s) + 1)
      BY <1>1, <1>2, <1>3, SMT
    <2> DEFINE a == Suffix(u, m)
               b == Suffix(s, k + m - 1)
    <2>2. a \in Seq(X) /\ Len(a) = Len(u) - m + 1 /\ \A i \in Nat : i >= 1 => At(a, i) = At(u, m + i - 1)
      BY <1>2, <2>1, SuffixFacts
    <2>3. b \in Seq(X) /\ Len(b) = Len(s) - (k + m - 1) + 1
          /\ \A i \in Nat : i >= 1 => At(b, i) = At(s, (k + m - 1) + i - 1)
      BY <2>1, SuffixFacts
    <2> HIDE DEF a, b
    <2>4. Len(a) = Len(b) /\ Len(a) \in Nat
      BY <1>1, <1>2, <2>1, <2>2, <2>3, SMT
    <2>5. ASSUME NEW i \in 1 .. Len(a) PROVE a[i] = b[i]
      <3>1. i \in Nat /\ i >= 1 /\ i <= Len(a) /\ i <= Len(b) /\ m + i - 1 \in 1 .. Len(u)
            /\ m + i - 1 \in Nat /\ m + i - 1 >= 1 /\ k + (m + i - 1) - 1 = (k + m - 1) + i - 1
        BY <1>1, <1>2, <2>1, <2>2, <2>4, SMT
      <3>2. At(a, i) = At(u, m + i - 1) /\ At(b, i) = At(s, (k + m - 1) + i - 1)
        BY <2>2, <2>3, <3>1
      <3>3. At(u, m + i - 1) = At(s, k + (m + i - 1) - 1)
        BY <3>1, SuffixFacts DEF u
      <3>4. At(a, i) = a[i] /\ At(b, i) = b[i]
        BY <3>1 DEF At
      <3>5. QED
        BY <3>1, <3>2, <3>3, <3>4
    <2>6. a = b
      BY <2>2, <2>3, <2>4, <2>5, SeqEqual
    <2>7. QED
      BY <2>6 DEF a, b
  <1>4. ASSUME NEW m \in Nat, k + m - 1 <= Len(s)
        PROVE  SubSeq(u, 1, m) = SubSeq(s, k, k + m - 1)
    <2> DEFINE a == SubSeq(u, 1, m)
               b == SubSeq(s, k, k + m - 1)
               n == k + m - 1
    <2>1. /\ m <= Len(u) /\ n \in Int /\ k \in Int /\ 1 \in Int /\ m \in Int
          /\ \A i \in 1 .. m : i \in 1 .. Len(u)
          /\ \A i \in k .. n : i \in 1 .. Len(s)
          /\ n - k + 1 = m /\ m - 1 + 1 = m /\ (m = 0 => ~(k <= n) /\ ~(1 <= m)) /\ (m # 0 => k <= n /\ 1 <= m)
      BY <1>1, <1>2, <1>4, SMT
    <2>2. \A i \in 1 .. m : u[i] \in X
      BY <1>2, <2>1, ElementOfSeq
    <2>3. \A i \in k .. n : s[i] \in X
      BY <1>1, <2>1
    <2>4. a \in Seq(X) /\ Len(a) = m /\ \A i \in 1 .. m : a[i] = u[1 + i - 1]
      <3>1. /\ a \in Seq(X) /\ Len(a) = IF 1 <= m THEN m - 1 + 1 ELSE 0
            /\ \A i \in 1 .. (m - 1 + 1) : a[i] = u[1 + i - 1]
        BY <2>1, <2>2, SubSeqProperties
      <3> HIDE DEF a
      <3>2. QED
        BY <2>1, <3>1
    <2>5. b \in Seq(X) /\ Len(b) = m /\ \A i \in 1 .. m : b[i] = s[k + i - 1]
      <3>1. /\ b \in Seq(X) /\ Len(b) = IF k <= n THEN n - k + 1 ELSE 0
            /\ \A i \in 1 .. (n - k + 1) : b[i] = s[k + i - 1]
        <4> HIDE DEF n
        <4>1. QED
          BY <2>1, <2>3, SubSeqProperties DEF n
      <3> HIDE DEF b, n
      <3>2. QED
        BY <2>1, <3>1
    <2> HIDE DEF a, b
    <2>6. ASSUME NEW i \in 1 .. m PROVE a[i] = b[i]
      <3>1. 1 + i - 1 = i /\ i \in 1 .. Len(u)
        BY <2>1, SMT
      <3>2. QED
        BY <1>2, <2>4, <2>5, <3>1
    <2>7. a = b
      BY <2>4, <2>5, <2>6, SeqEqual
    <2>8. QED
      BY <2>7 DEF a, b
  <1>5. QED
    BY <1>3, <1>4 DEF u

\* A zero in front makes no difference.
LEMMA LeadingZero ==
  ASSUME NEW X, NEW s \in Seq(X), NEW w \in Seq(X), NEW base \in Nat,
         Len(s) = Len(w) + 1, Value(s[1]) = 0, \A i \in 1 .. Len(w) : w[i] = s[i + 1]
  PROVE  /\ NumberOf(s, base) = NumberOf(w, base)
         /\ \A k \in 1 .. Len(s) : NumberOf(SubSeq(s, 1, k), base) = NumberOf(SubSeq(w, 1, k - 1), base)
  <1>1. Len(s) \in Nat /\ Len(w) \in Nat
    BY LenProperties
  <1>2. PICK f : Beginnings(f, s, base) /\ NumberOf(s, base) = f[Len(s)]
    BY <1>1, NumberOfIsLast
  <1>3. PICK g : Beginnings(g, w, base) /\ NumberOf(w, base) = g[Len(w)]
    BY <1>1, NumberOfIsLast
  <1> DEFINE h == [i \in 0 .. Len(w) |-> f[i + 1]]
  <1>4. \A i \in 0 .. Len(w) : h[i] = g[i]
    <2>1. h[0] = f[1]
      BY <1>1, SMT
    <2>2. f[1] = base * f[0] + Value(s[1]) /\ f[0] = 0 /\ g[0] = 0
      <3>1. 1 \in 1 .. Len(s) /\ 1 - 1 = 0
        BY <1>1, SMT
      <3>2. QED
        BY <1>2, <1>3, <3>1 DEF Beginnings
    <2>3. h[0] = g[0]
      BY <2>1, <2>2, SMT
    <2>4. ASSUME NEW i \in 1 .. Len(w), h[i - 1] = g[i - 1] PROVE h[i] = g[i]
      <3>1. i \in 0 .. Len(w) /\ i - 1 \in 0 .. Len(w) /\ i + 1 \in 1 .. Len(s)
            /\ (i + 1) - 1 = i /\ (i - 1) + 1 = i
        BY <1>1, SMT
      <3>2. h[i] = f[i + 1] /\ h[i - 1] = f[i]
        BY <3>1
      <3>3. f[i + 1] = base * f[i] + Value(s[i + 1])
        BY <1>2, <3>1 DEF Beginnings
      <3>4. g[i] = base * g[i - 1] + Value(w[i])
        BY <1>3 DEF Beginnings
      <3>5. QED
        BY <2>4, <3>2, <3>3, <3>4
    <2>5. \A i \in 1 .. Len(w) : h[i - 1] = g[i - 1] => h[i] = g[i]
      BY <2>4
    <2> HIDE DEF h
    <2>6. SameSteps(h, g, Len(w))
      BY <2>3, <2>5 DEF SameSteps
    <2>7. QED
      BY <1>1, <2>6, ChainsAgree
  <1>5. ASSUME NEW k \in 1 .. Len(s) PROVE f[k] = g[k - 1]
    <2>1. k - 1 \in 0 .. Len(w) /\ (k - 1) + 1 = k
      BY <1>1, SMT
    <2>2. QED
      BY <1>4, <2>1
  <1>6. NumberOf(s, base) = NumberOf(w, base)
    <2>1. Len(s) \in 1 .. Len(s) /\ Len(s) - 1 = Len(w)
      BY <1>1, SMT
    <2>2. QED
      BY <1>2, <1>3, <1>5, <2>1
  <1>7. ASSUME NEW k \in 1 .. Len(s)
        PROVE  NumberOf(SubSeq(s, 1, k), base) = NumberOf(SubSeq(w, 1, k - 1), base)
    <2>1. k \in 0 .. Len(s) /\ k - 1 \in 0 .. Len(w)
      BY <1>1, SMT
    <2>2. NumberOf(SubSeq(s, 1, k), base) = f[k]
      BY <1>2, <2>1, NumberOfBeginnings
    <2>3. NumberOf(SubSeq(w, 1, k - 1), base) = g[k - 1]
      BY <1>3, <2>1, NumberOfBeginnings
    <2>4. QED
      BY <1>5, <2>2, <2>3
  <1>8. QED
    BY <1>6, <1>7

\* The places of what __strtox() reads: the first character that is no space, the one
\* behind the sign, the base and the digits.
StartOf(s, at)        == BehindSpaces(s, at)
SignAt(s, at)         == IF At(s, StartOf(s, at)) \in {"+", "-"} THEN StartOf(s, at) + 1 ELSE StartOf(s, at)
BaseAt(s, at, base)   == Base(s, SignAt(s, at), base)
FromOf(s, at, base)   == SignAt(s, at) + BaseAt(s, at, base).skip
ToOf(s, at, base)     == BehindDigits(s, FromOf(s, at, base), BaseAt(s, at, base).base)
DigitsOf(s, at, base) == SubSeq(s, FromOf(s, at, base), ToOf(s, at, base) - 1)

\* What Base() finds at a place.
IsBaseAt(b, s, i, base) ==
  /\ b.base \in 1 .. 36 /\ b.skip \in 0 .. 2
  /\ i + b.skip \in 1 .. (Len(s) + 1)
  /\ b.skip = 2 => b.base = 16 /\ base \in {0, 16} /\ At(s, i) = "0" /\ At(s, i + 1) \in {"x", "X"}
  /\ b.skip = 1 => b.base = 8 /\ base = 0 /\ At(s, i) = "0" /\ At(s, i + 1) \notin {"x", "X"}
  /\ b.skip = 0 => /\ b.base = (IF base = 0 THEN 10 ELSE base) /\ (base = 0 => At(s, i) # "0")
                   /\ ~(base \in {0, 16} /\ At(s, i) = "0" /\ At(s, i + 1) \in {"x", "X"})

\* Base() gives the base of the text and the length of its prefix.
LEMMA BaseFacts ==
  ASSUME NEW s, Len(s) \in Nat, NEW i \in 1 .. (Len(s) + 1), NEW base \in 0 .. 36
  PROVE  IsBaseAt(Base(s, i, base), s, i, base)
  <1>1. i \in Nat /\ i + 1 \in Nat
    BY SMT
  <1>2. CASE base \in {0, 16} /\ At(s, i) = "0" /\ At(s, i + 1) \in {"x", "X"}
    <2>1. At(s, i + 1) # End
      BY <1>2, SMT DEF End
    <2>2. i + 1 <= Len(s)
      BY <1>1, <2>1, AtFacts
    <2>3. Base(s, i, base) = [base |-> 16, skip |-> 2]
      BY <1>2 DEF Base
    <2>4. i + 2 \in 1 .. (Len(s) + 1)
      BY <2>2, SMT
    <2>5. QED
      BY <1>2, <2>3, <2>4, SMT DEF IsBaseAt
  <1>3. CASE ~(base \in {0, 16} /\ At(s, i) = "0" /\ At(s, i + 1) \in {"x", "X"})
    <2>1. CASE base = 0 /\ At(s, i) = "0"
      <3>1. At(s, i) # End
        BY <2>1, SMT DEF End
      <3>2. i <= Len(s)
        BY <1>1, <3>1, AtFacts
      <3>3. Base(s, i, base) = [base |-> 8, skip |-> 1]
        BY <1>3, <2>1 DEF Base
      <3>4. i + 1 \in 1 .. (Len(s) + 1)
        BY <3>2, SMT
      <3>5. QED
        BY <1>3, <2>1, <3>3, <3>4, SMT DEF IsBaseAt
    <2>2. CASE ~(base = 0 /\ At(s, i) = "0")
      <3> DEFINE c == IF base = 0 THEN 10 ELSE base
      <3>1. Base(s, i, base) = [base |-> c, skip |-> 0]
        BY <1>3, <2>2 DEF Base
      <3>2. c \in 1 .. 36 /\ i + 0 \in 1 .. (Len(s) + 1)
        BY SMT
      <3> HIDE DEF c
      <3>3. Base(s, i, base).base = c /\ Base(s, i, base).skip = 0
        BY <3>1
      <3>4. 0 \in 0 .. 2 /\ 0 # 1 /\ 0 # 2
        BY SMT
      <3>5. QED
        BY <1>3, <2>2, <3>2, <3>3, <3>4, Zenon DEF c, IsBaseAt
    <2>3. QED
      BY <2>1, <2>2
  <1>4. QED
    BY <1>2, <1>3

\* The places are places of the string, one behind the other.
LEMMA PlacesInString ==
  ASSUME NEW X, NEW s \in Seq(X), NEW at \in 1 .. (Len(s) + 1), NEW base \in 0 .. 36
  PROVE  /\ StartOf(s, at) \in at .. (Len(s) + 1) /\ StartOf(s, at) \in 1 .. (Len(s) + 1)
         /\ SignAt(s, at) \in 1 .. (Len(s) + 1)
         /\ BaseAt(s, at, base).base \in 1 .. 36
         /\ FromOf(s, at, base) \in 1 .. (Len(s) + 1)
         /\ IsBehindDigits(ToOf(s, at, base), s, FromOf(s, at, base), BaseAt(s, at, base).base)
         /\ ToOf(s, at, base) \in FromOf(s, at, base) .. (Len(s) + 1)
         /\ ToOf(s, at, base) \in 1 .. (Len(s) + 1)
         /\ DigitsOf(s, at, base) \in Seq(X)
  <1> DEFINE start == StartOf(s, at)
             sign  == SignAt(s, at)
             b     == BaseAt(s, at, base)
             from  == FromOf(s, at, base)
             to    == ToOf(s, at, base)
  <1>1. Len(s) \in Nat /\ \A i \in 1 .. Len(s) : s[i] \in X
    BY ElementOfSeq, LenProperties
  <1>2. start \in at .. (Len(s) + 1)
    BY <1>1, BehindSpacesFacts DEF StartOf, IsBehindSpaces
  <1>3. start \in 1 .. (Len(s) + 1) /\ start \in Nat
    <2> HIDE DEF start
    <2>1. QED
      BY <1>1, <1>2, SMT
  <1>4. sign \in 1 .. (Len(s) + 1)
    <2>1. CASE At(s, start) \in {"+", "-"}
      <3>1. At(s, start) # End
        BY <2>1, SMT DEF End
      <3>2. start <= Len(s)
        BY <1>1, <1>3, <3>1, AtFacts
      <3>3. sign = start + 1
        BY <2>1 DEF SignAt
      <3> HIDE DEF start, sign
      <3>4. QED
        BY <1>1, <1>3, <3>2, <3>3, SMT
    <2>2. CASE ~(At(s, start) \in {"+", "-"})
      BY <1>3, <2>2 DEF SignAt
    <2>3. QED
      BY <2>1, <2>2
  <1> HIDE DEF start, sign
  <1>5. b.base \in 1 .. 36 /\ from \in 1 .. (Len(s) + 1)
    BY <1>1, <1>4, BaseFacts DEF BaseAt, FromOf, sign, IsBaseAt
  <1> HIDE DEF from
  <1>6. b.base \in 0 .. 36
    <2> HIDE DEF b
    <2>1. QED
      BY <1>5, SMT
  <1>7. IsBehindDigits(to, s, from, b.base)
    BY <1>1, <1>5, <1>6, BehindDigitsFacts DEF ToOf, from
  <1>8. to \in from .. (Len(s) + 1)
    BY <1>7 DEF IsBehindDigits
  <1> HIDE DEF to
  <1>9. to \in 1 .. (Len(s) + 1) /\ \A i \in from .. (to - 1) : i \in 1 .. Len(s)
    BY <1>1, <1>5, <1>8, SMT
  <1>10. SubSeq(s, from, to - 1) \in Seq(X)
    <2>1. \A i \in from .. (to - 1) : s[i] \in X
      BY <1>1, <1>9
    <2>2. from \in Int /\ to - 1 \in Int
      BY <1>1, <1>5, <1>8, SMT
    <2> DEFINE e == to - 1
    <2> HIDE DEF e
    <2>3. QED
      BY <2>1, <2>2, SubSeqProperties DEF e
  <1>11. DigitsOf(s, at, base) \in Seq(X)
    BY <1>10 DEF DigitsOf, from, to
  <1>12. QED
    BY <1>2, <1>3, <1>4, <1>5, <1>7, <1>8, <1>9, <1>11 DEF start, sign, from, to

\* The digits that Says() counts: from a place on, up to the first character that is none.
IsCount(k, digits, b) ==
  /\ k \in 0 .. Len(digits) /\ \A i \in 1 .. k : Value(digits[i]) < b
  /\ k < Len(digits) => Value(digits[k + 1]) >= b

\* It counts them to the place that BehindDigits() finds.
LEMMA CountFacts ==
  ASSUME NEW X, NEW s \in Seq(X), NEW from \in 1 .. (Len(s) + 1), NEW b \in 1 .. 36
  PROVE  LET digits == Suffix(s, from)
             count  == CHOOSE k \in 0 .. Len(digits) :
                         /\ \A i \in 1 .. k : Value(digits[i]) < b
                         /\ k < Len(digits) => Value(digits[k + 1]) >= b
         IN  count \in Nat /\ from + count = BehindDigits(s, from, b)
  <1> DEFINE digits == Suffix(s, from)
             count  == CHOOSE k \in 0 .. Len(digits) :
                         /\ \A i \in 1 .. k : Value(digits[i]) < b
                         /\ k < Len(digits) => Value(digits[k + 1]) >= b
             to     == BehindDigits(s, from, b)
  <1>1. Len(s) \in Nat /\ b \in 0 .. 36 /\ b \in Nat /\ from \in Nat
    BY LenProperties, SMT
  <1>2. IsBehindDigits(to, s, from, b) /\ \A k : IsBehindDigits(k, s, from, b) => k = to
    BY <1>1, BehindDigitsFacts
  <1>3. Len(digits) = Len(s) - from + 1 /\ \A i \in Nat : i >= 1 => At(digits, i) = At(s, from + i - 1)
    BY SuffixFacts
  <1> HIDE DEF to
  <1>4. to \in from .. (Len(s) + 1) /\ Value(At(s, to)) >= b
        /\ \A j \in from .. (to - 1) : Value(At(s, j)) < b
    BY <1>2 DEF IsBehindDigits
  <1> HIDE DEF digits
  <1>5. Len(digits) \in Nat
    BY <1>1, <1>3, SMT
  <1>6. IsCount(to - from, digits, b)
    <2>1. to - from \in 0 .. Len(digits)
      BY <1>1, <1>3, <1>4, SMT
    <2>2. ASSUME NEW i \in 1 .. (to - from) PROVE Value(digits[i]) < b
      <3>1. i \in Nat /\ i >= 1 /\ i <= Len(digits) /\ from + i - 1 \in from .. (to - 1)
        BY <1>1, <1>3, <1>4, SMT
      <3>2. digits[i] = At(s, from + i - 1)
        BY <1>3, <3>1 DEF At
      <3>3. QED
        BY <1>4, <3>1, <3>2
    <2>3. to - from < Len(digits) => Value(digits[(to - from) + 1]) >= b
      <3>1. SUFFICES ASSUME to - from < Len(digits) PROVE Value(digits[(to - from) + 1]) >= b
        OBVIOUS
      <3> DEFINE i == (to - from) + 1
      <3>2. i \in Nat /\ i >= 1 /\ i <= Len(digits) /\ from + i - 1 = to
        BY <1>1, <1>3, <1>4, <3>1, SMT
      <3> HIDE DEF i
      <3>3. digits[i] = At(s, to)
        BY <1>3, <3>2 DEF At
      <3>4. QED
        BY <1>4, <3>3 DEF i
    <2>4. QED
      BY <2>1, <2>2, <2>3 DEF IsCount
  <1>7. IsCount(count, digits, b)
    BY <1>6 DEF IsCount
  <1> HIDE DEF count
  <1>8. IsBehindDigits(from + count, s, from, b)
    <2>1. count \in 0 .. Len(digits)
      BY <1>7 DEF IsCount
    <2>2. count \in Nat /\ from + count \in from .. (Len(s) + 1)
      BY <1>1, <1>3, <2>1, SMT
    <2>3. Value(At(s, from + count)) >= b
      <3>1. CASE count < Len(digits)
        <4>1. count + 1 \in Nat /\ count + 1 >= 1 /\ count + 1 <= Len(digits)
              /\ from + (count + 1) - 1 = from + count
          BY <1>1, <1>5, <2>1, <3>1, SMT
        <4>2. digits[count + 1] = At(s, from + (count + 1) - 1)
          BY <1>3, <4>1 DEF At
        <4>3. QED
          BY <1>7, <3>1, <4>1, <4>2 DEF IsCount
      <3>2. CASE ~(count < Len(digits))
        <4>1. from + count \in Nat /\ from + count > Len(s)
          BY <1>1, <1>3, <1>5, <2>1, <3>2, SMT
        <4>2. At(s, from + count) = End
          BY <1>1, <4>1, AtFacts
        <4>3. Value(End) = 36
          BY NoValue DEF Sign
        <4>4. 36 >= b
          BY SMT
        <4>5. QED
          BY <4>2, <4>3, <4>4
      <3>3. QED
        BY <3>1, <3>2
    <2>4. ASSUME NEW j \in from .. ((from + count) - 1) PROVE Value(At(s, j)) < b
      <3> DEFINE i == j - from + 1
      <3>1. i \in 1 .. count /\ i \in Nat /\ i >= 1 /\ i <= Len(digits) /\ from + i - 1 = j
        BY <1>1, <2>1, <2>2, SMT
      <3> HIDE DEF i
      <3>2. digits[i] = At(s, j)
        BY <1>3, <3>1 DEF At
      <3>3. QED
        BY <1>7, <3>1, <3>2 DEF IsCount
    <2>5. QED
      BY <2>2, <2>3, <2>4 DEF IsBehindDigits
  <1>9. from + count = to
    BY <1>2, <1>8
  <1>10. count \in Nat
    <2>1. count \in 0 .. Len(digits)
      BY <1>7 DEF IsCount
    <2>2. QED
      BY <1>5, <2>1, SMT
  <1>11. QED
    BY <1>9, <1>10 DEF digits, count, to

\* "0" has the value 0.
LEMMA ValueOfZero == Value("0") = 0
  <1>1. 1 \in 1 .. 36 /\ 1 - 1 = 0
    BY SMT
  <1>2. Numeral[1] = "0"
    BY <1>1, ZeroIsFirst
  <1>3. QED
    BY <1>1, <1>2, ValueOfNumeral

\* What a string says from a place on: a property of the place and the base.
SaysFrom(says, s, from, b) ==
  /\ says.end = BehindDigits(s, from, b)
  /\ says.size = NumberOf(SubSeq(s, from, BehindDigits(s, from, b) - 1), b)
  /\ \A v \in says.prefixes :
       \E k \in 1 .. (BehindDigits(s, from, b) - from) : v = NumberOf(SubSeq(s, from, from + k - 1), b)

\* What a string says is at the place behind its spaces and its sign.
LEMMA SaysPlaces ==
  ASSUME NEW X, NEW s \in Seq(X), NEW base \in 0 .. 36
  PROVE  LET says == Says(s, base)
             sign == SignAt(s, 1)
             b    == BaseAt(s, 1, base)
         IN  /\ says.minus <=> At(s, StartOf(s, 1)) = "-"
             /\ says.base = b.base
             /\ SaysFrom(says, s, IF b.skip = 2 THEN sign + 2 ELSE sign, b.base)
  <1> DEFINE first  == CHOOSE i \in 1 .. (Len(s) + 1) : ~IsSpace(At(s, i)) /\ \A j \in 1 .. (i - 1) : IsSpace(s[j])
             rest   == SubSeq(s, first, Len(s))
             body   == IF At(rest, 1) \in {"+", "-"} THEN SubSeq(rest, 2, Len(rest)) ELSE rest
             hex    == base \in {0, 16} /\ Len(body) >= 2 /\ body[1] = "0" /\ body[2] \in {"x", "X"}
             b      == IF hex THEN 16 ELSE IF base # 0 THEN base ELSE IF At(body, 1) = "0" THEN 8 ELSE 10
             digits == IF hex THEN SubSeq(body, 3, Len(body)) ELSE body
             count  == CHOOSE k \in 0 .. Len(digits) :
                         /\ \A i \in 1 .. k : Value(digits[i]) < b
                         /\ k < Len(digits) => Value(digits[k + 1]) >= b
             start  == StartOf(s, 1)
             sign   == SignAt(s, 1)
             own    == BaseAt(s, 1, base)
             from   == IF own.skip = 2 THEN sign + 2 ELSE sign
  <1>1. Says(s, base) = [minus |-> At(rest, 1) = "-", size |-> NumberOf(SubSeq(digits, 1, count), b),
                         end |-> Len(s) - Len(digits) + count + 1,
                         prefixes |-> {NumberOf(SubSeq(digits, 1, k), b) : k \in 1 .. count}, base |-> b]
    BY DEF Says
  <1>2. Len(s) \in Nat /\ 1 \in 1 .. (Len(s) + 1)
    BY LenProperties, SMT
  <1>3. start \in 1 .. (Len(s) + 1) /\ sign \in 1 .. (Len(s) + 1)
    BY <1>2, PlacesInString
  <1>4. first = start
    <2>1. IsBehindSpaces(start, s, 1) /\ \A k : IsBehindSpaces(k, s, 1) => k = start
      BY <1>2, BehindSpacesFacts DEF StartOf
    <2>2. ASSUME NEW i \in 1 .. (Len(s) + 1), NEW j \in 1 .. (i - 1) PROVE At(s, j) = s[j]
      <3>1. j \in Nat /\ j <= Len(s)
        BY <1>2, SMT
      <3>2. QED
        BY <1>2, <3>1, AtFacts
    <2> HIDE DEF start
    <2>3. ~IsSpace(At(s, start)) /\ \A j \in 1 .. (start - 1) : IsSpace(s[j])
      BY <1>3, <2>1, <2>2 DEF IsBehindSpaces
    <2>4. /\ first \in 1 .. (Len(s) + 1)
          /\ ~IsSpace(At(s, first)) /\ \A j \in 1 .. (first - 1) : IsSpace(s[j])
      BY <1>3, <2>3
    <2> HIDE DEF first
    <2>5. IsBehindSpaces(first, s, 1)
      BY <2>2, <2>4 DEF IsBehindSpaces
    <2>6. QED
      BY <2>1, <2>5
  <1> HIDE DEF first
  <1>5. rest = Suffix(s, start)
    BY <1>4 DEF Suffix
  <1> HIDE DEF rest
  <1>6. At(rest, 1) = At(s, start)
    <2>1. At(rest, 1) = At(s, start + 1 - 1)
      BY <1>3, <1>5, SuffixFacts
    <2>2. start + 1 - 1 = start
      BY <1>3, SMT
    <2>3. QED
      BY <2>1, <2>2
  <1>7. body = Suffix(s, sign)
    <2>1. CASE At(s, start) \in {"+", "-"}
      <3>1. sign = start + 1
        BY <2>1 DEF SignAt
      <3>2. start + 2 - 1 = sign /\ sign <= Len(s) + 1 /\ 2 \in Nat /\ 2 >= 1
        BY <1>2, <1>3, <3>1, SMT
      <3> HIDE DEF start, sign
      <3>3. Suffix(Suffix(s, start), 2) = Suffix(s, start + 2 - 1)
        BY <1>3, <3>2, SuffixOfSuffix
      <3>4. body = Suffix(rest, 2)
        BY <1>6, <2>1 DEF Suffix
      <3>5. QED
        BY <1>5, <3>2, <3>3, <3>4
    <2>2. CASE ~(At(s, start) \in {"+", "-"})
      <3>1. sign = start
        BY <2>2 DEF SignAt
      <3>2. body = rest
        BY <1>6, <2>2
      <3>3. QED
        BY <1>5, <3>1, <3>2
    <2>3. QED
      BY <2>1, <2>2
  <1> HIDE DEF body, start, sign
  <1>8. /\ Len(body) = Len(s) - sign + 1 /\ Len(body) \in Nat
        /\ At(body, 1) = At(s, sign) /\ At(body, 2) = At(s, sign + 1)
    <2>1. Len(body) = Len(s) - sign + 1 /\ \A i \in Nat : i >= 1 => At(body, i) = At(s, sign + i - 1)
      BY <1>3, <1>7, SuffixFacts
    <2>2. Len(body) \in Nat /\ sign + 1 - 1 = sign /\ sign + 2 - 1 = sign + 1
          /\ 1 \in Nat /\ 2 \in Nat /\ 1 >= 1 /\ 2 >= 1
      BY <1>2, <1>3, <2>1, SMT
    <2>3. QED
      BY <2>1, <2>2
  <1>9. hex <=> base \in {0, 16} /\ At(s, sign) = "0" /\ At(s, sign + 1) \in {"x", "X"}
    <2>1. At(body, 2) \in {"x", "X"} => At(body, 2) # End
      BY SMT DEF End
    <2>2. 1 \in Nat /\ 2 \in Nat /\ (2 <= Len(body) <=> Len(body) >= 2) /\ (2 <= Len(body) => 1 <= Len(body))
      BY <1>8, SMT
    <2>3. At(body, 2) \in {"x", "X"} => 2 <= Len(body)
      BY <1>8, <2>1, <2>2, AtFacts
    <2>4. 2 <= Len(body) => At(body, 1) = body[1] /\ At(body, 2) = body[2]
      BY <2>2 DEF At
    <2>5. QED
      BY <1>8, <2>2, <2>3, <2>4
  <1> HIDE DEF hex
  <1>10. own = Base(s, sign, base) /\ own.base = b /\ (own.skip = 2 <=> hex) /\ b \in 1 .. 36
    <2>1. own = Base(s, sign, base)
      BY DEF BaseAt, sign
    <2>2. b \in 1 .. 36 /\ 2 # 1 /\ 2 # 0
      BY SMT
    <2>3. CASE hex
      <3>1. Base(s, sign, base) = [base |-> 16, skip |-> 2]
        BY <1>9, <2>3 DEF Base
      <3>2. b = 16
        BY <2>3
      <3>3. QED
        BY <2>1, <2>2, <2>3, <3>1, <3>2
    <2>4. CASE ~hex
      <3>1. CASE base = 0 /\ At(s, sign) = "0"
        <4>1. Base(s, sign, base) = [base |-> 8, skip |-> 1]
          BY <1>9, <2>4, <3>1 DEF Base
        <4>2. b = 8
          BY <1>8, <2>4, <3>1
        <4>3. QED
          BY <2>1, <2>2, <2>4, <4>1, <4>2
      <3>2. CASE ~(base = 0 /\ At(s, sign) = "0")
        <4>1. Base(s, sign, base) = [base |-> IF base = 0 THEN 10 ELSE base, skip |-> 0]
          BY <1>9, <2>4, <3>2 DEF Base
        <4>2. b = IF base = 0 THEN 10 ELSE base
          BY <1>8, <2>4, <3>2
        <4>3. QED
          BY <2>1, <2>2, <2>4, <4>1, <4>2
      <3>3. QED
        BY <3>1, <3>2
    <2>5. QED
      BY <2>3, <2>4
  <1> HIDE DEF b, own
  <1>11. from \in 1 .. (Len(s) + 1) /\ digits = Suffix(s, from)
    <2>1. CASE hex
      <3>1. from = sign + 2 /\ digits = Suffix(body, 3)
        BY <1>10, <2>1 DEF Suffix
      <3>2. At(s, sign + 1) # End
        BY <1>9, <2>1, SMT DEF End
      <3>3. sign + 1 <= Len(s)
        <4>1. sign + 1 \in Nat
          BY <1>3, SMT
        <4>2. QED
          BY <1>2, <3>2, <4>1, AtFacts
      <3>4. sign + 2 \in 1 .. (Len(s) + 1) /\ 3 \in Nat /\ 3 >= 1 /\ sign + 3 - 1 = sign + 2
            /\ sign + 3 - 1 <= Len(s) + 1
        BY <1>2, <1>3, <3>3, SMT
      <3>5. Suffix(Suffix(s, sign), 3) = Suffix(s, sign + 3 - 1)
        BY <1>3, <3>4, SuffixOfSuffix
      <3> HIDE DEF from, digits
      <3>6. QED
        BY <1>7, <3>1, <3>4, <3>5
    <2>2. CASE ~hex
      <3>1. from = sign /\ digits = body
        BY <1>10, <2>2
      <3>2. QED
        BY <1>3, <1>7, <3>1
    <2>3. QED
      BY <2>1, <2>2
  <1> HIDE DEF from, digits
  <1>12. count \in Nat /\ from + count = BehindDigits(s, from, b)
    BY <1>10, <1>11, CountFacts
  <1> HIDE DEF count
  <1>13. Len(digits) = Len(s) - from + 1
    BY <1>11, SuffixFacts
  <1>14. BehindDigits(s, from, b) \in from .. (Len(s) + 1)
    <2>1. b \in 0 .. 36
      BY <1>10, SMT
    <2>2. QED
      BY <1>2, <1>11, <2>1, BehindDigitsFacts DEF IsBehindDigits
  <1> DEFINE to == BehindDigits(s, from, b)
  <1>15. to = from + count /\ to \in from .. (Len(s) + 1)
    BY <1>12, <1>14
  <1> HIDE DEF to
  <1>16. /\ Len(s) - Len(digits) + count + 1 = to
         /\ from + count - 1 = to - 1 /\ from + count - 1 <= Len(s)
         /\ count = to - from
         /\ \A k \in 1 .. count : k \in Nat /\ from + k - 1 <= Len(s)
    BY <1>2, <1>11, <1>12, <1>13, <1>15, SMT
  <1>17. \A k \in Nat : from + k - 1 <= Len(s) => SubSeq(digits, 1, k) = SubSeq(s, from, from + k - 1)
    BY <1>11, SuffixOfSuffix
  <1>18. SubSeq(digits, 1, count) = SubSeq(s, from, to - 1)
    BY <1>12, <1>16, <1>17
  <1> DEFINE says == Says(s, base)
  <1>19. /\ says.minus = (At(rest, 1) = "-") /\ says.size = NumberOf(SubSeq(digits, 1, count), b)
         /\ says.end = Len(s) - Len(digits) + count + 1
         /\ says.prefixes = {NumberOf(SubSeq(digits, 1, k), b) : k \in 1 .. count}
         /\ says.base = b
    BY <1>1
  <1> HIDE DEF says
  <1>20. ASSUME NEW v \in says.prefixes
         PROVE  \E k \in 1 .. (to - from) : v = NumberOf(SubSeq(s, from, from + k - 1), b)
    <2>1. PICK k \in 1 .. count : v = NumberOf(SubSeq(digits, 1, k), b)
      BY <1>19
    <2>2. SubSeq(digits, 1, k) = SubSeq(s, from, from + k - 1)
      BY <1>16, <1>17
    <2>3. QED
      BY <1>16, <2>1, <2>2
  <1>21. SaysFrom(says, s, from, b)
    BY <1>16, <1>18, <1>19, <1>20 DEF SaysFrom, to
  <1>22. QED
    BY <1>6, <1>10, <1>19, <1>21 DEF says, from, start, sign, own

\* A part of a string, and the beginnings of it.
LEMMA SliceFacts ==
  ASSUME NEW X, NEW s \in Seq(X), NEW i \in 1 .. (Len(s) + 1), NEW j \in (i - 1) .. Len(s)
  PROVE  /\ SubSeq(s, i, j) \in Seq(X) /\ Len(SubSeq(s, i, j)) = j - i + 1 /\ j - i + 1 \in Nat
         /\ \A n \in 1 .. (j - i + 1) : SubSeq(s, i, j)[n] = s[i + n - 1]
  <1>1. Len(s) \in Nat /\ \A n \in 1 .. Len(s) : s[n] \in X
    BY ElementOfSeq, LenProperties
  <1>2. i \in Int /\ j \in Int /\ \A n \in i .. j : n \in 1 .. Len(s)
    BY <1>1, SMT
  <1>3. \A n \in i .. j : s[n] \in X
    BY <1>1, <1>2
  <1> DEFINE u == SubSeq(s, i, j)
  <1>4. u \in Seq(X) /\ Len(u) = (IF i <= j THEN j - i + 1 ELSE 0)
        /\ \A n \in 1 .. (j - i + 1) : u[n] = s[i + n - 1]
    BY <1>2, <1>3, SubSeqProperties
  <1> HIDE DEF u
  <1>5. Len(u) = j - i + 1 /\ j - i + 1 \in Nat
    BY <1>1, <1>2, <1>4, SMT
  <1>6. QED
    BY <1>4, <1>5 DEF u

\* What is cut out of a part is cut out of the whole.
LEMMA SliceOfSlice ==
  ASSUME NEW X, NEW s \in Seq(X), NEW i \in 1 .. (Len(s) + 1), NEW j \in (i - 1) .. Len(s),
         NEW k \in 0 .. (j - i + 1)
  PROVE  SubSeq(SubSeq(s, i, j), 1, k) = SubSeq(s, i, i + k - 1)
  <1> DEFINE u == SubSeq(s, i, j)
             a == SubSeq(u, 1, k)
             b == SubSeq(s, i, i + k - 1)
  <1>1. Len(s) \in Nat
    BY LenProperties
  <1>2. u \in Seq(X) /\ Len(u) = j - i + 1 /\ j - i + 1 \in Nat
        /\ \A n \in 1 .. (j - i + 1) : u[n] = s[i + n - 1]
    BY SliceFacts
  <1> HIDE DEF u
  <1>3. /\ 1 \in 1 .. (Len(u) + 1) /\ k \in (1 - 1) .. Len(u) /\ k - 1 + 1 = k
        /\ i + k - 1 \in (i - 1) .. Len(s) /\ (i + k - 1) - i + 1 = k
        /\ \A n \in 1 .. k : n \in 1 .. (j - i + 1) /\ 1 + n - 1 = n
    BY <1>1, <1>2, SMT
  <1>4. a \in Seq(X) /\ Len(a) = k /\ \A n \in 1 .. k : a[n] = u[1 + n - 1]
    <2>1. /\ a \in Seq(X) /\ Len(a) = k - 1 + 1
          /\ \A n \in 1 .. (k - 1 + 1) : a[n] = u[1 + n - 1]
      BY <1>2, <1>3, SliceFacts
    <2> HIDE DEF a
    <2>2. QED
      BY <1>3, <2>1
  <1>5. b \in Seq(X) /\ Len(b) = k /\ \A n \in 1 .. k : b[n] = s[i + n - 1]
    <2> DEFINE m == i + k - 1
    <2>1. m \in (i - 1) .. Len(s) /\ m - i + 1 = k
      BY <1>3
    <2> HIDE DEF m
    <2>2. LET c == SubSeq(s, i, m)
          IN  /\ c \in Seq(X) /\ Len(c) = m - i + 1
              /\ \A n \in 1 .. (m - i + 1) : c[n] = s[i + n - 1]
      BY <2>1, SliceFacts
    <2>3. QED
      BY <2>1, <2>2 DEF m
  <1> HIDE DEF a, b
  <1>6. \A n \in 1 .. k : a[n] = b[n]
    BY <1>2, <1>3, <1>4, <1>5
  <1>7. a = b
    BY <1>4, <1>5, <1>6, SeqEqual
  <1>8. QED
    BY <1>7 DEF a, b, u

\* What a string says, and what __strtox() reads: the same digits, but for the zero in
\* front of octal ones.
LEMMA SaysFacts ==
  ASSUME NEW X, NEW s \in Seq(X), NEW base \in 0 .. 36
  PROVE  LET says   == Says(s, base)
             b      == BaseAt(s, 1, base).base
             digits == DigitsOf(s, 1, base)
         IN  /\ says.minus <=> At(s, StartOf(s, 1)) = "-"
             /\ says.base = b
             /\ says.end = ToOf(s, 1, base)
             /\ says.size = NumberOf(digits, b)
             /\ \A v \in says.prefixes :
                  v = 0 \/ \E k \in 1 .. Len(digits) : v = NumberOf(SubSeq(digits, 1, k), b)
  <1> DEFINE says   == Says(s, base)
             sign   == SignAt(s, 1)
             own    == BaseAt(s, 1, base)
             b      == own.base
             from   == FromOf(s, 1, base)
             to     == ToOf(s, 1, base)
             digits == DigitsOf(s, 1, base)
             first  == IF own.skip = 2 THEN sign + 2 ELSE sign
  <1>1. Len(s) \in Nat /\ 1 \in 1 .. (Len(s) + 1)
    BY LenProperties, SMT
  <1>2. /\ sign \in 1 .. (Len(s) + 1) /\ from \in 1 .. (Len(s) + 1) /\ to \in from .. (Len(s) + 1)
        /\ b \in 1 .. 36 /\ IsBehindDigits(to, s, from, b)
    BY <1>1, PlacesInString
  <1>3. own = Base(s, sign, base) /\ from = sign + own.skip /\ digits = SubSeq(s, from, to - 1)
        /\ to = BehindDigits(s, from, b)
    BY DEF BaseAt, FromOf, DigitsOf, ToOf
  <1>4. own.skip \in 0 .. 2 /\ (own.skip = 1 => At(s, sign) = "0")
    <2> HIDE DEF sign, own
    <2>1. IsBaseAt(own, s, sign, base)
      BY <1>1, <1>2, <1>3, BaseFacts
    <2>2. QED
      BY <2>1 DEF IsBaseAt
  <1>5. /\ says.minus <=> At(s, StartOf(s, 1)) = "-"
        /\ says.base = b
        /\ SaysFrom(says, s, first, b)
    BY SaysPlaces
  <1> HIDE DEF says, sign, from, to, digits, own
  <1>6. b \in Nat /\ b \in 0 .. 36 /\ 0 < b
    <2> HIDE DEF b
    <2>1. QED
      BY <1>2, SMT
  <1>7. to - 1 \in (from - 1) .. Len(s) /\ (to - 1) - from + 1 = to - from /\ to - from \in Nat
    BY <1>1, <1>2, SMT
  <1> DEFINE last == to - 1
  <1>8. /\ digits \in Seq(X) /\ Len(digits) = to - from
        /\ \A n \in 1 .. (to - from) : digits[n] = s[from + n - 1]
    <2>1. last \in (from - 1) .. Len(s) /\ last - from + 1 = to - from
      BY <1>7
    <2>2. digits = SubSeq(s, from, last)
      BY <1>3
    <2> HIDE DEF last
    <2>3. QED
      BY <1>2, <2>1, <2>2, SliceFacts
  <1>9. CASE own.skip # 1
    <2>1. first = from
      <3>1. own.skip = 0 \/ own.skip = 2
        BY <1>4, <1>9, SMT
      <3>2. sign + 0 = sign
        BY <1>2, SMT
      <3>3. QED
        BY <1>3, <3>1, <3>2
    <2> HIDE DEF first, b
    <2>2. says.end = to /\ says.size = NumberOf(digits, b)
      BY <1>3, <1>5, <2>1 DEF SaysFrom
    <2>3. ASSUME NEW v \in says.prefixes
          PROVE  \E k \in 1 .. Len(digits) : v = NumberOf(SubSeq(digits, 1, k), b)
      <3>1. PICK k \in 1 .. (to - from) : v = NumberOf(SubSeq(s, from, from + k - 1), b)
        BY <1>3, <1>5, <2>1 DEF SaysFrom
      <3>2. k \in 0 .. (last - from + 1) /\ last \in (from - 1) .. Len(s)
        BY <1>2, <1>7, SMT
      <3>3. digits = SubSeq(s, from, last)
        BY <1>3
      <3> HIDE DEF last
      <3>4. SubSeq(digits, 1, k) = SubSeq(s, from, from + k - 1)
        BY <1>2, <3>2, <3>3, SliceOfSlice
      <3>5. QED
        BY <1>8, <3>1, <3>4
    <2>4. QED
      BY <1>5, <2>2, <2>3 DEF says, b, own, to, digits
  <1>10. CASE own.skip = 1
    <2>1. first = sign /\ from = sign + 1 /\ 2 # 1
      BY <1>3, <1>10
    <2>2. At(s, sign) = "0" /\ Value(At(s, sign)) = 0 /\ s[sign] = "0" /\ sign <= Len(s)
      <3>1. At(s, sign) = "0"
        BY <1>4, <1>10
      <3>2. "0" # End
        BY SMT DEF End
      <3>3. sign \in Nat
        BY <1>2, SMT
      <3>4. QED
        BY <1>1, <3>1, <3>2, <3>3, AtFacts, ValueOfZero
    <2>3. BehindDigits(s, sign, b) = to
      <3>1. IsBehindDigits(to, s, sign, b)
        <4>1. to \in sign .. (Len(s) + 1)
          BY <1>1, <1>2, <2>1, SMT
        <4>2. ASSUME NEW j \in sign .. (to - 1) PROVE Value(At(s, j)) < b
          <5>1. j = sign \/ j \in from .. (to - 1)
            BY <1>1, <1>2, <2>1, SMT
          <5>2. QED
            BY <1>2, <1>6, <2>2, <5>1 DEF IsBehindDigits
        <4>3. QED
          BY <1>2, <4>1, <4>2 DEF IsBehindDigits
      <3> HIDE DEF b
      <3>2. QED
        BY <1>1, <1>2, <1>6, <3>1, BehindDigitsFacts
    <2> DEFINE u == SubSeq(s, sign, last)
    <2>4. /\ last \in (sign - 1) .. Len(s) /\ last - sign + 1 = (to - from) + 1
          /\ \A n \in 1 .. (to - from) : n + 1 \in 1 .. ((to - from) + 1)
                                         /\ sign + (n + 1) - 1 = from + n - 1
          /\ 1 \in 1 .. ((to - from) + 1) /\ sign + 1 - 1 = sign
      BY <1>1, <1>2, <1>7, <2>1, SMT
    <2> HIDE DEF last, b, first
    <2>5. u \in Seq(X) /\ Len(u) = (to - from) + 1
          /\ \A n \in 1 .. ((to - from) + 1) : u[n] = s[sign + n - 1]
      BY <1>2, <2>4, SliceFacts
    <2>6. Len(u) = Len(digits) + 1 /\ Value(u[1]) = 0 /\ \A n \in 1 .. Len(digits) : digits[n] = u[n + 1]
      <3> HIDE DEF u
      <3>1. u[1] = "0"
        <4>1. u[1] = s[sign + 1 - 1]
          BY <2>4, <2>5, Zenon
        <4>2. QED
          BY <2>2, <2>4, <4>1
      <3>2. ASSUME NEW n \in 1 .. Len(digits) PROVE digits[n] = u[n + 1]
        <4>1. n \in 1 .. (to - from)
          BY <1>8
        <4>2. digits[n] = s[from + n - 1]
          BY <1>8, <4>1
        <4>3. u[n + 1] = s[sign + (n + 1) - 1]
          BY <2>4, <2>5, <4>1
        <4>4. QED
          BY <2>4, <4>1, <4>2, <4>3
      <3>3. Len(u) = Len(digits) + 1
        BY <1>8, <2>5
      <3>4. QED
        BY <3>1, <3>2, <3>3, ValueOfZero
    <2> HIDE DEF u
    <2>7. NumberOf(u, b) = NumberOf(digits, b)
          /\ \A k \in 1 .. Len(u) : NumberOf(SubSeq(u, 1, k), b) = NumberOf(SubSeq(digits, 1, k - 1), b)
      BY <1>6, <1>8, <2>5, <2>6, LeadingZero
    <2>8. says.end = to /\ says.size = NumberOf(digits, b)
      BY <1>5, <2>1, <2>3, <2>7 DEF SaysFrom, u, last
    <2>9. ASSUME NEW v \in says.prefixes
          PROVE  v = 0 \/ \E k \in 1 .. Len(digits) : v = NumberOf(SubSeq(digits, 1, k), b)
      <3>1. PICK k \in 1 .. (to - sign) : v = NumberOf(SubSeq(s, sign, sign + k - 1), b)
        BY <1>5, <2>1, <2>3 DEF SaysFrom
      <3>2. k \in 0 .. (last - sign + 1) /\ k \in 1 .. Len(u) /\ (k - 1 = 0 \/ k - 1 \in 1 .. Len(digits))
        BY <1>2, <1>8, <2>1, <2>4, <2>5, SMT
      <3>3. SubSeq(u, 1, k) = SubSeq(s, sign, sign + k - 1)
        BY <1>2, <2>4, <3>2, SliceOfSlice DEF u
      <3>4. v = NumberOf(SubSeq(digits, 1, k - 1), b)
        BY <2>7, <3>1, <3>2, <3>3
      <3>5. CASE k - 1 = 0
        <4>1. SubSeq(digits, 1, 0) = <<>>
          BY SubSeqEmpty, SMT
        <4>2. QED
          BY <1>6, <3>4, <3>5, <4>1, NumberOfNothing
      <3>6. QED
        BY <3>2, <3>4, <3>5
    <2>10. QED
      BY <1>5, <2>8, <2>9 DEF says, b, own, to, digits
  <1>11. QED
    BY <1>9, <1>10

-----------------------------------------------------------------------------
(* What __strtox() makes of the digits.                                    *)

\* What it has made of a beginning: the number modulo the round of the widest type;
\* without an error if it is within the limit; and with one if a beginning of it was
\* beyond the limit by less than a round.
Round == Modulus["llong"]

Beyond(v, base, limit) == limit < v /\ v < Round + v \div base

IsSum(a, f, i, base, limit) ==
  /\ a.val = f[i] % Round
  /\ f[i] <= limit => ~a.overflow
  /\ \A k \in 1 .. i : Beyond(f[k], base, limit) => a.overflow
  /\ base = 1 => f[i] = 0

\* A digit more.
LEMMA SumKept ==
  ASSUME NEW s, Len(s) \in Nat, NEW base \in 1 .. 36, NEW limit \in Nat, limit < Round,
         \A i \in 1 .. Len(s) : Value(s[i]) < base,
         NEW f, Beginnings(f, s, base), NEW i \in 1 .. Len(s), NEW a, IsSum(a, f, i - 1, base, limit)
  PROVE  IsSum(Accumulate(a, Value(s[i]), base, limit), f, i, base, limit)
  <1> DEFINE W   == Round
             x   == f[i - 1]
             y   == f[i]
             d   == Value(s[i])
             val == (a.val * base + d) % W
             z   == Accumulate(a, d, base, limit)
  <1>1. W \in Nat /\ W > 0 /\ limit < W
    <2>1. W \in Nat /\ W >= 2
      BY ModulusFacts DEF Round, IntType
    <2> HIDE DEF W
    <2>2. QED
      BY <2>1, SMT DEF W
  <1>2. x \in Nat /\ y \in Nat /\ y = base * x + d
    <2>1. i - 1 \in 0 .. Len(s) /\ i \in 0 .. Len(s)
      BY SMT
    <2>2. QED
      BY <2>1 DEF Beginnings
  <1>3. d \in Nat /\ d < base /\ base \in Nat /\ base > 0
    <2>1. d \in 0 .. 36 /\ d < base
      BY ValueRange
    <2> HIDE DEF d
    <2>2. QED
      BY <2>1, SMT
  <1>4. z.val = val /\ (z.overflow <=> a.overflow \/ val > limit \/ val < a.val)
    BY DEF Accumulate, Cut, Round
  <1>5. a.val = x % W /\ (x <= limit => ~a.overflow)
        /\ (\A k \in 1 .. (i - 1) : Beyond(f[k], base, limit) => a.overflow)
        /\ (base = 1 => x = 0)
    BY DEF IsSum
  <1> HIDE DEF W, x, d
  <1>6. val = y % W
    <2>1. ((x % W) * base + d) % W = (x * base + d) % W
      <3>1. x \in Int /\ base \in Int /\ d \in Int
        BY <1>2, <1>3, SMT
      <3>2. QED
        BY <1>1, <3>1, ModBefore
    <2>2. x * base + d = y
      BY <1>2, <1>3, SMT
    <2>3. QED
      BY <1>5, <2>1, <2>2
  <1> HIDE DEF y, val, z
  <1>7. x <= y
    BY <1>2, <1>3, SMT
  <1>8. y <= limit => ~z.overflow
    <2>1. SUFFICES ASSUME y <= limit PROVE ~z.overflow
      OBVIOUS
    <2>2. y < W /\ x < W /\ x <= limit
      BY <1>1, <1>2, <1>7, <2>1, SMT
    <2>3. x % W = x /\ y % W = y
      BY <1>1, <1>2, <2>2, ModFacts
    <2>4. ~(val > limit) /\ ~(val < a.val)
      BY <1>2, <1>5, <1>6, <1>7, <2>1, <2>3, SMT
    <2>5. QED
      BY <1>4, <1>5, <2>2, <2>4
  <1>9. base = 1 => y = 0
    BY <1>2, <1>3, <1>5, SMT
  <1>10. Beyond(y, base, limit) => z.overflow
    <2>1. SUFFICES ASSUME Beyond(y, base, limit) PROVE z.overflow
      OBVIOUS
    <2>2. y \div base = x
      <3>1. d \in 0 .. (base - 1) /\ x \in Int /\ base \in Nat /\ base > 0
        BY <1>2, <1>3, SMT
      <3>2. (base * x + d) \div base = x
        BY <3>1, ModUnique
      <3>3. QED
        BY <1>2, <3>2
    <2>3. limit < y /\ y < W + x
      BY <2>1, <2>2 DEF Beyond, W
    <2>4. base >= 2
      BY <1>2, <1>3, <1>9, <2>3, SMT
    <2>5. x < W
      <3>1. base * x >= 2 * x
        BY <1>2, <1>3, <2>4, SMT
      <3>2. base * x \in Nat
        BY <1>2, <1>3, SMT
      <3>3. QED
        BY <1>1, <1>2, <1>3, <2>3, <3>1, <3>2, SMT
    <2>6. CASE y < W
      <3>1. y % W = y
        BY <1>1, <1>2, <2>6, ModFacts
      <3>2. val > limit
        BY <1>2, <1>6, <2>3, <3>1
      <3>3. QED
        BY <1>4, <3>2
    <2>7. CASE ~(y < W)
      <3>1. y >= W /\ y < 2 * W
        BY <1>1, <1>2, <2>3, <2>5, <2>7, SMT
      <3>2. y % W = y - W /\ x % W = x
        BY <1>1, <1>2, <2>5, <3>1, ModFacts
      <3>3. val < a.val
        BY <1>1, <1>2, <1>5, <1>6, <2>3, <3>2, SMT
      <3>4. QED
        BY <1>4, <3>3
    <2>8. QED
      BY <2>6, <2>7
  <1>11. ASSUME NEW k \in 1 .. i, Beyond(f[k], base, limit) PROVE z.overflow
    <2>1. k = i \/ k \in 1 .. (i - 1)
      BY SMT
    <2>2. QED
      BY <1>4, <1>5, <1>10, <1>11, <2>1 DEF y
  <1>12. QED
    BY <1>4, <1>6, <1>8, <1>9, <1>11 DEF IsSum, y, z, W, d

\* All digits.
LEMMA AccumulatedFacts ==
  ASSUME NEW s, Len(s) \in Nat, NEW base \in 1 .. 36, NEW limit \in Nat, limit < Round,
         \A i \in 1 .. Len(s) : Value(s[i]) < base,
         NEW f, Beginnings(f, s, base)
  PROVE  /\ IsSum(Accumulated(s, base, limit), f, Len(s), base, limit)
         /\ Accumulated(s, base, limit).overflow \in BOOLEAN
  <1> DEFINE k == Len(s)
             V == [val : Nat, overflow : BOOLEAN]
             b == [val |-> 0, overflow |-> FALSE]
             Rhs(h, i) == IF i = 0 THEN b ELSE Accumulate(h[i - 1], Value(s[i]), base, limit)
             g == CHOOSE h : h = [i \in 0 .. k |-> Rhs(h, i)]
             step == [i \in 1 .. k |-> [a \in V |-> Accumulate(a, Value(s[i]), base, limit)]]
  <1>1. Accumulated(s, base, limit) = g[k]
    BY DEF Accumulated
  <1>2. Round \in Nat /\ Round > 0 /\ base \in Nat
    <2> DEFINE W == Round
    <2>1. W \in Nat /\ W >= 2
      BY ModulusFacts DEF Round, IntType
    <2> HIDE DEF W
    <2>2. W > 0 /\ base \in Nat
      BY <2>1, SMT
    <2>3. QED
      BY <2>1, <2>2 DEF W
  <1>3. b \in V
    OBVIOUS
  <1>4. ASSUME NEW i \in 1 .. k, NEW a \in V PROVE Accumulate(a, Value(s[i]), base, limit) \in V
    <2> DEFINE d   == Value(s[i])
               val == (a.val * base + d) % Round
    <2>1. d \in 0 .. 36
      BY ValueRange
    <2> HIDE DEF d
    <2>2. a.val * base + d \in Int
      BY <1>2, <2>1, SMT
    <2>3. val \in Nat
      <3>1. val \in 0 .. (Round - 1)
        BY <1>2, <2>2, ModNear
      <3> HIDE DEF val
      <3>2. QED
        BY <1>2, <3>1, SMT
    <2>4. Accumulate(a, d, base, limit) = [val |-> val, overflow |-> a.overflow \/ val > limit \/ val < a.val]
      BY DEF Accumulate, Cut, Round
    <2> HIDE DEF val
    <2>5. (a.overflow \/ val > limit \/ val < a.val) \in BOOLEAN
      OBVIOUS
    <2>6. Accumulate(a, d, base, limit) \in V
      BY <2>3, <2>4, <2>5
    <2>7. QED
      BY <2>6 DEF d
  <1>5. step \in [1 .. k -> [V -> V]]
    BY <1>4
  <1>6. k \in Nat
    OBVIOUS
  <1> HIDE DEF k, V, b
  <1>7. PICK h : Chain(h, k, V, b, step)
    <2> HIDE DEF step
    <2>1. QED
      BY <1>3, <1>5, <1>6, RecursionUpTo
  <1>8. h = [i \in 0 .. k |-> Rhs(h, i)]
    <2>1. h \in [0 .. k -> V]
      BY <1>7 DEF Chain
    <2>2. ASSUME NEW i \in 0 .. k PROVE h[i] = Rhs(h, i)
      <3>1. CASE i = 0
        BY <1>7, <3>1 DEF Chain
      <3>2. CASE i # 0
        <4>1. i \in 1 .. k /\ i - 1 \in 0 .. k
          BY <1>6, <3>2, SMT
        <4>2. h[i] = step[i][h[i - 1]] /\ h[i - 1] \in V
          BY <1>7, <4>1 DEF Chain
        <4>3. QED
          BY <3>2, <4>1, <4>2
      <3>3. QED
        BY <3>1, <3>2
    <2>3. QED
      BY <2>1, <2>2
  <1>9. g = [i \in 0 .. k |-> Rhs(g, i)]
    BY <1>8
  <1> HIDE DEF g
  <1>10. g = [i \in 0 .. k |-> g[i]]
    BY <1>9
  <1>11. g[0] = b
    BY <1>6, <1>9, SMT
  <1>12. ASSUME NEW i \in 1 .. k PROVE g[i] = Accumulate(g[i - 1], Value(s[i]), base, limit)
    <2>1. i \in 0 .. k /\ i # 0
      BY <1>6, SMT
    <2>2. QED
      BY <1>9, <2>1
  <1>13. Chain(g, k, V, b, step)
    <2>1. \A i \in 1 .. k : g[i - 1] \in V => g[i] = step[i][g[i - 1]]
      BY <1>12
    <2> HIDE DEF step
    <2>2. QED
      BY <1>3, <1>5, <1>6, <1>10, <1>11, <2>1, ChainByStep
  <1> DEFINE B == {i \in 0 .. k : IsSum(g[i], f, i, base, limit)}
  <1>14. 0 \in B
    <2>1. f[0] = 0 /\ 0 % Round = 0
      BY <1>2, ModFacts, SMT DEF Beginnings
    <2>2. g[0].val = 0 /\ g[0].overflow = FALSE
      BY <1>11 DEF b
    <2>3. 0 \in 0 .. k /\ ~\E j \in 1 .. 0 : TRUE
      BY <1>6, SMT
    <2>4. IsSum(g[0], f, 0, base, limit)
      BY <2>1, <2>2, <2>3 DEF IsSum
    <2>5. QED
      BY <2>3, <2>4
  <1>15. ASSUME NEW i \in 1 .. k, i - 1 \in B PROVE i \in B
    <2>1. IsSum(g[i - 1], f, i - 1, base, limit) /\ i \in 0 .. k
      BY <1>6, <1>15, SMT
    <2>2. IsSum(g[i], f, i, base, limit)
      BY <1>12, <2>1, SumKept DEF k
    <2>3. QED
      BY <2>1, <2>2
  <1>16. k \in B
    <2> HIDE DEF B
    <2>1. 0 .. k \subseteq B
      BY ONLY <1>6, <1>14, <1>15, InductionUpTo
    <2>2. QED
      BY <1>6, <2>1, SMT
  <1>17. g[k].overflow \in BOOLEAN
    <2>1. k \in 0 .. k
      BY <1>6, SMT
    <2>2. g[k] \in V
      BY <1>13, <2>1 DEF Chain
    <2>3. QED
      BY <2>2 DEF V
  <1>18. QED
    BY <1>1, <1>16, <1>17 DEF k

\* The same of the number that the digits stand for.
LEMMA SumOfDigits ==
  ASSUME NEW X, NEW s \in Seq(X), NEW base \in 1 .. 36, NEW limit \in Nat, limit < Round,
         \A i \in 1 .. Len(s) : Value(s[i]) < base
  PROVE  LET a    == Accumulated(s, base, limit)
             size == NumberOf(s, base)
         IN  /\ size \in Nat /\ a.overflow \in BOOLEAN
             /\ a.val = size % Round
             /\ size <= limit => ~a.overflow
             /\ \A k \in 1 .. Len(s) : Beyond(NumberOf(SubSeq(s, 1, k), base), base, limit) => a.overflow
  <1> DEFINE n == Len(s)
  <1>1. n \in Nat /\ base \in Nat /\ n \in 0 .. n /\ \A k \in 1 .. n : k \in 0 .. n
    BY LenProperties, SMT
  <1>2. PICK f : Beginnings(f, s, base)
    BY <1>1, NumberOfIsLast
  <1>3. NumberOf(s, base) = f[n] /\ \A k \in 0 .. n : NumberOf(SubSeq(s, 1, k), base) = f[k]
    BY <1>1, <1>2, NumberOfBeginnings
  <1>4. f[n] \in Nat
    BY <1>1, <1>2 DEF Beginnings
  <1>5. IsSum(Accumulated(s, base, limit), f, n, base, limit) /\ Accumulated(s, base, limit).overflow \in BOOLEAN
    BY <1>1, <1>2, AccumulatedFacts
  <1> HIDE DEF n
  <1>6. ASSUME NEW k \in 1 .. n, Beyond(NumberOf(SubSeq(s, 1, k), base), base, limit)
        PROVE  Accumulated(s, base, limit).overflow
    <2>1. NumberOf(SubSeq(s, 1, k), base) = f[k]
      BY <1>1, <1>3
    <2>2. QED
      BY <1>5, <1>6, <2>1 DEF IsSum
  <1>7. QED
    BY <1>3, <1>4, <1>5, <1>6 DEF IsSum, n

\* What __strtox() returns.
LimitOf(neg, lower, upper) == IF lower # 0 /\ neg THEN -lower ELSE upper

Result(r, s, at, base, lower, upper, m, o) ==
  LET neg    == At(s, StartOf(s, at)) = "-"
      b      == BaseAt(s, at, base).base
      digits == DigitsOf(s, at, base)
      limit  == LimitOf(neg, lower, upper)
      size   == NumberOf(digits, b)
  IN  /\ r = [val |-> IF neg THEN -m ELSE m, end |-> ToOf(s, at, base), error |-> IF o THEN ERANGE ELSE 0]
      /\ o \in BOOLEAN /\ size \in Nat
      /\ m = IF o THEN limit ELSE size % Round
      /\ size <= limit => ~o
      /\ \A k \in 1 .. Len(digits) : Beyond(NumberOf(SubSeq(digits, 1, k), b), b, limit) => o

\* __strtox() converts as Result has it: the number of the longest run of digits, the
\* bound where the number is beyond it, and the end behind the digits.
LEMMA StrtoxFacts ==
  ASSUME NEW X, NEW s \in Seq(X), NEW at \in 1 .. (Len(s) + 1), NEW base \in 0 .. 36, NEW lower, NEW upper,
         LET limit == LimitOf(At(s, StartOf(s, at)) = "-", lower, upper) IN limit \in Nat /\ limit < Round
  PROVE  \E m, o : Result(__strtox(s, at, base, lower, upper), s, at, base, lower, upper, m, o)
  <1> DEFINE neg    == At(s, StartOf(s, at)) = "-"
             b      == BaseAt(s, at, base).base
             from   == FromOf(s, at, base)
             to     == ToOf(s, at, base)
             digits == DigitsOf(s, at, base)
             limit  == LimitOf(neg, lower, upper)
             size   == NumberOf(digits, b)
             sum    == Accumulated(digits, b, limit)
             m      == IF sum.overflow THEN limit ELSE sum.val
             r      == __strtox(s, at, base, lower, upper)
  <1>1. r = [val |-> IF neg THEN -m ELSE m, end |-> to, error |-> IF sum.overflow THEN ERANGE ELSE 0]
    BY DEF __strtox, StartOf, SignAt, BaseAt, FromOf, ToOf, DigitsOf, LimitOf
  <1>2. Len(s) \in Nat
    BY LenProperties
  <1>3. b \in 1 .. 36 /\ from \in 1 .. (Len(s) + 1) /\ to \in from .. (Len(s) + 1)
        /\ IsBehindDigits(to, s, from, b) /\ digits \in Seq(X) /\ digits = SubSeq(s, from, to - 1)
    BY PlacesInString DEF DigitsOf
  <1>4. limit \in Nat /\ limit < Round
    OBVIOUS
  <1> HIDE DEF neg, b, from, to, digits, limit, r
  <1>5. \A i \in 1 .. Len(digits) : Value(digits[i]) < b
    <2> DEFINE last == to - 1
    <2>1. last \in (from - 1) .. Len(s)
      BY <1>2, <1>3, SMT
    <2>2. digits = SubSeq(s, from, last)
      BY <1>3
    <2>3. Len(digits) = last - from + 1 /\ \A i \in 1 .. (last - from + 1) : digits[i] = s[from + i - 1]
      <3> HIDE DEF last
      <3>1. QED
        BY <1>3, <2>1, <2>2, SliceFacts
    <2>4. ASSUME NEW i \in 1 .. Len(digits) PROVE Value(digits[i]) < b
      <3>0. last - from + 1 = to - from /\ from \in Nat /\ to \in Nat /\ to <= Len(s) + 1
        BY <1>2, <1>3, SMT
      <3>1. from + i - 1 \in from .. (to - 1) /\ from + i - 1 \in Nat /\ from + i - 1 <= Len(s)
        <4>1. i \in 1 .. (to - from)
          BY <2>3, <3>0
        <4>2. QED
          BY <1>2, <3>0, <4>1, SMT
      <3>2. digits[i] = s[from + i - 1]
        BY <2>3
      <3>3. At(s, from + i - 1) = s[from + i - 1]
        BY <3>1 DEF At
      <3>4. QED
        BY <1>3, <3>1, <3>2, <3>3 DEF IsBehindDigits
    <2>5. QED
      BY <2>4
  <1>6. /\ size \in Nat /\ sum.overflow \in BOOLEAN
        /\ sum.val = size % Round
        /\ size <= limit => ~sum.overflow
        /\ \A k \in 1 .. Len(digits) : Beyond(NumberOf(SubSeq(digits, 1, k), b), b, limit) => sum.overflow
    BY <1>3, <1>4, <1>5, SumOfDigits
  <1>7. Result(r, s, at, base, lower, upper, m, sum.overflow)
    <2> DEFINE o == sum.overflow
    <2>1. r = [val |-> IF neg THEN -m ELSE m, end |-> to, error |-> IF o THEN ERANGE ELSE 0]
      BY <1>1
    <2>2. m = IF o THEN limit ELSE size % Round
      BY <1>6
    <2> HIDE DEF m, o, size
    <2>3. QED
      BY <1>6, <2>1, <2>2 DEF Result, neg, b, digits, limit, size, to, o
  <1>8. QED
    BY <1>7 DEF r

\* The limit of a number of a type.
LEMMA LimitFacts ==
  ASSUME NEW t \in IntType, NEW neg
  PROVE  /\ LimitOf(neg, LeastOf(t), GreatestOf(t)) = IF neg THEN -LeastOf(t) ELSE GreatestOf(t)
         /\ LimitOf(neg, 0, Modulus[t] - 1) = Modulus[t] - 1
         /\ -LeastOf(t) \in Nat /\ GreatestOf(t) \in Nat /\ Modulus[t] - 1 \in Nat
         /\ -LeastOf(t) < Round /\ GreatestOf(t) < Round /\ Modulus[t] - 1 < Round
         /\ LeastOf(t) \in Int
         /\ \A v \in Nat : /\ v <= -LeastOf(t) <=> -v \in LeastOf(t) .. GreatestOf(t)
                           /\ v <= GreatestOf(t) <=> v \in LeastOf(t) .. GreatestOf(t)
                           /\ v <= Modulus[t] - 1 <=> v < Modulus[t]
  <1> DEFINE m == Modulus[t]
             h == m \div 2
  <1>1. m \in Nat /\ m >= 2 /\ h \in Nat /\ m = 2 * h /\ Round \in Nat /\ m <= Round
    BY ModulusFacts DEF Round
  <1>2. LeastOf(t) = -h /\ GreatestOf(t) = h - 1
    BY DEF LeastOf, GreatestOf
  <1> HIDE DEF m, h
  <1>3. /\ -(-h) = h /\ -h # 0 /\ h - 1 \in Nat /\ m - 1 \in Nat /\ -h \in Int
        /\ h < Round /\ h - 1 < Round /\ m - 1 < Round
    BY <1>1, SMT
  <1>4. ASSUME NEW v \in Nat
        PROVE  /\ v <= h <=> -v \in (-h) .. (h - 1)
               /\ v <= h - 1 <=> v \in (-h) .. (h - 1)
               /\ v <= m - 1 <=> v < m
    BY <1>1, SMT
  <1>5. QED
    BY <1>1, <1>2, <1>3, <1>4 DEF LimitOf, m

\* A number that was cut to the widest type before is cut to the same.
LEMMA CutFacts ==
  ASSUME NEW t \in IntType, NEW v \in Nat
  PROVE  /\ Cut(v % Round, t) = Cut(v, t) /\ Cut(-(v % Round), t) = Cut(-v, t)
         /\ SignedOf(v % Round, t) = SignedOf(v, t) /\ SignedOf(-(v % Round), t) = SignedOf(-v, t)
  <1> DEFINE m == Modulus[t]
             W == Round
  <1>1. m \in Nat /\ m > 0 /\ W \in Nat /\ W > 0 /\ W % m = 0
    <2>1. m \in Nat /\ m >= 2 /\ W \in Nat /\ W % m = 0 /\ m <= W
      BY ModulusFacts DEF Round
    <2> HIDE DEF m, W
    <2>2. QED
      BY <2>1, SMT
  <1> HIDE DEF m, W
  <1>2. v \in Int
    BY SMT
  <1>3. (v % W) % m = v % m /\ (-(v % W)) % m = (-v) % m
    BY <1>1, <1>2, ModBefore
  <1>4. Cut(v % W, t) = Cut(v, t) /\ Cut(-(v % W), t) = Cut(-v, t)
    BY <1>3 DEF Cut, m
  <1>5. SignedOf(v % W, t) = SignedOf(v, t) /\ SignedOf(-(v % W), t) = SignedOf(-v, t)
    BY <1>4 DEF SignedOf
  <1>6. QED
    BY <1>4, <1>5 DEF W

\* What strtol() and its relatives read is what the string says.
THEOREM ReadsWhatTextSays ==
  ASSUME NEW X, NEW s \in Seq(X), NEW t \in IntType, NEW base \in 0 .. 36, NEW signed \in BOOLEAN
  PROVE  LET r == IF signed THEN strtos(s, 1, base, t) ELSE strtou(s, 1, base, t)
         IN  /\ r.end = Says(s, base).end
             /\ r.error \in {0, ERANGE}
             /\ ReadsAs(Says(s, base), t, signed, r.val, r.error = ERANGE)
  <1> DEFINE neg    == At(s, StartOf(s, 1)) = "-"
             lower  == IF signed THEN LeastOf(t) ELSE 0
             upper  == IF signed THEN GreatestOf(t) ELSE Modulus[t] - 1
             limit  == LimitOf(neg, lower, upper)
             b      == BaseAt(s, 1, base).base
             digits == DigitsOf(s, 1, base)
             size   == NumberOf(digits, b)
             says   == Says(s, base)
             x      == __strtox(s, 1, base, lower, upper)
             r      == IF signed THEN strtos(s, 1, base, t) ELSE strtou(s, 1, base, t)
             mine(v) == IF signed THEN SignedOf(v, t) ELSE Cut(v, t)
             exact  == IF says.minus THEN -says.size ELSE says.size
             fits   == IF signed THEN exact \in LeastOf(t) .. GreatestOf(t) ELSE says.size < Modulus[t]
             most   == IF ~signed THEN Modulus[t] - 1 ELSE IF says.minus THEN -LeastOf(t) ELSE GreatestOf(t)
             Noticed(v) == most < v /\ v < Modulus["llong"] + v \div says.base
  <1>1. limit \in Nat /\ limit < Round
    BY LimitFacts
  <1>2. 1 \in 1 .. (Len(s) + 1)
    BY LenProperties, SMT
  <1>3. PICK m, o : Result(x, s, 1, base, lower, upper, m, o)
    BY <1>1, <1>2, StrtoxFacts
  <1>4. /\ x = [val |-> IF neg THEN -m ELSE m, end |-> ToOf(s, 1, base), error |-> IF o THEN ERANGE ELSE 0]
        /\ o \in BOOLEAN /\ size \in Nat
        /\ m = IF o THEN limit ELSE size % Round
        /\ size <= limit => ~o
        /\ \A k \in 1 .. Len(digits) : Beyond(NumberOf(SubSeq(digits, 1, k), b), b, limit) => o
    BY <1>3 DEF Result
  <1>5. /\ says.minus <=> neg
        /\ says.base = b
        /\ says.end = ToOf(s, 1, base)
        /\ says.size = size
        /\ \A v \in says.prefixes : v = 0 \/ \E k \in 1 .. Len(digits) : v = NumberOf(SubSeq(digits, 1, k), b)
    BY SaysFacts
  <1>6. r = [x EXCEPT !.val = mine(x.val)]
    BY DEF strtos, strtou
  <1> HIDE DEF x, r
  <1>7. r.val = mine(IF neg THEN -m ELSE m) /\ r.end = ToOf(s, 1, base)
        /\ r.error = IF o THEN ERANGE ELSE 0
    <2>1. x.val = (IF neg THEN -m ELSE m) /\ r = [val |-> mine(x.val), end |-> ToOf(s, 1, base), error |-> IF o THEN ERANGE ELSE 0]
      <3> HIDE DEF mine, neg
      <3>1. QED
        BY <1>4, <1>6
    <2> HIDE DEF mine, neg
    <2>2. QED
      BY <2>1
  <1>8. (r.error = ERANGE <=> o) /\ r.error \in {0, ERANGE}
    BY <1>4, <1>7 DEF ERANGE
  <1>9. most = limit
    BY <1>5, LimitFacts
  <1>10. fits <=> size <= limit
    BY <1>4, <1>5, LimitFacts
  <1>11. ~o => r.val = mine(exact)
    <2>1. size \in Nat
      BY <1>4
    <2>2. mine(size % Round) = mine(size) /\ mine(-(size % Round)) = mine(-size)
      <3> HIDE DEF size
      <3>1. QED
        BY <2>1, CutFacts
    <2> HIDE DEF mine, size, neg, says
    <2>3. QED
      BY <1>4, <1>5, <1>7, <2>2
  <1>12. ASSUME ~o, NEW v \in says.prefixes PROVE ~Noticed(v)
    <2>1. CASE v = 0
      BY <1>1, <1>9, <2>1, SMT
    <2>2. CASE v # 0
      <3>1. PICK k \in 1 .. Len(digits) : v = NumberOf(SubSeq(digits, 1, k), b)
        BY <1>5, <2>2
      <3>2. ~Beyond(v, b, limit)
        BY <1>4, <1>12, <3>1
      <3>3. QED
        BY <1>5, <1>9, <3>2 DEF Beyond, Round
    <2>3. QED
      BY <2>1, <2>2
  <1>13. \/ fits /\ r.val = mine(exact) /\ ~o
         \/ ~fits /\ o /\ r.val = mine(IF says.minus THEN -most ELSE most)
         \/ ~fits /\ ~o /\ r.val = mine(exact) /\ ~\E v \in says.prefixes : Noticed(v)
    <2>1. CASE o
      <3>1. ~fits
        BY <1>4, <1>10, <2>1
      <3>2. r.val = mine(IF says.minus THEN -most ELSE most)
        <4>1. m = most /\ (says.minus <=> neg)
          BY <1>4, <1>5, <1>9, <2>1
        <4> HIDE DEF mine, most, neg, says
        <4>2. QED
          BY <1>7, <4>1
      <3>3. QED
        BY <2>1, <3>1, <3>2
    <2>2. CASE ~o
      <3> HIDE DEF mine, Noticed, says, fits
      <3>1. QED
        BY <1>11, <1>12, <2>2
    <2>3. QED
      BY <2>1, <2>2
  <1>14. ReadsAs(says, t, signed, r.val, r.error = ERANGE)
    BY <1>8, <1>13 DEF ReadsAs
  <1>15. QED
    BY <1>5, <1>7, <1>8, <1>14 DEF r, says

\* atol() makes the number modulo the round of a long.
LEMMA SumOfLong ==
  ASSUME NEW s, Len(s) \in Nat
  PROVE  LET ret == CHOOSE h : h = [i \in 0 .. Len(s) |->
                      IF i = 0 THEN 0 ELSE Cut(h[i - 1] * 10 + Value(s[i]), "long")]
         IN  NumberOf(s, 10) \in Nat /\ ret[Len(s)] = Cut(NumberOf(s, 10), "long")
  <1> DEFINE k == Len(s)
             M == Modulus["long"]
             Rhs(h, i) == IF i = 0 THEN 0 ELSE Cut(h[i - 1] * 10 + Value(s[i]), "long")
             g == CHOOSE h : h = [i \in 0 .. k |-> Rhs(h, i)]
             step == [i \in 1 .. k |-> [v \in Nat |-> Cut(v * 10 + Value(s[i]), "long")]]
  <1>1. M \in Nat /\ M > 0
    <2>1. M \in Nat /\ M >= 2
      BY ModulusFacts DEF IntType
    <2> HIDE DEF M
    <2>2. QED
      BY <2>1, SMT
  <1> HIDE DEF M
  <1>2. ASSUME NEW i \in 1 .. k, NEW v \in Nat PROVE Cut(v * 10 + Value(s[i]), "long") \in Nat
    <2> DEFINE d == Value(s[i])
               n == v * 10 + d
    <2>1. d \in 0 .. 36
      BY ValueRange
    <2> HIDE DEF d
    <2>2. n \in Nat
      BY <2>1, SMT
    <2> HIDE DEF n
    <2>3. n % M \in 0 .. (M - 1)
      BY <1>1, <2>2, ModFacts
    <2>4. n % M \in Nat
      BY <1>1, <2>3, SMT
    <2>5. QED
      BY <2>4 DEF n, d, M, Cut
  <1>3. step \in [1 .. k -> [Nat -> Nat]]
    BY <1>2
  <1>4. k \in Nat /\ k \in 0 .. k /\ 10 \in Nat
    BY SMT
  <1> HIDE DEF k
  <1>5. PICK h : Chain(h, k, Nat, 0, step)
    <2> HIDE DEF step
    <2>1. QED
      BY <1>3, <1>4, RecursionUpTo
  <1>6. h = [i \in 0 .. k |-> Rhs(h, i)]
    <2>1. h \in [0 .. k -> Nat]
      BY <1>5 DEF Chain
    <2>2. ASSUME NEW i \in 0 .. k PROVE h[i] = Rhs(h, i)
      <3>1. CASE i = 0
        BY <1>5, <3>1 DEF Chain
      <3>2. CASE i # 0
        <4>1. i \in 1 .. k /\ i - 1 \in 0 .. k
          BY <1>4, <3>2, SMT
        <4>2. h[i] = step[i][h[i - 1]] /\ h[i - 1] \in Nat
          BY <1>5, <4>1 DEF Chain
        <4>3. QED
          BY <3>2, <4>1, <4>2
      <3>3. QED
        BY <3>1, <3>2
    <2>3. QED
      BY <2>1, <2>2
  <1>7. g = [i \in 0 .. k |-> Rhs(g, i)]
    BY <1>6
  <1>8. PICK f : Beginnings(f, s, 10) /\ NumberOf(s, 10) = f[k]
    BY <1>4, NumberOfIsLast DEF k
  <1>9. /\ f[0] = 0 /\ \A i \in 0 .. k : f[i] \in Nat
        /\ \A i \in 1 .. k : f[i] = 10 * f[i - 1] + Value(s[i])
    BY <1>8 DEF Beginnings, k
  <1> DEFINE u == [i \in 0 .. k |-> f[i] % M]
  <1>10. SameSteps(g, u, k)
    <2>1. g[0] = 0 /\ u[0] = 0
      <3>1. 0 \in 0 .. k /\ 0 % M = 0
        BY <1>1, <1>4, ModFacts, SMT
      <3>2. QED
        BY <1>7, <1>9, <3>1
    <2>2. ASSUME NEW i \in 1 .. k, g[i - 1] = u[i - 1] PROVE g[i] = u[i]
      <3>1. i \in 0 .. k /\ i - 1 \in 0 .. k /\ i # 0
        BY <1>4, SMT
      <3>2. g[i] = Cut(g[i - 1] * 10 + Value(s[i]), "long")
        BY <1>7, <3>1
      <3>3. u[i - 1] = f[i - 1] % M /\ u[i] = f[i] % M
        BY <3>1
      <3> DEFINE x == f[i - 1]
                 d == Value(s[i])
      <3>4. x \in Nat /\ f[i] = 10 * x + d /\ d \in 0 .. 36
        BY <1>9, <3>1, ValueRange
      <3> HIDE DEF x, d
      <3>5. x \in Int /\ d \in Int /\ 10 \in Int /\ x * 10 + d = 10 * x + d
        BY <3>4, SMT
      <3>6. ((x % M) * 10 + d) % M = (x * 10 + d) % M
        BY <1>1, <3>5, ModBefore
      <3> HIDE DEF g, u
      <3>7. g[i] = ((x % M) * 10 + d) % M
        BY <2>2, <3>2, <3>3 DEF x, d, Cut, M
      <3>8. QED
        BY <3>3, <3>4, <3>5, <3>6, <3>7
    <2> HIDE DEF g, u
    <2>3. QED
      BY <2>1, <2>2 DEF SameSteps
  <1>11. g[k] = u[k]
    <2> HIDE DEF g, u
    <2>1. \A i \in 0 .. k : g[i] = u[i]
      BY <1>4, <1>10, ChainsAgree
    <2>2. QED
      BY <1>4, <2>1
  <1>12. g[k] = Cut(f[k], "long") /\ f[k] \in Nat
    BY <1>4, <1>9, <1>11 DEF Cut, M
  <1>13. QED
    BY <1>8, <1>12 DEF k

\* atol() reads what the string says, if there is nothing in front of it.
LEMMA AtolFacts ==
  ASSUME NEW X, NEW s \in Seq(X), ~IsSpace(At(s, 1)), At(s, 1) # "+"
  PROVE  LET says == Says(s, 10)
         IN  atol(s) = SignedOf(IF says.minus THEN -says.size ELSE says.size, "long")
  <1> DEFINE from   == IF At(s, 1) = "-" THEN 2 ELSE 1
             digits == SubSeq(s, from, BehindDigits(s, from, 10) - 1)
             ret    == CHOOSE h : h = [i \in 0 .. Len(digits) |->
                         IF i = 0 THEN 0 ELSE Cut(h[i - 1] * 10 + Value(digits[i]), "long")]
             size   == NumberOf(digits, 10)
             says   == Says(s, 10)
  <1>1. atol(s) = SignedOf(IF from = 2 THEN -ret[Len(digits)] ELSE ret[Len(digits)], "long")
    BY DEF atol
  <1>2. Len(s) \in Nat /\ 1 \in 1 .. (Len(s) + 1) /\ 10 \in 0 .. 36
    BY LenProperties, SMT
  <1>3. StartOf(s, 1) = 1
    <2>1. IsBehindSpaces(1, s, 1)
      <3>1. ~\E j \in 1 .. (1 - 1) : TRUE
        BY SMT
      <3>2. QED
        BY <1>2, <3>1 DEF IsBehindSpaces
    <2>2. QED
      BY <1>2, <2>1, BehindSpacesFacts DEF StartOf
  <1>4. SignAt(s, 1) = from /\ (At(s, StartOf(s, 1)) = "-" <=> At(s, 1) = "-")
    BY <1>3 DEF SignAt
  <1>5. BaseAt(s, 1, 10).base = 10 /\ FromOf(s, 1, 10) = from
    <2>1. SignAt(s, 1) \in 1 .. (Len(s) + 1)
      BY <1>2, PlacesInString
    <2>2. Base(s, SignAt(s, 1), 10) = [base |-> 10, skip |-> 0]
      BY SMT DEF Base
    <2>3. SignAt(s, 1) + 0 = SignAt(s, 1)
      BY <2>1, SMT
    <2>4. QED
      BY <1>4, <2>2, <2>3 DEF BaseAt, FromOf
  <1>6. digits = DigitsOf(s, 1, 10)
    BY <1>5 DEF DigitsOf, ToOf
  <1>7. digits \in Seq(X)
    BY <1>2, <1>6, PlacesInString
  <1>8. (says.minus <=> At(s, 1) = "-") /\ says.size = size
    <2> DEFINE start == At(s, StartOf(s, 1)) = "-"
               b     == BaseAt(s, 1, 10).base
               own   == DigitsOf(s, 1, 10)
    <2>1. (says.minus <=> start) /\ says.size = NumberOf(own, b)
      BY ONLY <1>2, s \in Seq(X), NumbersAssumption, SaysFacts
    <2> HIDE DEF says, start, b, own, digits
    <2>2. (start <=> At(s, 1) = "-") /\ b = 10 /\ own = digits
      BY <1>4, <1>5, <1>6 DEF start, b, own
    <2>3. QED
      BY <2>1, <2>2 DEF size
  <1>9. Len(digits) \in Nat
    BY <1>7, LenProperties
  <1> HIDE DEF digits, says
  <1>10. size \in Nat /\ ret[Len(digits)] = Cut(size, "long")
    BY <1>9, SumOfLong
  <1> HIDE DEF size, ret
  <1>11. SignedOf(Cut(size, "long"), "long") = SignedOf(size, "long")
         /\ SignedOf(-Cut(size, "long"), "long") = SignedOf(-size, "long")
    <2> DEFINE M == Modulus["long"]
    <2>1. M \in Nat /\ M >= 2 /\ size \in Int
      <3>1. M \in Nat /\ M >= 2
        BY ModulusFacts DEF IntType
      <3>2. size \in Int
        BY <1>10, SMT
      <3>3. QED
        BY <3>1, <3>2
    <2> HIDE DEF M
    <2>2. M > 0
      BY <2>1, SMT
    <2>3. (-(size % M)) % M = (-size) % M
      BY <2>1, <2>2, ModBefore
    <2>4. (size % M) % M = size % M
      <3>1. size % M \in 0 .. (M - 1)
        BY <2>1, <2>2, ModNear
      <3> DEFINE r == size % M
      <3> HIDE DEF r
      <3>2. r \in Nat /\ r < M
        BY <2>1, <3>1, SMT DEF r
      <3>3. r % M = r
        BY <2>1, <2>2, <3>2, ModFacts
      <3>4. QED
        BY <3>3 DEF r
    <2>5. Cut(Cut(size, "long"), "long") = Cut(size, "long") /\ Cut(-Cut(size, "long"), "long") = Cut(-size, "long")
      BY <2>3, <2>4 DEF Cut, M
    <2>6. QED
      BY <2>5 DEF SignedOf
  <1>12. QED
    <2>1. CASE At(s, 1) = "-"
      <3>1. from = 2
        BY <2>1
      <3>2. QED
        BY <1>1, <1>8, <1>10, <1>11, <2>1, <3>1 DEF says
    <2>2. CASE At(s, 1) # "-"
      <3>1. from = 1 /\ 1 # 2
        BY <2>2
      <3>2. QED
        BY <1>1, <1>8, <1>10, <1>11, <2>2, <3>1 DEF says
    <2>3. QED
      BY <2>1, <2>2

\* A number that is written is its numeral.
LEMMA WriteDefined ==
  ASSUME NEW t \in {"long", "llong"}, WriteCall(t)
  PROVE  NumbersAsDefined'
  <1>1. t \in IntType
    BY DEF IntType
  <1>2. ASSUME NEW v \in 0 .. (Modulus[t] - 1), WritesText("utoa", t, v, utoa_r(v, t))
        PROVE  NumbersAsDefined'
    <2>1. conv'.fn = "utoa" /\ conv'.number = v /\ answer'.text = utoa_r(v, t)
      BY <1>2 DEF WritesText, Conv, Answer
    <2>2. IsNumeralOf(utoa_r(v, t), v, 10)
      BY <1>1, DecimalsWritten DEF IsWritten
    <2>3. QED
      BY <2>1, <2>2, Zenon DEF NumbersAsDefined
  <1>3. ASSUME NEW v \in 0 .. (Modulus[t] - 1), WritesText("utoh", t, v, utoh_r(v, t))
        PROVE  NumbersAsDefined'
    <2>1. conv'.fn = "utoh" /\ conv'.number = v /\ answer'.text = utoh_r(v, t)
      BY <1>3 DEF WritesText, Conv, Answer
    <2>2. IsNumeralOf(utoh_r(v, t), v, 16)
      BY <1>1, HexadecimalsWritten DEF IsWritten
    <2>3. QED
      BY <2>1, <2>2 DEF NumbersAsDefined
  <1>4. ASSUME NEW v \in LeastOf(t) .. GreatestOf(t), WritesText("itoa", t, v, itoa_r(v, t))
        PROVE  NumbersAsDefined'
    <2>1. conv'.fn = "itoa" /\ conv'.number = v /\ answer'.text = itoa_r(v, t)
      BY <1>4 DEF WritesText, Conv, Answer
    <2>2. v \in Int
      BY <1>1, LimitFacts, SMT
    <2>3. CASE v >= 0 /\ IsWritten(itoa_r(v, t), v, 10)
      <3>1. ~(v < 0)
        BY <2>2, <2>3, SMT
      <3>2. QED
        BY <2>1, <2>3, <3>1 DEF NumbersAsDefined, IsWritten
    <2>4. CASE /\ v < 0 /\ itoa_r(v, t) = <<"-">> \o utoa_r(-v, t)
               /\ IsWritten(utoa_r(-v, t), -v, 10)
      <3> DEFINE text == utoa_r(-v, t)
      <3>1. text \in Seq(Symbols(10)) /\ IsNumeralOf(text, -v, 10)
        BY <2>4 DEF IsWritten
      <3>2. (<<"-">> \o text)[1] = "-" /\ Tail(<<"-">> \o text) = text
        BY <3>1
      <3>3. QED
        BY <2>1, <2>4, <3>1, <3>2 DEF NumbersAsDefined
    <2>5. QED
      BY <1>1, <2>3, <2>4, SignedWritten
  <1>5. QED
    BY <1>2, <1>3, <1>4 DEF WriteCall

\* A number that is read is what the string says.
LEMMA ReadDefined ==
  ASSUME NEW s \in NumberText, errno = 0, ReadCall(s)
  PROVE  NumbersAsDefined'
  <1> DEFINE X == STRING \ {End}
  <1>1. s \in Seq(X)
    BY NumbersAssumption
  <1> HIDE DEF X
  <1>2. CASE ReadsNumber("atol", "long", s, 10, [val |-> atol(s), end |-> 1, error |-> 0])
    <2> DEFINE says == Says(s, 10)
               val  == SignedOf(IF says.minus THEN -says.size ELSE says.size, "long")
    <2>1. conv'.fn = "atol" /\ conv'.text = s /\ answer'.val = atol(s)
      BY <1>2 DEF ReadsNumber, Conv, Answer
    <2>2. ~IsSpace(At(s, 1)) /\ At(s, 1) # "+" => atol(s) = val
      BY ONLY <1>1, NumbersAssumption, AtolFacts
    <2>3. QED
      BY <2>1, <2>2 DEF NumbersAsDefined
  <1>3. ASSUME NEW base \in BaseArg, NEW t \in {"long", "llong"}, NEW signed \in BOOLEAN,
               LET r == IF signed THEN strtos(s, 1, base, t) ELSE strtou(s, 1, base, t)
               IN  ReadsNumber(IF signed THEN "strtos" ELSE "strtou", t, s, base, r)
        PROVE  NumbersAsDefined'
    <2> DEFINE fn == IF signed THEN "strtos" ELSE "strtou"
               r  == IF signed THEN strtos(s, 1, base, t) ELSE strtou(s, 1, base, t)
               says == Says(s, base)
    <2>1. conv'.fn = fn /\ conv'.text = s /\ conv'.base = base /\ conv'.type = t
      BY <1>3 DEF ReadsNumber, Conv
    <2>2. answer'.val = r.val /\ answer'.end = r.end
      BY <1>3 DEF ReadsNumber, Answer
    <2>3. errno' = IF r.error # 0 THEN r.error ELSE 0
      BY <1>3 DEF ReadsNumber, SET_ERRNO
    <2>4. t \in IntType /\ fn \in {"strtos", "strtou"} /\ (fn = "strtos" <=> signed)
      BY DEF IntType
    <2>5. CASE base \in 0 .. 36
      <3>1. r.end = says.end /\ r.error \in {0, ERANGE} /\ ReadsAs(says, t, signed, r.val, r.error = ERANGE)
        <4>1. LET own == IF signed THEN strtos(s, 1, base, t) ELSE strtou(s, 1, base, t)
              IN  /\ own.end = Says(s, base).end
                  /\ own.error \in {0, ERANGE}
                  /\ ReadsAs(Says(s, base), t, signed, own.val, own.error = ERANGE)
          <5> HIDE DEF r, says, fn
          <5>1. s \in Seq(X) /\ t \in IntType /\ base \in 0 .. 36 /\ signed \in BOOLEAN
            BY <1>1, <2>4, <2>5
          <5>2. QED
            BY <5>1, ReadsWhatTextSays, Zenon
        <4>2. QED
          BY <4>1
      <3> HIDE DEF r, says
      <3>2. errno' = r.error
        BY <2>3, <3>1
      <3>3. ReadsAs(says, t, fn = "strtos", answer'.val, errno' = ERANGE)
        BY <2>2, <2>4, <3>1, <3>2
      <3> HIDE DEF fn
      <3>4. QED
        BY <2>1, <2>2, <2>4, <2>5, <3>1, <3>3 DEF NumbersAsDefined, says
    <2>6. CASE base \notin 0 .. 36
      <3>1. /\ __strtox(s, 1, base, LeastOf(t), GreatestOf(t)) = [val |-> 0, end |-> 1, error |-> EINVAL]
            /\ __strtox(s, 1, base, 0, Modulus[t] - 1) = [val |-> 0, end |-> 1, error |-> EINVAL]
        BY <2>6 DEF __strtox
      <3>2. Cut(0, t) = 0 /\ SignedOf(0, t) = 0
        <4> DEFINE m == Modulus[t]
                   h == m \div 2
        <4>1. m \in Nat /\ m >= 2 /\ h \in Nat /\ m = 2 * h
          BY <2>4, ModulusFacts
        <4> HIDE DEF h
        <4>2. 0 \in Nat /\ 0 < m /\ m > 0 /\ ~(0 >= h)
          BY <4>1, SMT
        <4>3. 0 % m = 0
          BY <4>1, <4>2, ModFacts
        <4>4. QED
          BY <4>2, <4>3 DEF Cut, SignedOf, h
      <3>3. r.val = 0 /\ r.end = 1 /\ r.error = EINVAL
        BY <3>1, <3>2 DEF strtos, strtou
      <3> HIDE DEF r
      <3>4. errno' = EINVAL
        BY <2>3, <3>3 DEF EINVAL
      <3> HIDE DEF fn
      <3>5. QED
        BY <2>1, <2>2, <2>4, <2>6, <3>3, <3>4 DEF NumbersAsDefined
    <2>7. QED
      BY <2>5, <2>6
  <1>4. ASSUME NEW base \in BaseArg, NEW t \in {"long", "llong"}, ReadsNumber("strtos", t, s, base, strtos(s, 1, base, t))
        PROVE  NumbersAsDefined'
    BY <1>3, <1>4
  <1>5. ASSUME NEW base \in BaseArg, NEW t \in {"long", "llong"}, ReadsNumber("strtou", t, s, base, strtou(s, 1, base, t))
        PROVE  NumbersAsDefined'
    BY <1>3, <1>5
  <1>6. QED
    BY <1>2, <1>4, <1>5 DEF ReadCall

\* Before the call there is no error; afterwards the call is what its definition says.
NumbersInv ==
  /\ NumbersAsDefined
  /\ part = "numbers" /\ conv.fn = "none" => errno = 0
  /\ part # "numbers" => conv.fn = "none"

\* Before the first call the results are as defined.
LEMMA NumbersInvStarts == TextInit => NumbersInv
  <1>1. TextInit => errno = 0 /\ conv.fn = "none"
    <2>1. NumbersInit => conv.fn = "none"
      <3>1. \A f, t, v, s, base : Conv(f, t, v, s, base).fn = f
        BY DEF Conv
      <3>2. NumbersInit => \E t, s : conv = Conv("none", t, 0, s, 0)
        BY Zenon DEF NumbersInit
      <3>3. QED
        BY <3>1, <3>2
    <2>2. TextInit => NumbersInit /\ errno = 0
      BY Zenon DEF TextInit
    <2>3. QED
      BY <2>1, <2>2
  <1>2. conv.fn = "none" => NumbersAsDefined
    BY DEF NumbersAsDefined
  <1>3. QED
    BY <1>1, <1>2 DEF NumbersInv

\* Every conversion, and every step of sscanf(), keeps them so.
LEMMA NumbersInvKept ==
  NumbersInv /\ [TextNext]_<<numbersVars, scanfVars, errno, part>> => NumbersInv'
  <1> SUFFICES ASSUME NumbersInv, [TextNext]_<<numbersVars, scanfVars, errno, part>>
               PROVE  NumbersInv'
    OBVIOUS
  <1>1. CASE part = "numbers" /\ NumbersNext /\ UNCHANGED <<scanfVars, part>>
    <2>1. conv.fn = "none" /\ errno = 0 /\ part' = "numbers"
      BY <1>1 DEF NumbersNext, NumbersInv
    <2>2. NumbersAsDefined' /\ conv'.fn # "none"
      <3>1. ASSUME NEW t \in {"long", "llong"}, WriteCall(t) PROVE NumbersAsDefined' /\ conv'.fn # "none"
        BY <3>1, WriteDefined DEF WriteCall, WritesText, Conv
      <3>2. ASSUME NEW s \in NumberText, ReadCall(s) PROVE NumbersAsDefined' /\ conv'.fn # "none"
        BY <2>1, <3>2, ReadDefined DEF ReadCall, ReadsNumber, Conv
      <3>3. QED
        BY <1>1, <3>1, <3>2 DEF NumbersNext
    <2>3. QED
      BY <2>1, <2>2 DEF NumbersInv
  <1>2. CASE part = "scanf" /\ ScanfNext /\ UNCHANGED <<numbersVars, part>>
    <2>1. conv.fn = "none" /\ conv' = conv /\ part' = "scanf"
      BY <1>2 DEF NumbersInv, numbersVars
    <2>2. NumbersAsDefined'
      BY <2>1 DEF NumbersAsDefined
    <2>3. QED
      BY <2>1, <2>2 DEF NumbersInv
  <1>3. CASE UNCHANGED <<numbersVars, scanfVars, errno, part>>
    BY <1>3 DEF NumbersInv, NumbersAsDefined, numbersVars
  <1>4. QED
    BY <1>1, <1>2, <1>3 DEF TextNext

-----------------------------------------------------------------------------
(* Sequences one behind the other.                                         *)

\* The beginnings that Joined() makes.
Upto(ss) == CHOOSE f : f = [i \in 0 .. Len(ss) |-> IF i = 0 THEN <<>> ELSE f[i - 1] \o ss[i]]

\* One is a beginning of another.
Begins(x, s) == Len(x) <= Len(s) /\ \A j \in 1 .. Len(x) : s[j] = x[j]

\* What Joined() takes is the last of the beginnings, and each is the one before with the
\* next sequence behind it.
LEMMA JoinedIsLast ==
  ASSUME NEW X, NEW ss \in Seq(Seq(X))
  PROVE  /\ Joined(ss) = Upto(ss)[Len(ss)]
         /\ Upto(ss)[0] = <<>>
         /\ \A i \in 0 .. Len(ss) : Upto(ss)[i] \in Seq(X)
         /\ \A i \in 1 .. Len(ss) : Upto(ss)[i] = Upto(ss)[i - 1] \o ss[i]
  <1> DEFINE k == Len(ss)
             V == Seq(X)
             Rhs(h, i) == IF i = 0 THEN <<>> ELSE h[i - 1] \o ss[i]
             g == CHOOSE h : h = [i \in 0 .. k |-> Rhs(h, i)]
             step == [i \in 1 .. k |-> [v \in V |-> v \o ss[i]]]
  <1>1. k \in Nat /\ \A i \in 1 .. k : ss[i] \in V
    BY LenProperties, ElementOfSeq
  <1>2. step \in [1 .. k -> [V -> V]]
    <2>1. ASSUME NEW i \in 1 .. k, NEW v \in V PROVE v \o ss[i] \in V
      BY <1>1, ConcatProperties
    <2> HIDE DEF k, V
    <2>2. QED
      BY <2>1
  <1>3. <<>> \in V
    BY EmptySeq
  <1>4. Joined(ss) = g[k] /\ Upto(ss) = g
    BY DEF Joined, Upto
  <1> HIDE DEF k, V
  <1>5. PICK f : Chain(f, k, V, <<>>, step)
    <2> HIDE DEF step
    <2>1. QED
      BY <1>1, <1>2, <1>3, RecursionUpTo
  <1>6. f = [i \in 0 .. k |-> Rhs(f, i)]
    <2>1. f \in [0 .. k -> V]
      BY <1>5 DEF Chain
    <2>2. ASSUME NEW i \in 0 .. k PROVE f[i] = Rhs(f, i)
      <3>1. CASE i = 0
        BY <1>5, <3>1 DEF Chain
      <3>2. CASE i # 0
        <4>1. i \in 1 .. k /\ i - 1 \in 0 .. k
          BY <1>1, <3>2, SMT
        <4>2. f[i] = step[i][f[i - 1]] /\ f[i - 1] \in V
          BY <1>5, <4>1 DEF Chain
        <4>3. QED
          BY <3>2, <4>1, <4>2
      <3>3. QED
        BY <3>1, <3>2
    <2>3. QED
      BY <2>1, <2>2
  <1>7. g = [i \in 0 .. k |-> Rhs(g, i)]
    BY <1>6
  <1> HIDE DEF g
  <1>8. g = [i \in 0 .. k |-> g[i]]
    BY <1>7
  <1>9. g[0] = <<>>
    BY <1>1, <1>7, SMT
  <1>10. ASSUME NEW i \in 1 .. k PROVE g[i] = g[i - 1] \o ss[i]
    <2>1. i \in 0 .. k /\ i # 0
      BY <1>1, SMT
    <2>2. QED
      BY <1>7, <2>1
  <1>11. Chain(g, k, V, <<>>, step)
    <2>1. \A i \in 1 .. k : g[i - 1] \in V => g[i] = step[i][g[i - 1]]
      BY <1>10
    <2> HIDE DEF step
    <2>2. QED
      BY <1>1, <1>2, <1>3, <1>8, <1>9, <2>1, ChainByStep
  <1>12. QED
    BY <1>4, <1>9, <1>10, <1>11 DEF Chain, k, V

\* Where each sequence lies in what is joined.
IsJoined(s, f, ss, X) ==
  /\ s \in Seq(X) /\ f[0] = <<>> /\ f[Len(ss)] = s /\ Len(ss) \in Nat
  /\ \A m \in 0 .. Len(ss) : f[m] \in Seq(X) /\ Len(f[m]) <= Len(s)
  /\ \A m \in 1 .. Len(ss) : /\ ss[m] \in Seq(X) /\ f[m] = f[m - 1] \o ss[m]
                             /\ Len(f[m]) = Len(f[m - 1]) + Len(ss[m])
                             /\ \A j \in 1 .. Len(ss[m]) : s[Len(f[m - 1]) + j] = ss[m][j]

\* Joined() puts the sequences one behind the other as IsJoined has it.
LEMMA JoinedFacts ==
  ASSUME NEW X, NEW ss \in Seq(Seq(X))
  PROVE  IsJoined(Joined(ss), Upto(ss), ss, X)
  <1> DEFINE n == Len(ss)
             f == Upto(ss)
             s == Joined(ss)
             B == {d \in 0 .. n : Begins(f[n - d], s)}
  <1>1. n \in Nat /\ \A i \in 1 .. n : ss[i] \in Seq(X)
    BY LenProperties, ElementOfSeq
  <1>2. /\ s = f[n] /\ f[0] = <<>>
        /\ \A i \in 0 .. n : f[i] \in Seq(X)
        /\ \A i \in 1 .. n : f[i] = f[i - 1] \o ss[i]
    BY JoinedIsLast
  <1> HIDE DEF n, f, s
  <1>3. ASSUME NEW i \in 1 .. n
        PROVE  /\ f[i - 1] \in Seq(X) /\ f[i] \in Seq(X) /\ ss[i] \in Seq(X)
               /\ Len(f[i - 1]) \in Nat /\ Len(ss[i]) \in Nat /\ Len(f[i]) = Len(f[i - 1]) + Len(ss[i])
               /\ \A j \in 1 .. Len(f[i - 1]) : f[i][j] = f[i - 1][j]
               /\ \A j \in 1 .. Len(ss[i]) : f[i][Len(f[i - 1]) + j] = ss[i][j]
    <2> DEFINE a == f[i - 1]
               b == ss[i]
               c == f[i]
    <2>1. i - 1 \in 0 .. n /\ i \in 0 .. n
      BY <1>1, SMT
    <2>2. a \in Seq(X) /\ b \in Seq(X) /\ c = a \o b /\ c \in Seq(X)
      BY <1>1, <1>2, <2>1
    <2> HIDE DEF a, b, c
    <2>3. Len(a) \in Nat /\ Len(b) \in Nat
      BY <2>2, LenProperties
    <2>4. /\ Len(c) = Len(a) + Len(b)
          /\ \A j \in 1 .. Len(a) + Len(b) : c[j] = IF j <= Len(a) THEN a[j] ELSE b[j - Len(a)]
      BY <2>2, ConcatProperties
    <2>5. \A j \in 1 .. Len(a) : c[j] = a[j]
      <3>1. \A j \in 1 .. Len(a) : j \in 1 .. Len(a) + Len(b) /\ j <= Len(a)
        BY <2>3, SMT
      <3>2. QED
        BY <2>4, <3>1
    <2>6. \A j \in 1 .. Len(b) : c[Len(a) + j] = b[j]
      <3>1. \A j \in 1 .. Len(b) : Len(a) + j \in 1 .. Len(a) + Len(b) /\ ~(Len(a) + j <= Len(a))
                                   /\ (Len(a) + j) - Len(a) = j
        BY <2>3, SMT
      <3>2. QED
        BY <2>4, <3>1
    <2>7. QED
      BY <2>2, <2>3, <2>4, <2>5, <2>6 DEF a, b, c
  <1>4. 0 \in B
    <2>1. n - 0 = n /\ 0 \in 0 .. n
      BY <1>1, SMT
    <2>2. s \in Seq(X)
      BY <1>1, <1>2
    <2>3. Len(s) <= Len(s)
      BY <2>2, LenProperties, SMT
    <2>4. QED
      BY <1>2, <2>1, <2>3 DEF Begins
  <1>5. ASSUME NEW d \in 1 .. n, d - 1 \in B PROVE d \in B
    <2> DEFINE i == n - (d - 1)
    <2>1. i \in 1 .. n /\ n - d = i - 1 /\ d \in 0 .. n
      BY <1>1, SMT
    <2>2. Begins(f[i], s)
      BY <1>5
    <2> HIDE DEF i
    <2>3. Len(f[i - 1]) <= Len(f[i]) /\ Len(f[i]) \in Nat /\ Len(f[i - 1]) \in Nat
      <3> DEFINE a == Len(f[i - 1])
                 b == Len(ss[i])
                 c == Len(f[i])
      <3>1. c = a + b /\ a \in Nat /\ b \in Nat
        BY <1>3, <2>1
      <3> HIDE DEF a, b, c
      <3>2. a <= c /\ c \in Nat
        BY <3>1, SMT
      <3>3. QED
        BY <3>1, <3>2 DEF a, c
    <2>4. s \in Seq(X) /\ Len(s) \in Nat
      BY <1>1, <1>2, LenProperties
    <2>5. Begins(f[i - 1], s)
      <3>1. Len(f[i - 1]) <= Len(s)
        BY <2>2, <2>3, <2>4, SMT DEF Begins
      <3>2. \A j \in 1 .. Len(f[i - 1]) : j \in 1 .. Len(f[i])
        BY <2>3, SMT
      <3>3. \A j \in 1 .. Len(f[i - 1]) : s[j] = f[i - 1][j]
        BY <1>3, <2>1, <2>2, <3>2 DEF Begins
      <3>4. QED
        BY <3>1, <3>3 DEF Begins
    <2>6. QED
      BY <2>1, <2>5
  <1>6. \A m \in 0 .. n : Begins(f[m], s)
    <2>1. 0 .. n \subseteq B
      <3> HIDE DEF B
      <3>1. QED
        BY <1>1, <1>4, <1>5, InductionUpTo
    <2>2. ASSUME NEW m \in 0 .. n PROVE Begins(f[m], s)
      <3>1. n - m \in 0 .. n /\ n - (n - m) = m
        BY <1>1, SMT
      <3>2. QED
        BY <2>1, <3>1
    <2>3. QED
      BY <2>2
  <1>7. ASSUME NEW m \in 1 .. n, NEW j \in 1 .. Len(ss[m]) PROVE s[Len(f[m - 1]) + j] = ss[m][j]
    <2>1. m \in 0 .. n
      BY <1>1, SMT
    <2>2. Len(f[m - 1]) + j \in 1 .. Len(f[m])
      <3> DEFINE a == Len(f[m - 1])
                 b == Len(ss[m])
                 c == Len(f[m])
      <3>1. c = a + b /\ a \in Nat /\ b \in Nat /\ j \in 1 .. b
        BY <1>3
      <3> HIDE DEF a, b, c
      <3>2. a + j \in 1 .. c
        BY <3>1, SMT
      <3>3. QED
        BY <3>2 DEF a, c
    <2>3. s[Len(f[m - 1]) + j] = f[m][Len(f[m - 1]) + j]
      BY <1>6, <2>1, <2>2 DEF Begins
    <2>4. QED
      BY <1>3, <2>3
  <1>8. s \in Seq(X)
    BY <1>1, <1>2
  <1> HIDE DEF B
  <1>9. IsJoined(s, f, ss, X)
    BY <1>1, <1>2, <1>3, <1>6, <1>7, <1>8 DEF IsJoined, Begins, n
  <1>10. QED
    BY <1>9 DEF s, f

-----------------------------------------------------------------------------
(* What sscanf() reads with the strtol() family, at any place of a string.   *)

\* A number of a type, from its digits: the one of the text, if it is within the limit.
IsRead(r, s, at, base, t, signed) ==
  LET neg  == At(s, StartOf(s, at)) = "-"
      size == NumberOf(DigitsOf(s, at, base), BaseAt(s, at, base).base)
      most == IF signed THEN GreatestOf(t) ELSE Modulus[t] - 1
      read == IF neg THEN -size ELSE size
  IN  /\ r.end = ToOf(s, at, base) /\ r.val \in Int /\ size \in Nat
      /\ size <= most \/ (signed /\ neg /\ size <= -LeastOf(t))
           => r.error = 0 /\ r.val = IF signed THEN SignedOf(read, t) ELSE Cut(read, t)

\* Both ways of cutting a number give a number.
LEMMA CutIsNumber ==
  ASSUME NEW t \in IntType, NEW v \in Int
  PROVE  /\ Cut(v, t) \in 0 .. (Modulus[t] - 1) /\ Cut(v, t) \in Int /\ SignedOf(v, t) \in Int
         /\ v \in 0 .. (Modulus[t] - 1) => Cut(v, t) = v
         /\ v \in LeastOf(t) .. GreatestOf(t) => SignedOf(v, t) = v
  <1> DEFINE m == Modulus[t]
             h == m \div 2
             c == v % m
  <1>1. m \in Nat /\ m >= 2 /\ h \in Nat /\ m = 2 * h
    BY ModulusFacts
  <1> HIDE DEF m, h
  <1>2. m > 0
    BY <1>1, SMT
  <1>3. c \in 0 .. (m - 1)
    BY <1>1, <1>2, ModNear
  <1>4. v \in 0 .. (m - 1) => c = v
    <2>1. v \in 0 .. (m - 1) => v \in Nat /\ v < m
      BY <1>1, SMT
    <2>2. QED
      BY <1>1, <1>2, <2>1, ModFacts
  <1>5. v \in (-h) .. -1 => c = v + m
    <2>1. SUFFICES ASSUME v \in (-h) .. -1 PROVE c = v + m
      OBVIOUS
    <2>2. v = m * (-1) + (v + m) /\ v + m \in 0 .. (m - 1) /\ -1 \in Int
      BY <1>1, <2>1, SMT
    <2>3. (m * (-1) + (v + m)) % m = v + m
      BY <1>1, <1>2, <2>2, ModUnique
    <2>4. QED
      BY <2>2, <2>3
  <1> HIDE DEF c
  <1>6. SignedOf(v, t) = IF c >= h THEN c - m ELSE c
    BY DEF SignedOf, Cut, c, h, m
  <1>7. SignedOf(v, t) \in Int
    BY <1>1, <1>3, <1>6, SMT
  <1>8. ASSUME v \in (-h) .. (h - 1) PROVE SignedOf(v, t) = v
    <2>1. CASE v >= 0
      <3>1. v \in 0 .. (m - 1) /\ ~(v >= h)
        BY <1>1, <1>8, <2>1, SMT
      <3>2. QED
        BY <1>4, <1>6, <3>1
    <2>2. CASE ~(v >= 0)
      <3>1. v \in (-h) .. -1 /\ v + m >= h /\ (v + m) - m = v
        BY <1>1, <1>8, <2>2, SMT
      <3>2. QED
        BY <1>5, <1>6, <3>1
    <2>3. QED
      BY <2>1, <2>2
  <1>9. LeastOf(t) = -h /\ GreatestOf(t) = h - 1 /\ Cut(v, t) = c
    BY DEF LeastOf, GreatestOf, h, m, Cut, c
  <1>10. c \in Int
    BY <1>1, <1>3, SMT
  <1>11. QED
    BY <1>3, <1>4, <1>7, <1>8, <1>9, <1>10 DEF m

\* A number that is read is the one of the digits and its end is behind them.
LEMMA ReadNumber ==
  ASSUME NEW X, NEW s \in Seq(X), NEW at \in 1 .. (Len(s) + 1), NEW t \in IntType, NEW base \in 0 .. 36,
         NEW signed \in BOOLEAN
  PROVE  IsRead(IF signed THEN strtos(s, at, base, t) ELSE strtou(s, at, base, t), s, at, base, t, signed)
  <1> DEFINE neg    == At(s, StartOf(s, at)) = "-"
             lower  == IF signed THEN LeastOf(t) ELSE 0
             upper  == IF signed THEN GreatestOf(t) ELSE Modulus[t] - 1
             limit  == LimitOf(neg, lower, upper)
             b      == BaseAt(s, at, base).base
             digits == DigitsOf(s, at, base)
             size   == NumberOf(digits, b)
             x      == __strtox(s, at, base, lower, upper)
             r      == IF signed THEN strtos(s, at, base, t) ELSE strtou(s, at, base, t)
             mine(v) == IF signed THEN SignedOf(v, t) ELSE Cut(v, t)
             read   == IF neg THEN -size ELSE size
  <1>1. limit \in Nat /\ limit < Round
    BY LimitFacts
  <1>2. PICK m, o : Result(x, s, at, base, lower, upper, m, o)
    BY <1>1, StrtoxFacts
  <1>3. /\ x = [val |-> IF neg THEN -m ELSE m, end |-> ToOf(s, at, base), error |-> IF o THEN ERANGE ELSE 0]
        /\ o \in BOOLEAN /\ size \in Nat
        /\ m = IF o THEN limit ELSE size % Round
        /\ size <= limit => ~o
    BY <1>2 DEF Result
  <1>4. r = [x EXCEPT !.val = mine(x.val)]
    BY DEF strtos, strtou
  <1>5. limit = IF ~signed THEN Modulus[t] - 1 ELSE IF neg THEN -LeastOf(t) ELSE GreatestOf(t)
    BY LimitFacts
  <1> HIDE DEF x, r, limit, size
  <1>6. r.val = mine(IF neg THEN -m ELSE m) /\ r.end = ToOf(s, at, base)
        /\ r.error = IF o THEN ERANGE ELSE 0
    <2>1. x.val = (IF neg THEN -m ELSE m) /\ r = [val |-> mine(x.val), end |-> ToOf(s, at, base), error |-> IF o THEN ERANGE ELSE 0]
      <3> HIDE DEF mine, neg
      <3>1. QED
        BY <1>3, <1>4
    <2> HIDE DEF mine, neg
    <2>2. QED
      BY <2>1
  <1>7. ~o => r.val = mine(read)
    <2>1. mine(size % Round) = mine(size) /\ mine(-(size % Round)) = mine(-size)
      BY <1>3, CutFacts
    <2> HIDE DEF mine, neg
    <2>2. QED
      BY <1>3, <1>6, <2>1
  <1>8. r.val \in Int
    <2>1. Round \in Nat /\ Round > 0
      <3>1. Round \in Nat /\ Modulus[t] <= Round /\ Modulus[t] \in Nat /\ Modulus[t] >= 2
        BY ModulusFacts DEF Round
      <3>2. QED
        BY <3>1, SMT
    <2>2. size % Round \in 0 .. (Round - 1)
      BY <1>3, <2>1, ModFacts
    <2>3. size % Round \in Int
      <3> DEFINE y == size % Round
      <3> HIDE DEF y
      <3>1. y \in 0 .. (Round - 1)
        BY <2>2 DEF y
      <3>2. y \in Int
        BY <2>1, <3>1, SMT
      <3>3. QED
        BY <3>2 DEF y
    <2>4. limit \in Int
      BY <1>1, SMT
    <2>5. m \in Int
      BY <1>3, <2>3, <2>4
    <2> DEFINE w == IF neg THEN -m ELSE m
    <2>6. w \in Int
      BY <2>5, SMT
    <2> HIDE DEF w
    <2>7. mine(w) \in Int
      BY <2>6, CutIsNumber
    <2>8. r.val = mine(w)
      BY <1>6 DEF w
    <2> HIDE DEF mine
    <2>9. QED
      BY <2>7, <2>8
  <1>9. ASSUME size <= upper \/ (signed /\ neg /\ size <= -LeastOf(t))
        PROVE  size <= limit
    <2>1. ~signed => upper = limit
      BY <1>5
    <2>2. signed => upper = GreatestOf(t) /\ (GreatestOf(t) <= -LeastOf(t))
      <3> DEFINE h == Modulus[t] \div 2
      <3>1. h \in Nat
        BY ModulusFacts
      <3> HIDE DEF h
      <3>2. h - 1 <= -(-h)
        BY <3>1, SMT
      <3>3. QED
        BY <3>2 DEF LeastOf, GreatestOf, h
    <2>3. -LeastOf(t) \in Nat /\ GreatestOf(t) \in Nat
      BY LimitFacts
    <2> HIDE DEF neg, upper
    <2>4. CASE ~signed
      BY <1>9, <2>1, <2>4
    <2>5. CASE signed /\ ~neg
      BY <1>5, <1>9, <2>2, <2>5
    <2>6. CASE signed /\ neg
      <3> DEFINE g == GreatestOf(t)
                 l == -LeastOf(t)
      <3>1. limit = l /\ (size <= g \/ size <= l) /\ g <= l /\ l \in Nat /\ g \in Nat
        BY <1>5, <1>9, <2>2, <2>3, <2>6
      <3> HIDE DEF g, l
      <3>2. QED
        BY <1>3, <3>1, SMT
    <2>7. QED
      BY <2>4, <2>5, <2>6
  <1>10. size <= limit => r.error = 0 /\ r.val = mine(read)
    <2> HIDE DEF mine, read
    <2>1. QED
      BY <1>3, <1>6, <1>7
  <1>11. IsRead(r, s, at, base, t, signed)
    BY <1>3, <1>6, <1>8, <1>9, <1>10 DEF IsRead, size
  <1>12. QED
    BY <1>11 DEF r

-----------------------------------------------------------------------------
(* What formats and texts are made of.                                     *)

\* The characters of the formats, the numerals and the texts.
Character == STRING \cup Sign \cup Digits \cup Small \cup Large

\* A conversion: the %, the letters l and the letter of the type.
LEMMA ConversionFormat ==
  ASSUME NEW l \in 0 .. 2, NEW c \in {"d", "u", "x", "p"}
  PROVE  LET s == <<"%">> \o [i \in 1 .. l |-> "l"] \o <<c>>
         IN  /\ s \in Seq(Character) /\ Len(s) = l + 2
             /\ s[1] = "%" /\ s[l + 2] = c /\ \A i \in 1 .. l : s[1 + i] = "l"
  <1> DEFINE a == <<"%">>
             b == [i \in 1 .. l |-> "l"]
             d == <<c>>
             s == a \o b
             u == s \o d
  <1>1. "%" \in Character /\ "l" \in Character /\ c \in Character
    BY DEF Character, Sign, Small
  <1> HIDE DEF Character
  <1>2. a \in Seq(Character) /\ Len(a) = 1 /\ a[1] = "%" /\ d \in Seq(Character) /\ Len(d) = 1 /\ d[1] = c
    BY <1>1
  <1>3. b \in Seq(Character) /\ Len(b) = l /\ \A i \in 1 .. l : b[i] = "l"
    <2>1. l \in Nat
      BY SMT
    <2>2. b \in [1 .. l -> Character]
      BY <1>1
    <2>3. b \in Seq(Character)
      BY <2>1, <2>2, SeqDef
    <2>4. DOMAIN b = 1 .. Len(b) /\ Len(b) \in Nat /\ DOMAIN b = 1 .. l
      BY <2>3, LenProperties
    <2>5. Len(b) = l
      <3> DEFINE n == Len(b)
      <3>1. n \in Nat /\ 1 .. n = 1 .. l
        BY <2>4
      <3> HIDE DEF n
      <3>2. n = l
        BY <2>1, <3>1, SMT
      <3>3. QED
        BY <3>2 DEF n
    <2>6. QED
      BY <2>3, <2>5
  <1> HIDE DEF a, b, d
  <1>4. /\ s \in Seq(Character) /\ Len(s) = 1 + l
        /\ \A i \in 1 .. 1 + l : s[i] = IF i <= 1 THEN a[i] ELSE b[i - 1]
    BY <1>2, <1>3, ConcatProperties
  <1> HIDE DEF s
  <1>5. /\ u \in Seq(Character) /\ Len(u) = (1 + l) + 1
        /\ \A i \in 1 .. (1 + l) + 1 : u[i] = IF i <= 1 + l THEN s[i] ELSE d[i - (1 + l)]
    BY <1>2, <1>4, ConcatProperties
  <1> HIDE DEF u
  <1>6. /\ (1 + l) + 1 = l + 2 /\ 1 \in 1 .. (1 + l) + 1 /\ 1 \in 1 .. 1 + l /\ 1 <= 1 + l
        /\ l + 2 \in 1 .. (1 + l) + 1 /\ ~(l + 2 <= 1 + l) /\ (l + 2) - (1 + l) = 1
        /\ \A i \in 1 .. l : /\ 1 + i \in 1 .. (1 + l) + 1 /\ 1 + i <= 1 + l /\ 1 + i \in 1 .. 1 + l
                             /\ ~(1 + i <= 1) /\ (1 + i) - 1 = i
    BY SMT
  <1>7. u[1] = "%" /\ u[l + 2] = c /\ \A i \in 1 .. l : u[1 + i] = "l"
    BY <1>2, <1>3, <1>4, <1>5, <1>6
  <1>8. QED
    BY <1>5, <1>6, <1>7 DEF u, s, a, b, d

\* What is written for a number: in front of its digits a sign or a 0x, or nothing.
IsNumberText(text, front, digits, n, p) ==
  /\ text = front \o digits /\ front \in {<<>>, <<"-">>, <<"0", "x">>}
  /\ IsWritten(digits, n, IF p.conv \in {"d", "u"} THEN 10 ELSE 16) /\ n \in Nat
  /\ front = <<"-">> <=> p.conv = "d" /\ p.value < 0
  /\ front = <<"0", "x">> <=> p.conv = "p"
  /\ p.value = IF p.value < 0 THEN -n ELSE n

\* A number in a format is one of its type, and of the widest type.
LEMMA NumberOfPiece ==
  ASSUME NEW p, IsPiece(p), p.kind = "number"
  PROVE  /\ p.conv \in {"d", "u", "x", "p"} /\ p.l \in 0 .. 2 /\ (p.conv = "p" => p.l = 0)
         /\ TypeOf(p) \in IntType /\ p.value \in Int
         /\ p.conv = "d" => /\ p.value \in LeastOf(TypeOf(p)) .. GreatestOf(TypeOf(p))
                            /\ p.value \in LeastOf("llong") .. GreatestOf("llong")
         /\ p.conv # "d" => /\ p.value \in 0 .. (Modulus[TypeOf(p)] - 1)
                            /\ p.value \in 0 .. (Modulus["llong"] - 1)
  <1> DEFINE t == TypeOf(p)
             m == Modulus[t]
             h == m \div 2
             W == Modulus["llong"]
             H == W \div 2
  <1>1. p.conv \in {"d", "u", "x", "p"} /\ p.l \in 0 .. 2 /\ (p.conv = "p" => p.l = 0) /\ p.value \in NumbersOf(p)
    BY DEF IsPiece
  <1>2. t \in IntType
    <2>1. p.l \in {0, 1, 2}
      BY <1>1, SMT
    <2>2. QED
      BY <2>1 DEF TypeOf, TypeAt, IntType
  <1> HIDE DEF t
  <1>3. m \in Nat /\ m >= 2 /\ h \in Nat /\ m = 2 * h /\ W \in Nat /\ m <= W
    BY <1>2, ModulusFacts
  <1>4. H \in Nat /\ W = 2 * H
    BY ModulusFacts DEF IntType
  <1> HIDE DEF m, h, W, H
  <1>5. h <= H
    BY <1>3, <1>4, SMT
  <1>6. CASE p.conv = "d"
    <2>1. p.value \in (-h) .. (h - 1)
      BY <1>1, <1>6 DEF NumbersOf, LeastOf, GreatestOf, t, m, h
    <2>2. p.value \in Int /\ p.value \in (-H) .. (H - 1)
      BY <1>3, <1>4, <1>5, <2>1, SMT
    <2>3. QED
      BY <1>1, <1>2, <1>6, <2>1, <2>2 DEF LeastOf, GreatestOf, t, m, h, W, H
  <1>7. CASE p.conv # "d"
    <2>1. p.value \in 0 .. (m - 1)
      BY <1>1, <1>7 DEF NumbersOf, t, m
    <2>2. p.value \in Int /\ p.value \in 0 .. (W - 1)
      BY <1>3, <2>1, SMT
    <2>3. QED
      BY <1>1, <1>2, <1>7, <2>1, <2>2 DEF t, m, W
  <1>8. QED
    BY <1>6, <1>7

\* The text of a piece that prints a number is one that NumberOfPiece has.
LEMMA NumberTexts ==
  ASSUME NEW p, IsPiece(p), p.kind = "number"
  PROVE  \E front, digits, n : IsNumberText(TextOf(p), front, digits, n, p)
  <1> DEFINE v == p.value
  <1>1. "llong" \in IntType
    BY DEF IntType
  <1>2. TextOf(p) = Printed(p.conv, v)
    BY DEF TextOf
  <1>3. v \in Int
    BY NumberOfPiece
  <1>4. <<>> # <<"-">> /\ <<>> # <<"0", "x">> /\ <<"-">> # <<"0", "x">>
    OBVIOUS
  <1>5. CASE p.conv = "d" /\ v < 0
    <2> DEFINE digits == utoa_r(-v, "llong")
    <2>1. v \in LeastOf("llong") .. GreatestOf("llong")
      BY <1>5, NumberOfPiece
    <2>2. itoa_r(v, "llong") = <<"-">> \o digits /\ IsWritten(digits, -v, 10)
      <3>1. ~(v >= 0)
        BY <1>3, <1>5, SMT
      <3>2. QED
        BY <1>1, <2>1, <3>1, SignedWritten
    <2>3. -v \in Nat /\ v = -(-v)
      BY <1>3, <1>5, SMT
    <2>4. Printed(p.conv, v) = <<"-">> \o digits
      BY <1>5, <2>2 DEF Printed
    <2> HIDE DEF digits
    <2>5. IsNumberText(TextOf(p), <<"-">>, digits, -v, p)
      BY <1>2, <1>4, <1>5, <2>2, <2>3, <2>4 DEF IsNumberText
    <2>6. QED
      BY <2>5
  <1>6. ASSUME ~(p.conv = "d" /\ v < 0)
        PROVE  v \in Nat /\ ~(v < 0) /\ v \in 0 .. (Modulus["llong"] - 1)
    <2>1. CASE p.conv # "d"
      <3>1. v \in 0 .. (Modulus["llong"] - 1)
        BY <2>1, NumberOfPiece
      <3>2. QED
        BY <3>1, SMT
    <2>2. CASE p.conv = "d"
      <3>1. ~(v < 0) /\ v \in LeastOf("llong") .. GreatestOf("llong")
        BY <1>6, <2>2, NumberOfPiece
      <3> DEFINE W == Modulus["llong"]
                 H == W \div 2
      <3>2. W \in Nat /\ H \in Nat /\ W = 2 * H
        BY <1>1, ModulusFacts
      <3>3. v \in (-H) .. (H - 1)
        BY <3>1 DEF LeastOf, GreatestOf
      <3> HIDE DEF W, H
      <3>4. v \in Nat /\ v \in 0 .. (W - 1)
        BY <1>3, <3>1, <3>2, <3>3, SMT
      <3>5. QED
        BY <3>1, <3>4 DEF W
    <2>3. QED
      BY <2>1, <2>2
  <1>7. ASSUME ~(p.conv = "d" /\ v < 0), p.conv \in {"d", "u"}
        PROVE  \E front, digits, n : IsNumberText(TextOf(p), front, digits, n, p)
    <2> DEFINE digits == utoa_r(v, "llong")
    <2>1. v \in Nat /\ ~(v < 0) /\ IsWritten(digits, v, 10)
      BY <1>1, <1>6, <1>7, DecimalsWritten
    <2>2. digits \in Seq(Symbols(10))
      BY <2>1 DEF IsWritten
    <2>3. Printed(p.conv, v) = digits
      BY <1>7, <2>1 DEF Printed, itoa_r
    <2>4. <<>> \o digits = digits
      BY <2>2, ConcatEmptySeq
    <2> HIDE DEF digits
    <2>5. IsNumberText(TextOf(p), <<>>, digits, v, p)
      BY <1>2, <1>4, <1>7, <2>1, <2>3, <2>4 DEF IsNumberText
    <2>6. QED
      BY <2>5
  <1>8. ASSUME p.conv \in {"x", "p"}
        PROVE  \E front, digits, n : IsNumberText(TextOf(p), front, digits, n, p)
    <2> DEFINE digits == utoh_r(v, "llong")
    <2>1. v \in Nat /\ ~(v < 0) /\ IsWritten(digits, v, 16)
      BY <1>1, <1>6, <1>8, HexadecimalsWritten
    <2>2. digits \in Seq(Symbols(16))
      BY <2>1 DEF IsWritten
    <2>3. Printed(p.conv, v) = IF p.conv = "p" THEN <<"0", "x">> \o digits ELSE digits
      BY <1>8 DEF Printed
    <2>4. <<>> \o digits = digits
      BY <2>2, ConcatEmptySeq
    <2> HIDE DEF digits
    <2>5. CASE p.conv = "p"
      <3>1. IsNumberText(TextOf(p), <<"0", "x">>, digits, v, p)
        BY <1>2, <1>4, <2>1, <2>3, <2>5 DEF IsNumberText
      <3>2. QED
        BY <3>1
    <2>6. CASE p.conv = "x"
      <3>1. IsNumberText(TextOf(p), <<>>, digits, v, p)
        BY <1>2, <1>4, <2>1, <2>3, <2>4, <2>6 DEF IsNumberText
      <3>2. QED
        BY <3>1
    <2>7. QED
      BY <1>8, <2>5, <2>6
  <1>9. QED
    BY <1>5, <1>7, <1>8, NumberOfPiece

\* A sequence over a set is one over each larger set.
LEMMA SeqOfMore ==
  ASSUME NEW A, NEW B, A \subseteq B, NEW s \in Seq(A)
  PROVE  s \in Seq(B)
  OBVIOUS

\* Numerals are characters.
LEMMA SymbolsAreCharacters ==
  ASSUME NEW base \in 2 .. 36, NEW s \in Seq(Symbols(base))
  PROVE  s \in Seq(Character)
  <1>1. ASSUME NEW k \in 1 .. base PROVE Numeral[k] \in Character
    <2>1. k \in 1 .. 36
      BY SMT
    <2>2. Numeral[k] \in Digits \cup Small
      BY <2>1, NumeralsDiffer
    <2>3. QED
      BY <2>2 DEF Character
  <1>2. Symbols(base) \subseteq Character
    BY <1>1 DEF Symbols
  <1> HIDE DEF Character
  <1>3. QED
    BY <1>2

\* The format, the text and the number of a piece are sequences.
LEMMA PieceTexts ==
  ASSUME NEW p, IsPiece(p)
  PROVE  /\ FormatOf(p) \in Seq(Character) /\ TextOf(p) \in Seq(Character) /\ NumbersIn(p) \in Seq(Int)
         /\ p.kind \in {"number", "plain", "percent", "spaces"}
  <1>1. CASE p.kind = "number"
    <2>1. p.conv \in {"d", "u", "x", "p"} /\ p.l \in 0 .. 2 /\ p.value \in Int
      BY <1>1, NumberOfPiece
    <2>2. FormatOf(p) \in Seq(Character)
      BY <1>1, <2>1, ConversionFormat DEF FormatOf
    <2>3. NumbersIn(p) \in Seq(Int)
      BY <1>1, <2>1 DEF NumbersIn
    <2>4. PICK front, digits, n : IsNumberText(TextOf(p), front, digits, n, p)
      BY <1>1, NumberTexts
    <2>5. digits \in Seq(Character)
      <3>1. digits \in Seq(Symbols(10)) \/ digits \in Seq(Symbols(16))
        BY <2>4 DEF IsNumberText, IsWritten
      <3>2. 10 \in 2 .. 36 /\ 16 \in 2 .. 36
        BY SMT
      <3>3. QED
        BY <3>1, <3>2, SymbolsAreCharacters
    <2>6. front \in Seq(Character)
      <3>1. "-" \in Character /\ "0" \in Character /\ "x" \in Character
        BY DEF Character, Sign, Digits, Small
      <3> HIDE DEF Character
      <3>2. front \in {<<>>, <<"-">>, <<"0", "x">>}
        BY <2>4 DEF IsNumberText
      <3>3. <<>> \in Seq(Character) /\ <<"-">> \in Seq(Character) /\ <<"0", "x">> \in Seq(Character)
        BY <3>1
      <3>4. QED
        BY <3>2, <3>3, Zenon
    <2>7. TextOf(p) \in Seq(Character)
      BY <2>4, <2>5, <2>6, ConcatProperties DEF IsNumberText
    <2>8. QED
      BY <1>1, <2>2, <2>3, <2>7
  <1>2. ASSUME p.kind \in {"plain", "percent", "spaces"}
        PROVE  FormatOf(p) \in Seq(Character) /\ TextOf(p) \in Seq(Character) /\ NumbersIn(p) \in Seq(Int)
    <2>1. NumbersIn(p) \in Seq(Int)
      BY <1>2 DEF NumbersIn
    <2>2. CASE p.kind = "plain"
      <3>1. p.char \in Character
        BY <2>2 DEF IsPiece, Character
      <3> HIDE DEF Character
      <3>2. QED
        BY <2>1, <2>2, <3>1 DEF FormatOf, TextOf
    <2>3. CASE p.kind = "percent"
      <3>1. "%" \in Character
        BY DEF Character, Sign
      <3> HIDE DEF Character
      <3>2. QED
        BY <2>1, <2>3, <3>1 DEF FormatOf, TextOf
    <2>4. CASE p.kind = "spaces"
      <3>1. p.format \in Seq(STRING) /\ p.text \in Seq(STRING)
        BY <2>4 DEF IsPiece
      <3>2. STRING \subseteq Character
        BY DEF Character
      <3> HIDE DEF Character
      <3>3. p.format \in Seq(Character) /\ p.text \in Seq(Character)
        BY ONLY <3>1, <3>2, SeqOfMore
      <3>4. QED
        BY <2>1, <2>4, <3>3 DEF FormatOf, TextOf
    <2>5. QED
      BY <1>2, <2>2, <2>3, <2>4
  <1>3. p.kind \in {"number", "plain", "percent", "spaces"}
    BY DEF IsPiece
  <1>4. QED
    BY <1>1, <1>2, <1>3

\* The formats, the texts and the numbers of the pieces of a format.
FormatsOf(ps) == [i \in 1 .. Len(ps) |-> FormatOf(ps[i])]
TextsOf(ps)   == [i \in 1 .. Len(ps) |-> TextOf(ps[i])]
ValuesOf(ps)  == [i \in 1 .. Len(ps) |-> NumbersIn(ps[i])]

\* A function on 1 .. n is a sequence of length n.
LEMMA SequenceOf ==
  ASSUME NEW n \in Nat, NEW X, NEW f \in [1 .. n -> X]
  PROVE  f \in Seq(X) /\ Len(f) = n
  <1>1. f \in Seq(X)
    BY SeqDef
  <1> DEFINE k == Len(f)
  <1>2. DOMAIN f = 1 .. k /\ k \in Nat /\ DOMAIN f = 1 .. n
    BY <1>1, LenProperties
  <1> HIDE DEF k
  <1>3. 1 .. k = 1 .. n
    BY <1>2
  <1>4. k = n
    BY <1>2, <1>3, SMT
  <1>5. QED
    BY <1>1, <1>4 DEF k

\* What sscanf() is called with are the formats, texts and numbers of the pieces, joined.
LEMMA PrintingFacts ==
  ASSUME NEW ps \in Printing
  PROVE  /\ ps \in Seq(Piece) /\ Len(ps) \in Nat /\ \A i \in 1 .. Len(ps) : IsPiece(ps[i])
         /\ \A i \in 1 .. (Len(ps) - 1) : MayFollow(ps[i], ps[i + 1])
         /\ Len(FormatsOf(ps)) = Len(ps) /\ Len(TextsOf(ps)) = Len(ps) /\ Len(ValuesOf(ps)) = Len(ps)
         /\ IsJoined(Joined(FormatsOf(ps)), Upto(FormatsOf(ps)), FormatsOf(ps), Character)
         /\ IsJoined(Joined(TextsOf(ps)), Upto(TextsOf(ps)), TextsOf(ps), Character)
         /\ IsJoined(Joined(ValuesOf(ps)), Upto(ValuesOf(ps)), ValuesOf(ps), Int)
  <1>1. ps \in Seq(Piece) /\ \A i \in 1 .. (Len(ps) - 1) : MayFollow(ps[i], ps[i + 1])
    BY ScanfAssumption
  <1>2. Len(ps) \in Nat /\ \A i \in 1 .. Len(ps) : IsPiece(ps[i])
    <2>1. Len(ps) \in Nat /\ \A i \in 1 .. Len(ps) : ps[i] \in Piece
      BY <1>1, LenProperties, ElementOfSeq
    <2>2. QED
      BY <2>1, ScanfAssumption
  <1> DEFINE n == Len(ps)
  <1>3. \A i \in 1 .. n : FormatOf(ps[i]) \in Seq(Character) /\ TextOf(ps[i]) \in Seq(Character)
                          /\ NumbersIn(ps[i]) \in Seq(Int)
    BY <1>2, PieceTexts
  <1>4. /\ FormatsOf(ps) \in [1 .. n -> Seq(Character)]
        /\ TextsOf(ps) \in [1 .. n -> Seq(Character)]
        /\ ValuesOf(ps) \in [1 .. n -> Seq(Int)]
    BY <1>3 DEF FormatsOf, TextsOf, ValuesOf
  <1>5. n \in Nat
    BY <1>2
  <1> HIDE DEF n
  <1>6. /\ FormatsOf(ps) \in Seq(Seq(Character)) /\ Len(FormatsOf(ps)) = n
        /\ TextsOf(ps) \in Seq(Seq(Character)) /\ Len(TextsOf(ps)) = n
        /\ ValuesOf(ps) \in Seq(Seq(Int)) /\ Len(ValuesOf(ps)) = n
    BY <1>4, <1>5, SequenceOf
  <1>7. QED
    BY <1>1, <1>2, <1>6, JoinedFacts DEF n

-----------------------------------------------------------------------------
(* The walk through any format and any text.                               *)

\* The places are in the strings or at their terminators, and the result is the number
\* of pointers that were used, or EOF.
WalkInv ==
  /\ format \in Seq(Character) /\ input \in Seq(Character)
  /\ fpos \in 1 .. (Len(format) + 1) /\ spos \in 1 .. (Len(input) + 1)
  /\ stored \in Seq(Int) /\ over \in BOOLEAN
  /\ matches = Len(stored) \/ (over /\ matches = EOF /\ stored = <<>>)

\* The walk has not begun.
LEMMA WalkStarts == TextInit => WalkInv
  <1>1. ASSUME NoScan PROVE WalkInv
    <2>1. 1 \in 1 .. (Len(<<>>) + 1) /\ Len(<<>>) = 0
      BY SMT
    <2>2. <<>> \in Seq(Character) /\ <<>> \in Seq(Int)
      BY EmptySeq
    <2>3. QED
      BY <1>1, <2>1, <2>2 DEF NoScan, WalkInv
  <1>2. ASSUME ScanfInit PROVE WalkInv
    <2>1. format \in Seq(Character) /\ input \in Seq(Character)
      <3>1. CASE ReadsAny
        <4>1. format \in Seq(STRING \ {End}) /\ input \in Seq(STRING \ {End})
          BY <3>1, ScanfAssumption DEF ReadsAny
        <4>2. (STRING \ {End}) \subseteq Character
          BY DEF Character
        <4> HIDE DEF Character
        <4>3. QED
          BY ONLY <4>1, <4>2, SeqOfMore
      <3>2. CASE ReadsPrinted
        <4>1. PICK ps \in Printing : format = Joined(FormatsOf(ps)) /\ input = Joined(TextsOf(ps))
          BY <3>2 DEF ReadsPrinted, FormatsOf, TextsOf
        <4>2. QED
          BY <4>1, PrintingFacts DEF IsJoined
      <3>3. QED
        BY <1>2, <3>1, <3>2 DEF ScanfInit
    <2>2. 1 \in 1 .. (Len(format) + 1) /\ 1 \in 1 .. (Len(input) + 1)
      BY <2>1, LenProperties, SMT
    <2>3. <<>> \in Seq(Int) /\ Len(<<>>) = 0
      BY EmptySeq
    <2>4. QED
      BY <1>2, <2>1, <2>2, <2>3 DEF ScanfInit, WalkInv
  <1>3. TextInit => NoScan \/ ScanfInit
    BY Zenon DEF TextInit
  <1>4. QED
    BY <1>1, <1>2, <1>3

\* The prefix and the letter behind a % are in the format, or it ends there.
LEMMA PatternFacts ==
  ASSUME WalkInv, IsPattern
  PROVE  /\ lpref \in 0 .. 2 /\ fpos + 1 + lpref \in 1 .. (Len(format) + 1)
         /\ Conversion # End => fpos + 2 + lpref \in 1 .. (Len(format) + 1)
  <1> DEFINE n == Len(format)
             l == lpref
  <1>1. n \in Nat /\ fpos \in Nat /\ fpos >= 1
    <2>1. n \in Nat /\ fpos \in 1 .. (n + 1)
      BY LenProperties DEF WalkInv
    <2> HIDE DEF n
    <2>2. QED
      BY <2>1, SMT
  <1>2. \A i \in Nat : At(format, i) # End => i <= n
    BY <1>1, AtFacts
  <1>3. "%" # End /\ "l" # End
    BY DEF End
  <1>4. fpos <= n
    BY <1>1, <1>2, <1>3 DEF IsPattern
  <1>5. /\ At(format, fpos + 1) = "l" => fpos + 1 <= n
        /\ At(format, (fpos + 1) + 1) = "l" => fpos + 2 <= n
    <2>1. fpos + 1 \in Nat /\ (fpos + 1) + 1 \in Nat /\ (fpos + 1) + 1 = fpos + 2
      BY <1>1, SMT
    <2>2. QED
      BY <1>2, <1>3, <2>1
  <1>6. \/ l = 0
        \/ l = 1 /\ fpos + 1 <= n
        \/ l = 2 /\ fpos + 2 <= n
    BY <1>5 DEF lpref, Prefix
  <1>7. Conversion # End => fpos + 1 + l <= n
    <2>1. fpos + 1 + l \in Nat
      BY <1>1, <1>6, SMT
    <2>2. QED
      BY <1>2, <2>1 DEF Conversion
  <1> HIDE DEF n, l
  <1>8. l \in 0 .. 2 /\ fpos + 1 + l \in 1 .. (n + 1)
    BY <1>1, <1>4, <1>6, SMT
  <1>9. Conversion # End => fpos + 2 + l \in 1 .. (n + 1)
    BY <1>1, <1>6, <1>7, SMT
  <1>10. QED
    BY <1>8, <1>9 DEF n, l

\* Where NumberAt() finds a number, it is one that is read there.
LEMMA NumberAtIsRead ==
  ASSUME input \in Seq(Character), spos \in 1 .. (Len(input) + 1),
         NEW c \in {"d", "u", "x", "X", "p"}, NEW l \in 0 .. 2
  PROVE  LET r    == NumberAt(c, spos)
             base == IF c \in {"d", "u"} THEN 10 ELSE 16
         IN  /\ IsRead(r, input, spos, base, IF c = "p" THEN "long" ELSE "llong", c = "d")
             /\ r.end \in 1 .. (Len(input) + 1) /\ Kept(c, l, r.val) \in Int
  <1> DEFINE base   == IF c \in {"d", "u"} THEN 10 ELSE 16
             t      == IF c = "p" THEN "long" ELSE "llong"
             signed == c = "d"
             r      == NumberAt(c, spos)
  <1>1. base \in 0 .. 36
    BY SMT
  <1>2. t \in IntType /\ signed \in BOOLEAN
    BY DEF IntType
  <1>3. r = IF signed THEN strtos(input, spos, base, t) ELSE strtou(input, spos, base, t)
    <2>1. CASE c = "d"
      BY <2>1 DEF NumberAt
    <2>2. CASE c = "u"
      BY <2>2 DEF NumberAt
    <2>3. CASE c \in {"x", "X"}
      BY <2>3 DEF NumberAt
    <2>4. CASE c = "p"
      BY <2>4 DEF NumberAt
    <2>5. QED
      BY <2>1, <2>2, <2>3, <2>4
  <1> HIDE DEF base, t, r
  <1>4. IsRead(r, input, spos, base, t, signed)
    <2> HIDE DEF signed
    <2>1. QED
      BY <1>1, <1>2, <1>3, ReadNumber
  <1>5. r.val \in Int /\ r.end = ToOf(input, spos, base)
    BY <1>4 DEF IsRead
  <1>6. r.end \in 1 .. (Len(input) + 1)
    BY <1>1, <1>5, PlacesInString
  <1>7. Kept(c, l, r.val) \in Int
    <2> DEFINE v == r.val
               k == TypeAt[l + 1]
    <2>1. k \in IntType
      <3>1. l \in {0, 1, 2}
        BY SMT
      <3>2. QED
        BY <3>1 DEF TypeAt, IntType
    <2> HIDE DEF v, k
    <2>2. SignedOf(v, k) \in Int /\ Cut(v, k) \in Int /\ v \in Int
      BY <1>5, <2>1, CutIsNumber DEF v
    <2>3. QED
      BY <2>2 DEF Kept, k, v
  <1>8. QED
    BY <1>4, <1>6, <1>7 DEF r, t, base

\* A directive keeps the places in the strings and counts what it stores.
LEMMA WalkStep ==
  ASSUME WalkInv, ScanfNext
  PROVE  WalkInv'
  <1>1. format' = format /\ input' = input
    BY DEF ScanfNext, Convert, Percent, Unknown, Finished, SkipSpaces, Literal
  <1>2. /\ format \in Seq(Character) /\ input \in Seq(Character) /\ Len(format) \in Nat /\ Len(input) \in Nat
        /\ fpos \in 1 .. (Len(format) + 1) /\ spos \in 1 .. (Len(input) + 1)
        /\ stored \in Seq(Int) /\ over \in BOOLEAN
        /\ matches = Len(stored) \/ (over /\ matches = EOF /\ stored = <<>>)
    BY LenProperties DEF WalkInv
  <1> HIDE DEF Character
  <1>3. CASE Convert
    <2> DEFINE r == NumberAt(Conversion, spos)
               k == Kept(Conversion, lpref, r.val)
    <2>1. /\ IsPattern /\ Conversion \in {"d", "u", "x", "X", "p"} /\ ~over
          /\ stored' = Append(stored, k) /\ spos' = r.end /\ fpos' = fpos + 2 + lpref
          /\ matches' = matches + 1 /\ over' = over
      BY <1>3 DEF Convert, IsPattern
    <2>2. Conversion # End
      BY <2>1 DEF End
    <2>3. lpref \in 0 .. 2 /\ fpos + 2 + lpref \in 1 .. (Len(format) + 1)
      BY <2>1, <2>2, PatternFacts
    <2>4. r.end \in 1 .. (Len(input) + 1) /\ k \in Int
      BY <1>2, <2>1, <2>3, NumberAtIsRead
    <2> HIDE DEF r, k
    <2>5. Append(stored, k) \in Seq(Int) /\ Len(Append(stored, k)) = Len(stored) + 1
      BY <1>2, <2>4, AppendProperties
    <2>6. QED
      BY <1>1, <1>2, <2>1, <2>3, <2>4, <2>5 DEF WalkInv
  <1>4. CASE Percent
    <2>1. IsPattern /\ Conversion = "%" /\ ~over /\ stored' = stored /\ matches' = matches
      BY <1>4 DEF Percent, IsPattern
    <2>2. Conversion # End
      BY <2>1 DEF End
    <2>3. fpos + 2 + lpref \in 1 .. (Len(format) + 1) /\ fpos + 1 + lpref \in 1 .. (Len(format) + 1)
      BY <2>1, <2>2, PatternFacts
    <2>4. At(input, spos) = "%" => spos + 1 \in 1 .. (Len(input) + 1)
      <3>1. spos \in Nat /\ "%" # End
        BY <1>2, SMT DEF End
      <3>2. At(input, spos) = "%" => spos <= Len(input)
        BY <1>2, <3>1, AtFacts
      <3>3. QED
        BY <1>2, <3>1, <3>2, SMT
    <2>5. fpos' \in 1 .. (Len(format) + 1) /\ spos' \in 1 .. (Len(input) + 1) /\ over' \in BOOLEAN
      BY <1>2, <1>4, <2>3, <2>4 DEF Percent
    <2>6. QED
      BY <1>1, <1>2, <2>1, <2>5 DEF WalkInv
  <1>5. CASE Unknown
    <2>1. IsPattern /\ ~over /\ stored' = stored /\ matches' = matches /\ spos' = spos /\ over' = TRUE
          /\ fpos' = fpos + 1 + lpref
      BY <1>5 DEF Unknown, IsPattern
    <2>2. fpos + 1 + lpref \in 1 .. (Len(format) + 1)
      BY <2>1, PatternFacts
    <2>3. QED
      BY <1>1, <1>2, <2>1, <2>2 DEF WalkInv
  <1>6. CASE Finished
    BY <1>1, <1>2, <1>6 DEF Finished, IsPlain, WalkInv
  <1>7. CASE SkipSpaces
    <2>1. ~over /\ stored' = stored /\ matches' = matches /\ over' = over
          /\ fpos' = BehindSpaces(format, fpos) /\ spos' = BehindSpaces(input, spos)
      BY <1>7 DEF SkipSpaces, IsPlain
    <2>2. BehindSpaces(format, fpos) \in fpos .. (Len(format) + 1) /\ BehindSpaces(input, spos) \in spos .. (Len(input) + 1)
      BY <1>2, BehindSpacesFacts DEF IsBehindSpaces
    <2>3. fpos' \in 1 .. (Len(format) + 1) /\ spos' \in 1 .. (Len(input) + 1)
      BY <1>2, <2>1, <2>2, SMT
    <2>4. QED
      BY <1>1, <1>2, <2>1, <2>3 DEF WalkInv
  <1>8. CASE Literal
    <2>1. ~over /\ At(format, fpos) # End /\ stored' = stored
      BY <1>8 DEF Literal, IsPlain
    <2>2. CASE At(format, fpos) = At(input, spos)
      <3>1. fpos' = fpos + 1 /\ spos' = spos + 1 /\ over' = over /\ matches' = matches
        BY <1>8, <2>2 DEF Literal
      <3>2. fpos <= Len(format) /\ spos <= Len(input)
        <4>1. fpos \in Nat /\ spos \in Nat
          BY <1>2, SMT
        <4>2. QED
          BY <1>2, <2>1, <2>2, <4>1, AtFacts
      <3>3. fpos + 1 \in 1 .. (Len(format) + 1) /\ spos + 1 \in 1 .. (Len(input) + 1)
        BY <1>2, <3>2, SMT
      <3>4. QED
        BY <1>1, <1>2, <2>1, <3>1, <3>3 DEF WalkInv
    <2>3. CASE At(format, fpos) # At(input, spos)
      <3>1. /\ over' = TRUE /\ fpos' = fpos /\ spos' = spos
            /\ matches' = IF matches = 0 THEN EOF ELSE matches
        BY <1>8, <2>3 DEF Literal
      <3>2. matches = 0 => stored = <<>>
        BY <1>2, <2>1, EmptySeq
      <3>3. QED
        BY <1>1, <1>2, <2>1, <3>1, <3>2 DEF WalkInv
    <2>4. QED
      BY <2>2, <2>3
  <1>9. QED
    BY <1>3, <1>4, <1>5, <1>6, <1>7, <1>8 DEF ScanfNext

\* Every step of the walk keeps its places in range, and the steps of the others leave it.
LEMMA WalkKept ==
  WalkInv /\ [TextNext]_<<numbersVars, scanfVars, errno, part>> => WalkInv'
  <1>1. ASSUME WalkInv, UNCHANGED scanfVars PROVE WalkInv'
    BY <1>1 DEF scanfVars, WalkInv
  <1>2. QED
    BY <1>1, WalkStep DEF TextNext

-----------------------------------------------------------------------------
(* Reading a number that was written.                                      *)

\* A sequence lies in a string at a place.
Lies(x, s, i) == \A j \in 0 .. (Len(x) - 1) : At(s, i + j) = x[j + 1]

\* The value of a numeral's digit.
LEMMA SymbolFacts ==
  ASSUME NEW base \in 2 .. 36, NEW ch \in Symbols(base)
  PROVE  Value(ch) < base /\ ~IsSpace(ch) /\ ch \notin {"-", "+"}
  <1>1. PICK k \in 1 .. base : ch = Numeral[k]
    BY DEF Symbols
  <1>2. k \in 1 .. 36 /\ k - 1 < base
    BY SMT
  <1>3. Value(ch) = k - 1
    BY <1>1, <1>2, ValueOfNumeral
  <1>4. ch \in Digits \cup Small
    BY <1>1, <1>2, NumeralsDiffer
  <1>5. ~IsSpace(ch)
    BY <1>4, SpacesAreNone, Zenon
  <1>6. ch \notin {"-", "+"}
    BY <1>4 DEF Digits, Small
  <1>7. QED
    BY <1>2, <1>3, <1>5, <1>6

\* Digits with something else behind them are read up to there.
LEMMA NumeralAt ==
  ASSUME NEW s \in Seq(Character), NEW base \in 2 .. 36, NEW digits \in Seq(Symbols(base)),
         NEW from \in 1 .. (Len(s) + 1), Lies(digits, s, from), from + Len(digits) <= Len(s) + 1,
         Value(At(s, from + Len(digits))) >= base
  PROVE  /\ BehindDigits(s, from, base) = from + Len(digits)
         /\ SubSeq(s, from, (from + Len(digits)) - 1) = digits
  <1> DEFINE n == Len(digits)
             k == Len(s)
             u == SubSeq(s, from, (from + n) - 1)
  <1>1. n \in Nat /\ k \in Nat /\ from + n <= k + 1 /\ \A i \in 1 .. n : digits[i] \in Symbols(base)
    BY LenProperties, ElementOfSeq
  <1>2. digits \in Seq(Character)
    BY SymbolsAreCharacters
  <1>3. \A j \in 0 .. (n - 1) : At(s, from + j) = digits[j + 1]
    BY DEF Lies
  <1> HIDE DEF n, k, u, Character
  <1>4. from \in 1 .. (k + 1)
    BY DEF k
  <1>5. ASSUME NEW j \in from .. ((from + n) - 1)
        PROVE  Value(At(s, j)) < base /\ At(s, j) = digits[(j - from) + 1]
    <2>1. j - from \in 0 .. (n - 1) /\ from + (j - from) = j /\ (j - from) + 1 \in 1 .. n
      BY <1>1, <1>4, SMT
    <2>2. At(s, j) = digits[(j - from) + 1]
      BY <1>3, <2>1
    <2>3. QED
      BY <1>1, <2>1, <2>2, SymbolFacts
  <1>6. BehindDigits(s, from, base) = from + n
    <2>1. base \in 0 .. 36
      BY SMT
    <2>2. from + n \in from .. (k + 1)
      BY <1>1, <1>4, SMT
    <2>3. Value(At(s, from + n)) >= base
      BY DEF n
    <2>4. IsBehindDigits(from + n, s, from, base)
      BY <1>5, <2>2, <2>3 DEF IsBehindDigits, k
    <2>5. QED
      BY <1>1, <1>4, <2>1, <2>4, BehindDigitsFacts DEF k
  <1>7. u = digits
    <2> DEFINE last == (from + n) - 1
    <2>1. last \in (from - 1) .. k /\ last - from + 1 = n
      BY <1>1, <1>4, SMT
    <2>2. u = SubSeq(s, from, last)
      BY DEF u
    <2> HIDE DEF last
    <2>3. u \in Seq(Character) /\ Len(u) = last - from + 1 /\ \A i \in 1 .. (last - from + 1) : u[i] = s[from + i - 1]
      BY <1>4, <2>1, <2>2, SliceFacts DEF k
    <2>4. ASSUME NEW i \in 1 .. n PROVE u[i] = digits[i]
      <3> DEFINE j == from + i - 1
      <3>1. j \in from .. ((from + n) - 1) /\ j \in Nat /\ j <= k /\ (j - from) + 1 = i
        BY <1>1, <1>4, SMT
      <3>2. u[i] = s[j]
        BY <2>1, <2>3
      <3> HIDE DEF j
      <3>3. At(s, j) = digits[i]
        BY <1>5, <3>1
      <3>4. At(s, j) = s[j]
        BY <3>1 DEF At, k
      <3>5. QED
        BY <3>2, <3>3, <3>4
    <2>5. Len(u) = Len(digits)
      BY <2>1, <2>3 DEF n
    <2>6. \A i \in 1 .. Len(u) : u[i] = digits[i]
      BY <2>1, <2>3, <2>4
    <2>7. QED
      BY <1>2, <2>3, <2>5, <2>6, SeqEqual
  <1>8. QED
    BY <1>6, <1>7 DEF u, n

\* Where the parts of a number that was written are: its sign or its 0x, and its digits.
IsFront(front, digits, s, at, n) ==
  /\ \A j \in 0 .. (Len(front) - 1) : At(s, at + j) = front[j + 1]
  /\ Lies(digits, s, at + Len(front))
  /\ n = Len(front) + Len(digits) /\ Len(front) \in 0 .. 2 /\ Len(digits) \in Nat /\ Len(digits) >= 1

\* The text of a number is a prefix or a sign, as IsFront has it, with the digits behind.
LEMMA PartsOfNumber ==
  ASSUME NEW p, IsPiece(p), p.kind = "number", NEW front, NEW digits, NEW v,
         IsNumberText(TextOf(p), front, digits, v, p), NEW s, NEW at \in Nat, Lies(TextOf(p), s, at)
  PROVE  IsFront(front, digits, s, at, Len(TextOf(p)))
  <1> DEFINE text == TextOf(p)
             a == Len(front)
             b == Len(digits)
  <1>1. text = front \o digits /\ front \in {<<>>, <<"-">>, <<"0", "x">>}
        /\ digits # <<>> /\ (digits \in Seq(Symbols(10)) \/ digits \in Seq(Symbols(16)))
    BY DEF IsNumberText, IsWritten, IsNumeralOf
  <1>2. digits \in Seq(Character)
    <2>1. 10 \in 2 .. 36 /\ 16 \in 2 .. 36
      BY SMT
    <2>2. QED
      BY <1>1, <2>1, SymbolsAreCharacters
  <1>3. front \in Seq(Character) /\ a \in 0 .. 2
    <2>1. "-" \in Character /\ "0" \in Character /\ "x" \in Character
      BY DEF Character, Sign, Digits, Small
    <2> HIDE DEF Character
    <2>2. /\ <<>> \in Seq(Character) /\ <<"-">> \in Seq(Character) /\ <<"0", "x">> \in Seq(Character)
          /\ Len(<<>>) = 0 /\ Len(<<"-">>) = 1 /\ Len(<<"0", "x">>) = 2
      BY <2>1
    <2>3. CASE front = <<>>
      BY <2>2, <2>3, SMT
    <2>4. CASE front = <<"-">>
      BY <2>2, <2>4, SMT
    <2>5. CASE front = <<"0", "x">>
      BY <2>2, <2>5, SMT
    <2>6. QED
      BY <1>1, <2>3, <2>4, <2>5
  <1> HIDE DEF text, a, b, Character
  <1>4. a \in Nat /\ b \in Nat /\ b >= 1
    <2>1. b \in Nat /\ b # 0
      BY <1>1, <1>2, EmptySeq, LenProperties DEF b
    <2>2. QED
      BY <1>3, <2>1, SMT
  <1>5. /\ Len(text) = a + b
        /\ \A i \in 1 .. a + b : text[i] = IF i <= a THEN front[i] ELSE digits[i - a]
    BY <1>1, <1>2, <1>3, ConcatProperties DEF a, b
  <1>6. \A j \in 0 .. ((a + b) - 1) : At(s, at + j) = text[j + 1]
    BY <1>5 DEF Lies, text
  <1>7. ASSUME NEW j \in 0 .. (a - 1) PROVE At(s, at + j) = front[j + 1]
    <2>1. j \in 0 .. ((a + b) - 1) /\ j + 1 \in 1 .. a + b /\ j + 1 <= a
      BY <1>4, SMT
    <2>2. QED
      BY <1>5, <1>6, <2>1
  <1>8. ASSUME NEW j \in 0 .. (b - 1) PROVE At(s, (at + a) + j) = digits[j + 1]
    <2> DEFINE i == a + j
    <2>1. i \in 0 .. ((a + b) - 1) /\ i + 1 \in 1 .. a + b /\ ~(i + 1 <= a) /\ (i + 1) - a = j + 1
          /\ at + i = (at + a) + j
      BY <1>4, SMT
    <2> HIDE DEF i
    <2>2. QED
      BY <1>5, <1>6, <2>1
  <1>9. Lies(digits, s, at + a)
    BY <1>8 DEF Lies, b
  <1>10. QED
    BY <1>3, <1>4, <1>5, <1>7, <1>9 DEF IsFront, a, b, text

\* What __strtox() finds of it: the sign, the base, and the digits.
LEMMA NumberIsFound ==
  ASSUME NEW p, NEW s \in Seq(Character), NEW at \in 1 .. (Len(s) + 1), NEW front, NEW digits, NEW v,
         IsNumberText(TextOf(p), front, digits, v, p), NEW n,
         p.conv \in {"d", "u", "x", "p"},
         IsFront(front, digits, s, at, n), at + n <= Len(s) + 1,
         Value(At(s, at + n)) >= 16, At(s, at + n) \notin {"x", "X"}
  PROVE  LET base == IF p.conv \in {"d", "u"} THEN 10 ELSE 16
         IN  /\ At(s, StartOf(s, at)) = "-" <=> front = <<"-">>
             /\ BaseAt(s, at, base).base = base
             /\ ToOf(s, at, base) = at + n
             /\ DigitsOf(s, at, base) = digits
  <1> DEFINE base == IF p.conv \in {"d", "u"} THEN 10 ELSE 16
             a == Len(front)
             b == Len(digits)
             k == Len(s)
             from == at + a
  <1>1. base \in 2 .. 36 /\ base <= 16 /\ base # 0 /\ base \in {10, 16}
    BY SMT
  <1>2. /\ front \in {<<>>, <<"-">>, <<"0", "x">>} /\ digits \in Seq(Symbols(base))
        /\ digits[1] = "0" => b = 1
        /\ front = <<"0", "x">> <=> p.conv = "p"
    BY DEF IsNumberText, IsWritten, IsNumeralOf
  <1>3. /\ \A j \in 0 .. (a - 1) : At(s, at + j) = front[j + 1]
        /\ Lies(digits, s, from)
        /\ n = a + b /\ a \in 0 .. 2 /\ b \in Nat /\ b >= 1
    BY DEF IsFront
  <1>4. k \in Nat
    BY LenProperties
  <1> HIDE DEF Character, base, a, b, k
  <1>5. at \in 1 .. (k + 1) /\ at + n <= k + 1
    BY DEF k
  <1>6. from \in 1 .. (k + 1) /\ from + b = at + n /\ at < at + n /\ at \in Nat
    BY <1>3, <1>4, <1>5, SMT
  <1>7. At(s, from) = digits[1] /\ digits[1] \in Symbols(base)
    <2>1. 0 \in 0 .. (b - 1) /\ from + 0 = from /\ 0 + 1 = 1 /\ 1 \in 1 .. b
      BY <1>3, <1>4, <1>6, SMT
    <2>2. At(s, from + 0) = digits[0 + 1]
      BY <1>3, <2>1 DEF Lies, b
    <2>3. digits[1] \in Symbols(base)
      BY <1>2, <2>1, ElementOfSeq DEF b
    <2>4. QED
      BY <2>1, <2>2, <2>3
  <1>8. ~IsSpace(At(s, from)) /\ At(s, from) \notin {"-", "+"}
    BY <1>1, <1>7, SymbolFacts
  <1>9. /\ front = <<>> => a = 0 /\ from = at
        /\ front = <<"-">> => a = 1 /\ from = at + 1 /\ At(s, at) = "-"
        /\ front = <<"0", "x">> => a = 2 /\ from = at + 2 /\ At(s, at) = "0" /\ At(s, at + 1) = "x"
    <2>1. CASE front = <<>>
      <3>1. a = 0
        BY <2>1 DEF a
      <3>2. QED
        BY <1>6, <2>1, <3>1, SMT
    <2>2. CASE front = <<"-">>
      <3>1. a = 1 /\ front[1] = "-"
        BY <2>2 DEF a
      <3>2. 0 \in 0 .. (a - 1) /\ at + 0 = at /\ 0 + 1 = 1
        BY <1>6, <3>1, SMT
      <3>3. At(s, at + 0) = front[0 + 1]
        BY <1>3, <3>2
      <3>4. At(s, at) = "-"
        BY <3>1, <3>2, <3>3
      <3>5. QED
        BY <2>2, <3>1, <3>4
    <2>3. CASE front = <<"0", "x">>
      <3>1. a = 2 /\ front[1] = "0" /\ front[2] = "x"
        BY <2>3 DEF a
      <3>2. 0 \in 0 .. (a - 1) /\ 1 \in 0 .. (a - 1) /\ at + 0 = at /\ 0 + 1 = 1 /\ 1 + 1 = 2
        BY <1>6, <3>1, SMT
      <3>3. At(s, at + 0) = front[0 + 1] /\ At(s, at + 1) = front[1 + 1]
        BY <1>3, <3>2
      <3>4. At(s, at) = "0" /\ At(s, at + 1) = "x"
        BY <3>1, <3>2, <3>3
      <3>5. QED
        BY <2>3, <3>1, <3>4
    <2>4. QED
      BY <1>2, <2>1, <2>2, <2>3
  <1>10. <<>> # <<"-">> /\ <<>> # <<"0", "x">> /\ <<"-">> # <<"0", "x">>
    OBVIOUS
  <1>11. ~IsSpace(At(s, at)) /\ (At(s, at) = "-" <=> front = <<"-">>) /\ At(s, at) # "+"
    <2>1. ~IsSpace("-") /\ ~IsSpace("0")
      <3>1. "-" \in Sign /\ "0" \in Digits
        BY DEF Sign, Digits
      <3>2. QED
        BY <3>1, SpacesAreNone, Zenon
    <2>2. "0" # "-" /\ "0" # "+" /\ "-" # "+"
      OBVIOUS
    <2>3. CASE front = <<>>
      BY <1>8, <1>9, <1>10, <2>3
    <2>4. CASE front = <<"-">>
      BY <1>9, <2>1, <2>2, <2>4
    <2>5. CASE front = <<"0", "x">>
      BY <1>9, <1>10, <2>1, <2>2, <2>5
    <2>6. QED
      BY <1>2, <2>3, <2>4, <2>5
  <1>12. StartOf(s, at) = at
    <2>1. at \in at .. (k + 1) /\ \A j \in at .. (at - 1) : FALSE
      BY <1>4, <1>5, SMT
    <2>2. IsBehindSpaces(at, s, at)
      BY <1>11, <2>1 DEF IsBehindSpaces, k
    <2>3. QED
      BY <1>4, <2>2, BehindSpacesFacts DEF StartOf, k
  <1>13. SignAt(s, at) = IF front = <<"-">> THEN at + 1 ELSE at
    BY <1>11, <1>12 DEF SignAt
  <1>14. BaseAt(s, at, base) = [base |-> base, skip |-> IF front = <<"0", "x">> THEN 2 ELSE 0]
    <2>1. CASE front = <<"0", "x">>
      <3>1. base = 16
        BY <1>2, <2>1 DEF base
      <3>2. SignAt(s, at) = at
        BY <1>10, <1>13, <2>1
      <3>3. Base(s, at, 16) = [base |-> 16, skip |-> 2]
        BY <1>9, <2>1 DEF Base
      <3>4. QED
        BY <2>1, <3>1, <3>2, <3>3 DEF BaseAt
    <2>2. CASE front # <<"0", "x">>
      <3>1. SignAt(s, at) = from
        BY <1>2, <1>9, <1>10, <1>13, <2>2
      <3>2. ~(At(s, from) = "0" /\ At(s, from + 1) \in {"x", "X"})
        <4>1. SUFFICES ASSUME At(s, from) = "0" PROVE At(s, from + 1) \notin {"x", "X"}
          OBVIOUS
        <4>2. b = 1
          BY <1>2, <1>7, <4>1
        <4>3. from + 1 = at + n
          BY <1>6, <4>2
        <4>4. QED
          BY <4>3
      <3>3. Base(s, from, base) = [base |-> base, skip |-> 0]
        BY <1>1, <3>2, SMT DEF Base
      <3>4. QED
        BY <2>2, <3>1, <3>3 DEF BaseAt
    <2>3. QED
      BY <2>1, <2>2
  <1>15. FromOf(s, at, base) = from /\ BaseAt(s, at, base).base = base
    <2>1. FromOf(s, at, base) = (IF front = <<"-">> THEN at + 1 ELSE at) + (IF front = <<"0", "x">> THEN 2 ELSE 0)
      BY <1>13, <1>14 DEF FromOf
    <2>2. at + 0 = at /\ (at + 1) + 0 = at + 1
      BY <1>6, SMT
    <2>3. CASE front = <<>>
      BY <1>9, <1>10, <2>1, <2>2, <2>3, <1>14
    <2>4. CASE front = <<"-">>
      BY <1>9, <1>10, <2>1, <2>2, <2>4, <1>14
    <2>5. CASE front = <<"0", "x">>
      BY <1>9, <1>10, <2>1, <2>2, <2>5, <1>14
    <2>6. QED
      BY <1>2, <2>3, <2>4, <2>5
  <1>16. Value(At(s, from + b)) >= base
    <2> DEFINE w == Value(At(s, at + n))
    <2>1. w \in 0 .. 36 /\ w >= 16
      BY ValueRange
    <2> HIDE DEF w
    <2>2. w >= base
      BY <1>1, <2>1, SMT
    <2>3. QED
      BY <1>6, <2>2 DEF w
  <1>17. BehindDigits(s, from, base) = from + b /\ SubSeq(s, from, (from + b) - 1) = digits
    <2> HIDE DEF from
    <2>1. from + b <= k + 1
      BY <1>5, <1>6
    <2>2. QED
      BY <1>1, <1>2, <1>3, <1>6, <1>16, <2>1, NumeralAt DEF b, k
  <1>18. ToOf(s, at, base) = at + n /\ DigitsOf(s, at, base) = digits
    BY <1>6, <1>15, <1>17 DEF ToOf, DigitsOf
  <1>19. QED
    BY <1>11, <1>12, <1>15, <1>18 DEF base

\* sscanf() reads the number that was written, up to the smallest and the largest of its
\* type, and what is behind it is left.
THEOREM NumberIsReadBack ==
  ASSUME NEW p, IsPiece(p), p.kind = "number", input \in Seq(Character), spos \in 1 .. (Len(input) + 1),
         NEW n, n = Len(TextOf(p)), Lies(TextOf(p), input, spos), spos + n <= Len(input) + 1,
         Value(At(input, spos + n)) >= 16, At(input, spos + n) \notin {"x", "X"}
  PROVE  LET r == NumberAt(p.conv, spos)
         IN  r.end = spos + n /\ r.error = 0 /\ Kept(p.conv, p.l, r.val) = p.value
  <1> DEFINE r      == NumberAt(p.conv, spos)
             base   == IF p.conv \in {"d", "u"} THEN 10 ELSE 16
             t      == IF p.conv = "p" THEN "long" ELSE "llong"
             signed == p.conv = "d"
             neg    == At(input, StartOf(input, spos)) = "-"
             size   == NumberOf(DigitsOf(input, spos, base), BaseAt(input, spos, base).base)
             most   == IF signed THEN GreatestOf(t) ELSE Modulus[t] - 1
             read   == IF neg THEN -size ELSE size
             val    == p.value
  <1>1. PICK front, digits, v : IsNumberText(TextOf(p), front, digits, v, p)
    BY NumberTexts
  <1>2. /\ p.conv \in {"d", "u", "x", "p"} /\ p.l \in 0 .. 2 /\ (p.conv = "p" => p.l = 0)
        /\ TypeOf(p) \in IntType /\ val \in Int
        /\ p.conv = "d" => /\ val \in LeastOf(TypeOf(p)) .. GreatestOf(TypeOf(p))
                           /\ val \in LeastOf("llong") .. GreatestOf("llong")
        /\ p.conv # "d" => /\ val \in 0 .. (Modulus[TypeOf(p)] - 1)
                           /\ val \in 0 .. (Modulus["llong"] - 1)
    BY NumberOfPiece
  <1> HIDE DEF Character
  <1>3. IsFront(front, digits, input, spos, n)
    <2>1. spos \in Nat
      BY SMT
    <2>2. QED
      BY <1>1, <2>1, PartsOfNumber
  <1>4. /\ neg <=> front = <<"-">>
        /\ BaseAt(input, spos, base).base = base
        /\ ToOf(input, spos, base) = spos + n
        /\ DigitsOf(input, spos, base) = digits
    BY <1>1, <1>2, <1>3, NumberIsFound
  <1>5. IsRead(r, input, spos, base, t, signed)
    <2>1. p.conv \in {"d", "u", "x", "X", "p"}
      BY <1>2
    <2>2. QED
      BY <1>2, <2>1, NumberAtIsRead
  <1>6. size = v /\ v \in Nat
    <2>1. NumberOf(digits, base) = v /\ v \in Nat
      BY <1>1 DEF IsNumberText, IsWritten, IsNumeralOf
    <2>2. QED
      BY <1>4, <2>1
  <1>7. (neg <=> p.conv = "d" /\ val < 0) /\ val = IF val < 0 THEN -v ELSE v
    BY <1>1, <1>4 DEF IsNumberText
  <1>8. /\ r.end = ToOf(input, spos, base)
        /\ size <= most \/ (signed /\ neg /\ size <= -LeastOf(t))
             => r.error = 0 /\ r.val = IF signed THEN SignedOf(read, t) ELSE Cut(read, t)
    BY <1>5 DEF IsRead
  <1> HIDE DEF r, neg, size, base
  <1>9. read = val
    <2>1. CASE p.conv = "d"
      BY <1>6, <1>7, <2>1
    <2>2. CASE p.conv # "d"
      <3>1. val \in 0 .. (Modulus["llong"] - 1)
        BY <1>2, <2>2
      <3>2. ~(val < 0)
        BY <1>2, <3>1, SMT
      <3>3. QED
        BY <1>6, <1>7, <2>2, <3>2
    <2>3. QED
      BY <2>1, <2>2
  <1>10. t \in IntType
    BY DEF IntType
  <1>11. size <= most \/ (signed /\ neg /\ size <= -LeastOf(t))
    <2>1. CASE p.conv = "d"
      <3>1. t = "llong" /\ signed /\ most = GreatestOf("llong") /\ val \in LeastOf("llong") .. GreatestOf("llong")
        BY <1>2, <2>1
      <3>2. /\ v <= -LeastOf("llong") <=> -v \in LeastOf("llong") .. GreatestOf("llong")
            /\ v <= GreatestOf("llong") <=> v \in LeastOf("llong") .. GreatestOf("llong")
        BY <1>6, <1>10, <3>1, LimitFacts
      <3>3. CASE val < 0
        BY <1>6, <1>7, <2>1, <3>1, <3>2, <3>3
      <3>4. CASE ~(val < 0)
        BY <1>6, <1>7, <2>1, <3>1, <3>2, <3>4
      <3>5. QED
        BY <3>3, <3>4
    <2>2. CASE p.conv # "d"
      <3>1. most = Modulus[t] - 1 /\ val \in 0 .. (Modulus[t] - 1) /\ size = val
        <4>1. p.conv = "p" => TypeOf(p) = "long"
          BY DEF TypeOf
        <4>2. val \in 0 .. (Modulus[t] - 1)
          BY <1>2, <2>2, <4>1
        <4>3. ~neg
          BY <1>7, <2>2
        <4>4. QED
          BY <1>9, <2>2, <4>2, <4>3
      <3>2. Modulus[t] \in Nat
        BY <1>10, ModulusFacts
      <3>3. QED
        BY <3>1, <3>2, SMT
    <2>3. QED
      BY <2>1, <2>2
  <1>12. r.val = val
    <2>1. CASE p.conv = "d"
      <3>1. SignedOf(val, "llong") = val
        BY <1>2, <2>1, CutIsNumber DEF IntType
      <3>2. QED
        BY <1>8, <1>9, <1>11, <2>1, <3>1
    <2>2. CASE p.conv # "d"
      <3>1. p.conv = "p" => TypeOf(p) = "long"
        BY DEF TypeOf
      <3>2. val \in 0 .. (Modulus[t] - 1)
        BY <1>2, <2>2, <3>1
      <3>3. Cut(val, t) = val
        BY <1>2, <1>10, <3>2, CutIsNumber
      <3>4. QED
        BY <1>8, <1>9, <1>11, <2>2, <3>3
    <2>3. QED
      BY <2>1, <2>2
  <1>13. Kept(p.conv, p.l, val) = val
    <2>1. CASE p.conv = "d"
      <3>1. SignedOf(val, TypeOf(p)) = val
        BY <1>2, <2>1, CutIsNumber
      <3>2. TypeOf(p) = TypeAt[p.l + 1]
        BY <2>1 DEF TypeOf
      <3>3. QED
        BY <2>1, <3>1, <3>2 DEF Kept
    <2>2. CASE p.conv = "p"
      BY <2>2 DEF Kept
    <2>3. CASE p.conv \in {"u", "x"}
      <3>1. p.conv # "d" /\ p.conv # "p"
        BY <2>3
      <3>2. Cut(val, TypeOf(p)) = val
        BY <1>2, <3>1, CutIsNumber
      <3>3. TypeOf(p) = TypeAt[p.l + 1]
        BY <3>1 DEF TypeOf
      <3>4. QED
        BY <2>3, <3>1, <3>2, <3>3 DEF Kept
    <2>4. QED
      BY <1>2, <2>1, <2>2, <2>3
  <1>14. QED
    BY <1>4, <1>8, <1>11, <1>12, <1>13 DEF r

-----------------------------------------------------------------------------
(* The pieces one behind the other.                                        *)

\* Each one lies behind those in front of it.
IsStep(s, f, ss, X, m) ==
  LET i == Len(f[m]) + 1
      x == ss[m + 1]
  IN  /\ x \in Seq(X) /\ Lies(x, s, i) /\ f[m + 1] = f[m] \o x
      /\ Len(f[m + 1]) + 1 = i + Len(x) /\ i + Len(x) <= Len(s) + 1
      /\ i \in 1 .. (Len(s) + 1)

\* One sequence further in what is joined.
LEMMA JoinedStep ==
  ASSUME NEW X, NEW s, NEW f, NEW ss, IsJoined(s, f, ss, X), NEW m \in 0 .. (Len(ss) - 1)
  PROVE  IsStep(s, f, ss, X, m)
  <1> DEFINE a == Len(f[m])
             b == Len(ss[m + 1])
             c == Len(f[m + 1])
             k == Len(s)
             i == a + 1
             x == ss[m + 1]
             n == Len(ss)
  <1>1. m \in 0 .. n /\ m + 1 \in 0 .. n /\ m + 1 \in 1 .. n /\ (m + 1) - 1 = m
    <2>1. n \in Nat
      BY DEF IsJoined
    <2> HIDE DEF n
    <2>2. m \in 0 .. (n - 1)
      BY DEF n
    <2>3. QED
      BY <2>1, <2>2, SMT
  <1>2. /\ s \in Seq(X) /\ f[m] \in Seq(X) /\ x \in Seq(X) /\ f[m + 1] = f[m] \o x
        /\ c = a + b /\ c <= k /\ \A j \in 1 .. b : s[a + j] = x[j]
    BY <1>1 DEF IsJoined
  <1>3. a \in Nat /\ b \in Nat /\ k \in Nat
    BY <1>2, LenProperties
  <1> HIDE DEF a, b, c, k, x, n
  <1>4. /\ c + 1 = i + b /\ i + b <= k + 1 /\ i \in 1 .. (k + 1)
        /\ \A j \in 0 .. (b - 1) : /\ i + j = a + (j + 1) /\ j + 1 \in 1 .. b
                                   /\ i + j \in Nat /\ i + j <= k
    BY <1>2, <1>3, SMT
  <1>5. ASSUME NEW j \in 0 .. (b - 1) PROVE At(s, i + j) = x[j + 1]
    <2>1. s[i + j] = x[j + 1]
      BY <1>2, <1>4
    <2>2. At(s, i + j) = s[i + j]
      BY <1>4 DEF At, k
    <2>3. QED
      BY <2>1, <2>2
  <1>6. Lies(x, s, i)
    BY <1>5 DEF Lies, b, x
  <1>7. QED
    BY <1>2, <1>4, <1>6 DEF IsStep, a, b, c, k, x

\* What a piece that is no spaces begins with.
LEMMA FirstOfPiece ==
  ASSUME NEW q, IsPiece(q), q.kind # "spaces"
  PROVE  /\ Len(FormatOf(q)) >= 1 /\ ~IsSpace(FormatOf(q)[1])
         /\ Len(TextOf(q)) >= 1 /\ ~IsSpace(TextOf(q)[1])
         /\ q.kind = "plain" => TextOf(q)[1] = q.char
         /\ q.kind = "percent" => TextOf(q)[1] = "%"
  <1>1. ~IsSpace("%") /\ ~IsSpace("-") /\ ~IsSpace("0")
    <2>1. "%" \in Sign /\ "-" \in Sign /\ "0" \in Digits
      BY DEF Sign, Digits
    <2>2. QED
      BY <2>1, SpacesAreNone, Zenon
  <1>2. CASE q.kind = "number"
    <2>1. q.conv \in {"d", "u", "x", "p"} /\ q.l \in 0 .. 2
      BY <1>2, NumberOfPiece
    <2>2. Len(FormatOf(q)) = q.l + 2 /\ FormatOf(q)[1] = "%"
      BY <1>2, <2>1, ConversionFormat DEF FormatOf
    <2>3. q.l + 2 >= 1
      BY <2>1, SMT
    <2>4. PICK front, digits, v : IsNumberText(TextOf(q), front, digits, v, q)
      BY <1>2, NumberTexts
    <2>5. Lies(TextOf(q), TextOf(q), 1)
      <3> DEFINE t == TextOf(q)
      <3>1. t \in Seq(Character)
        BY PieceTexts
      <3>2. Len(t) \in Nat
        BY <3>1, LenProperties
      <3> HIDE DEF t
      <3>3. ASSUME NEW j \in 0 .. (Len(t) - 1) PROVE At(t, 1 + j) = t[j + 1]
        <4>1. 1 + j = j + 1 /\ j + 1 <= Len(t)
          BY <3>2, SMT
        <4>2. QED
          BY <4>1 DEF At
      <3>4. QED
        BY <3>3 DEF Lies, t
    <2>6. IsFront(front, digits, TextOf(q), 1, Len(TextOf(q)))
      BY <1>2, <2>4, <2>5, PartsOfNumber
    <2>7. Len(TextOf(q)) >= 1
      <3> DEFINE n == Len(TextOf(q))
                 a == Len(front)
                 b == Len(digits)
      <3>1. n = a + b /\ a \in 0 .. 2 /\ b \in Nat /\ b >= 1
        BY <2>6 DEF IsFront
      <3> HIDE DEF n, a, b
      <3>2. n >= 1
        BY <3>1, SMT
      <3>3. QED
        BY <3>2 DEF n
    <2>8. TextOf(q)[1] = At(TextOf(q), 1)
      BY <2>7 DEF At
    <2>9. ~IsSpace(At(TextOf(q), 1))
      <3> DEFINE t == TextOf(q)
      <3>1. /\ \A j \in 0 .. (Len(front) - 1) : At(t, 1 + j) = front[j + 1]
            /\ \A j \in 0 .. (Len(digits) - 1) : At(t, (1 + Len(front)) + j) = digits[j + 1]
            /\ Len(digits) \in Nat /\ Len(digits) >= 1
        BY <2>6 DEF IsFront, Lies
      <3>2. front \in {<<>>, <<"-">>, <<"0", "x">>} /\ (digits \in Seq(Symbols(10)) \/ digits \in Seq(Symbols(16)))
        BY <2>4 DEF IsNumberText, IsWritten
      <3> HIDE DEF t
      <3>3. 1 + 0 = 1 /\ 0 + 1 = 1 /\ (1 + 0) + 0 = 1
        BY SMT
      <3>4. CASE front = <<>>
        <4>1. Len(front) = 0
          BY <3>4
        <4>2. 0 \in 0 .. (Len(digits) - 1) /\ 1 \in 1 .. Len(digits)
          <5> DEFINE b == Len(digits)
          <5>1. b \in Nat /\ b >= 1
            BY <3>1
          <5> HIDE DEF b
          <5>2. 0 \in 0 .. (b - 1) /\ 1 \in 1 .. b
            BY <5>1, SMT
          <5>3. QED
            BY <5>2 DEF b
        <4>3. At(t, 1) = digits[1]
          BY <3>1, <3>3, <4>1, <4>2
        <4>4. digits[1] \in Symbols(10) \/ digits[1] \in Symbols(16)
          BY <3>2, <4>2, ElementOfSeq
        <4>5. 10 \in 2 .. 36 /\ 16 \in 2 .. 36
          BY SMT
        <4>6. QED
          BY <4>3, <4>4, <4>5, SymbolFacts DEF t
      <3>5. CASE front = <<"-">>
        <4>1. 0 \in 0 .. (Len(front) - 1) /\ front[1] = "-"
          BY <3>5
        <4>2. QED
          BY <1>1, <3>1, <3>3, <4>1 DEF t
      <3>6. CASE front = <<"0", "x">>
        <4>1. 0 \in 0 .. (Len(front) - 1) /\ front[1] = "0"
          BY <3>6
        <4>2. QED
          BY <1>1, <3>1, <3>3, <4>1 DEF t
      <3>7. QED
        BY <3>2, <3>4, <3>5, <3>6 DEF t
    <2>10. QED
      BY <1>1, <1>2, <2>2, <2>3, <2>7, <2>8, <2>9
  <1>3. CASE q.kind = "plain"
    <2>1. FormatOf(q) = <<q.char>> /\ TextOf(q) = <<q.char>>
      BY <1>3 DEF FormatOf, TextOf
    <2>2. ~IsSpace(q.char)
      BY <1>3, Zenon DEF IsPiece
    <2>3. QED
      BY <1>3, <2>1, <2>2
  <1>4. CASE q.kind = "percent"
    <2>1. FormatOf(q) = <<"%", "%">> /\ TextOf(q) = <<"%">>
      BY <1>4 DEF FormatOf, TextOf
    <2>2. QED
      BY <1>1, <1>4, <2>1
  <1>5. QED
    BY <1>2, <1>3, <1>4, PieceTexts

\* The format and the text are those of pieces.
IsPrinted(ps) ==
  /\ ps \in Printing /\ format = Joined(FormatsOf(ps)) /\ input = Joined(TextsOf(ps))
  /\ printed = Joined(ValuesOf(ps))

\* The walk is in front of a piece: in both strings it is behind the first m, and their
\* numbers are stored.
AtPiece(ps, m) ==
  /\ m \in 0 .. Len(ps)
  /\ fpos = Len(Upto(FormatsOf(ps))[m]) + 1 /\ spos = Len(Upto(TextsOf(ps))[m]) + 1
  /\ stored = Upto(ValuesOf(ps))[m] /\ matches = Len(stored) /\ errno = 0
  /\ over => m = Len(ps)

\* What is behind a piece in the format and in the text is no part of it.
IsBehind(p, c, d) ==
  /\ p.kind = "spaces" => ~IsSpace(c) /\ ~IsSpace(d)
  /\ p.kind = "number" => Value(d) >= 16 /\ d \notin {"x", "X"}

\* A piece is at both places.
IsHere(p, a, b) ==
  /\ IsPiece(p) /\ a = Len(FormatOf(p)) /\ b = Len(TextOf(p)) /\ a \in Nat /\ b \in Nat
  /\ Lies(FormatOf(p), format, fpos) /\ fpos + a <= Len(format) + 1
  /\ Lies(TextOf(p), input, spos) /\ spos + b <= Len(input) + 1
  /\ IsBehind(p, At(format, fpos + a), At(input, spos + b))

\* No digit and no space.
LEMMA NoDigit ==
  ASSUME NEW ch, ch \in {End, "%"} \/ IsSpace(ch)
  PROVE  Value(ch) >= 16 /\ ch \notin {"x", "X"} /\ (ch \in {End, "%"} => ~IsSpace(ch))
  <1>1. CASE ch \in {End, "%"}
    <2>1. ch \in Sign
      BY <1>1 DEF Sign
    <2>2. ch \notin {"x", "X"}
      BY <1>1 DEF End
    <2>3. Value(ch) = 36
      BY <2>1, NoValue
    <2>4. ~IsSpace(ch)
      BY <2>1, SpacesAreNone, Zenon
    <2>5. 36 >= 16
      BY SMT
    <2>6. QED
      BY <2>2, <2>3, <2>4, <2>5
  <1>2. CASE IsSpace(ch)
    <2>1. Value(ch) = 36
      BY <1>2, NoValue
    <2>2. ch \notin Sign /\ ch \notin Small /\ ch \notin Large
      BY <1>2, SpacesAreNone, Zenon
    <2>3. ch \notin {"x", "X"} /\ ch \notin {End, "%"}
      BY <2>2 DEF Sign, Small, Large
    <2>4. 36 >= 16
      BY SMT
    <2>5. QED
      BY <2>1, <2>3, <2>4
  <1>3. QED
    BY <1>1, <1>2

\* What a piece begins with is no part of the one in front of it.
LEMMA NextIsBehind ==
  ASSUME NEW p, IsPiece(p), NEW q, IsPiece(q), MayFollow(p, q), NEW c, NEW d,
         FormatOf(q) # <<>> => c = FormatOf(q)[1], TextOf(q) # <<>> => d = TextOf(q)[1]
  PROVE  IsBehind(p, c, d)
  <1>1. CASE q.kind # "spaces"
    <2>1. /\ FormatOf(q) # <<>> /\ ~IsSpace(FormatOf(q)[1])
          /\ TextOf(q) # <<>> /\ ~IsSpace(TextOf(q)[1])
          /\ q.kind = "plain" => TextOf(q)[1] = q.char
          /\ q.kind = "percent" => TextOf(q)[1] = "%"
      <3>1. Len(FormatOf(q)) >= 1 /\ Len(TextOf(q)) >= 1
        BY <1>1, FirstOfPiece
      <3>2. FormatOf(q) # <<>> /\ TextOf(q) # <<>>
        <4>1. Len(<<>>) = 0 /\ ~(0 >= 1)
          BY SMT
        <4>2. QED
          BY <3>1, <4>1
      <3>3. QED
        BY <1>1, <3>2, FirstOfPiece
    <2>2. c = FormatOf(q)[1] /\ d = TextOf(q)[1]
      BY <2>1
    <2>3. ASSUME p.kind = "number" PROVE Value(d) >= 16 /\ d \notin {"x", "X"}
      <3>1. q.kind # "number"
        BY <2>3 DEF MayFollow
      <3>2. q.kind \in {"plain", "percent"}
        BY <1>1, <3>1, PieceTexts
      <3>3. CASE q.kind = "plain"
        <4>1. d = q.char /\ Value(q.char) >= 16 /\ q.char \notin {"x", "X"}
          BY <2>1, <2>2, <2>3, <3>3 DEF MayFollow
        <4>2. QED
          BY <4>1
      <3>4. CASE q.kind = "percent"
        <4>1. d \in {End, "%"}
          BY <2>1, <2>2, <3>4
        <4>2. QED
          BY <4>1, NoDigit
      <3>5. QED
        BY <3>2, <3>3, <3>4
    <2>4. QED
      BY <2>1, <2>2, <2>3 DEF IsBehind
  <1>2. CASE q.kind = "spaces"
    <2>1. p.kind # "spaces"
      BY <1>2 DEF MayFollow
    <2>2. ASSUME p.kind = "number" PROVE Value(d) >= 16 /\ d \notin {"x", "X"}
      <3>1. TextOf(q) # <<>> /\ TextOf(q) = q.text
        BY <1>2, <2>2 DEF MayFollow, TextOf
      <3>2. q.text \in Seq(STRING) /\ AreSpaces(q.text)
        BY <1>2 DEF IsPiece
      <3>3. 1 \in DOMAIN q.text
        <4> DEFINE n == Len(q.text)
        <4>1. n \in Nat \ {0} /\ DOMAIN q.text = 1 .. n
          BY <3>1, <3>2, EmptySeq, LenProperties
        <4> HIDE DEF n
        <4>2. 1 \in 1 .. n
          BY <4>1, SMT
        <4>3. QED
          BY <4>1, <4>2
      <3>4. IsSpace(d)
        BY <3>1, <3>2, <3>3 DEF AreSpaces
      <3>5. QED
        BY <3>4, NoDigit
    <2>3. QED
      BY <2>1, <2>2 DEF IsBehind
  <1>3. QED
    BY <1>1, <1>2

\* Each piece but the last one has another behind it, and the last one the end.
LEMMA PieceIsHere ==
  ASSUME NEW ps, NEW m, IsPrinted(ps), AtPiece(ps, m), m # Len(ps)
  PROVE  LET p == ps[m + 1]
             a == Len(FormatOf(p))
             b == Len(TextOf(p))
         IN  /\ IsHere(p, a, b) /\ m + 1 \in 0 .. Len(ps)
             /\ Len(Upto(FormatsOf(ps))[m + 1]) + 1 = fpos + a
             /\ Len(Upto(TextsOf(ps))[m + 1]) + 1 = spos + b
             /\ Upto(ValuesOf(ps))[m + 1] = stored \o NumbersIn(p)
  <1> DEFINE n  == Len(ps)
             F  == FormatsOf(ps)
             T  == TextsOf(ps)
             V  == ValuesOf(ps)
             uf == Upto(F)
             ut == Upto(T)
             uv == Upto(V)
             p  == ps[m + 1]
             a  == Len(FormatOf(p))
             b  == Len(TextOf(p))
  <1>1. /\ n \in Nat /\ \A i \in 1 .. n : IsPiece(ps[i])
        /\ \A i \in 1 .. (n - 1) : MayFollow(ps[i], ps[i + 1])
        /\ Len(F) = n /\ Len(T) = n /\ Len(V) = n
        /\ IsJoined(format, uf, F, Character)
        /\ IsJoined(input, ut, T, Character)
        /\ IsJoined(printed, uv, V, Int)
    BY PrintingFacts DEF IsPrinted
  <1>2. m \in 0 .. n /\ fpos = Len(uf[m]) + 1 /\ spos = Len(ut[m]) + 1 /\ stored = uv[m] /\ m # n
    BY DEF AtPiece
  <1>3. \A i \in 1 .. n : F[i] = FormatOf(ps[i]) /\ T[i] = TextOf(ps[i]) /\ V[i] = NumbersIn(ps[i])
    BY DEF FormatsOf, TextsOf, ValuesOf
  <1> HIDE DEF n, F, T, V, uf, ut, uv, Character
  <1>4. m \in 0 .. (n - 1) /\ m + 1 \in 1 .. n /\ m + 1 \in 0 .. n
    BY <1>1, <1>2, SMT
  <1>5. ASSUME NEW k \in 0 .. (n - 1)
        PROVE  IsStep(format, uf, F, Character, k) /\ IsStep(input, ut, T, Character, k) /\ IsStep(printed, uv, V, Int, k)
    BY <1>1, JoinedStep
  <1>6. /\ Lies(FormatOf(p), format, fpos) /\ Len(uf[m + 1]) + 1 = fpos + a /\ fpos + a <= Len(format) + 1
        /\ FormatOf(p) \in Seq(Character)
    <2>1. IsStep(format, uf, F, Character, m) /\ F[m + 1] = FormatOf(p)
      BY <1>3, <1>4, <1>5
    <2>2. QED
      BY <1>2, <2>1 DEF IsStep
  <1>7. /\ Lies(TextOf(p), input, spos) /\ Len(ut[m + 1]) + 1 = spos + b /\ spos + b <= Len(input) + 1
        /\ TextOf(p) \in Seq(Character)
    <2>1. IsStep(input, ut, T, Character, m) /\ T[m + 1] = TextOf(p)
      BY <1>3, <1>4, <1>5
    <2>2. QED
      BY <1>2, <2>1 DEF IsStep
  <1>8. uv[m + 1] = stored \o NumbersIn(p)
    <2>1. IsStep(printed, uv, V, Int, m) /\ V[m + 1] = NumbersIn(p)
      BY <1>3, <1>4, <1>5
    <2>2. QED
      BY <1>2, <2>1 DEF IsStep
  <1>9. IsPiece(p)
    BY <1>1, <1>4
  <1>10. IsBehind(p, At(format, fpos + a), At(input, spos + b))
    <2>1. CASE m + 1 = n
      <3>1. uf[n] = format /\ ut[n] = input /\ format \in Seq(Character) /\ input \in Seq(Character)
        BY <1>1 DEF IsJoined
      <3>2. fpos + a = Len(format) + 1 /\ spos + b = Len(input) + 1
        BY <1>6, <1>7, <2>1, <3>1
      <3>3. At(format, Len(format) + 1) = End /\ At(input, Len(input) + 1) = End
        <4>1. ASSUME NEW s \in Seq(Character) PROVE At(s, Len(s) + 1) = End
          <5>1. Len(s) \in Nat
            BY LenProperties
          <5>2. ~(Len(s) + 1 <= Len(s))
            BY <5>1, SMT
          <5>3. QED
            BY <5>2 DEF At
        <4>2. QED
          BY <3>1, <4>1
      <3>4. Value(End) >= 16 /\ End \notin {"x", "X"} /\ ~IsSpace(End)
        BY NoDigit, Zenon
      <3>5. QED
        BY <3>2, <3>3, <3>4 DEF IsBehind
    <2>2. CASE m + 1 # n
      <3> DEFINE k == m + 1
                 q == ps[k + 1]
      <3>1. k \in 0 .. (n - 1) /\ k + 1 \in 1 .. n /\ k \in 1 .. (n - 1)
        BY <1>1, <1>4, <2>2, SMT
      <3> HIDE DEF k
      <3>2. IsPiece(q) /\ MayFollow(ps[k], q)
        BY <1>1, <3>1
      <3>3. ASSUME NEW s, NEW x, NEW i, NEW Y, i \in 1 .. (Len(s) + 1), s \in Seq(Y), x \in Seq(Character), Lies(x, s, i), x # <<>>
            PROVE  At(s, i) = x[1]
        <4> DEFINE c == Len(x)
                   d == Len(s)
        <4>1. c \in Nat \ {0} /\ d \in Nat
          BY <3>3, EmptySeq, LenProperties
        <4>2. i \in 1 .. (d + 1)
          BY <3>3
        <4> HIDE DEF c, d
        <4>3. 0 \in 0 .. (c - 1) /\ i + 0 = i /\ 0 + 1 = 1
          BY <4>1, <4>2, SMT
        <4>4. At(s, i + 0) = x[0 + 1]
          BY <3>3, <4>3 DEF Lies, c
        <4>5. QED
          BY <4>3, <4>4
      <3>4. format \in Seq(Character) /\ input \in Seq(Character)
        BY <1>1 DEF IsJoined
      <3>5. FormatOf(q) # <<>> => At(format, fpos + a) = FormatOf(q)[1]
        <4>1. LET i == Len(uf[k]) + 1
                  x == F[k + 1]
              IN  /\ x \in Seq(Character) /\ Lies(x, format, i) /\ i \in 1 .. (Len(format) + 1)
          BY <1>5, <3>1 DEF IsStep
        <4>2. Len(uf[k]) + 1 = fpos + a /\ F[k + 1] = FormatOf(q)
          BY <1>3, <1>6, <3>1 DEF k
        <4>3. QED
          BY <3>3, <3>4, <4>1, <4>2
      <3>6. TextOf(q) # <<>> => At(input, spos + b) = TextOf(q)[1]
        <4>1. LET i == Len(ut[k]) + 1
                  x == T[k + 1]
              IN  /\ x \in Seq(Character) /\ Lies(x, input, i) /\ i \in 1 .. (Len(input) + 1)
          BY <1>5, <3>1 DEF IsStep
        <4>2. Len(ut[k]) + 1 = spos + b /\ T[k + 1] = TextOf(q)
          BY <1>3, <1>7, <3>1 DEF k
        <4>3. QED
          BY <3>3, <3>4, <4>1, <4>2
      <3> HIDE DEF q
      <3>7. MayFollow(p, q)
        BY <3>2 DEF k
      <3> HIDE DEF p, a, b
      <3>8. QED
        BY <1>9, <3>2, <3>5, <3>6, <3>7, NextIsBehind
    <2>3. QED
      BY <2>1, <2>2
  <1>11. a \in Nat /\ b \in Nat
    BY <1>6, <1>7, LenProperties
  <1> HIDE DEF p, a, b
  <1>12. IsHere(p, a, b)
    BY <1>6, <1>7, <1>9, <1>10, <1>11 DEF IsHere, a, b
  <1>13. QED
    BY <1>4, <1>6, <1>7, <1>8, <1>12 DEF p, a, b, n, F, T, V, uf, ut, uv

\* The walk goes behind a piece.
GoesBehind(p, a, b) ==
  /\ fpos' = fpos + a /\ spos' = spos + b /\ stored' = stored \o NumbersIn(p)
  /\ matches' = matches + Len(NumbersIn(p)) /\ over' = over /\ errno' = errno

\* A number is converted.
LEMMA NumberStep ==
  ASSUME WalkInv, ~over, NEW p, NEW a, NEW b, IsHere(p, a, b), p.kind = "number", ScanfNext
  PROVE  GoesBehind(p, a, b)
  <1> DEFINE l == p.l
             c == p.conv
  <1>1. /\ IsPiece(p) /\ a = Len(FormatOf(p)) /\ b = Len(TextOf(p))
        /\ Lies(FormatOf(p), format, fpos)
        /\ Lies(TextOf(p), input, spos) /\ spos + b <= Len(input) + 1
        /\ Value(At(input, spos + b)) >= 16 /\ At(input, spos + b) \notin {"x", "X"}
    BY DEF IsHere, IsBehind
  <1>2. c \in {"d", "u", "x", "p"} /\ l \in 0 .. 2 /\ p.value \in Int
    BY <1>1, NumberOfPiece
  <1>3. /\ a = l + 2
        /\ FormatOf(p)[1] = "%" /\ FormatOf(p)[l + 2] = c /\ \A i \in 1 .. l : FormatOf(p)[1 + i] = "l"
    <2> DEFINE s == <<"%">> \o [i \in 1 .. l |-> "l"] \o <<c>>
    <2>1. FormatOf(p) = s
      BY DEF FormatOf
    <2> HIDE DEF l, c
    <2>2. Len(s) = l + 2 /\ s[1] = "%" /\ s[l + 2] = c /\ \A i \in 1 .. l : s[1 + i] = "l"
      BY <1>2, ConversionFormat, Zenon
    <2> HIDE DEF s
    <2>3. QED
      BY <1>1, <2>1, <2>2
  <1>4. /\ input \in Seq(Character) /\ spos \in 1 .. (Len(input) + 1) /\ stored \in Seq(Int) /\ fpos \in Nat
    <2>1. format \in Seq(Character) /\ fpos \in 1 .. (Len(format) + 1)
      BY DEF WalkInv
    <2>2. fpos \in Nat
      BY <2>1, LenProperties, SMT
    <2>3. QED
      BY <2>2 DEF WalkInv
  <1> HIDE DEF l, c, Character
  <1>5. \A j \in 0 .. (l + 1) : At(format, fpos + j) = FormatOf(p)[j + 1]
    <2>1. (l + 2) - 1 = l + 1
      BY <1>2, SMT
    <2>2. QED
      BY <1>1, <1>3, <2>1 DEF Lies
  <1>6. /\ At(format, fpos) = "%"
        /\ l = 0 => At(format, fpos + 1) = c
        /\ l = 1 => At(format, fpos + 1) = "l" /\ At(format, fpos + 2) = c
        /\ l = 2 => At(format, fpos + 1) = "l" /\ At(format, fpos + 2) = "l" /\ At(format, fpos + 3) = c
    <2>1. At(format, fpos) = "%"
      <3>1. 0 \in 0 .. (l + 1) /\ fpos + 0 = fpos /\ 0 + 1 = 1
        BY <1>2, <1>4, SMT
      <3>2. At(format, fpos + 0) = FormatOf(p)[0 + 1]
        BY <1>5, <3>1
      <3>3. QED
        BY <1>3, <3>1, <3>2
    <2>2. ASSUME l = 0 PROVE At(format, fpos + 1) = c
      <3>1. 1 \in 0 .. (l + 1) /\ 1 + 1 = l + 2
        BY <2>2, SMT
      <3>2. At(format, fpos + 1) = FormatOf(p)[1 + 1]
        BY <1>5, <3>1
      <3>3. QED
        BY <1>3, <3>1, <3>2
    <2>3. ASSUME l = 1 PROVE At(format, fpos + 1) = "l" /\ At(format, fpos + 2) = c
      <3>1. 1 \in 0 .. (l + 1) /\ 2 \in 0 .. (l + 1) /\ 2 + 1 = l + 2 /\ 1 \in 1 .. l
        BY <2>3, SMT
      <3>2. At(format, fpos + 1) = FormatOf(p)[1 + 1] /\ At(format, fpos + 2) = FormatOf(p)[2 + 1]
        BY <1>5, <3>1
      <3>3. QED
        BY <1>3, <3>1, <3>2
    <2>4. ASSUME l = 2 PROVE At(format, fpos + 1) = "l" /\ At(format, fpos + 2) = "l" /\ At(format, fpos + 3) = c
      <3>1. 1 \in 0 .. (l + 1) /\ 2 \in 0 .. (l + 1) /\ 3 \in 0 .. (l + 1) /\ 3 + 1 = l + 2
            /\ 1 \in 1 .. l /\ 2 \in 1 .. l /\ 1 + 2 = 2 + 1
        BY <2>4, SMT
      <3>2. At(format, fpos + 1) = FormatOf(p)[1 + 1] /\ At(format, fpos + 2) = FormatOf(p)[2 + 1]
            /\ At(format, fpos + 3) = FormatOf(p)[3 + 1]
        BY <1>5, <3>1
      <3>3. FormatOf(p)[1 + 1] = "l" /\ FormatOf(p)[1 + 2] = "l"
        BY <1>3, <3>1
      <3>4. QED
        BY <1>3, <3>1, <3>2, <3>3
    <2>5. QED
      BY <2>1, <2>2, <2>3, <2>4
  <1>7. lpref = l /\ Conversion = c
    <2>1. (fpos + 1) + 1 = fpos + 2 /\ fpos + 1 + 0 = fpos + 1 /\ fpos + 1 + 1 = fpos + 2 /\ fpos + 1 + 2 = fpos + 3
      BY <1>4, SMT
    <2>2. c # "l"
      BY <1>2
    <2>3. CASE l = 0
      <3>1. lpref = 0
        BY <1>6, <2>2, <2>3 DEF lpref, Prefix
      <3>2. QED
        BY <1>6, <2>1, <2>3, <3>1 DEF Conversion
    <2>4. CASE l = 1
      <3>1. lpref = 1
        BY <1>6, <2>1, <2>2, <2>4 DEF lpref, Prefix
      <3>2. QED
        BY <1>6, <2>1, <2>4, <3>1 DEF Conversion
    <2>5. CASE l = 2
      <3>1. lpref = 2
        BY <1>6, <2>1, <2>5 DEF lpref, Prefix
      <3>2. QED
        BY <1>6, <2>1, <2>5, <3>1 DEF Conversion
    <2>6. l \in {0, 1, 2}
      BY <1>2, SMT
    <2>7. QED
      BY <2>3, <2>4, <2>5, <2>6
  <1>8. Convert
    <2>1. ~IsPlain
      BY <1>6 DEF IsPlain
    <2>2. Conversion \notin {"%"} /\ Conversion \in {"d", "u", "x", "X", "p", "%"}
      BY <1>2, <1>7
    <2>3. QED
      BY <2>1, <2>2 DEF ScanfNext, Percent, Unknown, Finished, SkipSpaces, Literal
  <1> DEFINE r == NumberAt(c, spos)
  <1>9. r.end = spos + b /\ r.error = 0 /\ Kept(c, l, r.val) = p.value
    BY <1>1, <1>4, NumberIsReadBack DEF c, l
  <1>10. NumbersIn(p) = <<p.value>> /\ Len(NumbersIn(p)) = 1
    BY DEF NumbersIn
  <1>11. Append(stored, p.value) = stored \o NumbersIn(p)
    BY <1>2, <1>4, <1>10, AppendIsConcat
  <1>12. fpos + 2 + l = fpos + a
    BY <1>2, <1>3, <1>4, SMT
  <1> HIDE DEF r
  <1>13. /\ stored' = Append(stored, Kept(c, l, r.val)) /\ spos' = r.end
         /\ r.error = 0 => errno' = errno
         /\ fpos' = fpos + 2 + l /\ matches' = matches + 1 /\ over' = over
    BY <1>7, <1>8 DEF Convert, r
  <1>14. QED
    BY <1>9, <1>10, <1>11, <1>12, <1>13 DEF GoesBehind

\* The places are numbers, and nothing more is stored when no number is.
LEMMA WalkNumbers ==
  ASSUME WalkInv, ~over
  PROVE  /\ fpos \in Nat /\ spos \in Nat /\ stored \o <<>> = stored /\ Len(<<>>) = 0 /\ matches + 0 = matches
         /\ Len(format) \in Nat /\ Len(input) \in Nat
  <1>1. format \in Seq(Character) /\ fpos \in 1 .. (Len(format) + 1)
    BY DEF WalkInv
  <1>2. input \in Seq(Character) /\ spos \in 1 .. (Len(input) + 1)
    BY DEF WalkInv
  <1>3. fpos \in Nat /\ spos \in Nat
    BY <1>1, <1>2, LenProperties, SMT
  <1>4. stored \in Seq(Int) /\ matches = Len(stored)
    BY DEF WalkInv
  <1>5. Len(stored) \in Nat /\ stored \o <<>> = stored /\ Len(<<>>) = 0
    BY <1>4, LenProperties, ConcatEmptySeq
  <1>6. matches + 0 = matches
    BY <1>4, <1>5, SMT
  <1>7. QED
    BY <1>1, <1>2, <1>3, <1>5, <1>6, LenProperties

\* A plain character is the same in both.
LEMMA PlainStep ==
  ASSUME WalkInv, ~over, NEW p, NEW a, NEW b, IsHere(p, a, b), p.kind = "plain", ScanfNext
  PROVE  GoesBehind(p, a, b)
  <1> DEFINE c == p.char
  <1>1. FormatOf(p) = <<c>> /\ TextOf(p) = <<c>> /\ NumbersIn(p) = <<>>
    BY DEF FormatOf, TextOf, NumbersIn
  <1>2. c \notin {End, "%"} /\ ~IsSpace(c)
    <2>1. IsPiece(p)
      BY DEF IsHere
    <2>2. QED
      BY <2>1, Zenon DEF IsPiece
  <1>3. a = 1 /\ b = 1
    BY <1>1 DEF IsHere
  <1>4. fpos \in Nat /\ spos \in Nat /\ stored \o <<>> = stored /\ Len(<<>>) = 0 /\ matches + 0 = matches
    BY WalkNumbers
  <1>5. At(format, fpos) = c /\ At(input, spos) = c
    <2>1. 0 \in 0 .. (1 - 1) /\ fpos + 0 = fpos /\ spos + 0 = spos /\ 0 + 1 = 1
      BY <1>4, SMT
    <2>2. Len(<<c>>) = 1 /\ <<c>>[1] = c
      OBVIOUS
    <2>3. Lies(<<c>>, format, fpos) /\ Lies(<<c>>, input, spos)
      BY <1>1 DEF IsHere
    <2>4. At(format, fpos + 0) = <<c>>[0 + 1] /\ At(input, spos + 0) = <<c>>[0 + 1]
      BY <2>1, <2>2, <2>3 DEF Lies
    <2>5. QED
      BY <2>1, <2>2, <2>4
  <1> HIDE DEF c
  <1>6. Literal
    BY <1>2, <1>5 DEF ScanfNext, Convert, Percent, Unknown, Finished, SkipSpaces, IsPattern
  <1>7. fpos' = fpos + 1 /\ spos' = spos + 1 /\ over' = over /\ matches' = matches /\ stored' = stored /\ errno' = errno
    BY <1>5, <1>6 DEF Literal
  <1>8. QED
    BY <1>1, <1>3, <1>4, <1>7 DEF GoesBehind

\* %% takes a %.
LEMMA PercentStep ==
  ASSUME WalkInv, ~over, NEW p, NEW a, NEW b, IsHere(p, a, b), p.kind = "percent", ScanfNext
  PROVE  GoesBehind(p, a, b)
  <1>1. FormatOf(p) = <<"%", "%">> /\ TextOf(p) = <<"%">> /\ NumbersIn(p) = <<>>
    BY DEF FormatOf, TextOf, NumbersIn
  <1>2. a = 2 /\ b = 1
    BY <1>1 DEF IsHere
  <1>3. fpos \in Nat /\ spos \in Nat /\ stored \o <<>> = stored /\ Len(<<>>) = 0 /\ matches + 0 = matches
    BY WalkNumbers
  <1>4. At(format, fpos) = "%" /\ At(format, fpos + 1) = "%" /\ At(input, spos) = "%"
    <2>1. /\ 0 \in 0 .. (1 - 1) /\ fpos + 0 = fpos /\ spos + 0 = spos /\ 0 + 1 = 1
          /\ 0 \in 0 .. (2 - 1) /\ 1 \in 0 .. (2 - 1) /\ 1 + 1 = 2
      BY <1>3, SMT
    <2>2. Len(<<"%">>) = 1 /\ <<"%">>[1] = "%" /\ Len(<<"%", "%">>) = 2 /\ <<"%", "%">>[1] = "%" /\ <<"%", "%">>[2] = "%"
      OBVIOUS
    <2>3. Lies(<<"%", "%">>, format, fpos) /\ Lies(<<"%">>, input, spos)
      BY <1>1 DEF IsHere
    <2>4. /\ At(format, fpos + 0) = <<"%", "%">>[0 + 1] /\ At(format, fpos + 1) = <<"%", "%">>[1 + 1]
          /\ At(input, spos + 0) = <<"%">>[0 + 1]
      BY <2>1, <2>2, <2>3 DEF Lies
    <2>5. QED
      BY <2>1, <2>2, <2>4
  <1>5. lpref = 0
    BY <1>4 DEF lpref, Prefix
  <1>6. Conversion = "%"
    <2>1. fpos + 1 + 0 = fpos + 1
      BY <1>3, SMT
    <2>2. QED
      BY <1>4, <1>5, <2>1 DEF Conversion
  <1>7. Percent
    <2>1. ~IsPlain
      BY <1>4 DEF IsPlain
    <2>2. Conversion \in {"d", "u", "x", "X", "p", "%"} /\ Conversion \notin {"d", "u", "x", "X", "p"}
      BY <1>6
    <2>3. QED
      BY <2>1, <2>2 DEF ScanfNext, Convert, Unknown, Finished, SkipSpaces, Literal
  <1>8. /\ fpos' = fpos + 2 + 0 /\ spos' = spos + 1 /\ over' = over /\ matches' = matches /\ stored' = stored
        /\ errno' = errno
    BY <1>4, <1>5, <1>7 DEF Percent
  <1>9. fpos + 2 + 0 = fpos + 2
    BY <1>3, SMT
  <1>10. QED
    BY <1>1, <1>2, <1>3, <1>8, <1>9 DEF GoesBehind

\* Spaces of the format take all spaces of the text.
LEMMA SpacesEnd ==
  ASSUME NEW s, Len(s) \in Nat, NEW i \in 1 .. (Len(s) + 1), NEW x, Lies(x, s, i), AreSpaces(x), NEW n \in Nat,
         n = Len(x), DOMAIN x = 1 .. n, i + n <= Len(s) + 1, ~IsSpace(At(s, i + n))
  PROVE  BehindSpaces(s, i) = i + n
  <1> DEFINE k == Len(s)
  <1>1. k \in Nat /\ i \in 1 .. (k + 1) /\ i + n <= k + 1
    OBVIOUS
  <1> HIDE DEF k
  <1>2. i + n \in i .. (k + 1)
    BY <1>1, SMT
  <1>3. ASSUME NEW j \in i .. ((i + n) - 1) PROVE IsSpace(At(s, j))
    <2>1. j - i \in 0 .. (n - 1) /\ i + (j - i) = j /\ (j - i) + 1 \in 1 .. n
      BY <1>1, SMT
    <2>2. At(s, i + (j - i)) = x[(j - i) + 1]
      BY <2>1 DEF Lies
    <2>3. IsSpace(x[(j - i) + 1])
      BY <2>1 DEF AreSpaces
    <2>4. QED
      BY <2>1, <2>2, <2>3
  <1>4. IsBehindSpaces(i + n, s, i)
    BY <1>2, <1>3 DEF IsBehindSpaces, k
  <1>5. QED
    BY <1>4, BehindSpacesFacts

\* A blank of the pattern takes what is blank in the text.
LEMMA SpacesStep ==
  ASSUME WalkInv, ~over, NEW p, NEW a, NEW b, IsHere(p, a, b), p.kind = "spaces", ScanfNext
  PROVE  GoesBehind(p, a, b)
  <1>1. FormatOf(p) = p.format /\ TextOf(p) = p.text /\ NumbersIn(p) = <<>>
    BY DEF FormatOf, TextOf, NumbersIn
  <1>2. /\ p.format \in Seq(STRING) /\ p.text \in Seq(STRING)
        /\ p.format # <<>> /\ AreSpaces(p.format) /\ AreSpaces(p.text)
    BY DEF IsHere, IsPiece
  <1>3. /\ a = Len(p.format) /\ b = Len(p.text) /\ a \in Nat /\ b \in Nat
        /\ DOMAIN p.format = 1 .. a /\ DOMAIN p.text = 1 .. b /\ a # 0
    BY <1>1, <1>2, LenProperties, EmptySeq DEF IsHere
  <1>4. /\ fpos \in Nat /\ spos \in Nat /\ stored \o <<>> = stored /\ Len(<<>>) = 0 /\ matches + 0 = matches
        /\ Len(format) \in Nat /\ Len(input) \in Nat
    BY WalkNumbers
  <1>5. /\ Lies(p.format, format, fpos) /\ fpos + a <= Len(format) + 1 /\ ~IsSpace(At(format, fpos + a))
        /\ Lies(p.text, input, spos) /\ spos + b <= Len(input) + 1 /\ ~IsSpace(At(input, spos + b))
    BY <1>1 DEF IsHere, IsBehind
  <1>6. fpos \in 1 .. (Len(format) + 1) /\ spos \in 1 .. (Len(input) + 1)
    BY DEF WalkInv
  <1>7. BehindSpaces(format, fpos) = fpos + a /\ BehindSpaces(input, spos) = spos + b
    BY <1>2, <1>3, <1>4, <1>5, <1>6, SpacesEnd
  <1>8. IsSpace(At(format, fpos))
    <2>1. 0 \in 0 .. (a - 1) /\ fpos + 0 = fpos /\ 0 + 1 = 1 /\ 1 \in 1 .. a
      BY <1>3, <1>4, SMT
    <2>2. At(format, fpos + 0) = p.format[0 + 1]
      BY <1>3, <1>5, <2>1 DEF Lies
    <2>3. IsSpace(p.format[1])
      BY <1>2, <1>3, <2>1 DEF AreSpaces
    <2>4. QED
      BY <2>1, <2>2, <2>3
  <1>9. At(format, fpos) \notin {End, "%"}
    BY <1>8, NoDigit
  <1>10. SkipSpaces
    BY <1>8, <1>9 DEF ScanfNext, Convert, Percent, Unknown, Finished, Literal, IsPattern
  <1>11. /\ fpos' = BehindSpaces(format, fpos) /\ spos' = BehindSpaces(input, spos)
         /\ over' = over /\ matches' = matches /\ stored' = stored /\ errno' = errno
    BY <1>10 DEF SkipSpaces
  <1>12. QED
    BY <1>1, <1>4, <1>7, <1>11 DEF GoesBehind

-----------------------------------------------------------------------------
(* The walk through what printf() wrote.                                   *)

\* In a sscanf() of a format and what printf() wrote with it, the walk is between two
\* pieces, at the same ones in both strings.
PrintedInv ==
  /\ part # "scanf" => printed = <<>>
  /\ printed # <<>> => \E ps, m : IsPrinted(ps) /\ AtPiece(ps, m)

\* Nothing has been printed yet.
LEMMA PrintedStarts == TextInit => PrintedInv
  <1>1. ASSUME NoScan PROVE PrintedInv
    BY <1>1 DEF NoScan, PrintedInv
  <1>2. ASSUME ScanfInit, errno = 0, part = "scanf" PROVE PrintedInv
    <2>1. ASSUME ReadsPrinted PROVE \E ps, m : IsPrinted(ps) /\ AtPiece(ps, m)
      <3>1. PICK ps \in Printing : /\ format = Joined(FormatsOf(ps)) /\ input = Joined(TextsOf(ps))
                                   /\ printed = Joined(ValuesOf(ps))
        BY <2>1 DEF ReadsPrinted, FormatsOf, TextsOf, ValuesOf
      <3>2. IsPrinted(ps)
        BY <3>1 DEF IsPrinted
      <3>3. /\ Upto(FormatsOf(ps))[0] = <<>> /\ Upto(TextsOf(ps))[0] = <<>> /\ Upto(ValuesOf(ps))[0] = <<>>
            /\ Len(ps) \in Nat
        BY PrintingFacts DEF IsJoined
      <3>4. 0 \in 0 .. Len(ps)
        BY <3>3, SMT
      <3>5. Len(<<>>) = 0 /\ 0 + 1 = 1
        BY SMT
      <3>6. AtPiece(ps, 0)
        BY <1>2, <3>3, <3>4, <3>5 DEF ScanfInit, AtPiece
      <3>7. QED
        BY <3>2, <3>6
    <2>2. ASSUME ReadsAny PROVE printed = <<>>
      BY <2>2 DEF ReadsAny
    <2>3. ReadsPrinted \/ ReadsAny
      BY <1>2 DEF ScanfInit
    <2>4. QED
      BY <1>2, <2>1, <2>2, <2>3 DEF PrintedInv
  <1>3. TextInit => NoScan \/ (ScanfInit /\ errno = 0 /\ part = "scanf")
    BY Zenon DEF TextInit
  <1>4. QED
    BY <1>1, <1>2, <1>3

\* In front of a piece the walk goes behind it, and behind the last one it ends.
LEMMA PieceStep ==
  ASSUME WalkInv, ScanfNext, NEW ps, IsPrinted(ps), NEW m, AtPiece(ps, m)
  PROVE  \E k : IsPrinted(ps)' /\ AtPiece(ps, k)'
  <1>1. ~over
    BY DEF ScanfNext, Convert, Percent, Unknown, Finished, SkipSpaces, Literal, IsPattern, IsPlain
  <1>2. format' = format /\ input' = input /\ printed' = printed
    BY DEF ScanfNext, Convert, Percent, Unknown, Finished, SkipSpaces, Literal
  <1>3. IsPrinted(ps)'
    BY <1>2 DEF IsPrinted
  <1>4. m \in 0 .. Len(ps) /\ stored = Upto(ValuesOf(ps))[m] /\ matches = Len(stored) /\ errno = 0
        /\ fpos = Len(Upto(FormatsOf(ps))[m]) + 1
    BY DEF AtPiece
  <1>5. CASE m = Len(ps)
    <2>1. At(format, fpos) = End
      <3>1. IsJoined(format, Upto(FormatsOf(ps)), FormatsOf(ps), Character) /\ Len(FormatsOf(ps)) = Len(ps)
        BY PrintingFacts DEF IsPrinted
      <3>2. Upto(FormatsOf(ps))[m] = format
        BY <1>5, <3>1 DEF IsJoined
      <3>3. fpos = Len(format) + 1 /\ Len(format) \in Nat
        BY <1>1, <1>4, <3>2, WalkNumbers
      <3>4. ~(fpos <= Len(format))
        BY <3>3, SMT
      <3>5. QED
        BY <3>4 DEF At
    <2>2. End # "%" /\ ~IsSpace(End)
      <3>1. ~IsSpace(End)
        BY NoDigit, Zenon
      <3>2. QED
        BY <3>1 DEF End
    <2>3. Finished
      BY <2>1, <2>2 DEF ScanfNext, Convert, Percent, Unknown, SkipSpaces, Literal, IsPattern
    <2>4. fpos' = fpos /\ spos' = spos /\ stored' = stored /\ matches' = matches /\ errno' = errno
      BY <2>3 DEF Finished
    <2>5. AtPiece(ps, m)'
      BY <1>5, <2>4 DEF AtPiece
    <2>6. QED
      BY <1>3, <2>5
  <1>6. CASE m # Len(ps)
    <2> DEFINE p == ps[m + 1]
               a == Len(FormatOf(p))
               b == Len(TextOf(p))
    <2>1. /\ IsHere(p, a, b) /\ m + 1 \in 0 .. Len(ps)
          /\ Len(Upto(FormatsOf(ps))[m + 1]) + 1 = fpos + a
          /\ Len(Upto(TextsOf(ps))[m + 1]) + 1 = spos + b
          /\ Upto(ValuesOf(ps))[m + 1] = stored \o NumbersIn(p)
      BY <1>6, PieceIsHere
    <2>2. NumbersIn(p) \in Seq(Int) /\ p.kind \in {"number", "plain", "percent", "spaces"}
      BY <2>1, PieceTexts DEF IsHere
    <2> HIDE DEF p, a, b
    <2>3. GoesBehind(p, a, b)
      BY <1>1, <2>1, <2>2, NumberStep, PlainStep, PercentStep, SpacesStep
    <2>4. Len(stored \o NumbersIn(p)) = Len(stored) + Len(NumbersIn(p))
      <3>1. stored \in Seq(Int)
        BY DEF WalkInv
      <3>2. QED
        BY <2>2, <3>1, ConcatProperties
    <2>5. AtPiece(ps, m + 1)'
      BY <1>1, <1>4, <2>1, <2>3, <2>4 DEF GoesBehind, AtPiece
    <2>6. QED
      BY <1>3, <2>5
  <1>7. QED
    BY <1>5, <1>6

\* Every step of sscanf() on what was printed goes to a place behind a piece.
LEMMA PrintedKept ==
  WalkInv /\ PrintedInv /\ [TextNext]_<<numbersVars, scanfVars, errno, part>> => PrintedInv'
  <1> SUFFICES ASSUME WalkInv, PrintedInv, [TextNext]_<<numbersVars, scanfVars, errno, part>>
               PROVE  PrintedInv'
    OBVIOUS
  <1>1. CASE part = "numbers" /\ NumbersNext /\ UNCHANGED <<scanfVars, part>>
    <2>1. printed = <<>> /\ printed' = printed
      BY <1>1 DEF PrintedInv, scanfVars
    <2>2. QED
      BY <2>1 DEF PrintedInv
  <1>2. CASE part = "scanf" /\ ScanfNext /\ UNCHANGED <<numbersVars, part>>
    <2>1. printed' = printed /\ part' = "scanf"
      BY <1>2 DEF ScanfNext, Convert, Percent, Unknown, Finished, SkipSpaces, Literal
    <2>2. ASSUME printed # <<>> PROVE (\E ps, m : IsPrinted(ps) /\ AtPiece(ps, m))'
      <3>1. PICK ps, m : IsPrinted(ps) /\ AtPiece(ps, m)
        BY <2>2 DEF PrintedInv
      <3>2. QED
        BY <1>2, <3>1, PieceStep
    <2>3. QED
      BY <2>1, <2>2 DEF PrintedInv
  <1>3. CASE UNCHANGED <<numbersVars, scanfVars, errno, part>>
    BY <1>3 DEF PrintedInv, IsPrinted, AtPiece, scanfVars
  <1>4. QED
    BY <1>1, <1>2, <1>3 DEF TextNext

\* Behind the last piece everything is read.
LEMMA ReadsBack == WalkInv /\ PrintedInv => ScanReadsBack
  <1> SUFFICES ASSUME WalkInv, PrintedInv PROVE ScanReadsBack
    OBVIOUS
  <1>1. ASSUME printed # <<>>, over
        PROVE  stored = printed /\ matches = Len(printed) /\ spos = Len(input) + 1 /\ errno = 0
    <2>1. PICK ps, m : IsPrinted(ps) /\ AtPiece(ps, m)
      BY <1>1 DEF PrintedInv
    <2>2. /\ m = Len(ps) /\ spos = Len(Upto(TextsOf(ps))[m]) + 1
          /\ stored = Upto(ValuesOf(ps))[m] /\ matches = Len(stored) /\ errno = 0
      BY <1>1, <2>1 DEF AtPiece
    <2>3. Upto(TextsOf(ps))[Len(ps)] = input /\ Upto(ValuesOf(ps))[Len(ps)] = printed
      BY <2>1, PrintingFacts DEF IsPrinted, IsJoined
    <2>4. QED
      BY <2>2, <2>3
  <1>2. fpos <= Len(format) + 1 /\ spos <= Len(input) + 1
    BY DEF WalkInv
  <1>3. matches = Len(stored) \/ (over /\ matches = EOF /\ stored = <<>>)
    BY DEF WalkInv
  <1>4. QED
    BY <1>1, <1>2, <1>3 DEF ScanReadsBack

-----------------------------------------------------------------------------
(* The invariant.                                                          *)

TextInv == NumbersInv /\ WalkInv /\ PrintedInv

\* Every number of every width is written as its numeral and read as the text says, and
\* sscanf() reads back what printf() writes with the same format (stdlib.h, stdio.h).
THEOREM NumbersAreReadBack == TextSpec => []NumbersReadBack
  <1>1. TextInit => TextInv
    BY NumbersInvStarts, WalkStarts, PrintedStarts DEF TextInv
  <1>2. TextInv /\ [TextNext]_<<numbersVars, scanfVars, errno, part>> => TextInv'
    BY NumbersInvKept, WalkKept, PrintedKept DEF TextInv
  <1>3. TextInv => NumbersReadBack
    BY ReadsBack DEF TextInv, NumbersInv, NumbersReadBack
  <1>4. QED
    BY <1>1, <1>2, <1>3, PTL DEF TextSpec
=============================================================================
