---------------------------- MODULE PrintfProofs ----------------------------
(* Proofs about Printf: for any formats, arguments and buffers, and for any *)
(* number of failures of the stream.                                       *)
EXTENDS Printf, Arithmetic, SequenceTheorems, FiniteSetTheorems, TLAPS

\* What texts are made of; the provers have to be told that these are strings.
Chars == STRING \cup {Numeral[i] : i \in 1 .. 16}
                \cup {Blank, "-", "x", "chr", "(", "n", "u", "l", ")", "e", "r", "o", "=", "NULL"}

\* A text behind a text is a text.
LEMMA ConcatIsText ==
  ASSUME NEW s \in Seq(Chars), NEW t \in Seq(Chars)
  PROVE  s \o t \in Seq(Chars)
  BY ConcatProperties

\* It does not matter in which order texts are joined.
LEMMA TextsAssociate ==
  ASSUME NEW s \in Seq(Chars), NEW t \in Seq(Chars), NEW u \in Seq(Chars)
  PROVE  (s \o t) \o u = s \o (t \o u)
  BY ConcatAssociative, SMT

\* Texts that are made step by step are texts.
LEMMA TextsByRecursion ==
  ASSUME NEW k \in Nat, NEW step \in [1 .. k -> [Seq(Chars) -> Seq(Chars)]]
  PROVE  \E f \in [0 .. k -> Seq(Chars)] : f[0] = << >> /\ \A i \in 1 .. k : f[i] = step[i][f[i - 1]]
  <1>1. << >> \in Seq(Chars)
    OBVIOUS
  <1>2. \E f : Chain(f, k, Seq(Chars), << >>, step)
    BY <1>1, RecursionUpTo, Zenon
  <1>3. QED
    BY <1>2 DEF Chain

-----------------------------------------------------------------------------
(* The texts of the conversions.                                           *)

\* A digit has a value.
LEMMA DigitValue ==
  ASSUME NEW d \in Digit
  PROVE  ValueOf(d) \in Nat
  <1>1. \E i \in 1 .. 10 : Numeral[i] = d
    BY DEF Digit, Numeral
  <1> DEFINE at == CHOOSE i \in 1 .. 10 : Numeral[i] = d
  <1>2. at \in 1 .. 10
    BY <1>1
  <1>3. ValueOf(d) = at - 1
    BY DEF ValueOf
  <1> HIDE DEF at
  <1>4. QED
    BY <1>2, <1>3, SMT

\* A sequence of digits stands for a number.
LEMMA NumberOfIsNat ==
  ASSUME NEW digits \in Seq(Digit)
  PROVE  NumberOf(digits) \in Nat
  <1> DEFINE D       == 0 .. Len(digits)
             Rhs(f, i) == IF i = 0 THEN 0 ELSE 10 * f[i - 1] + ValueOf(digits[i])
             rank    == [i \in D |-> i]
             next    == [i \in D |-> IF i = 0 THEN 0 ELSE i - 1]
             base    == [i \in D |-> 0]
             step    == [i \in D |-> [v \in Nat |-> IF i = 0 THEN 0 ELSE 10 * v + ValueOf(digits[i])]]
  <1>1. Len(digits) \in Nat /\ \A i \in 1 .. Len(digits) : digits[i] \in Digit
    BY ElementOfSeq, LenProperties
  <1>2. rank \in [D -> 0 .. Len(digits)] /\ next \in [D -> D] /\ base \in [D -> Nat]
    BY <1>1, SMT
  <1>3. step \in [D -> [Nat -> Nat]]
    <2>1. ASSUME NEW i \in D, NEW v \in Nat
          PROVE  (IF i = 0 THEN 0 ELSE 10 * v + ValueOf(digits[i])) \in Nat
      <3>1. CASE i = 0
        BY <3>1
      <3>2. CASE i # 0
        <4>1. i \in 1 .. Len(digits)
          BY <1>1, <3>2, SMT
        <4>2. ValueOf(digits[i]) \in Nat
          BY <1>1, <4>1, DigitValue
        <4>3. QED
          BY <4>2, SMT
      <3>3. QED
        BY <3>1, <3>2
    <2>2. QED
      BY <2>1
  <1>4. PICK f \in [D -> Nat] : Solves(f, D, rank, next, base, step)
    <2>1. Recursion(D, Nat, Len(digits), rank, next, base, step)
      BY <1>1, <1>2, <1>3 DEF Recursion
    <2> HIDE DEF D, rank, next, base, step
    <2>2. QED
      BY <2>1, RecursionExists
  <1>5. ASSUME NEW i \in D PROVE f[i] = Rhs(f, i)
    <2>1. CASE i = 0
      <3>1. next[i] = i /\ base[i] = 0 /\ rank[i] = 0
        BY <2>1
      <3>2. f[i] = base[i]
        BY <1>4, <3>1 DEF Solves
      <3>3. QED
        BY <2>1, <3>1, <3>2
    <2>2. CASE i # 0
      <3>1. i \in Nat /\ i - 1 \in D /\ i - 1 < i /\ f[i - 1] \in Nat
        BY <1>1, <2>2, SMT
      <3>2. next[i] = i - 1 /\ rank[i] = i /\ rank[i - 1] = i - 1
        BY <2>2, <3>1
      <3>3. f[i] = step[i][f[i - 1]]
        BY <1>4, <3>1, <3>2 DEF Solves
      <3>4. QED
        BY <2>2, <3>1, <3>3
    <2>3. QED
      BY <2>1, <2>2
  <1>6. f = [i \in D |-> Rhs(f, i)]
    BY <1>5
  <1> DEFINE g == CHOOSE h : h = [i \in D |-> Rhs(h, i)]
  <1>7. g = [i \in D |-> Rhs(g, i)]
    BY <1>6
  <1>8. NumberOf(digits) = g[Len(digits)]
    BY DEF NumberOf
  <1> DEFINE B == {i \in D : g[i] \in Nat}
  <1>9. 0 \in B
    <2>1. 0 \in D
      BY <1>1, SMT
    <2>2. g[0] = 0
      BY <1>7, <2>1
    <2> HIDE DEF D, g
    <2>3. QED
      BY <2>1, <2>2
  <1>10. ASSUME NEW i \in 1 .. Len(digits), i - 1 \in B PROVE i \in B
    <2>1. i \in D /\ i # 0 /\ ValueOf(digits[i]) \in Nat
      BY <1>1, DigitValue, SMT
    <2>2. g[i] = 10 * g[i - 1] + ValueOf(digits[i])
      BY <1>7, <2>1
    <2>3. g[i - 1] \in Nat
      BY <1>10
    <2> HIDE DEF g
    <2>4. g[i] \in Nat
      BY <2>1, <2>2, <2>3, SMT
    <2>5. QED
      BY <2>1, <2>4
  <1>11. Len(digits) \in B
    <2> HIDE DEF B
    <2>1. 0 .. Len(digits) \subseteq B
      BY <1>1, <1>9, <1>10, InductionUpTo
    <2>2. QED
      BY <1>1, <2>1
  <1>12. QED
    BY <1>8, <1>11

\* The last character of the numeral of m.
Last(m, base) == <<Numeral[(m % base) + 1]>>

\* The last digit of a number is a text, and without it the number is lower.
LEMMA NumeralIsChar ==
  ASSUME NEW base \in {10, 16}, NEW m \in Nat
  PROVE  /\ Last(m, base) \in Seq(Chars)
         /\ m \div base \in 0 .. m
         /\ m >= base => m \div base < m
  <1>1. /\ (m % base) + 1 \in 1 .. 16
        /\ m \div base \in 0 .. m
        /\ m >= base => m \div base < m
    <2>1. CASE base = 10
      BY <2>1, SMT
    <2>2. CASE base = 16
      BY <2>2, SMT
    <2>3. QED
      BY <2>1, <2>2
  <1> DEFINE k == (m % base) + 1
  <1>2. Numeral[k] \in Chars
    BY <1>1 DEF Chars
  <1> HIDE DEF k
  <1>3. <<Numeral[k]>> \in Seq(Chars)
    BY <1>2
  <1>4. QED
    BY <1>1, <1>3 DEF k, Last

\* The numeral of a number is a text.
LEMMA NumeralsAreText ==
  ASSUME NEW base \in {10, 16}, NEW v \in Nat
  PROVE  Numerals(v, base) \in Seq(Chars)
  <1> DEFINE D      == 0 .. v
             V      == Seq(Chars)
             Rhs(f, m) == (IF m < base THEN <<>> ELSE f[m \div base]) \o Last(m, base)
             rank   == [m \in D |-> m]
             next   == [m \in D |-> IF m < base THEN m ELSE m \div base]
             init   == [m \in D |-> <<>> \o Last(m, base)]
             step   == [m \in D |-> [s \in V |-> s \o Last(m, base)]]
  <1>1. ASSUME NEW m \in D
        PROVE  m \in Nat /\ (m >= base => m \div base \in D /\ m \div base < m)
    <2>1. m \in Nat /\ m <= v
      BY SMT
    <2>2. m \div base \in 0 .. m => m \div base \in D
      BY <2>1, SMT
    <2>3. QED
      BY <2>1, <2>2, NumeralIsChar
  <1>0. ASSUME NEW m \in D PROVE Last(m, base) \in V
    BY <1>1, NumeralIsChar
  <1>2. base \in Nat
    BY SMT
  <1>3. \A m \in D : next[m] = IF m < base THEN m ELSE m \div base
    OBVIOUS
  <1>4. next \in [D -> D]
    BY <1>1, <1>2, SMT
  <1>5. init \in [D -> V] /\ step \in [D -> [V -> V]]
    <2>1. ASSUME NEW m \in D PROVE <<>> \o Last(m, base) \in V
      <3>1. Last(m, base) \in V
        BY <1>0
      <3>2. <<>> \in V
        OBVIOUS
      <3>3. QED
        BY <3>1, <3>2, ConcatIsText
    <2>2. ASSUME NEW m \in D, NEW s \in V PROVE s \o Last(m, base) \in V
      <3>1. Last(m, base) \in V
        BY <1>0
      <3>2. QED
        BY <3>1, ConcatIsText
    <2> HIDE DEF D, V
    <2>3. QED
      BY <2>1, <2>2
  <1>6. PICK f \in [D -> V] : Solves(f, D, rank, next, init, step)
    <2>1. Recursion(D, V, v, rank, next, init, step)
      BY <1>4, <1>5 DEF Recursion
    <2> HIDE DEF D, V, rank, next, init, step
    <2>2. QED
      BY <2>1, RecursionExists
  <1>7. ASSUME NEW m \in D PROVE f[m] = Rhs(f, m)
    <2>1. CASE m < base
      <3>1. next[m] = m /\ ~(rank[m] < rank[m])
        BY <1>1, <2>1, SMT
      <3>2. f[m] = init[m]
        BY <1>6, <3>1 DEF Solves
      <3>3. QED
        BY <2>1, <3>2
    <2>2. CASE ~(m < base)
      <3>1. m >= base /\ m \div base \in D /\ m \div base < m
        BY <1>1, <1>2, <2>2, SMT
      <3>2. next[m] = m \div base /\ rank[m \div base] < rank[m]
        BY <2>2, <3>1
      <3>3. f[m] = step[m][f[m \div base]]
        <4> HIDE DEF step, rank, next, init, D
        <4>1. QED
          BY <1>6, <3>1, <3>2 DEF Solves
      <3>4. f[m \div base] \in V
        BY <3>1
      <3>5. QED
        BY <2>2, <3>3, <3>4
    <2>3. QED
      BY <2>1, <2>2
  <1>8. f = [m \in D |-> Rhs(f, m)]
    BY <1>7
  <1> DEFINE g == CHOOSE h : h = [m \in D |-> Rhs(h, m)]
  <1>9. g = [m \in D |-> Rhs(g, m)]
    BY <1>8
  <1>10. Numerals(v, base) = g[v]
    BY DEF Numerals, Last
  <1>11. v \in D
    BY SMT
  <1>12. g[v] \in V
    <2> DEFINE B == {m \in D : g[m] \in V}
    <2>1. rank \in [D -> Nat]
      BY <1>1
    <2>2. ASSUME NEW m \in D, \A k \in D : rank[k] < rank[m] => k \in B PROVE m \in B
      <3>1. g[m] = Rhs(g, m)
        BY <1>9
      <3>2. CASE m < base
        BY <1>0, <3>1, <3>2, ConcatIsText, EmptySeq
      <3>3. CASE ~(m < base)
        <4>1. m \div base \in D /\ rank[m \div base] < rank[m]
          BY <1>1, <1>2, <3>3, SMT
        <4>2. g[m \div base] \in V
          BY <2>2, <4>1
        <4>3. QED
          BY <1>0, <3>1, <3>3, <4>2, ConcatIsText
      <3>4. QED
        BY <3>2, <3>3
    <2>3. D \subseteq B
      <3> HIDE DEF D, B, rank
      <3>1. QED
        BY <2>1, <2>2, InductionByRank
    <2>4. QED
      BY <1>11, <2>3
  <1>13. QED
    BY <1>10, <1>12

\* A number of type, extended, is a number and has a negative in two's complement.
LEMMA ExtendedIsNat ==
  ASSUME NEW type \in IntType, NEW v \in 0 .. (Modulus[type] - 1)
  PROVE  SignExtend(v, type) \in 0 .. (Modulus["llong"] - 1)
  <1> DEFINE own == Modulus[type]
             all == Modulus["llong"]
             half == own \div 2
  <1>1. own \in Nat /\ all \in Nat /\ own > 0 /\ own <= all
    <2>1. /\ \A t \in IntType : Modulus[t] \in Nat \ {0}
          /\ Modulus["int"] <= Modulus["long"] /\ Modulus["long"] <= Modulus["llong"]
      BY PrintfAssumption DEF PrintfAssumption
    <2>2. /\ Modulus["int"] \in Nat \ {0} /\ Modulus["long"] \in Nat \ {0}
          /\ Modulus["llong"] \in Nat \ {0}
      BY <2>1 DEF IntType
    <2>3. type = "int" \/ type = "long" \/ type = "llong"
      BY DEF IntType
    <2>4. QED
      BY <2>1, <2>2, <2>3
  <1>2. half \in Int
    BY <1>1
  <1>3. SignExtend(v, type) = IF v >= half THEN v + (all - own) ELSE v
    BY DEF SignExtend
  <1>4. v \in 0 .. (own - 1)
    OBVIOUS
  <1> HIDE DEF own, all, half
  <1>5. SignExtend(v, type) \in 0 .. (all - 1)
    BY <1>1, <1>2, <1>3, <1>4, SMT
  <1>6. QED
    BY <1>5 DEF all

\* The conversion of a number makes a text.
LEMMA NumberTextIsText ==
  ASSUME NEW conv \in Number, NEW v \in 0 .. (Modulus["llong"] - 1)
  PROVE  NumberText(conv, v) \in Seq(Chars)
  <1>1. Modulus["llong"] \in Nat
    BY PrintfAssumption DEF PrintfAssumption, IntType
  <1>2. v \in Nat /\ Modulus["llong"] - v \in Nat
    BY <1>1, SMT
  <1>3. /\ Numerals(v, 10) \in Seq(Chars) /\ Numerals(v, 16) \in Seq(Chars)
        /\ Numerals(Modulus["llong"] - v, 10) \in Seq(Chars)
    BY <1>2, NumeralsAreText
  <1>4. "-" \in Chars /\ "0" \in Chars /\ "x" \in Chars /\ "chr" \in Chars
    BY DEF Chars, Numeral
  <1>5. <<"-">> \in Seq(Chars) /\ <<"0", "x">> \in Seq(Chars) /\ <<"chr">> \in Seq(Chars)
        /\ << >> \in Seq(Chars)
    BY <1>4
  <1>6. /\ <<"-">> \o Numerals(Modulus["llong"] - v, 10) \in Seq(Chars)
        /\ <<"0", "x">> \o Numerals(v, 16) \in Seq(Chars)
    BY <1>3, <1>5, ConcatIsText
  <1>7. conv \in {"c", "d", "u", "x", "p"}
    BY DEF Number
  <1>8. QED
    BY <1>3, <1>5, <1>6, <1>7 DEF NumberText

\* Every conversion of an argument of its own type is a text.
LEMMA TextIsText ==
  ASSUME NEW conv \in Number \cup {"s"}, NEW a \in Argument,
         IF conv = "s" THEN a.type = "str" ELSE a.type \in IntType
  PROVE  Text(conv, a) \in Seq(Chars)
  <1>1. \/ a.type \in IntType /\ a.value \in 0 .. (Modulus[a.type] - 1)
        \/ a.type = "str" /\ a.value \in Seq(STRING)
    BY PrintfAssumption DEF PrintfAssumption
  <1>2. CASE conv = "s"
    <2>1. a.value \in Seq(STRING)
      BY <1>1, <1>2 DEF IntType
    <2>2. a.value \in Seq(Chars)
      <3>1. STRING \subseteq Chars
        BY DEF Chars
      <3>2. QED
        BY <2>1, <3>1, SeqMonotonic
    <2>3. "(" \in Chars /\ "n" \in Chars /\ "u" \in Chars /\ "l" \in Chars /\ ")" \in Chars
      BY DEF Chars
    <2>4. <<"(", "n", "u", "l", "l", ")">> \in Seq(Chars)
      BY <2>3
    <2>5. StringText(a.value) \in Seq(Chars)
      BY <2>2, <2>4 DEF StringText
    <2>6. QED
      BY <1>2, <2>5 DEF Text
  <1>3. CASE conv # "s"
    <2>1. conv \in Number /\ a.type \in IntType /\ conv # "m"
      BY <1>3 DEF Number
    <2>2. a.value \in 0 .. (Modulus[a.type] - 1)
      BY <1>1, <2>1 DEF IntType
    <2>3. SignExtend(a.value, a.type) \in 0 .. (Modulus["llong"] - 1)
      BY <2>1, <2>2, ExtendedIsNat
    <2>4. a.value \in 0 .. (Modulus["llong"] - 1)
      <3>1. /\ \A t \in IntType : Modulus[t] \in Nat \ {0}
            /\ Modulus["int"] <= Modulus["long"] /\ Modulus["long"] <= Modulus["llong"]
        BY PrintfAssumption DEF PrintfAssumption
      <3>2. /\ Modulus["int"] \in Nat \ {0} /\ Modulus["long"] \in Nat \ {0}
            /\ Modulus["llong"] \in Nat \ {0}
        BY <3>1 DEF IntType
      <3>3. a.type = "int" \/ a.type = "long" \/ a.type = "llong"
        BY <2>1 DEF IntType
      <3>4. Modulus[a.type] \in Nat /\ Modulus[a.type] <= Modulus["llong"]
        BY <3>1, <3>2, <3>3
      <3>5. QED
        BY <2>2, <3>2, <3>4, SMT
    <2>5. /\ NumberText(conv, a.value) \in Seq(Chars)
          /\ NumberText(conv, SignExtend(a.value, a.type)) \in Seq(Chars)
      BY <2>1, <2>3, <2>4, NumberTextIsText
    <2>6. QED
      BY <1>3, <2>1, <2>5 DEF Text
  <1>4. QED
    BY <1>2, <1>3

\* So does that of errno.
LEMMA ErrorTextIsText ==
  ASSUME NEW e \in Nat
  PROVE  ErrorText(e) \in Seq(Chars)
  <1>1. "e" \in Chars /\ "r" \in Chars /\ "n" \in Chars /\ "o" \in Chars /\ "=" \in Chars
    BY DEF Chars
  <1>2. <<"e", "r", "r", "n", "o", "=">> \in Seq(Chars)
    BY <1>1
  <1>3. Numerals(e, 10) \in Seq(Chars)
    BY NumeralsAreText
  <1>4. QED
    BY <1>2, <1>3, ConcatIsText DEF ErrorText

-----------------------------------------------------------------------------
(* The directives of a format.                                             *)

FormatOK == format \in Seq(STRING \ {End})

Directive ==
  [conv : {None}, text : Seq(Chars), type : {None}, width : {0}]
    \cup [conv : Conversion \ {"s"}, text : {<< >>}, type : IntType, width : Nat]
    \cup [conv : {"s"}, text : {<< >>}, type : {"str"}, width : Nat]

\* A text of the format is no conversion.
LEMMA NoneIsNone == None # "s" /\ None \notin Conversion /\ None \notin Number
  BY Zenon DEF None, Conversion, Number

\* A text of the format is a directive,
LEMMA VerbatimIsTyped ==
  ASSUME NEW text \in Seq(Chars)
  PROVE  Verbatim(text) \in Directive
  BY DEF Verbatim, Directive

\* and so is a conversion with the type that it takes.
LEMMA ConversionIsTyped ==
  ASSUME NEW conv \in Conversion, NEW wide \in Nat, NEW type \in IntType \cup {"str"},
         type = "str" <=> conv = "s"
  PROVE  [conv |-> conv, text |-> << >>, width |-> wide, type |-> type] \in Directive
  BY DEF Directive

\* The characters of the format, and the zero behind them.
LEMMA FormatFacts ==
  ASSUME FormatOK
  PROVE  /\ Len(format) \in Nat
         /\ \A i \in 1 .. Len(format) : format[i] \in STRING \ {End} /\ format[i] \in Chars
         /\ \A i \in 1 .. Len(format) : At(i) = format[i] /\ At(i) # End
         /\ \A i \in Nat : i > Len(format) => At(i) = End
  <1>1. Len(format) \in Nat
    BY LenProperties DEF FormatOK
  <1>2. ASSUME NEW i \in 1 .. Len(format)
        PROVE  format[i] \in STRING \ {End} /\ format[i] \in Chars /\ At(i) = format[i]
    <2>1. format[i] \in STRING \ {End}
      BY ElementOfSeq DEF FormatOK
    <2>2. i <= Len(format)
      BY <1>1, SMT
    <2>3. QED
      BY <2>1, <2>2 DEF At, Chars
  <1>3. ASSUME NEW i \in Nat, i > Len(format) PROVE At(i) = End
    <2>1. ~(i <= Len(format))
      BY <1>1, <1>3, SMT
    <2>2. QED
      BY <2>1 DEF At
  <1>4. QED
    BY <1>1, <1>2, <1>3

\* The zero is neither a digit nor the end of a directive,
LEMMA EndIsNone == End \notin Digit /\ End \notin Conversion \cup {"%"}
  BY DEF End, Digit, Conversion, Number

\* and a digit is neither the end of a directive nor a modifier.
LEMMA DigitIsNone == \A d \in Digit : d \notin Conversion \cup {"%"} /\ d \notin {"l", "j"}
  BY DEF Digit, Conversion, Number

\* A part of the format.
LEMMA PartOfFormat ==
  ASSUME FormatOK, NEW i \in Int, NEW j \in Int, i >= 1, j <= Len(format)
  PROVE  SubSeq(format, i, j) \in Seq(Chars)
  <1>1. \A k \in i .. j : k \in 1 .. Len(format)
    BY FormatFacts, SMT
  <1>2. \A k \in i .. j : format[k] \in Chars
    BY <1>1, FormatFacts
  <1>3. QED
    BY <1>2, SubSeqProperties

DigitsAt(i, j) == \A k \in i .. j : format[k] \in Digit

\* Digits stand for a number.
LEMMA DigitsAreSeq ==
  ASSUME NEW i \in Int, NEW j \in Int, DigitsAt(i, j)
  PROVE  SubSeq(format, i, j) \in Seq(Digit) /\ NumberOf(SubSeq(format, i, j)) \in Nat
  <1>1. \A k \in i .. j : format[k] \in Digit
    BY DEF DigitsAt
  <1>2. SubSeq(format, i, j) \in Seq(Digit)
    BY <1>1, SubSeqProperties
  <1>3. QED
    BY <1>2, NumberOfIsNat

\* The digits that are read, up to the character behind them.
LEMMA WidthFacts ==
  ASSUME FormatOK, fmt \in Nat, ofs \in Nat, fmt + ofs \in 1 .. (Len(format) + 1)
  PROVE  \E k \in Nat : /\ fmt + ofs + k <= Len(format) + 1
                        /\ Width = SubSeq(format, fmt + ofs, fmt + ofs + k - 1)
                        /\ Len(Width) = k
                        /\ Behind = At(fmt + ofs + k) /\ Behind \notin Digit
                        /\ DigitsAt(fmt + ofs, fmt + ofs + k - 1)
  <1> DEFINE p == fmt + ofs
             Stops == {k \in 0 .. Len(format) : At(p + k) \notin Digit}
             Good(k) == /\ At(p + k) \notin Digit
                        /\ \A i \in 0 .. (k - 1) : At(p + i) \in Digit
             chosen == CHOOSE k \in 0 .. Len(format) : Good(k)
  <1>1. p \in 1 .. (Len(format) + 1) /\ Len(format) \in Nat
    BY FormatFacts
  <1>0. Width = SubSeq(format, p, p + chosen - 1)
    BY DEF Width
  <1>2. Behind = At(p + Len(Width))
    BY DEF Behind
  <1> HIDE DEF p
  <1>3. Len(format) \in Stops
    <2>1. p + Len(format) \in Nat /\ p + Len(format) > Len(format)
      BY <1>1, SMT
    <2>2. At(p + Len(format)) = End
      BY <2>1, FormatFacts
    <2>3. QED
      BY <1>1, <2>2, EndIsNone, SMT
  <1>4. PICK least \in Stops : \A k \in Stops : least <= k
    <2>1. Stops \in SUBSET Nat /\ Stops # {}
      BY <1>1, <1>3, SMT
    <2> HIDE DEF Stops
    <2>2. QED
      BY <2>1, LowestNatural
  <1>5. Good(least) /\ least \in 0 .. Len(format)
    <2>1. ASSUME NEW i \in 0 .. (least - 1) PROVE At(p + i) \in Digit
      <3>1. i \in 0 .. Len(format) /\ ~(least <= i)
        BY <1>1, SMT
      <3>2. QED
        BY <1>4, <3>1
    <2>2. QED
      BY <2>1
  <1>6. chosen \in 0 .. Len(format) /\ Good(chosen)
    BY <1>5
  <1> HIDE DEF Good, Stops
  <1>7. ASSUME NEW i \in 0 .. (chosen - 1) PROVE p + i \in 1 .. Len(format) /\ format[p + i] \in Digit
    <2>1. At(p + i) \in Digit
      BY <1>6, <1>7 DEF Good
    <2>2. p + i \in Nat
      BY <1>1, <1>6, SMT
    <2>3. ~(p + i > Len(format))
      BY <2>1, <2>2, EndIsNone, FormatFacts
    <2>4. p + i \in 1 .. Len(format)
      BY <1>1, <1>6, <2>2, <2>3, SMT
    <2>5. QED
      BY <2>1, <2>4, FormatFacts
  <1> HIDE DEF chosen
  <1>8. p + chosen <= Len(format) + 1
    <2>1. CASE chosen = 0
      BY <1>1, <2>1, SMT
    <2>2. CASE chosen # 0
      <3>1. chosen - 1 \in 0 .. (chosen - 1)
        BY <1>6, <2>2, SMT
      <3>2. p + (chosen - 1) \in 1 .. Len(format)
        BY <1>7, <3>1
      <3>3. QED
        BY <1>1, <1>6, <3>2, SMT
    <2>3. QED
      BY <2>1, <2>2
  <1>9. DigitsAt(p, p + chosen - 1)
    <2>1. ASSUME NEW k \in p .. (p + chosen - 1) PROVE format[k] \in Digit
      <3>1. k - p \in 0 .. (chosen - 1) /\ p + (k - p) = k
        BY <1>1, <1>6, SMT
      <3>2. QED
        BY <1>7, <3>1
    <2>2. QED
      BY <2>1 DEF DigitsAt
  <1>10. Len(Width) = chosen
    <2> DEFINE q == p + chosen - 1
    <2>1. p \in Int /\ q \in Int
      BY <1>1, <1>6, SMT
    <2>2. \A k \in p .. q : format[k] \in Digit
      BY <1>9 DEF DigitsAt
    <2>3. Len(Width) = Len(SubSeq(format, p, q))
      BY <1>0
    <2> HIDE DEF q
    <2>4. Len(SubSeq(format, p, q)) = IF p <= q THEN q - p + 1 ELSE 0
      BY <2>1, <2>2, SubSeqProperties
    <2>5. QED
      BY <1>1, <1>6, <2>3, <2>4, SMT DEF q
  <1>11. At(p + chosen) \notin Digit
    BY <1>6 DEF Good
  <1>12. chosen \in Nat
    BY <1>6, SMT
  <1>13. QED
    BY <1>0, <1>2, <1>8, <1>9, <1>10, <1>11, <1>12 DEF p

\* A directive ends with the first conversion or %.
LEMMA EndOfFacts ==
  ASSUME FormatOK, NEW i \in 1 .. Len(format), Ends(i) # {}
  PROVE  /\ EndOf(i) \in (i + 1) .. Len(format)
         /\ format[EndOf(i)] \in Conversion \cup {"%"}
         /\ \A k \in Ends(i) : EndOf(i) <= k
  <1>1. Ends(i) \in SUBSET Nat
    BY FormatFacts, SMT DEF Ends
  <1>2. \E j \in Ends(i) : \A k \in Ends(i) : j <= k
    BY <1>1, LowestNatural
  <1>3. EndOf(i) \in Ends(i) /\ \A k \in Ends(i) : EndOf(i) <= k
    BY <1>2 DEF EndOf
  <1>4. QED
    BY <1>3 DEF Ends

\* A directive ends at its first conversion or second %.
LEMMA EndOfIs ==
  ASSUME FormatOK, NEW i \in 1 .. Len(format), NEW j \in (i + 1) .. Len(format),
         format[j] \in Conversion \cup {"%"},
         \A k \in (i + 1) .. (j - 1) : format[k] \notin Conversion \cup {"%"}
  PROVE  Ends(i) # {} /\ EndOf(i) = j
  <1>1. j \in Ends(i)
    BY DEF Ends
  <1>2. EndOf(i) \in Ends(i) /\ EndOf(i) \in (i + 1) .. Len(format) /\ EndOf(i) <= j
        /\ format[EndOf(i)] \in Conversion \cup {"%"}
    <2>1. Ends(i) # {}
      BY <1>1
    <2>2. QED
      BY <1>1, <2>1, EndOfFacts DEF Ends
  <1>3. ~(EndOf(i) \in (i + 1) .. (j - 1))
    BY <1>2
  <1>4. QED
    BY <1>1, <1>2, <1>3, FormatFacts, SMT

\* Where the width of the directive from i to j begins.
WidthAt(i, j, d) ==
  /\ \A k \in d .. (j - 1) : format[k] \in Digit
  /\ d = i + 1 \/ format[d - 1] \notin Digit

Has(i, j, l) == \E k \in i .. j : format[k] = l

Twice(i, j, l) == \E k, m \in i .. j : k # m /\ format[k] = l /\ format[m] = l

Level(i, j) ==
  IF Has(i, j, "j") \/ Twice(i, j, "l") THEN 2 ELSE IF Has(i, j, "l") THEN 1 ELSE 0

DirectiveWith(i, j, d) ==
  IF format[j] = "%" THEN Verbatim(Append(SubSeq(format, d, j - 1), "%"))
  ELSE [conv |-> format[j], text |-> << >>, width |-> NumberOf(SubSeq(format, d, j - 1)),
        type |-> IF format[j] = "s" THEN "str" ELSE TypeOf(format[j], Level(i, j))]

\* The directive from i to j, by the place d where its width begins.
LEMMA DirectiveIs ==
  ASSUME FormatOK, NEW i \in 1 .. Len(format), NEW j \in (i + 1) .. Len(format),
         NEW d \in (i + 1) .. j, WidthAt(i, j, d)
  PROVE  DirectiveAt(i, j) = DirectiveWith(i, j, d)
  <1> DEFINE e == CHOOSE e \in (i + 1) .. j : WidthAt(i, j, e)
  <1>1. e \in (i + 1) .. j /\ WidthAt(i, j, e)
    OBVIOUS
  <1>2. DirectiveAt(i, j) = DirectiveWith(i, j, e)
    BY DEF DirectiveAt, DirectiveWith, WidthAt, Level, Has, Twice
  <1> HIDE DEF e
  <1>3. ASSUME NEW x \in (i + 1) .. j, NEW y \in (i + 1) .. j,
               WidthAt(i, j, x), WidthAt(i, j, y), x < y
        PROVE  FALSE
    <2>1. y - 1 \in x .. (j - 1) /\ y # i + 1
      BY <1>3, FormatFacts, SMT
    <2>2. format[y - 1] \in Digit
      BY <1>3, <2>1 DEF WidthAt
    <2>3. QED
      BY <1>3, <2>1, <2>2 DEF WidthAt
  <1>4. ~(e < d) /\ ~(d < e)
    BY <1>1, <1>3
  <1>5. e = d
    BY <1>1, <1>4, FormatFacts, SMT
  <1>6. QED
    BY <1>2, <1>5

\* The type of a conversion of a number is a type of numbers.
LEMMA TypeOfIsType == \A conv, l : TypeOf(conv, l) \in IntType
  BY DEF TypeOf, IntType

\* What is read between i and j is a directive.
LEMMA DirectiveIsTyped ==
  ASSUME FormatOK, NEW i \in 1 .. Len(format), NEW j \in (i + 1) .. Len(format),
         format[j] \in Conversion \cup {"%"}
  PROVE  DirectiveAt(i, j) \in Directive
  <1> DEFINE Starts == {d \in (i + 1) .. j : \A k \in d .. (j - 1) : format[k] \in Digit}
  <1>0. Len(format) \in Nat /\ i \in Nat /\ j \in Nat /\ i + 1 <= j /\ j <= Len(format) /\ i >= 1
    BY FormatFacts, SMT
  <1>1. j \in Starts /\ Starts \in SUBSET Nat
    BY <1>0, SMT
  <1>2. PICK d \in Starts : \A e \in Starts : d <= e
    <2> HIDE DEF Starts
    <2>1. QED
      BY <1>1, LowestNatural
  <1>3. WidthAt(i, j, d)
    <2>1. SUFFICES ASSUME d # i + 1, format[d - 1] \in Digit PROVE FALSE
      BY DEF WidthAt
    <2>2. d - 1 \in (i + 1) .. j /\ ~(d <= d - 1)
      BY <1>0, <2>1, SMT
    <2>3. ASSUME NEW k \in (d - 1) .. (j - 1) PROVE format[k] \in Digit
      <3>1. k = d - 1 \/ k \in d .. (j - 1)
        BY <1>0, SMT
      <3>2. QED
        BY <2>1, <3>1
    <2>4. d - 1 \in Starts
      BY <2>2, <2>3
    <2>5. QED
      BY <1>2, <2>2, <2>4
  <1>4. DirectiveAt(i, j) = DirectiveWith(i, j, d)
    BY <1>3, DirectiveIs
  <1>5. DigitsAt(d, j - 1) /\ d \in Int /\ j - 1 \in Int /\ d >= 1 /\ j - 1 <= Len(format)
    BY <1>0, <1>3, SMT DEF DigitsAt, WidthAt
  <1>6. /\ SubSeq(format, d, j - 1) \in Seq(Chars)
        /\ NumberOf(SubSeq(format, d, j - 1)) \in Nat
    BY <1>5, PartOfFormat, DigitsAreSeq
  <1>7. CASE format[j] = "%"
    <2>1. "%" \in Chars
      BY <1>0, <1>7, FormatFacts, SMT
    <2>2. Append(SubSeq(format, d, j - 1), "%") \in Seq(Chars)
      BY <1>6, <2>1, AppendProperties
    <2>3. DirectiveAt(i, j) = Verbatim(Append(SubSeq(format, d, j - 1), "%"))
      BY <1>4, <1>7 DEF DirectiveWith
    <2>4. QED
      BY <2>2, <2>3, VerbatimIsTyped
  <1>8. CASE format[j] # "%"
    <2> DEFINE type == IF format[j] = "s" THEN "str" ELSE TypeOf(format[j], Level(i, j))
               wide == NumberOf(SubSeq(format, d, j - 1))
    <2>1. DirectiveAt(i, j) = [conv |-> format[j], text |-> << >>, width |-> wide, type |-> type]
      BY <1>4, <1>8 DEF DirectiveWith
    <2>2. /\ format[j] \in Conversion /\ wide \in Nat /\ type \in IntType \cup {"str"}
          /\ type = "str" <=> format[j] = "s"
      <3>1. "str" \notin IntType
        BY DEF IntType
      <3>2. QED
        BY <1>6, <1>8, <3>1, TypeOfIsType
    <2> HIDE DEF type, wide
    <2>3. QED
      BY <2>1, <2>2, ConversionIsTyped
  <1>9. QED
    BY <1>7, <1>8

\* The directives from each character on are a sequence, as Reading describes it.
LEMMA ReadingDefined ==
  ASSUME FormatOK
  PROVE  \A i \in 1 .. (Len(format) + 1) : /\ Reading[i] = ReadingAt(Reading, i)
                                          /\ Reading[i] \in Seq(Directive)
  <1> DEFINE D    == 1 .. (Len(format) + 1)
             V    == Seq(Directive)
             More(i) == i <= Len(format) /\ (format[i] # "%" \/ Ends(i) # {})
             Item(i) == IF format[i] # "%" THEN Verbatim(<<format[i]>>) ELSE DirectiveAt(i, EndOf(i))
             After(i) == IF format[i] # "%" THEN i + 1 ELSE EndOf(i) + 1
             rank == [i \in D |-> Len(format) + 1 - i]
             next == [i \in D |-> IF More(i) THEN After(i) ELSE i]
             base == [i \in D |-> << >>]
             step == [i \in D |-> [s \in V |-> IF More(i) THEN <<Item(i)>> \o s ELSE << >>]]
  <1>0. Len(format) \in Nat
    BY FormatFacts
  <1>1. ASSUME NEW i \in D, More(i)
        PROVE  /\ i \in 1 .. Len(format) /\ After(i) \in D /\ After(i) > i
               /\ Item(i) \in Directive
    <2>1. i \in 1 .. Len(format)
      BY <1>0, <1>1, SMT
    <2>2. CASE format[i] # "%"
      <3>1. <<format[i]>> \in Seq(Chars)
        BY <2>1, FormatFacts
      <3>2. Item(i) \in Directive
        BY <2>2, <3>1, VerbatimIsTyped
      <3>3. After(i) = i + 1
        BY <2>2
      <3>4. QED
        BY <1>0, <2>1, <3>2, <3>3, SMT
    <2>3. CASE format[i] = "%"
      <3>1. Ends(i) # {}
        BY <1>1, <2>3
      <3>2. EndOf(i) \in (i + 1) .. Len(format) /\ format[EndOf(i)] \in Conversion \cup {"%"}
        BY <2>1, <3>1, EndOfFacts
      <3>3. DirectiveAt(i, EndOf(i)) \in Directive
        BY <2>1, <3>2, DirectiveIsTyped
      <3>4. After(i) = EndOf(i) + 1 /\ Item(i) = DirectiveAt(i, EndOf(i))
        BY <2>3
      <3>5. QED
        BY <1>0, <2>1, <3>2, <3>3, <3>4, SMT
    <2>4. QED
      BY <2>2, <2>3
  <1>2. ASSUME NEW f, NEW i \in D
        PROVE  ReadingAt(f, i) = IF More(i) THEN <<Item(i)>> \o f[After(i)] ELSE << >>
    <2>1. i > Len(format) <=> ~(i <= Len(format))
      BY <1>0, SMT
    <2>2. QED
      BY <2>1 DEF ReadingAt
  <1> HIDE DEF More, Item, After
  <1>3. next \in [D -> D] /\ base \in [D -> V] /\ rank \in [D -> 0 .. Len(format)]
    BY <1>0, <1>1, SMT
  <1>4. step \in [D -> [V -> V]]
    <2>1. ASSUME NEW i \in D, NEW s \in V, More(i) PROVE <<Item(i)>> \o s \in V
      <3>1. <<Item(i)>> \in V
        BY <1>1, <2>1
      <3>2. QED
        BY <3>1, ConcatProperties
    <2>2. << >> \in V
      OBVIOUS
    <2> HIDE DEF D, V
    <2>3. QED
      BY <2>1, <2>2
  <1>5. PICK f \in [D -> V] : Solves(f, D, rank, next, base, step)
    <2>1. Recursion(D, V, Len(format), rank, next, base, step)
      BY <1>0, <1>3, <1>4 DEF Recursion
    <2> HIDE DEF D, V, rank, next, base, step
    <2>2. QED
      BY <2>1, RecursionExists
  <1>6. ASSUME NEW i \in D PROVE f[i] = ReadingAt(f, i)
    <2>1. CASE More(i)
      <3>1. next[i] = After(i) /\ After(i) \in D /\ After(i) > i
        BY <1>1, <2>1
      <3>2. rank[After(i)] < rank[i]
        BY <1>0, <3>1, SMT
      <3>3. f[i] = step[i][f[After(i)]] /\ f[After(i)] \in V
        BY <1>5, <3>1, <3>2 DEF Solves
      <3>4. step[i][f[After(i)]] = <<Item(i)>> \o f[After(i)]
        BY <2>1, <3>3
      <3>5. QED
        BY <1>2, <2>1, <3>3, <3>4
    <2>2. CASE ~More(i)
      <3>1. next[i] = i /\ base[i] = << >>
        BY <2>2
      <3>2. ~(rank[next[i]] < rank[i])
        BY <1>0, <3>1, SMT
      <3>3. f[i] = base[i]
        BY <1>5, <3>2 DEF Solves
      <3>4. QED
        BY <1>2, <2>2, <3>1, <3>3
    <2>3. QED
      BY <2>1, <2>2
  <1>7. f = [i \in D |-> ReadingAt(f, i)]
    BY <1>6
  <1> DEFINE g == CHOOSE h : h = [i \in D |-> ReadingAt(h, i)]
  <1>8. g = [i \in D |-> ReadingAt(g, i)]
    BY <1>7
  <1>9. Reading = g
    BY DEF Reading
  <1> HIDE DEF g
  <1>10. \A i \in D : Reading[i] = ReadingAt(Reading, i)
    BY <1>8, <1>9
  <1> DEFINE B == {i \in D : Reading[i] \in V}
  <1>11. ASSUME NEW i \in D, \A j \in D : rank[j] < rank[i] => j \in B PROVE i \in B
    <2>1. CASE More(i)
      <3>1. After(i) \in D /\ After(i) > i /\ Item(i) \in Directive
        BY <1>1, <2>1
      <3>2. rank[After(i)] < rank[i]
        BY <1>0, <3>1, SMT
      <3>3. Reading[After(i)] \in V /\ <<Item(i)>> \in V
        BY <1>11, <3>1, <3>2
      <3>4. <<Item(i)>> \o Reading[After(i)] \in V
        BY <3>3, ConcatProperties
      <3>5. QED
        BY <1>2, <1>10, <2>1, <3>4
    <2>2. CASE ~More(i)
      BY <1>2, <1>10, <2>2, EmptySeq
    <2>3. QED
      BY <2>1, <2>2
  <1>12. D \subseteq B
    <2>1. rank \in [D -> Nat]
      BY <1>3, SMT
    <2> HIDE DEF D, B, rank
    <2>2. QED
      BY <1>11, <2>1, InductionByRank
  <1>13. QED
    BY <1>10, <1>12

-----------------------------------------------------------------------------
(* The arguments and the output.                                           *)

Count == Len(Directives)

\* The format is read as directives.
LEMMA DirectivesTyped ==
  ASSUME FormatOK
  PROVE  /\ Directives \in Seq(Directive) /\ Count \in Nat /\ DOMAIN Directives = 1 .. Count
         /\ \A i \in 1 .. Count : Directives[i] \in Directive
  <1>1. 1 \in 1 .. (Len(format) + 1)
    BY FormatFacts, SMT
  <1>2. Directives \in Seq(Directive)
    BY <1>1, ReadingDefined DEF Directives
  <1>3. QED
    BY <1>2, LenProperties, ElementOfSeq DEF Count

\* How the count of arguments goes on from one directive to the next.
LEMMA ArgumentCount ==
  ASSUME FormatOK
  PROVE  /\ ArgumentOf(Directives, 0) = 0
         /\ \A i \in 1 .. Count :
              ArgumentOf(Directives, i) = ArgumentOf(Directives, i - 1)
                                            + (IF Takes(Directives[i].conv) THEN 1 ELSE 0)
         /\ \A i \in 0 .. Count : ArgumentOf(Directives, i) \in 0 .. Cardinality(Taking(Directives))
  <1> DEFINE T == Taking(Directives)
  <1>1. T = {i \in 1 .. Count : Takes(Directives[i].conv)} /\ Count \in Nat
    BY DirectivesTyped DEF Taking
  <1>2. IsFiniteSet(T) /\ Cardinality(T) \in Nat
    <2>1. IsFiniteSet(1 .. Count)
      BY <1>1, FS_Interval, SMT
    <2>2. T \in SUBSET (1 .. Count)
      BY <1>1
    <2> HIDE DEF T
    <2>3. QED
      BY <2>1, <2>2, FS_Subset, FS_CardinalityType
  <1>3. ASSUME NEW i \in 0 .. Count
        PROVE  /\ IsFiniteSet(T \cap 1 .. i)
               /\ ArgumentOf(Directives, i) = Cardinality(T \cap 1 .. i)
               /\ ArgumentOf(Directives, i) \in 0 .. Cardinality(T)
    <2>1. T \cap 1 .. i \in SUBSET T
      OBVIOUS
    <2>2. ArgumentOf(Directives, i) = Cardinality(T \cap 1 .. i)
      BY DEF ArgumentOf
    <2> HIDE DEF T
    <2>3. /\ IsFiniteSet(T \cap 1 .. i)
          /\ Cardinality(T \cap 1 .. i) <= Cardinality(T) /\ Cardinality(T \cap 1 .. i) \in Nat
      BY <1>2, <2>1, FS_Subset, FS_CardinalityType
    <2>4. QED
      BY <1>2, <2>2, <2>3, SMT
  <1>4. ArgumentOf(Directives, 0) = 0
    <2>1. T \cap 1 .. 0 = {}
      BY SMT
    <2>2. 0 \in 0 .. Count
      BY <1>1, SMT
    <2>3. QED
      BY <1>3, <2>1, <2>2, FS_EmptySet
  <1>5. ASSUME NEW i \in 1 .. Count
        PROVE  ArgumentOf(Directives, i) = ArgumentOf(Directives, i - 1)
                                             + (IF Takes(Directives[i].conv) THEN 1 ELSE 0)
    <2>1. i \in 0 .. Count /\ i - 1 \in 0 .. Count
      BY <1>1, SMT
    <2> DEFINE S == T \cap 1 .. (i - 1)
    <2>2. IsFiniteSet(S) /\ ArgumentOf(Directives, i - 1) = Cardinality(S)
          /\ ArgumentOf(Directives, i) = Cardinality(T \cap 1 .. i) /\ Cardinality(S) \in Nat
      BY <1>3, <2>1, FS_CardinalityType
    <2>3. CASE Takes(Directives[i].conv)
      <3>1. T \cap 1 .. i = S \cup {i} /\ i \notin S
        BY <1>1, <2>3, SMT
      <3> HIDE DEF S, T
      <3>2. Cardinality(S \cup {i}) = Cardinality(S) + 1
        BY <2>2, <3>1, FS_AddElement
      <3>3. QED
        BY <2>2, <2>3, <3>1, <3>2
    <2>4. CASE ~Takes(Directives[i].conv)
      <3>1. T \cap 1 .. i = S
        BY <1>1, <2>4, SMT
      <3>2. Cardinality(T \cap 1 .. i) = Cardinality(S)
        BY <3>1
      <3> HIDE DEF S, T
      <3>3. ArgumentOf(Directives, i) = Cardinality(S)
        BY <2>2, <3>2
      <3>4. QED
        BY <2>2, <2>4, <3>3
    <2>5. QED
      BY <2>3, <2>4
  <1>6. QED
    BY <1>3, <1>4, <1>5

\* Each directive finds an argument of its own type.
LEMMA ArgumentsFacts ==
  ASSUME FormatOK, args \in Arguments
  PROVE  /\ args \in Seq(Argument) /\ Len(args) = Cardinality(Taking(Directives))
         /\ Len(args) \in Nat
         /\ \A i \in 1 .. Count : Takes(Directives[i].conv) =>
              /\ ArgumentOf(Directives, i) \in 1 .. Len(args)
              /\ args[ArgumentOf(Directives, i)] \in Argument
              /\ args[ArgumentOf(Directives, i)].type = Directives[i].type
  <1> DEFINE all == Cardinality(Taking(Directives))
  <1>1. all \in Nat
    <2>1. 0 \in 0 .. Count
      BY DirectivesTyped, SMT
    <2>2. ArgumentOf(Directives, 0) \in 0 .. all
      BY <2>1, ArgumentCount
    <2>3. Taking(Directives) \in SUBSET (1 .. Count)
      BY DirectivesTyped DEF Taking
    <2>4. IsFiniteSet(1 .. Count)
      BY DirectivesTyped, FS_Interval, SMT
    <2>5. QED
      BY <2>3, <2>4, FS_Subset, FS_CardinalityType
  <1>2. /\ args \in [1 .. all -> Argument]
        /\ \A i \in Taking(Directives) :
             args[ArgumentOf(Directives, i)].type = Directives[i].type
    BY DEF Arguments
  <1>3. ASSUME NEW i \in 1 .. Count, Takes(Directives[i].conv)
        PROVE  i \in Taking(Directives) /\ ArgumentOf(Directives, i) \in 1 .. all
    <2>1. i - 1 \in 0 .. Count /\ i \in 0 .. Count
      BY DirectivesTyped, SMT
    <2>2. /\ ArgumentOf(Directives, i) = ArgumentOf(Directives, i - 1) + 1
          /\ ArgumentOf(Directives, i - 1) \in 0 .. all /\ ArgumentOf(Directives, i) \in 0 .. all
      BY <1>3, <2>1, ArgumentCount
    <2>3. i \in Taking(Directives)
      BY <1>3, DirectivesTyped DEF Taking
    <2> HIDE DEF all
    <2>4. QED
      BY <1>1, <2>2, <2>3, SMT
  <1>4. args \in Seq(Argument) /\ Len(args) = all
    <2> HIDE DEF all
    <2>1. QED
      BY <1>1, <1>2, SMT
  <1>5. QED
    BY <1>1, <1>2, <1>3, <1>4

\* The parts of a directive.
LEMMA DirectiveConv ==
  ASSUME NEW d \in Directive
  PROVE  /\ d.conv \in Conversion \cup {None} /\ d.width \in Nat /\ d.text \in Seq(Chars)
         /\ d.conv = None => d.width = 0
         /\ d.conv = "s" => d.type = "str"
         /\ d.conv \in Number => d.type \in IntType
  <1>1. << >> \in Seq(Chars) /\ "s" \notin Number /\ None \notin Number /\ "s" \in Conversion
    BY NoneIsNone DEF Number, Conversion
  <1>2. CASE d \in [conv : {None}, text : Seq(Chars), type : {None}, width : {0}]
    <2>1. d.conv = None /\ d.text \in Seq(Chars) /\ d.width = 0
      BY <1>2
    <2>2. d.conv # "s" /\ d.conv \notin Number
      BY <1>1, <2>1, NoneIsNone
    <2>3. d.width \in Nat
      BY <2>1
    <2>4. QED
      BY <2>1, <2>2, <2>3, Zenon
  <1>3. CASE d \in [conv : Conversion \ {"s"}, text : {<< >>}, type : IntType, width : Nat]
    <2>1. None \notin Conversion
      BY NoneIsNone
    <2>2. QED
      BY <1>1, <1>3, <2>1
  <1>4. CASE d \in [conv : {"s"}, text : {<< >>}, type : {"str"}, width : Nat]
    <2>1. d.conv = "s" /\ d.text = << >> /\ d.width \in Nat /\ d.type = "str"
      BY <1>4
    <2>2. QED
      BY <1>1, <2>1, NoneIsNone
  <1>5. QED
    BY <1>2, <1>3, <1>4 DEF Directive

\* Each directive makes a text.
LEMMA TextAtIsText ==
  ASSUME FormatOK, args \in Arguments, NEW i \in 1 .. Count
  PROVE  TextAt(i) \in Seq(Chars)
  <1> DEFINE d == Directives[i]
             a == args[ArgumentOf(Directives, i)]
  <1>1. d \in Directive
    BY DirectivesTyped
  <1>2. TextAt(i) = IF d.conv = None THEN d.text
                    ELSE IF Takes(d.conv) THEN Text(d.conv, a) ELSE ErrorText(CallErrno)
    BY DEF TextAt
  <1>3. Takes(d.conv) => a \in Argument /\ a.type = d.type
    BY ArgumentsFacts
  <1> HIDE DEF d, a
  <1>4. ASSUME Takes(d.conv) PROVE Text(d.conv, a) \in Seq(Chars)
    <2>1. d.conv \in Number \cup {"s"}
      BY <1>4 DEF Takes
    <2>2. IF d.conv = "s" THEN a.type = "str" ELSE a.type \in IntType
      BY <1>1, <1>3, <1>4, <2>1, DirectiveConv
    <2>3. QED
      BY <1>3, <1>4, <2>1, <2>2, TextIsText
  <1>5. QED
    BY <1>1, <1>2, <1>4, DirectiveConv, ErrorTextIsText, PrintfAssumption

\* A blank is a text of one character.
LEMMA BlankIsText == << Blank >> \in Seq(Chars) /\ Len(<< Blank >>) = 1 /\ << Blank >>[1] = Blank
  <1>1. Blank \in Chars
    BY DEF Chars
  <1>2. << Blank >> \in Seq(Chars)
    BY <1>1
  <1>3. Len(<< Blank >>) = 1
    OBVIOUS
  <1>4. << Blank >>[1] = Blank
    OBVIOUS
  <1>5. QED
    BY <1>2, <1>3, <1>4, Zenon

\* Blanks come one by one.
LEMMA BlanksFacts ==
  ASSUME NEW k \in Int
  PROVE  /\ Blanks(k) \in Seq(Chars)
         /\ k <= 0 => Blanks(k) = << >>
         /\ k > 0 => Blanks(k) = << Blank >> \o Blanks(k - 1)
  <1> DEFINE b(j) == IF j > 0 THEN j ELSE 0
  <1>1. Blank \in Chars
    BY DEF Chars
  <1>2. ASSUME NEW j \in Int
        PROVE  /\ Blanks(j) = [i \in 1 .. b(j) |-> Blank] /\ Blanks(j) \in Seq(Chars)
               /\ Len(Blanks(j)) = b(j)
    <2>1. b(j) \in Nat
      BY SMT
    <2>2. Blanks(j) = [i \in 1 .. b(j) |-> Blank]
      BY DEF Blanks
    <2> HIDE DEF b
    <2>3. Blanks(j) \in [1 .. b(j) -> Chars]
      BY <1>1, <2>2
    <2>4. Blanks(j) \in Seq(Chars)
      BY <2>1, <2>3, SeqDef
    <2>5. Len(Blanks(j)) = b(j)
      BY <2>1, <2>3, <2>4, LenProperties, SMT
    <2>6. QED
      BY <2>2, <2>4, <2>5
  <1>3. ASSUME k <= 0 PROVE Blanks(k) = << >>
    <2>1. b(k) = 0
      BY <1>3, SMT
    <2>2. Len(Blanks(k)) = 0
      BY <1>2, <2>1
    <2>3. QED
      BY <1>2, <2>2, EmptySeq
  <1>4. ASSUME k > 0 PROVE Blanks(k) = << Blank >> \o Blanks(k - 1)
    <2> DEFINE one == << Blank >>
               s == Blanks(k - 1)
               t == one \o s
             m == k - 1
    <2>0. k \in Nat /\ m \in Nat /\ m \in Int /\ b(k) = k /\ b(m) = m /\ k = m + 1
      BY <1>4, SMT
    <2>9. one \in Seq(Chars) /\ Len(one) = 1 /\ one[1] = Blank
      BY BlankIsText
    <2> HIDE DEF m, b, one
    <2>1. s \in Seq(Chars) /\ Len(s) = m /\ s = [i \in 1 .. m |-> Blank]
      BY <1>2, <2>0 DEF m
    <2>2. Blanks(k) \in Seq(Chars) /\ Len(Blanks(k)) = k /\ Blanks(k) = [i \in 1 .. k |-> Blank]
      BY <1>2, <2>0
    <2> HIDE DEF s
    <2>3. t \in Seq(Chars) /\ Len(t) = 1 + Len(s)
      <3>1. t \in Seq(Chars)
        BY <2>1, <2>9, ConcatIsText
      <3>2. Len(one \o s) = Len(one) + Len(s)
        BY <2>1, <2>9, ConcatProperties
      <3>3. QED
        BY <2>9, <3>1, <3>2
    <2>4. ASSUME NEW i \in 1 .. k PROVE t[i] = Blank
      <3>1. i \in 1 .. (1 + Len(s)) /\ (i <= 1 => i = 1) /\ (~(i <= 1) => i - 1 \in 1 .. m)
        BY <2>0, <2>1, SMT
      <3>2. t[i] = IF i <= Len(one) THEN one[i] ELSE s[i - Len(one)]
        <4>1. i \in 1 .. (Len(one) + Len(s))
          BY <2>9, <3>1
        <4>2. QED
          BY <2>1, <2>9, <4>1, ConcatProperties
      <3>3. QED
        BY <2>1, <2>9, <3>1, <3>2
    <2> HIDE DEF t
    <2>5. Len(Blanks(k)) = Len(t)
      BY <2>0, <2>1, <2>2, <2>3, SMT
    <2>6. \A i \in 1 .. Len(Blanks(k)) : Blanks(k)[i] = t[i]
      BY <2>2, <2>4
    <2>7. Blanks(k) = t
      BY <2>2, <2>3, <2>5, <2>6, SeqEqual
    <2>8. QED
      BY <2>7 DEF s, t, one
  <1>5. QED
    BY <1>2, <1>3, <1>4

\* A text with its blanks is a text.
LEMMA PieceAtIsText ==
  ASSUME FormatOK, args \in Arguments, NEW i \in 1 .. Count
  PROVE  PieceAt(i) \in Seq(Chars)
  <1> DEFINE k == Directives[i].width - Len(TextAt(i))
  <1>1. TextAt(i) \in Seq(Chars) /\ Len(TextAt(i)) \in Nat
    BY TextAtIsText, LenProperties
  <1>2. Directives[i].width \in Nat
    BY DirectivesTyped, DirectiveConv
  <1>3. k \in Int
    BY <1>1, <1>2, SMT
  <1>4. PieceAt(i) = Blanks(k) \o TextAt(i)
    BY DEF PieceAt
  <1> HIDE DEF k
  <1>5. Blanks(k) \in Seq(Chars)
    BY <1>3, BlanksFacts
  <1>6. QED
    BY <1>1, <1>4, <1>5, ConcatIsText

\* The output, piece by piece.
LEMMA OutputDefined ==
  ASSUME FormatOK, args \in Arguments
  PROVE  /\ Output[0] = << >>
         /\ \A i \in 1 .. Count : Output[i] = Output[i - 1] \o PieceAt(i)
         /\ \A i \in 0 .. Count : Output[i] \in Seq(Chars)
  <1> DEFINE D == 0 .. Count
             V == Seq(Chars)
             step == [i \in 1 .. Count |-> [s \in V |-> s \o PieceAt(i)]]
  <1>0. Count \in Nat
    BY DirectivesTyped
  <1>1. ASSUME NEW i \in 1 .. Count, NEW s \in V PROVE s \o PieceAt(i) \in V
    BY PieceAtIsText, ConcatIsText
  <1>2. step \in [1 .. Count -> [V -> V]]
    <2> HIDE DEF V
    <2>1. QED
      BY <1>1
  <1>3. PICK f \in [D -> V] : f[0] = << >> /\ \A i \in 1 .. Count : f[i] = step[i][f[i - 1]]
    BY <1>0, <1>2, TextsByRecursion
  <1>4. ASSUME NEW i \in D PROVE f[i] = IF i = 0 THEN << >> ELSE f[i - 1] \o PieceAt(i)
    <2>1. i # 0 => i \in 1 .. Count /\ i - 1 \in D
      BY <1>0, SMT
    <2>2. CASE i = 0
      BY <1>3, <2>2
    <2>3. CASE i # 0
      <3>1. f[i] = step[i][f[i - 1]] /\ f[i - 1] \in V
        BY <1>3, <2>1, <2>3
      <3>2. QED
        BY <2>1, <2>3, <3>1
    <2>4. QED
      BY <2>2, <2>3
  <1>5. f = [i \in D |-> IF i = 0 THEN << >> ELSE f[i - 1] \o PieceAt(i)]
    BY <1>4
  <1> DEFINE g == CHOOSE h : h = [i \in D |-> IF i = 0 THEN << >> ELSE h[i - 1] \o PieceAt(i)]
  <1>6. g = [i \in D |-> IF i = 0 THEN << >> ELSE g[i - 1] \o PieceAt(i)]
    BY <1>5
  <1>7. Output = g
    BY DEF Output, Count
  <1> HIDE DEF g
  <1>8. Output[0] = << >>
    <2>1. 0 \in D
      BY <1>0, SMT
    <2>2. QED
      BY <1>6, <1>7, <2>1
  <1>9. ASSUME NEW i \in 1 .. Count PROVE Output[i] = Output[i - 1] \o PieceAt(i)
    <2>1. i \in D /\ i # 0
      BY <1>0, SMT
    <2>2. QED
      BY <1>6, <1>7, <2>1
  <1> DEFINE B == {i \in D : Output[i] \in V}
  <1>10. 0 \in B
    <2>1. 0 \in D /\ << >> \in V
      BY <1>0, SMT
    <2>2. QED
      BY <1>8, <2>1
  <1>11. ASSUME NEW i \in 1 .. Count, i - 1 \in B PROVE i \in B
    <2>1. i \in D
      BY <1>0, SMT
    <2>2. Output[i] \in V
      BY <1>1, <1>9, <1>11
    <2>3. QED
      BY <2>1, <2>2
  <1>12. D \subseteq B
    <2> HIDE DEF B
    <2>1. QED
      BY <1>0, <1>10, <1>11, InductionUpTo
  <1>13. QED
    BY <1>8, <1>9, <1>12

\* The output of the first directives is the beginning of the whole output.
LEMMA OutputBegins ==
  ASSUME FormatOK, args \in Arguments, NEW i \in 0 .. Count
  PROVE  \E t \in Seq(Chars) : Expected = Output[i] \o t
  <1> DEFINE D == 0 .. Count
             B == {k \in D : \E t \in Seq(Chars) : Expected = Output[Count - k] \o t}
  <1>0. Count \in Nat /\ Expected = Output[Count]
    BY DirectivesTyped DEF Expected, Count
  <1>1. 0 \in B
    <2>1. 0 \in D /\ Count - 0 = Count /\ Count \in D
      BY <1>0, SMT
    <2>2. Output[Count] \in Seq(Chars) /\ << >> \in Seq(Chars)
      BY <2>1, OutputDefined
    <2>3. Output[Count] = Output[Count] \o << >>
      BY <2>2, ConcatEmptySeq
    <2>4. QED
      BY <1>0, <2>1, <2>2, <2>3
  <1>2. ASSUME NEW k \in 1 .. Count, k - 1 \in B PROVE k \in B
    <2> DEFINE j == Count - k + 1
    <2>1. k \in D /\ j \in 1 .. Count /\ j \in 0 .. Count /\ j - 1 \in 0 .. Count
          /\ Count - (k - 1) = j /\ Count - k = j - 1
      BY <1>0, SMT
    <2> HIDE DEF j
    <2>2. PICK t \in Seq(Chars) : Expected = Output[j] \o t
      BY <1>2, <2>1
    <2>3. Output[j] = Output[j - 1] \o PieceAt(j) /\ Output[j - 1] \in Seq(Chars)
      BY <2>1, OutputDefined
    <2>4. PieceAt(j) \in Seq(Chars)
      BY <2>1, PieceAtIsText
    <2>5. Expected = Output[j - 1] \o (PieceAt(j) \o t)
      <3> DEFINE a == Output[j - 1]
                 b == PieceAt(j)
      <3>1. a \in Seq(Chars) /\ b \in Seq(Chars) /\ Expected = (a \o b) \o t
        BY <2>2, <2>3, <2>4
      <3> HIDE DEF a, b
      <3>2. (a \o b) \o t = a \o (b \o t)
        BY <3>1, TextsAssociate
      <3>3. QED
        BY <3>1, <3>2 DEF a, b
    <2>6. PieceAt(j) \o t \in Seq(Chars)
      BY <2>4, ConcatIsText
    <2>7. QED
      BY <2>1, <2>5, <2>6
  <1>3. D \subseteq B
    <2> HIDE DEF B
    <2>1. QED
      BY <1>0, <1>1, <1>2, InductionUpTo
  <1>4. Count - i \in D /\ Count - (Count - i) = i
    BY <1>0, SMT
  <1>5. QED
    BY <1>3, <1>4

\* NotBlank of a text, up to each of its characters.
Kept(s) == CHOOSE h : h = [i \in 0 .. Len(s) |->
                             IF i = 0 THEN << >>
                             ELSE IF s[i] = Blank THEN h[i - 1] ELSE Append(h[i - 1], s[i])]

\* Kept(s) goes through s character by character.
LEMMA KeptFacts ==
  ASSUME NEW s \in Seq(Chars)
  PROVE  /\ NotBlank(s) = Kept(s)[Len(s)]
         /\ Kept(s)[0] = << >>
         /\ \A i \in 1 .. Len(s) :
              Kept(s)[i] = IF s[i] = Blank THEN Kept(s)[i - 1] ELSE Append(Kept(s)[i - 1], s[i])
         /\ \A i \in 0 .. Len(s) : Kept(s)[i] \in Seq(Chars)
  <1> DEFINE D == 0 .. Len(s)
             V == Seq(Chars)
             More(t, i) == IF s[i] = Blank THEN t ELSE Append(t, s[i])
             Rhs(h, i) == IF i = 0 THEN << >> ELSE More(h[i - 1], i)
             step == [i \in 1 .. Len(s) |-> [t \in V |-> More(t, i)]]
  <1>0. Len(s) \in Nat /\ \A i \in 1 .. Len(s) : s[i] \in Chars
    BY LenProperties, ElementOfSeq
  <1>1. ASSUME NEW i \in 1 .. Len(s), NEW t \in V PROVE More(t, i) \in V
    <2>1. Append(t, s[i]) \in V
      BY <1>0, AppendProperties
    <2>2. QED
      BY <2>1
  <1>2. step \in [1 .. Len(s) -> [V -> V]]
    <2> HIDE DEF V, More
    <2>1. QED
      BY <1>1
  <1>3. PICK f \in [D -> V] : f[0] = << >> /\ \A i \in 1 .. Len(s) : f[i] = step[i][f[i - 1]]
    BY <1>0, <1>2, TextsByRecursion
  <1>4. ASSUME NEW i \in D PROVE f[i] = Rhs(f, i)
    <2>1. i # 0 => i \in 1 .. Len(s) /\ i - 1 \in D
      BY <1>0, SMT
    <2>2. CASE i = 0
      BY <1>3, <2>2
    <2>3. CASE i # 0
      <3>1. f[i] = step[i][f[i - 1]] /\ f[i - 1] \in V
        BY <1>3, <2>1, <2>3
      <3>2. f[i] = More(f[i - 1], i)
        <4> HIDE DEF More, V
        <4>1. QED
          BY <2>1, <2>3, <3>1
      <3>3. QED
        BY <2>3, <3>2
    <2>4. QED
      BY <2>2, <2>3
  <1>5. f = [i \in D |-> Rhs(f, i)]
    BY <1>4
  <1> DEFINE g == CHOOSE h : h = [i \in D |-> Rhs(h, i)]
  <1>6. g = [i \in D |-> Rhs(g, i)]
    BY <1>5
  <1>7. Kept(s) = g /\ NotBlank(s) = g[Len(s)]
    BY DEF Kept, NotBlank
  <1> HIDE DEF g
  <1>8. Kept(s)[0] = << >>
    <2>1. 0 \in D
      BY <1>0, SMT
    <2>2. QED
      BY <1>6, <1>7, <2>1
  <1>9. ASSUME NEW i \in 1 .. Len(s) PROVE Kept(s)[i] = More(Kept(s)[i - 1], i)
    <2>1. i \in D /\ i # 0
      BY <1>0, SMT
    <2> HIDE DEF More
    <2>2. QED
      BY <1>6, <1>7, <2>1
  <1> DEFINE B == {i \in D : Kept(s)[i] \in V}
  <1>10. 0 \in B
    <2>1. 0 \in D /\ << >> \in V
      BY <1>0, SMT
    <2>2. QED
      BY <1>8, <2>1
  <1>11. ASSUME NEW i \in 1 .. Len(s), i - 1 \in B PROVE i \in B
    <2>1. i \in D
      BY <1>0, SMT
    <2> HIDE DEF More
    <2>2. Kept(s)[i] \in V
      BY <1>1, <1>9, <1>11
    <2>3. QED
      BY <2>1, <2>2
  <1>12. D \subseteq B
    <2> HIDE DEF B
    <2>1. QED
      BY <1>0, <1>10, <1>11, InductionUpTo
  <1>13. QED
    BY <1>7, <1>8, <1>9, <1>12

\* The blanks of two texts in a row are those of each.
LEMMA NotBlankOfConcat ==
  ASSUME NEW s \in Seq(Chars), NEW t \in Seq(Chars)
  PROVE  NotBlank(s \o t) = NotBlank(s) \o NotBlank(t)
  <1> DEFINE u == s \o t
             a == Len(s)
             b == Len(t)
             E == Kept(s)[a]
  <1>1. u \in Seq(Chars)
    BY ConcatIsText
  <1>2. Len(u) = a + b
    BY ConcatProperties
  <1>3. a \in Nat /\ b \in Nat
    BY LenProperties
  <1>4. \A i \in 1 .. (a + b) : u[i] = IF i <= a THEN s[i] ELSE t[i - a]
    BY ConcatProperties
  <1>5. NotBlank(s) = E /\ NotBlank(t) = Kept(t)[b] /\ NotBlank(u) = Kept(u)[a + b]
    BY <1>1, <1>2, KeptFacts
  <1>6. /\ Kept(s)[0] = << >> /\ Kept(t)[0] = << >> /\ Kept(u)[0] = << >>
        /\ \A i \in 1 .. a :
             Kept(s)[i] = IF s[i] = Blank THEN Kept(s)[i - 1] ELSE Append(Kept(s)[i - 1], s[i])
        /\ \A i \in 1 .. b :
             Kept(t)[i] = IF t[i] = Blank THEN Kept(t)[i - 1] ELSE Append(Kept(t)[i - 1], t[i])
        /\ \A i \in 1 .. (a + b) :
             Kept(u)[i] = IF u[i] = Blank THEN Kept(u)[i - 1] ELSE Append(Kept(u)[i - 1], u[i])
    BY <1>1, <1>2, KeptFacts
  <1>7. /\ \A i \in 0 .. a : Kept(s)[i] \in Seq(Chars)
        /\ \A i \in 0 .. b : Kept(t)[i] \in Seq(Chars)
        /\ \A i \in 1 .. b : t[i] \in Chars
    BY KeptFacts, ElementOfSeq
  <1> HIDE DEF u, a, b
  <1> DEFINE A == {i \in 0 .. a : Kept(u)[i] = Kept(s)[i]}
             B == {i \in 0 .. b : Kept(u)[a + i] = E \o Kept(t)[i]}
  <1>8. 0 .. a \subseteq A
    <2>1. 0 \in A
      BY <1>3, <1>6, SMT
    <2>2. ASSUME NEW i \in 1 .. a, i - 1 \in A PROVE i \in A
      <3>1. i \in 1 .. (a + b) /\ i <= a /\ i \in 0 .. a
        BY <1>3, SMT
      <3>2. u[i] = s[i] /\ Kept(u)[i - 1] = Kept(s)[i - 1]
        BY <1>4, <2>2, <3>1
      <3>3. Kept(u)[i] = Kept(s)[i]
        BY <1>6, <3>1, <3>2
      <3>4. QED
        BY <3>1, <3>3
    <2> HIDE DEF A
    <2>3. QED
      BY <1>3, <2>1, <2>2, InductionUpTo
  <1>9. E \in Seq(Chars) /\ Kept(u)[a] = E
    <2>1. a \in 0 .. a
      BY <1>3, SMT
    <2>2. QED
      BY <1>7, <1>8, <2>1
  <1> HIDE DEF E, A
  <1>10. 0 .. b \subseteq B
    <2>1. 0 \in B
      <3>1. 0 \in 0 .. b /\ a + 0 = a
        BY <1>3, SMT
      <3>2. E \o << >> = E
        BY <1>9, ConcatEmptySeq
      <3>3. QED
        BY <1>6, <1>9, <3>1, <3>2
    <2>2. ASSUME NEW i \in 1 .. b, i - 1 \in B PROVE i \in B
      <3> DEFINE k == a + i
                 r == Kept(t)[i - 1]
      <3>1. k \in 1 .. (a + b) /\ ~(k <= a) /\ k - a = i /\ k - 1 = a + (i - 1) /\ i \in 0 .. b
            /\ i - 1 \in 0 .. b
        BY <1>3, SMT
      <3>2. u[k] = t[i] /\ Kept(u)[k - 1] = E \o r /\ r \in Seq(Chars) /\ t[i] \in Chars
        BY <1>4, <1>7, <2>2, <3>1
      <3>3. Kept(u)[k] = IF u[k] = Blank THEN Kept(u)[k - 1] ELSE Append(Kept(u)[k - 1], u[k])
        BY <1>6, <3>1
      <3>4. Kept(t)[i] = IF t[i] = Blank THEN r ELSE Append(r, t[i])
        BY <1>6
      <3> HIDE DEF k, r
      <3>5. Append(E \o r, t[i]) = E \o Append(r, t[i])
        <4> DEFINE e == t[i]
        <4>1. E \o r \in Seq(Chars) /\ << e >> \in Seq(Chars) /\ e \in Chars
          BY <1>9, <3>2, ConcatIsText
        <4> HIDE DEF e
        <4>2. Append(E \o r, e) = (E \o r) \o << e >>
          BY <4>1, AppendIsConcat
        <4>3. Append(r, e) = r \o << e >>
          BY <3>2, <4>1, AppendIsConcat
        <4>4. (E \o r) \o << e >> = E \o (r \o << e >>)
          BY <1>9, <3>2, <4>1, TextsAssociate
        <4>5. QED
          BY <4>2, <4>3, <4>4 DEF e
      <3>6. Kept(u)[k] = E \o Kept(t)[i]
        BY <3>2, <3>3, <3>4, <3>5
      <3>7. QED
        BY <3>1, <3>6 DEF k
    <2> HIDE DEF B
    <2>3. QED
      BY <1>3, <2>1, <2>2, InductionUpTo
  <1>11. b \in 0 .. b
    BY <1>3, SMT
  <1>12. QED
    BY <1>5, <1>10, <1>11 DEF u, E

\* Blanks are dropped.
LEMMA NotBlankFacts ==
  /\ \A s \in Seq(Chars) : NotBlank(s) \in Seq(Chars)
  /\ NotBlank(<< >>) = << >>
  /\ NotBlank(<< Blank >>) = << >>
  /\ \A k \in Nat : NotBlank(Blanks(k)) = << >>
  <1>1. ASSUME NEW s \in Seq(Chars) PROVE NotBlank(s) \in Seq(Chars)
    <2>1. Len(s) \in 0 .. Len(s)
      BY LenProperties, SMT
    <2>2. QED
      BY <2>1, KeptFacts
  <1>2. NotBlank(<< >>) = << >>
    <2>1. << >> \in Seq(Chars) /\ Len(<< >>) = 0
      OBVIOUS
    <2>2. QED
      BY <2>1, KeptFacts
  <1>3. NotBlank(<< Blank >>) = << >>
    <2> DEFINE one == << Blank >>
    <2>1. one \in Seq(Chars) /\ Len(one) = 1 /\ one[1] = Blank
      BY BlankIsText
    <2> HIDE DEF one
    <2>2. 1 \in 1 .. Len(one) /\ 1 - 1 = 0
      BY <2>1
    <2>3. NotBlank(one) = Kept(one)[1] /\ Kept(one)[1] = Kept(one)[1 - 1] /\ Kept(one)[0] = << >>
      BY <2>1, <2>2, KeptFacts
    <2>4. QED
      BY <2>2, <2>3 DEF one
  <1>4. ASSUME NEW k \in Nat PROVE NotBlank(Blanks(k)) = << >>
    <2> DEFINE B == {i \in 0 .. k : NotBlank(Blanks(i)) = << >>}
    <2>1. 0 \in B
      <3>1. 0 \in 0 .. k /\ 0 \in Int /\ 0 <= 0
        OBVIOUS
      <3>2. Blanks(0) = << >>
        BY <3>1, BlanksFacts
      <3>3. QED
        BY <1>2, <3>1, <3>2
    <2>2. ASSUME NEW i \in 1 .. k, i - 1 \in B PROVE i \in B
      <3> DEFINE t == Blanks(i - 1)
                 one == << Blank >>
      <3>1. i \in Int /\ i > 0 /\ i - 1 \in Int /\ i \in 0 .. k
        BY SMT
      <3>2. Blanks(i) = one \o t /\ t \in Seq(Chars) /\ one \in Seq(Chars)
        BY <3>1, BlanksFacts, BlankIsText
      <3>3. NotBlank(t) = << >> /\ NotBlank(one) = << >>
        BY <1>3, <2>2
      <3> HIDE DEF t, one
      <3>4. NotBlank(one \o t) = << >> \o << >>
        BY <3>2, <3>3, NotBlankOfConcat
      <3>5. << >> \o << >> = << >>
        BY EmptySeq, ConcatEmptySeq
      <3>6. QED
        BY <3>1, <3>2, <3>4, <3>5
    <2>3. k \in 0 .. k
      BY SMT
    <2> HIDE DEF B
    <2>4. 0 .. k \subseteq B
      BY <2>1, <2>2, InductionUpTo
    <2>5. QED
      BY <2>3, <2>4 DEF B
  <1>5. QED
    BY <1>1, <1>2, <1>3, <1>4

-----------------------------------------------------------------------------
(* The inductive invariant.                                                *)

\* The characters from s on are the directives behind the first m.
From(s, m) ==
  /\ s \in 1 .. (Len(format) + 1) /\ m \in 0 .. Count
  /\ Reading[s] = SubSeq(Directives, m + 1, Count)

\* The scan is in the directive that begins at s, behind a modifier.
Inside(s) ==
  /\ ofs = 0 /\ s < fmt /\ format[s] = "%"
  /\ \A k \in (s + 1) .. (fmt - 1) : format[k] \notin Conversion \cup {"%"}
  /\ fmt = s + 1 \/ format[fmt - 1] \notin Digit
  /\ Level(s, fmt - 1) = MinOf(lpref, 2)

\* Where the call is: m directives are read, and the next one begins at s.
Scanned(s, m) ==
  /\ argi = 1 + ArgumentOf(Directives, m)
  /\ pc = "scan" /\ escape => Inside(s)
  /\ pc = "scan" /\ ~escape => fmt + ofs = s
  /\ pc # "scan" /\ escape => fmt + ofs = s + 1 /\ c = At(s) /\ c \in {"%", End} /\ lpref = 0
  /\ pc # "scan" /\ ~escape => fmt + ofs = s /\ c # End

\* What is read but not yet written.
Pending ==
  IF pc = "scan" THEN IF escape THEN << >> ELSE SubSeq(format, fmt, fmt + ofs - 1)
  ELSE IF pc = "text" THEN outstr
  ELSE Blanks(width - Len(outstr)) \o outstr

\* What the piece takes off the room.
Held == IF pc \in {"pad", "text"} THEN w ELSE 0

Texts == Seq(Chars)

\* Where the output is what the format says, as long as the call goes on: there is room,
\* and no %m can have come behind padding that failed.
Tracked == Fits /\ (failures = 0 \/ ~(HasWidth /\ HasErrorText))

\* When there is room for everything, sent was given to the destination, which dropped
\* only blanks of it.
Sends(sent, m) ==
  /\ sent \o Pending = Output[m]
  /\ NotBlank(out) = NotBlank(sent) /\ (failures = 0 => out = sent)
  /\ written = Len(out)
  /\ n + Held >= dest.size - Len(sent)
  /\ pc \in {"pad", "text"} => w = Len(outstr)

\* In a buffer and without blanks, what is there is the beginning of what was sent.
Fills(sent, m) ==
  /\ sent \o Pending = Output[m]
  /\ written = Len(sent)
  /\ out = SubSeq(sent, 1, MinOf(dest.size, Len(sent)))
  /\ n + Held = dest.size - Len(out)
  /\ pc \in {"pad", "text"} => w = MinOf(Len(outstr), n + w) /\ n + w > 0

Active == pc \in {"scan", "flush", "pad", "text"}

Placed(s, m) ==
  /\ From(s, m) /\ Scanned(s, m)
  /\ Tracked => \E sent \in Texts : Sends(sent, m)
  /\ dest.buffer /\ ~HasWidth => \E sent \in Texts : Fills(sent, m)

\* The types of all variables but errno.
CallTypes ==
  /\ format \in Format /\ args \in Seq(Argument) /\ dest \in Dest
  /\ fmt \in 1 .. (Len(format) + 1) /\ fmt + ofs <= Len(format) + 2 /\ ofs \in Nat
  /\ escape \in BOOLEAN /\ lpref \in Nat /\ width \in Nat
  /\ n \in 0 .. dest.size /\ w \in Nat /\ (pc \in {"pad", "text"} => w <= Len(outstr))
  /\ written \in Nat /\ argi \in 1 .. (Len(args) + 1)
  /\ pc \in {"scan", "flush", "pad", "text", "done", "overrun"}
  /\ failures \in 0 .. MaxFailures
  /\ ret \in Nat \cup {-1} /\ nul \in Nat \cup {-1}

Typed ==
  /\ CallTypes /\ args \in Arguments
  /\ outstr \in Texts /\ out \in Texts
  /\ ~HasWidth => width = 0
  /\ dest.buffer => failures = 0

\* What a call leaves that is over: all of the output, or the beginning that was sent
\* before the failure.
Ended ==
  /\ nul = Terminator(ret)
  /\ Tracked => \E sent, rest \in Texts :
       /\ Expected = sent \o rest /\ NotBlank(out) = NotBlank(sent)
       /\ ret <= Len(out)
       /\ failures = 0 => out = Expected /\ ret = Len(out)
  /\ dest.buffer /\ ~HasWidth =>
       /\ ret = Len(Expected)
       /\ out = SubSeq(Expected, 1, MinOf(dest.size, Len(Expected)))

Inductive ==
  /\ Typed
  /\ Active => \E s \in 1 .. (Len(format) + 1), m \in 0 .. Count : Placed(s, m)
  /\ pc = "done" => Ended
  /\ pc = "overrun" => HasWidth /\ ~Fits

\* errno is that of the call until a write fails, and the call goes on only behind padding.
ErrnoInv ==
  /\ errno \in {CallErrno} \cup WriteErrno
  /\ failures = 0 => errno = CallErrno
  /\ failures > 0 => pc = "done" \/ HasWidth

-----------------------------------------------------------------------------
(* How the directives go on.                                               *)

\* At the start no directive is read.
LEMMA FromStart ==
  ASSUME FormatOK
  PROVE  From(1, 0)
  <1>1. 1 \in 1 .. (Len(format) + 1) /\ 0 \in 0 .. Count
    BY FormatFacts, DirectivesTyped, SMT
  <1>2. SubSeq(Directives, 1, Count) = Directives
    BY DirectivesTyped, SubSeqFull DEF Count
  <1>3. QED
    BY <1>1, <1>2 DEF From, Directives

\* Where nothing is left to read, all directives are read.
LEMMA FromEnd ==
  ASSUME FormatOK, NEW s, NEW m, From(s, m), Reading[s] = << >>
  PROVE  m = Count
  <1>1. /\ m \in 0 .. Count /\ Count \in Nat /\ SubSeq(Directives, m + 1, Count) = << >>
    BY DirectivesTyped DEF From
  <1>2. ASSUME m # Count PROVE FALSE
    <2>1. /\ m + 1 \in 1 .. Count /\ Count \in (m + 1) .. Count
          /\ m + 1 \in Int /\ Count \in Int /\ m + 1 <= Count
      BY <1>1, <1>2, SMT
    <2>2. \A i \in (m + 1) .. Count : Directives[i] \in Directive
      BY <2>1, DirectivesTyped, SMT
    <2>3. Len(SubSeq(Directives, m + 1, Count)) = Count - (m + 1) + 1
      BY <2>1, <2>2, SubSeqProperties
    <2>4. Len(SubSeq(Directives, m + 1, Count)) = 0
      BY <1>1, EmptySeq
    <2>5. Count - (m + 1) + 1 = 0
      BY <2>3, <2>4
    <2>6. QED
      BY <1>1, <2>1, <2>5, SMT
  <1>3. QED
    BY <1>2

\* The directive that is read at s is the next one.
LEMMA FromNext ==
  ASSUME FormatOK, NEW s, NEW m, From(s, m),
         NEW t \in 1 .. (Len(format) + 1), NEW d \in Directive,
         Reading[s] = << d >> \o Reading[t]
  PROVE  m + 1 \in 1 .. Count /\ Directives[m + 1] = d /\ From(t, m + 1)
  <1> DEFINE k == m + 1
             rest == Reading[t]
             one == << d >>
  <1>1. m \in 0 .. Count /\ Count \in Nat /\ Directives \in Seq(Directive)
        /\ one \o rest = SubSeq(Directives, k, Count)
    BY DirectivesTyped DEF From
  <1>2. rest \in Seq(Directive) /\ one \in Seq(Directive) /\ Len(one) = 1
    BY ReadingDefined
  <1> HIDE DEF rest, one
  <1>3. k \in 1 .. Count
    <2>1. SUFFICES ASSUME m = Count PROVE FALSE
      BY <1>1, SMT
    <2>2. Count < k /\ k \in Int /\ Count \in Int
      BY <1>1, <2>1, SMT
    <2>3. SubSeq(Directives, k, Count) = << >>
      BY <2>2, SubSeqEmpty
    <2>4. Len(one \o rest) = Len(one) + Len(rest) /\ Len(rest) \in Nat
      BY <1>2, ConcatProperties, LenProperties
    <2>5. Len(one \o rest) = 0
      BY <1>1, <2>3, EmptySeq
    <2>6. Len(one) + Len(rest) = 0
      BY <2>4, <2>5
    <2>7. QED
      BY <1>2, <2>4, <2>6, SMT
  <1> DEFINE tail == SubSeq(Directives, k + 1, Count)
             first == <<Directives[k]>>
  <1>4. SubSeq(Directives, k, Count) = first \o tail
    <2>1. Count \in k .. Count
      BY <1>1, <1>3, SMT
    <2>2. k \in 1 .. Len(Directives) /\ Count \in k .. Len(Directives)
      BY <1>3, <2>1 DEF Count
    <2> HIDE DEF k
    <2>3. QED
      BY <1>1, <2>2, SubSeqRecursiveFirst
  <1>5. tail \in Seq(Directive) /\ first \in Seq(Directive) /\ Len(first) = 1
    <2>1. Directives[k] \in Directive
      BY <1>3, DirectivesTyped
    <2>2. k + 1 \in Int /\ Count \in Int /\ \A i \in (k + 1) .. Count : i \in 1 .. Count
      BY <1>1, <1>3, SMT
    <2>3. \A i \in (k + 1) .. Count : Directives[i] \in Directive
      BY <2>2, DirectivesTyped
    <2>4. tail \in Seq(Directive)
      BY <2>2, <2>3, SubSeqProperties
    <2>5. QED
      BY <2>1, <2>4
  <1>6. one \o rest = first \o tail
    BY <1>1, <1>4
  <1>7. one[1] = d /\ first[1] = Directives[k]
    BY DEF one
  <1> HIDE DEF first, tail
  <1>8. one = first
    <2>1. Len(rest) \in Nat /\ Len(tail) \in Nat
      BY <1>2, <1>5, LenProperties
    <2>2. 1 \in 1 .. (Len(one) + Len(rest)) /\ 1 \in 1 .. (Len(first) + Len(tail))
      BY <1>2, <1>5, <2>1, SMT
    <2>3. (one \o rest)[1] = IF 1 <= Len(one) THEN one[1] ELSE rest[1 - Len(one)]
      BY <1>2, <2>2, ConcatProperties
    <2>4. (first \o tail)[1] = IF 1 <= Len(first) THEN first[1] ELSE tail[1 - Len(first)]
      BY <1>5, <2>2, ConcatProperties
    <2>5. one[1] = first[1]
      <3>1. 1 <= Len(one) /\ 1 <= Len(first)
        BY <1>2, <1>5
      <3>2. (one \o rest)[1] = one[1]
        BY <2>3, <3>1
      <3>3. (first \o tail)[1] = first[1]
        BY <2>4, <3>1
      <3>4. QED
        BY <1>6, <3>2, <3>3
    <2>6. QED
      BY <1>7, <2>5 DEF one, first
  <1>9. rest = tail
    BY <1>2, <1>5, <1>6, <1>8, ConcatSimplifications
  <1>10. Directives[k] = d
    BY <1>7, <1>8
  <1>11. From(t, k)
    BY <1>3, <1>9 DEF From, rest, tail
  <1>12. QED
    BY <1>3, <1>10, <1>11

\* The modifiers of a directive, behind one more of them and the digits before it.
LEMMA LevelGoesOn ==
  ASSUME NEW i \in Nat, NEW p \in Nat, NEW j \in Nat, i < p, p <= j, DigitsAt(p, j - 1)
  PROVE  /\ Level(i, j) \in 0 .. 2
         /\ Level(i, j) = IF format[j] = "l" THEN MinOf(Level(i, p - 1) + 1, 2)
                          ELSE IF format[j] = "j" THEN 2
                          ELSE Level(i, p - 1)
  <1>1. \A k \in i .. j : k \in i .. (p - 1) \/ k = j \/ format[k] \in Digit
    <2>1. \A k \in i .. j : k \in i .. (p - 1) \/ k = j \/ k \in p .. (j - 1)
      BY SMT
    <2>2. QED
      BY <2>1 DEF DigitsAt
  <1>2. \A k \in i .. (p - 1) : k \in i .. j /\ k # j
    BY SMT
  <1>3. j \in i .. j
    BY SMT
  <1>4. "l" \notin Digit /\ "j" \notin Digit
    BY DigitIsNone
  <1>5. Has(i, j, "l") <=> Has(i, p - 1, "l") \/ format[j] = "l"
    BY <1>1, <1>2, <1>3, <1>4, Zenon DEF Has
  <1>6. Has(i, j, "j") <=> Has(i, p - 1, "j") \/ format[j] = "j"
    BY <1>1, <1>2, <1>3, <1>4, Zenon DEF Has
  <1>7. Twice(i, j, "l") <=> Twice(i, p - 1, "l") \/ (format[j] = "l" /\ Has(i, p - 1, "l"))
    BY <1>1, <1>2, <1>3, <1>4, SMT DEF Twice, Has
  <1>8. Twice(i, p - 1, "l") => Has(i, p - 1, "l")
    BY DEF Twice, Has
  <1>9. QED
    BY <1>5, <1>6, <1>7, <1>8, SMT DEF Level, MinOf

\* A character of the format is the next directive.
LEMMA ReadLiteral ==
  ASSUME FormatOK, NEW s \in 1 .. Len(format), format[s] # "%", NEW m, From(s, m)
  PROVE  /\ m + 1 \in 1 .. Count /\ Directives[m + 1] = Verbatim(<<format[s]>>)
         /\ From(s + 1, m + 1)
  <1>1. s + 1 \in 1 .. (Len(format) + 1) /\ s \in 1 .. (Len(format) + 1) /\ ~(s > Len(format))
    BY FormatFacts, SMT
  <1>2. Verbatim(<<format[s]>>) \in Directive
    <2>1. <<format[s]>> \in Seq(Chars)
      BY FormatFacts
    <2>2. QED
      BY <2>1, VerbatimIsTyped
  <1>3. Reading[s] = <<Verbatim(<<format[s]>>)>> \o Reading[s + 1]
    BY <1>1, ReadingDefined DEF ReadingAt
  <1>4. QED
    BY <1>1, <1>2, <1>3, FromNext

\* The directive that ends at j is the next one.
LEMMA ReadDirective ==
  ASSUME FormatOK, NEW s \in 1 .. Len(format), format[s] = "%",
         NEW j \in (s + 1) .. Len(format), format[j] \in Conversion \cup {"%"},
         \A k \in (s + 1) .. (j - 1) : format[k] \notin Conversion \cup {"%"},
         NEW d \in (s + 1) .. j, WidthAt(s, j, d), NEW m, From(s, m)
  PROVE  /\ m + 1 \in 1 .. Count /\ Directives[m + 1] = DirectiveWith(s, j, d)
         /\ From(j + 1, m + 1)
  <1>1. /\ j + 1 \in 1 .. (Len(format) + 1) /\ s \in 1 .. (Len(format) + 1) /\ ~(s > Len(format))
    BY FormatFacts, SMT
  <1>2. Ends(s) # {} /\ EndOf(s) = j
    BY EndOfIs
  <1>3. DirectiveAt(s, j) = DirectiveWith(s, j, d) /\ DirectiveAt(s, j) \in Directive
    BY DirectiveIs, DirectiveIsTyped
  <1>4. Reading[s] = <<DirectiveAt(s, j)>> \o Reading[j + 1]
    BY <1>1, <1>2, ReadingDefined DEF ReadingAt
  <1>5. /\ m + 1 \in 1 .. Count /\ Directives[m + 1] = DirectiveAt(s, j) /\ From(j + 1, m + 1)
    BY <1>1, <1>3, <1>4, FromNext
  <1>6. QED
    BY <1>3, <1>5

\* At the end, or in a directive that has none, all directives are read.
LEMMA ReadNothing ==
  ASSUME FormatOK, NEW s, NEW m, From(s, m),
         s <= Len(format) =>
           format[s] = "%" /\ \A k \in (s + 1) .. Len(format) : format[k] \notin Conversion \cup {"%"}
  PROVE  m = Count
  <1>1. s \in 1 .. (Len(format) + 1) /\ (s > Len(format) <=> ~(s <= Len(format)))
    BY FormatFacts, SMT DEF From
  <1>2. s <= Len(format) => Ends(s) = {}
    BY DEF Ends
  <1>3. Reading[s] = << >>
    BY <1>1, <1>2, ReadingDefined DEF ReadingAt
  <1>4. QED
    BY <1>3, FromEnd

\* A text of the format is its own output and takes no argument.
LEMMA VerbatimPiece ==
  ASSUME FormatOK, NEW i \in 1 .. Count, NEW t \in Seq(Chars), Directives[i] = Verbatim(t)
  PROVE  PieceAt(i) = t /\ ArgumentOf(Directives, i) = ArgumentOf(Directives, i - 1)
  <1>1. Directives[i].conv = None /\ Directives[i].text = t /\ Directives[i].width = 0
    BY DEF Verbatim
  <1>2. TextAt(i) = t
    BY <1>1 DEF TextAt
  <1> DEFINE k == 0 - Len(t)
  <1>3. k \in Int /\ k <= 0
    BY LenProperties, SMT
  <1>4. PieceAt(i) = Blanks(k) \o t
    BY <1>1, <1>2 DEF PieceAt
  <1> HIDE DEF k
  <1>5. Blanks(k) = << >>
    BY <1>3, BlanksFacts
  <1>6. << >> \o t = t
    BY ConcatEmptySeq
  <1>7. ~Takes(None)
    BY NoneIsNone DEF Takes
  <1>8. ArgumentOf(Directives, i) = ArgumentOf(Directives, i - 1) + 0
    BY <1>1, <1>7, ArgumentCount
  <1>9. ArgumentOf(Directives, i - 1) \in Nat
    <2>1. i - 1 \in 0 .. Count
      BY DirectivesTyped, SMT
    <2>2. QED
      BY <2>1, ArgumentCount
  <1>10. QED
    BY <1>4, <1>5, <1>6, <1>8, <1>9

-----------------------------------------------------------------------------
(* What does not change in a call.                                         *)

\* The format, and all that is read in it, stays the same,
LEMMA SameCall ==
  ASSUME UNCHANGED call
  PROVE  /\ format' = format /\ args' = args /\ dest' = dest
         /\ Directives' = Directives /\ Reading' = Reading /\ Count' = Count
         /\ Output' = Output /\ Expected' = Expected
         /\ HasWidth' <=> HasWidth
         /\ Fits' <=> Fits
         /\ (failures' = 0 => failures = 0) => (Tracked' => Tracked)
         /\ Arguments' = Arguments
  <1>1. format' = format /\ args' = args /\ dest' = dest
    BY DEF call
  <1>2. Reading' = Reading
    BY <1>1, SMT DEF Reading, ReadingAt, Verbatim, Ends, EndOf, DirectiveAt
  <1>3. Directives' = Directives
    BY <1>1, SMT DEF Directives, Reading, ReadingAt, Verbatim, Ends, EndOf, DirectiveAt
  <1>4. Output' = Output
    BY <1>1, <1>3, SMT DEF Output, PieceAt, Blanks, TextAt
  <1>5. Count' = Count
    BY <1>3 DEF Count
  <1>6. Expected' = Expected
    BY <1>3, <1>4 DEF Expected
  <1>7. HasWidth' <=> HasWidth
    BY <1>3 DEF HasWidth
  <1>8. Fits' <=> Fits
    BY <1>1, <1>6 DEF Fits
  <1>9. Arguments' = Arguments
    BY <1>1, <1>3 DEF Arguments
  <1>10. HasErrorText' <=> HasErrorText
    BY <1>3 DEF HasErrorText
  <1>11. QED
    BY <1>1, <1>2, <1>3, <1>4, <1>5, <1>6, <1>7, <1>8, <1>9, <1>10 DEF Tracked

\* and so do the directives from a place on,
LEMMA SameFrom ==
  ASSUME UNCHANGED call, NEW s, NEW m
  PROVE  /\ From(s, m)' <=> From(s, m)
         /\ At(s)' = At(s)
  BY SameCall DEF From, At

\* and the modifiers between two places.
LEMMA SameLevel ==
  ASSUME UNCHANGED call, NEW s, NEW m
  PROVE Level(s, m)' = Level(s, m)
  BY SameCall DEF Level, Has, Twice

\* A format of the program is one.
LEMMA FormatIsOK ==
  ASSUME format \in Format
  PROVE  FormatOK
  BY PrintfAssumption DEF PrintfAssumption, FormatOK

\* What a destination is.
LEMMA DestFacts ==
  ASSUME dest \in Dest
  PROVE  dest.size \in Nat /\ dest.buffer \in BOOLEAN
  <1>1. SizeMax \in Nat /\ Size \subseteq 0 .. SizeMax
    BY PrintfAssumption DEF PrintfAssumption
  <1>2. CASE dest = [buffer |-> FALSE, size |-> SizeMax]
    BY <1>1, <1>2
  <1>3. CASE dest \in {[buffer |-> TRUE, size |-> s] : s \in Size \cup {SizeMax}}
    <2>1. PICK s \in Size \cup {SizeMax} : dest = [buffer |-> TRUE, size |-> s]
      BY <1>3
    <2>2. s \in Nat
      BY <1>1, SMT
    <2>3. QED
      BY <2>1, <2>2
  <1>4. QED
    BY <1>2, <1>3 DEF Dest

\* The terminator is at a place, or nowhere.
LEMMA TerminatorIsTyped ==
  ASSUME dest \in Dest, NEW r \in Nat
  PROVE  Terminator(r) \in Nat \cup {-1}
  BY DestFacts, SMT DEF Terminator

\* The parts of the type invariant.
LEMMA TypeFacts ==
  ASSUME CallTypes
  PROVE  /\ FormatOK /\ Len(format) \in Nat
         /\ fmt \in Nat /\ ofs \in Nat /\ fmt >= 1 /\ fmt <= Len(format) + 1
         /\ fmt + ofs <= Len(format) + 2
         /\ lpref \in Nat /\ width \in Nat /\ written \in Nat /\ failures \in Nat
         /\ w \in Nat /\ n \in Nat /\ n <= dest.size /\ dest.size \in Nat
         /\ argi \in Nat /\ dest.buffer \in BOOLEAN /\ escape \in BOOLEAN
  <1>1. FormatOK /\ dest.size \in Nat /\ dest.buffer \in BOOLEAN
    BY FormatIsOK, DestFacts DEF CallTypes
  <1>2. Len(format) \in Nat /\ MaxFailures \in Nat
    BY <1>1, FormatFacts, PrintfAssumption DEF PrintfAssumption
  <1>3. /\ fmt \in 1 .. (Len(format) + 1) /\ fmt + ofs <= Len(format) + 2 /\ ofs \in Nat
        /\ escape \in BOOLEAN /\ lpref \in Nat /\ width \in Nat
        /\ n \in 0 .. dest.size /\ w \in Nat /\ written \in Nat /\ argi \in 1 .. (Len(args) + 1)
        /\ failures \in 0 .. MaxFailures
    BY DEF CallTypes
  <1>4. argi \in Nat
    BY <1>3, SMT
  <1>5. QED
    BY <1>1, <1>2, <1>3, <1>4, SMT

\* It does not matter in which order pieces are joined.
LEMMA PiecesAssociate ==
  ASSUME NEW r \in Texts, NEW p \in Texts, NEW q \in Texts
  PROVE  r \o (p \o q) = (r \o p) \o q
  BY TextsAssociate DEF Texts

\* One more character of the format.
LEMMA PartGrows ==
  ASSUME FormatOK, NEW i \in 1 .. Len(format), NEW j \in i .. (Len(format) + 1)
  PROVE  /\ SubSeq(format, i, j - 1) \in Texts
         /\ j <= Len(format) => SubSeq(format, i, j) = SubSeq(format, i, j - 1) \o <<format[j]>>
  <1>1. Len(format) \in Nat /\ i \in Int /\ j - 1 \in Int /\ i >= 1 /\ j - 1 <= Len(format)
    BY FormatFacts, SMT
  <1>2. SubSeq(format, i, j - 1) \in Texts
    BY <1>1, PartOfFormat DEF Texts
  <1>3. ASSUME j <= Len(format)
        PROVE  SubSeq(format, i, j) = SubSeq(format, i, j - 1) \o <<format[j]>>
    <2>1. j \in i .. Len(format)
      BY <1>1, <1>3, SMT
    <2>2. QED
      BY <2>1, SubSeqRecursiveSecond DEF FormatOK
  <1>4. QED
    BY <1>2, <1>3

\* A character of the format keeps the invariant.
LEMMA LiteralKeeps ==
  ASSUME Inductive, Literal
  PROVE  Inductive'
  <1>1. /\ pc = "scan" /\ ~escape /\ Char \notin {"%", End} /\ ofs' = ofs + 1
        /\ UNCHANGED call
        /\ UNCHANGED <<fmt, escape, lpref, c, width, outstr, w, n, written, argi, pc, out,
                       failures, ret, nul>>
    BY DEF Literal, call
  <1>2. Typed /\ CallTypes /\ args \in Arguments /\ Active
    BY <1>1 DEF Inductive, Typed, Active
  <1>3. PICK s \in 1 .. (Len(format) + 1), m \in 0 .. Count : Placed(s, m)
    BY <1>2 DEF Inductive
  <1>4. From(s, m) /\ fmt + ofs = s /\ argi = 1 + ArgumentOf(Directives, m)
    BY <1>1, <1>3 DEF Placed, Scanned
  <1>0. /\ fmt \in Nat /\ ofs \in Nat /\ fmt >= 1 /\ Len(format) \in Nat /\ fmt <= Len(format) + 1
        /\ ofs' = ofs + 1 /\ fmt' = fmt /\ fmt + ofs = s
    BY <1>1, <1>2, <1>4, TypeFacts
  <1>5. s \in 1 .. Len(format) /\ format[s] # "%"
    <2>1. At(s) \notin {"%", End} /\ Len(format) \in Nat
      BY <1>1, <1>2, <1>4, TypeFacts DEF Char
    <2>2. ~(s > Len(format))
      BY <1>2, <2>1, TypeFacts, FormatFacts
    <2>3. s \in 1 .. Len(format)
      BY <2>1, <2>2, SMT
    <2>4. QED
      BY <1>2, <2>1, <2>3, TypeFacts, FormatFacts
  <1> DEFINE q == <<format[s]>>
  <1>6. /\ m + 1 \in 1 .. Count /\ Directives[m + 1] = Verbatim(q) /\ From(s + 1, m + 1)
    BY <1>2, <1>4, <1>5, TypeFacts, ReadLiteral
  <1>7. q \in Seq(Chars) /\ q \in Texts
    BY <1>2, <1>5, TypeFacts, FormatFacts DEF Texts
  <1> HIDE DEF q
  <1>8. /\ (m + 1) - 1 = m /\ m + 1 \in 0 .. Count /\ m \in 0 .. Count
        /\ s + 1 \in 1 .. (Len(format) + 1)
    BY <1>6 DEF From
  <1>9. PieceAt(m + 1) = q /\ ArgumentOf(Directives, m + 1) = ArgumentOf(Directives, m)
    BY <1>2, <1>6, <1>7, <1>8, TypeFacts, VerbatimPiece
  <1>10. Output[m + 1] = Output[m] \o q
    BY <1>2, <1>6, <1>8, <1>9, TypeFacts, OutputDefined
  <1>11. Pending \in Texts /\ Pending' = Pending \o q
    <2>1. Pending = SubSeq(format, fmt, s - 1) /\ Pending' = SubSeq(format, fmt, s)
      <3>1. fmt + ofs' - 1 = s /\ fmt + ofs - 1 = s - 1
        BY <1>0, SMT
      <3>2. QED
        BY <1>1, <1>4, <3>1, SameCall DEF Pending
    <2>2. fmt \in 1 .. Len(format) /\ s \in fmt .. (Len(format) + 1) /\ s <= Len(format)
      BY <1>0, <1>5, SMT
    <2>3. QED
      BY <1>2, <2>1, <2>2, TypeFacts, PartGrows DEF q
  <1>12. Typed'
    <2>1. ofs' \in Nat /\ fmt + ofs' <= Len(format) + 2
      BY <1>0, <1>5, SMT
    <2>2. CallTypes'
      BY <1>1, <1>2, <2>1, SameCall DEF CallTypes
    <2>3. QED
      BY <1>1, <1>2, <2>2, SameCall DEF Typed, Texts
  <1>13. Placed(s + 1, m + 1)'
    <2>1. From(s + 1, m + 1)'
      BY <1>1, <1>6, SameFrom
    <2>2. Scanned(s + 1, m + 1)'
      <3>1. fmt' + ofs' = s + 1
        BY <1>0, SMT
      <3>2. argi' = 1 + ArgumentOf(Directives', m + 1)
        BY <1>1, <1>4, <1>9, SameCall
      <3>3. QED
        BY <1>1, <3>1, <3>2 DEF Scanned
    <2>3. ASSUME Tracked' PROVE \E sent \in Texts : Sends(sent, m + 1)'
      <3>1. PICK sent \in Texts : Sends(sent, m)
        BY <1>1, <1>3, <2>3, SameCall DEF Placed
      <3>2. sent \o Pending' = Output[m + 1]
        <4>1. sent \o Pending = Output[m]
          BY <3>1 DEF Sends
        <4>2. sent \o (Pending \o q) = (sent \o Pending) \o q
          BY <1>7, <1>11, PiecesAssociate
        <4>3. QED
          BY <1>10, <1>11, <4>1, <4>2
      <3>3. Held' = Held
        BY <1>1 DEF Held
      <3>4. Sends(sent, m + 1)'
        BY <1>1, <3>1, <3>2, <3>3, SameCall DEF Sends
      <3>5. QED
        BY <3>4
    <2>4. ASSUME dest'.buffer, ~HasWidth' PROVE \E sent \in Texts : Fills(sent, m + 1)'
      <3>1. PICK sent \in Texts : Fills(sent, m)
        BY <1>1, <1>3, <2>4, SameCall DEF Placed
      <3>2. sent \o Pending' = Output[m + 1]
        <4>1. sent \o Pending = Output[m]
          BY <3>1 DEF Fills
        <4>2. sent \o (Pending \o q) = (sent \o Pending) \o q
          BY <1>7, <1>11, PiecesAssociate
        <4>3. QED
          BY <1>10, <1>11, <4>1, <4>2
      <3>3. Held' = Held
        BY <1>1 DEF Held
      <3>4. Fills(sent, m + 1)'
        BY <1>1, <3>1, <3>2, <3>3, SameCall DEF Fills
      <3>5. QED
        BY <3>4
    <2>5. QED
      BY <2>1, <2>2, <2>3, <2>4 DEF Placed, Texts
  <1>14. s + 1 \in 1 .. (Len(format') + 1) /\ m + 1 \in 0 .. Count'
    BY <1>1, <1>8, SameCall
  <1>15. QED
    BY <1>1, <1>12, <1>13, <1>14 DEF Inductive

\* So does the end of a segment.
LEMMA SegmentKeeps ==
  ASSUME Inductive, Segment
  PROVE  Inductive'
  <1>1. /\ pc = "scan" /\ ~escape /\ Char \in {"%", End} /\ ofs' = ofs + 1
        /\ outstr' = SubSeq(format, fmt, fmt + ofs - 1) /\ c' = Char
        /\ escape' = TRUE /\ lpref' = 0 /\ width' = 0 /\ pc' = "flush"
        /\ UNCHANGED call
        /\ UNCHANGED <<fmt, w, n, written, argi, out, failures, ret, nul>>
    BY DEF Segment, call
  <1>2. Typed /\ CallTypes /\ args \in Arguments /\ Active
    BY <1>1 DEF Inductive, Typed, Active
  <1>3. PICK s \in 1 .. (Len(format) + 1), m \in 0 .. Count : Placed(s, m)
    BY <1>2 DEF Inductive
  <1>4. From(s, m) /\ fmt + ofs = s /\ argi = 1 + ArgumentOf(Directives, m)
    BY <1>1, <1>3 DEF Placed, Scanned
  <1>0. /\ fmt \in Nat /\ ofs \in Nat /\ fmt >= 1 /\ Len(format) \in Nat /\ fmt <= Len(format) + 1
        /\ ofs' = ofs + 1 /\ fmt' = fmt /\ fmt + ofs = s
    BY <1>1, <1>2, <1>4, TypeFacts
  <1>5. outstr' = SubSeq(format, fmt, s - 1)
    <2>1. fmt + ofs - 1 = s - 1
      BY <1>0, SMT
    <2>2. QED
      BY <1>1, <2>1
  <1>6. outstr' \in Texts
    <2>1. fmt \in Int /\ s - 1 \in Int /\ s - 1 <= Len(format)
      BY <1>0, SMT
    <2>2. QED
      BY <1>0, <1>2, <1>5, <2>1, TypeFacts, PartOfFormat DEF Texts
  <1>7. Pending = outstr' /\ Pending' = outstr'
    <2>1. Pending = outstr'
      BY <1>1 DEF Pending
    <2> DEFINE k == 0 - Len(outstr')
    <2>2. k \in Int /\ k <= 0
      BY <1>6, LenProperties, SMT DEF Texts
    <2>3. Pending' = Blanks(k) \o outstr'
      BY <1>1 DEF Pending
    <2> HIDE DEF k
    <2>4. Blanks(k) = << >>
      BY <2>2, BlanksFacts
    <2>5. << >> \o outstr' = outstr'
      BY <1>6, ConcatEmptySeq DEF Texts
    <2>6. QED
      BY <2>1, <2>3, <2>4, <2>5
  <1>8. Typed'
    <2>1. ofs' \in Nat /\ fmt + ofs' <= Len(format) + 2
      BY <1>0, SMT
    <2>2. CallTypes'
      BY <1>1, <1>2, <2>1, SameCall DEF CallTypes
    <2>3. QED
      BY <1>1, <1>2, <1>6, <2>2, SameCall DEF Typed
  <1>9. Placed(s, m)'
    <2>1. From(s, m)'
      BY <1>1, <1>4, SameFrom
    <2>2. Scanned(s, m)'
      <3>1. fmt' + ofs' = s + 1
        BY <1>0, SMT
      <3>2. argi' = 1 + ArgumentOf(Directives', m)
        BY <1>1, <1>4, SameCall
      <3>3. c' = At(s)' /\ c' \in {"%", End}
        BY <1>1, <1>4, SameFrom DEF Char
      <3>4. QED
        BY <1>1, <3>1, <3>2, <3>3 DEF Scanned
    <2>3. Held' = Held
      BY <1>1 DEF Held
    <2>4. ASSUME Tracked' PROVE \E sent \in Texts : Sends(sent, m)'
      <3>1. PICK sent \in Texts : Sends(sent, m)
        BY <1>1, <1>3, <2>4, SameCall DEF Placed
      <3>2. Sends(sent, m)'
        BY <1>1, <1>7, <2>3, <3>1, SameCall DEF Sends
      <3>3. QED
        BY <3>2
    <2>5. ASSUME dest'.buffer, ~HasWidth' PROVE \E sent \in Texts : Fills(sent, m)'
      <3>1. PICK sent \in Texts : Fills(sent, m)
        BY <1>1, <1>3, <2>5, SameCall DEF Placed
      <3>2. Fills(sent, m)'
        BY <1>1, <1>7, <2>3, <3>1, SameCall DEF Fills
      <3>3. QED
        BY <3>2
    <2>6. QED
      BY <2>1, <2>2, <2>4, <2>5 DEF Placed, Texts
  <1>10. s \in 1 .. (Len(format') + 1) /\ m \in 0 .. Count'
    BY <1>1, SameCall
  <1>11. QED
    BY <1>1, <1>8, <1>9, <1>10 DEF Inductive

\* The directive that is being read: its digits go up to j.
InsideTo(s, j) ==
  /\ s \in 1 .. Len(format) /\ format[s] = "%"
  /\ j \in (s + 1) .. (Len(format) + 1) /\ fmt \in (s + 1) .. j /\ ofs = 0
  /\ Behind = At(j) /\ Behind \notin Digit
  /\ Width = SubSeq(format, fmt, j - 1) /\ DigitsAt(fmt, j - 1) /\ WidthAt(s, j, fmt)
  /\ ofs + Len(Width) + 1 = j - fmt + 1
  /\ \A k \in (s + 1) .. (j - 1) : format[k] \notin Conversion \cup {"%"}
  /\ Level(s, fmt - 1) = MinOf(lpref, 2)

\* Inside a directive there is such a j.
LEMMA InsideReads ==
  ASSUME CallTypes, NEW s \in 1 .. (Len(format) + 1), Inside(s)
  PROVE  \E j \in 1 .. (Len(format) + 1) : InsideTo(s, j)
  <1>0. /\ FormatOK /\ Len(format) \in Nat /\ fmt \in Nat /\ ofs = 0 /\ fmt >= 1
        /\ fmt <= Len(format) + 1 /\ s < fmt /\ s \in Nat /\ s >= 1 /\ fmt + ofs = fmt
    <2>1. ofs = 0 /\ s < fmt
      BY DEF Inside
    <2>2. FormatOK /\ Len(format) \in Nat /\ fmt \in Nat /\ fmt >= 1 /\ fmt <= Len(format) + 1
      BY TypeFacts
    <2>3. s \in Nat /\ s >= 1
      BY <2>2, SMT
    <2>4. QED
      BY <2>1, <2>2, <2>3
  <1>1. fmt + ofs \in 1 .. (Len(format) + 1) /\ ofs \in Nat
    BY <1>0, SMT
  <1>2. PICK k \in Nat : /\ fmt + ofs + k <= Len(format) + 1
                         /\ Width = SubSeq(format, fmt + ofs, fmt + ofs + k - 1)
                         /\ Len(Width) = k
                         /\ Behind = At(fmt + ofs + k) /\ Behind \notin Digit
                         /\ DigitsAt(fmt + ofs, fmt + ofs + k - 1)
    BY <1>0, <1>1, WidthFacts
  <1> DEFINE j == fmt + k
  <1>3. /\ j <= Len(format) + 1 /\ Width = SubSeq(format, fmt, j - 1) /\ Len(Width) = k
        /\ Behind = At(j) /\ Behind \notin Digit /\ DigitsAt(fmt, j - 1)
    BY <1>0, <1>2
  <1>4. /\ j \in (s + 1) .. (Len(format) + 1) /\ fmt \in (s + 1) .. j
        /\ j \in 1 .. (Len(format) + 1) /\ s \in 1 .. Len(format) /\ 0 + k + 1 = j - fmt + 1
    BY <1>0, <1>3, SMT
  <1>5. ofs + Len(Width) + 1 = j - fmt + 1
    BY <1>0, <1>3, <1>4
  <1>6. \A i \in (s + 1) .. (j - 1) : i \in (s + 1) .. (fmt - 1) \/ i \in fmt .. (j - 1)
    BY <1>0, <1>4, SMT
  <1> HIDE DEF j
  <1>7. \A i \in (s + 1) .. (j - 1) : format[i] \notin Conversion \cup {"%"}
    BY <1>3, <1>6, DigitIsNone DEF Inside, DigitsAt
  <1>8. WidthAt(s, j, fmt)
    BY <1>3 DEF Inside, DigitsAt, WidthAt
  <1>9. InsideTo(s, j)
    BY <1>0, <1>3, <1>4, <1>5, <1>7, <1>8 DEF Inside, InsideTo
  <1>10. QED
    BY <1>4, <1>9

\* The output of the first directives is a text.
LEMMA OutputIsText ==
  ASSUME FormatOK, args \in Arguments
  PROVE  /\ Expected \in Texts /\ Len(Expected) \in Nat /\ Expected = Output[Count]
         /\ \A i \in 0 .. Count : Output[i] \in Texts
         /\ << >> \in Texts
         /\ \A t \in Texts : t \o << >> = t /\ << >> \o t = t /\ Len(t) \in Nat
  <1>1. Count \in 0 .. Count
    BY DirectivesTyped, SMT
  <1>2. Expected = Output[Count]
    BY DEF Expected, Count
  <1>3. \A i \in 0 .. Count : Output[i] \in Texts
    BY OutputDefined DEF Texts
  <1>4. \A t \in Texts : t \o << >> = t /\ << >> \o t = t
    BY ConcatEmptySeq DEF Texts
  <1>5. \A t \in Texts : Len(t) \in Nat
    BY LenProperties DEF Texts
  <1>6. << >> \in Texts
    BY EmptySeq DEF Texts
  <1>7. QED
    BY <1>1, <1>2, <1>3, <1>4, <1>5, <1>6

\* The second % keeps the invariant: it and its digits are the next directive.
LEMMA PercentKeeps ==
  ASSUME Inductive, Percent
  PROVE  Inductive'
  <1>1. /\ pc = "scan" /\ escape /\ Behind = "%" /\ escape' = FALSE
        /\ ofs' = ofs + Len(Width) + 1
        /\ UNCHANGED call
        /\ UNCHANGED <<fmt, lpref, c, width, outstr, w, n, written, argi, pc, out, failures,
                       ret, nul>>
    BY DEF Percent, call
  <1>2. Typed /\ CallTypes /\ args \in Arguments /\ Active /\ FormatOK /\ Len(format) \in Nat /\ fmt \in Nat
    BY <1>1, TypeFacts DEF Inductive, Typed, Active
  <1>3. PICK s \in 1 .. (Len(format) + 1), m \in 0 .. Count : Placed(s, m)
    BY <1>2 DEF Inductive
  <1>4. From(s, m) /\ Inside(s) /\ argi = 1 + ArgumentOf(Directives, m)
    BY <1>1, <1>3 DEF Placed, Scanned
  <1>5. PICK j \in 1 .. (Len(format) + 1) : InsideTo(s, j)
    BY <1>2, <1>4, InsideReads
  <1>6. /\ j \in (s + 1) .. Len(format) /\ format[j] = "%" /\ j \in 1 .. Len(format)
    <2>1. At(j) = "%" /\ j \in (s + 1) .. (Len(format) + 1)
      BY <1>1, <1>5 DEF InsideTo
    <2>2. ~(j > Len(format))
      BY <1>2, <2>1, FormatFacts, EndIsNone
    <2>3. j \in (s + 1) .. Len(format) /\ j \in 1 .. Len(format)
      BY <1>2, <2>1, <2>2, SMT
    <2>4. QED
      BY <1>2, <2>1, <2>3, FormatFacts
  <1>7. /\ s \in 1 .. Len(format) /\ format[s] = "%" /\ fmt \in (s + 1) .. j /\ WidthAt(s, j, fmt)
        /\ \A k \in (s + 1) .. (j - 1) : format[k] \notin Conversion \cup {"%"}
        /\ Width = SubSeq(format, fmt, j - 1)
        /\ ofs + Len(Width) + 1 = j - fmt + 1
    BY <1>5 DEF InsideTo
  <1>8. format[j] \in Conversion \cup {"%"}
    BY <1>6
  <1>9. /\ m + 1 \in 1 .. Count /\ Directives[m + 1] = DirectiveWith(s, j, fmt)
        /\ From(j + 1, m + 1)
    BY <1>2, <1>4, <1>6, <1>7, <1>8, ReadDirective
  <1> DEFINE q == SubSeq(format, fmt, j)
  <1>10. q = Append(SubSeq(format, fmt, j - 1), "%") /\ q \in Texts
    <2>1. fmt \in 1 .. Len(format) /\ j \in fmt .. (Len(format) + 1) /\ j <= Len(format)
      BY <1>2, <1>6, <1>7, SMT
    <2>2. /\ SubSeq(format, fmt, j - 1) \in Seq(Chars)
          /\ q = SubSeq(format, fmt, j - 1) \o <<"%">>
      BY <1>2, <1>6, <2>1, PartGrows DEF Texts
    <2>3. "%" \in Chars
      BY <1>2, <1>6, FormatFacts
    <2> DEFINE r == SubSeq(format, fmt, j - 1)
    <2> HIDE DEF r, q
    <2>4. Append(r, "%") = r \o <<"%">> /\ Append(r, "%") \in Seq(Chars)
      BY <2>2, <2>3, AppendIsConcat, AppendProperties DEF r
    <2>5. QED
      BY <2>2, <2>4 DEF r, Texts
  <1>11. Directives[m + 1] = Verbatim(q)
    BY <1>6, <1>9, <1>10 DEF DirectiveWith
  <1>12. Pending = << >> /\ Pending' = q
    <2>1. fmt + ofs' - 1 = j
      <3>1. ofs' = j - fmt + 1
        BY <1>1, <1>7
      <3>2. QED
        BY <1>2, <1>6, <3>1, SMT
    <2>2. Pending' = SubSeq(format, fmt, fmt + ofs' - 1)
      BY <1>1, SameCall DEF Pending
    <2>3. QED
      BY <1>1, <2>1, <2>2 DEF Pending
  <1> HIDE DEF q
  <1>13. /\ (m + 1) - 1 = m /\ m + 1 \in 0 .. Count /\ m \in 0 .. Count
         /\ j + 1 \in 1 .. (Len(format) + 1)
    BY <1>9 DEF From
  <1>14. PieceAt(m + 1) = q /\ ArgumentOf(Directives, m + 1) = ArgumentOf(Directives, m)
    BY <1>2, <1>9, <1>10, <1>11, <1>13, VerbatimPiece DEF Texts
  <1>15. Output[m + 1] = Output[m] \o q
    BY <1>2, <1>9, <1>13, <1>14, OutputDefined
  <1>16. ofs' \in Nat /\ fmt' + ofs' = j + 1
    <2>1. ofs' = j - fmt + 1 /\ fmt' = fmt
      BY <1>1, <1>7
    <2>2. QED
      BY <1>2, <1>6, <1>7, <2>1, SMT
  <1>17. Typed'
    <2>1. fmt' + ofs' <= Len(format) + 2
      BY <1>2, <1>6, <1>16, SMT
    <2>2. CallTypes'
      BY <1>1, <1>2, <1>16, <2>1, SameCall DEF CallTypes
    <2>3. QED
      BY <1>1, <1>2, <2>2, SameCall DEF Typed
  <1>18. Placed(j + 1, m + 1)'
    <2>1. From(j + 1, m + 1)'
      BY <1>1, <1>9, SameFrom
    <2>2. Scanned(j + 1, m + 1)'
      <3>1. argi' = 1 + ArgumentOf(Directives', m + 1)
        BY <1>1, <1>4, <1>14, SameCall
      <3>2. QED
        BY <1>1, <1>16, <3>1 DEF Scanned
    <2>3. Held' = Held
      BY <1>1 DEF Held
    <2>4. ASSUME NEW sent \in Texts, sent \o Pending = Output[m]
          PROVE  sent \o Pending' = Output'[m + 1]
      <3>1. sent = Output[m]
        BY <1>2, <1>12, <2>4, OutputIsText
      <3>2. QED
        BY <1>1, <1>12, <1>15, <3>1, SameCall
    <2>5. ASSUME Tracked' PROVE \E sent \in Texts : Sends(sent, m + 1)'
      <3>1. PICK sent \in Texts : Sends(sent, m)
        BY <1>1, <1>3, <2>5, SameCall DEF Placed
      <3>2. sent \o Pending' = Output'[m + 1]
        BY <2>4, <3>1 DEF Sends
      <3>3. Sends(sent, m + 1)'
        BY <1>1, <2>3, <3>1, <3>2, SameCall DEF Sends
      <3>4. QED
        BY <3>3
    <2>6. ASSUME dest'.buffer, ~HasWidth' PROVE \E sent \in Texts : Fills(sent, m + 1)'
      <3>1. PICK sent \in Texts : Fills(sent, m)
        BY <1>1, <1>3, <2>6, SameCall DEF Placed
      <3>2. sent \o Pending' = Output'[m + 1]
        BY <2>4, <3>1 DEF Fills
      <3>3. Fills(sent, m + 1)'
        BY <1>1, <2>3, <3>1, <3>2, SameCall DEF Fills
      <3>4. QED
        BY <3>3
    <2>7. QED
      BY <2>1, <2>2, <2>5, <2>6 DEF Placed, Texts
  <1>19. j + 1 \in 1 .. (Len(format') + 1) /\ m + 1 \in 0 .. Count'
    BY <1>1, <1>13, SameCall
  <1>20. QED
    BY <1>1, <1>17, <1>18, <1>19 DEF Inductive

\* A call that returns when all of the output was sent.
LEMMA CallEnds ==
  ASSUME Typed, UNCHANGED call, nul' = Terminator(ret'), out' \in Texts, (failures' = 0 => failures = 0),
         Tracked => /\ NotBlank(out') = NotBlank(Expected) /\ ret' = Len(out')
                    /\ failures' = 0 => out' = Expected,
         dest.buffer /\ ~HasWidth =>
           /\ ret' = Len(Expected)
           /\ out' = SubSeq(Expected, 1, MinOf(dest.size, Len(Expected)))
  PROVE  Ended'
  <1>1. FormatOK /\ args \in Arguments
    BY TypeFacts DEF Typed
  <1>2. Expected \in Texts /\ << >> \in Texts /\ Expected = Expected \o << >>
    BY <1>1, OutputIsText
  <1>3. (nul = Terminator(ret))'
    BY SameCall DEF Terminator
  <1>4. ASSUME Tracked
        PROVE  /\ \E sent, rest \in Texts : Expected' = sent \o rest /\ NotBlank(out') = NotBlank(sent)
               /\ ret' <= Len(out') /\ (failures' = 0 => out' = Expected' /\ ret' = Len(out'))
    <2>1. ret' = Len(out') /\ Len(out') \in Nat
      BY <1>1, <1>4, OutputIsText
    <2>2. ret' <= Len(out')
      BY <2>1, SMT
    <2>3. \E sent, rest \in Texts : Expected = sent \o rest /\ NotBlank(out') = NotBlank(sent)
      BY <1>2, <1>4
    <2>4. QED
      BY <1>4, <2>1, <2>2, <2>3, SameCall
  <1>5. (dest.buffer /\ ~HasWidth =>
           /\ ret = Len(Expected)
           /\ out = SubSeq(Expected, 1, MinOf(dest.size, Len(Expected))))'
    BY SameCall
  <1>6. (Tracked => \E sent, rest \in Texts :
           /\ Expected = sent \o rest /\ NotBlank(out) = NotBlank(sent)
           /\ ret <= Len(out)
           /\ failures = 0 => out = Expected /\ ret = Len(out))'
    BY <1>4, SameCall DEF Texts
  <1>7. QED
    BY <1>3, <1>5, <1>6 DEF Ended

\* A modifier that is read: the next one is looked for behind it.
LEMMA ModifierGoesOn ==
  ASSUME CallTypes, NEW s \in 1 .. (Len(format) + 1), NEW j \in 1 .. (Len(format) + 1), InsideTo(s, j),
         Behind \notin Conversion \cup {"%"}, Behind # End,
         lpref' = CASE Behind = "l" -> lpref + 1 [] Behind = "j" -> 2 [] OTHER -> lpref
  PROVE  /\ j \in 1 .. Len(format) /\ s < j + 1
         /\ \A k \in (s + 1) .. ((j + 1) - 1) : format[k] \notin Conversion \cup {"%"}
         /\ format[(j + 1) - 1] \notin Digit
         /\ Level(s, (j + 1) - 1) = MinOf(lpref', 2)
  <1>0. FormatOK /\ Len(format) \in Nat /\ lpref \in Nat
    BY TypeFacts
  <1>1. /\ s \in 1 .. Len(format) /\ j \in (s + 1) .. (Len(format) + 1) /\ fmt \in (s + 1) .. j
        /\ DigitsAt(fmt, j - 1) /\ Behind = At(j) /\ Behind \notin Digit
        /\ \A k \in (s + 1) .. (j - 1) : format[k] \notin Conversion \cup {"%"}
        /\ Level(s, fmt - 1) = MinOf(lpref, 2)
    BY DEF InsideTo
  <1>2. j \in 1 .. Len(format) /\ Behind = format[j]
    <2>1. ~(j > Len(format)) /\ j \in Nat
      BY <1>0, <1>1, FormatFacts, SMT
    <2>2. j \in 1 .. Len(format)
      BY <1>0, <2>1, SMT
    <2>3. QED
      BY <1>0, <1>1, <2>2, FormatFacts
  <1>3. s \in Nat /\ fmt \in Nat /\ j \in Nat /\ s < fmt /\ fmt <= j /\ s < j + 1 /\ (j + 1) - 1 = j
    BY <1>0, <1>1, SMT
  <1>4. Level(s, j) = IF format[j] = "l" THEN MinOf(Level(s, fmt - 1) + 1, 2)
                      ELSE IF format[j] = "j" THEN 2 ELSE Level(s, fmt - 1)
    BY <1>1, <1>3, LevelGoesOn
  <1>5. Level(s, j) = MinOf(lpref', 2)
    <2>1. CASE Behind = "l"
      <3>1. lpref' = lpref + 1 /\ Level(s, j) = MinOf(MinOf(lpref, 2) + 1, 2)
        BY <1>1, <1>2, <1>4, <2>1
      <3>2. MinOf(MinOf(lpref, 2) + 1, 2) = MinOf(lpref + 1, 2)
        BY <1>0, SMT DEF MinOf
      <3>3. QED
        BY <3>1, <3>2
    <2>2. CASE Behind = "j"
      <3>1. lpref' = 2 /\ Level(s, j) = 2
        BY <1>1, <1>2, <1>4, <2>2
      <3>2. MinOf(2, 2) = 2
        BY DEF MinOf
      <3>3. QED
        BY <3>1, <3>2
    <2>3. CASE Behind # "l" /\ Behind # "j"
      BY <1>1, <1>2, <1>4, <2>3
    <2>4. QED
      BY <2>1, <2>2, <2>3
  <1>6. \A k \in (s + 1) .. j : k \in (s + 1) .. (j - 1) \/ k = j
    BY <1>3, SMT
  <1>7. QED
    BY <1>1, <1>2, <1>3, <1>5, <1>6

\* A modifier keeps the invariant, and so does the end of the format in a directive.
LEMMA ModifierKeeps ==
  ASSUME Inductive, Modifier
  PROVE  Inductive'
  <1>1. /\ pc = "scan" /\ escape /\ Behind \notin Conversion \cup {"%"}
        /\ lpref' = CASE Behind = "l" -> lpref + 1 [] Behind = "j" -> 2 [] OTHER -> lpref
        /\ UNCHANGED call
        /\ UNCHANGED <<escape, c, width, outstr, w, n, written, argi, out, failures>>
    BY DEF Modifier, call
  <1>2. /\ Behind = End =>
             pc' = "done" /\ ret' = written' /\ nul' = Terminator(ret') /\ UNCHANGED <<fmt, ofs>>
        /\ Behind # End =>
             pc' = "scan" /\ fmt' = fmt + (ofs + Len(Width) + 1) /\ ofs' = 0 /\ UNCHANGED <<ret, nul>>
    BY DEF Modifier, Proceed, Return
  <1>3. Typed /\ CallTypes /\ args \in Arguments /\ Active /\ FormatOK /\ Len(format) \in Nat /\ fmt \in Nat
        /\ lpref \in Nat /\ written \in Nat /\ dest \in Dest /\ fmt >= 1
    BY <1>1, TypeFacts DEF Inductive, Typed, Active, CallTypes
  <1>4. PICK s \in 1 .. (Len(format) + 1), m \in 0 .. Count : Placed(s, m)
    BY <1>3 DEF Inductive
  <1>5. From(s, m) /\ Inside(s) /\ argi = 1 + ArgumentOf(Directives, m)
    BY <1>1, <1>4 DEF Placed, Scanned
  <1>6. PICK j \in 1 .. (Len(format) + 1) : InsideTo(s, j)
    BY <1>3, <1>5, InsideReads
  <1>7. /\ s \in 1 .. Len(format) /\ format[s] = "%" /\ fmt \in (s + 1) .. j
        /\ \A k \in (s + 1) .. (j - 1) : format[k] \notin Conversion \cup {"%"}
        /\ ofs + Len(Width) + 1 = j - fmt + 1 /\ Behind = At(j)
    BY <1>6 DEF InsideTo
  <1>8. lpref' \in Nat
    <2>1. lpref + 1 \in Nat /\ 2 \in Nat
      BY <1>3, SMT
    <2>2. QED
      BY <1>1, <1>3, <2>1
  <1>9. Pending = << >>
    BY <1>1 DEF Pending
  <1>10. CASE Behind = End
    <2>1. m = Count
      <3>1. j = Len(format) + 1
        <4>1. j \in 1 .. Len(format) => At(j) # End
          BY <1>3, FormatFacts
        <4>2. QED
          BY <1>3, <1>7, <1>10, <4>1, SMT
      <3>2. j - 1 = Len(format)
        <4> DEFINE len == Len(format)
        <4>1. len \in Nat /\ j = len + 1
          BY <1>3, <3>1
        <4> HIDE DEF len
        <4>2. j - 1 = len
          BY <4>1, SMT
        <4>3. QED
          BY <4>2 DEF len
      <3>3. QED
        BY <1>3, <1>5, <1>7, <3>2, ReadNothing
    <2>2. CallTypes'
      <3>1. ret' \in Nat \cup {-1} /\ nul' \in Nat \cup {-1}
        BY <1>1, <1>2, <1>3, <1>10, TerminatorIsTyped
      <3>2. QED
        BY <1>1, <1>2, <1>3, <1>8, <1>10, <3>1, SameCall DEF CallTypes
    <2>3. Typed'
      BY <1>1, <1>3, <2>2, SameCall DEF Typed
    <2>4. \A sent \in Texts : sent \o Pending = Output[m] => sent = Expected
      BY <1>3, <1>9, <2>1, OutputIsText
    <2>5. Tracked => /\ NotBlank(out') = NotBlank(Expected) /\ ret' = Len(out')
                     /\ failures' = 0 => out' = Expected
      <3>1. SUFFICES ASSUME Tracked
                     PROVE  /\ NotBlank(out') = NotBlank(Expected) /\ ret' = Len(out')
                            /\ failures' = 0 => out' = Expected
        OBVIOUS
      <3>2. PICK sent \in Texts : Sends(sent, m)
        BY <1>4, <3>1 DEF Placed
      <3>3. sent = Expected
        BY <2>4, <3>2 DEF Sends
      <3>4. QED
        BY <1>1, <1>2, <1>10, <3>2, <3>3 DEF Sends
    <2>6. dest.buffer /\ ~HasWidth =>
            /\ ret' = Len(Expected)
            /\ out' = SubSeq(Expected, 1, MinOf(dest.size, Len(Expected)))
      <3>1. SUFFICES ASSUME dest.buffer, ~HasWidth
                     PROVE  /\ ret' = Len(Expected)
                            /\ out' = SubSeq(Expected, 1, MinOf(dest.size, Len(Expected)))
        OBVIOUS
      <3>2. PICK sent \in Texts : Fills(sent, m)
        BY <1>4, <3>1 DEF Placed
      <3>3. sent = Expected
        BY <2>4, <3>2 DEF Fills
      <3>4. QED
        BY <1>1, <1>2, <1>10, <3>2, <3>3 DEF Fills
    <2>7. out' \in Texts /\ nul' = Terminator(ret')
      BY <1>1, <1>2, <1>3, <1>10 DEF Typed
    <2>8. Ended'
      BY <1>1, <1>3, <2>5, <2>6, <2>7, CallEnds
    <2>9. QED
      BY <1>2, <1>10, <2>3, <2>8 DEF Inductive, Active
  <1>11. CASE Behind # End
    <2>1. /\ j \in 1 .. Len(format) /\ s < j + 1
          /\ \A k \in (s + 1) .. ((j + 1) - 1) : format[k] \notin Conversion \cup {"%"}
          /\ format[(j + 1) - 1] \notin Digit
          /\ Level(s, (j + 1) - 1) = MinOf(lpref', 2)
      BY <1>1, <1>3, <1>6, <1>11, ModifierGoesOn
    <2>2. fmt' = j + 1
      <3>1. fmt' = fmt + (j - fmt + 1)
        BY <1>2, <1>7, <1>11
      <3>2. QED
        BY <1>3, <3>1, SMT
    <2>3. pc' = "scan" /\ ofs' = 0 /\ ret' = ret /\ nul' = nul
      BY <1>2, <1>11
    <2>4. CallTypes'
      <3>1. fmt' \in 1 .. (Len(format) + 1) /\ fmt' + ofs' <= Len(format) + 2 /\ ofs' \in Nat
        BY <1>3, <2>1, <2>2, <2>3, SMT
      <3>2. QED
        BY <1>1, <1>3, <1>8, <2>3, <3>1, SameCall DEF CallTypes
    <2>5. Typed'
      BY <1>1, <1>3, <2>4, SameCall DEF Typed
    <2>6. Pending' = Pending /\ Held' = Held
      BY <1>1, <1>9, <2>3 DEF Pending, Held
    <2>7. Placed(s, m)'
      <3>1. From(s, m)'
        BY <1>1, <1>5, SameFrom
      <3>2. Inside(s)'
        <4>0. Level(s, fmt' - 1) = MinOf(lpref', 2)
          BY <2>1, <2>2
        <4>1. (Level(s, fmt - 1) = MinOf(lpref, 2))'
          BY <1>1, <4>0, SameLevel
        <4>2. QED
          BY <1>1, <1>7, <2>1, <2>2, <2>3, <4>1, SameCall, SameLevel DEF Inside
      <3>3. Scanned(s, m)'
        BY <1>1, <1>5, <2>3, <3>2, SameCall DEF Scanned
      <3>4. ASSUME Tracked' PROVE \E sent \in Texts : Sends(sent, m)'
        <4>1. PICK sent \in Texts : Sends(sent, m)
          BY <1>1, <1>4, <3>4, SameCall DEF Placed
        <4>2. Sends(sent, m)'
          BY <1>1, <2>3, <2>6, <4>1, SameCall DEF Sends
        <4>3. QED
          BY <4>2
      <3>5. ASSUME dest'.buffer, ~HasWidth' PROVE \E sent \in Texts : Fills(sent, m)'
        <4>1. PICK sent \in Texts : Fills(sent, m)
          BY <1>1, <1>4, <3>5, SameCall DEF Placed
        <4>2. Fills(sent, m)'
          BY <1>1, <2>3, <2>6, <4>1, SameCall DEF Fills
        <4>3. QED
          BY <4>2
      <3>6. QED
        BY <3>1, <3>3, <3>4, <3>5 DEF Placed, Texts
    <2>8. s \in 1 .. (Len(format') + 1) /\ m \in 0 .. Count'
      BY <1>1, SameCall
    <2>9. QED
      BY <2>3, <2>5, <2>7, <2>8 DEF Inductive
  <1>12. QED
    BY <1>10, <1>11

\* A conversion takes the text and the width that are its own.
LEMMA ConvertReads ==
  ASSUME Typed, ErrnoInv, Convert, NEW s \in 1 .. (Len(format) + 1), NEW m \in 0 .. Count,
         From(s, m), Inside(s), argi = 1 + ArgumentOf(Directives, m)
  PROVE  \E j \in 1 .. Len(format) :
           /\ From(j + 1, m + 1) /\ m + 1 \in 1 .. Count
           /\ fmt + (ofs + Len(Width) + 1) = j + 1 /\ ofs + Len(Width) + 1 \in Nat
           /\ (errno = CallErrno \/ ~HasErrorText => outstr' = TextAt(m + 1)) /\ outstr' \in Texts
           /\ width' = Directives[m + 1].width
           /\ argi' = 1 + ArgumentOf(Directives, m + 1) /\ argi' \in 1 .. (Len(args) + 1)
  <1>1. /\ Behind \in Conversion
        /\ outstr' = IF ~Takes(Behind) THEN ErrorText(errno)
                     ELSE IF ArgumentIs(Behind) THEN Text(Behind, args[argi])
                     ELSE <<"garbage">>
        /\ argi' = IF Takes(Behind) THEN argi + 1 ELSE argi
        /\ width' = NumberOf(Width)
    BY DEF Convert
  <1>2. /\ CallTypes /\ args \in Arguments /\ FormatOK /\ Len(format) \in Nat /\ fmt \in Nat
        /\ lpref \in Nat /\ fmt >= 1 /\ argi \in 1 .. (Len(args) + 1)
    BY TypeFacts DEF Typed, CallTypes
  <1>3. PICK j \in 1 .. (Len(format) + 1) : InsideTo(s, j)
    BY <1>2, InsideReads
  <1>4. /\ s \in 1 .. Len(format) /\ format[s] = "%" /\ fmt \in (s + 1) .. j /\ WidthAt(s, j, fmt)
        /\ DigitsAt(fmt, j - 1) /\ ofs = 0
        /\ \A k \in (s + 1) .. (j - 1) : format[k] \notin Conversion \cup {"%"}
        /\ Width = SubSeq(format, fmt, j - 1) /\ Behind = At(j)
        /\ ofs + Len(Width) + 1 = j - fmt + 1 /\ Level(s, fmt - 1) = MinOf(lpref, 2)
        /\ j \in (s + 1) .. (Len(format) + 1)
    BY <1>3 DEF InsideTo
  <1>5. j \in (s + 1) .. Len(format) /\ j \in 1 .. Len(format) /\ format[j] = Behind
    <2>1. ~(j > Len(format))
      BY <1>1, <1>2, <1>4, FormatFacts, EndIsNone
    <2>2. j \in (s + 1) .. Len(format) /\ j \in 1 .. Len(format)
      BY <1>2, <1>4, <2>1, SMT
    <2>3. QED
      BY <1>2, <1>4, <2>2, FormatFacts
  <1>6. /\ m + 1 \in 1 .. Count /\ Directives[m + 1] = DirectiveWith(s, j, fmt)
        /\ From(j + 1, m + 1)
    BY <1>1, <1>2, <1>4, <1>5, ReadDirective
  <1>7. TypeOf(Behind, Level(s, j)) = TypeOf(Behind, lpref)
    <2>1. Behind # "l" /\ Behind # "j"
      BY <1>1 DEF Conversion, Number
    <2>2. s \in Nat /\ fmt \in Nat /\ j \in Nat /\ s < fmt /\ fmt <= j
      BY <1>2, <1>4, <1>5, SMT
    <2>3. Level(s, j) = MinOf(lpref, 2)
      BY <1>4, <1>5, <2>1, <2>2, LevelGoesOn
    <2>4. /\ MinOf(lpref, 2) > 1 <=> lpref > 1
          /\ MinOf(lpref, 2) = 1 <=> lpref = 1
      BY <1>2, SMT DEF MinOf
    <2>5. QED
      BY <2>3, <2>4 DEF TypeOf
  <1> DEFINE d == Directives[m + 1]
             i == ArgumentOf(Directives, m + 1)
  <1>8. /\ d.conv = Behind /\ d.width = NumberOf(Width)
        /\ d.type = IF Behind = "s" THEN "str" ELSE TypeOf(Behind, lpref)
    <2>1. Behind # "%"
      BY <1>1 DEF Conversion, Number
    <2>2. d = [conv |-> Behind, text |-> << >>, width |-> NumberOf(Width),
               type |-> IF Behind = "s" THEN "str" ELSE TypeOf(Behind, lpref)]
      BY <1>4, <1>5, <1>6, <1>7, <2>1 DEF DirectiveWith
    <2> HIDE DEF d
    <2>3. QED
      BY <2>2
  <1>9. /\ m \in 0 .. Count /\ (m + 1) - 1 = m /\ ArgumentOf(Directives, m) \in Nat
        /\ i = ArgumentOf(Directives, m) + (IF Takes(d.conv) THEN 1 ELSE 0)
    <2>1. (m + 1) - 1 = m /\ m \in 0 .. Count
      BY <1>6, DirectivesTyped, SMT
    <2>2. ArgumentOf(Directives, m) \in Nat
      BY <1>2, <2>1, ArgumentCount
    <2>3. i = ArgumentOf(Directives, (m + 1) - 1) + (IF Takes(d.conv) THEN 1 ELSE 0)
      BY <1>2, <1>6, ArgumentCount
    <2>4. QED
      BY <2>1, <2>2, <2>3
  <1>10. Takes(d.conv) => i \in 1 .. Len(args) /\ args[i].type = d.type
    BY <1>2, <1>6, ArgumentsFacts
  <1>11. TextAt(m + 1) = IF d.conv = None THEN d.text
                         ELSE IF Takes(d.conv) THEN Text(d.conv, args[i]) ELSE ErrorText(CallErrno)
    BY DEF TextAt
  <1>12. m + 1 \in DOMAIN Directives /\ (Behind = "m" => HasErrorText)
    <2>1. m + 1 \in DOMAIN Directives
      BY <1>2, <1>6, DirectivesTyped
    <2>2. QED
      BY <1>8, <2>1 DEF HasErrorText
  <1> HIDE DEF d, i
  <1>0. Behind # None
    BY <1>1, NoneIsNone
  <1>13. ASSUME Takes(Behind)
         PROVE  outstr' = TextAt(m + 1) /\ argi' = 1 + i /\ argi' \in 1 .. (Len(args) + 1)
    <2>1. i = argi /\ argi \in Nat /\ argi + 1 = 1 + i
      BY <1>8, <1>9, <1>13, SMT
    <2>2. ArgumentIs(Behind)
      <3>1. argi <= Len(args) /\ args[argi].type = d.type
        <4>1. i \in 1 .. Len(args) /\ args[i].type = d.type /\ Len(args) \in Nat
          BY <1>2, <1>8, <1>10, <1>13, ArgumentsFacts
        <4>2. i <= Len(args)
          BY <4>1, SMT
        <4>3. QED
          BY <2>1, <4>1, <4>2
      <3>2. QED
        BY <1>8, <3>1 DEF ArgumentIs
    <2>3. outstr' = TextAt(m + 1)
      BY <1>0, <1>1, <1>8, <1>11, <1>13, <2>1, <2>2
    <2>4. argi' = 1 + i /\ argi' \in 1 .. (Len(args) + 1)
      <3>1. i \in 1 .. Len(args) /\ Len(args) \in Nat
        BY <1>2, <1>8, <1>10, <1>13, ArgumentsFacts
      <3>2. 1 + i \in 1 .. (Len(args) + 1)
        BY <3>1, SMT
      <3>3. QED
        BY <1>1, <1>13, <2>1, <3>2
    <2>5. QED
      BY <2>3, <2>4
  <1>14. ASSUME ~Takes(Behind)
         PROVE  /\ errno = CallErrno \/ ~HasErrorText => outstr' = TextAt(m + 1)
                /\ outstr' \in Texts
                /\ argi' = 1 + i /\ argi' \in 1 .. (Len(args) + 1)
    <2>1. Behind = "m" /\ HasErrorText
      BY <1>1, <1>12, <1>14 DEF Takes, Conversion
    <2>2. outstr' = ErrorText(errno) /\ errno \in Nat
      BY <1>1, <1>14, PrintfAssumption DEF ErrnoInv
    <2>3. errno = CallErrno => outstr' = TextAt(m + 1)
      BY <1>0, <1>8, <1>11, <1>14, <2>2
    <2>4. outstr' \in Texts
      BY <2>2, ErrorTextIsText DEF Texts
    <2>5. argi' = 1 + i
      BY <1>1, <1>8, <1>9, <1>14
    <2>6. QED
      BY <1>1, <1>2, <1>14, <2>1, <2>3, <2>4, <2>5
  <1>15. /\ fmt + (ofs + Len(Width) + 1) = j + 1 /\ ofs + Len(Width) + 1 \in Nat
    <2>1. fmt + (j - fmt + 1) = j + 1 /\ j - fmt + 1 \in Nat
      BY <1>2, <1>4, SMT
    <2>2. QED
      BY <1>4, <2>1
  <1>16. width' = Directives[m + 1].width
    BY <1>1, <1>8 DEF d
  <1>17. /\ (errno = CallErrno \/ ~HasErrorText => outstr' = TextAt(m + 1)) /\ outstr' \in Texts
         /\ argi' = 1 + ArgumentOf(Directives, m + 1) /\ argi' \in 1 .. (Len(args) + 1)
    <2>1. TextAt(m + 1) \in Texts
      BY <1>2, <1>6, TextAtIsText DEF Texts
    <2>2. QED
      BY <1>13, <1>14, <2>1 DEF i
  <1>18. QED
    BY <1>5, <1>6, <1>15, <1>16, <1>17

\* A conversion keeps the invariant.
LEMMA ConvertKeeps ==
  ASSUME Inductive, ErrnoInv, Convert
  PROVE  Inductive'
  <1>1. /\ pc = "scan" /\ escape /\ Behind \in Conversion /\ c' = Behind
        /\ ofs' = ofs + Len(Width) + 1 /\ escape' = FALSE /\ pc' = "flush"
        /\ UNCHANGED call
        /\ UNCHANGED <<fmt, lpref, w, n, written, out, failures, ret, nul>>
    BY DEF Convert, call
  <1>2. /\ Typed /\ CallTypes /\ args \in Arguments /\ Active
        /\ FormatOK /\ Len(format) \in Nat /\ fmt \in Nat
        /\ ~HasWidth => width = 0
    BY <1>1, TypeFacts DEF Inductive, Typed, Active
  <1>3. PICK s \in 1 .. (Len(format) + 1), m \in 0 .. Count : Placed(s, m)
    BY <1>2 DEF Inductive
  <1>4. From(s, m) /\ Inside(s) /\ argi = 1 + ArgumentOf(Directives, m)
    BY <1>1, <1>3 DEF Placed, Scanned
  <1>5. PICK j \in 1 .. Len(format) :
           /\ From(j + 1, m + 1) /\ m + 1 \in 1 .. Count
           /\ fmt + (ofs + Len(Width) + 1) = j + 1 /\ ofs + Len(Width) + 1 \in Nat
           /\ (errno = CallErrno \/ ~HasErrorText => outstr' = TextAt(m + 1)) /\ outstr' \in Texts
           /\ width' = Directives[m + 1].width
           /\ argi' = 1 + ArgumentOf(Directives, m + 1) /\ argi' \in 1 .. (Len(args) + 1)
    BY <1>2, <1>4, ConvertReads
  <1>6. /\ m + 1 \in 0 .. Count /\ m \in 0 .. Count /\ (m + 1) - 1 = m
        /\ j + 1 \in 1 .. (Len(format) + 1)
        /\ fmt' + ofs' = j + 1 /\ ofs' \in Nat
    <2>1. m + 1 \in 0 .. Count /\ (m + 1) - 1 = m
      BY <1>5, DirectivesTyped, SMT
    <2>2. fmt' + ofs' = j + 1 /\ ofs' \in Nat
      BY <1>1, <1>5
    <2>3. QED
      BY <1>5, <2>1, <2>2 DEF From
  <1>7. outstr' \in Texts /\ width' \in Nat /\ (~HasWidth => width' = 0)
    <2>1. outstr' \in Texts
      BY <1>5
    <2>2. Directives[m + 1] \in Directive /\ m + 1 \in DOMAIN Directives
      BY <1>2, <1>5, DirectivesTyped
    <2>3. width' \in Nat
      BY <1>5, <2>2, DirectiveConv
    <2>4. ~HasWidth => ~(width' > 0)
      BY <1>5, <2>2 DEF HasWidth
    <2>5. QED
      BY <2>1, <2>3, <2>4, SMT
  <1>0. Tracked \/ dest.buffer => outstr' = TextAt(m + 1)
    <2>1. dest.buffer => failures = 0
      BY <1>2 DEF Typed
    <2>2. failures \in Nat
      BY <1>2, PrintfAssumption, SMT DEF CallTypes
    <2>3. failures > 0 => HasWidth
      BY <1>1 DEF ErrnoInv
    <2>4. Tracked => errno = CallErrno \/ ~HasErrorText
      BY <2>2, <2>3, SMT DEF Tracked, ErrnoInv
    <2>5. QED
      BY <1>5, <2>1, <2>4 DEF ErrnoInv
  <1>8. Pending = << >> /\ (Tracked \/ dest.buffer => Output[m + 1] = Output[m] \o Pending')
    <2>1. Pending = << >>
      BY <1>1 DEF Pending
    <2>2. Tracked \/ dest.buffer => Pending' = PieceAt(m + 1)
      BY <1>0, <1>1, <1>5 DEF Pending, PieceAt
    <2>3. Output[m + 1] = Output[(m + 1) - 1] \o PieceAt(m + 1)
      BY <1>2, <1>5, OutputDefined
    <2>4. QED
      BY <1>6, <2>1, <2>2, <2>3
  <1>9. Typed'
    <2>1. fmt' + ofs' <= Len(format) + 2
      BY <1>2, <1>6, SMT
    <2>2. CallTypes'
      BY <1>1, <1>2, <1>5, <1>6, <1>7, <2>1, SameCall DEF CallTypes
    <2>3. QED
      BY <1>1, <1>2, <1>7, <2>2, SameCall DEF Typed
  <1>10. Placed(j + 1, m + 1)'
    <2>1. From(j + 1, m + 1)'
      BY <1>1, <1>5, SameFrom
    <2>2. Scanned(j + 1, m + 1)'
      <3>1. argi' = 1 + ArgumentOf(Directives', m + 1)
        BY <1>1, <1>5, SameCall
      <3>2. c' # End
        BY <1>1, EndIsNone
      <3>3. QED
        BY <1>1, <1>6, <3>1, <3>2 DEF Scanned
    <2>3. Held' = Held
      BY <1>1 DEF Held
    <2>4. ASSUME Tracked \/ dest.buffer, NEW sent \in Texts, sent \o Pending = Output[m]
          PROVE  sent \o Pending' = Output'[m + 1]
      <3>1. sent = Output[m]
        BY <1>2, <1>8, <2>4, OutputIsText
      <3>2. QED
        BY <1>1, <1>8, <2>4, <3>1, SameCall
    <2>5. ASSUME Tracked' PROVE \E sent \in Texts : Sends(sent, m + 1)'
      <3>1. PICK sent \in Texts : Sends(sent, m)
        BY <1>1, <1>3, <2>5, SameCall DEF Placed
      <3>2. sent \o Pending' = Output'[m + 1]
        BY <1>1, <2>4, <2>5, <3>1, SameCall DEF Sends
      <3>3. Sends(sent, m + 1)'
        BY <1>1, <2>3, <3>1, <3>2, SameCall DEF Sends
      <3>4. QED
        BY <3>3
    <2>6. ASSUME dest'.buffer, ~HasWidth' PROVE \E sent \in Texts : Fills(sent, m + 1)'
      <3>1. PICK sent \in Texts : Fills(sent, m)
        BY <1>1, <1>3, <2>6, SameCall DEF Placed
      <3>2. sent \o Pending' = Output'[m + 1]
        BY <1>1, <2>4, <2>6, <3>1, SameCall DEF Fills
      <3>3. Fills(sent, m + 1)'
        BY <1>1, <2>3, <3>1, <3>2, SameCall DEF Fills
      <3>4. QED
        BY <3>3
    <2>7. QED
      BY <2>1, <2>2, <2>5, <2>6 DEF Placed, Texts
  <1>11. j + 1 \in 1 .. (Len(format') + 1) /\ m + 1 \in 0 .. Count'
    BY <1>1, <1>6, SameCall
  <1>12. QED
    BY <1>1, <1>9, <1>10, <1>11 DEF Inductive

\* The scan goes on behind a segment or a conversion.
LEMMA ScanGoesOn ==
  ASSUME Typed, UNCHANGED call, UNCHANGED <<escape, lpref, argi>>, pc # "scan",
         NEW s \in 1 .. (Len(format) + 1), NEW m \in 0 .. Count, From(s, m), Scanned(s, m),
         c # End, pc' = "scan", fmt' = fmt + ofs, ofs' = 0
  PROVE  /\ fmt' \in 1 .. (Len(format) + 1) /\ Scanned(s, m)' /\ Pending' = << >>
  <1>1. /\ FormatOK /\ Len(format) \in Nat /\ fmt \in Nat /\ ofs \in Nat /\ lpref \in Nat
        /\ escape \in BOOLEAN
    BY TypeFacts DEF Typed
  <1>2. argi' = 1 + ArgumentOf(Directives', m)
    BY SameCall DEF Scanned
  <1>3. ASSUME ~escape
        PROVE  fmt' \in 1 .. (Len(format) + 1) /\ Scanned(s, m)' /\ Pending' = << >>
    <2>1. fmt' = s
      BY <1>3 DEF Scanned
    <2>2. fmt' + ofs' = s
      BY <2>1, SMT
    <2>3. Scanned(s, m)'
      BY <1>2, <1>3, <2>2, SMT DEF Scanned
    <2>4. Pending' = SubSeq(format, s, s + 0 - 1)
      BY <1>3, <2>1, SameCall DEF Pending
    <2>5. s \in Int /\ s + 0 - 1 \in Int /\ s + 0 - 1 < s
      BY <1>1, SMT
    <2>6. SubSeq(format, s, s + 0 - 1) = << >>
      BY <2>5, SubSeqEmpty
    <2>7. QED
      BY <2>1, <2>3, <2>4, <2>6
  <1>4. ASSUME escape
        PROVE  fmt' \in 1 .. (Len(format) + 1) /\ Scanned(s, m)' /\ Pending' = << >>
    <2>1. fmt' = s + 1 /\ At(s) = "%" /\ lpref = 0
      BY <1>4 DEF Scanned
    <2>2. s <= Len(format) /\ s \in 1 .. Len(format) /\ s + 1 \in 1 .. (Len(format) + 1) /\ s < s + 1
      <3>1. ~(s > Len(format))
        BY <1>1, <2>1, FormatFacts, EndIsNone
      <3>2. QED
        BY <1>1, <3>1, SMT
    <2>3. format[s] = "%"
      BY <1>1, <2>1, <2>2, FormatFacts
    <2>4. Level(s, s) = MinOf(lpref, 2)
      <3>1. \A k \in s .. s : k = s
        BY <1>1, SMT
      <3>2. ~Has(s, s, "l") /\ ~Has(s, s, "j")
        BY <2>3, <3>1 DEF Has
      <3>3. ~Twice(s, s, "l")
        BY <3>1 DEF Twice
      <3>4. Level(s, s) = 0
        BY <3>2, <3>3 DEF Level
      <3>5. MinOf(0, 2) = 0
        BY SMT DEF MinOf
      <3>6. QED
        BY <2>1, <3>4, <3>5
    <2>5. s + 1 - 1 = s /\ \A k \in (s + 1) .. (s + 1 - 1) : FALSE
      BY <1>1, SMT
    <2>6. (Level(s, fmt - 1) = MinOf(lpref, 2))'
      <3>1. Level(s, fmt' - 1) = MinOf(lpref', 2)
        BY <2>1, <2>4, <2>5
      <3>2. QED
        BY <3>1, SameLevel DEF Level, Has, Twice, call
    <2>7. Inside(s)'
      BY <2>1, <2>2, <2>3, <2>5, <2>6, SameCall DEF Inside
    <2>8. Scanned(s, m)'
      BY <1>2, <1>4, <2>7, SMT DEF Scanned
    <2>9. Pending' = << >>
      BY <1>4 DEF Pending
    <2>10. QED
      BY <2>1, <2>2, <2>8, <2>9
  <1>5. QED
    BY <1>1, <1>3, <1>4

\* A piece is done: the scan goes on, or the call ends.
LEMMA ProceedKeeps ==
  ASSUME Typed, UNCHANGED call, UNCHANGED <<escape, lpref, c, width, outstr, w, n, argi>>,
         pc # "scan", written' \in Nat, out' \in Texts, failures' \in 0 .. MaxFailures,
         dest.buffer => failures' = 0, (failures' = 0 => failures = 0),
         NEW s \in 1 .. (Len(format) + 1), NEW m \in 0 .. Count, From(s, m), Scanned(s, m),
         Proceed(c, ofs),
         Tracked => /\ NotBlank(out') = NotBlank(Output[m]) /\ (failures' = 0 => out' = Output[m])
                    /\ written' = Len(out')
                    /\ n >= dest.size - Len(Output[m]),
         dest.buffer /\ ~HasWidth =>
           /\ written' = Len(Output[m])
           /\ out' = SubSeq(Output[m], 1, MinOf(dest.size, Len(Output[m])))
           /\ n = dest.size - Len(out')
  PROVE  Inductive'
  <1>1. /\ CallTypes /\ args \in Arguments /\ FormatOK /\ Len(format) \in Nat /\ fmt \in Nat
        /\ ofs \in Nat /\ n \in Nat /\ escape \in BOOLEAN /\ Len(format) + 2 \in Nat
    BY TypeFacts DEF Typed
  <1>2. CASE c = End
    <2>1. pc' = "done" /\ ret' = written' /\ nul' = Terminator(ret') /\ UNCHANGED <<fmt, ofs>>
      BY <1>2 DEF Proceed, Return
    <2>2. escape /\ At(s) = End
      BY <1>1, <1>2 DEF Scanned
    <2>3. s <= Len(format) => FALSE
      <3>1. s <= Len(format) => s \in 1 .. Len(format)
        BY <1>1, SMT
      <3>2. QED
        BY <1>1, <2>2, <3>1, FormatFacts
    <2>4. m = Count
      BY <1>1, <2>3, ReadNothing
    <2>5. Output[m] = Expected
      BY <1>1, <2>4, OutputIsText
    <2>6. CallTypes'
      <3>1. ret' \in Nat \cup {-1} /\ nul' \in Nat \cup {-1}
        BY <2>1, TerminatorIsTyped DEF CallTypes, Typed
      <3>2. QED
        BY <1>1, <2>1, <3>1, SameCall DEF CallTypes
    <2>7. Typed'
      BY <2>6, SameCall DEF Typed, Texts
    <2>8. Ended'
      BY <2>1, <2>5, CallEnds
    <2>9. QED
      BY <2>1, <2>7, <2>8 DEF Inductive, Active
  <1>3. CASE c # End
    <2>1. pc' = "scan" /\ fmt' = fmt + ofs /\ ofs' = 0 /\ UNCHANGED <<ret, nul>>
      BY <1>3 DEF Proceed
    <2>2. fmt' \in 1 .. (Len(format) + 1) /\ Scanned(s, m)' /\ Pending' = << >>
      BY <1>3, <2>1, ScanGoesOn
    <2>3. CallTypes'
      <3>1. ofs' \in Nat /\ fmt' + ofs' <= Len(format) + 2
        BY <1>1, <2>1, <2>2, SMT
      <3>2. QED
        BY <1>1, <2>1, <2>2, <3>1, SameCall DEF CallTypes
    <2>4. Typed'
      BY <2>3, SameCall DEF Typed, Texts
    <2>0. PICK sent \in Texts : sent = Output[m]
      BY <1>1, OutputIsText
    <2>5. sent \o Pending' = sent /\ Len(sent) \in Nat
      BY <1>1, <2>2, OutputIsText
    <2>6. Held' = 0 /\ n + 0 = n
      BY <1>1, <2>1 DEF Held
    <2>7. Placed(s, m)'
      <3>1. From(s, m)'
        BY SameFrom
      <3>2. Tracked' => Sends(sent, m)'
        BY <2>0, <2>1, <2>5, <2>6, SameCall DEF Sends
      <3>3. dest'.buffer /\ ~HasWidth' => Fills(sent, m)'
        BY <2>0, <2>1, <2>5, <2>6, SameCall DEF Fills
      <3>4. ASSUME Tracked' PROVE \E x \in Texts : Sends(x, m)'
        BY <2>5, <3>2, <3>4
      <3>5. ASSUME dest'.buffer, ~HasWidth' PROVE \E x \in Texts : Fills(x, m)'
        BY <2>5, <3>3, <3>5
      <3>6. QED
        BY <2>2, <3>1, <3>4, <3>5 DEF Placed, Texts
    <2>8. s \in 1 .. (Len(format') + 1) /\ m \in 0 .. Count'
      BY SameCall
    <2>9. QED
      BY <2>1, <2>4, <2>7, <2>8 DEF Inductive
  <1>4. QED
    BY <1>2, <1>3

\* The beginnings of texts.
LEMMA PrefixIsText ==
  ASSUME NEW t \in Texts, NEW k \in 0 .. Len(t)
  PROVE  /\ SubSeq(t, 1, k) \in Texts /\ Len(SubSeq(t, 1, k)) = k
         /\ SubSeq(t, k + 1, Len(t)) \in Texts
         /\ t = SubSeq(t, 1, k) \o SubSeq(t, k + 1, Len(t))
  <1>1. t \in Seq(Chars) /\ Len(t) \in Nat /\ \A i \in 1 .. Len(t) : t[i] \in Chars
    BY LenProperties DEF Texts
  <1>2. /\ k \in Int /\ 1 \in Int /\ k + 1 \in Int /\ Len(t) \in Int /\ k - 1 + 1 = k
        /\ \A i \in 1 .. k : i \in 1 .. Len(t)
        /\ \A i \in (k + 1) .. Len(t) : i \in 1 .. Len(t)
        /\ (IF 1 <= k THEN k - 1 + 1 ELSE 0) = k
    BY <1>1, SMT
  <1>3. SubSeq(t, 1, k) \in Seq(Chars) /\ Len(SubSeq(t, 1, k)) = IF 1 <= k THEN k - 1 + 1 ELSE 0
    <2>1. \A i \in 1 .. k : t[i] \in Chars
      BY <1>1, <1>2
    <2>2. QED
      BY <1>2, <2>1, SubSeqProperties
  <1>4. SubSeq(t, k + 1, Len(t)) \in Seq(Chars)
    <2>1. \A i \in (k + 1) .. Len(t) : t[i] \in Chars
      BY <1>1, <1>2
    <2>2. QED
      BY <1>2, <2>1, SubSeqProperties
  <1>5. SubSeq(t, 1, k) \o SubSeq(t, k + 1, Len(t)) = SubSeq(t, 1, Len(t))
    <2>1. 1 \in 1 .. (Len(t) + 1) /\ k \in (1 - 1) .. Len(t) /\ Len(t) \in k .. Len(t)
      BY <1>1, SMT
    <2>2. QED
      BY <1>1, <2>1, ConcatAdjacentSubSeq
  <1>6. SubSeq(t, 1, Len(t)) = t
    BY <1>1, SubSeqFull
  <1>7. Len(SubSeq(t, 1, k)) = k
    BY <1>2, <1>3
  <1>8. t = SubSeq(t, 1, k) \o SubSeq(t, k + 1, Len(t))
    BY <1>5, <1>6
  <1>9. QED
    BY <1>3, <1>4, <1>7, <1>8 DEF Texts

\* The beginnings of two texts that are joined.
LEMMA PrefixOfConcat ==
  ASSUME NEW a \in Texts, NEW b \in Texts
  PROVE  /\ a \o b \in Texts /\ Len(a \o b) = Len(a) + Len(b)
         /\ Len(a) \in Nat /\ Len(b) \in Nat
         /\ \A k \in 0 .. Len(a) : SubSeq(a \o b, 1, k) = SubSeq(a, 1, k)
         /\ \A k \in 0 .. Len(b) : SubSeq(a \o b, 1, Len(a) + k) = a \o SubSeq(b, 1, k)
  <1>1. a \in Seq(Chars) /\ b \in Seq(Chars) /\ Len(a) \in Nat /\ Len(b) \in Nat
    BY LenProperties DEF Texts
  <1>2. a \o b \in Seq(Chars) /\ Len(a \o b) = Len(a) + Len(b)
    BY <1>1, ConcatProperties
  <1>3. ASSUME NEW k \in 0 .. Len(a)
        PROVE  SubSeq(a \o b, 1, k) = SubSeq(a, 1, k)
    <2>1. CASE k = 0
      <3>1. 0 < 1 /\ 0 \in Int /\ 1 \in Int
        BY SMT
      <3>2. \A s : SubSeq(s, 1, 0) = << >>
        BY <3>1, SubSeqEmpty
      <3>3. QED
        BY <2>1, <3>2
    <2>2. CASE k # 0
      <3>1. k \in 1 .. Len(a) /\ 1 \in 1 .. Len(a)
        BY <1>1, <2>2, SMT
      <3>2. QED
        BY <1>1, <3>1, SubSeqOfConcat1
    <2>3. QED
      BY <2>1, <2>2
  <1>4. SubSeq(a \o b, 1, Len(a)) = a
    <2>1. Len(a) \in 0 .. Len(a)
      BY <1>1, SMT
    <2>2. QED
      BY <1>1, <1>3, <2>1, SubSeqFull
  <1>5. ASSUME NEW k \in 0 .. Len(b)
        PROVE  SubSeq(a \o b, 1, Len(a) + k) = a \o SubSeq(b, 1, k)
    <2>1. CASE k = 0
      <3>1. 0 < 1 /\ 0 \in Int /\ 1 \in Int /\ Len(a) + k = Len(a)
        BY <1>1, <2>1, SMT
      <3>2. SubSeq(b, 1, 0) = << >>
        BY <3>1, SubSeqEmpty
      <3>3. a \o << >> = a
        BY <1>1, ConcatEmptySeq
      <3>4. QED
        BY <1>4, <2>1, <3>1, <3>2, <3>3
    <2>2. CASE k # 0
      <3> DEFINE s == a \o b
                 l == Len(a)
                 r == l + k
      <3>1. s \in Seq(Chars) /\ Len(s) = l + Len(b) /\ l \in Nat
        BY <1>1, <1>2
      <3> HIDE DEF s, l
      <3>2. /\ 1 \in 1 .. (Len(s) + 1) /\ l \in (1 - 1) .. Len(s) /\ r \in l .. Len(s)
            /\ l + 1 \in (l + 1) .. (l + Len(b)) /\ r \in (l + 1) .. (l + Len(b))
            /\ l + 1 - l = 1 /\ r - l = k
        BY <1>1, <2>2, <3>1, SMT
      <3> HIDE DEF r
      <3>3. SubSeq(s, 1, l) \o SubSeq(s, l + 1, r) = SubSeq(s, 1, r)
        BY <3>1, <3>2, ConcatAdjacentSubSeq
      <3>4. SubSeq(s, l + 1, r) = SubSeq(b, l + 1 - l, r - l)
        BY <1>1, <3>2, SubSeqOfConcat2 DEF s, l
      <3>5. SubSeq(s, 1, l) = a
        BY <1>4 DEF s, l
      <3>6. QED
        BY <3>2, <3>3, <3>4, <3>5 DEF s, l, r
    <2>3. QED
      BY <2>1, <2>2
  <1>6. QED
    BY <1>1, <1>2, <1>3, <1>5 DEF Texts

\* What is left of the piece that is written.
LEMMA PieceFacts ==
  ASSUME Typed, pc \in {"flush", "pad", "text"}
  PROVE  /\ outstr \in Texts /\ Pending \in Texts /\ Len(outstr) \in Nat /\ width \in Nat
         /\ Len(Pending) >= Len(outstr)
         /\ width <= Len(outstr) \/ pc = "text" \/ ~HasWidth => Pending = outstr
         /\ pc # "text" /\ width > Len(outstr) =>
              /\ Blanks(width - 1 - Len(outstr)) \o outstr \in Texts
              /\ Pending = << Blank >> \o (Blanks(width - 1 - Len(outstr)) \o outstr)
  <1>1. outstr \in Texts /\ width \in Nat /\ (~HasWidth => width = 0) /\ Len(outstr) \in Nat
    BY LenProperties, TypeFacts DEF Typed, Texts
  <1> DEFINE k == width - Len(outstr)
  <1>2. k \in Int /\ k - 1 \in Int /\ width - 1 - Len(outstr) = k - 1
        /\ (width > Len(outstr) <=> k > 0) /\ (width <= Len(outstr) <=> k <= 0)
        /\ (width = 0 => k <= 0)
    BY <1>1, SMT
  <1>3. pc = "text" => Pending = outstr
    BY DEF Pending
  <1>4. pc # "text" => Pending = Blanks(k) \o outstr
    BY DEF Pending
  <1> HIDE DEF k
  <1>5. << >> \o outstr = outstr
    BY <1>1, ConcatEmptySeq DEF Texts
  <1>6. k <= 0 => Blanks(k) = << >>
    BY <1>2, BlanksFacts
  <1>7. Blanks(k) \in Texts /\ Blanks(k - 1) \in Texts
    BY <1>2, BlanksFacts DEF Texts
  <1>8. k > 0 => Blanks(k) = << Blank >> \o Blanks(k - 1)
    BY <1>2, BlanksFacts
  <1>9. << Blank >> \in Texts
    BY BlankIsText DEF Texts
  <1>10. << Blank >> \o (Blanks(k - 1) \o outstr) = (<< Blank >> \o Blanks(k - 1)) \o outstr
    BY <1>1, <1>7, <1>9, PiecesAssociate
  <1>11. Blanks(k - 1) \o outstr \in Texts
    BY <1>1, <1>7, PrefixOfConcat
  <1>12. Pending \in Texts /\ Len(Pending) >= Len(outstr)
    <2>1. /\ Blanks(k) \o outstr \in Texts /\ Len(Blanks(k)) \in Nat
          /\ Len(Blanks(k) \o outstr) = Len(Blanks(k)) + Len(outstr)
      BY <1>1, <1>7, PrefixOfConcat
    <2>2. Len(Blanks(k) \o outstr) >= Len(outstr) /\ Len(outstr) >= Len(outstr)
      BY <1>1, <2>1, SMT
    <2>3. QED
      BY <1>1, <1>3, <1>4, <2>1, <2>2
  <1>13. QED
    BY <1>1, <1>2, <1>3, <1>4, <1>5, <1>6, <1>8, <1>10, <1>11, <1>12

\* The output begins with what was sent and the first part of the text behind it.
LEMMA ExpectedBegins ==
  ASSUME FormatOK, args \in Arguments, NEW m \in 0 .. Count, NEW old \in Texts,
         NEW a \in Texts, NEW b \in Texts, Output[m] = old \o outstr, outstr = a \o b
  PROVE  \E sent \in Texts, rest \in Texts : sent = old \o a /\ Expected = sent \o rest
  <1>1. PICK t \in Texts : Expected = Output[m] \o t
    BY OutputBegins DEF Texts
  <1>2. PICK sent \in Texts, rest \in Texts : sent = old \o a /\ rest = b \o t
    <2>1. old \o a \in Texts /\ b \o t \in Texts
      BY ConcatIsText DEF Texts
    <2>2. QED
      BY <2>1
  <1>3. old \o (a \o b) = (old \o a) \o b
    BY PiecesAssociate, SMTT(30)
  <1>4. sent \o (b \o t) = (sent \o b) \o t
    BY PiecesAssociate, SMTT(30)
  <1>5. QED
    BY <1>1, <1>2, <1>3, <1>4

\* When there is room for everything, there is room for what was sent and is pending.
LEMMA RoomFacts ==
  ASSUME FormatOK, args \in Arguments, dest \in Dest, Tracked, NEW m \in 0 .. Count,
         NEW a \in Texts, NEW b \in Texts, a \o b = Output[m]
  PROVE  Len(a) \in Nat /\ Len(b) \in Nat /\ Len(a) + Len(b) < dest.size
  <1>1. Len(a) \in Nat /\ Len(b) \in Nat /\ Len(a \o b) = Len(a) + Len(b)
    BY PrefixOfConcat
  <1>2. PICK t \in Texts : Expected = Output[m] \o t
    BY OutputBegins DEF Texts
  <1>3. Output[m] \in Texts
    BY OutputIsText
  <1>4. Len(Expected) = Len(Output[m]) + Len(t) /\ Len(t) \in Nat
    BY <1>2, <1>3, PrefixOfConcat
  <1>5. Len(Expected) < dest.size /\ dest.size \in Nat
    BY DestFacts DEF Tracked, Fits
  <1>6. Len(a) + Len(b) + Len(t) < dest.size
    BY <1>1, <1>4, <1>5
  <1>7. QED
    BY <1>1, <1>4, <1>5, <1>6, SMT

\* A piece for which there is no room is only counted.
LEMMA SkipKeeps ==
  ASSUME Inductive, Flush, n = 0
  PROVE  Inductive'
  <1>1. /\ pc = "flush" /\ written' = written + Len(outstr) /\ Proceed(c, ofs)
        /\ UNCHANGED call
        /\ UNCHANGED <<escape, lpref, c, width, outstr, w, n, argi>>
        /\ out' = out /\ failures' = failures
    BY DEF Flush, call
  <1>2. Typed /\ CallTypes /\ args \in Arguments /\ Active /\ FormatOK /\ dest \in Dest
    BY <1>1, TypeFacts DEF Inductive, Typed, Active, CallTypes
  <1>3. PICK s \in 1 .. (Len(format) + 1), m \in 0 .. Count : Placed(s, m)
    BY <1>2 DEF Inductive
  <1>4. From(s, m) /\ Scanned(s, m)
    BY <1>3 DEF Placed
  <1>5. /\ outstr \in Texts /\ Pending \in Texts /\ Len(outstr) \in Nat
        /\ (~HasWidth => Pending = outstr) /\ Held = 0
    BY <1>1, <1>2, PieceFacts DEF Held
  <1>6. written' \in Nat /\ out' \in Texts /\ failures' \in 0 .. MaxFailures
        /\ (dest.buffer => failures' = 0) /\ pc # "scan"
    <2>1. written \in Nat /\ failures \in 0 .. MaxFailures
      BY <1>2 DEF CallTypes
    <2>2. written + Len(outstr) \in Nat
      BY <1>5, <2>1, SMT
    <2>3. QED
      BY <1>1, <1>2, <2>1, <2>2 DEF Typed
  <1>7. ~Tracked
    <2>1. SUFFICES ASSUME Tracked PROVE FALSE
      OBVIOUS
    <2>2. PICK sent \in Texts : Sends(sent, m)
      BY <1>3, <2>1 DEF Placed
    <2>3. Len(sent) \in Nat /\ Len(Pending) \in Nat /\ Len(sent) + Len(Pending) < dest.size
      BY <1>2, <1>5, <2>1, <2>2, RoomFacts DEF Sends
    <2>4. n + 0 >= dest.size - Len(sent) /\ n = 0 /\ dest.size \in Nat
      BY <1>2, <1>5, <2>2, TypeFacts DEF Sends
    <2>5. QED
      BY <2>3, <2>4, SMT
  <1>8. ASSUME dest.buffer, ~HasWidth
        PROVE  /\ written' = Len(Output[m])
               /\ out' = SubSeq(Output[m], 1, MinOf(dest.size, Len(Output[m])))
               /\ n = dest.size - Len(out')
    <2>1. PICK sent \in Texts : Fills(sent, m)
      BY <1>3, <1>8 DEF Placed
    <2>2. /\ sent \o outstr = Output[m] /\ written = Len(sent)
          /\ out = SubSeq(sent, 1, MinOf(dest.size, Len(sent)))
          /\ n + 0 = dest.size - Len(out)
      BY <1>5, <1>8, <2>1 DEF Fills
    <2>3. Len(Output[m]) = Len(sent) + Len(outstr) /\ Len(sent) \in Nat
      BY <1>5, <2>2, PrefixOfConcat
    <2>4. dest.size \in Nat /\ n = 0 /\ n \in Nat
      BY <1>2, TypeFacts
    <2>5. MinOf(dest.size, Len(sent)) \in 0 .. Len(sent)
      BY <2>3, <2>4, SMT DEF MinOf
    <2>6. Len(out) = MinOf(dest.size, Len(sent))
      BY <2>2, <2>5, PrefixIsText
    <2>7. dest.size \in 0 .. Len(sent) /\ MinOf(dest.size, Len(sent)) = dest.size
          /\ MinOf(dest.size, Len(sent) + Len(outstr)) = dest.size
      <3>1. MinOf(dest.size, Len(sent)) = dest.size
        <4> DEFINE k == MinOf(dest.size, Len(sent))
        <4>1. k \in Int /\ 0 + 0 = dest.size - k
          BY <2>2, <2>4, <2>5, <2>6
        <4> HIDE DEF k
        <4>2. k = dest.size
          BY <2>4, <4>1, SMT
        <4>3. QED
          BY <4>2 DEF k
      <3>2. QED
        BY <1>5, <2>3, <2>4, <2>5, <3>1, SMT DEF MinOf
    <2>8. SubSeq(sent \o outstr, 1, dest.size) = SubSeq(sent, 1, dest.size)
      BY <1>5, <2>7, PrefixOfConcat
    <2>9. out' = SubSeq(Output[m], 1, MinOf(dest.size, Len(Output[m])))
      BY <1>1, <2>2, <2>3, <2>7, <2>8
    <2>10. n = dest.size - Len(out')
      <3>1. n + 0 = n
        BY <2>4, SMT
      <3>2. QED
        BY <1>1, <2>2, <3>1
    <2>11. QED
      BY <1>1, <2>2, <2>3, <2>9, <2>10
  <1>9. QED
    BY <1>1, <1>2, <1>4, <1>6, <1>7, <1>8, ProceedKeeps

\* A piece for which there is some room is taken.
LEMMA TakeKeeps ==
  ASSUME Inductive, Flush, n # 0
  PROVE  Inductive'
  <1>1. /\ pc = "flush" /\ pc' = "pad"
        /\ w' = MinOf(Len(outstr), n) /\ n' = n - MinOf(Len(outstr), n)
        /\ UNCHANGED call
        /\ UNCHANGED <<fmt, ofs, escape, lpref, c, width, outstr, written, argi, out, failures,
                       ret, nul>>
    BY DEF Flush, Room, call
  <1>2. Typed /\ CallTypes /\ args \in Arguments /\ Active /\ FormatOK /\ dest \in Dest
    BY <1>1, TypeFacts DEF Inductive, Typed, Active, CallTypes
  <1>3. PICK s \in 1 .. (Len(format) + 1), m \in 0 .. Count : Placed(s, m)
    BY <1>2 DEF Inductive
  <1>4. From(s, m) /\ Scanned(s, m)
    BY <1>3 DEF Placed
  <1>5. /\ outstr \in Texts /\ Pending \in Texts /\ Len(outstr) \in Nat
        /\ Len(Pending) >= Len(outstr) /\ Held = 0
    BY <1>1, <1>2, PieceFacts DEF Held
  <1>6. Pending' = Pending /\ Held' = w'
    BY <1>1 DEF Pending, Held, Blanks
  <1>0. n \in Nat /\ n # 0 /\ dest.size \in Nat /\ n <= dest.size
    BY <1>2, TypeFacts
  <1>7. /\ w' \in Nat /\ w' <= Len(outstr) /\ n' \in 0 .. dest.size /\ n' + w' = n
        /\ w' = MinOf(Len(outstr), n)
        /\ n >= Len(outstr) => w' = Len(outstr)
    <2> DEFINE b == Len(outstr)
               k == MinOf(b, n)
    <2>1. /\ k \in Nat /\ k <= b /\ n - k \in 0 .. dest.size /\ (n - k) + k = n
          /\ n >= b => k = b
      <3> HIDE DEF b
      <3>1. b \in Nat
        BY <1>5 DEF b
      <3>2. QED
        BY <1>0, <3>1, SMT DEF MinOf
    <2> HIDE DEF k
    <2>2. w' = k /\ n' = n - k
      BY <1>1 DEF k
    <2>3. QED
      BY <2>1, <2>2 DEF k
  <1>8. Typed'
    <2>1. CallTypes'
      BY <1>1, <1>2, <1>7, SameCall DEF CallTypes
    <2>2. QED
      BY <1>1, <1>2, <2>1, SameCall DEF Typed, Texts
  <1>9. Placed(s, m)'
    <2>1. From(s, m)'
      BY <1>1, <1>4, SameFrom
    <2>2. Scanned(s, m)'
      <3>1. argi' = 1 + ArgumentOf(Directives', m)
        BY <1>1, <1>4, SameCall DEF Scanned
      <3>2. QED
        BY <1>1, <1>4, <3>1, SameFrom DEF Scanned
    <2>3. ASSUME Tracked' PROVE \E sent \in Texts : Sends(sent, m)'
      <3>1. PICK sent \in Texts : Sends(sent, m)
        BY <1>1, <1>3, <2>3, SameCall DEF Placed
      <3>2. Len(sent) \in Nat /\ Len(Pending) \in Nat /\ Len(sent) + Len(Pending) < dest.size
        BY <1>1, <1>2, <1>5, <2>3, <3>1, SameCall, RoomFacts DEF Sends
      <3>3. n + 0 >= dest.size - Len(sent)
        BY <1>5, <3>1 DEF Sends
      <3>4. n >= Len(outstr)
        BY <1>0, <1>5, <3>2, <3>3, SMT
      <3>5. n' + Held' >= dest.size - Len(sent)
        BY <1>0, <1>6, <1>7, <3>3, SMT
      <3>6. Sends(sent, m)'
        BY <1>1, <1>6, <1>7, <3>1, <3>4, <3>5, SameCall DEF Sends
      <3>7. QED
        BY <3>6
    <2>4. ASSUME dest'.buffer, ~HasWidth' PROVE \E sent \in Texts : Fills(sent, m)'
      <3>1. PICK sent \in Texts : Fills(sent, m)
        BY <1>1, <1>3, <2>4, SameCall DEF Placed
      <3>2. n + 0 = dest.size - Len(out)
        BY <1>5, <3>1 DEF Fills
      <3>3. n' + Held' = dest.size - Len(out)
        BY <1>0, <1>6, <1>7, <3>2, SMT
      <3>4. w' = MinOf(Len(outstr), n' + w') /\ n' + w' > 0
        <4>1. n > 0
          BY <1>0, SMT
        <4>2. QED
          BY <1>7, <4>1
      <3>5. Fills(sent, m)'
        BY <1>1, <1>6, <3>1, <3>3, <3>4, SameCall DEF Fills
      <3>6. QED
        BY <3>5
    <2>5. QED
      BY <2>1, <2>2, <2>3, <2>4 DEF Placed, Texts
  <1>10. s \in 1 .. (Len(format') + 1) /\ m \in 0 .. Count'
    BY <1>1, SameCall
  <1>11. QED
    BY <1>1, <1>8, <1>9, <1>10 DEF Inductive

\* The end of the padding keeps the invariant.
LEMMA PadEndsKeeps ==
  ASSUME Inductive, PadEnds
  PROVE  Inductive'
  <1>1. /\ pc = "pad" /\ width <= w /\ pc' = "text"
        /\ UNCHANGED call
        /\ UNCHANGED <<fmt, ofs, escape, lpref, c, width, outstr, w, n, written, argi, out, failures,
                       ret, nul>>
    BY DEF PadEnds, call
  <1>2. Typed /\ CallTypes /\ args \in Arguments /\ Active /\ FormatOK /\ w <= Len(outstr) /\ w \in Nat
    BY <1>1, TypeFacts DEF Inductive, Typed, Active, CallTypes
  <1>3. PICK s \in 1 .. (Len(format) + 1), m \in 0 .. Count : Placed(s, m)
    BY <1>2 DEF Inductive
  <1>4. From(s, m) /\ Scanned(s, m)
    BY <1>3 DEF Placed
  <1>5. width <= Len(outstr) /\ Pending = outstr
    <2>1. width \in Nat /\ Len(outstr) \in Nat
      BY <1>1, <1>2, PieceFacts
    <2>2. width <= Len(outstr)
      BY <1>1, <1>2, <2>1, SMT
    <2>3. QED
      BY <1>1, <1>2, <2>2, PieceFacts
  <1>6. Pending' = Pending /\ Held' = Held
    BY <1>1, <1>5 DEF Pending, Held
  <1>7. Typed'
    <2>1. CallTypes'
      BY <1>1, <1>2, SameCall DEF CallTypes
    <2>2. QED
      BY <1>1, <1>2, <2>1, SameCall DEF Typed, Texts
  <1>8. Placed(s, m)'
    <2>1. From(s, m)'
      BY <1>1, <1>4, SameFrom
    <2>2. Scanned(s, m)'
      <3>1. argi' = 1 + ArgumentOf(Directives', m)
        BY <1>1, <1>4, SameCall DEF Scanned
      <3>2. QED
        BY <1>1, <1>4, <3>1, SameFrom DEF Scanned
    <2>3. ASSUME Tracked' PROVE \E sent \in Texts : Sends(sent, m)'
      <3>1. PICK sent \in Texts : Sends(sent, m)
        BY <1>1, <1>3, <2>3, SameCall DEF Placed
      <3>2. Sends(sent, m)'
        BY <1>1, <1>6, <3>1, SameCall DEF Sends
      <3>3. QED
        BY <3>2
    <2>4. ASSUME dest'.buffer, ~HasWidth' PROVE \E sent \in Texts : Fills(sent, m)'
      <3>1. PICK sent \in Texts : Fills(sent, m)
        BY <1>1, <1>3, <2>4, SameCall DEF Placed
      <3>2. Fills(sent, m)'
        BY <1>1, <1>6, <3>1, SameCall DEF Fills
      <3>3. QED
        BY <3>2
    <2>5. QED
      BY <2>1, <2>2, <2>3, <2>4 DEF Placed, Texts
  <1>9. s \in 1 .. (Len(format') + 1) /\ m \in 0 .. Count'
    BY <1>1, SameCall
  <1>10. QED
    BY <1>1, <1>7, <1>8, <1>9 DEF Inductive

\* Blanks behind a text do not count.
LEMMA BlanksBehind ==
  ASSUME NEW t \in Texts, NEW b \in Texts, NotBlank(b) = << >>
  PROVE  NotBlank(t \o b) = NotBlank(t)
  <1>1. NotBlank(t \o b) = NotBlank(t) \o NotBlank(b)
    BY NotBlankOfConcat DEF Texts
  <1>2. NotBlank(t) \in Seq(Chars)
    BY NotBlankFacts DEF Texts
  <1>3. NotBlank(t) \o << >> = NotBlank(t)
    BY <1>2, ConcatEmptySeq
  <1>4. QED
    BY <1>1, <1>3

\* What a call is about while it pads.
LEMMA PadFacts ==
  ASSUME Inductive, pc = "pad", width > w
  PROVE  /\ Typed /\ CallTypes /\ args \in Arguments /\ FormatOK /\ dest \in Dest /\ dest.size \in Nat
         /\ w \in Nat /\ n \in Nat /\ width \in Nat /\ width - 1 \in Nat
         /\ written \in Nat /\ written + 1 \in Nat
         /\ out \in Texts /\ outstr \in Texts /\ Pending \in Texts
         /\ HasWidth /\ Active /\ Held = w
         /\ failures \in 0 .. MaxFailures /\ (dest.buffer => failures = 0)
         /\ << Blank >> \in Texts /\ Len(<< Blank >>) = 1 /\ NotBlank(<< Blank >>) = << >>
  <1>1. /\ Typed /\ CallTypes /\ args \in Arguments /\ FormatOK /\ dest \in Dest /\ dest.size \in Nat
        /\ w \in Nat /\ n \in Nat /\ width \in Nat /\ written \in Nat /\ out \in Texts
        /\ (~HasWidth => width = 0) /\ Active
        /\ failures \in 0 .. MaxFailures /\ (dest.buffer => failures = 0)
    BY TypeFacts DEF Inductive, Typed, Active, CallTypes
  <1>2. width - 1 \in Nat /\ width # 0 /\ written + 1 \in Nat
    BY <1>1, SMT
  <1>3. outstr \in Texts /\ Pending \in Texts
    BY <1>1, PieceFacts
  <1>4. << Blank >> \in Texts /\ Len(<< Blank >>) = 1 /\ NotBlank(<< Blank >>) = << >>
    BY BlankIsText, NotBlankFacts DEF Texts
  <1>5. Held = w
    BY DEF Held
  <1>6. QED
    BY <1>1, <1>2, <1>3, <1>4, <1>5

\* A blank that is written.
LEMMA BlankKeeps ==
  ASSUME Inductive, pc = "pad", width > w, Accepts(<< Blank >>),
         written' = written + 1, width' = width - 1, pc' = "pad",
         UNCHANGED call, UNCHANGED <<fmt, ofs, escape, lpref, c, outstr, w, n, argi, ret, nul>>
  PROVE  Inductive'
  <1>1. out' = out \o << Blank >> /\ failures' = failures
    BY DEF Accepts
  <1>2. PICK s \in 1 .. (Len(format) + 1), m \in 0 .. Count : Placed(s, m)
    BY PadFacts DEF Inductive
  <1>3. From(s, m) /\ Scanned(s, m)
    BY <1>2 DEF Placed
  <1>4. out' \in Texts /\ Len(out') = Len(out) + 1
    BY <1>1, PadFacts, PrefixOfConcat
  <1>5. Typed'
    <2>1. CallTypes'
      BY <1>1, PadFacts, SameCall DEF CallTypes
    <2>2. QED
      BY <1>1, <1>4, <2>1, PadFacts, SameCall DEF Typed, Texts
  <1>6. Placed(s, m)'
    <2>1. From(s, m)'
      BY <1>3, SameFrom
    <2>2. Scanned(s, m)'
      <3>1. argi' = 1 + ArgumentOf(Directives', m)
        BY <1>3, SameCall DEF Scanned
      <3>2. QED
        BY <1>3, <3>1, SameFrom DEF Scanned
    <2>3. ASSUME Tracked' PROVE \E sent \in Texts : Sends(sent, m)'
      <3>1. PICK old \in Texts : Sends(old, m)
        BY <1>1, <1>2, <2>3, SameCall DEF Placed
      <3>2. /\ old \o Pending = Output[m] /\ NotBlank(out) = NotBlank(old)
            /\ (failures = 0 => out = old) /\ written = Len(out)
            /\ n + w >= dest.size - Len(old) /\ w = Len(outstr)
        BY <3>1, PadFacts DEF Sends
      <3>3. /\ Blanks(width - 1 - Len(outstr)) \o outstr \in Texts
            /\ Pending = << Blank >> \o (Blanks(width - 1 - Len(outstr)) \o outstr)
        BY <3>2, PadFacts, PieceFacts
      <3>4. Pending' = Blanks(width - 1 - Len(outstr)) \o outstr
        BY DEF Pending, Blanks
      <3>5. PICK sent \in Texts : sent = old \o << Blank >> /\ Len(sent) = Len(old) + 1 /\ Len(old) \in Nat
        BY PadFacts, PrefixOfConcat
      <3>6. PICK b \in Texts, rest \in Texts : b = << Blank >> /\ rest = Pending' /\ Pending = b \o rest
        BY <3>3, <3>4, PadFacts
      <3>7. old \o (b \o rest) = (old \o b) \o rest
        BY PiecesAssociate
      <3>8. sent \o Pending' = Output[m]
        BY <3>2, <3>5, <3>6, <3>7
      <3>9. NotBlank(out') = NotBlank(sent)
        BY <1>1, <3>2, <3>5, PadFacts, BlanksBehind
      <3>10. n + w >= dest.size - Len(sent)
        <4>1. n \in Nat /\ w \in Nat /\ dest.size \in Nat
          BY PadFacts
        <4>2. QED
          BY <3>2, <3>5, <4>1, SMT
      <3>11. written' = Len(out')
        BY <1>4, <3>2
      <3>12. Held' = w
        BY DEF Held
      <3>13. failures' = 0 => out' = sent
        BY <1>1, <3>2, <3>5
      <3>14. Sends(sent, m)'
        BY <3>2, <3>8, <3>9, <3>10, <3>11, <3>12, <3>13, SameCall DEF Sends
      <3>15. QED
        BY <3>14
    <2>4. QED
      BY <2>1, <2>2, <2>3, PadFacts, SameCall DEF Placed, Texts
  <1>7. s \in 1 .. (Len(format') + 1) /\ m \in 0 .. Count'
    BY SameCall
  <1>8. QED
    BY <1>5, <1>6, <1>7 DEF Inductive

\* A blank for which there is no room: padding is not taken off it.
LEMMA BlankOverruns ==
  ASSUME Inductive, pc = "pad", width > w, Accepts(<< Blank >>),
         written' = written + 1, width' = width - 1, pc' = "overrun",
         dest.buffer, Len(out) = dest.size,
         UNCHANGED call, UNCHANGED <<fmt, ofs, escape, lpref, c, outstr, w, n, argi, ret, nul>>
  PROVE  Inductive'
  <1>1. out' = out \o << Blank >> /\ failures' = failures
    BY DEF Accepts
  <1>2. out' \in Texts
    BY <1>1, PadFacts, PrefixOfConcat
  <1>3. ~Fits
    <2>0. SUFFICES ASSUME Fits PROVE FALSE
      OBVIOUS
    <2>1. Tracked
      BY <2>0, PadFacts DEF Tracked
    <2>2. PICK s \in 1 .. (Len(format) + 1), m \in 0 .. Count : Placed(s, m)
      BY PadFacts DEF Inductive
    <2>3. PICK sent \in Texts : Sends(sent, m)
      BY <2>1, <2>2 DEF Placed
    <2>4. out = sent
      BY <2>3, PadFacts DEF Sends
    <2>5. Len(sent) \in Nat /\ Len(Pending) \in Nat /\ Len(sent) + Len(Pending) < dest.size
      BY <2>1, <2>3, PadFacts, RoomFacts DEF Sends
    <2>6. Len(sent) = dest.size
      BY <2>4
    <2>7. QED
      BY <2>5, <2>6, PadFacts, SMT
  <1>4. Typed'
    <2>1. CallTypes'
      BY <1>1, PadFacts, SameCall DEF CallTypes
    <2>2. QED
      BY <1>1, <1>2, <2>1, PadFacts, SameCall DEF Typed, Texts
  <1>5. HasWidth' /\ ~Fits'
    BY <1>3, PadFacts, SameCall
  <1>6. QED
    BY <1>4, <1>5 DEF Inductive, Active

\* A blank that cannot be written: what is left of the padding is dropped.
LEMMA BlankIsDropped ==
  ASSUME Inductive, pc = "pad", width > w, Refuses(<< Blank >>),
         width' = width - 1, pc' = "text", written' = written,
         UNCHANGED call, UNCHANGED <<fmt, ofs, escape, lpref, c, outstr, w, n, argi, ret, nul>>
  PROVE  Inductive'
  <1>1. ~dest.buffer /\ failures' = failures + 1 /\ failures < MaxFailures
    BY DEF Refuses
  <1>2. out' = out
    <2>1. PICK k \in 0 .. (Len(<< Blank >>) - 1) : out' = out \o SubSeq(<< Blank >>, 1, k)
      BY DEF Refuses
    <2>2. k = 0 /\ 0 < 1 /\ 0 \in Int /\ 1 \in Int
      BY PadFacts, SMT
    <2>3. SubSeq(<< Blank >>, 1, 0) = << >>
      BY <2>2, SubSeqEmpty
    <2>4. out \o << >> = out
      BY PadFacts, ConcatEmptySeq DEF Texts
    <2>5. QED
      BY <2>1, <2>2, <2>3, <2>4
  <1>3. failures' \in 0 .. MaxFailures /\ failures' # 0
    BY <1>1, PadFacts, PrintfAssumption, SMT DEF PrintfAssumption
  <1>4. PICK s \in 1 .. (Len(format) + 1), m \in 0 .. Count : Placed(s, m)
    BY PadFacts DEF Inductive
  <1>5. From(s, m) /\ Scanned(s, m)
    BY <1>4 DEF Placed
  <1>6. Typed'
    <2>1. w <= Len(outstr)
      BY PadFacts DEF CallTypes
    <2>2. CallTypes'
      BY <1>3, <2>1, PadFacts, SameCall DEF CallTypes
    <2>3. QED
      BY <1>1, <1>2, <2>2, PadFacts, SameCall DEF Typed, Texts
  <1>7. Placed(s, m)'
    <2>1. From(s, m)'
      BY <1>5, SameFrom
    <2>2. Scanned(s, m)'
      <3>1. argi' = 1 + ArgumentOf(Directives', m)
        BY <1>5, SameCall DEF Scanned
      <3>2. QED
        BY <1>5, <3>1, SameFrom DEF Scanned
    <2>3. ASSUME Tracked' PROVE \E sent \in Texts : Sends(sent, m)'
      <3>1. PICK old \in Texts : Sends(old, m)
        BY <1>3, <1>4, <2>3, SameCall DEF Placed
      <3>2. /\ old \o Pending = Output[m] /\ NotBlank(out) = NotBlank(old)
            /\ written = Len(out)
            /\ n + w >= dest.size - Len(old) /\ w = Len(outstr)
        BY <3>1, PadFacts DEF Sends
      <3>3. Pending = Blanks(width - Len(outstr)) \o outstr /\ Pending' = outstr
        BY DEF Pending
      <3>4. width - Len(outstr) \in Nat /\ width - Len(outstr) \in Int
        <4>1. width \in Nat /\ w \in Nat
          BY PadFacts
        <4>2. width - w \in Nat /\ width - w \in Int
          BY <4>1, SMT
        <4>3. QED
          BY <3>2, <4>2
      <3>5. PICK b \in Texts : b = Blanks(width - Len(outstr)) /\ NotBlank(b) = << >>
        BY <3>4, BlanksFacts, NotBlankFacts DEF Texts
      <3>6. PICK sent \in Texts : /\ sent = old \o b /\ Len(sent) = Len(old) + Len(b)
                                  /\ Len(old) \in Nat /\ Len(b) \in Nat
        BY PrefixOfConcat
      <3>7. old \o (b \o outstr) = (old \o b) \o outstr
        <4>1. PICK t \in Texts : t = outstr
          BY PadFacts
        <4>2. old \o (b \o t) = (old \o b) \o t
          BY PiecesAssociate
        <4>3. QED
          BY <4>1, <4>2
      <3>8. sent \o Pending' = Output[m]
        BY <3>2, <3>3, <3>5, <3>6, <3>7
      <3>9. NotBlank(out') = NotBlank(sent)
        BY <1>2, <3>2, <3>5, <3>6, BlanksBehind
      <3>10. n + w >= dest.size - Len(sent)
        <4>1. n \in Nat /\ w \in Nat /\ dest.size \in Nat
          BY PadFacts
        <4>2. QED
          BY <3>2, <3>6, <4>1, SMT
      <3>11. Held' = w
        BY DEF Held
      <3>12. Sends(sent, m)'
        BY <1>2, <1>3, <3>2, <3>8, <3>9, <3>10, <3>11, SameCall DEF Sends
      <3>13. QED
        BY <3>12
    <2>4. QED
      BY <1>1, <2>1, <2>2, <2>3, SameCall DEF Placed, Texts
  <1>8. s \in 1 .. (Len(format') + 1) /\ m \in 0 .. Count'
    BY SameCall
  <1>9. QED
    BY <1>6, <1>7, <1>8 DEF Inductive

\* A blank keeps the invariant.
LEMMA PadKeeps ==
  ASSUME Inductive, Pad
  PROVE  Inductive'
  <1>1. /\ pc = "pad" /\ width > w /\ width' = width - 1
        /\ UNCHANGED call /\ UNCHANGED <<fmt, ofs, escape, lpref, c, outstr, w, n, argi, ret, nul>>
    BY DEF Pad, call
  <1>2. CASE Accepts(<< Blank >>) /\ written' = written + 1
             /\ pc' = IF dest.buffer /\ Len(out) = dest.size THEN "overrun" ELSE "pad"
    <2>1. CASE dest.buffer /\ Len(out) = dest.size
      BY <1>1, <1>2, <2>1, BlankOverruns
    <2>2. CASE ~(dest.buffer /\ Len(out) = dest.size)
      BY <1>1, <1>2, <2>2, BlankKeeps
    <2>3. QED
      BY <2>1, <2>2
  <1>3. CASE Refuses(<< Blank >>) /\ pc' = "text" /\ written' = written
    BY <1>1, <1>3, BlankIsDropped
  <1>4. QED
    BY <1>2, <1>3 DEF Pad

\* What a call is about while it writes a text.
LEMMA WriteFacts ==
  ASSUME Inductive, pc = "text"
  PROVE  /\ Typed /\ CallTypes /\ args \in Arguments /\ FormatOK /\ dest \in Dest /\ dest.size \in Nat
         /\ w \in Nat /\ w <= Len(outstr) /\ Len(outstr) \in Nat /\ w \in 0 .. Len(outstr)
         /\ n \in Nat /\ written \in Nat /\ written + Len(outstr) \in Nat
         /\ out \in Texts /\ outstr \in Texts /\ Pending = outstr
         /\ Active /\ Held = w
         /\ failures \in 0 .. MaxFailures /\ (dest.buffer => failures = 0)
         /\ SubSeq(outstr, 1, w) \in Texts /\ Len(SubSeq(outstr, 1, w)) = w
         /\ w = Len(outstr) => SubSeq(outstr, 1, w) = outstr
  <1>1. /\ Typed /\ CallTypes /\ args \in Arguments /\ FormatOK /\ dest \in Dest /\ dest.size \in Nat
        /\ w \in Nat /\ w <= Len(outstr) /\ n \in Nat /\ written \in Nat /\ out \in Texts /\ Active
        /\ failures \in 0 .. MaxFailures /\ (dest.buffer => failures = 0)
    BY TypeFacts DEF Inductive, Typed, Active, CallTypes
  <1>2. outstr \in Texts /\ Pending = outstr /\ Len(outstr) \in Nat
    BY <1>1, PieceFacts
  <1>3. w \in 0 .. Len(outstr) /\ written + Len(outstr) \in Nat
    BY <1>1, <1>2, SMT
  <1>4. SubSeq(outstr, 1, w) \in Texts /\ Len(SubSeq(outstr, 1, w)) = w
    BY <1>2, <1>3, PrefixIsText
  <1>5. SubSeq(outstr, 1, Len(outstr)) = outstr
    BY <1>2, SubSeqFull DEF Texts
  <1>6. Held = w
    BY DEF Held
  <1>7. QED
    BY <1>1, <1>2, <1>3, <1>4, <1>5, <1>6

\* The text when there is room for everything: all of it is for the callback.
LEMMA TextIsSent ==
  ASSUME Inductive, pc = "text", NEW s \in 1 .. (Len(format) + 1), NEW m \in 0 .. Count,
         Placed(s, m), Tracked
  PROVE  /\ w = Len(outstr) /\ written = Len(out)
         /\ \E sent \in Texts : /\ Output[m] = sent \o outstr /\ NotBlank(out) = NotBlank(sent)
                                /\ (failures = 0 => out = sent)
                                /\ Len(sent) \in Nat /\ Len(sent) + Len(outstr) < dest.size
                                /\ n + w >= dest.size - Len(sent)
  <1>1. PICK sent \in Texts : Sends(sent, m)
    BY DEF Placed
  <1>2. /\ sent \o outstr = Output[m] /\ NotBlank(out) = NotBlank(sent)
        /\ (failures = 0 => out = sent) /\ written = Len(out)
        /\ n + w >= dest.size - Len(sent) /\ w = Len(outstr)
    BY <1>1, WriteFacts DEF Sends
  <1>3. Len(sent) \in Nat /\ Len(sent) + Len(outstr) < dest.size
    BY <1>2, WriteFacts, RoomFacts
  <1>4. QED
    BY <1>2, <1>3

\* The text in a buffer and without padding: nothing was cut off before it.
LEMMA TextIsFilled ==
  ASSUME Inductive, pc = "text", NEW s \in 1 .. (Len(format) + 1), NEW m \in 0 .. Count,
         Placed(s, m), dest.buffer, ~HasWidth
  PROVE  /\ Output[m] = out \o outstr /\ written = Len(out) /\ Len(out) \in Nat
         /\ n + w = dest.size - Len(out) /\ w = MinOf(Len(outstr), n + w)
  <1>1. PICK sent \in Texts : Fills(sent, m)
    BY DEF Placed
  <1>2. /\ sent \o outstr = Output[m] /\ written = Len(sent)
        /\ out = SubSeq(sent, 1, MinOf(dest.size, Len(sent)))
        /\ n + w = dest.size - Len(out) /\ w = MinOf(Len(outstr), n + w) /\ n + w > 0
    BY <1>1, WriteFacts DEF Fills
  <1>3. Len(sent) \in Nat /\ dest.size \in Nat /\ n \in Nat /\ w \in Nat /\ Len(out) \in Nat
    BY WriteFacts, LenProperties DEF Texts
  <1>4. MinOf(dest.size, Len(sent)) \in 0 .. Len(sent)
    BY <1>3, SMT DEF MinOf
  <1>5. Len(out) = MinOf(dest.size, Len(sent))
    BY <1>2, <1>4, PrefixIsText
  <1>6. Len(out) < dest.size
    <2>1. n + w > 0 /\ n + w = dest.size - Len(out)
      BY <1>2
    <2>2. QED
      BY <1>3, <2>1, SMT
  <1>7. MinOf(dest.size, Len(sent)) = Len(sent)
    <2>1. MinOf(dest.size, Len(sent)) < dest.size
      BY <1>5, <1>6
    <2>2. QED
      BY <1>3, <2>1, SMT DEF MinOf
  <1>8. SubSeq(sent, 1, Len(sent)) = sent
    BY SubSeqFull DEF Texts
  <1>9. out = sent
    BY <1>2, <1>7, <1>8
  <1>10. QED
    BY <1>2, <1>3, <1>9

\* The callback takes the text.
LEMMA TextKeeps ==
  ASSUME Inductive, pc = "text", Accepts(SubSeq(outstr, 1, w)),
         written' = written + Len(outstr), Proceed(c, ofs),
         UNCHANGED call, UNCHANGED <<escape, lpref, c, width, outstr, w, n, argi>>
  PROVE  Inductive'
  <1>1. out' = out \o SubSeq(outstr, 1, w) /\ failures' = failures
    BY DEF Accepts
  <1>2. PICK s \in 1 .. (Len(format) + 1), m \in 0 .. Count : Placed(s, m)
    BY WriteFacts DEF Inductive
  <1>3. From(s, m) /\ Scanned(s, m) /\ pc # "scan"
    BY <1>2 DEF Placed
  <1>4. out' \in Texts /\ Len(out') = Len(out) + w
    <2>1. PICK a \in Texts : a = SubSeq(outstr, 1, w) /\ Len(a) = w
      BY WriteFacts
    <2>2. out \o a \in Texts /\ Len(out \o a) = Len(out) + Len(a)
      BY WriteFacts, PrefixOfConcat
    <2>3. QED
      BY <1>1, <2>1, <2>2
  <1>5. ASSUME Tracked
        PROVE  /\ NotBlank(out') = NotBlank(Output[m]) /\ (failures' = 0 => out' = Output[m])
               /\ written' = Len(out') /\ n >= dest.size - Len(Output[m])
    <2>1. w = Len(outstr) /\ written = Len(out)
      BY <1>2, <1>5, TextIsSent
    <2>2. PICK sent \in Texts : /\ Output[m] = sent \o outstr /\ NotBlank(out) = NotBlank(sent)
                                /\ (failures = 0 => out = sent) /\ Len(sent) \in Nat
                                /\ n + w >= dest.size - Len(sent)
      BY <1>2, <1>5, TextIsSent
    <2>3. out' = out \o outstr
      BY <1>1, <2>1, WriteFacts
    <2>4. NotBlank(out') = NotBlank(Output[m])
      <3>1. NotBlank(out \o outstr) = NotBlank(out) \o NotBlank(outstr)
        BY WriteFacts, NotBlankOfConcat DEF Texts
      <3>2. NotBlank(sent \o outstr) = NotBlank(sent) \o NotBlank(outstr)
        BY WriteFacts, NotBlankOfConcat DEF Texts
      <3>3. QED
        BY <2>2, <2>3, <3>1, <3>2
    <2>5. Len(Output[m]) = Len(sent) + Len(outstr)
      BY <2>2, WriteFacts, PrefixOfConcat
    <2>6. n >= dest.size - Len(Output[m])
      <3>1. n \in Nat /\ w \in Nat /\ dest.size \in Nat /\ Len(Output[m]) = Len(sent) + w
        BY <2>1, <2>5, WriteFacts
      <3>2. QED
        BY <2>2, <3>1, SMT
    <2>7. written' = Len(out')
      BY <1>4, <2>1
    <2>8. failures' = 0 => out' = Output[m]
      BY <1>1, <2>2, <2>3
    <2>9. QED
      BY <2>4, <2>6, <2>7, <2>8
  <1>6. ASSUME dest.buffer, ~HasWidth
        PROVE  /\ written' = Len(Output[m])
               /\ out' = SubSeq(Output[m], 1, MinOf(dest.size, Len(Output[m])))
               /\ n = dest.size - Len(out')
    <2>1. /\ Output[m] = out \o outstr /\ written = Len(out) /\ Len(out) \in Nat
          /\ n + w = dest.size - Len(out) /\ w = MinOf(Len(outstr), n + w)
      BY <1>2, <1>6, TextIsFilled
    <2>2. Len(Output[m]) = Len(out) + Len(outstr)
      BY <2>1, WriteFacts, PrefixOfConcat
    <2>3. n \in Nat /\ w \in Nat /\ dest.size \in Nat /\ Len(outstr) \in Nat
      BY WriteFacts
    <2>4. MinOf(dest.size, Len(out) + Len(outstr)) = Len(out) + w
      <3>1. Len(out) \in Nat /\ n + w = dest.size - Len(out) /\ w = MinOf(Len(outstr), n + w)
        BY <2>1
      <3>2. QED
        BY <2>3, <3>1, SMT DEF MinOf
    <2>5. SubSeq(out \o outstr, 1, Len(out) + w) = out \o SubSeq(outstr, 1, w)
      BY WriteFacts, PrefixOfConcat
    <2>6. out' = SubSeq(Output[m], 1, MinOf(dest.size, Len(Output[m])))
      BY <1>1, <2>1, <2>2, <2>4, <2>5
    <2>7. n = dest.size - (Len(out) + w)
      <3>1. Len(out) \in Nat /\ n + w = dest.size - Len(out)
        BY <2>1
      <3>2. QED
        BY <2>3, <3>1, SMT
    <2>8. QED
      BY <1>4, <2>1, <2>2, <2>6, <2>7
  <1>7. /\ written' \in Nat /\ failures' \in 0 .. MaxFailures
        /\ (dest.buffer => failures' = 0) /\ (failures' = 0 => failures = 0)
    BY <1>1, WriteFacts
  <1>8. QED
    BY <1>3, <1>4, <1>5, <1>6, <1>7, WriteFacts, ProceedKeeps

\* A text for which there is no room: padding was not taken off it.
LEMMA TextOverruns ==
  ASSUME Inductive, pc = "text", Accepts(SubSeq(outstr, 1, w)),
         written' = written + Len(outstr), dest.buffer, Len(out) + w > dest.size,
         pc' = "overrun", UNCHANGED <<fmt, ofs, ret, nul>>,
         UNCHANGED call, UNCHANGED <<escape, lpref, c, width, outstr, w, n, argi>>
  PROVE  Inductive'
  <1>1. out' = out \o SubSeq(outstr, 1, w) /\ failures' = failures
    BY DEF Accepts
  <1>2. out' \in Texts
    BY <1>1, WriteFacts, PrefixOfConcat
  <1>3. PICK s \in 1 .. (Len(format) + 1), m \in 0 .. Count : Placed(s, m)
    BY WriteFacts DEF Inductive
  <1>4. n \in Nat /\ w \in Nat /\ dest.size \in Nat
    BY WriteFacts
  <1>5. ~Fits
    <2>0. SUFFICES ASSUME Fits PROVE FALSE
      OBVIOUS
    <2>1. Tracked
      BY <2>0, WriteFacts DEF Tracked
    <2>2. PICK sent \in Texts : (failures = 0 => out = sent) /\ Len(sent) + Len(outstr) < dest.size
      BY <1>3, <2>1, TextIsSent
    <2>3. w = Len(outstr) /\ out = sent
      BY <1>3, <2>1, <2>2, TextIsSent, WriteFacts
    <2>4. Len(out) + w < dest.size /\ Len(out) \in Nat
      BY <2>2, <2>3, LenProperties DEF Texts
    <2>5. QED
      BY <1>4, <2>4, SMT
  <1>6. HasWidth
    <2>1. SUFFICES ASSUME ~HasWidth PROVE FALSE
      OBVIOUS
    <2>2. n + w = dest.size - Len(out) /\ Len(out) \in Nat
      BY <1>3, <2>1, TextIsFilled
    <2>3. QED
      BY <1>4, <2>2, SMT
  <1>7. Typed'
    <2>1. CallTypes'
      BY <1>1, WriteFacts, SameCall DEF CallTypes
    <2>2. QED
      BY <1>1, <1>2, <2>1, WriteFacts, SameCall DEF Typed, Texts
  <1>8. QED
    BY <1>5, <1>6, <1>7, SameCall DEF Inductive, Active

\* A text that fails ends the call: it left some of the text, and nothing behind it.
LEMMA TextFails ==
  ASSUME Inductive, pc = "text", Refuses(SubSeq(outstr, 1, w)), written' = written, Return(written),
         UNCHANGED call, UNCHANGED <<escape, lpref, c, width, outstr, w, n, argi>>
  PROVE  Inductive'
  <1>1. /\ ~dest.buffer /\ failures' = failures + 1 /\ failures < MaxFailures
        /\ pc' = "done" /\ ret' = written /\ nul' = Terminator(written) /\ UNCHANGED <<fmt, ofs>>
    BY DEF Refuses, Return
  <1>2. PICK k \in 0 .. (Len(SubSeq(outstr, 1, w)) - 1) : out' = out \o SubSeq(SubSeq(outstr, 1, w), 1, k)
    BY DEF Refuses
  <1>3. failures' \in 0 .. MaxFailures /\ failures' # 0
    BY <1>1, WriteFacts, PrintfAssumption, SMT DEF PrintfAssumption
  <1>4. PICK s \in 1 .. (Len(format) + 1), m \in 0 .. Count : Placed(s, m)
    BY WriteFacts DEF Inductive
  <1>5. PICK a \in Texts : a = SubSeq(SubSeq(outstr, 1, w), 1, k) /\ out' = out \o a
    <2>1. k \in 0 .. Len(SubSeq(outstr, 1, w))
      BY WriteFacts, SMT
    <2>2. QED
      BY <1>2, <2>1, WriteFacts, PrefixIsText
  <1>6. out' \in Texts /\ Len(out') = Len(out) + Len(a) /\ Len(out) \in Nat /\ Len(a) \in Nat
    BY <1>5, WriteFacts, PrefixOfConcat
  <1>7. Typed'
    <2>1. ret' \in Nat \cup {-1} /\ nul' \in Nat \cup {-1}
      BY <1>1, WriteFacts, TerminatorIsTyped
    <2>2. CallTypes'
      BY <1>1, <1>3, <2>1, WriteFacts, SameCall DEF CallTypes
    <2>3. QED
      BY <1>1, <1>6, <2>2, WriteFacts, SameCall DEF Typed, Texts
  <1>8. ASSUME Tracked
        PROVE  /\ \E sent, rest \in Texts : Expected = sent \o rest /\ NotBlank(out') = NotBlank(sent)
               /\ ret' <= Len(out')
    <2>1. w = Len(outstr) /\ written = Len(out)
      BY <1>4, <1>8, TextIsSent
    <2>2. PICK old \in Texts : Output[m] = old \o outstr /\ NotBlank(out) = NotBlank(old)
      BY <1>4, <1>8, TextIsSent
    <2>3. PICK b \in Texts : outstr = a \o b
      <3>1. SubSeq(outstr, 1, w) = outstr /\ k \in 0 .. Len(outstr)
        <4>1. SubSeq(outstr, 1, w) = outstr /\ Len(outstr) \in Nat /\ k \in 0 .. (w - 1)
          BY <2>1, WriteFacts
        <4>2. QED
          BY <2>1, <4>1, SMT
      <3>2. outstr = SubSeq(outstr, 1, k) \o SubSeq(outstr, k + 1, Len(outstr))
        BY <3>1, WriteFacts, PrefixIsText
      <3>3. SubSeq(outstr, k + 1, Len(outstr)) \in Texts
        BY <3>1, WriteFacts, PrefixIsText
      <3>4. QED
        BY <1>5, <3>1, <3>2, <3>3
    <2>4. PICK sent \in Texts, rest \in Texts : sent = old \o a /\ Expected = sent \o rest
      <3>1. FormatOK /\ args \in Arguments
        BY WriteFacts
      <3>2. QED
        BY <2>2, <2>3, <3>1, ExpectedBegins
    <2>5. NotBlank(out') = NotBlank(sent)
      <3>1. NotBlank(out \o a) = NotBlank(out) \o NotBlank(a)
        BY WriteFacts, NotBlankOfConcat DEF Texts
      <3>2. NotBlank(old \o a) = NotBlank(old) \o NotBlank(a)
        BY NotBlankOfConcat DEF Texts
      <3>3. QED
        BY <1>5, <2>2, <2>4, <3>1, <3>2
    <2>6. ret' <= Len(out')
      <3>1. Len(out) <= Len(out) + Len(a)
        BY <1>6, SMT
      <3>2. QED
        BY <1>1, <1>6, <2>1, <3>1
    <2>7. QED
      BY <2>4, <2>5, <2>6
  <1>9. Ended'
    <2>1. (nul = Terminator(ret))'
      BY <1>1, SameCall DEF Terminator
    <2>2. (Tracked => \E sent, rest \in Texts :
             /\ Expected = sent \o rest /\ NotBlank(out) = NotBlank(sent)
             /\ ret <= Len(out)
             /\ failures = 0 => out = Expected /\ ret = Len(out))'
      BY <1>3, <1>8, SameCall DEF Texts
    <2>3. QED
      BY <1>1, <2>1, <2>2, SameCall DEF Ended
  <1>10. QED
    BY <1>1, <1>7, <1>9 DEF Inductive, Active

\* The text keeps the invariant.
LEMMA WriteTextKeeps ==
  ASSUME Inductive, WriteText
  PROVE  Inductive'
  <1>1. /\ pc = "text"
        /\ UNCHANGED call /\ UNCHANGED <<escape, lpref, c, width, outstr, w, n, argi>>
    BY DEF WriteText, call
  <1>2. CASE /\ Accepts(SubSeq(outstr, 1, w)) /\ written' = written + Len(outstr)
             /\ IF dest.buffer /\ Len(out) + w > dest.size
                  THEN pc' = "overrun" /\ UNCHANGED <<fmt, ofs, ret, nul>>
                  ELSE Proceed(c, ofs)
    <2>1. CASE dest.buffer /\ Len(out) + w > dest.size
      BY <1>1, <1>2, <2>1, TextOverruns
    <2>2. CASE ~(dest.buffer /\ Len(out) + w > dest.size)
      BY <1>1, <1>2, <2>2, TextKeeps
    <2>3. QED
      BY <2>1, <2>2
  <1>3. CASE Refuses(SubSeq(outstr, 1, w)) /\ written' = written /\ Return(written)
    BY <1>1, <1>3, TextFails
  <1>4. QED
    BY <1>2, <1>3 DEF WriteText

\* A call starts with the invariant.
LEMMA InitIsInductive ==
  ASSUME Init
  PROVE  Inductive
  <1>1. /\ format \in Format /\ dest \in Dest /\ args \in Arguments
        /\ fmt = 1 /\ ofs = 0 /\ escape = FALSE /\ lpref = 0 /\ width = 0 /\ outstr = << >>
        /\ w = 0 /\ n = dest.size /\ written = 0 /\ argi = 1 /\ pc = "scan" /\ out = << >>
        /\ failures = 0 /\ ret = -1 /\ nul = -1
    BY DEF Init
  <1>2. FormatOK /\ Len(format) \in Nat /\ dest.size \in Nat /\ MaxFailures \in Nat
    BY <1>1, FormatIsOK, FormatFacts, DestFacts, PrintfAssumption DEF PrintfAssumption
  <1>3. args \in Seq(Argument) /\ Len(args) \in Nat
    BY <1>1, <1>2, ArgumentsFacts
  <1>4. << >> \in Texts /\ Len(<< >>) = 0 /\ << >> \o << >> = << >>
    BY EmptySeq, ConcatEmptySeq DEF Texts
  <1>5. Typed
    <2>1. /\ 1 \in 1 .. (Len(format) + 1) /\ 1 + 0 <= Len(format) + 2 /\ 0 \in Nat
          /\ 1 \in 1 .. (Len(args) + 1) /\ 0 \in 0 .. MaxFailures /\ -1 \in Nat \cup {-1}
          /\ dest.size \in 0 .. dest.size
      BY <1>2, <1>3, SMT
    <2>2. CallTypes
      BY <1>1, <1>3, <2>1 DEF CallTypes
    <2>3. QED
      BY <1>1, <1>4, <2>2 DEF Typed
  <1>6. Pending = << >> /\ Held = 0
    <2>1. 1 + 0 - 1 < 1 /\ 1 + 0 - 1 \in Int /\ 1 \in Int
      BY SMT
    <2>2. SubSeq(format, 1, 1 + 0 - 1) = << >>
      BY <2>1, SubSeqEmpty
    <2>3. QED
      BY <1>1, <2>2 DEF Pending, Held
  <1>7. Output[0] = << >>
    BY <1>1, <1>2, OutputDefined
  <1>8. Placed(1, 0)
    <2>1. From(1, 0)
      BY <1>2, FromStart
    <2>2. Scanned(1, 0)
      <3>1. ArgumentOf(Directives, 0) = 0 /\ 1 + 0 = 1
        BY <1>2, ArgumentCount
      <3>2. QED
        BY <1>1, <3>1 DEF Scanned
    <2>3. Sends(<< >>, 0)
      <3>1. n + 0 >= dest.size - 0
        BY <1>1, <1>2, SMT
      <3>2. QED
        BY <1>1, <1>4, <1>6, <1>7, <3>1 DEF Sends
    <2>4. Fills(<< >>, 0)
      <3>1. n + 0 = dest.size - 0 /\ MinOf(dest.size, 0) = 0 /\ 0 < 1 /\ 0 \in Int /\ 1 \in Int
        BY <1>1, <1>2, SMT DEF MinOf
      <3>2. SubSeq(<< >>, 1, 0) = << >>
        BY <3>1, SubSeqEmpty
      <3>3. QED
        BY <1>1, <1>4, <1>6, <1>7, <3>1, <3>2 DEF Fills
    <2>5. QED
      BY <1>4, <2>1, <2>2, <2>3, <2>4 DEF Placed
  <1>9. 1 \in 1 .. (Len(format) + 1) /\ 0 \in 0 .. Count
    BY <1>2, DirectivesTyped, SMT
  <1>10. QED
    BY <1>1, <1>5, <1>8, <1>9 DEF Inductive

\* A step of something else keeps it.
LEMMA StutterKeeps ==
  ASSUME Inductive, UNCHANGED vars
  PROVE  Inductive'
  <1>1. /\ UNCHANGED call
        /\ UNCHANGED <<fmt, ofs, escape, lpref, c, width, outstr, w, n, written, argi, pc, out,
                       failures, ret, nul>>
    BY DEF vars, call
  <1>2. Typed'
    <2>1. CallTypes'
      BY <1>1, SameCall DEF Inductive, Typed, CallTypes
    <2>2. QED
      BY <1>1, <2>1, SameCall DEF Inductive, Typed, Texts
  <1>3. ASSUME Active'
        PROVE  \E s \in 1 .. (Len(format') + 1), m \in 0 .. Count' : Placed(s, m)'
    <2>1. PICK s \in 1 .. (Len(format) + 1), m \in 0 .. Count : Placed(s, m)
      BY <1>1, <1>3 DEF Inductive, Active
    <2>2. From(s, m)'
      BY <1>1, <2>1, SameFrom DEF Placed
    <2>3. Pending' = Pending /\ Held' = Held
      BY <1>1, SameCall DEF Pending, Held, Blanks
    <2>4. Scanned(s, m)'
      <3>1. argi' = 1 + ArgumentOf(Directives', m)
        BY <1>1, <2>1, SameCall DEF Placed, Scanned
      <3>2. Inside(s) => Inside(s)'
        BY <1>1, SameCall DEF Inside, Level, Has, Twice
      <3>3. QED
        BY <1>1, <2>1, <3>1, <3>2, SameFrom DEF Placed, Scanned
    <2>5. ASSUME Tracked' PROVE \E sent \in Texts : Sends(sent, m)'
      <3>1. PICK sent \in Texts : Sends(sent, m)
        BY <1>1, <2>1, <2>5, SameCall DEF Placed
      <3>2. Sends(sent, m)'
        BY <1>1, <2>3, <3>1, SameCall DEF Sends
      <3>3. QED
        BY <3>2
    <2>6. ASSUME dest'.buffer, ~HasWidth' PROVE \E sent \in Texts : Fills(sent, m)'
      <3>1. PICK sent \in Texts : Fills(sent, m)
        BY <1>1, <2>1, <2>6, SameCall DEF Placed
      <3>2. Fills(sent, m)'
        BY <1>1, <2>3, <3>1, SameCall DEF Fills
      <3>3. QED
        BY <3>2
    <2>7. Placed(s, m)'
      BY <2>2, <2>4, <2>5, <2>6 DEF Placed, Texts
    <2>8. s \in 1 .. (Len(format') + 1) /\ m \in 0 .. Count'
      BY <1>1, SameCall
    <2>9. QED
      BY <2>7, <2>8
  <1>4. pc' = "done" => Ended'
    BY <1>1, SameCall DEF Inductive, Ended, Terminator, Texts
  <1>5. pc' = "overrun" => HasWidth' /\ ~Fits'
    BY <1>1, SameCall DEF Inductive
  <1>6. QED
    BY <1>2, <1>3, <1>4, <1>5 DEF Inductive

\* A write that fails sets errno, and ends the call or was padding.
LEMMA ErrnoKeeps ==
  ASSUME Inductive, ErrnoInv, [Next]_vars
  PROVE  ErrnoInv'
  <1>1. failures \in Nat
    BY PrintfAssumption, SMT DEF Inductive, Typed, CallTypes
  <1>2. HasWidth' <=> HasWidth
    <2>1. UNCHANGED call
      BY DEF Next, Literal, Segment, Convert, Percent, Modifier, Flush, Pad, PadEnds, WriteText, vars, call
    <2>2. QED
      BY <2>1, SameCall
  <1>3. ASSUME UNCHANGED <<errno, failures>>, pc' = "done" \/ pc # "done" PROVE ErrnoInv'
    BY <1>2, <1>3 DEF ErrnoInv
  <1>4. ASSUME NEW piece, Refuses(piece), pc' = "done" \/ HasWidth PROVE ErrnoInv'
    <2>1. errno' \in {errno} \cup WriteErrno /\ failures' = failures + 1
      BY <1>4 DEF Refuses, SET_ERRNO
    <2>2. failures' # 0
      BY <1>1, <2>1, SMT
    <2>3. QED
      BY <1>2, <1>4, <2>1, <2>2 DEF ErrnoInv
  <1>5. CASE Literal \/ Segment \/ Convert \/ Percent \/ Modifier \/ Flush \/ PadEnds
    BY <1>3, <1>5 DEF Literal, Segment, Convert, Percent, Modifier, Flush, PadEnds
  <1>6. CASE Pad
    <2>1. CASE Accepts(<< Blank >>)
      BY <1>3, <1>6, <2>1 DEF Pad, Accepts
    <2>2. CASE Refuses(<< Blank >>)
      <3>1. HasWidth
        BY <1>6, PadFacts DEF Pad
      <3>2. QED
        BY <1>4, <2>2, <3>1
    <2>3. QED
      BY <1>6, <2>1, <2>2 DEF Pad
  <1>7. CASE WriteText
    <2>1. CASE Accepts(SubSeq(outstr, 1, w))
      BY <1>3, <1>7, <2>1 DEF WriteText, Accepts
    <2>2. CASE Refuses(SubSeq(outstr, 1, w)) /\ Return(written)
      BY <1>4, <2>2 DEF Return
    <2>3. QED
      BY <1>7, <2>1, <2>2 DEF WriteText
  <1>8. CASE UNCHANGED vars
    BY <1>2, <1>8 DEF ErrnoInv, vars
  <1>9. QED
    BY <1>5, <1>6, <1>7, <1>8 DEF Next

\* Inductive is an invariant of the calls.
THEOREM PrintfInduction == Spec => [](Inductive /\ ErrnoInv)
  <1>1. Init => Inductive /\ ErrnoInv
    <2>1. Init => ErrnoInv
      BY SMT DEF Init, ErrnoInv
    <2>2. QED
      BY <2>1, InitIsInductive
  <1>2. Inductive /\ ErrnoInv /\ [Next]_vars => (Inductive /\ ErrnoInv)'
    <2> SUFFICES ASSUME Inductive, ErrnoInv, [Next]_vars PROVE Inductive' /\ ErrnoInv'
      OBVIOUS
    <2>0. ErrnoInv'
      BY ErrnoKeeps
    <2>1. CASE Literal
      BY <2>0, <2>1, LiteralKeeps
    <2>2. CASE Segment
      BY <2>0, <2>2, SegmentKeeps
    <2>3. CASE Convert
      BY <2>0, <2>3, ConvertKeeps
    <2>4. CASE Percent
      BY <2>0, <2>4, PercentKeeps
    <2>5. CASE Modifier
      BY <2>0, <2>5, ModifierKeeps
    <2>6. CASE Flush
      BY <2>0, <2>6, SkipKeeps, TakeKeeps
    <2>7. CASE Pad
      BY <2>0, <2>7, PadKeeps
    <2>8. CASE PadEnds
      BY <2>0, <2>8, PadEndsKeeps
    <2>9. CASE WriteText
      BY <2>0, <2>9, WriteTextKeeps
    <2>10. CASE UNCHANGED vars
      BY <2>0, <2>10, StutterKeeps
    <2>11. QED
      BY <2>0, <2>1, <2>2, <2>3, <2>4, <2>5, <2>6, <2>7, <2>8, <2>9, <2>10 DEF Next
  <1>3. QED
    BY <1>1, <1>2, PTL DEF Spec

\* The variables of a call have their types in every state.
THEOREM PrintfTypes == Spec => []TypeOK
  <1>1. Inductive /\ ErrnoInv => TypeOK
    BY DEF Inductive, Typed, CallTypes, ErrnoInv, TypeOK
  <1>2. QED
    BY <1>1, PrintfInduction, PTL

\* Without a failure the stream functions print what the format says and return its
\* length.
THEOREM PrintfPrintsFormat == Spec => []PrintsFormat
  <1>1. Inductive => PrintsFormat
    BY DEF Inductive, Ended, PrintsFormat, Tracked
  <1>2. QED
    BY <1>1, PrintfInduction, PTL

\* snprintf() returns the length of the whole output and leaves as much of it as fits, with
\* the terminator behind; only padding of output that does not fit goes past the buffer.
THEOREM PrintfTruncates == Spec => []Truncates
  <1>1. Inductive => Truncates
    <2>1. SUFFICES ASSUME Inductive PROVE Truncates
      OBVIOUS
    <2>2. Typed /\ FormatOK /\ args \in Arguments /\ dest.size \in Nat /\ (dest.buffer => failures = 0)
      BY <2>1, TypeFacts DEF Inductive, Typed
    <2>3. Expected \in Texts /\ Len(Expected) \in Nat
      BY <2>2, OutputIsText
    <2>4. ASSUME pc = "done", dest.buffer, dest.size > 0, HasWidth => Fits
          PROVE  /\ ret = Len(Expected) /\ nul = MinOf(ret, dest.size - 1)
                 /\ SubSeq(out, 1, nul) = SubSeq(Expected, 1, nul)
      <3>1. Ended
        BY <2>1, <2>4 DEF Inductive
      <3>0. HasWidth => Tracked
        BY <2>2, <2>4 DEF Tracked
      <3>2. ret = Len(Expected)
        BY <2>2, <2>4, <3>0, <3>1 DEF Ended
      <3>3. nul = IF ret < dest.size THEN ret ELSE dest.size - 1
        BY <2>4, <3>1 DEF Ended, Terminator
      <3>4. nul = MinOf(ret, dest.size - 1)
        BY <2>2, <2>3, <3>2, <3>3, SMT DEF MinOf
      <3>5. SubSeq(out, 1, nul) = SubSeq(Expected, 1, nul)
        <4>1. CASE HasWidth
          <5>1. Tracked
            BY <3>0, <4>1
          <5>2. out = Expected
            BY <2>2, <2>4, <3>1, <5>1 DEF Ended
          <5>3. QED
            BY <5>2
        <4>2. CASE ~HasWidth
          <5>1. out = SubSeq(Expected, 1, MinOf(dest.size, Len(Expected)))
            BY <2>4, <3>1, <4>2 DEF Ended
          <5>2. /\ MinOf(dest.size, Len(Expected)) \in 0 .. Len(Expected)
                /\ nul \in 0 .. MinOf(dest.size, Len(Expected))
            BY <2>2, <2>3, <2>4, <3>2, <3>3, SMT DEF MinOf
          <5>3. PICK a \in Texts, b \in Texts : a = out /\ Expected = a \o b
                                                 /\ Len(a) = MinOf(dest.size, Len(Expected))
            BY <2>3, <5>1, <5>2, PrefixIsText
          <5>4. nul \in 0 .. Len(a)
            BY <5>2, <5>3
          <5>5. SubSeq(a \o b, 1, nul) = SubSeq(a, 1, nul)
            BY <5>4, PrefixOfConcat
          <5>6. QED
            BY <5>3, <5>5
        <4>3. QED
          BY <4>1, <4>2
      <3>6. QED
        BY <3>2, <3>4, <3>5
    <2>5. pc = "overrun" => HasWidth /\ ~Fits
      BY <2>1 DEF Inductive
    <2>6. QED
      BY <2>4, <2>5 DEF Truncates
  <1>2. QED
    BY <1>1, PrintfInduction, PTL

\* After a failed write() the stream has the beginning of the output, but for blanks, and
\* the result counts no more than was written.
THEOREM PrintfFailureCutsText == Spec => []FailureCutsText
  <1>1. Inductive => FailureCutsText
    <2>1. SUFFICES ASSUME Inductive, pc = "done", failures > 0, Tracked
                   PROVE  /\ ret <= Len(out)
                          /\ NotBlank(out) = SubSeq(NotBlank(Expected), 1, Len(NotBlank(out)))
      BY DEF FailureCutsText, Tracked
    <2>2. PICK sent \in Texts, rest \in Texts :
            /\ Expected = sent \o rest /\ NotBlank(out) = NotBlank(sent) /\ ret <= Len(out)
      BY <2>1 DEF Inductive, Ended
    <2>3. NotBlank(Expected) = NotBlank(sent) \o NotBlank(rest)
      BY <2>2, NotBlankOfConcat DEF Texts
    <2>4. PICK a \in Texts, b \in Texts : a = NotBlank(sent) /\ b = NotBlank(rest)
      BY NotBlankFacts DEF Texts
    <2>5. Len(a) \in 0 .. Len(a)
      BY LenProperties, SMT DEF Texts
    <2>6. SubSeq(a \o b, 1, Len(a)) = SubSeq(a, 1, Len(a))
      BY <2>5, PrefixOfConcat
    <2>7. SubSeq(a, 1, Len(a)) = a
      BY SubSeqFull DEF Texts
    <2>8. QED
      BY <2>2, <2>3, <2>4, <2>6, <2>7
  <1>2. QED
    BY <1>1, PrintfInduction, PTL
=============================================================================
