------------------------------- MODULE Numbers ------------------------------
(***************************************************************************)
(* Numbers as text: utoa_r(), itoa_r() and utoh_r() with their 64-bit forms *)
(* write a number, atol() and the strtol() family read one.  A behaviour is *)
(* one call.                                                               *)
(*                                                                         *)
(* A string is a sequence of characters, without its terminator.  intmax_t *)
(* is a long long.                                                         *)
(***************************************************************************)
EXTENDS Errno, Sequences

CONSTANTS
  Modulus,     \* Modulus[t]: how many values int, long and llong have
  NumberText,  \* the strings given to the functions that read
  BaseArg      \* the bases given to them

IntType == {"int", "long", "llong"}

End == "end"      \* the terminator

ASSUME NumbersAssumption ==
  /\ Modulus \in [IntType -> Nat \ {0}]
  /\ \A t \in IntType : Modulus[t] % 2 = 0 /\ Modulus["llong"] % Modulus[t] = 0
  /\ BaseArg \subseteq Int
  /\ NumberText \subseteq Seq(STRING \ {End})

VARIABLES
  conv,        \* the call: its function, the number or the string, and the base
  answer       \* the text it wrote; or the number it read, and how many characters

numbersVars == <<conv, answer>>

Cut(v, t)      == v % Modulus[t]
SignedOf(v, t) == IF Cut(v, t) >= Modulus[t] \div 2 THEN Cut(v, t) - Modulus[t] ELSE Cut(v, t)

LeastOf(t)    == -(Modulus[t] \div 2)
GreatestOf(t) == Modulus[t] \div 2 - 1

At(s, i) == IF i <= Len(s) THEN s[i] ELSE End

Numeral == <<"0", "1", "2", "3", "4", "5", "6", "7", "8", "9", "a", "b", "c", "d", "e", "f",
             "g", "h", "i", "j", "k", "l", "m", "n", "o", "p", "q", "r", "s", "t", "u", "v",
             "w", "x", "y", "z">>
Capital == <<"A", "B", "C", "D", "E", "F", "G", "H", "I", "J", "K", "L", "M", "N", "O", "P",
             "Q", "R", "S", "T", "U", "V", "W", "X", "Y", "Z">>

\* "vt" stands for the vertical tabulator, which TLA+ has no character for.
IsSpace(ch) == ch \in {" ", "\t", "\n", "vt", "\f", "\r"}

Power(base, p) ==
  LET upto[i \in 0 .. p] == IF i = 0 THEN 1 ELSE base * upto[i - 1]
  IN  upto[p]

-----------------------------------------------------------------------------
(* Writing.                                                                *)

\* 19 or 9 in the code, 60 or 28 for the bits of hexadecimal digits: the place of the
\* first digit of the largest number.
HighestDigit(t, base) ==
  CHOOSE p \in 0 .. Modulus[t] : Power(base, p) < Modulus[t] /\ Power(base, p + 1) >= Modulus[t]

\* Mutant of DecimalDigit: a zero behind the first digit is left out as well.
DecimalDigitNoZero(s, p) ==
  LET lim == Power(10, p)
  IN  IF s.in >= lim \/ p = 0
        THEN [in |-> s.in % lim, text |-> Append(s.text, Numeral[s.in \div lim + 1])]
        ELSE s

\* A digit for each power of ten, from the first that is not zero or the last on.
DecimalDigit(s, p) ==
  LET lim == Power(10, p)
  IN  IF s.text # <<>> \/ s.in >= lim \/ p = 0
        THEN [in |-> s.in % lim, text |-> Append(s.text, Numeral[s.in \div lim + 1])]
        ELSE s

utoa_r(in, t) ==
  LET pos == HighestDigit(t, 10)
      upto[i \in 0 .. (pos + 1)] == IF i = 0 THEN [in |-> in, text |-> <<>>]
                                    ELSE DecimalDigit(upto[i - 1], (pos + 1) - i)
  IN  upto[pos + 1].text

itoa_r(in, t) == IF in < 0 THEN <<"-">> \o utoa_r(Cut(-in, t), t) ELSE utoa_r(in, t)

HexDigit(s, p) ==
  LET dig == s.in \div Power(16, p)
  IN  [in |-> s.in - dig * Power(16, p),
       text |-> IF dig # 0 \/ s.text # <<>> \/ p = 0 THEN Append(s.text, Numeral[dig + 1])
                ELSE s.text]

utoh_r(in, t) ==
  LET pos == HighestDigit(t, 16)
      upto[i \in 0 .. (pos + 1)] == IF i = 0 THEN [in |-> in, text |-> <<>>]
                                    ELSE HexDigit(upto[i - 1], (pos + 1) - i)
  IN  upto[pos + 1].text

-----------------------------------------------------------------------------
(* Reading.                                                                *)

Value(ch) ==
  IF \E i \in 1 .. 36 : Numeral[i] = ch THEN (CHOOSE i \in 1 .. 36 : Numeral[i] = ch) - 1
  ELSE IF \E i \in 1 .. 26 : Capital[i] = ch THEN (CHOOSE i \in 1 .. 26 : Capital[i] = ch) + 9
  ELSE 36

\* The places behind the spaces, or the digits of a base, that start at i.
BehindSpaces(s, i) ==
  CHOOSE k \in i .. (Len(s) + 1) : ~IsSpace(At(s, k)) /\ \A j \in i .. (k - 1) : IsSpace(At(s, j))

BehindDigits(s, i, base) ==
  CHOOSE k \in i .. (Len(s) + 1) : /\ Value(At(s, k)) >= base
                                   /\ \A j \in i .. (k - 1) : Value(At(s, j)) < base

atol(s) ==
  LET from   == IF At(s, 1) = "-" THEN 2 ELSE 1
      digits == SubSeq(s, from, BehindDigits(s, from, 10) - 1)
      ret[i \in 0 .. Len(digits)] ==
        IF i = 0 THEN 0 ELSE Cut(ret[i - 1] * 10 + Value(digits[i]), "long")
  IN  SignedOf(IF from = 2 THEN -ret[Len(digits)] ELSE ret[Len(digits)], "long")

\* Mutant of Accumulate: the flag is of the last digit only.
AccumulateForgets(s, d, base, limit) ==
  LET val == Cut(s.val * base + d, "llong")
  IN  [val |-> val, overflow |-> val > limit \/ val < s.val]

\* A digit more; a product that wraps shows only when the result is smaller.
Accumulate(s, d, base, limit) ==
  LET val == Cut(s.val * base + d, "llong")
  IN  [val |-> val, overflow |-> s.overflow \/ val > limit \/ val < s.val]

Accumulated(digits, base, limit) ==
  LET upto[i \in 0 .. Len(digits)] ==
        IF i = 0 THEN [val |-> 0, overflow |-> FALSE]
        ELSE Accumulate(upto[i - 1], Value(digits[i]), base, limit)
  IN  upto[Len(digits)]

Base(s, i, base) ==
  IF base \in {0, 16} /\ At(s, i) = "0" /\ At(s, i + 1) \in {"x", "X"} THEN [base |-> 16, skip |-> 2]
  ELSE IF base = 0 /\ At(s, i) = "0" THEN [base |-> 8, skip |-> 1]
  ELSE [base |-> IF base = 0 THEN 10 ELSE base, skip |-> 0]

\* The value, before the caller cuts it to its type, the place of *endptr, and the
\* error, if there is one.
__strtox(s, at, base, lower, upper) ==
  LET start == BehindSpaces(s, at)
      neg   == At(s, start) = "-"
      sign  == IF At(s, start) \in {"+", "-"} THEN start + 1 ELSE start
      limit == IF lower # 0 /\ neg THEN -lower ELSE upper
      b     == Base(s, sign, base)
      from  == sign + b.skip
      to    == BehindDigits(s, from, b.base)
      sum   == Accumulated(SubSeq(s, from, to - 1), b.base, limit)
      val   == IF sum.overflow THEN limit ELSE sum.val
  IN  IF base \notin 0 .. 36 THEN [val |-> 0, end |-> at, error |-> EINVAL]
      ELSE [val |-> IF neg THEN -val ELSE val, end |-> to,
            error |-> IF sum.overflow THEN ERANGE ELSE 0]

\* strtol() and strtoll(); strtoul() and strtoull().
strtos(s, at, base, t) == [__strtox(s, at, base, LeastOf(t), GreatestOf(t)) EXCEPT !.val = SignedOf(@, t)]
strtou(s, at, base, t) == [__strtox(s, at, base, 0, Modulus[t] - 1) EXCEPT !.val = Cut(@, t)]

-----------------------------------------------------------------------------

Conv(f, t, v, s, base)  == [fn |-> f, type |-> t, number |-> v, text |-> s, base |-> base]
Answer(text, val, end)  == [text |-> text, val |-> val, end |-> end]

WritesText(f, t, v, text) ==
  /\ conv' = Conv(f, t, v, <<>>, 0)
  /\ answer' = Answer(text, 0, 0)
  /\ UNCHANGED errno

ReadsNumber(f, t, s, base, r) ==
  /\ conv' = Conv(f, t, 0, s, base)
  /\ answer' = Answer(<<>>, r.val, r.end)
  /\ IF r.error # 0 THEN SET_ERRNO(r.error) ELSE UNCHANGED errno

WriteCall(t) ==
  \/ \E v \in 0 .. (Modulus[t] - 1) : \/ WritesText("utoa", t, v, utoa_r(v, t))
                                      \/ WritesText("utoh", t, v, utoh_r(v, t))
  \/ \E v \in LeastOf(t) .. GreatestOf(t) : WritesText("itoa", t, v, itoa_r(v, t))

ReadCall(s) ==
  \/ ReadsNumber("atol", "long", s, 10, [val |-> atol(s), end |-> 1, error |-> 0])
  \/ \E base \in BaseArg, t \in {"long", "llong"} :
       \/ ReadsNumber("strtos", t, s, base, strtos(s, 1, base, t))
       \/ ReadsNumber("strtou", t, s, base, strtou(s, 1, base, t))

NumbersInit == conv = Conv("none", "", 0, <<>>, 0) /\ answer = Answer(<<>>, 0, 0)

NumbersNext ==
  /\ conv.fn = "none"
  /\ \/ \E t \in {"long", "llong"} : WriteCall(t)
     \/ \E s \in NumberText : ReadCall(s)

-----------------------------------------------------------------------------
(* Properties.                                                             *)

\* The number that digits of a base stand for.
NumberOf(digits, base) ==
  LET upto[i \in 0 .. Len(digits)] == IF i = 0 THEN 0 ELSE base * upto[i - 1] + Value(digits[i])
  IN  upto[Len(digits)]

\* The numeral of a number that is not negative: no zero in front.
IsNumeralOf(text, v, base) ==
  /\ \A i \in DOMAIN text : text[i] \in {Numeral[k] : k \in 1 .. base}
  /\ text # <<>> /\ (text[1] = "0" => Len(text) = 1)
  /\ NumberOf(text, base) = v

\* What a string says in a base: its sign and its digits, up to the first character
\* that is no digit.
Says(s, base) ==
  LET first  == CHOOSE i \in 1 .. (Len(s) + 1) : ~IsSpace(At(s, i)) /\ \A j \in 1 .. (i - 1) : IsSpace(s[j])
      rest   == SubSeq(s, first, Len(s))
      body   == IF At(rest, 1) \in {"+", "-"} THEN SubSeq(rest, 2, Len(rest)) ELSE rest
      hex    == base \in {0, 16} /\ Len(body) >= 2 /\ body[1] = "0" /\ body[2] \in {"x", "X"}
      b      == IF hex THEN 16 ELSE IF base # 0 THEN base ELSE IF At(body, 1) = "0" THEN 8 ELSE 10
      digits == IF hex THEN SubSeq(body, 3, Len(body)) ELSE body
      count  == CHOOSE k \in 0 .. Len(digits) :
                  /\ \A i \in 1 .. k : Value(digits[i]) < b
                  /\ k < Len(digits) => Value(digits[k + 1]) >= b
  IN  [minus |-> At(rest, 1) = "-", size |-> NumberOf(SubSeq(digits, 1, count), b),
       end |-> Len(s) - Len(digits) + count + 1,
       prefixes |-> {NumberOf(SubSeq(digits, 1, k), b) : k \in 1 .. count}, base |-> b]

\* A number that is read is the one the text says, or one that is out of range.  It is
\* refused as soon as one of its beginnings is beyond the limit by less than a round
\* of the widest type, as every number is that this type can hold; of the numbers
\* beyond that some are not noticed and read modulo 2^w.
ReadsAs(says, t, signed, val, error) ==
  LET exact == IF says.minus THEN -says.size ELSE says.size
      fits  == IF signed THEN exact \in LeastOf(t) .. GreatestOf(t) ELSE says.size < Modulus[t]
      limit == IF ~signed THEN Modulus[t] - 1 ELSE IF says.minus THEN -LeastOf(t) ELSE GreatestOf(t)
      mine(v)    == IF signed THEN SignedOf(v, t) ELSE Cut(v, t)
      Noticed(v) == limit < v /\ v < Modulus["llong"] + v \div says.base
  IN  \/ fits /\ val = mine(exact) /\ ~error
      \/ ~fits /\ error /\ val = mine(IF says.minus THEN -limit ELSE limit)
      \/ ~fits /\ ~error /\ val = mine(exact) /\ ~\E v \in says.prefixes : Noticed(v)

\* Each number is written as its numeral and with its sign, the smallest one too, and
\* the numbers that are read are what the text says.
NumbersAsDefined ==
  CASE conv.fn = "utoa" -> IsNumeralOf(answer.text, conv.number, 10)
    [] conv.fn = "utoh" -> IsNumeralOf(answer.text, conv.number, 16)
    [] conv.fn = "itoa" ->
         IF conv.number < 0
           THEN answer.text[1] = "-" /\ IsNumeralOf(Tail(answer.text), -conv.number, 10)
           ELSE IsNumeralOf(answer.text, conv.number, 10)
    [] conv.fn = "atol" /\ ~IsSpace(At(conv.text, 1)) /\ At(conv.text, 1) # "+" ->
         LET says == Says(conv.text, 10)
         IN  answer.val = SignedOf(IF says.minus THEN -says.size ELSE says.size, "long")
    [] conv.fn \in {"strtos", "strtou"} ->
         IF conv.base \in 0 .. 36
           THEN /\ answer.end = Says(conv.text, conv.base).end
                /\ ReadsAs(Says(conv.text, conv.base), conv.type, conv.fn = "strtos", answer.val, errno = ERANGE)
           ELSE errno = EINVAL /\ answer.val = 0 /\ answer.end = 1
    [] OTHER -> TRUE
=============================================================================
