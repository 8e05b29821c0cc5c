-------------------------------- MODULE Scanf -------------------------------
(***************************************************************************)
(* sscanf(): a walk through a format and a string, one directive per step.  *)
(* A behaviour is one call, either on what printf() writes for some numbers *)
(* with the same format, or on any other format and string.                 *)
(***************************************************************************)
EXTENDS Numbers

CONSTANTS
  Piece,        \* what formats that printf() and sscanf() share are made of
  Printing,     \* these formats, sequences of pieces
  ScanFormat,   \* other formats
  ScanText      \* the strings they are used on

VARIABLES
  format, input,   \* the arguments
  fpos, spos,      \* format and str, as places in them
  matches,
  stored,          \* the numbers stored through the pointers
  over,            \* whether the call has returned
  printed,         \* the numbers that printf() wrote, or none
  part             \* what a behaviour calls: "numbers", "scanf", "strings" or "getopt"

scanfVars == <<format, input, fpos, spos, matches, stored, over, printed>>

EOF == -1

TypeAt == <<"int", "long", "llong">>   \* by the number of l

\* The number of l behind %; a third one is no prefix.
Prefix(i) == IF At(format, i) # "l" THEN 0 ELSE IF At(format, i + 1) # "l" THEN 1 ELSE 2

lpref      == Prefix(fpos + 1)
Conversion == At(format, fpos + 1 + lpref)
IsPattern  == ~over /\ At(format, fpos) = "%"
IsPlain    == ~over /\ At(format, fpos) # "%"

-----------------------------------------------------------------------------
(* The walk.                                                               *)

\* Mutant of NumberAt: every number is read as a signed one.
NumberAtSigned(c, at) ==
  CASE c \in {"d", "u"} -> strtos(input, at, 10, "llong")
    [] c \in {"x", "X"} -> strtos(input, at, 16, "llong")
    [] c = "p"          -> strtou(input, at, 16, "long")

NumberAt(c, at) ==
  CASE c = "d"          -> strtos(input, at, 10, "llong")
    [] c = "u"          -> strtou(input, at, 10, "llong")
    [] c \in {"x", "X"} -> strtou(input, at, 16, "llong")
    [] c = "p"          -> strtou(input, at, 16, "long")

\* What the type of the pointer keeps of a number.
Kept(c, l, v) == CASE c = "d" -> SignedOf(v, TypeAt[l + 1])
                   [] c = "p" -> v
                   [] OTHER   -> Cut(v, TypeAt[l + 1])

\* A number is read and stored, also where the string has no digit.
Convert ==
  /\ IsPattern /\ Conversion \in {"d", "u", "x", "X", "p"}
  /\ LET r == NumberAt(Conversion, spos)
     IN  /\ stored' = Append(stored, Kept(Conversion, lpref, r.val))
         /\ spos' = r.end
         /\ IF r.error # 0 THEN SET_ERRNO(r.error) ELSE UNCHANGED errno
  /\ fpos' = fpos + 2 + lpref
  /\ matches' = matches + 1
  /\ UNCHANGED <<format, input, over, printed>>

\* %% takes a % of the string; without one the matches so far are the result.
Percent ==
  /\ IsPattern /\ Conversion = "%"
  /\ IF At(input, spos) = "%"
       THEN fpos' = fpos + 2 + lpref /\ spos' = spos + 1 /\ UNCHANGED over
       ELSE over' = TRUE /\ fpos' = fpos + 1 + lpref /\ UNCHANGED spos
  /\ UNCHANGED <<format, input, matches, stored, printed, errno>>

Unknown ==
  /\ IsPattern /\ Conversion \notin {"d", "u", "x", "X", "p", "%"}
  /\ SET_ERRNO(EILSEQ)
  /\ over' = TRUE /\ fpos' = fpos + 1 + lpref
  /\ UNCHANGED <<format, input, spos, matches, stored, printed>>

Finished ==
  /\ IsPlain /\ At(format, fpos) = End
  /\ over' = TRUE
  /\ UNCHANGED <<format, input, fpos, spos, matches, stored, printed, errno>>

SkipSpaces ==
  /\ IsPlain /\ IsSpace(At(format, fpos))
  /\ fpos' = BehindSpaces(format, fpos)
  /\ spos' = BehindSpaces(input, spos)
  /\ UNCHANGED <<format, input, matches, stored, over, printed, errno>>

\* The same character in both, or the end of the call.
Literal ==
  /\ IsPlain /\ At(format, fpos) # End /\ ~IsSpace(At(format, fpos))
  /\ IF At(format, fpos) = At(input, spos)
       THEN fpos' = fpos + 1 /\ spos' = spos + 1 /\ UNCHANGED <<over, matches>>
       ELSE /\ over' = TRUE
            /\ matches' = IF matches = 0 THEN EOF ELSE matches
            /\ UNCHANGED <<fpos, spos>>
  /\ UNCHANGED <<format, input, stored, printed, errno>>

-----------------------------------------------------------------------------
(* The calls.  A format that printf() and sscanf() share is made of pieces:  *)
(* a number with its conversion, a character, %% or spaces.                *)

TypeOf(p) == IF p.conv = "p" THEN "long" ELSE TypeAt[p.l + 1]

NumbersOf(p) == IF p.conv = "d" THEN LeastOf(TypeOf(p)) .. GreatestOf(TypeOf(p))
                ELSE 0 .. (Modulus[TypeOf(p)] - 1)

AreSpaces(s) == \A i \in DOMAIN s : IsSpace(s[i])

IsPiece(p) ==
  \/ /\ p.kind = "number" /\ p.conv \in {"d", "u", "x", "p"} /\ p.l \in 0 .. 2
     /\ p.conv = "p" => p.l = 0
     /\ p.value \in NumbersOf(p)
  \/ p.kind = "plain" /\ p.char \in STRING \ {End, "%"} /\ ~IsSpace(p.char)
  \/ p.kind = "percent"
  \/ /\ p.kind = "spaces" /\ {p.format, p.text} \subseteq Seq(STRING)
     /\ p.format # <<>> /\ AreSpaces(p.format) /\ AreSpaces(p.text)

\* Behind a number comes what cannot be a part of it, and spaces are one piece.
MayFollow(p, q) ==
  /\ p.kind = "number" => /\ q.kind # "number"
                          /\ q.kind = "plain" => Value(q.char) >= 16 /\ q.char \notin {"x", "X"}
                          /\ q.kind = "spaces" => q.text # <<>>
  /\ p.kind = "spaces" => q.kind # "spaces"

ASSUME ScanfAssumption ==
  /\ ScanFormat \cup ScanText \subseteq Seq(STRING \ {End})
  /\ \A p \in Piece : IsPiece(p)
  /\ Printing \subseteq Seq(Piece)
  /\ \A ps \in Printing : \A i \in 1 .. (Len(ps) - 1) : MayFollow(ps[i], ps[i + 1])

FormatOf(p) == CASE p.kind = "number"  -> <<"%">> \o [i \in 1 .. p.l |-> "l"] \o <<p.conv>>
                 [] p.kind = "plain"   -> <<p.char>>
                 [] p.kind = "percent" -> <<"%", "%">>
                 [] p.kind = "spaces"  -> p.format

\* What printf() writes for a number that is converted to 64 bits.
Printed(conversion, v) ==
  CASE conversion = "d" -> itoa_r(v, "llong")
    [] conversion = "u" -> utoa_r(v, "llong")
    [] conversion = "x" -> utoh_r(v, "llong")
    [] conversion = "p" -> <<"0", "x">> \o utoh_r(v, "llong")

TextOf(p) == CASE p.kind = "number"  -> Printed(p.conv, p.value)
               [] p.kind = "plain"   -> <<p.char>>
               [] p.kind = "percent" -> <<"%">>
               [] p.kind = "spaces"  -> p.text

NumbersIn(p) == IF p.kind = "number" THEN <<p.value>> ELSE <<>>

\* The sequences of ss one behind the other.
Joined(ss) ==
  LET upto[i \in 0 .. Len(ss)] == IF i = 0 THEN <<>> ELSE upto[i - 1] \o ss[i]
  IN  upto[Len(ss)]

ReadsPrinted ==
  \E ps \in Printing :
    /\ format  = Joined([i \in 1 .. Len(ps) |-> FormatOf(ps[i])])
    /\ input   = Joined([i \in 1 .. Len(ps) |-> TextOf(ps[i])])
    /\ printed = Joined([i \in 1 .. Len(ps) |-> NumbersIn(ps[i])])

ReadsAny == format \in ScanFormat /\ input \in ScanText /\ printed = <<>>

ScanfInit ==
  /\ fpos = 1 /\ spos = 1 /\ matches = 0 /\ stored = <<>> /\ over = FALSE
  /\ ReadsPrinted \/ ReadsAny

ScanfNext == Convert \/ Percent \/ Unknown \/ Finished \/ SkipSpaces \/ Literal

NoScan ==
  /\ format = <<>> /\ input = <<>> /\ printed = <<>>
  /\ fpos = 1 /\ spos = 1 /\ matches = 0 /\ stored = <<>> /\ over = FALSE

\* A conversion of a number or a sscanf().
TextInit ==
  /\ NumbersInit /\ errno = 0
  /\ \/ part \in {"numbers", "strings", "getopt"} /\ NoScan
     \/ part = "scanf" /\ ScanfInit

TextNext ==
  \/ part = "numbers" /\ NumbersNext /\ UNCHANGED <<scanfVars, part>>
  \/ part = "scanf" /\ ScanfNext /\ UNCHANGED <<numbersVars, part>>

TextSpec == TextInit /\ [][TextNext]_<<numbersVars, scanfVars, errno, part>>

-----------------------------------------------------------------------------
(* Properties.                                                             *)

\* What printf() has written comes back: sscanf() stores the same numbers, up to the
\* smallest and the largest of each type, and reads the whole text without an error.
\* On any format and any text neither pointer passes its terminator, as behind "%l"
\* at the end, and the result is the number of pointers that were used.
ScanReadsBack ==
  /\ printed # <<>> /\ over => /\ stored = printed /\ matches = Len(printed)
                               /\ spos = Len(input) + 1 /\ errno = 0
  /\ fpos <= Len(format) + 1 /\ spos <= Len(input) + 1
  /\ \/ matches = Len(stored)
     \/ over /\ matches = EOF /\ stored = <<>>

\* Numbers written are their numerals, numbers read are what the text says, and what
\* is written is read back by sscanf().
NumbersReadBack == NumbersAsDefined /\ ScanReadsBack
=============================================================================
