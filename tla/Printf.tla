------------------------------- MODULE Printf -------------------------------
(***************************************************************************)
(* printf() and its relatives: __nolibc_printf() reads the format one       *)
(* character at a time and hands pieces of output to a callback, which is a *)
(* write() loop for the stream functions and a memcpy() for snprintf() and  *)
(* sprintf().                                                              *)
(*                                                                         *)
(* A behaviour is one call.  The characters of formats are strings of one   *)
(* character; a number is the value of its bits, as of an unsigned type.    *)
(* Widths and counts are integers without a bound: output so long that the   *)
(* int of written overflows is left out.                                   *)
(***************************************************************************)
EXTENDS Errno, Integers, Sequences, FiniteSets

CONSTANTS
  Format,      \* the formats, sequences of characters
  Argument,    \* the arguments: records of a type and a value, which is the
               \* bits of a number or the characters of a string
  Modulus,     \* Modulus[t]: how many values char, int, long and llong have
  Size,        \* the sizes of the buffers given to snprintf()
  SizeMax,     \* SIZE_MAX
  MaxFailures, \* the number of write() calls that fail
  CallErrno,   \* errno when the function is called
  WriteErrno   \* the errors of write()

End     == "end"                             \* the zero behind the format
IntType == {"int", "long", "llong"}

ASSUME PrintfAssumption ==
  /\ Modulus \in [IntType \cup {"char"} -> Nat \ {0}]
  /\ Modulus["int"] <= Modulus["long"] /\ Modulus["long"] <= Modulus["llong"]
  /\ SizeMax \in Nat /\ Size \subseteq 0 .. SizeMax /\ MaxFailures \in Nat
  /\ CallErrno \in Nat /\ WriteErrno \subseteq Nat
  /\ Format \subseteq Seq(STRING \ {End})
  /\ \A a \in Argument : \/ a.type \in IntType /\ a.value \in 0 .. (Modulus[a.type] - 1)
                         \/ a.type = "str" /\ a.value \in Seq(STRING)

VARIABLES
  format, args, dest,     \* the call
  fmt, ofs,               \* the segment of the format that was read: its first
                          \* character, and how many there are
  escape, lpref,          \* inside a directive; its l and j modifiers
  c,                      \* the character that ended the segment
  width, outstr, w,       \* the piece of output: its width, its characters, and
                          \* how many of them are for the callback
  n,                      \* how much the destination still takes
  written,
  argi,                   \* the next argument
  pc,                     \* scan, flush, pad, text, done or overrun
  out,                    \* what was written to the destination
  failures,
  ret, nul                \* the result, and where snprintf() put the terminator

call == <<format, args, dest>>
vars == <<format, args, dest, fmt, ofs, escape, lpref, c, width, outstr, w, n, written,
          argi, pc, out, failures, ret, nul, errno>>

Blank   == " "
Null    == <<"NULL">>                        \* a string that is NULL
Numeral == <<"0", "1", "2", "3", "4", "5", "6", "7", "8", "9", "a", "b", "c", "d", "e", "f">>
Digit   == {"0", "1", "2", "3", "4", "5", "6", "7", "8", "9"}
Number  == {"c", "d", "u", "x", "p"}         \* the conversions of numbers
Conversion == Number \cup {"s", "m"}

MinOf(a, b) == IF a < b THEN a ELSE b

ValueOf(digit) == (CHOOSE i \in 1 .. 10 : Numeral[i] = digit) - 1

\* The number that a sequence of digits stands for.
NumberOf(digits) ==
  LET upto[i \in 0 .. Len(digits)] == IF i = 0 THEN 0 ELSE 10 * upto[i - 1] + ValueOf(digits[i])
  IN  upto[Len(digits)]

-----------------------------------------------------------------------------
(* Conversions.                                                            *)

\* u64toa_r() and u64toh_r().
Numerals(v, base) ==
  LET f[m \in 0 .. v] ==
        (IF m < base THEN <<>> ELSE f[m \div base]) \o <<Numeral[(m % base) + 1]>>
  IN  f[v]

IsNegative(v) == v >= Modulus["llong"] \div 2

\* A v of type is extended to long long, with its sign for %d only.
SignExtend(v, type) ==
  IF v >= Modulus[type] \div 2 THEN v + (Modulus["llong"] - Modulus[type]) ELSE v

\* What the conversion conv makes of the long long v; %c cuts it to a char, which may be
\* the zero that ends the piece.
NumberText(conv, v) ==
  CASE conv = "c" -> IF v % Modulus["char"] = 0 THEN <<>> ELSE <<"chr">>
    [] conv = "d" -> IF IsNegative(v) THEN <<"-">> \o Numerals(Modulus["llong"] - v, 10)
                     ELSE Numerals(v, 10)
    [] conv = "u" -> Numerals(v, 10)
    [] conv = "x" -> Numerals(v, 16)
    [] conv = "p" -> <<"0", "x">> \o Numerals(v, 16)

StringText(s) == IF s = Null THEN <<"(", "n", "u", "l", "l", ")">> ELSE s

\* %m: strerror(e).
ErrorText(e) == <<"e", "r", "r", "n", "o", "=">> \o Numerals(e, 10)

\* The type a conversion of a number takes from the argument list.
TypeOf(conv, l) ==
  IF conv = "p" THEN "long" ELSE IF l > 1 THEN "llong" ELSE IF l = 1 THEN "long" ELSE "int"

Text(conv, arg) ==
  CASE conv = "s" -> StringText(arg.value)
    [] conv = "d" -> NumberText("d", SignExtend(arg.value, arg.type))
    [] OTHER -> NumberText(conv, arg.value)

Takes(conv) == conv \in Number \cup {"s"}

-----------------------------------------------------------------------------
(* The scan of the format.                                                 *)

At(i) == IF i <= Len(format) THEN format[i] ELSE End

\* The digits that start at fmt[ofs], and the character behind them.
Width == LET k == CHOOSE k \in 0 .. Len(format) :
                    /\ At(fmt + ofs + k) \notin Digit
                    /\ \A i \in 0 .. (k - 1) : At(fmt + ofs + i) \in Digit
         IN  SubSeq(format, fmt + ofs, fmt + ofs + k - 1)

Behind == At(fmt + ofs + Len(Width))

Char == At(fmt + ofs)

\* A character is only queued.
Literal ==
  /\ pc = "scan" /\ ~escape
  /\ Char \notin {"%", End}
  /\ ofs' = ofs + 1
  /\ UNCHANGED <<call, fmt, escape, lpref, c, width, outstr, w, n, written, argi, pc, out,
                 failures, ret, nul, errno>>

\* Mutant of Segment: lpref is left from the directive before.
SegmentKeepsPrefix ==
  /\ pc = "scan" /\ ~escape
  /\ Char \in {"%", End}
  /\ outstr' = SubSeq(format, fmt, fmt + ofs - 1)
  /\ c' = Char
  /\ ofs' = ofs + 1 /\ escape' = TRUE /\ width' = 0
  /\ pc' = "flush"
  /\ UNCHANGED <<call, fmt, lpref, w, n, written, argi, out, failures, ret, nul, errno>>

\* A % or the end: the characters before it are a piece of output.
Segment ==
  /\ pc = "scan" /\ ~escape
  /\ Char \in {"%", End}
  /\ outstr' = SubSeq(format, fmt, fmt + ofs - 1)
  /\ c' = Char
  /\ ofs' = ofs + 1 /\ escape' = TRUE /\ lpref' = 0 /\ width' = 0
  /\ pc' = "flush"
  /\ UNCHANGED <<call, fmt, w, n, written, argi, out, failures, ret, nul, errno>>

\* The argument that va_arg() finds; of another type it would be anything.
ArgumentIs(conv) ==
  /\ argi <= Len(args)
  /\ args[argi].type = IF conv = "s" THEN "str" ELSE TypeOf(conv, lpref)

Convert ==
  /\ pc = "scan" /\ escape
  /\ Behind \in Conversion
  /\ outstr' = IF ~Takes(Behind) THEN ErrorText(errno)
               ELSE IF ArgumentIs(Behind) THEN Text(Behind, args[argi])
               ELSE <<"garbage">>
  /\ argi' = IF Takes(Behind) THEN argi + 1 ELSE argi
  /\ c' = Behind
  /\ width' = NumberOf(Width)
  /\ ofs' = ofs + Len(Width) + 1
  /\ escape' = FALSE
  /\ pc' = "flush"
  /\ UNCHANGED <<call, fmt, lpref, w, n, written, out, failures, ret, nul, errno>>

\* The second % starts a segment, with the digits before it.
Percent ==
  /\ pc = "scan" /\ escape
  /\ Behind = "%"
  /\ escape' = FALSE
  /\ ofs' = ofs + Len(Width) + 1
  /\ UNCHANGED <<call, fmt, lpref, c, width, outstr, w, n, written, argi, pc, out, failures,
                 ret, nul, errno>>

\* Mutant of Terminator: the terminator follows a result that fills the buffer.
TerminatorBehind(result) ==
  IF ~dest.buffer THEN -1 ELSE IF result <= dest.size THEN result ELSE dest.size - 1

\* vsnprintf() ends the string at the result, or at the end of the buffer.
Terminator(result) ==
  IF ~dest.buffer THEN -1 ELSE IF result < dest.size THEN result ELSE dest.size - 1

Return(result) ==
  /\ pc' = "done"
  /\ ret' = result
  /\ nul' = Terminator(result)
  /\ UNCHANGED <<fmt, ofs>>

\* do_escape: the next segment starts behind the last one.
Proceed(last, read) ==
  IF last = End
    THEN Return(written')
    ELSE /\ pc' = "scan"
         /\ fmt' = fmt + read /\ ofs' = 0
         /\ UNCHANGED <<ret, nul>>

\* Modifiers, known or not, and the end of the format; a width before them is
\* forgotten.
Modifier ==
  /\ pc = "scan" /\ escape
  /\ Behind \notin Conversion \cup {"%"}
  /\ lpref' = CASE Behind = "l" -> lpref + 1
                [] Behind = "j" -> 2
                [] OTHER -> lpref
  /\ UNCHANGED <<call, escape, c, width, outstr, w, n, written, argi, out, failures, errno>>
  /\ Proceed(Behind, ofs + Len(Width) + 1)

-----------------------------------------------------------------------------
(* The pieces of output: flush_str.                                        *)

\* Mutant of Room: the whole piece is taken off what is left.
RoomForAll(len) == n - len

Room(len) == n - MinOf(len, n)

Flush ==
  /\ pc = "flush"
  /\ IF n = 0
       THEN /\ written' = written + Len(outstr)
            /\ Proceed(c, ofs)
            /\ UNCHANGED <<w, n>>
       ELSE /\ w' = MinOf(Len(outstr), n)
            /\ n' = Room(Len(outstr))
            /\ pc' = "pad"
            /\ UNCHANGED <<fmt, ofs, written, ret, nul>>
  /\ UNCHANGED <<call, escape, lpref, c, width, outstr, argi, out, failures, errno>>

\* The callback takes a piece; snprintf()'s does not look at the size.
Accepts(piece) == out' = out \o piece /\ UNCHANGED <<failures, errno>>

\* _fwrite() fails after some bytes, as write() has an error or takes nothing; nothing
\* else can fail.
Refuses(piece) ==
  /\ ~dest.buffer /\ failures < MaxFailures
  /\ failures' = failures + 1
  /\ errno' = errno \/ \E error \in WriteErrno : SET_ERRNO(error)
  /\ \E k \in 0 .. (Len(piece) - 1) : out' = out \o SubSeq(piece, 1, k)

\* A blank before the text.  When it fails, the text follows nevertheless.
Pad ==
  /\ pc = "pad" /\ width > w
  /\ \/ /\ Accepts(<<Blank>>)
        /\ written' = written + 1
        /\ width' = width - 1
        /\ pc' = IF dest.buffer /\ Len(out) = dest.size THEN "overrun" ELSE "pad"
     \/ /\ Refuses(<<Blank>>)
        /\ pc' = "text"
        /\ width' = width - 1
        /\ UNCHANGED written
  /\ UNCHANGED <<call, fmt, ofs, escape, lpref, c, outstr, w, n, argi, ret, nul>>

PadEnds ==
  /\ pc = "pad" /\ width <= w
  /\ pc' = "text"
  /\ UNCHANGED <<call, fmt, ofs, escape, lpref, c, width, outstr, w, n, written, argi, out,
                 failures, ret, nul, errno>>

\* Mutant of WriteText: a piece that fails is skipped.
WriteTextAnyway ==
  LET piece == SubSeq(outstr, 1, w)
  IN  /\ pc = "text"
      /\ Accepts(piece) \/ Refuses(piece)
      /\ written' = written + Len(outstr)
      /\ Proceed(c, ofs)
      /\ UNCHANGED <<call, escape, lpref, c, width, outstr, w, n, argi>>

\* The text, as much of it as the destination takes; all of it is counted.
WriteText ==
  LET piece == SubSeq(outstr, 1, w)
  IN  /\ pc = "text"
      /\ \/ /\ Accepts(piece)
            /\ written' = written + Len(outstr)
            /\ IF dest.buffer /\ Len(out) + w > dest.size
                 THEN pc' = "overrun" /\ UNCHANGED <<fmt, ofs, ret, nul>>
                 ELSE Proceed(c, ofs)
         \/ /\ Refuses(piece)
            /\ UNCHANGED written
            /\ Return(written)
      /\ UNCHANGED <<call, escape, lpref, c, width, outstr, w, n, argi>>

-----------------------------------------------------------------------------
(* The formats, as a program means them: directives with a text or with a   *)
(* conversion, its type and its width.                                     *)

None == ""

Verbatim(text) == [conv |-> None, text |-> text, type |-> None, width |-> 0]

\* The directive from the % at i to its conversion at j.  A width is the number
\* right before the conversion, and before a second % digits are text.
DirectiveAt(i, j) ==
  LET d      == CHOOSE d \in (i + 1) .. j :
                  /\ \A k \in d .. (j - 1) : format[k] \in Digit
                  /\ d = i + 1 \/ format[d - 1] \notin Digit
      digits == SubSeq(format, d, j - 1)
      has(l) == \E k \in i .. j : format[k] = l
      level  == IF has("j") \/ \E k, m \in i .. j : k # m /\ format[k] = "l" /\ format[m] = "l"
                  THEN 2
                ELSE IF has("l") THEN 1 ELSE 0
  IN  IF format[j] = "%" THEN Verbatim(Append(digits, "%"))
      ELSE [conv |-> format[j], text |-> <<>>, width |-> NumberOf(digits),
            type |-> IF format[j] = "s" THEN "str" ELSE TypeOf(format[j], level)]

\* Where the directive that begins at i may end, and where it does.
Ends(i) == {j \in (i + 1) .. Len(format) : format[j] \in Conversion \cup {"%"}}

EndOf(i) == CHOOSE j \in Ends(i) : \A k \in Ends(i) : j <= k

\* The directives from the character i on, by those of the characters behind, later.
ReadingAt(later, i) ==
  IF i > Len(format) THEN <<>>
  ELSE IF format[i] # "%" THEN <<Verbatim(<<format[i]>>)>> \o later[i + 1]
  ELSE IF Ends(i) = {} THEN <<>>
  ELSE <<DirectiveAt(i, EndOf(i))>> \o later[EndOf(i) + 1]

Reading[i \in 1 .. (Len(format) + 1)] == ReadingAt(Reading, i)

Directives == Reading[1]

\* The places in ds that take an argument, and which one each of them takes.
Taking(ds) == {i \in DOMAIN ds : Takes(ds[i].conv)}

ArgumentOf(ds, i) == Cardinality(Taking(ds) \cap 1 .. i)

\* The compiler checks that arguments are of the types the format asks for.
Arguments ==
  LET ds == Directives
  IN  {a \in [1 .. Cardinality(Taking(ds)) -> Argument] :
         \A i \in Taking(ds) : a[ArgumentOf(ds, i)].type = ds[i].type}

Blanks(k) == [i \in 1 .. (IF k > 0 THEN k ELSE 0) |-> Blank]

\* The output of the directive i, and that of the first i of them; errno is that of the call.
TextAt(i) ==
  LET d == Directives[i]
  IN  IF d.conv = None THEN d.text
      ELSE IF Takes(d.conv) THEN Text(d.conv, args[ArgumentOf(Directives, i)])
      ELSE ErrorText(CallErrno)

PieceAt(i) == Blanks(Directives[i].width - Len(TextAt(i))) \o TextAt(i)

Output[i \in 0 .. Len(Directives)] == IF i = 0 THEN <<>> ELSE Output[i - 1] \o PieceAt(i)

\* The whole output of the call.
Expected == Output[Len(Directives)]

HasWidth     == \E i \in DOMAIN Directives : Directives[i].width > 0
HasErrorText == \E i \in DOMAIN Directives : Directives[i].conv = "m"

-----------------------------------------------------------------------------

Dest == {[buffer |-> FALSE, size |-> SizeMax]}
          \cup {[buffer |-> TRUE, size |-> s] : s \in Size \cup {SizeMax}}

Init ==
  /\ format \in Format /\ dest \in Dest /\ args \in Arguments
  /\ fmt = 1 /\ ofs = 0 /\ escape = FALSE /\ lpref = 0 /\ c = End
  /\ width = 0 /\ outstr = <<>> /\ w = 0 /\ n = dest.size
  /\ written = 0 /\ argi = 1 /\ pc = "scan" /\ out = <<>> /\ failures = 0
  /\ ret = -1 /\ nul = -1 /\ errno = CallErrno

Next ==
  \/ Literal
  \/ Segment
  \/ Convert
  \/ Percent
  \/ Modifier
  \/ Flush
  \/ Pad
  \/ PadEnds
  \/ WriteText

Spec == Init /\ [][Next]_vars

-----------------------------------------------------------------------------
(* Properties.                                                             *)

TypeOK ==
  /\ format \in Format /\ args \in Seq(Argument) /\ dest \in Dest
  /\ fmt \in 1 .. (Len(format) + 1) /\ fmt + ofs <= Len(format) + 2 /\ ofs \in Nat
  /\ escape \in BOOLEAN /\ lpref \in Nat /\ width \in Nat
  /\ n \in 0 .. dest.size /\ w \in Nat /\ (pc \in {"pad", "text"} => w <= Len(outstr))
  /\ written \in Nat /\ argi \in 1 .. (Len(args) + 1)
  /\ pc \in {"scan", "flush", "pad", "text", "done", "overrun"}
  /\ failures \in 0 .. MaxFailures
  /\ ret \in Nat \cup {-1} /\ nul \in Nat \cup {-1}
  /\ errno \in {CallErrno} \cup WriteErrno

\* Whether there is room for all of the output: a stream has room for SIZE_MAX
\* characters of each call.
Fits == Len(Expected) < dest.size

\* Without a failure the stream functions print what the format says, directive
\* by directive, and return its length: each conversion gets the argument and
\* the width that are its own, and no modifier is left from the one before.
PrintsFormat ==
  pc = "done" /\ ~dest.buffer /\ failures = 0 /\ Fits => out = Expected /\ ret = Len(out)

\* snprintf() returns the length of the whole output and leaves in the buffer as
\* much of it as fits, with a terminator behind.  Padding is not taken off the
\* room that is left: with a width this is true only of output that fits, and a
\* format without a width never writes past the buffer.
Truncates ==
  /\ pc = "overrun" => HasWidth /\ ~Fits
  /\ pc = "done" /\ dest.buffer /\ dest.size > 0 /\ (HasWidth => Fits) =>
       /\ ret = Len(Expected)
       /\ nul = MinOf(ret, dest.size - 1)
       /\ SubSeq(out, 1, nul) = SubSeq(Expected, 1, nul)

\* A text without its blanks.
NotBlank(s) ==
  LET upto[i \in 0 .. Len(s)] ==
        IF i = 0 THEN <<>>
        ELSE IF s[i] = Blank THEN upto[i - 1] ELSE Append(upto[i - 1], s[i])
  IN  upto[Len(s)]

\* When write() fails, what the stream got is the text up to there, with no piece
\* left out: only blanks may be missing, and the result counts no more than was
\* written.  As the call goes on when padding fails, a %m behind it tells the error of
\* that write and not the one the program asked about: formats that have both a width
\* and a %m are left out.
FailureCutsText ==
  pc = "done" /\ failures > 0 /\ Fits /\ ~(HasWidth /\ HasErrorText) =>
    /\ ret <= Len(out)
    /\ NotBlank(out) = SubSeq(NotBlank(Expected), 1, Len(NotBlank(out)))
=============================================================================
