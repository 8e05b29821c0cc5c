---------------------------- MODULE GetoptProofs ----------------------------
(* Proofs about getopt(), for every argv, every optstring and any number of  *)
(* scans that the program starts over at any moment.                        *)
EXTENDS Getopt, Arithmetic, SequenceTheorems, TLAPS

\* Any string of one character; the provers have to be told that these two are some.
Character == STRING \cup {"-", "p"}

PositionInv ==
  /\ GetoptTypeOK
  /\ argv \in Seq(Seq(Character))
  /\ PositionUnread
  /\ returned = "end" => optind # 0 /\ optpos = 0

-----------------------------------------------------------------------------
(* Types, and the position in a word.                                       *)

\* The first word of argv is a pointer, and so are all the others.
LEMMA ArgvFacts ==
  ASSUME PositionInv
  PROVE  /\ argc \in Nat /\ argc >= 1
         /\ \A i \in 0 .. (argc - 1) : Arg(i) \in Seq(Character)
         /\ optind \in Nat /\ optind <= argc + 1 /\ optpos \in Nat
  BY GetoptAssumption, SMT DEF PositionInv, GetoptTypeOK, argc, Arg

\* A word of options has a character behind its "-".
LEMMA OptionWordIsLong ==
  ASSUME NEW word \in Seq(Character), IsOptionWord(word)
  PROVE  Len(word) >= 2
  <1>1. word # <<>> /\ word[1] = "-" /\ word # <<"-">>
    BY DEF IsOptionWord, IsOperand
  <1>2. Len(word) \in Nat \ {0}
    BY <1>1, EmptySeq
  <1>3. ASSUME Len(word) = 1 PROVE FALSE
    <2>1. "-" \in Character
      BY DEF Character
    <2>2. <<"-">> \in Seq(Character) /\ Len(<<"-">>) = 1 /\ <<"-">>[1] = "-"
      BY <2>1
    <2>3. \A i \in 1 .. Len(word) : word[i] = <<"-">>[i]
      BY <1>1, <1>3, <2>2, SMT
    <2>4. word = <<"-">>
      BY <1>3, <2>2, <2>3, SeqEqual
    <2>5. QED
      BY <1>1, <2>4
  <1>4. \A n \in Nat \ {0} : n # 1 => n >= 2
    BY SMT
  <1>5. QED
    BY <1>2, <1>3, <1>4

\* Where the next call starts: at a word or behind it, or at a character of a word
\* that was not looked at.
LEMMA StartFacts ==
  ASSUME PositionInv
  PROVE  /\ Start.ind \in 1 .. (argc + 1) /\ Start.pos \in Nat
         /\ Start.pos # 0 =>
              /\ Start.ind < argc /\ IsOptionWord(Arg(Start.ind))
              /\ Start.pos < Len(Arg(Start.ind))
         /\ returned = "end" => Start.pos = 0 /\ Start.ind = optind
  <1>1. CASE optind = 0
    <2>1. Start.ind = 1 /\ Start.pos = 0
      BY <1>1 DEF Start
    <2>2. QED
      BY <1>1, <2>1, ArgvFacts, SMT DEF PositionInv
  <1>2. CASE optind # 0
    <2>1. Start.ind = optind /\ Start.pos = optpos
      BY <1>2 DEF Start
    <2>2. QED
      BY <1>2, <2>1, ArgvFacts, SMT DEF PositionInv, PositionUnread
  <1>3. QED
    BY <1>1, <1>2

\* Behind a character of a word of options is the next one or the next word.
LEMMA AdvanceFacts ==
  ASSUME PositionInv, Start.ind < argc, IsOptionWord(Arg(Start.ind))
  PROVE  LET w    == Arg(Start.ind)
             q    == IF Start.pos = 0 THEN 2 ELSE Start.pos + 1
             next == Advance(Start)
         IN  /\ w \in Seq(Character) /\ q \in 2 .. Len(w) /\ w[q] \in Character
             /\ q = Len(w) => next = [ind |-> Start.ind + 1, pos |-> 0]
             /\ q # Len(w) => next = [ind |-> Start.ind, pos |-> q]
  <1> DEFINE w == Arg(Start.ind)
             q == IF Start.pos = 0 THEN 2 ELSE Start.pos + 1
  <1>1. /\ Start.ind \in Nat /\ Start.ind >= 1 /\ Start.ind < argc /\ Start.pos \in Nat
        /\ Start.pos # 0 => Start.pos < Len(w)
    BY StartFacts, ArgvFacts, SMT
  <1>2. w \in Seq(Character)
    BY <1>1, ArgvFacts, SMT
  <1>3. Len(w) \in Nat /\ Len(w) >= 2
    BY <1>2, OptionWordIsLong, LenProperties
  <1>4. q \in 2 .. Len(w)
    BY <1>1, <1>3, SMT
  <1>5. w[q] \in Character
    BY <1>2, <1>3, <1>4, ElementOfSeq, SMT
  <1>6. /\ q = Len(w) => Advance(Start) = [ind |-> Start.ind + 1, pos |-> 0]
        /\ q # Len(w) => Advance(Start) = [ind |-> Start.ind, pos |-> q]
    <2> DEFINE p == IF Start.pos = 0 THEN 1 ELSE Start.pos
    <2>1. p + 1 = q
      BY <1>1, SMT
    <2>2. Advance(Start) = IF p + 1 = Len(w) THEN [ind |-> Start.ind + 1, pos |-> 0]
                          ELSE [ind |-> Start.ind, pos |-> p + 1]
      BY DEF Advance
    <2>3. QED
      BY <2>1, <2>2
  <1>7. QED
    BY <1>2, <1>4, <1>5, <1>6

\* The kinds of a character.
LEMMA KindCases == \A c : Kind(c) \in {"unknown", "flag", "required", "optional"}
  BY DEF Kind

\* What an invariant of the position needs to know of a step.
LEMMA KeepsArguments ==
  ASSUME argv' = argv, NEW i
  PROVE  argc' = argc /\ Arg(i)' = Arg(i)
  BY DEF argc, Arg

\* A call that ends the scan leaves a position of 0.
LEMMA EndsKeepsPosition ==
  ASSUME PositionInv, NEW ind \in 1 .. (argc + 1), Start.pos = 0, Ends(ind)
  PROVE  PositionInv'
  <1>1. /\ optind' = ind /\ optpos' = 0 /\ returned' = "end" /\ ind # 0
        /\ UNCHANGED <<argv, optstring, optarg, rescans>>
    BY ArgvFacts, SMT DEF Ends
  <1>2. argc' = argc
    BY <1>1 DEF argc
  <1>3. GetoptTypeOK'
    BY <1>1, <1>2, ArgvFacts, SMT DEF PositionInv, GetoptTypeOK
  <1>4. QED
    BY <1>1, <1>3 DEF PositionInv, PositionUnread

\* A call that returns a result leaves optind behind a word and the position at 0, or
\* both at a character that was not looked at.
LEMMA ResultKeepsPosition ==
  ASSUME PositionInv, NEW result, Gives(result),
         result.ret \in {"option", "operand", "?", ":"},
         optarg' = optarg \/ optarg' \in (0 .. argc) \X Nat,
         optind' \in 1 .. (argc + 1), optpos' \in Nat,
         optpos' # 0 => /\ optind' < argc /\ IsOptionWord(Arg(optind'))
                        /\ optpos' < Len(Arg(optind'))
  PROVE  PositionInv'
  <1>1. /\ returned' = result.ret /\ returned' # "end"
        /\ UNCHANGED <<argv, optstring, rescans>>
    BY DEF Gives
  <1>2. argc' = argc /\ Arg(optind)' = Arg(optind')
    BY <1>1 DEF argc, Arg
  <1>3. GetoptTypeOK'
    BY <1>1, <1>2, ArgvFacts, SMT DEF PositionInv, GetoptTypeOK
  <1>4. PositionUnread'
    BY <1>2 DEF PositionUnread, IsOptionWord, IsOperand
  <1>5. QED
    BY <1>1, <1>3, <1>4 DEF PositionInv

\* The option at the position is read.
LEMMA OptionKeepsPosition ==
  ASSUME PositionInv, Start.ind < argc, IsOptionWord(Arg(Start.ind)), Option(Start)
  PROVE  PositionInv'
  <1> DEFINE w    == Arg(Start.ind)
             q    == IF Start.pos = 0 THEN 2 ELSE Start.pos + 1
             c    == w[q]
             next == Advance(Start)
  <1>1. /\ w \in Seq(Character) /\ q \in 2 .. Len(w)
        /\ q = Len(w) => next = [ind |-> Start.ind + 1, pos |-> 0]
        /\ q # Len(w) => next = [ind |-> Start.ind, pos |-> q]
    BY AdvanceFacts
  <1>2. /\ argc \in Nat /\ Start.ind \in 1 .. (argc - 1) /\ Len(w) \in Nat
    BY <1>1, StartFacts, ArgvFacts, LenProperties, SMT
  <1>3. /\ next.ind \in 1 .. argc /\ next.pos \in Nat
        /\ next.pos # 0 => /\ next.ind < argc /\ IsOptionWord(Arg(next.ind))
                           /\ next.pos < Len(Arg(next.ind))
    <2>1. CASE q = Len(w)
      <3>1. next.ind = Start.ind + 1 /\ next.pos = 0
        BY <1>1, <2>1
      <3>2. QED
        BY <1>2, <3>1, SMT
    <2>2. CASE q # Len(w)
      <3>1. next.ind = Start.ind /\ next.pos = q
        BY <1>1, <2>2
      <3>2. q < Len(w)
        BY <1>1, <1>2, <2>2, SMT
      <3>3. QED
        BY <1>1, <1>2, <3>1, <3>2, SMT
    <2>3. QED
      BY <2>1, <2>2
  <1>4. Null \in (0 .. argc) \X Nat
    BY <1>2, SMT DEF Null
  <1>5. Option(Start) = CASE Kind(c) = "unknown" -> UnknownOption(c, next)
                          [] Kind(c) = "flag" -> Flag(c, next)
                          [] OTHER -> IF TakesWord(c, next) THEN WithArgument(c, next)
                                      ELSE WithoutArgument(c, next)
    BY DEF Option
  <1> HIDE DEF w, q, c, next
  <1>6. CASE Kind(c) = "unknown"
    <2>1. UnknownOption(c, next)
      BY <1>5, <1>6
    <2>2. /\ optind' = next.ind /\ optpos' = next.pos /\ UNCHANGED optarg
          /\ Gives(Result("?", c, Null)) /\ Result("?", c, Null).ret = "?"
      BY <2>1 DEF UnknownOption, Result
    <2>3. QED
      BY <1>2, <1>3, <2>2, ResultKeepsPosition, SMT
  <1>7. CASE Kind(c) = "flag"
    <2>1. Flag(c, next)
      BY <1>5, <1>7
    <2>2. /\ optind' = next.ind /\ optpos' = next.pos /\ UNCHANGED optarg
          /\ Gives(Result("option", c, Null)) /\ Result("option", c, Null).ret = "option"
      BY <2>1 DEF Flag, Result
    <2>3. QED
      BY <1>2, <1>3, <2>2, ResultKeepsPosition, SMT
  <1>8. CASE Kind(c) \notin {"unknown", "flag"} /\ TakesWord(c, next)
    <2> DEFINE arg == IF next.ind = argc THEN Null ELSE <<next.ind, next.pos>>
               mark == IF Silent THEN ":" ELSE "?"
    <2>1. WithArgument(c, next)
      BY <1>5, <1>8
    <2>2. /\ optpos' = 0 /\ optarg' = arg /\ optind' = next.ind + 1
          /\ \/ Gives(Result(mark, c, Null))
             \/ Gives(Result("option", c, arg))
      BY <2>1 DEF WithArgument, BehindArgument
    <2>3. arg \in (0 .. argc) \X Nat /\ optind' \in 1 .. (argc + 1)
      BY <1>2, <1>3, <1>4, <2>2, SMT
    <2>4. /\ Result(mark, c, Null).ret \in {"option", "operand", "?", ":"}
          /\ Result("option", c, arg).ret \in {"option", "operand", "?", ":"}
      BY DEF Result
    <2>5. QED
      BY <2>2, <2>3, <2>4, ResultKeepsPosition, SMT
  <1>9. CASE Kind(c) \notin {"unknown", "flag"} /\ ~TakesWord(c, next)
    <2>1. WithoutArgument(c, next)
      BY <1>5, <1>9
    <2>2. /\ optind' = next.ind /\ optpos' = next.pos /\ optarg' = Null
          /\ Gives(Result("option", c, Null)) /\ Result("option", c, Null).ret = "option"
      BY <2>1 DEF WithoutArgument, Result
    <2>3. QED
      BY <1>2, <1>3, <1>4, <2>2, ResultKeepsPosition, SMT
  <1>10. QED
    BY <1>6, <1>7, <1>8, <1>9

LEMMA PositionInvInit == GetoptInit => PositionInv
  <1> SUFFICES ASSUME GetoptInit PROVE PositionInv
    OBVIOUS
  <1>1. PICK n \in Argc : argv \in {<<Program>> \o words : words \in [1 .. (n - 1) -> Word]}
    BY DEF GetoptInit
  <1>2. PICK words \in [1 .. (n - 1) -> Word] : argv = <<Program>> \o words
    BY <1>1
  <1>3. n \in Nat /\ n >= 1
    BY GetoptAssumption, SMT
  <1>4. words \in Seq(Seq(Character)) /\ Len(words) = n - 1
    <2>1. Seq(STRING) \subseteq Seq(Character)
      BY SeqMonotonic DEF Character
    <2>2. words \in [1 .. (n - 1) -> Seq(Character)]
      BY <2>1, GetoptAssumption
    <2>3. n - 1 \in Nat
      BY <1>3, SMT
    <2>4. QED
      BY <2>2, <2>3, SMT
  <1>5. <<Program>> \in Seq(Seq(Character)) /\ Len(<<Program>>) = 1
    BY DEF Program, Character
  <1>6. argv \in Seq(Seq(Character)) /\ argc = n
    BY <1>2, <1>3, <1>4, <1>5, ConcatProperties, SMT DEF argc
  <1>7. GetoptTypeOK
    BY <1>3, <1>6, GetoptAssumption, SMT DEF GetoptInit, GetoptTypeOK, Null
  <1>8. QED
    BY <1>6, <1>7 DEF GetoptInit, PositionInv, PositionUnread

LEMMA PositionInvNext == PositionInv /\ [GetoptNext]_getoptVars => PositionInv'
  <1> SUFFICES ASSUME PositionInv, [GetoptNext]_getoptVars PROVE PositionInv'
    OBVIOUS
  <1>1. ASSUME NextCall PROVE PositionInv'
    <2>1. getopt
      BY <1>1 DEF NextCall
    <2>2. /\ Start.ind \in 1 .. (argc + 1) /\ argc \in Nat
          /\ Start.pos # 0 => Start.ind < argc /\ IsOptionWord(Arg(Start.ind))
      BY StartFacts, ArgvFacts
    <2>3. CASE Start.ind >= argc
      <3>1. Ends(Start.ind) /\ Start.pos = 0
        BY <2>1, <2>2, <2>3, SMT DEF getopt
      <3>2. QED
        BY <2>2, <3>1, EndsKeepsPosition
    <2>4. CASE ~(Start.ind >= argc)
      <3> DEFINE w == Arg(Start.ind)
      <3>1. GetoptAt(Start, w)
        BY <2>1, <2>4 DEF getopt
      <3>2. Start.ind < argc
        BY <2>2, <2>4, SMT
      <3>3. ASSUME IsOperand(w), Operand(Start) PROVE PositionInv'
        <4>1. /\ optind' = Start.ind + 1 /\ optarg' = <<Start.ind, 0>> /\ optpos' = 0
              /\ Gives(Result("operand", "-", <<Start.ind, 0>>))
              /\ Result("operand", "-", <<Start.ind, 0>>).ret = "operand"
          BY <2>2, <3>3 DEF Operand, IsOptionWord, Result
        <4>2. optind' \in 1 .. (argc + 1) /\ optarg' \in (0 .. argc) \X Nat
          BY <2>2, <3>2, <4>1, SMT
        <4>3. QED
          BY <4>1, <4>2, ResultKeepsPosition
      <3>4. ASSUME ~IsOptionWord(w), NEW ind \in 1 .. (argc + 1), Ends(ind) PROVE PositionInv'
        <4>1. Start.pos = 0
          BY <2>2, <3>4
        <4>2. QED
          BY <3>4, <4>1, EndsKeepsPosition
      <3>5. ASSUME w = <<"-", "-">>, EndOfOptions(Start) PROVE PositionInv'
        <4>1. Ends(Start.ind + 1) /\ Start.ind + 1 \in 1 .. (argc + 1) /\ ~IsOptionWord(w)
          BY <2>2, <3>2, <3>5, SMT DEF EndOfOptions, IsOptionWord
        <4>2. QED
          BY <3>4, <4>1
      <3>6. QED
        BY <2>2, <3>1, <3>2, <3>3, <3>4, <3>5, OptionKeepsPosition DEF GetoptAt, IsOptionWord
    <2>5. QED
      BY <2>3, <2>4
  <1>2. ASSUME Rescan PROVE PositionInv'
    <2>1. PICK ind \in {0, 1} :
            /\ ind = 1 => returned = "end"
            /\ StartsOver(ind)
      BY <1>2 DEF Rescan
    <2>2. /\ optind' = ind /\ returned' = "none" /\ rescans' \in 0 .. MaxRescans
          /\ UNCHANGED <<argv, optstring, optarg, optpos>>
      BY <2>1, GetoptAssumption, SMT DEF StartsOver, PositionInv, GetoptTypeOK
    <2>3. argc' = argc
      BY <2>2 DEF argc
    <2>4. GetoptTypeOK'
      BY <2>1, <2>2, <2>3, ArgvFacts, SMT DEF PositionInv, GetoptTypeOK
    <2>5. PositionUnread'
      BY <2>1, <2>2 DEF PositionInv, PositionUnread
    <2>6. QED
      BY <2>2, <2>4, <2>5 DEF PositionInv
  <1>3. CASE UNCHANGED getoptVars
    BY <1>3 DEF getoptVars, PositionInv, GetoptTypeOK, PositionUnread, argc, Arg, IsOptionWord, IsOperand
  <1>4. QED
    BY <1>1, <1>2, <1>3 DEF GetoptNext

-----------------------------------------------------------------------------
(* The reading of argv.                                                    *)

\* The reading from a word on depends on that from later words only.
LEMMA LaterWordsOnly ==
  ASSUME argc \in Nat, NEW f, NEW g, NEW i \in 1 .. (argc + 1),
         \A k \in (i + 1) .. (argc + 1) : f[k] = g[k]
  PROVE  ReadingAt(f, i) = ReadingAt(g, i)
  <1>1. CASE i >= argc
    BY <1>1 DEF ReadingAt
  <1>2. CASE ~(i >= argc)
    <2>1. i + 1 \in (i + 1) .. (argc + 1) /\ i + 2 \in (i + 1) .. (argc + 1)
      BY <1>2, SMT
    <2>2. f[i + 1] = g[i + 1] /\ f[i + 2] = g[i + 2]
      BY <2>1
    <2>3. QED
      BY <2>2 DEF ReadingAt
  <1>3. QED
    BY <1>1, <1>2

\* The function Reading is what its definition says: there is such a function, made
\* from the last word on.
LEMMA ReadingIsRead ==
  ASSUME argc \in Nat
  PROVE  \A i \in 1 .. (argc + 1) : Reading[i] = ReadingAt(Reading, i)
  <1> DEFINE Reads(f, n) == \A i \in (argc + 1 - n) .. (argc + 1) : f[i] = ReadingAt(f, i)
             Bad == {n \in 0 .. argc : ~ \E f : Reads(f, n)}
  <1>1. Bad \subseteq 0 .. argc /\ 0 .. argc \subseteq Nat
    BY SMT
  <1> HIDE DEF Bad
  <1>2. ASSUME Bad # {} PROVE FALSE
    <2>1. PICK n \in Bad : \A m \in Bad : n <= m
      BY <1>1, <1>2, LowestNatural
    <2>2. n \in 0 .. argc /\ ~ \E f : Reads(f, n)
      BY <2>1 DEF Bad
    <2> DEFINE at == argc + 1 - n
    <2>3. at \in 1 .. (argc + 1) /\ argc + 1 \in Nat
      BY <2>2, SMT
    <2>4. CASE n = 0
      <3> DEFINE f == [i \in {argc + 1} |-> Nothing(i)]
      <3>1. at = argc + 1 /\ \A i \in at .. (argc + 1) : i = argc + 1
        BY <2>3, <2>4, SMT
      <3>2. f[argc + 1] = Nothing(argc + 1)
        OBVIOUS
      <3>3. argc + 1 >= argc
        BY SMT
      <3>4. ReadingAt(f, argc + 1) = Nothing(argc + 1)
        BY <3>3 DEF ReadingAt
      <3>5. Reads(f, n)
        BY <3>1, <3>2, <3>4
      <3>6. QED
        BY <2>2, <3>5
    <2>5. CASE n # 0
      <3>1. n - 1 \in 0 .. argc /\ ~(n <= n - 1) /\ argc + 1 - (n - 1) = at + 1
        BY <2>2, <2>5, SMT
      <3>2. PICK f : Reads(f, n - 1)
        BY <2>1, <3>1 DEF Bad
      <3> DEFINE g == [i \in at .. (argc + 1) |-> IF i = at THEN ReadingAt(f, i) ELSE f[i]]
      <3>3. \A k \in (at + 1) .. (argc + 1) : g[k] = f[k] /\ f[k] = ReadingAt(f, k)
        BY <2>3, <3>1, <3>2, SMT
      <3>4. g[at] = ReadingAt(f, at)
        BY <2>3, SMT
      <3> HIDE DEF g, at
      <3>5. ASSUME NEW i \in at .. (argc + 1) PROVE g[i] = ReadingAt(g, i)
        <4>1. i \in 1 .. (argc + 1) /\ \A k \in (i + 1) .. (argc + 1) : g[k] = f[k]
          BY <2>3, <3>3, SMT
        <4>2. ReadingAt(g, i) = ReadingAt(f, i)
          BY <4>1, LaterWordsOnly
        <4>3. i = at \/ i \in (at + 1) .. (argc + 1)
          BY <2>3, SMT
        <4>4. QED
          BY <3>3, <3>4, <4>2, <4>3
      <3>6. Reads(g, n)
        BY <3>5 DEF at
      <3>7. QED
        BY <2>2, <3>6
    <2>6. QED
      BY <2>4, <2>5
  <1>3. argc \in 0 .. argc /\ argc + 1 - argc = 1
    BY SMT
  <1>4. PICK f : Reads(f, argc)
    BY <1>2, <1>3 DEF Bad
  <1> DEFINE g == [i \in 1 .. (argc + 1) |-> f[i]]
  <1>5. \A i \in 1 .. (argc + 1) : g[i] = f[i] /\ f[i] = ReadingAt(f, i)
    BY <1>3, <1>4
  <1>6. ASSUME NEW i \in 1 .. (argc + 1) PROVE ReadingAt(g, i) = f[i]
    <2>1. \A k \in (i + 1) .. (argc + 1) : g[k] = f[k]
      BY <1>5, SMT
    <2>2. QED
      BY <1>5, <2>1, LaterWordsOnly
  <1>7. g = [i \in 1 .. (argc + 1) |-> ReadingAt(g, i)]
    BY <1>6
  <1>8. Reading = CHOOSE r : r = [i \in 1 .. (argc + 1) |-> ReadingAt(r, i)]
    BY DEF Reading
  <1> HIDE DEF g
  <1>9. Reading = [i \in 1 .. (argc + 1) |-> ReadingAt(Reading, i)]
    BY <1>7, <1>8
  <1>10. QED
    BY <1>9

-----------------------------------------------------------------------------
(* The words of options.                                                   *)

Results == [ret : {"option", "operand", "?", ":"}, chr : Character, arg : Nat \X Nat]

LEMMA ResultIsOne ==
  ASSUME NEW r \in {"option", "operand", "?", ":"}, NEW c \in Character, NEW arg \in Nat \X Nat
  PROVE  Result(r, c, arg) \in Results
  BY DEF Result, Results

LEMMA NullIsOne == Null \in Nat \X Nat
  BY DEF Null

\* What FlagResults gives: the flags of the word in their order, up to its end or to the
\* first option with an argument.
LEMMA FlagFacts ==
  ASSUME NEW word \in Seq(Character), Len(word) >= 1
  PROVE  LET flags == FlagResults(word)
         IN  /\ flags \in Seq(Results) /\ Len(flags) \in 0 .. (Len(word) - 1)
             /\ IF ArgumentAt(word) = {} THEN Len(flags) = Len(word) - 1
                ELSE Len(flags) + 2 \in ArgumentAt(word)
             /\ \A k \in 1 .. Len(flags) :
                  /\ k + 1 \notin ArgumentAt(word)
                  /\ flags[k] = Result(IF Kind(word[k + 1]) = "unknown" THEN "?" ELSE "option",
                                       word[k + 1], Null)
  <1> DEFINE A     == ArgumentAt(word)
             first == CHOOSE k \in A : \A j \in A : k <= j
             end   == IF A = {} THEN Len(word) ELSE first - 1
             what(k) == Result(IF Kind(word[k + 1]) = "unknown" THEN "?" ELSE "option",
                               word[k + 1], Null)
             flags == FlagResults(word)
  <1>1. flags = [k \in 1 .. (end - 1) |-> what(k)]
    BY DEF FlagResults
  <1>2. Len(word) \in Nat /\ A \subseteq 2 .. Len(word)
    BY LenProperties DEF ArgumentAt, Characters
  <1>3. A # {} => first \in A /\ \A j \in A : first <= j
    <2>1. SUFFICES ASSUME A # {} PROVE \E k \in A : \A j \in A : k <= j
      OBVIOUS
    <2>2. A \subseteq Nat
      BY <1>2, SMT
    <2> HIDE DEF A
    <2>3. QED
      BY <2>1, <2>2, LowestNatural
  <1>4. end \in 1 .. Len(word) /\ \A k \in 1 .. (end - 1) : k + 1 \notin A /\ k + 1 \in 1 .. Len(word)
    <2> HIDE DEF A, first
    <2>1. CASE A = {}
      BY <1>2, <2>1, SMT
    <2>2. CASE A # {}
      <3>1. first \in A /\ first \in 2 .. Len(word) /\ end = first - 1
        BY <1>2, <1>3, <2>2
      <3>2. end \in 1 .. Len(word)
        BY <1>2, <3>1, SMT
      <3>3. ASSUME NEW k \in 1 .. (end - 1) PROVE k + 1 \notin A /\ k + 1 \in 1 .. Len(word)
        <4>1. k + 1 \in 1 .. Len(word) /\ ~(first <= k + 1)
          BY <1>2, <3>1, <3>2, SMT
        <4>2. QED
          BY <1>3, <2>2, <4>1
      <3>4. QED
        BY <3>2, <3>3
    <2>3. QED
      BY <2>1, <2>2
  <1>5. ASSUME NEW k \in 1 .. (end - 1) PROVE what(k) \in Results
    <2>1. k + 1 \in 1 .. Len(word)
      BY <1>4
    <2>2. word[k + 1] \in Character
      BY <2>1, ElementOfSeq
    <2>3. QED
      BY <2>2, ResultIsOne, NullIsOne
  <1> HIDE DEF end, flags, what
  <1>6. flags \in Seq(Results) /\ Len(flags) = end - 1 /\ \A k \in 1 .. (end - 1) : flags[k] = what(k)
    <2>1. end - 1 \in Nat
      BY <1>2, <1>4, SMT
    <2>2. flags \in [1 .. (end - 1) -> Results]
      BY <1>1, <1>5
    <2>3. QED
      BY <1>1, <2>1, <2>2, SMT
  <1>7. IF A = {} THEN Len(flags) = Len(word) - 1 ELSE Len(flags) + 2 \in A
    <2> HIDE DEF A, first
    <2>1. CASE A = {}
      BY <1>6, <2>1 DEF end
    <2>2. CASE A # {}
      <3>1. first \in A /\ end = first - 1
        BY <1>3, <2>2 DEF end
      <3>2. first \in Int
        BY <1>2, <3>1, SMT
      <3>3. Len(flags) + 2 = first
        BY <1>6, <3>1, <3>2, SMT
      <3>4. QED
        BY <2>2, <3>1, <3>3
    <2>3. QED
      BY <2>1, <2>2
  <1>8. QED
    BY <1>2, <1>4, <1>6, <1>7, SMT DEF what, flags

-----------------------------------------------------------------------------
(* The reading, word by word.                                              *)

ArgvOK == argc \in Nat /\ argc >= 1 /\ argv \in Seq(Seq(Character))

\* At and behind argc nothing is left.
LEMMA ReadingBehind ==
  ASSUME ArgvOK, NEW i \in 1 .. (argc + 1), i >= argc
  PROVE  Reading[i] = Nothing(i)
  BY ReadingIsRead DEF ArgvOK, ReadingAt

\* Words that are no options.
LEMMA ReadingOfOthers ==
  ASSUME ArgvOK, NEW i \in 1 .. (argc - 1), ~IsOptionWord(Arg(i))
  PROVE  /\ IsOperand(Arg(i)) /\ Operands =>
              Reading[i] = Before(<<Result("operand", "-", <<i, 0>>)>>, Reading[i + 1])
         /\ IsOperand(Arg(i)) /\ ~Operands => Reading[i] = Nothing(i)
         /\ Arg(i) = <<"-">> => Reading[i] = Nothing(i)
         /\ Arg(i) = <<"-", "-">> => Reading[i] = Nothing(i + 1)
         /\ IsOperand(Arg(i)) \/ Arg(i) \in {<<"-">>, <<"-", "-">>}
  <1>1. i \in 1 .. (argc + 1) /\ ~(i >= argc)
    BY SMT DEF ArgvOK
  <1>2. Reading[i] = ReadingAt(Reading, i)
    BY <1>1, ReadingIsRead DEF ArgvOK
  <1>3. ~IsOperand(<<"-">>) /\ ~IsOperand(<<"-", "-">>) /\ <<"-">> # <<"-", "-">>
    BY DEF IsOperand
  <1> DEFINE w == Arg(i)
  <1>4. CASE IsOperand(w)
    <2>1. w # <<"-">> /\ w # <<"-", "-">>
      BY <1>3, <1>4
    <2>2. ReadingAt(Reading, i) =
            IF Operands THEN Before(<<Result("operand", "-", <<i, 0>>)>>, Reading[i + 1])
            ELSE Nothing(i)
      BY <1>1, <1>4, <2>1 DEF ReadingAt, IsOptionWord
    <2>3. QED
      BY <1>2, <1>4, <2>1, <2>2
  <1>5. CASE w = <<"-">>
    <2>1. ReadingAt(Reading, i) = Nothing(i)
      BY <1>1, <1>3, <1>5 DEF ReadingAt, IsOptionWord
    <2>2. QED
      BY <1>2, <1>3, <1>5, <2>1
  <1>6. CASE w = <<"-", "-">>
    <2>1. ReadingAt(Reading, i) = Nothing(i + 1)
      BY <1>1, <1>3, <1>6 DEF ReadingAt, IsOptionWord
    <2>2. QED
      BY <1>2, <1>3, <1>6, <2>1
  <1>7. QED
    BY <1>4, <1>5, <1>6 DEF IsOptionWord

\* The option with an argument of the word i, at the character at, and the word the
\* reading goes on at behind it.
LastOf(i, at) ==
  LET w == Arg(i)
  IN  IF Len(w) > at THEN Result("option", w[at], <<i, at>>)
      ELSE IF Kind(w[at]) = "optional" THEN Result("option", w[at], Null)
      ELSE IF i + 1 < argc THEN Result("option", w[at], <<i + 1, 0>>)
      ELSE Result(IF Silent THEN ":" ELSE "?", w[at], Null)

NextOf(i, at) ==
  LET w == Arg(i)
  IN  IF Len(w) > at \/ Kind(w[at]) = "optional" THEN i + 1 ELSE i + 2

\* A word of options.
LEMMA ReadingOfOptions ==
  ASSUME ArgvOK, NEW i \in 1 .. (argc - 1), IsOptionWord(Arg(i)), Arg(i) \in Seq(Character)
  PROVE  LET flags == FlagResults(Arg(i))
             at    == Len(flags) + 2
         IN  /\ at > Len(Arg(i)) => Reading[i] = Before(flags, Reading[i + 1])
             /\ at <= Len(Arg(i)) =>
                  /\ Reading[i] = Before(Append(flags, LastOf(i, at)), Reading[NextOf(i, at)])
                  /\ NextOf(i, at) \in 1 .. (argc + 1)
  <1> DEFINE w     == Arg(i)
             flags == FlagResults(w)
             at    == Len(flags) + 2
             body  == ReadingAt(Reading, i)
  <1>1. i \in 1 .. (argc + 1) /\ ~(i >= argc) /\ i + 1 \in 1 .. (argc + 1)
    BY SMT DEF ArgvOK
  <1>2. Reading[i] = body
    BY <1>1, ReadingIsRead DEF ArgvOK
  <1>3. ~IsOperand(w) /\ w # <<"-">> /\ w # <<"-", "-">>
    BY DEF IsOptionWord
  <1>4. at \in Nat /\ Len(w) \in Nat
    BY OptionWordIsLong, FlagFacts, LenProperties, SMT
  <1>5. /\ at > Len(w) => body = Before(flags, Reading[i + 1])
        /\ ~(at > Len(w)) /\ at <= Len(w) /\ Len(w) > at =>
             body = Before(Append(flags, Result("option", w[at], <<i, at>>)), Reading[i + 1])
        /\ ~(at > Len(w)) /\ ~(Len(w) > at) /\ at = Len(w) /\ Kind(w[at]) = "optional" =>
             body = Before(Append(flags, Result("option", w[at], Null)), Reading[i + 1])
        /\ ~(at > Len(w)) /\ ~(Len(w) > at) /\ at = Len(w) /\ Kind(w[at]) # "optional" =>
             body = IF i + 1 < argc
                      THEN Before(Append(flags, Result("option", w[at], <<i + 1, 0>>)),
                                  Reading[i + 2])
                      ELSE Before(Append(flags, Result(IF Silent THEN ":" ELSE "?", w[at], Null)),
                                  Nothing(i + 2))
    BY <1>1, <1>3 DEF ReadingAt
  <1>6. i + 1 >= argc => i + 2 >= argc /\ Reading[i + 2] = Nothing(i + 2)
    <2>1. i + 1 >= argc => i + 2 \in 1 .. (argc + 1) /\ i + 2 >= argc
      BY <1>1, SMT DEF ArgvOK
    <2>2. QED
      BY <2>1, ReadingBehind
  <1>7. i + 2 \in 1 .. (argc + 1) /\ (i + 1 < argc \/ i + 1 >= argc)
    BY <1>1, SMT DEF ArgvOK
  <1> HIDE DEF w, flags, at, body
  <1>8. CASE at > Len(w)
    <2>1. ~(at <= Len(w))
      BY <1>4, <1>8, SMT
    <2>2. QED
      BY <1>2, <1>5, <1>8, <2>1 DEF at, w, flags
  <1>9. CASE Len(w) > at
    <2>1. ~(at > Len(w)) /\ at <= Len(w)
      BY <1>4, <1>9, SMT
    <2>2. /\ LastOf(i, at) = Result("option", w[at], <<i, at>>) /\ NextOf(i, at) = i + 1
      BY <1>9 DEF LastOf, NextOf, w
    <2>3. Reading[i] = Before(Append(flags, LastOf(i, at)), Reading[NextOf(i, at)])
      BY <1>2, <1>5, <1>9, <2>1, <2>2
    <2>4. QED
      BY <1>1, <2>1, <2>2, <2>3 DEF at, w, flags
  <1>10. CASE at = Len(w)
    <2>1. ~(at > Len(w)) /\ ~(Len(w) > at)
      BY <1>4, <1>10, SMT
    <2>2. CASE Kind(w[at]) = "optional"
      <3>1. LastOf(i, at) = Result("option", w[at], Null) /\ NextOf(i, at) = i + 1
        BY <2>1, <2>2 DEF LastOf, NextOf, w
      <3>2. Reading[i] = Before(Append(flags, LastOf(i, at)), Reading[NextOf(i, at)])
        BY <1>2, <1>5, <1>10, <2>1, <2>2, <3>1
      <3>3. QED
        BY <1>1, <2>1, <3>1, <3>2 DEF at, w, flags
    <2>3. CASE Kind(w[at]) # "optional"
      <3>1. /\ NextOf(i, at) = i + 2
            /\ LastOf(i, at) = IF i + 1 < argc THEN Result("option", w[at], <<i + 1, 0>>)
                               ELSE Result(IF Silent THEN ":" ELSE "?", w[at], Null)
        BY <2>1, <2>3 DEF LastOf, NextOf, w
      <3>2. Reading[i] = Before(Append(flags, LastOf(i, at)), Reading[NextOf(i, at)])
        BY <1>2, <1>5, <1>6, <1>7, <1>10, <2>1, <2>3, <3>1
      <3>3. QED
        BY <1>7, <2>1, <3>1, <3>2 DEF at, w, flags
    <2>4. QED
      BY <2>2, <2>3
  <1>11. at > Len(w) \/ Len(w) > at \/ at = Len(w)
    <2>1. \A k, l \in Nat : k > l \/ l > k \/ k = l
      BY SMT
    <2>2. QED
      BY <1>4, <2>1
  <1>12. QED
    BY <1>8, <1>9, <1>10, <1>11

\* The results of a reading are results, and behind the words that are no options it
\* has none.
LEMMA ReadingTypes ==
  ASSUME ArgvOK
  PROVE  \A i \in 1 .. (argc + 1) : Reading[i].results \in Seq(Results)
  <1> DEFINE Good(i) == Reading[i].results \in Seq(Results)
             Bad == {n \in 0 .. argc : ~Good(argc + 1 - n)}
  <1>1. Bad \subseteq 0 .. argc /\ 0 .. argc \subseteq Nat
    BY SMT DEF ArgvOK
  <1>2. \A i : Nothing(i).results \in Seq(Results)
    BY DEF Nothing
  <1>3. ASSUME NEW s \in Seq(Results), NEW j, Good(j)
        PROVE  Before(s, Reading[j]).results \in Seq(Results)
    BY <1>3, ConcatProperties DEF Before
  <1>4. ASSUME Bad # {} PROVE FALSE
    <2> HIDE DEF Bad
    <2>1. PICK n \in Bad : \A m \in Bad : n <= m
      BY <1>1, <1>4, LowestNatural
    <2> DEFINE i == argc + 1 - n
               w == Arg(i)
               flags == FlagResults(w)
               at == Len(flags) + 2
    <2>2. n \in 0 .. argc /\ ~Good(i)
      BY <2>1 DEF Bad
    <2>3. i \in 1 .. (argc + 1)
      BY <2>2, SMT DEF ArgvOK
    <2>4. ASSUME NEW j \in (i + 1) .. (argc + 1) PROVE Good(j)
      <3>1. argc + 1 - j \in 0 .. argc /\ ~(n <= argc + 1 - j) /\ argc + 1 - (argc + 1 - j) = j
        BY <2>2, <2>3, SMT DEF ArgvOK
      <3>2. argc + 1 - j \notin Bad
        BY <2>1, <3>1
      <3>3. QED
        BY <3>1, <3>2 DEF Bad
    <2> HIDE DEF Good, i
    <2>5. CASE i >= argc
      <3>1. Reading[i] = Nothing(i)
        BY <2>3, <2>5, ReadingBehind
      <3>2. QED
        BY <1>2, <2>2, <3>1 DEF Good
    <2>6. CASE ~(i >= argc)
      <3>1. /\ i \in 1 .. (argc - 1) /\ i + 1 \in (i + 1) .. (argc + 1)
            /\ i + 2 \in (i + 1) .. (argc + 1)
        BY <2>3, <2>6, SMT DEF ArgvOK
      <3>2. w \in Seq(Character)
        BY <3>1, ElementOfSeq, SMT DEF ArgvOK, Arg, argc
      <3>3. CASE IsOptionWord(w)
        <4>1. /\ Len(w) \in Nat /\ Len(w) >= 2
              /\ flags \in Seq(Results) /\ Len(flags) \in Nat
          BY <3>2, <3>3, OptionWordIsLong, FlagFacts, LenProperties, SMT
        <4>2. CASE at > Len(w)
          <5>1. Reading[i] = Before(flags, Reading[i + 1])
            BY <3>1, <3>2, <3>3, <4>2, ReadingOfOptions
          <5>2. QED
            BY <1>3, <2>2, <2>4, <3>1, <4>1, <5>1 DEF Good
        <4>3. CASE at <= Len(w)
          <5>1. Reading[i] = Before(Append(flags, LastOf(i, at)), Reading[NextOf(i, at)])
            BY <3>1, <3>2, <3>3, <4>3, ReadingOfOptions
          <5>2. at \in 1 .. Len(w) /\ i \in Nat
            BY <3>1, <4>1, <4>3, SMT
          <5>3. LastOf(i, at) \in Results
            <6>1. w[at] \in Character
              BY <3>2, <5>2, ElementOfSeq
            <6>2. <<i, at>> \in Nat \X Nat /\ <<i + 1, 0>> \in Nat \X Nat
              BY <4>1, <5>2, SMT
            <6>3. QED
              BY <6>1, <6>2, NullIsOne, ResultIsOne DEF LastOf
          <5>4. Append(flags, LastOf(i, at)) \in Seq(Results)
            BY <4>1, <5>3, AppendProperties
          <5>5. NextOf(i, at) \in (i + 1) .. (argc + 1)
            BY <3>1 DEF NextOf
          <5>6. Good(NextOf(i, at))
            BY <2>4, <5>5
          <5>7. QED
            BY <1>3, <2>2, <5>1, <5>4, <5>6 DEF Good
        <4>4. QED
          BY <4>1, <4>2, <4>3, SMT
      <3>4. CASE ~IsOptionWord(w)
        <4>1. <<i, 0>> \in Nat \X Nat /\ "-" \in Character /\ <<>> \in Seq(Results)
          BY <3>1, SMT DEF Character
        <4>2. Result("operand", "-", <<i, 0>>) \in Results
          BY <4>1, ResultIsOne
        <4>3. <<Result("operand", "-", <<i, 0>>)>> \in Seq(Results)
          BY <4>2
        <4>4. Good(i + 1)
          BY <2>4, <3>1
        <4>5. Before(<<Result("operand", "-", <<i, 0>>)>>, Reading[i + 1]).results \in Seq(Results)
          BY <1>3, <4>3, <4>4
        <4>6. QED
          BY <1>2, <2>2, <3>1, <3>4, <4>5, ReadingOfOthers DEF Good
      <3>5. QED
        BY <3>3, <3>4
    <2>7. QED
      BY <2>5, <2>6
  <1>5. ASSUME NEW i \in 1 .. (argc + 1) PROVE Good(i)
    <2>1. argc + 1 - i \in 0 .. argc /\ argc + 1 - (argc + 1 - i) = i
      BY SMT DEF ArgvOK
    <2>2. Good(argc + 1 - (argc + 1 - i))
      BY <1>4, <2>1
    <2>3. QED
      BY <2>1, <2>2
  <1>6. QED
    BY <1>5

-----------------------------------------------------------------------------
(* What the calls have returned so far.                                    *)

\* The reading of argv is k results, and then that from the word i on.
Matched(k, i) ==
  /\ Reference.ind = Reading[i].ind
  /\ Len(Reference.results) = k + Len(Reading[i].results)
  /\ \A m \in 1 .. Len(Reading[i].results) :
       Reference.results[k + m] = Reading[i].results[m]

\* The results l are the first ones of the reading.
IsRead(l) == \A m \in 1 .. Len(l) : /\ m <= Len(Reference.results)
                                    /\ l[m] = Reference.results[m]

\* How many results there were in the word of a position.
Passed(pos) == IF pos = 0 THEN 0 ELSE pos - 1

\* With the results l the calls have come to a position: to a word, or behind flags of
\* a word of options, for each of which there was a result.
ReadSoFar(l, ind, pos) ==
  /\ \A q \in 2 .. pos : q \notin ArgumentAt(Arg(ind))
  /\ Passed(pos) <= Len(l)
  /\ Matched(Len(l) - Passed(pos), ind)

ReadingInv ==
  /\ log \in Seq(Results)
  /\ IsRead(log)
  /\ returned # "end" => ReadSoFar(log, Start.ind, Start.pos)
  /\ returned = "end" => Len(log) = Len(Reference.results) /\ optind = Reference.ind

GetoptInv == PositionInv /\ ReadingInv

\* The reading does not change while the arguments do not.
LEMMA ReadingKept ==
  ASSUME argv' = argv, optstring' = optstring
  PROVE  /\ Reading' = Reading /\ Reference' = Reference
         /\ \A ind : Arg(ind)' = Arg(ind)
         /\ \A word : ArgumentAt(word)' = ArgumentAt(word)
  <1>1. argc' = argc /\ Operands' = Operands /\ Opts' = Opts /\ \A ind : Arg(ind)' = Arg(ind)
    BY DEF argc, Operands, Opts, Arg
  <1>2. Silent' = Silent /\ \A c : Kind(c)' = Kind(c)
    BY <1>1 DEF Silent, Kind
  <1>3. \A word : ArgumentAt(word)' = ArgumentAt(word)
    BY <1>2 DEF ArgumentAt, Characters
  <1>4. \A word : FlagResults(word)' = FlagResults(word)
    BY <1>2, <1>3 DEF FlagResults, Result, Null
  <1>5. \A f, i : ReadingAt(f, i)' = ReadingAt(f, i)
    <2> SUFFICES ASSUME NEW f, NEW i PROVE ReadingAt(f, i)' = ReadingAt(f, i)
      OBVIOUS
    <2>1. Arg(i)' = Arg(i) /\ FlagResults(Arg(i))' = FlagResults(Arg(i))
      BY <1>1, <1>4
    <2>2. QED
      BY <1>1, <1>2, <2>1 DEF ReadingAt
  <1>6. Reading' = Reading
    BY <1>1, <1>5 DEF Reading
  <1>7. QED
    BY <1>1, <1>3, <1>6 DEF Reference

\* Some results and then the rest of the reading.
LEMMA MatchedOn ==
  ASSUME ArgvOK, NEW k \in Nat, NEW i \in 1 .. (argc + 1), NEW j \in 1 .. (argc + 1),
         NEW s \in Seq(Results), Reading[i] = Before(s, Reading[j]), Matched(k, i)
  PROVE  /\ Matched(k + Len(s), j)
         /\ k + Len(s) <= Len(Reference.results)
         /\ \A m \in 1 .. Len(s) : Reference.results[k + m] = s[m]
  <1> DEFINE R == Reference.results
             a == Reading[i].results
             b == Reading[j].results
  <1>1. b \in Seq(Results) /\ Len(b) \in Nat /\ Len(s) \in Nat
    BY ReadingTypes, LenProperties
  <1>2. a = s \o b /\ Reading[i].ind = Reading[j].ind
    BY DEF Before
  <1>3. /\ Len(a) = Len(s) + Len(b)
        /\ \A m \in 1 .. Len(s) + Len(b) : a[m] = IF m <= Len(s) THEN s[m] ELSE b[m - Len(s)]
    BY <1>1, <1>2, ConcatProperties
  <1>4. /\ Reference.ind = Reading[i].ind /\ Len(R) = k + Len(a)
        /\ \A m \in 1 .. Len(a) : R[k + m] = a[m]
    BY DEF Matched
  <1> HIDE DEF R, a, b
  <1>5. ASSUME NEW m \in 1 .. Len(b) PROVE R[(k + Len(s)) + m] = b[m]
    <2>1. /\ Len(s) + m \in 1 .. Len(s) + Len(b) /\ ~(Len(s) + m <= Len(s))
          /\ (Len(s) + m) - Len(s) = m /\ (k + Len(s)) + m = k + (Len(s) + m)
      BY <1>1, SMT
    <2>2. QED
      BY <1>3, <1>4, <2>1
  <1>6. ASSUME NEW m \in 1 .. Len(s) PROVE R[k + m] = s[m]
    <2>1. m \in 1 .. Len(s) + Len(b) /\ m <= Len(s)
      BY <1>1, SMT
    <2>2. QED
      BY <1>3, <1>4, <2>1
  <1>7. Len(R) = (k + Len(s)) + Len(b) /\ k + Len(s) <= Len(R)
    BY <1>1, <1>3, <1>4, SMT
  <1>8. Matched(k + Len(s), j)
    BY <1>2, <1>4, <1>5, <1>7 DEF Matched, R, b
  <1>9. QED
    BY <1>6, <1>7, <1>8 DEF R

\* One result more, the next one of the reading.
LEMMA LogGrows ==
  ASSUME NEW l \in Seq(Results), NEW r \in Results, IsRead(l),
         Len(l) + 1 <= Len(Reference.results), Reference.results[Len(l) + 1] = r
  PROVE  /\ Append(l, r) \in Seq(Results) /\ Len(Append(l, r)) = Len(l) + 1
         /\ IsRead(Append(l, r))
  <1>1. /\ Append(l, r) \in Seq(Results) /\ Len(Append(l, r)) = Len(l) + 1
        /\ \A m \in 1 .. Len(l) : Append(l, r)[m] = l[m]
        /\ Append(l, r)[Len(l) + 1] = r
    BY AppendProperties
  <1>2. Len(l) \in Nat
    BY LenProperties
  <1>3. \A m \in 1 .. (Len(l) + 1) : m \in 1 .. Len(l) \/ m = Len(l) + 1
    BY <1>2, SMT
  <1>4. QED
    BY <1>1, <1>3 DEF IsRead

LEMMA PassedFacts ==
  ASSUME GetoptInv
  PROVE  ArgvOK /\ Start.ind \in 1 .. (argc + 1) /\ Passed(Start.pos) \in Nat
  <1>1. ArgvOK
    BY ArgvFacts DEF GetoptInv, PositionInv, ArgvOK
  <1>2. Start.ind \in 1 .. (argc + 1) /\ Start.pos \in Nat
    BY StartFacts DEF GetoptInv
  <1>3. \A pos \in Nat : Passed(pos) \in Nat
    BY SMT DEF Passed
  <1>4. QED
    BY <1>1, <1>2, <1>3

\* A step to a place the results have come to keeps the invariant of the reading.
LEMMA ResultKeepsReading ==
  ASSUME GetoptInv, NEW r \in Results, Gives(r), optind' \in 1 .. (argc + 1),
         Len(log) + 1 <= Len(Reference.results), Reference.results[Len(log) + 1] = r,
         r.ret # "end", ReadSoFar(Append(log, r), optind', optpos')
  PROVE  ReadingInv'
  <1>1. returned' = r.ret /\ log' = Append(log, r) /\ argv' = argv /\ optstring' = optstring
    BY DEF Gives
  <1>2. /\ Reading' = Reading /\ Reference' = Reference
        /\ \A ind : Arg(ind)' = Arg(ind)
        /\ \A word : ArgumentAt(word)' = ArgumentAt(word)
    BY <1>1, ReadingKept
  <1>3. log' \in Seq(Results) /\ IsRead(log')
    BY <1>1, LogGrows DEF GetoptInv, ReadingInv
  <1>4. optind' # 0
    BY ArgvFacts, SMT DEF GetoptInv
  <1>5. Start'.ind = optind' /\ Start'.pos = optpos'
    BY <1>4 DEF Start
  <1>6. ReadSoFar(log, Start.ind, Start.pos)'
    BY <1>1, <1>2, <1>5 DEF ReadSoFar, Matched, Passed
  <1>7. IsRead(log)'
    BY <1>2, <1>3 DEF IsRead
  <1>8. QED
    BY <1>1, <1>3, <1>6, <1>7 DEF ReadingInv

\* A call that ends the scan has come to the end of the reading.
LEMMA EndsKeepsReading ==
  ASSUME GetoptInv, NEW ind, Start.pos = 0, Ends(ind), returned # "end",
         Reading[Start.ind] = Nothing(ind)
  PROVE  ReadingInv'
  <1>1. returned' = "end" /\ optind' = ind /\ log' = log /\ argv' = argv /\ optstring' = optstring
    BY DEF Ends
  <1>2. Reference' = Reference
    BY <1>1, ReadingKept
  <1>3. Matched(Len(log), Start.ind) /\ log \in Seq(Results) /\ IsRead(log) /\ Len(log) \in Nat
    <2>1. Matched(Len(log) - 0, Start.ind) /\ log \in Seq(Results) /\ IsRead(log)
      BY DEF GetoptInv, ReadingInv, ReadSoFar, Passed
    <2>2. Len(log) \in Nat
      BY <2>1, LenProperties
    <2>3. QED
      BY <2>1, <2>2, SMT
  <1>4. Reading[Start.ind].ind = ind /\ Len(Reading[Start.ind].results) = 0
    BY DEF Nothing
  <1>5. Len(log) = Len(Reference.results) /\ ind = Reference.ind
    BY <1>3, <1>4, SMT DEF Matched
  <1>6. QED
    BY <1>1, <1>2, <1>3, <1>5 DEF ReadingInv, IsRead

\* What is known of the reading at a position: k results were before its word, and the
\* results s of the word follow them.
LEMMA MatchedHere ==
  ASSUME GetoptInv, returned # "end", NEW s \in Seq(Results), NEW j \in 1 .. (argc + 1),
         Reading[Start.ind] = Before(s, Reading[j])
  PROVE  LET k == Len(log) - Passed(Start.pos)
         IN  /\ k \in Nat /\ Len(log) \in Nat /\ Len(s) \in Nat
             /\ Matched(k, Start.ind) /\ Matched(k + Len(s), j)
             /\ k + Len(s) <= Len(Reference.results)
             /\ \A m \in 1 .. Len(s) : Reference.results[k + m] = s[m]
             /\ Len(Reference.results) \in Nat
  <1> DEFINE passed == Passed(Start.pos)
             k == Len(log) - passed
  <1>1. ArgvOK /\ Start.ind \in 1 .. (argc + 1) /\ passed \in Nat
    BY PassedFacts
  <1>2. log \in Seq(Results) /\ passed <= Len(log) /\ Matched(k, Start.ind)
    BY DEF GetoptInv, ReadingInv, ReadSoFar
  <1>3. Len(log) \in Nat /\ Len(s) \in Nat
    BY <1>2, LenProperties
  <1>4. k \in Nat
    <2> HIDE DEF passed
    <2>1. QED
      BY <1>1, <1>2, <1>3, SMT
  <1> HIDE DEF k
  <1>5. /\ Matched(k + Len(s), j)
        /\ k + Len(s) <= Len(Reference.results)
        /\ \A m \in 1 .. Len(s) : Reference.results[k + m] = s[m]
    <2>1. k \in Nat /\ ArgvOK /\ Start.ind \in 1 .. (argc + 1) /\ Matched(k, Start.ind)
      BY <1>1, <1>2, <1>4
    <2>2. Reading[Start.ind] = Before(s, Reading[j]) /\ s \in Seq(Results) /\ j \in 1 .. (argc + 1)
      OBVIOUS
    <2> DEFINE i == Start.ind
    <2> HIDE DEF i
    <2>3. /\ k \in Nat /\ i \in 1 .. (argc + 1) /\ Matched(k, i)
          /\ Reading[i] = Before(s, Reading[j])
      BY <2>1, <2>2 DEF i
    <2>4. QED
      BY <2>1, <2>2, <2>3, MatchedOn
  <1>6. Len(Reference.results) \in Nat
    <2>1. 1 \in 1 .. (argc + 1)
      BY <1>1, SMT DEF ArgvOK
    <2>2. QED
      BY <1>1, <2>1, ReadingTypes, LenProperties DEF Reference
  <1>7. QED
    BY <1>2, <1>3, <1>4, <1>5, <1>6 DEF k

\* A call that goes to the word j, behind the last of the results s of its own word.
LEMMA WordKeepsReading ==
  ASSUME GetoptInv, returned # "end", NEW s \in Seq(Results), NEW j \in 1 .. (argc + 1),
         Reading[Start.ind] = Before(s, Reading[j]), Len(s) = Passed(Start.pos) + 1,
         Gives(s[Len(s)]), optind' = j, optpos' = 0
  PROVE  ReadingInv'
  <1> DEFINE r == s[Len(s)]
             k == Len(log) - Passed(Start.pos)
  <1>1. /\ k \in Nat /\ Len(log) \in Nat /\ Len(s) \in Nat
        /\ Matched(k + Len(s), j) /\ k + Len(s) <= Len(Reference.results)
        /\ \A m \in 1 .. Len(s) : Reference.results[k + m] = s[m]
    BY MatchedHere
  <1>2. Passed(Start.pos) \in Nat /\ log \in Seq(Results)
    BY PassedFacts DEF GetoptInv, ReadingInv
  <1>3. k + Len(s) = Len(log) + 1 /\ Len(s) \in 1 .. Len(s)
    BY <1>1, <1>2, SMT
  <1>4. r \in Results
    BY <1>3, ElementOfSeq
  <1>5. Len(log) + 1 <= Len(Reference.results) /\ Reference.results[Len(log) + 1] = r
    BY <1>1, <1>3
  <1>6. Gives(r)
    OBVIOUS
  <1> HIDE DEF r, k
  <1>7. Len(Append(log, r)) = Len(log) + 1
    BY <1>2, <1>4, AppendProperties
  <1>8. ReadSoFar(Append(log, r), j, 0)
    <2>1. \A q \in 2 .. 0 : q \notin ArgumentAt(Arg(j))
      BY SMT
    <2>2. 0 <= Len(log) + 1 /\ (Len(log) + 1) - 0 = Len(log) + 1
      BY <1>1, SMT
    <2>3. QED
      BY <1>1, <1>3, <1>7, <2>1, <2>2 DEF ReadSoFar, Passed
  <1>9. r.ret # "end"
    BY <1>4 DEF Results
  <1>10. QED
    BY <1>4, <1>5, <1>6, <1>8, <1>9, ResultKeepsReading

\* A call that stays in its word, behind one more flag of it.
LEMMA FlagKeepsReading ==
  ASSUME GetoptInv, returned # "end", NEW s \in Seq(Results), NEW j \in 1 .. (argc + 1),
         Reading[Start.ind] = Before(s, Reading[j]),
         NEW q \in Nat, q = Passed(Start.pos) + 2, q - 1 <= Len(s),
         \A p \in 2 .. q : p \notin ArgumentAt(Arg(Start.ind)),
         Gives(s[q - 1]), optind' = Start.ind, optpos' = q
  PROVE  ReadingInv'
  <1> DEFINE r == s[q - 1]
             passed == Passed(Start.pos)
             k == Len(log) - passed
  <1>1. /\ k \in Nat /\ Len(log) \in Nat /\ Len(s) \in Nat
        /\ Matched(k, Start.ind) /\ k + Len(s) <= Len(Reference.results)
        /\ \A m \in 1 .. Len(s) : Reference.results[k + m] = s[m]
        /\ Len(Reference.results) \in Nat
    BY MatchedHere
  <1>2. passed \in Nat /\ log \in Seq(Results) /\ Start.ind \in 1 .. (argc + 1)
    BY PassedFacts DEF GetoptInv, ReadingInv
  <1>3. q = passed + 2 /\ k = Len(log) - passed
    OBVIOUS
  <1> HIDE DEF k, passed
  <1>4. /\ k + (q - 1) = Len(log) + 1 /\ q - 1 \in 1 .. Len(s)
        /\ Len(log) + 1 <= Len(Reference.results)
        /\ q # 0 /\ (Len(log) + 1) - (q - 1) = k /\ q - 1 <= Len(log) + 1
    <2> DEFINE n == Len(log)
               m == Len(s)
               e == Len(Reference.results)
    <2>1. n \in Nat /\ m \in Nat /\ e \in Nat /\ k + m <= e /\ q - 1 <= m
      BY <1>1
    <2>2. passed \in Nat /\ q = passed + 2 /\ k = n - passed /\ k \in Nat
      BY <1>1, <1>2, <1>3
    <2> HIDE DEF n, m, e
    <2>3. /\ k + (q - 1) = n + 1 /\ q - 1 \in 1 .. m /\ n + 1 <= e
          /\ q # 0 /\ (n + 1) - (q - 1) = k /\ q - 1 <= n + 1
      BY <2>1, <2>2, SMT
    <2>4. QED
      BY <2>3 DEF n, m, e
  <1>5. r \in Results
    BY <1>4, ElementOfSeq
  <1>6. Reference.results[Len(log) + 1] = r /\ Gives(r)
    BY <1>1, <1>4
  <1> HIDE DEF r
  <1>7. Len(Append(log, r)) = Len(log) + 1
    BY <1>2, <1>5, AppendProperties
  <1>8. Passed(q) = q - 1
    BY <1>4 DEF Passed
  <1>9. ReadSoFar(Append(log, r), Start.ind, q)
    BY <1>1, <1>4, <1>7, <1>8 DEF ReadSoFar
  <1>10. r.ret # "end"
    BY <1>5 DEF Results
  <1>11. QED
    BY <1>2, <1>4, <1>5, <1>6, <1>9, <1>10, ResultKeepsReading

\* Where an option has an argument, the call returns what the reading has for it.
LEMMA ArgumentIsRead ==
  ASSUME GetoptInv, Start.ind < argc, IsOptionWord(Arg(Start.ind)), Option(Start),
         NEW q, q = (IF Start.pos = 0 THEN 2 ELSE Start.pos + 1),
         Kind(Arg(Start.ind)[q]) \in {"required", "optional"}
  PROVE  /\ Gives(LastOf(Start.ind, q))
         /\ optind' = NextOf(Start.ind, q) /\ optpos' = 0
  <1> DEFINE i    == Start.ind
             w    == Arg(i)
             c    == w[q]
             next == Advance(Start)
  <1>1. /\ q \in 2 .. Len(w) /\ Len(w) \in Nat /\ argc \in Nat /\ i \in 1 .. (argc - 1)
        /\ q = Len(w) => next = [ind |-> i + 1, pos |-> 0]
        /\ q # Len(w) => next = [ind |-> i, pos |-> q]
    <2>1. /\ w \in Seq(Character) /\ q \in 2 .. Len(w)
          /\ q = Len(w) => next = [ind |-> i + 1, pos |-> 0]
          /\ q # Len(w) => next = [ind |-> i, pos |-> q]
      BY AdvanceFacts DEF GetoptInv
    <2>2. argc \in Nat /\ i \in 1 .. (argc + 1)
      BY PassedFacts DEF ArgvOK
    <2>3. i \in 1 .. (argc - 1)
      BY <2>2, SMT
    <2>4. QED
      BY <2>1, <2>2, <2>3, LenProperties
  <1>2. Option(Start) = CASE Kind(c) = "unknown" -> UnknownOption(c, next)
                          [] Kind(c) = "flag" -> Flag(c, next)
                          [] OTHER -> IF TakesWord(c, next) THEN WithArgument(c, next)
                                      ELSE WithoutArgument(c, next)
    BY DEF Option
  <1>3. IF TakesWord(c, next) THEN WithArgument(c, next) ELSE WithoutArgument(c, next)
    BY <1>2
  <1>a. Kind(c) \in {"required", "optional"}
    OBVIOUS
  <1> DEFINE n == Len(w)
  <1> HIDE DEF i, w, next, c
  <1>4. CASE q # Len(w)
    <2>1. next.ind = i /\ next.pos = q /\ q # 0 /\ Len(w) > q /\ i # argc /\ ~(i + 1 > argc)
      <3>1. /\ q \in 2 .. n /\ n \in Nat /\ argc \in Nat /\ i \in 1 .. (argc - 1) /\ q # n
            /\ next = [ind |-> i, pos |-> q]
        BY <1>1, <1>4 DEF n
      <3>2. q # 0 /\ n > q /\ i # argc /\ ~(i + 1 > argc)
        <4> HIDE DEF n
        <4>1. QED
          BY <3>1, SMT
      <3>3. QED
        BY <3>1, <3>2 DEF n
    <2>2. WithArgument(c, next)
      BY <1>3, <2>1 DEF TakesWord
    <2>3. optpos' = 0 /\ optind' = i + 1 /\ Gives(Result("option", c, <<i, q>>))
      BY <2>1, <2>2 DEF WithArgument, BehindArgument
    <2>4. QED
      BY <2>1, <2>3 DEF LastOf, NextOf, i, w, c
  <1>5. CASE q = Len(w)
    <2>1. /\ next.ind = i + 1 /\ next.pos = 0 /\ ~(Len(w) > q)
          /\ (i + 1 < argc => i + 1 # argc /\ ~(i + 1 + 1 > argc))
          /\ (~(i + 1 < argc) => i + 1 + 1 > argc)
      BY <1>1, <1>5, SMT
    <2>2. CASE Kind(c) = "optional"
      <3>1. WithoutArgument(c, next)
        BY <1>3, <2>1, <2>2 DEF TakesWord
      <3>2. optind' = i + 1 /\ optpos' = 0 /\ Gives(Result("option", c, Null))
        BY <2>1, <3>1 DEF WithoutArgument
      <3>3. QED
        BY <2>1, <2>2, <3>2 DEF LastOf, NextOf, i, w, c
    <2>3. CASE Kind(c) = "required"
      <3>1. WithArgument(c, next)
        BY <1>3, <2>3 DEF TakesWord
      <3>2. i + 2 = i + 1 + 1 /\ Kind(c) # "optional"
        BY <1>1, <2>3, SMT
      <3>3. /\ optpos' = 0 /\ optind' = i + 2
            /\ IF i + 1 < argc THEN Gives(Result("option", c, <<i + 1, 0>>))
               ELSE Gives(Result(IF Silent THEN ":" ELSE "?", c, Null))
        BY <2>1, <3>1, <3>2 DEF WithArgument, BehindArgument
      <3>4. QED
        BY <2>1, <3>2, <3>3 DEF LastOf, NextOf, i, w, c
    <2>4. QED
      BY <1>a, <2>2, <2>3
  <1>6. QED
    BY <1>4, <1>5

\* The option at the position is the next result of the reading.
LEMMA OptionKeepsReading ==
  ASSUME GetoptInv, returned # "end", Start.ind < argc, IsOptionWord(Arg(Start.ind)), Option(Start)
  PROVE  ReadingInv'
  <1> DEFINE i     == Start.ind
             w     == Arg(i)
             q     == IF Start.pos = 0 THEN 2 ELSE Start.pos + 1
             c     == w[q]
             next  == Advance(Start)
             A     == ArgumentAt(w)
             flags == FlagResults(w)
             at    == Len(flags) + 2
  <1>1. /\ w \in Seq(Character) /\ q \in 2 .. Len(w)
        /\ q = Len(w) => next = [ind |-> i + 1, pos |-> 0]
        /\ q # Len(w) => next = [ind |-> i, pos |-> q]
    BY AdvanceFacts DEF GetoptInv
  <1>2. ArgvOK /\ i \in 1 .. (argc - 1) /\ i \in 1 .. (argc + 1) /\ i + 1 \in 1 .. (argc + 1)
    <2>1. ArgvOK /\ i \in 1 .. (argc + 1) /\ argc \in Nat
      BY PassedFacts DEF ArgvOK
    <2>2. QED
      BY <2>1, SMT
  <1>3. Len(w) \in Nat /\ Len(w) >= 2
    BY <1>1, OptionWordIsLong, LenProperties
  <1>4. /\ flags \in Seq(Results) /\ Len(flags) \in 0 .. (Len(w) - 1)
        /\ IF A = {} THEN Len(flags) = Len(w) - 1 ELSE at \in A
        /\ \A k \in 1 .. Len(flags) :
             /\ k + 1 \notin A
             /\ flags[k] = Result(IF Kind(w[k + 1]) = "unknown" THEN "?" ELSE "option",
                                  w[k + 1], Null)
    <2>1. Len(w) >= 1
      BY <1>3, SMT
    <2>2. QED
      BY <1>1, <2>1, FlagFacts
  <1>5. /\ \A p \in A : p \in 2 .. Len(w)
        /\ \A p \in 2 .. Len(w) : p \in A <=> Kind(w[p]) \in {"required", "optional"}
    BY DEF ArgumentAt, Characters
  <1>6. /\ Passed(Start.pos) \in Nat /\ q = Passed(Start.pos) + 2
        /\ \A p \in 2 .. (q - 1) : p \notin A
    <2>1. \A p \in 2 .. Start.pos : p \notin A
      BY DEF GetoptInv, ReadingInv, ReadSoFar
    <2>2. Start.pos \in Nat
      BY StartFacts DEF GetoptInv
    <2> HIDE DEF A
    <2>3. CASE Start.pos = 0
      BY <2>3, SMT DEF Passed
    <2>4. CASE Start.pos # 0
      <3>1. Passed(Start.pos) = Start.pos - 1 /\ q = Start.pos + 1
        BY <2>4 DEF Passed
      <3>2. q - 1 = Start.pos /\ Passed(Start.pos) \in Nat /\ q = Passed(Start.pos) + 2
        BY <2>2, <2>4, <3>1, SMT
      <3>3. QED
        BY <2>1, <3>2
    <2>5. QED
      BY <2>3, <2>4
  <1>7. Option(Start) = CASE Kind(c) = "unknown" -> UnknownOption(c, next)
                          [] Kind(c) = "flag" -> Flag(c, next)
                          [] OTHER -> IF TakesWord(c, next) THEN WithArgument(c, next)
                                      ELSE WithoutArgument(c, next)
    BY DEF Option
  <1>8. at \in Nat /\ Len(flags) \in Nat
    BY <1>3, <1>4, SMT
  <1>9. at <= Len(w) =>
          /\ Append(flags, LastOf(i, at)) \in Seq(Results)
          /\ Len(Append(flags, LastOf(i, at))) = Len(flags) + 1
          /\ \A k \in 1 .. Len(flags) : Append(flags, LastOf(i, at))[k] = flags[k]
          /\ Append(flags, LastOf(i, at))[Len(flags) + 1] = LastOf(i, at)
    <2>1. SUFFICES ASSUME at <= Len(w) PROVE LastOf(i, at) \in Results
      BY <1>4, AppendProperties
    <2>2. at \in 1 .. Len(w)
      BY <1>3, <1>8, <2>1, SMT
    <2>3. w[at] \in Character
      BY <1>1, <2>2, ElementOfSeq
    <2>4. i \in Nat
      BY <1>2, SMT
    <2>5. <<i, at>> \in Nat \X Nat /\ <<i + 1, 0>> \in Nat \X Nat
      BY <1>8, <2>4, SMT
    <2>6. QED
      BY <2>3, <2>5, NullIsOne, ResultIsOne DEF LastOf
  <1> HIDE DEF q
  <1>10. CASE Kind(c) \in {"unknown", "flag"}
    <2>1. q \notin A
      BY <1>1, <1>5, <1>10
    <2>2. \A p \in 2 .. q : p \notin A
      <3>1. \A p \in 2 .. q : p \in 2 .. (q - 1) \/ p = q
        BY <1>1, <1>3, SMT
      <3>2. QED
        BY <1>6, <2>1, <3>1
    <2>3. q - 1 \in 1 .. Len(flags)
      <3> HIDE DEF A, w, flags
      <3>1. CASE A = {}
        BY <1>1, <1>3, <1>4, <3>1, SMT
      <3>2. CASE A # {}
        <4>1. at \in A /\ at \in 2 .. Len(w) /\ at \notin 2 .. q
          BY <1>4, <1>5, <2>2, <3>2
        <4>2. QED
          BY <1>1, <1>3, <1>8, <4>1, SMT
      <3>3. QED
        BY <3>1, <3>2
    <2>4. /\ flags[q - 1] = Result(IF Kind(c) = "unknown" THEN "?" ELSE "option", c, Null)
      <3>1. (q - 1) + 1 = q
        BY <1>1, <1>3, SMT
      <3>2. QED
        BY <1>4, <2>3, <3>1
    <2>5. /\ Gives(flags[q - 1]) /\ optind' = next.ind /\ optpos' = next.pos
      <3>1. CASE Kind(c) = "unknown"
        BY <1>7, <2>4, <3>1 DEF UnknownOption
      <3>2. CASE Kind(c) = "flag"
        BY <1>7, <2>4, <3>2 DEF Flag
      <3>3. QED
        BY <1>10, <3>1, <3>2
    <2>6. CASE q = Len(w)
      <3>1. at > Len(w) /\ Len(flags) = q - 1 /\ q - 1 = Passed(Start.pos) + 1
        <4> HIDE DEF w, flags
        <4>1. QED
          BY <1>1, <1>3, <1>4, <1>6, <2>3, <2>6, SMT
      <3>2. Reading[i] = Before(flags, Reading[i + 1])
        BY <1>1, <1>2, <3>1, ReadingOfOptions
      <3>3. optind' = i + 1 /\ optpos' = 0
        BY <1>1, <2>5, <2>6
      <3>4. QED
        BY <1>2, <1>4, <2>5, <3>1, <3>2, <3>3, WordKeepsReading
    <2>7. CASE q # Len(w)
      <3>1. optind' = i /\ optpos' = q /\ q \in Nat
        BY <1>1, <1>3, <2>5, <2>7, SMT
      <3>2. PICK s \in Seq(Results), j \in 1 .. (argc + 1) :
              /\ Reading[i] = Before(s, Reading[j])
              /\ q - 1 <= Len(s) /\ s[q - 1] = flags[q - 1]
        <4>1. CASE at > Len(w)
          <5>1. Reading[i] = Before(flags, Reading[i + 1])
            BY <1>1, <1>2, <4>1, ReadingOfOptions
          <5>2. q - 1 <= Len(flags)
            BY <2>3
          <5>3. QED
            BY <1>2, <1>4, <5>1, <5>2
        <4>2. CASE at <= Len(w)
          <5> DEFINE s == Append(flags, LastOf(i, at))
          <5>1. /\ Reading[i] = Before(s, Reading[NextOf(i, at)])
                /\ NextOf(i, at) \in 1 .. (argc + 1)
            BY <1>1, <1>2, <4>2, ReadingOfOptions
          <5>2. s \in Seq(Results) /\ Len(s) = Len(flags) + 1 /\ s[q - 1] = flags[q - 1]
            BY <1>9, <2>3, <4>2
          <5> HIDE DEF s, flags
          <5>3. q - 1 <= Len(s)
            BY <1>8, <2>3, <5>2, SMT
          <5>4. QED
            BY <5>1, <5>2, <5>3
        <4>3. QED
          BY <1>3, <1>8, <4>1, <4>2, SMT
      <3>3. Gives(s[q - 1])
        BY <2>5, <3>2
      <3>4. QED
        BY <1>6, <2>2, <3>1, <3>2, <3>3, FlagKeepsReading
    <2>8. QED
      BY <2>6, <2>7
  <1>11. CASE Kind(c) \in {"required", "optional"}
    <2>1. q \in A
      BY <1>1, <1>5, <1>11
    <2>2. at = q
      <3>1. at \in A /\ at \in 2 .. Len(w) /\ at \notin 2 .. (q - 1)
        BY <1>4, <1>5, <1>6, <2>1
      <3>2. \A k \in 1 .. Len(flags) : k + 1 # q
        BY <1>4, <2>1
      <3> HIDE DEF flags, w
      <3>3. q - 1 \notin 1 .. Len(flags)
        BY <1>1, <3>2, SMT
      <3>4. QED
        BY <1>1, <1>3, <1>8, <3>1, <3>3, SMT
    <2> DEFINE s == Append(flags, LastOf(i, q))
               j == NextOf(i, q)
    <2>3. at <= Len(w)
      BY <1>1, <1>3, <2>2, SMT
    <2>4. Reading[i] = Before(s, Reading[j]) /\ j \in 1 .. (argc + 1)
      BY <1>1, <1>2, <2>2, <2>3, ReadingOfOptions
    <2>5. s \in Seq(Results) /\ Len(s) = Len(flags) + 1 /\ s[Len(s)] = LastOf(i, q)
      BY <1>9, <2>2, <2>3
    <2>6. Gives(s[Len(s)]) /\ optind' = j /\ optpos' = 0
      BY <1>11, <2>5, ArgumentIsRead DEF q
    <2>7. Len(s) = Passed(Start.pos) + 1
      <3> HIDE DEF s, flags
      <3>1. QED
        BY <1>6, <1>8, <2>2, <2>5, SMT
    <2> HIDE DEF s, j
    <2>8. QED
      BY <2>4, <2>5, <2>6, <2>7, WordKeepsReading
  <1>12. QED
    BY <1>10, <1>11, KindCases

LEMMA GetoptInvInit == GetoptInit => GetoptInv
  <1> SUFFICES ASSUME GetoptInit PROVE ReadingInv
    BY PositionInvInit DEF GetoptInv
  <1>1. PositionInv /\ ArgvOK
    BY PositionInvInit, ArgvFacts DEF PositionInv, ArgvOK
  <1>2. /\ log = <<>> /\ Len(log) = 0 /\ log \in Seq(Results) /\ returned # "end"
        /\ Start.ind = 1 /\ Start.pos = 0
    BY DEF GetoptInit, Start
  <1>3. 1 \in 1 .. (argc + 1)
    BY <1>1, SMT DEF ArgvOK
  <1>4. Reference.results \in Seq(Results)
    BY <1>1, <1>3, ReadingTypes DEF Reference
  <1>5. Matched(0, 1)
    <2>1. Len(Reference.results) \in Nat
      BY <1>4, LenProperties
    <2>2. \A m \in Nat : 0 + m = m
      BY SMT
    <2>3. \A m \in 1 .. Len(Reference.results) : m \in Nat
      BY <2>1, SMT
    <2>4. QED
      BY <2>1, <2>2, <2>3 DEF Matched, Reference
  <1>6. \A m \in 1 .. 0 : FALSE
    BY SMT
  <1>7. \A m \in 2 .. 0 : FALSE
    BY SMT
  <1>8. 0 - 0 = 0 /\ 0 <= 0
    BY SMT
  <1>9. QED
    BY <1>2, <1>5, <1>6, <1>7, <1>8 DEF ReadingInv, IsRead, ReadSoFar, Passed

\* An operand that is a result, with an optstring that starts with "-".
LEMMA OperandKeepsReading ==
  ASSUME GetoptInv, returned # "end", Start.ind < argc, IsOperand(Arg(Start.ind)), Operands,
         Operand(Start)
  PROVE  ReadingInv'
  <1> DEFINE i == Start.ind
             r == Result("operand", "-", <<i, 0>>)
             s == <<r>>
  <1>1. /\ ArgvOK /\ i \in 1 .. (argc - 1) /\ i + 1 \in 1 .. (argc + 1)
        /\ <<i, 0>> \in Nat \X Nat
    <2>1. ArgvOK /\ i \in 1 .. (argc + 1) /\ argc \in Nat
      BY PassedFacts DEF ArgvOK
    <2>2. QED
      BY <2>1, SMT
  <1>2. ~IsOptionWord(Arg(i)) /\ Start.pos = 0
    BY StartFacts DEF IsOptionWord, GetoptInv
  <1>3. Reading[i] = Before(s, Reading[i + 1])
    BY <1>1, <1>2, ReadingOfOthers
  <1>4. r \in Results
    BY <1>1, ResultIsOne DEF Character
  <1>5. optind' = i + 1 /\ optpos' = 0 /\ Gives(r)
    BY <1>2 DEF Operand
  <1> HIDE DEF r
  <1>6. s \in Seq(Results) /\ Len(s) = 1 /\ s[Len(s)] = r
    BY <1>4
  <1>7. Len(s) = Passed(Start.pos) + 1
    BY <1>2, <1>6, SMT DEF Passed
  <1> HIDE DEF s
  <1>8. QED
    BY <1>1, <1>3, <1>5, <1>6, <1>7, WordKeepsReading

LEMMA CallKeepsReading ==
  ASSUME GetoptInv, NextCall
  PROVE  ReadingInv'
  <1> DEFINE i == Start.ind
             w == Arg(i)
  <1>1. getopt /\ returned # "end"
    BY DEF NextCall
  <1>2. /\ ArgvOK /\ argc \in Nat /\ i \in 1 .. (argc + 1)
        /\ Start.pos # 0 => i < argc /\ IsOptionWord(w)
    BY PassedFacts, StartFacts DEF GetoptInv, ArgvOK
  <1>3. CASE i >= argc
    <2>1. Ends(i) /\ Start.pos = 0
      BY <1>1, <1>2, <1>3, SMT DEF getopt
    <2>2. Reading[i] = Nothing(i)
      BY <1>2, <1>3, ReadingBehind
    <2>3. QED
      BY <1>1, <2>1, <2>2, EndsKeepsReading
  <1>4. CASE ~(i >= argc)
    <2>1. GetoptAt(Start, w)
      BY <1>1, <1>4 DEF getopt
    <2>2. i < argc /\ i \in 1 .. (argc - 1)
      BY <1>2, <1>4, SMT
    <2>3. CASE IsOptionWord(w)
      <3>1. Option(Start)
        BY <2>1, <2>3 DEF GetoptAt, IsOptionWord
      <3>2. QED
        BY <1>1, <2>2, <2>3, <3>1, OptionKeepsReading
    <2>4. CASE ~IsOptionWord(w)
      <3>1. Start.pos = 0
        BY <1>2, <2>4
      <3>2. CASE IsOperand(w) /\ Operands /\ Operand(Start)
        BY <1>1, <2>2, <3>2, OperandKeepsReading
      <3>3. CASE IsOperand(w) /\ ~Operands /\ Ends(i)
        BY <1>1, <1>2, <2>2, <2>4, <3>1, <3>3, ReadingOfOthers, EndsKeepsReading
      <3>4. CASE w = <<"-">> /\ Ends(i)
        BY <1>1, <1>2, <2>2, <2>4, <3>1, <3>4, ReadingOfOthers, EndsKeepsReading
      <3>5. CASE w = <<"-", "-">> /\ EndOfOptions(Start)
        <4>1. Ends(i + 1)
          BY <3>5 DEF EndOfOptions
        <4>2. Reading[i] = Nothing(i + 1)
          BY <1>2, <2>2, <2>4, <3>5, ReadingOfOthers
        <4>3. QED
          BY <1>1, <3>1, <4>1, <4>2, EndsKeepsReading
      <3>6. QED
        BY <2>1, <2>4, <3>2, <3>3, <3>4, <3>5 DEF GetoptAt
    <2>5. QED
      BY <2>3, <2>4
  <1>5. QED
    BY <1>3, <1>4

\* A scan that starts over has returned nothing and is at the first word.
LEMMA RescanKeepsReading ==
  ASSUME GetoptInv, Rescan
  PROVE  ReadingInv'
  <1>1. PICK ind \in {0, 1} :
          /\ ind = 1 => returned = "end"
          /\ StartsOver(ind)
    BY DEF Rescan
  <1>2. /\ optind' = ind /\ returned' = "none" /\ log' = <<>> /\ optpos' = optpos
        /\ argv' = argv /\ optstring' = optstring
    BY <1>1 DEF StartsOver
  <1>3. Start'.ind = 1 /\ Start'.pos = 0
    BY <1>1, <1>2 DEF Start, GetoptInv, PositionInv
  <1>4. /\ Reading' = Reading /\ Reference' = Reference
        /\ \A k : Arg(k)' = Arg(k)
        /\ \A word : ArgumentAt(word)' = ArgumentAt(word)
    BY <1>2, ReadingKept
  <1>5. Matched(0, 1)
    <2>1. ArgvOK
      BY PassedFacts
    <2>2. 1 \in 1 .. (argc + 1)
      BY <2>1, SMT DEF ArgvOK
    <2>3. Len(Reference.results) \in Nat
      BY <2>1, <2>2, ReadingTypes, LenProperties DEF Reference
    <2>4. \A m \in Nat : 0 + m = m
      BY SMT
    <2>5. \A m \in 1 .. Len(Reference.results) : m \in Nat
      BY <2>3, SMT
    <2>6. QED
      BY <2>3, <2>4, <2>5 DEF Matched, Reference
  <1>6. Len(log') = 0 /\ log' \in Seq(Results)
    BY <1>2
  <1>7. (\A m \in 1 .. 0 : FALSE) /\ (\A m \in 2 .. 0 : FALSE) /\ 0 - 0 = 0 /\ 0 <= 0
    BY SMT
  <1>8. IsRead(log)'
    BY <1>6, <1>7 DEF IsRead
  <1>9. ReadSoFar(log, Start.ind, Start.pos)'
    BY <1>3, <1>4, <1>5, <1>6, <1>7 DEF ReadSoFar, Matched, Passed
  <1>10. QED
    BY <1>2, <1>6, <1>8, <1>9 DEF ReadingInv

LEMMA GetoptInvNext == GetoptInv /\ [GetoptNext]_getoptVars => GetoptInv'
  <1> SUFFICES ASSUME GetoptInv, [GetoptNext]_getoptVars PROVE ReadingInv'
    BY PositionInvNext DEF GetoptInv
  <1>1. CASE NextCall
    BY <1>1, CallKeepsReading
  <1>2. CASE Rescan
    BY <1>2, RescanKeepsReading
  <1>3. CASE UNCHANGED getoptVars
    <2>1. UNCHANGED <<argv, optstring, optind, optpos, returned, log>>
      BY <1>3 DEF getoptVars
    <2>2. /\ Reading' = Reading /\ Reference' = Reference
          /\ \A k : Arg(k)' = Arg(k)
          /\ \A word : ArgumentAt(word)' = ArgumentAt(word)
      BY <2>1, ReadingKept
    <2>3. Start' = Start
      BY <2>1 DEF Start
    <2>4. IsRead(log)' = IsRead(log)
      BY <2>1, <2>2 DEF IsRead
    <2>5. ReadSoFar(log, Start.ind, Start.pos)' = ReadSoFar(log, Start.ind, Start.pos)
      BY <2>1, <2>2, <2>3 DEF ReadSoFar, Matched, Passed
    <2>6. QED
      BY <2>1, <2>2, <2>4, <2>5 DEF ReadingInv, GetoptInv
  <1>4. QED
    BY <1>1, <1>2, <1>3 DEF GetoptNext

-----------------------------------------------------------------------------
(* What the scan promises.                                                 *)

LEMMA ReadingIsOfArgv == GetoptInv => OptionsOfArgv
  <1> SUFFICES ASSUME GetoptInv PROVE OptionsOfArgv
    OBVIOUS
  <1> DEFINE R == Reference.results
  <1>1. R \in Seq(Results) /\ Len(R) \in Nat
    <2>1. ArgvOK
      BY PassedFacts
    <2>2. 1 \in 1 .. (argc + 1)
      BY <2>1, SMT DEF ArgvOK
    <2>3. QED
      BY <2>1, <2>2, ReadingTypes, LenProperties DEF Reference
  <1>2. log \in Seq(Results) /\ Len(log) \in Nat
    BY LenProperties DEF GetoptInv, ReadingInv
  <1>3. \A m \in 1 .. Len(log) : m <= Len(R) /\ log[m] = R[m]
    BY DEF GetoptInv, ReadingInv, IsRead
  <1> DEFINE n == Len(log)
             r == Len(R)
  <1>4. n <= r
    <2>1. n \in Nat /\ r \in Nat /\ (\A m \in 1 .. n : m <= r)
      BY <1>1, <1>2, <1>3
    <2> HIDE DEF n, r
    <2>2. QED
      BY <2>1, SMT
  <1> DEFINE sub == SubSeq(R, 1, n)
  <1>5. sub \in Seq(Results) /\ Len(sub) = n /\ \A m \in 1 .. n : sub[m] = R[m]
    <2>1. n \in Nat /\ r \in Nat
      BY <1>1, <1>2
    <2>2. \A m \in 1 .. n : m \in 1 .. r
      <3> HIDE DEF n, r
      <3>1. QED
        BY <1>4, <2>1, SMT
    <2>3. sub = [m \in 1 .. n |-> R[m]]
      BY <2>1, SMT
    <2>4. \A m \in 1 .. n : R[m] \in Results
      BY <1>1, <2>2, ElementOfSeq
    <2> HIDE DEF sub, R
    <2>5. QED
      BY <2>1, <2>3, <2>4
  <1>6. log = sub
    <2> HIDE DEF sub
    <2>1. QED
      BY <1>2, <1>3, <1>5, SeqEqual
  <1>7. ASSUME returned = "end" PROVE log = R /\ optind = Reference.ind
    <2>1. Len(log) = Len(R) /\ optind = Reference.ind
      BY <1>7 DEF GetoptInv, ReadingInv
    <2>2. QED
      BY <1>1, <1>2, <1>3, <2>1, SeqEqual
  <1>8. QED
    BY <1>4, <1>6, <1>7 DEF OptionsOfArgv

\* Every call leaves its variables in their ranges: optind goes no further than one
\* behind argc, and what optarg points at is a word of argv.
THEOREM GetoptTypes == GetoptSpec => []GetoptTypeOK
  <1>1. PositionInv => GetoptTypeOK
    BY DEF PositionInv
  <1>2. QED
    BY <1>1, PositionInvInit, PositionInvNext, PTL DEF GetoptSpec

\* The position that getopt() keeps to itself is one of a character in the word optind
\* is at, which was not looked at yet: no call reads behind the end of a word, also when
\* the program starts the scan over in the middle of one.
THEOREM PositionIsUnread == GetoptSpec => []PositionUnread
  <1>1. PositionInv => PositionUnread
    BY DEF PositionInv
  <1>2. QED
    BY <1>1, PositionInvInit, PositionInvNext, PTL DEF GetoptSpec

\* The calls return the options of argv in their order, each with its argument, whatever
\* words and optstring there are, and however often the program starts the scan over: a
\* word of many flags, an argument in the same word or the next, one that is not there.
\* At the end all of them were returned, and optind is at the first operand.
THEOREM CallsReadArgv == GetoptSpec => []OptionsOfArgv
  <1>1. QED
    BY ReadingIsOfArgv, GetoptInvInit, GetoptInvNext, PTL DEF GetoptSpec
=============================================================================
