------------------------------- MODULE Getopt -------------------------------
(***************************************************************************)
(* getopt(): a scan of argv that returns after each option and goes on at   *)
(* the next call from two variables, the public optind and the hidden       *)
(* __optpos, the position inside a word of options such as "-ab".  The      *)
(* program may start the scan over at any time by setting optind to 0, and  *)
(* to 1 once the scan has ended.                                           *)
(*                                                                         *)
(* argv and optstring are as in the code: argv[0] is the program, a word is *)
(* a sequence of characters.                                               *)
(***************************************************************************)
EXTENDS Integers, Sequences

CONSTANTS
  Word,        \* the words argv is made of
  Argc,        \* the values of argc
  OptString,   \* the optstrings
  MaxRescans   \* how often the program starts over

ASSUME GetoptAssumption ==
  /\ Argc \subseteq Nat \ {0}
  /\ Word \subseteq Seq(STRING) /\ OptString \subseteq Seq(STRING)
  /\ MaxRescans \in Nat

VARIABLES
  argv, optstring,   \* the arguments of getopt(), the same for all the calls
  optind, optarg, optopt,
  optpos,            \* __optpos
  returned,          \* what the last call returned; "none" before the first one
  log,               \* the results the program was given since the scan started
  rescans            \* how often it has started over

getoptVars == <<argv, optstring, optind, optarg, optopt, optpos, returned, log, rescans>>

argc == Len(argv)

\* argv[i], with i as in C; a pointer into it is a pair of i and an offset.
Arg(i) == argv[i + 1]
Null   == <<0, 0>>

Program == <<"p">>

IsOperand(w)    == IF w = <<>> THEN TRUE ELSE w[1] # "-"
IsOptionWord(w) == ~IsOperand(w) /\ w \notin {<<"-">>, <<"-", "-">>}

Operands == optstring # <<>> /\ Head(optstring) = "-"

\* The optstring without the mode that it may start with.
Opts == IF optstring # <<>> /\ Head(optstring) \in {"-", "+"} THEN Tail(optstring)
        ELSE optstring

Silent == Opts # <<>> /\ Head(Opts) = ":"

\* The option c as the optstring has it, where it occurs first.
Kind(c) ==
  LET at       == {i \in DOMAIN Opts : Opts[i] = c}
      first    == CHOOSE i \in at : \A j \in at : i <= j
      colon(k) == first + k <= Len(Opts) /\ Opts[first + k] = ":"
  IN  IF at = {} \/ c = ":" THEN "unknown"
      ELSE IF ~colon(1) THEN "flag"
      ELSE IF ~colon(2) THEN "required"
      ELSE "optional"

-----------------------------------------------------------------------------
(* One call.                                                               *)

\* The call returns r, about the character c and with the argument arg.
Result(r, c, arg) == [ret |-> r, chr |-> c, arg |-> arg]

Gives(result) ==
  /\ returned' = result.ret
  /\ log' = Append(log, result)
  /\ UNCHANGED <<argv, optstring, rescans>>

\* Where the call starts: an optind of 0 starts the scan over.
Start == IF optind = 0 THEN [ind |-> 1, pos |-> 0] ELSE [ind |-> optind, pos |-> optpos]

\* The call returns -1 and leaves optind at ind.
Ends(ind) ==
  /\ returned' = "end"
  /\ optind' = ind /\ optpos' = Start.pos
  /\ UNCHANGED <<argv, optstring, optarg, optopt, log, rescans>>

EndOfOptions(at) == Ends(at.ind + 1)

\* Mutant of Operand: the operand is returned again and again.
OperandStays(at) ==
  /\ optind' = at.ind /\ optarg' = <<at.ind, 0>> /\ optpos' = at.pos
  /\ returned' = "operand"
  /\ UNCHANGED <<argv, optstring, rescans, optopt, log>>

\* With an optstring that starts with "-" operands are results like others.
Operand(at) ==
  /\ optind' = at.ind + 1 /\ optarg' = <<at.ind, 0>> /\ optpos' = at.pos
  /\ Gives(Result("operand", "-", <<at.ind, 0>>))
  /\ UNCHANGED optopt

\* Mutant of Advance: the position stays in the word that has come to its end.
AdvanceKeepsPos(at) ==
  LET pos == IF at.pos = 0 THEN 1 ELSE at.pos
  IN  IF pos + 1 = Len(Arg(at.ind))
        THEN [ind |-> at.ind + 1, pos |-> pos + 1]
        ELSE [ind |-> at.ind, pos |-> pos + 1]

\* The position behind the next character, in this word or at the next one.
Advance(at) ==
  LET pos == IF at.pos = 0 THEN 1 ELSE at.pos
  IN  IF pos + 1 = Len(Arg(at.ind))
        THEN [ind |-> at.ind + 1, pos |-> 0]
        ELSE [ind |-> at.ind, pos |-> pos + 1]

UnknownOption(c, next) ==
  /\ optind' = next.ind /\ optpos' = next.pos
  /\ optopt' = c
  /\ Gives(Result("?", c, Null))
  /\ UNCHANGED optarg

Flag(c, next) ==
  /\ optind' = next.ind /\ optpos' = next.pos
  /\ Gives(Result("option", c, Null))
  /\ UNCHANGED <<optarg, optopt>>

\* Mutant of TakesWord: an optional argument is looked for in the next word only.
TakesNextWord(c, next) == Kind(c) = "required"

\* An optional argument is taken from the same word only.
TakesWord(c, next) == Kind(c) = "required" \/ next.pos # 0

\* Mutant of BehindArgument: the word of the option is counted once more.
BehindBoth(next) == next.ind + 2

BehindArgument(next) == next.ind + 1

\* argv[argc] is NULL; taking it moves optind beyond argc.
WithArgument(c, next) ==
  LET arg == IF next.ind = argc THEN Null ELSE <<next.ind, next.pos>>
  IN  /\ optpos' = 0
      /\ optarg' = arg
      /\ optind' = BehindArgument(next)
      /\ IF BehindArgument(next) > argc
           THEN /\ optopt' = c
                /\ Gives(Result(IF Silent THEN ":" ELSE "?", c, Null))
           ELSE /\ UNCHANGED optopt
                /\ Gives(Result("option", c, arg))

WithoutArgument(c, next) ==
  /\ optind' = next.ind /\ optpos' = next.pos
  /\ optarg' = Null
  /\ Gives(Result("option", c, Null))
  /\ UNCHANGED optopt

Option(at) ==
  LET c    == Arg(at.ind)[IF at.pos = 0 THEN 2 ELSE at.pos + 1]
      next == Advance(at)
  IN  CASE Kind(c) = "unknown" -> UnknownOption(c, next)
        [] Kind(c) = "flag"    -> Flag(c, next)
        [] OTHER -> IF TakesWord(c, next) THEN WithArgument(c, next)
                    ELSE WithoutArgument(c, next)

\* getopt() at the word w.
GetoptAt(at, w) ==
  \/ IsOperand(w) /\ Operands /\ Operand(at)
  \/ IsOperand(w) /\ ~Operands /\ Ends(at.ind)
  \/ w = <<"-">> /\ Ends(at.ind)
  \/ w = <<"-", "-">> /\ EndOfOptions(at)
  \/ IsOptionWord(w) /\ Option(at)

getopt ==
  IF Start.ind >= argc THEN Ends(Start.ind) ELSE GetoptAt(Start, Arg(Start.ind))

-----------------------------------------------------------------------------
(* The program: it calls getopt() until that returns -1.                   *)

NextCall == returned # "end" /\ getopt

StartsOver(ind) ==
  /\ rescans < MaxRescans
  /\ rescans' = rescans + 1
  /\ optind' = ind
  /\ returned' = "none" /\ log' = <<>>
  /\ UNCHANGED <<argv, optstring, optarg, optopt, optpos>>

\* To 0 at any time, also in the middle of a word; to 1 when the scan has ended.
Rescan ==
  \/ StartsOver(0)
  \/ returned = "end" /\ StartsOver(1)

GetoptInit ==
  /\ argv \in UNION {{<<Program>> \o words : words \in [1 .. (n - 1) -> Word]} : n \in Argc}
  /\ optstring \in OptString
  /\ optind = 1 /\ optpos = 0
  /\ optarg = Null /\ optopt = "0"
  /\ returned = "none" /\ log = <<>> /\ rescans = 0

GetoptNext == NextCall \/ Rescan

GetoptSpec == GetoptInit /\ [][GetoptNext]_getoptVars /\ WF_getoptVars(NextCall)

-----------------------------------------------------------------------------
(* What the options of argv are, without a position that moves: the results *)
(* from the word i on and the value of optind after them.                  *)

\* A word of options: flags up to the first option that has an argument.
Characters(w)  == 2 .. Len(w)
ArgumentAt(w)  == {k \in Characters(w) : Kind(w[k]) \in {"required", "optional"}}
FlagResults(w) ==
  LET end == IF ArgumentAt(w) = {} THEN Len(w) ELSE (CHOOSE k \in ArgumentAt(w) :
                                                  \A j \in ArgumentAt(w) : k <= j) - 1
  IN  [k \in 1 .. (end - 1) |->
         Result(IF Kind(w[k + 1]) = "unknown" THEN "?" ELSE "option", w[k + 1], Null)]

Before(results, rest) == [results |-> results \o rest.results, ind |-> rest.ind]
Nothing(i)            == [results |-> <<>>, ind |-> i]

\* The reading of the words from i on, by that of the words behind, later.
ReadingAt(later, i) ==
  IF i >= argc THEN Nothing(i)
  ELSE
    LET w     == Arg(i)
        flags == FlagResults(w)
        at    == Len(flags) + 2   \* the option with an argument
        rest  == Len(w) > at      \* the word goes on behind it
    IN CASE IsOperand(w) ->
              IF Operands THEN Before(<<Result("operand", "-", <<i, 0>>)>>, later[i + 1])
              ELSE Nothing(i)
         [] w = <<"-">> -> Nothing(i)
         [] w = <<"-", "-">> -> Nothing(i + 1)
         [] IsOptionWord(w) /\ at > Len(w) -> Before(flags, later[i + 1])
         [] IsOptionWord(w) /\ at <= Len(w) /\ rest ->
              Before(Append(flags, Result("option", w[at], <<i, at>>)), later[i + 1])
         [] IsOptionWord(w) /\ at = Len(w) /\ Kind(w[at]) = "optional" ->
              Before(Append(flags, Result("option", w[at], Null)), later[i + 1])
         [] OTHER ->   \* the argument is the next word, if there is one
              IF i + 1 < argc
                THEN Before(Append(flags, Result("option", w[at], <<i + 1, 0>>)), later[i + 2])
                ELSE Before(Append(flags, Result(IF Silent THEN ":" ELSE "?", w[at], Null)),
                            Nothing(i + 2))

Reading[i \in 1 .. (argc + 1)] == ReadingAt(Reading, i)

Reference == Reading[1]

-----------------------------------------------------------------------------
(* Properties.                                                             *)

GetoptTypeOK ==
  /\ argc \in Argc /\ optstring \in OptString
  /\ optind \in 0 .. (argc + 1)
  /\ optpos \in Nat
  /\ optarg \in (0 .. argc) \X Nat
  /\ returned \in {"none", "end", "option", "operand", "?", ":"}
  /\ rescans \in 0 .. MaxRescans

\* Between two calls __optpos is 0 or the position of a character that was not
\* looked at yet, in the word optind is at: the two variables never drift apart,
\* also when an argument was taken from the same word, from the next or is not
\* there at all.
PositionUnread ==
  optind # 0 /\ optpos # 0 =>
    /\ optind < argc
    /\ IsOptionWord(Arg(optind))
    /\ optpos < Len(Arg(optind))

\* The calls return the options of argv, one after the other, each with the
\* argument that belongs to it, and at the end optind is at the first operand:
\* in the first scan, after an error, and after the scan was started over.
OptionsOfArgv ==
  /\ Len(log) <= Len(Reference.results)
  /\ log = SubSeq(Reference.results, 1, Len(log))
  /\ returned = "end" => log = Reference.results /\ optind = Reference.ind

\* A program that calls getopt() in a loop gets its -1.
LoopEnds == returned # "none" ~> returned = "end"
=============================================================================
