------------------------------- MODULE MCText -------------------------------
(* The functions on text, side by side: a behaviour is a call of string.h, a   *)
(* conversion of a number, a sscanf(), or the scan of an argv with getopt().   *)
(* Memories of five bytes with the first, the second and the last value of an  *)
(* unsigned char, and a size_t of four bits; an int of four bits, a long of    *)
(* eight and a long long of twelve.                                            *)
EXTENDS Strings, Scanf, MCGetopt

MCCharArg == {257, -1}

MCModulus == [int |-> 2 ^ 4, long |-> 2 ^ 8, llong |-> 2 ^ 12]

MCNumberText == UNION {[1..k -> {" ", "+", "-", "0", "x", "7", "9", "Z"}] : k \in 0 .. 3}
                \cup UNION {[1..k -> {"-", "7", "0"}] : k \in 4 .. 5}

MCBase == {-1, 0, 8, 10, 16, 36, 37}

Conversions == [kind : {"number"}, conv : {"d", "u", "x"}, l : 0 .. 2]
                 \cup [kind : {"number"}, conv : {"p"}, l : {0}]

Numbered(p, v) == [kind |-> "number", conv |-> p.conv, l |-> p.l, value |-> v]

\* The numbers at the borders of a type.
Border(p) ==
  IF p.conv = "d" THEN {LeastOf(TypeOf(p)), -1, 0, GreatestOf(TypeOf(p))}
  ELSE {0, 10, GreatestOf(TypeOf(p)) + 1, Modulus[TypeOf(p)] - 1}

MCNumber == UNION {{Numbered(p, v) : v \in Border(p)} : p \in Conversions}

Plain(ch) == [kind |-> "plain", char |-> ch]
Percents  == [kind |-> "percent"]
Spaces(f, t) == [kind |-> "spaces", format |-> f, text |-> t]

MCBetween == {<<Plain(",")>>, <<Spaces(<<" ">>, <<" ", " ">>)>>,
              <<Spaces(<<" ">>, <<" ">>), Percents, Spaces(<<" ", " ">>, <<>>)>>}

MCPiece == MCNumber \cup UNION {{b[i] : i \in DOMAIN b} : b \in MCBetween}

MCPrinting == {<<p>> : p \in MCNumber} \cup {<<p>> \o s \o <<q>> : p, q \in MCNumber, s \in MCBetween}

MCScanFormat == UNION {[1..k -> {"%", "d", "l", " ", "a"}] : k \in 0 .. 4}
MCScanText   == UNION {[1..k -> {"1", "-", " ", "a", "%"}] : k \in 0 .. 2}

vars == <<stringsVars, numbersVars, scanfVars, getoptVars, errno, part>>

\* Where no argv is scanned.
NoOptions ==
  /\ argv = <<Program>> /\ optstring = <<"a", "r", ":", "o", ":", ":">>
  /\ optind = 1 /\ optpos = 0 /\ optarg = Null /\ optopt = "0"
  /\ returned = "none" /\ log = <<>> /\ rescans = 0

Init ==
  /\ TextInit /\ StringsInit
  /\ part # "strings" => rep /\ mem = [p \in Place |-> 0]
  /\ \/ part = "getopt" /\ GetoptInit
     \/ part # "getopt" /\ NoOptions

Next ==
  \/ part = "strings" /\ StringsNext /\ UNCHANGED <<numbersVars, scanfVars, getoptVars, errno, part>>
  \/ part = "getopt" /\ GetoptNext /\ UNCHANGED <<stringsVars, numbersVars, scanfVars, errno, part>>
  \/ TextNext /\ UNCHANGED <<stringsVars, getoptVars>>

\* The program goes on calling getopt(), where it has started to.
Spec == Init /\ [][Next]_vars /\ WF_getoptVars(part = "getopt" /\ NextCall)
=============================================================================
