------------------------------ MODULE MCPrintf ------------------------------
(* Every format of up to four characters out of six and of five characters   *)
(* out of five, and some longer ones with the other conversions; an int of   *)
(* four bits, a long of six, a char of three.                               *)
EXTENDS Printf

MCFormat ==
  UNION {[1 .. k -> {"a", "%", "3", "d", "l", "z"}] : k \in 0 .. 4}
    \cup [1 .. 5 -> {"a", "%", "3", "d", "l"}]
    \cup {<<"%", "l", "d", "%", "d">>, <<"%", "l", "l", "d", "%", "3", "x">>,
          <<"%", "j", "u", "a", "%", "c">>, <<"%", "1", "0", "s", "a">>,
          <<"%", "s", "%", "4", "d">>, <<"%", "p", "%", "l", "s">>,
          <<"%", "m", "%", "%", "%", "l", "u">>, <<"%", "3", "d", "%", "m">>,
          <<"a", "%", "3", "z", "c", "a">>}

MCArgument ==
  {[type |-> "int", value |-> v] : v \in {0, 8, 13}}
    \cup {[type |-> "long", value |-> v] : v \in {5, 50}}
    \cup {[type |-> "llong", value |-> v] : v \in {12, 200}}
    \cup {[type |-> "str", value |-> s] : s \in {Null, <<>>, <<"b", "c">>}}

MCModulus == [char |-> 2 ^ 3, int |-> 2 ^ 4, long |-> 2 ^ 6, llong |-> 2 ^ 8]
=============================================================================
