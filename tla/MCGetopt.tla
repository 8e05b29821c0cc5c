----------------------------- MODULE MCGetopt -------------------------------
(* Up to three words after the program; a flag a, an option r with an       *)
(* argument, an option o that may have one, and a character u of no option. *)
EXTENDS Getopt

MCWord == {<<"x">>, <<>>, <<"-">>, <<"-", "-">>, <<"-", "a">>, <<"-", "a", "u">>,
           <<"-", "r">>, <<"-", "a", "r", "x">>, <<"-", "o">>, <<"-", "o", "a">>,
           <<"-", "-", "a">>}

MCOptString == {<<"a", "r", ":", "o", ":", ":">>, <<"-", "o", ":", ":", "r", ":", "a">>,
                <<"+", ":", "a", "r", ":", "o", ":", ":">>}
=============================================================================
