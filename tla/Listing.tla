------------------------------- MODULE Listing ------------------------------
(***************************************************************************)
(* What readdir_r() promises to the programs that share a directory         *)
(* stream, without descriptors, offsets and batches: the stream is a queue  *)
(* of entries, each call takes the first of them, and the end is told only  *)
(* when none is left, or while a call of another program is in progress.    *)
(* Nothing is promised any longer of a stream on which two calls took an    *)
(* entry at the same time, or of which a call that failed lost the rest.    *)
(***************************************************************************)
EXTENDS Integers, Sequences

CONSTANTS
  Stream,    \* the directory streams
  Dir,       \* the entries of the directory, a sequence
  Nothing    \* the result at its end

VARIABLES
  status,    \* status[d]: "closed", "listed" or "lost"
  seen,      \* seen[d]: the entries that calls on d have returned
  inside,    \* the streams of which a call is taking an entry
  told       \* what the last call returned

listingVars == <<status, seen, inside, told>>

Answers(e) == told' = [err |-> "0", result |-> e]

Opens(d) ==
  /\ status[d] = "closed"
  /\ status' = [status EXCEPT ![d] = "listed"]
  /\ UNCHANGED <<seen, inside, told>>

Closes(d) ==
  /\ d \notin inside
  /\ status' = [status EXCEPT ![d] = "closed"]
  /\ seen' = [seen EXCEPT ![d] = <<>>]
  /\ UNCHANGED <<inside, told>>

\* One call at a time takes an entry.
Begins(d) ==
  /\ status[d] = "listed" /\ d \notin inside /\ Len(seen[d]) < Len(Dir)
  /\ inside' = inside \cup {d}
  /\ UNCHANGED <<status, seen, told>>

Takes(d) ==
  LET e == Dir[Len(seen[d]) + 1]
  IN  /\ d \in inside
      /\ Answers(e)
      /\ seen' = [seen EXCEPT ![d] = Append(@, e)]
      /\ inside' = inside \ {d}
      /\ UNCHANGED status

TellsEnd(d) ==
  /\ status[d] = "listed"
  /\ Len(seen[d]) = Len(Dir) \/ d \in inside
  /\ Answers(Nothing)
  /\ UNCHANGED <<status, seen, inside>>

Fails ==
  /\ told'.err # "0"
  /\ UNCHANGED <<status, seen, inside>>

\* A second call takes an entry before the first has returned, or the call fails.
Loses(d) ==
  /\ d \in inside
  /\ told' = told \/ told'.err # "0"
  /\ status' = [status EXCEPT ![d] = "lost"]
  /\ seen' = [seen EXCEPT ![d] = <<>>]
  /\ inside' = inside \ {d}

\* A call on a stream of which nothing is promised.
Strays ==
  /\ \E d \in Stream : status[d] = "lost"
  /\ UNCHANGED <<status, seen, inside>>

ListingInit ==
  /\ status = [d \in Stream |-> "closed"]
  /\ seen = [d \in Stream |-> <<>>]
  /\ inside = {}
  /\ told.err # "0"

ListingNext ==
  \/ \E d \in Stream :
       \/ Opens(d) \/ Closes(d) \/ Begins(d) \/ Takes(d) \/ TellsEnd(d) \/ Loses(d)
  \/ Fails
  \/ Strays

ListingSpec == ListingInit /\ [][ListingNext]_listingVars
=============================================================================
