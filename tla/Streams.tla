------------------------------ MODULE Streams ------------------------------
(***************************************************************************)
(* The streams of stdio.h: fwrite(), fputs(), puts(), fputc() of several    *)
(* processes into one pipe, fgets() and fgetc() of the process at its end.  *)
(*                                                                         *)
(* A FILE* is the complement of a descriptor and has no buffer: each        *)
(* character of fgets() is a read(), and a write() that takes a part of the *)
(* data is followed by another for the rest, with the writes of other       *)
(* processes in between.  An interrupted or failed system call and the end  *)
(* of the file look the same to the loops of the library.                   *)
(*                                                                         *)
(* Every writer numbers the bytes it hands to the library, so that a byte   *)
(* tells where it comes from.  One step is one system call.                 *)
(***************************************************************************)
EXTENDS Integers, Sequences

CONSTANTS
  Writer,     \* the processes that write
  Reader,     \* the process that reads
  Capacity,   \* the bytes the pipe holds
  Quota,      \* Quota[w]: the bytes w hands to the library in all its calls
  MaxBytes,   \* the largest quota
  LineSize,   \* the sizes of the buffers the reader gives to fgets()
  MaxErrors   \* the number of system calls that signals interrupt

ASSUME StreamsAssumption ==
  /\ Reader \notin Writer
  /\ {Capacity, MaxBytes} \subseteq Nat \ {0} /\ MaxErrors \in Nat
  /\ LineSize \subseteq Nat \ {0}
  /\ Quota \in [Writer -> 0 .. MaxBytes]

VARIABLES
  open,    \* the processes that have the stream open
  sent,    \* the bytes write() has put into the pipe, since the beginning
  rpos,    \* how many of them read() has taken out
  given,   \* given[w]: the bytes w has handed to the library in finished calls
  wcall,   \* wcall[w]: the call w is in, or Idle
  last,    \* last[w]: the last call of w that returned, and what it returned
  rsize,   \* the size of the buffer of the fgets() in progress, 0 if there is none
  line,    \* the characters it has read
  out,     \* the characters the reader's program was given
  errors   \* the system calls interrupted so far

vars == <<open, sent, rpos, given, wcall, last, rsize, line, out, errors>>

Byte == [writer : Writer, nr : 1 .. MaxBytes, newline : BOOLEAN]

\* A call for nmemb items of size bytes, after `written' whole items and `done'
\* bytes of the next one.  puts() is one item, which its newline ends.
Call == [puts : BOOLEAN, size : 0 .. MaxBytes, nmemb : 0 .. MaxBytes,
         written : 0 .. MaxBytes, done : 0 .. MaxBytes]

Idle == [puts |-> FALSE, size |-> 0, nmemb |-> 0, written |-> 0, done |-> 0]

InCall(w) == wcall[w] # Idle

MinOf(a, b) == IF a < b THEN a ELSE b

-----------------------------------------------------------------------------
(* Writing.                                                                *)

\* The call c of w returns c.written, the number of items it has written.
Finish(w, c) ==
  /\ wcall' = [wcall EXCEPT ![w] = Idle]
  /\ last' = [last EXCEPT ![w] = c]
  /\ given' = [given EXCEPT ![w] = @ + c.size * c.nmemb]

Start(w, c) ==
  /\ w \in open /\ ~InCall(w)
  /\ given[w] + c.size * c.nmemb <= Quota[w]
  /\ wcall' = [wcall EXCEPT ![w] = c]
  /\ UNCHANGED <<open, sent, rpos, given, last, rsize, line, out, errors>>

\* No byte to write: the loops of fwrite() end without a system call, and all
\* the items count as written.
FwriteNothing(w, nmemb) ==
  /\ w \in open /\ ~InCall(w)
  /\ Finish(w, [Idle EXCEPT !.nmemb = nmemb, !.written = nmemb])
  /\ UNCHANGED <<open, sent, rpos, rsize, line, out, errors>>

\* fputs() of a string of n characters is Fwrite(w, n, 1).
Fwrite(w, size, nmemb) ==
  /\ size > 0 /\ nmemb > 0
  /\ Start(w, [Idle EXCEPT !.size = size, !.nmemb = nmemb])

Puts(w, len) == Start(w, [Idle EXCEPT !.puts = TRUE, !.size = len + 1, !.nmemb = 1])

Fputc(w) == Start(w, [Idle EXCEPT !.size = 1, !.nmemb = 1])

\* Mutant of Asked: the size is not reduced after a short write.
AskedWhole(c) == c.size

\* What the next write() is asked to take: the rest of the item, but the newline
\* of puts() comes in a system call of its own.
Asked(c) ==
  IF c.puts /\ c.done < c.size - 1 THEN c.size - 1 - c.done ELSE c.size - c.done

\* The bytes that come next in the call c of w.
NextBytes(w, c, n) ==
  LET from == given[w] + c.written * c.size + c.done
  IN  [i \in 1 .. n |-> [writer |-> w, nr |-> from + i,
                         newline |-> c.puts /\ c.done + i = c.size]]

\* Mutant of Wrote: the retry starts over with the bytes that were taken.
WroteAgain(c, n) ==
  IF n < Asked(c) THEN c
  ELSE IF c.done + n = c.size THEN [c EXCEPT !.written = @ + 1, !.done = 0]
  ELSE [c EXCEPT !.done = @ + n]

\* Mutant of Wrote: a short write passes for a whole one.
WroteShort(c, n) ==
  IF c.done + Asked(c) = c.size THEN [c EXCEPT !.written = @ + 1, !.done = 0]
  ELSE [c EXCEPT !.done = @ + Asked(c)]

\* The call after write() has taken n of its bytes.
Wrote(c, n) ==
  IF c.done + n = c.size THEN [c EXCEPT !.written = @ + 1, !.done = 0]
  ELSE [c EXCEPT !.done = @ + n]

\* write() takes some of the bytes, as many as there is room for.
WriteSome(w, n) ==
  LET c == Wrote(wcall[w], n)
  IN  /\ Reader \in open
      /\ n <= Asked(wcall[w]) /\ n <= Capacity - (Len(sent) - rpos)
      /\ sent' = sent \o NextBytes(w, wcall[w], n)
      /\ IF c.written = c.nmemb
           THEN Finish(w, c)
           ELSE wcall' = [wcall EXCEPT ![w] = c] /\ UNCHANGED <<given, last>>
      /\ UNCHANGED <<open, rpos, rsize, line, out, errors>>

\* write() takes nothing: a signal came first.  There is no second try.
WriteInterrupted(w) ==
  /\ errors < MaxErrors
  /\ errors' = errors + 1
  /\ Finish(w, wcall[w])
  /\ UNCHANGED <<open, sent, rpos, rsize, line, out>>

\* Mutant of WriteBroken: the failed write() is tried again.
WriteBrokenRetries(w) ==
  /\ Reader \notin open
  /\ UNCHANGED vars

\* Nobody reads any longer, and the program ignores SIGPIPE.
WriteBroken(w) ==
  /\ Reader \notin open
  /\ Finish(w, wcall[w])
  /\ UNCHANGED <<open, sent, rpos, rsize, line, out, errors>>

WriteCall(w) ==
  /\ InCall(w)
  /\ \/ \E n \in 1 .. MinOf(Capacity, MaxBytes) : WriteSome(w, n)
     \/ WriteInterrupted(w)
     \/ WriteBroken(w)

-----------------------------------------------------------------------------
(* Reading.                                                                *)

\* fgets() returns what it has read; nothing of it is NULL for the program.
FgetsReturns(str) ==
  /\ out' = out \o str
  /\ line' = <<>>
  /\ rsize' = 0

\* With room for the terminator only, fgets() returns NULL without reading.
Fgets(size) ==
  /\ Reader \in open /\ rsize = 0
  /\ size > 1
  /\ rsize' = size
  /\ UNCHANGED <<open, sent, rpos, given, wcall, last, line, out, errors>>

\* Mutants of FgetsGets: no room is left for the terminator; the newline is read
\* and not kept.
FgetsFillsBuffer(c) ==
  LET str == Append(line, c)
  IN  IF c.newline \/ Len(str) >= rsize
        THEN FgetsReturns(str)
        ELSE line' = str /\ UNCHANGED <<rsize, out>>

FgetsDropsNewline(c) ==
  LET str == IF c.newline THEN line ELSE Append(line, c)
  IN  IF c.newline \/ Len(str) + 1 >= rsize
        THEN FgetsReturns(str)
        ELSE line' = str /\ UNCHANGED <<rsize, out>>

\* fgets() got a character.
FgetsGets(c) ==
  LET str == Append(line, c)
  IN  IF c.newline \/ Len(str) + 1 >= rsize
        THEN FgetsReturns(str)
        ELSE line' = str /\ UNCHANGED <<rsize, out>>

ReadByte ==
  /\ rpos < Len(sent)
  /\ rpos' = rpos + 1
  /\ FgetsGets(sent[rpos + 1])
  /\ UNCHANGED errors

\* Mutant of ReadEnd: the end of the file is taken for a reason to try again.
ReadEndRetries ==
  /\ rpos = Len(sent)
  /\ open \cap Writer = {}
  /\ UNCHANGED <<rpos, errors, rsize, line, out>>

\* read() returns 0 once all the writers have closed the pipe.
ReadEnd ==
  /\ rpos = Len(sent)
  /\ open \cap Writer = {}
  /\ FgetsReturns(line)
  /\ UNCHANGED <<rpos, errors>>

\* An interrupted read() ends the line as the end of the file does.
ReadInterrupted ==
  /\ errors < MaxErrors
  /\ errors' = errors + 1
  /\ FgetsReturns(line)
  /\ UNCHANGED rpos

ReadCall ==
  /\ Reader \in open /\ rsize > 0
  /\ ReadByte \/ ReadEnd \/ ReadInterrupted
  /\ UNCHANGED <<open, sent, given, wcall, last>>

\* fgetc() between two lines: one read() of one byte, or EOF when a signal comes
\* first.
Fgetc ==
  /\ Reader \in open /\ rsize = 0
  /\ \/ /\ rpos < Len(sent)
        /\ rpos' = rpos + 1
        /\ out' = Append(out, sent[rpos + 1])
        /\ UNCHANGED errors
     \/ /\ errors < MaxErrors
        /\ errors' = errors + 1
        /\ UNCHANGED <<rpos, out>>
  /\ UNCHANGED <<open, sent, given, wcall, last, rsize, line>>

Fclose(p) ==
  /\ p \in open
  /\ IF p = Reader THEN rsize = 0 ELSE ~InCall(p)
  /\ open' = open \ {p}
  /\ UNCHANGED <<sent, rpos, given, wcall, last, rsize, line, out, errors>>

-----------------------------------------------------------------------------

Init ==
  /\ open = Writer \cup {Reader}
  /\ sent = <<>> /\ rpos = 0
  /\ given = [w \in Writer |-> 0]
  /\ wcall = [w \in Writer |-> Idle]
  /\ last = [w \in Writer |-> Idle]
  /\ rsize = 0 /\ line = <<>> /\ out = <<>>
  /\ errors = 0

Next ==
  \/ \E w \in Writer :
       \/ \E size, nmemb \in 1 .. MaxBytes : Fwrite(w, size, nmemb)
       \/ FwriteNothing(w, 1)
       \/ \E len \in 0 .. (MaxBytes - 1) : Puts(w, len)
       \/ Fputc(w)
       \/ WriteCall(w)
  \/ \E size \in LineSize : Fgets(size)
  \/ ReadCall
  \/ Fgetc
  \/ \E p \in Writer \cup {Reader} : Fclose(p)

\* A system call that can go on does; the reader goes on asking for lines.
Fairness ==
  /\ \A w \in Writer : WF_vars(WriteCall(w))
  /\ WF_vars(ReadCall)
  /\ WF_vars(\E size \in LineSize : Fgets(size))

Spec == Init /\ [][Next]_vars /\ Fairness

-----------------------------------------------------------------------------
(* Properties.                                                             *)

TypeOK ==
  /\ open \subseteq Writer \cup {Reader}
  /\ sent \in Seq(Byte)
  /\ rpos \in 0 .. Len(sent)
  /\ Len(sent) - rpos <= Capacity
  /\ given \in [Writer -> 0 .. MaxBytes]
  /\ wcall \in [Writer -> Call]
  /\ last \in [Writer -> Call]
  /\ rsize \in LineSize \cup {0}
  /\ line \in Seq(Byte) /\ out \in Seq(Byte)
  /\ rsize > 0 => Len(line) + 2 <= rsize
  /\ \A i \in DOMAIN line : ~line[i].newline
  /\ errors \in 0 .. MaxErrors

\* The bytes of w that are in the pipe or were.
Sent(w) == {sent[i].nr : i \in {j \in DOMAIN sent : sent[j].writer = w}}

\* fwrite() returns the number of the items that went into the pipe whole, and
\* fputs(), puts() and fputc() succeed if all of theirs did: also when short
\* writes, writes of others and a signal came in between.
ItemsCounted ==
  \A w \in Writer :
    ~InCall(w) =>
      LET c == last[w]
          start == given[w] - c.size * c.nmemb
      IN  \A i \in 1 .. c.nmemb :
            i <= c.written <=>
              ((start + (i - 1) * c.size + 1) .. (start + i * c.size)) \subseteq Sent(w)

\* The bytes of a writer go into the pipe in order and once each: the retry
\* after a short write starts where the write stopped.
InOrderOnce ==
  \A i, j \in DOMAIN sent :
    i < j /\ sent[i].writer = sent[j].writer => sent[i].nr < sent[j].nr

\* All that was read from the pipe has reached the program or will with the line
\* in progress: a signal in the middle of a line loses none of it.
NothingDropped == out \o line = SubSeq(sent, 1, rpos)

\* Whoever writes gets its result, as long as the reader reads or closes: the
\* loop of _fwrite() ends for any sequence of short writes.
CallsReturn == \A w \in Writer : InCall(w) ~> ~InCall(w)

\* Once the writers have closed the stream, the reader's program gets all that
\* was written, a last line without a newline too, unless it closes the stream.
EverythingRead == open \cap Writer = {} ~> out = sent \/ Reader \notin open
=============================================================================
