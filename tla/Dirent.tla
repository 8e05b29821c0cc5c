------------------------------- MODULE Dirent -------------------------------
(***************************************************************************)
(* Directory streams: opendir(), fdopendir(), closedir() and readdir_r().  *)
(*                                                                         *)
(* A DIR* is the complement of a file descriptor; there is no buffer behind *)
(* it.  getdents64() hands out a batch of entries, readdir_r() returns the  *)
(* first of them and moves the file offset back with lseek(), so that the   *)
(* next call finds the others.  The offset belongs to the open file         *)
(* description: after fork() two processes share it, and between the two    *)
(* system calls of one of them the other may make its own.                  *)
(*                                                                         *)
(* Entries are numbered 1 .. NEntries in directory order; the offset counts *)
(* the entries before it, which is what the d_off of an entry stands for.   *)
(***************************************************************************)
EXTENDS Integers, Sequences

CONSTANTS
  Process,    \* the processes
  Parent,     \* the one that runs at first
  MaxFd,      \* descriptors are 0 .. MaxFd
  Desc,       \* open file descriptions
  Closed,     \* stands for no description
  NEntries,   \* the number of entries of the directory
  Batch,      \* the most entries one getdents64() returns
  BadCookie,  \* the entries whose d_off has its low 32 bits all set
  MaxDirErrors \* the number of times the kernel fails a getdents64() or lseek()

ASSUME DirentAssumption ==
  /\ Parent \in Process /\ Closed \notin Desc
  /\ MaxFd \in Nat /\ NEntries \in Nat /\ MaxDirErrors \in Nat
  /\ Batch \in Nat \ {0}
  /\ BadCookie \subseteq 1 .. NEntries

VARIABLES
  running,   \* the processes that exist
  fds,       \* fds[p][fd]: the description behind a descriptor, or Closed
  pos,       \* pos[d]: the file offset
  errno,     \* errno[p]
  call,      \* call[p]: the readdir_r() between its two system calls, or NoCall
  ret,       \* what the last readdir_r() of any process gave back
  dirErrors, \* the errors of the kernel so far
  returned,  \* returned[d]: the entries readers of d were given, in order
  torn       \* torn[d]: two calls on d overlapped, or one reported that it
             \* could not move the offset back

direntVars == <<running, fds, pos, errno, call, ret, dirErrors, returned, torn>>

Fd     == 0 .. MaxFd
Entry  == 1 .. NEntries
NoCall == [fd |-> -1, entry |-> 0]
Null   == 0     \* *result is NULL: the end of the directory
Unset  == -1    \* *result was not written
Errno  == {"0", "E"}   \* "E" stands for any error number

Complement(i) == -1 - i

\* readdir_r() returns err; *result is res.
Returns(err, res) == ret' = [err |-> err, result |-> res]

SetErrno(p, e) == errno' = [errno EXCEPT ![p] = e]

Ready(p) == p \in running /\ call[p] = NoCall

\* Another process is inside a readdir_r() on d.
Busy(p, d) == \E q \in running \ {p} : call[q] # NoCall /\ fds[q][call[q].fd] = d

-----------------------------------------------------------------------------
(* Opening and closing.                                                    *)

FreeFds(p) == {fd \in Fd : fds[p][fd] = Closed}

InUse(d) == \E p \in running, fd \in Fd : fds[p][fd] = d

\* open() takes the lowest free descriptor, fdopendir() only complements it.
OpendirAt(p, fd, d) ==
  /\ fd \in FreeFds(p) /\ \A f \in FreeFds(p) : fd <= f
  /\ ~InUse(d)
  /\ fds' = [fds EXCEPT ![p][fd] = d]
  /\ pos' = [pos EXCEPT ![d] = 0]
  /\ returned' = [returned EXCEPT ![d] = <<>>]
  /\ torn' = [torn EXCEPT ![d] = FALSE]
  /\ UNCHANGED <<running, errno, call, ret, dirErrors>>

OpendirFails(p) ==
  /\ SetErrno(p, "E")
  /\ UNCHANGED <<running, fds, pos, call, ret, dirErrors, returned, torn>>

Opendir(p) ==
  /\ Ready(p)
  /\ OpendirFails(p) \/ \E fd \in Fd, d \in Desc : OpendirAt(p, fd, d)

\* fdopendir() looks at nothing but the sign of the descriptor.
Fdopendir(p, fd) ==
  /\ Ready(p)
  /\ fd < 0
  /\ SetErrno(p, "E")
  /\ UNCHANGED <<running, fds, pos, call, ret, dirErrors, returned, torn>>

\* A descriptor this process does not have, or a pointer that is none.
NotOpen(p, dirp) == dirp < 0 => fds[p][Complement(dirp)] = Closed

Closedir(p, dirp) ==
  /\ Ready(p)
  /\ IF NotOpen(p, dirp)
       THEN SetErrno(p, "E") /\ UNCHANGED fds
       ELSE fds' = [fds EXCEPT ![p][Complement(dirp)] = Closed] /\ UNCHANGED errno
  /\ UNCHANGED <<running, pos, call, ret, dirErrors, returned, torn>>

Fork(p, child) ==
  /\ Ready(p)
  /\ child \notin running
  /\ running' = running \cup {child}
  /\ fds' = [fds EXCEPT ![child] = fds[p]]
  /\ errno' = [errno EXCEPT ![child] = errno[p]]
  /\ UNCHANGED <<pos, call, ret, dirErrors, returned, torn>>

-----------------------------------------------------------------------------
(* readdir_r(), from the call to getdents64() and then to lseek().         *)

ReaddirBadDir(p, dirp) ==
  /\ NotOpen(p, dirp)
  /\ Returns("E", Unset)
  /\ UNCHANGED <<running, fds, pos, errno, call, dirErrors, returned, torn>>

\* sys_getdents64() is called without going through errno.
GetdentsFails(p) ==
  /\ dirErrors < MaxDirErrors
  /\ dirErrors' = dirErrors + 1
  /\ Returns("E", Unset)
  /\ UNCHANGED <<running, fds, pos, errno, call, returned, torn>>

ReaddirEnd(p, d) ==
  /\ pos[d] = NEntries
  /\ Returns("0", Null)
  /\ UNCHANGED <<running, fds, pos, errno, call, dirErrors, returned, torn>>

\* The kernel returns n entries and moves the offset past the last of them.
Getdents(p, fd, n) ==
  LET d == fds[p][fd]
  IN  /\ pos[d] + n <= NEntries
      /\ call' = [call EXCEPT ![p] = [fd |-> fd, entry |-> pos[d] + 1]]
      /\ pos' = [pos EXCEPT ![d] = @ + n]
      /\ torn' = [torn EXCEPT ![d] = @ \/ Busy(p, d)]
      /\ UNCHANGED <<running, fds, errno, ret, dirErrors, returned>>

Readdir(p, dirp) ==
  /\ Ready(p)
  /\ \/ ReaddirBadDir(p, dirp)
     \/ /\ ~NotOpen(p, dirp)
        /\ LET fd == Complement(dirp)
           IN  \/ GetdentsFails(p)
               \/ ReaddirEnd(p, fds[p][fd])
               \/ \E n \in 1 .. Batch : Getdents(p, fd, n)

\* Mutant of SeekBack: the offset stays where getdents64() left it.
NoSeekBack(p) ==
  LET d == fds[p][call[p].fd]
  IN  /\ call' = [call EXCEPT ![p] = NoCall]
      /\ Returns("0", call[p].entry)
      /\ returned' = [returned EXCEPT ![d] = IF torn[d] THEN <<>>
                                             ELSE Append(@, call[p].entry)]
      /\ UNCHANGED <<running, fds, pos, errno, dirErrors, torn>>

\* Mutant of SeekBack: the offset goes back to the entry that is returned.
SeekToEntry(p) ==
  LET d == fds[p][call[p].fd]
  IN  /\ call' = [call EXCEPT ![p] = NoCall]
      /\ Returns("0", call[p].entry)
      /\ pos' = [pos EXCEPT ![d] = call[p].entry - 1]
      /\ UNCHANGED <<running, fds, errno, dirErrors, returned, torn>>

\* lseek() moves the offset behind the first entry.  Its result, cut to an int,
\* is compared with -1: it looks like a failure when the low 32 bits of d_off
\* are all set, and readdir_r() returns whatever errno holds.
SeekBack(p) ==
  LET d == fds[p][call[p].fd]
      e == call[p].entry
  IN  /\ call' = [call EXCEPT ![p] = NoCall]
      /\ pos' = [pos EXCEPT ![d] = e]
      /\ IF e \in BadCookie
           THEN Returns(errno[p], Unset) /\ UNCHANGED returned
           ELSE /\ Returns("0", e)
                /\ returned' = [returned EXCEPT ![d] = IF torn[d] THEN <<>>
                                                       ELSE Append(@, e)]
      /\ UNCHANGED <<running, fds, errno, dirErrors, torn>>

\* Mutant of SeekFails: nobody looks at the result of lseek().
SeekUnchecked(p) ==
  LET d == fds[p][call[p].fd]
  IN  /\ dirErrors < MaxDirErrors
      /\ dirErrors' = dirErrors + 1
      /\ SetErrno(p, "E")
      /\ Returns("0", call[p].entry)
      /\ returned' = [returned EXCEPT ![d] = Append(@, call[p].entry)]
      /\ call' = [call EXCEPT ![p] = NoCall]
      /\ UNCHANGED <<running, fds, pos, torn>>

\* Mutant of SeekFails: lseek() is called without going through errno.
SeekFailsSilently(p) ==
  /\ dirErrors < MaxDirErrors
  /\ dirErrors' = dirErrors + 1
  /\ Returns(errno[p], Unset)
  /\ call' = [call EXCEPT ![p] = NoCall]
  /\ torn' = [torn EXCEPT ![fds[p][call[p].fd]] = TRUE]
  /\ UNCHANGED <<running, fds, pos, errno, returned>>

\* lseek() fails: the rest of the batch is lost, and the caller is told.
SeekFails(p) ==
  /\ dirErrors < MaxDirErrors
  /\ dirErrors' = dirErrors + 1
  /\ SetErrno(p, "E")
  /\ Returns("E", Unset)
  /\ call' = [call EXCEPT ![p] = NoCall]
  /\ torn' = [torn EXCEPT ![fds[p][call[p].fd]] = TRUE]
  /\ UNCHANGED <<running, fds, pos, returned>>

ReaddirSeek(p) ==
  /\ p \in running /\ call[p] # NoCall
  /\ SeekBack(p) \/ SeekFails(p)

-----------------------------------------------------------------------------

DirentInit ==
  /\ running = {Parent}
  /\ fds = [p \in Process |-> [fd \in Fd |-> Closed]]
  /\ pos = [d \in Desc |-> 0]
  /\ errno = [p \in Process |-> "0"]
  /\ call = [p \in Process |-> NoCall]
  /\ ret = [err |-> "E", result |-> Unset]
  /\ dirErrors = 0
  /\ returned = [d \in Desc |-> <<>>]
  /\ torn = [d \in Desc |-> FALSE]

Dirp == {Complement(fd) : fd \in Fd} \cup {0}

DirentNext ==
  \E p \in Process :
    \/ Opendir(p)
    \/ Fdopendir(p, -1)
    \/ \E dirp \in Dirp : Closedir(p, dirp)
    \/ \E dirp \in Dirp : Readdir(p, dirp)
    \/ ReaddirSeek(p)
    \/ \E child \in Process : Fork(p, child)

\* A call that was started returns, and the program calls readdir_r() over and
\* over, as a loop that lists a directory does.
DirentFairness ==
  \A p \in Process :
    /\ WF_direntVars(ReaddirSeek(p))
    /\ \A dirp \in Dirp : SF_direntVars(Readdir(p, dirp) /\ ~NotOpen(p, dirp))

DirentSpec == DirentInit /\ [][DirentNext]_direntVars /\ DirentFairness

-----------------------------------------------------------------------------
(* Properties.                                                             *)

DirentTypeOK ==
  /\ running \subseteq Process
  /\ fds \in [Process -> [Fd -> Desc \cup {Closed}]]
  /\ pos \in [Desc -> 0 .. NEntries]
  /\ errno \in [Process -> Errno]
  /\ call \in [Process -> [fd : Fd, entry : Entry] \cup {NoCall}]
  /\ ret \in [err : Errno, result : Entry \cup {Null, Unset}]
  /\ dirErrors \in 0 .. MaxDirErrors
  /\ returned \in [Desc -> Seq(Entry)]
  /\ torn \in [Desc -> BOOLEAN]

\* The entries before the one the next call on d will return.
Passed(d) ==
  LET inside == {p \in running : call[p] # NoCall /\ fds[p][call[p].fd] = d}
  IN  IF inside = {} THEN pos[d]
      ELSE call[CHOOSE p \in inside : TRUE].entry - 1

\* The calls of all the processes that share a stream together return each
\* entry once and in order, as long as they do not overlap and lseek() moves
\* the offset back: nothing a batch held is lost or seen twice.
EachEntryOnce ==
  \A d \in Desc :
    InUse(d) /\ ~torn[d] => returned[d] = [i \in 1 .. Passed(d) |-> i]

\* When readdir_r() returns 0, *result is an entry or NULL: never is an error
\* taken from an errno that no failed call has set.
ZeroMeansResult == ret.err = "0" => ret.result # Unset

\* "Make sure the non-returned ones are not skipped": an entry that lies before
\* the offset was returned to a reader.
NotSkipped ==
  \A d \in Desc :
    InUse(d) /\ ~torn[d] => \A e \in 1 .. Passed(d) : \E i \in 1 .. Len(returned[d]) :
                                                         returned[d][i] = e

\* What module Listing calls the status of d, the entries seen on it, and the streams
\* of which a call is taking an entry.
Listed(d) == InUse(d) /\ ~torn[d]
Status(d) == IF Listed(d) THEN "listed" ELSE IF InUse(d) THEN "lost" ELSE "closed"
Seen(d)   == IF Listed(d) THEN returned[d] ELSE <<>>
Taking(d) == Listed(d) /\ \E p \in running : call[p] # NoCall /\ fds[p][call[p].fd] = d

L == INSTANCE Listing WITH
       Stream  <- Desc,
       Dir     <- [i \in Entry |-> i],
       Nothing <- Null,
       status  <- [d \in Desc |-> Status(d)],
       seen    <- [d \in Desc |-> Seen(d)],
       inside  <- {d \in Desc : Taking(d)},
       told    <- ret

\* Processes that share a stream see the queue of module Listing: calls that do not
\* overlap take its entries one after the other, and the end of the directory is told
\* when all of them were returned, or while another process is about to get one.
StreamsAreListings == L!ListingSpec

\* A program that goes on calling readdir_r() gets to see every entry of a
\* stream, unless it closes it: each call moves the offset by one entry.
EveryEntryListed ==
  \A p \in Process, fd \in Fd, d \in Desc :
    fds[p][fd] = d ~> \/ fds[p][fd] # d
                      \/ torn[d]
                      \/ Len(returned[d]) = NEntries
=============================================================================
