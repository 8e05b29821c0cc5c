-------------------------------- MODULE Files -------------------------------
(***************************************************************************)
(* Descriptors and the pointers made of them.  A FILE or a DIR has no       *)
(* memory: its pointer is the complement of a descriptor, so that NULL is   *)
(* none and a pointer to anything else is told by its sign.  The program     *)
(* opens, closes and duplicates both kinds of handles in any order; the      *)
(* kernel gives out the lowest number that is free.                         *)
(*                                                                         *)
(* The contents of files are left out, and so are their truncation and modes. *)
(***************************************************************************)
EXTENDS Errno, Sequences

CONSTANTS
  FdMax,        \* the largest descriptor of the process
  FileName,     \* the names of files
  StreamMode,   \* the modes given to fopen(), sequences of characters
  Wild          \* pointers to other things, positive as the sign of an address is

ASSUME FilesAssumption == FdMax \in Nat /\ Wild \subseteq Nat \ {0}

VARIABLES
  table,      \* the descriptors of the process, in the kernel
  files,      \* the names of files that exist
  streams,    \* the FILE and DIR pointers the program has, with what it opened them for
  numbers,    \* the descriptors it has as numbers, with what it opened them for
  hasDup3     \* whether the kernel's headers know dup3()

filesVars == <<table, files, streams, numbers, hasDup3>>

EBADF  == 9
ENOENT == 2
EMFILE == 24

Fd   == 0 .. FdMax
Null == 0

\* What a descriptor is open for, and whether what is written goes to the end.
Open(name, access, append) == [name |-> name, access |-> access, append |-> append]
Terminal        == Open("tty", {"read", "write"}, FALSE)
PipeEnd(access) == Open("pipe", {access}, FALSE)
Closed          == Open("closed", {}, FALSE)

Free == {fd \in Fd : table[fd] = Closed}

Lowest(fds) == CHOOSE fd \in fds : \A other \in fds : fd <= other

\* __sysret() of a call that the kernel refuses, or an error that the library finds.
Error(error) == SET_ERRNO(error) /\ UNCHANGED filesVars

Handle(at, of) == [at |-> at, of |-> of]

HasStream(at, of) == streams' = streams \cup {Handle(at, of)} /\ UNCHANGED numbers
HasNumber(at, of) == numbers' = numbers \cup {Handle(at, of)} /\ UNCHANGED streams

-----------------------------------------------------------------------------
(* Pointers.                                                               *)

\* Mutant of FileOf: the negative of the descriptor, which is NULL for 0.
FileOfNegative(fd) == -fd

\* ~fd
FileOf(fd) == -fd - 1

fileno(stream) == IF stream >= 0 THEN -1 ELSE -stream - 1

\* fileno(), fclose() and closedir() refuse NULL, fflush() does not; all refuse a
\* pointer to something else.
BadStream == Error(EBADF)

fflush(stream) == stream > 0 /\ BadStream

-----------------------------------------------------------------------------
(* Opening.                                                                *)

O_RDONLY == 0
O_WRONLY == 1
O_RDWR   == 2

Access(flags) == CASE flags = O_RDONLY -> {"read"}
                   [] flags = O_WRONLY -> {"write"}
                   [] flags = O_RDWR   -> {"read", "write"}
                   [] OTHER -> {}

CannotOpen(name, create) == (name \notin files /\ ~create) \/ Free = {}

\* The kernel opens a file at the lowest free descriptor.
openat(name, access, create, append) ==
  /\ table' = [table EXCEPT ![Lowest(Free)] = Open(name, Access(access), append)]
  /\ files' = files \cup {name}
  /\ UNCHANGED <<hasDup3, errno>>

OpenError(name, create) == IF name \notin files /\ ~create THEN ENOENT ELSE EMFILE

Plus(mode) == Len(mode) > 1 /\ mode[2] = "+"

ModeAccess(mode) == IF mode[1] = "r" THEN O_RDONLY ELSE O_WRONLY

\* Mutant of ReadWrite: the bits of O_RDWR are added to those of O_WRONLY.
ReadWriteUnmasked(access) == IF access = O_WRONLY THEN 3 ELSE O_RDWR

\* (flags & ~(O_RDONLY | O_WRONLY)) | O_RDWR
ReadWrite(access) == O_RDWR

\* What a program means by a mode: r, w or a, and a + in the second place.
Wanted(name, mode) ==
  LET main == IF mode[1] = "r" THEN "read" ELSE "write"
  IN  Open(name, IF Plus(mode) THEN {"read", "write"} ELSE {main}, mode[1] = "a")

\* When open() gives -1, fdopen() refuses it in turn: errno is not that of open().
fopen(name, mode) ==
  LET access == IF Plus(mode) THEN ReadWrite(ModeAccess(mode)) ELSE ModeAccess(mode)
      create == mode[1] # "r"
  IN  IF mode = <<>> \/ mode[1] \notin {"r", "w", "a"} THEN Error(EINVAL)
      ELSE IF CannotOpen(name, create) THEN Error(EBADF)
      ELSE /\ openat(name, access, create, mode[1] = "a")
           /\ HasStream(FileOf(Lowest(Free)), Wanted(name, mode))

\* opendir() looks at the result of open() itself.
opendir(name) ==
  IF CannotOpen(name, FALSE) THEN Error(OpenError(name, FALSE))
  ELSE /\ openat(name, O_RDONLY, FALSE, FALSE)
       /\ HasStream(FileOf(Lowest(Free)), Open(name, {"read"}, FALSE))

open(name, create) ==
  IF CannotOpen(name, create) THEN Error(OpenError(name, create))
  ELSE /\ openat(name, O_RDWR, create, FALSE)
       /\ HasNumber(Lowest(Free), Open(name, {"read", "write"}, FALSE))

\* A number becomes a stream; fdopen() and fdopendir() look at its sign only.
fdopen(fd) ==
  IF fd < 0 THEN Error(EBADF)
  ELSE \E n \in numbers :
         /\ n.at = fd
         /\ streams' = streams \cup {Handle(FileOf(fd), n.of)}
         /\ numbers' = numbers \ {n}
         /\ UNCHANGED <<table, files, hasDup3, errno>>

\* Both ends, or none.
pipe ==
  LET in  == Lowest(Free)
      out == Lowest(Free \ {in})
  IN  IF ~\E fd, other \in Free : fd # other THEN Error(EMFILE)
      ELSE /\ table' = [table EXCEPT ![in] = PipeEnd("read"), ![out] = PipeEnd("write")]
           /\ numbers' = numbers \cup {Handle(in, PipeEnd("read")), Handle(out, PipeEnd("write"))}
           /\ UNCHANGED <<files, streams, hasDup3, errno>>

-----------------------------------------------------------------------------
(* Closing, and one descriptor in the place of another.                    *)

\* The stream or the number of fd is the program's no more.
close(fd) ==
  IF fd \notin Fd \ Free THEN Error(EBADF)
  ELSE /\ table' = [table EXCEPT ![fd] = Closed]
       /\ streams' = {s \in streams : fileno(s.at) # fd}
       /\ numbers' = {n \in numbers : n.at # fd}
       /\ UNCHANGED <<files, hasDup3, errno>>

\* fclose() and closedir().
fclose(stream) == IF stream >= 0 THEN BadStream ELSE close(fileno(stream))

dup(fd) ==
  IF fd \notin Fd \ Free THEN Error(EBADF)
  ELSE IF Free = {} THEN Error(EMFILE)
  ELSE /\ table' = [table EXCEPT ![Lowest(Free)] = table[fd]]
       /\ HasNumber(Lowest(Free), table[fd])
       /\ UNCHANGED <<files, hasDup3, errno>>

\* What the program has at new, a stream or a number, means something else now; where
\* it had nothing it has a number.
Redirects(new, of) ==
  /\ streams' = {IF fileno(s.at) = new THEN Handle(s.at, of) ELSE s : s \in streams}
  /\ numbers' = {IF n.at = new THEN Handle(new, of) ELSE n : n \in numbers}
                  \cup (IF new \in Free THEN {Handle(new, of)} ELSE {})

\* dup2() is dup3() where there is one, which refuses two equal descriptors.
dup2(old, new) ==
  IF old = new /\ hasDup3 THEN Error(EINVAL)
  ELSE IF old \notin Fd \ Free \/ new \notin Fd THEN Error(EBADF)
  ELSE IF old = new THEN UNCHANGED <<filesVars, errno>>
  ELSE /\ table' = [table EXCEPT ![new] = table[old]]
       /\ Redirects(new, table[old])
       /\ UNCHANGED <<files, hasDup3, errno>>

-----------------------------------------------------------------------------

\* A process is started with any of the three standard streams, each on a terminal.
FilesInit ==
  \E std \in SUBSET (Fd \cap 0 .. 2) :
    /\ table = [fd \in Fd |-> IF fd \in std THEN Terminal ELSE Closed]
    /\ streams = {Handle(FileOf(fd), Terminal) : fd \in std}
    /\ numbers = {}
    /\ files \in SUBSET FileName
    /\ hasDup3 \in BOOLEAN

AnyFd == -1 .. FdMax + 1

\* fclose() of a pointer that was closed before too, and one descriptor closed or
\* redirected behind the stream that was made of it.
FilesNext ==
  \/ \E name \in FileName, mode \in StreamMode : fopen(name, mode)
  \/ \E name \in FileName : opendir(name)
  \/ \E name \in FileName, create \in BOOLEAN : open(name, create)
  \/ \E fd \in Fd \cup {-1} : fdopen(fd)
  \/ pipe
  \/ \E fd \in AnyFd : close(fd) \/ dup(fd)
  \/ \E old, new \in AnyFd : dup2(old, new)
  \/ \E stream \in Wild \cup {Null} \cup {FileOf(fd) : fd \in Fd} : fclose(stream) \/ fflush(stream)

FilesSpec == FilesInit /\ errno = 0 /\ [][FilesNext]_<<filesVars, errno>>

-----------------------------------------------------------------------------
(* Properties.                                                             *)

\* Whatever was opened, closed, piped and duplicated before, in whichever order and
\* with the standard streams open or not: each FILE, DIR and number that the program
\* has is that of a descriptor which is open on what it was opened or redirected to,
\* for what was asked; no two are one descriptor's, and no open descriptor is without
\* one, so that none is lost when a call fails or the pointer of 0 is told from NULL.
HandlesMeanFiles ==
  LET Of(h)   == IF h.at < 0 THEN -1 - h.at ELSE h.at
      handles == streams \cup numbers
  IN  /\ \A s \in streams : s.at < 0
      /\ \A h \in handles : Of(h) \in Fd /\ h.of = table[Of(h)] /\ h.of # Closed
      /\ \A fd \in Fd \ Free : \E h \in handles : Of(h) = fd
      /\ \A g, h \in handles : Of(g) = Of(h) => g = h
=============================================================================
