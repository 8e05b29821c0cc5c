# A verification of nolibc in TLA+

nolibc is a C library in header files for small static programs on Linux. Its functions are thin, but
they carry state all the same: a heap made of mappings, streams and directories that are nothing but a
descriptor, a static position inside `argv`, a status word put together again from a siginfo, a timeout
that half of the kernels write back, and twelve conventions for the way into the kernel. This directory
holds TLA+ modules of those parts, the TLC runs that check them on small instances, and TLAPS proofs
about them for every value of their constants.

    tlc -workers 2 -config MCHeap.cfg MCHeap     # a run; all of them are listed below
    tlapm MemoryProofs.tla                       # proofs; all modules *Proofs.tla and Arithmetic.tla

Source lines are given as `file:line`, relative to `src/`.

## Inventory

| part | state it keeps | operations | hard behaviours | what makes it correct |
|---|---|---|---|---|
| system call macros, `__sysret` (`arch-*.h`, `sys.h`, `sys/mman.h`) | registers, the stack, `errno` | `my_syscall0` .. `my_syscall6`, `__sysret`, the test of `mmap` | a signal at any instruction, arguments on the stack, a frame pointer that is borrowed, errors told by a sign, a range or a flag | the kernel gets every argument; the compiler finds what it kept; -1 exactly for errors |
| heap (`stdlib.h`, `string.h`) | mappings and the headers inside them | `malloc`, `calloc`, `realloc`, `free`, `strdup`, `strndup` | sums and products that wrap in `size_t`; refused `mmap` and `munmap` | blocks apart, nothing lost, room for what was asked, contents kept |
| directories (`dirent.h`) | the offset of an open file, in the kernel | `opendir`, `fdopendir`, `closedir`, `readdir_r` | two system calls per entry, an offset shared across `fork`, errors between the two | each entry once and in order; 0 only with a result |
| streams (`stdio.h`) | none but the descriptor | `fwrite`, `fputs`, `puts`, `fputc`, `fgets`, `fgetc` | short writes, signals, several writers, a reader that goes away | exact counts, nothing twice, nothing dropped, every call returns |
| descriptors and their pointers (`stdio.h`, `dirent.h`, `sys.h`) | the descriptors of the process, in the kernel | `fopen`, `fdopen`, `fileno`, `fclose`, `opendir`, `fdopendir`, `closedir`, `open`, `close`, `dup`, `dup2`, `pipe` | a pointer without memory that outlives its descriptor; errors replaced on the way; standard streams closed | each pointer means the file it was opened for, no descriptor is lost |
| formatted output (`stdio.h`) | the scan of the format, the room that is left | `printf` and relatives, `snprintf` and relatives | modifiers and widths that outlive their directive, pieces cut by the room, a failing stream | the output is what the format says, cut where room or stream end |
| processes (`sys/wait.h`, `types.h`, `sys.h`) | the children and their changes of state, in the kernel | `fork`, `exit`, `wait`, `waitpid`, the `W*` macros | children that change meanwhile, selectors, `WNOHANG`, signals | the child selected, the status of `wait4`, no zombie left |
| options (`getopt.h`) | `optind`, `optarg`, `optopt`, a static position in a word | `getopt` | the position going stale, arguments in the word or the next or missing | the options a reading of `argv` gives; an end |
| start-up and end (`crt.h`, `_start`, `stdlib.h`, `sys/auxv.h`) | `environ`, `_auxv`, the place in the arrays of constructors | `_start_c`, `exit`, `_exit`, `abort`, `getenv`, `getauxval` | `exit` inside a constructor or destructor; walks without a length | order of constructors and destructors, the vectors the kernel pushed, names and values found |
| stack protector (`stackprotector.h`) | the guard | `__stack_chk_init`, `__stack_chk_fail` | `getrandom` that fails or gives the address of the guard | a guard that is never 0 in a function |
| waiting (`unistd.h`, `poll.h`, `sys.h`) | a timeout | `sleep`, `msleep`, `usleep`, `poll`, `select`, `FD_*` | signals, kernels that write the rest back and kernels that do not | no sleep shorter than it says; a loop of sleeps ends |
| clocks and timers (`time.h`, `sys/time.h`, `sys/timerfd.h`) | the program's structures | `clock_*`, `timerfd_*`, `gettimeofday`, `time` | two sizes of seconds; conversions after a call that failed; one structure for the old and the new setting | the program is told the kernel's times and the kernel the program's |
| strings (`string.h`) | none | `memmove`, `memcpy`, `strlcpy`, `strlcat`, `strncat`, `strstr` ... | areas that overlap, sizes 0 and 1 | equal to their definitions, no other byte written |
| numbers (`stdlib.h`) | a static buffer | `utoa`, `itoa`, `utoh`, `atol`, `strtol` and relatives | overflow, minimum values, `endptr` | the numeral of the number, the number of the text |
| formatted input (`stdio.h`) | the walks through format and text | `sscanf`, `vsscanf` | digits that are missing, sizes of types, ends in the middle of a directive | what was printed is read back; neither walk leaves its text |
| break and offsets (`sys.h`) | the break, an offset | `brk`, `sbrk`, `lseek` | a kernel that refuses without an error number; 32-bit offsets | success and failure told apart; a position told is the one there is |
| system call wrappers (`sys.h`, `sys/*.h`) | none | one call and `__sysret` each | | `__sysret` |
| `errno` | the variable | `SET_ERRNO` | set twice or not at all | part of each property above |
| declarations, build, example | none | | | |

How they interact. Every function reaches the kernel through a `my_syscall` macro and nearly every one
through `__sysret`, which sets `errno`. `malloc` uses `mmap` with a test of its own; `strdup` uses
`malloc`. `printf` uses `_fwrite` on a stream, `memcpy` on a buffer, and the number conversions, `sscanf` the
opposite ones. `getopt` prints with `fprintf`. `fopen` is `open` and `fdopen`. `msleep` waits in `select`. Between
processes, the kernel's open files and pipes are shared by `fork`; a signal handler of the program shares
the stack and `errno` with what it interrupts. There are no threads and the library calls no function of
the program, apart from `main`, constructors and destructors.

## Modules

Every module says in its head what a step is. Definitions named as mutants (`\* Mutant of ...`) are
forms that a plausible bug would have; the specifications never use them, and each property of a run is
broken by one. Two groups of modules are run together, since their parts share no state but `errno`:
`MCProcess` (Startup, Sleep, Break, Clocks, Files, Wait) and `MCText` (Strings, Numbers, Scanf, Getopt) choose one
part at the start and are the disjunction of their next-state relations. `MCBreak`, `MCWait` and `MCGetopt` have the
instances of three of the parts.

**Errno**, **SizeT** and **Words** hold what several modules need: the error number with its macro, sums and
products modulo SIZE_MAX + 1, and integers of a given width in two's complement.

**Heap** (`stdlib.h:111-206`, `string.h:179-212`). State: the bytes that are mapped, the word in the
header of each block, the pointers the program holds with the size it asked for, the bytes that do not
hold zero, `errno`, and bytes that a refused `munmap` left. A call is a step: a process has a heap of its
own and one thread. `mmap` places a mapping anywhere it fits and may always refuse. All sums and
products are taken modulo `SizeMax + 1`, as `size_t` does. A `realloc` whose `memcpy` would pass the end of
the new block sets `overrun` and the model stops there: the code's behaviour is undefined from then on.

**Allocator** is what `Heap` promises a program: areas that do not overlap, each with its contents.
`Heap` implements it under the mapping at its end (`A`): a stored byte is a nonzero byte of an area that
was promised, and the promise is void after an overrun.

**Dirent** (`dirent.h:28-98`). A step is a system call, so that another process can come between the
`getdents64` and the `lseek` of a `readdir_r`. State: per process the descriptors, `errno` and the call in
progress; per open file the offset; and, for the properties, what readers were given (`returned`) and
whether calls overlapped or a seek failed (`torn`). A d_off is the number of entries before it.
`BadCookie` holds the entries whose d_off looks like -1 when it is cut to an int.

**Listing** is what `Dirent` promises the processes that share a stream: a queue of entries, of which one call
at a time takes the first, whose end is told when none is left. `Dirent` implements it under the mapping at
its end (`L`): a stream is closed when no process has it open, and lost, without a promise, from the time two
calls overlap or `lseek` fails until all have closed it. The abstract step that tells the end has a
second case: while a process is between its two system calls the offset is behind a whole batch, and a second
process that asks then may be told the end before the entries of that batch were returned.

**Streams** (`stdio.h:133-259`). Several writers and one reader of a pipe; a step is a system call. A call
is a record of the items asked for and those written; `puts` is one item whose last byte has a `write` of
its own. Bytes carry their writer and number, which is how the properties recognise them.

**Files** (`stdio.h:54-148`, `dirent.h:40-49`, `fcntl.h`, the wrappers in `sys.h`). The descriptors of one
process and the pointers it made of them, `~fd`: a pointer or number that the program has is a record of
where it is and what it was opened for. Any order of opening, closing, duplicating and redirecting, on
kernels with and without `dup3`, with the standard streams open or not.

**Printf** (`stdio.h:270-519`). A behaviour is one call; a step reads a character, a directive, or hands a
piece to the callback. The variables are those of `__nolibc_printf`. `Reading` and `Expected` are the
definition it is compared with: they look at the whole format, without a scan. `Reading` gives the
directives from each character on, `Output` what the first so many of them print. The conversions of
numbers are given by what they do; `Modulus` is how many values each type has, a char too, to which `%c` cuts
its argument, so that a multiple of 256 prints nothing. `%m` tells the `errno` of the moment: `CallErrno`, which
the program has at the call, or one of `WriteErrno` once a `write` has failed. `Fits` says that the output is
shorter than the buffer, or than SIZE_MAX for a stream, which has that for `n` (`stdio.h:401-404`).

**Wait** (`sys/wait.h:54-116`, `types.h:127-131`). The children are processes of the kernel that stop, go on,
end and change group on their own; `waitpid` is a step, as `waitid` in it is one system call and the
rest works on local variables. `KernelStatus` is the status of `wait4`. `Status` has a child that was trapped
with one that was stopped, as the code has; no child of the model is traced. A `si_code` of none of the kinds, for
which the code returns -1 (`sys/wait.h:103`), is not one of the kernel's.

**Getopt** (`getopt.h:18-99`). `argv` and `optstring` are chosen at the start, the program calls `getopt` in a
loop and may start over with `optind = 0` in the middle of a word. `OptionsOfArgv` compares the calls
with a recursive function that reads `argv` from left to right.

**Syscall** (`arch-*.h`, `sys.h:58-65`, `sys/mman.h:41-50`). An architecture is a record of registers and of what its
macros name as changed; `Before` and `After` are the instructions around the trap, where there are any.
A small machine runs them one by one, with a signal handler between any two. The kernel's side (which
registers it reads and does not preserve) is taken from the comments above the macros. The sixth argument of
i386 is in memory: a word of the caller's frame (`FrameWord`) that the instruction addresses through the stack
pointer (`PushAt`), and so another word once something was pushed before.

**Startup** (`crt.h`, `stackprotector.h`, `stdlib.h:72-143`, `sys/auxv.h`). `stack` holds the words that the
kernel pushed: `argc`, `argv`, the environment, the auxiliary vector. A step is the guard, the walk, a
function that begins, returns, looks something up, or ends the process with `exit` or `abort`. A word of
the guard is the set of its bits, so that 0 is the empty set.

**Sleep** (`unistd.h:70-101`, `sys.h:771-803`, `poll.h`). A call, then the kernel's timeout, a signal or a
refusal. Time passes only while the process sleeps. `writesBack` tells the kernels on which `select` leaves
the rest in the timeval from those reached by `pselect6` or `ppoll`. A program may take what a sleep
says is left and sleep again (`Again`), which is the loop that `sleep(3)` has its result for.

**Break** (`sys.h:105-134` and `:580-621`). The kernel moves the break or does not, and answers with where it
is; `lseek` has the system call or the fallback with `llseek`, whose low and high words are those of the code.
`PositionsTold` is what holds. `BrkZeroMeansMoved` and `SbrkReturnsPrevious` are what man(2) says, which
`sys.h:87-89` names as the interface; the runs of `MCBreak` refute both.

**Clocks** (`time.h`, `sys/time.h`, `sys/timerfd.h`). The clock and a timer of the kernel, whose seconds
may be more than the program's `time_t` holds; the structures of the program and those on the stack of
the library, which hold anything until the kernel fills them. `time64` tells the kernels with calls for
64-bit times, where structures are converted, from those without. `TimesTold` speaks of failed calls too: they
change neither clock nor timer, and the one structure that may be spoiled is that which the call was to fill.

**Strings** (`string.h`, `arch-x86_64.h:206-221`). Memory is a function from places to bytes. `memmove` and
`memcpy` copy a byte per step in the order of the code, or as the x86_64 assembler does (`rep`); every
other function is a function of memory.

**Numbers** (`stdlib.h:81-563`) has the digit loops of `utoa`, `itoa`, `utoh` and of `atol` and `__strtox` as
recursive functions over the digits, a turn of the loop each (`DecimalDigit`, `HexDigit`, `Accumulate`). A type has
`Modulus[t]` values, an even number that divides that of the widest type. **Scanf** (`stdio.h:522-617`) walks
through a format and a text, a directive per step. Its calls have any format and text of a set, or what
`printf` writes with a format that both share: a sequence of pieces (`Piece`), which are a number with its
conversion, a character, `%%`, or blanks that need not be as many in the text. Behind a number comes nothing
that could be a part of it (`MayFollow`), as no `sscanf` could tell. `TextSpec` is either of the two.

Proof modules: **MemoryProofs** (Heap and Strings), **DescriptorProofs** (Dirent and Streams), **PrintfProofs**,
**ProcessProofs** (Startup and Sleep, and what the kernel keeps for a process: Break, Clocks, Files, Wait),
**NumbersProofs** (Numbers and Scanf), **GetoptProofs** and **SyscallProofs**. **Arithmetic** has the lemmas that several of them cite: remainders,
that every nonempty set of naturals has a least element, induction, and that a function defined by recursion
exists and is what its steps make. Dirent has names like `DirentNext` where Streams has `Next`, as one module reaches both.

## Runs

| run | instance | what it shows |
|---|---|---|
| `heap` | 3 pages of 4 bytes, header of 2, 32 values of `size_t`; requests 0, 2, 3, 11, 29 and 31 | no sequence of calls lets blocks overlap, loses a mapping, gives too little room or loses a block when it fails; `Allocator` is implemented; the requests reach the wrap in the rounding (29) and in the header (31), and products that wrap |
| `dirent` | 2 processes, 2 open files, 3 entries, batches of up to 2, 1 kernel error | entries once and in order unless calls overlap; a listing ends; `Listing` is implemented |
| `dirent_cookie` | one bad d_off | finding 1 |
| `streams` | 2 writers of 3 bytes and 1, a pipe of 2, 1 signal, lines of 3 | counts, order, lines and progress, with every split of every write |
| `printf` | all formats of up to 4 characters out of 6 and of 5 out of 5, and longer ones; buffers of 0, 1, 3 and SIZE_MAX bytes, a stream with 1 failure and its error | output and result are those of the format |
| `wait_macros` | 1 child, 2 exit values, 1 signal | finding 2 |
| `syscall` | all 12 conventions, 0 to 6 arguments, words of 4 bits, 3 error numbers, 1 signal | arguments, registers, errors |
| `syscall_s390` | s390 | finding 3 |
| `process` | 1 function in preinit, 2 constructors, 2 destructors, 3 environments and auxiliary vectors; seconds of 2 ms of 2 us of 2 ns, an int and a time_t from -4 to 3, 3 signals; addresses to 9, an off_t from -4 to 3 and a file of 6 bytes; 3 descriptors, 1 file name, 6 modes; 2 children, 2 exit values (one above 255), all selectors, 3 sets of options, 1 signal | start and end in order with an exit anywhere; sleeps that are not too short, and end; positions and times told as they are; pointers that mean their files; selectors, statuses, ECHILD, reaping |
| `text` | memories of 5 bytes of 0, 1 and 255, a `size_t` of 4 bits; an int, a long and a long long of 4, 8 and 12 bits, texts of up to 3 characters out of 8 and 5 out of 3; one or two numbers at the borders of each type with a character, blanks or `%%` between; any other formats of up to 4 characters and texts of up to 2; an `argv` of up to 3 words out of 11, 3 option strings, 1 restart | strings and numbers are what their definitions say; what `printf` writes `sscanf` reads; the options of `argv`, and an end |
| `brk` | addresses to 9 of which the kernel gives those from 3 to 7 | finding 4 |
| `sbrk` | the same | finding 5 |

Why the bounds are enough. Three pages are the least that `realloc` needs to move a block while another
one is live. Two entries make a batch with something to be lost, and the third tells a skipped entry
from the end. A pipe of two bytes splits a write of three in every way, and a line buffer of three (two
characters) is shorter than what is written. Directives interact with the one before them only, so that
two of them in five characters, with a modifier between, show what is carried over. Two children are
needed to wait for the wrong one. The third word of `argv` is what an option with an argument may swallow
wrongly. For system calls only the position of an instruction and of a signal matters: each macro has at
most six instructions. Two constructors and destructors have an order. Two units of each size in the
next make every rounding and every carry happen, and the narrow int and `time_t` let the conversions
overflow. The file is longer than an `off_t` can tell, and addresses end above the kernel's limit for the
break, so that each wrap is met. Three descriptors are the standard streams, which may be closed, redirected
and opened again. Five bytes hold two areas of three that overlap in both directions, or two strings with
room to write on; bytes 0, 1 and 255 tell signed comparisons from unsigned ones. Texts of five digits pass
the greatest number of 8 and of 12 bits and wrap a product around. The counters of errors and signals
bound disturbances, not the calls; one of them lets each error path be taken at every point, and
the proofs need no bound at all.

CHECK_DEADLOCK is off where the system may stop: the heap after an undefined `memcpy`, streams that are
all closed, a format that has been printed, an `argv` that has been read, a process that has ended
(`process`), a call that has returned (`text`).

Fairness. *Dirent*: a call that was started goes on (weak), and a process goes on calling `readdir_r` on
each stream it has open (strong, since another process can be inside a call, or close and open
streams): this is the loop of a program that lists a directory. *Streams*: a system call that can go on does,
which is the kernel's part, and the reader's program asks for another line when it has one. *Wait*: the
program calls `wait()` again and again, in the behaviours of `process` that are about children. *Getopt*: the
program's loop, in those of `text` that scan an `argv`. *Sleep*: a timeout comes, the kernel
refuses what it has to refuse, and the program sleeps again while it is told that something is left, as
long as signals, of which there are finitely many, do not go on forever. Nothing else is assumed fair:
no writer has to write, no child to exit, no process to close anything.

## Findings

1. `dirent_cookie`: `readdir_r` keeps the result of `lseek` in an int (`dirent.h:89`). For a d_off whose low 32
   bits are all ones, the seek that succeeded is taken for a failure, and the entry is skipped, against the
   comment at `dirent.h:84-88`.
2. `wait_macros`: `WIFSIGNALED(0)` is true (`types.h:131`), so that after `exit(0)` both it and `WIFEXITED` hold.
3. `syscall_s390`: `arch-s390.h:22` says that the kernel clobbers r1, which none of the macros tells the compiler.

The other two are of functions whose interface, as `sys.h:87-88` says of all exported ones, "must closely
match the one documented in man(2)".

4. `brk`: `brk()` returns 0 also when the kernel refuses (`sys.h:116`), since the kernel's answer is then the old
   break, which is not NULL.
5. `sbrk`: `sbrk()` returns the new break (`sys.h:130`), not the previous one, at which the new memory begins.

Met on the way, where the properties say what the code does, without a run of their own:

* Heap: `malloc` of a size within `sizeof(struct nolibc_heap)` of SIZE_MAX wraps to a small or empty block
  (`Representable`).
* Printf: padding is not taken off the room left in a buffer (`Truncates`), `snprintf` with size 0 puts its
  terminator in front of the buffer, text follows padding that could not be written (`FailureCutsText`), and
  `%5ld` has no width, as the `l` ends it (`Reading`). A `%m` behind padding that could not be written tells
  the error of that write, not the one the program had (`FailureCutsText` leaves out formats with both).
* Break: the fallback of `lseek` fails for negative offsets, as `llseek` is given a high word of 0 (`sys.h:611`),
  and reports EOVERFLOW after the offset moved (`PositionsTold`).
* Files: `fopen("rb+")` is read-only, as only the second character is looked at; its errno from `open()` is
  replaced by EBADF; `dup2(fd, fd)` fails with EINVAL where it is a `dup3`.
* Sleep: `usleep()` returns -EINTR without setting `errno`; `msleep` of more than INT_MAX can tell a negative
  rest; a `sleep` of more seconds than `time_t` holds is refused each time, so that a loop of it does not end
  (`SleepLoopEnds` leaves it out).
* Clocks: a failed call through 64-bit times overwrites the structure it was to fill with what was on the
  library's stack (`TimesTold`, which permits it for that structure and for no other).
* Strings: `strchr` and `strrchr` do not find the terminator, and `strstr` with an empty needle gives NULL (`Did`).
* Numbers: `strtoull` misses an overflow whose product wraps to a larger value (`ReadsAs`), and `strtoul` of a
  negative number that is too large gives 1.
* Scanf: a directive that finds no digit counts as a match, and a `%%` without a `%` ends the call with the
  matches so far, not EOF.

## Proofs

All theorems are about the specifications as they are, for every value of their constants that the
`ASSUME` of the module allows (what the code has: a header smaller than a page, a SIZE_MAX one below a
multiple of the page size, bytes below 256, positive units of time ...).

**Heap** (`MemoryProofs`). `HeapTypeOK`, `HeapBlocksDisjoint`, `HeapNothingLost`, `HeapCapacity` are the invariants
of the run, `HeapFailedCall` the action property that a call which returns NULL has set `errno` and changes
no block. None of the invariants is inductive alone: whether `free` leaves the other blocks alone depends on
the length in its header, that length on no other call having written there, and that on blocks being
disjoint. `IInv` is their conjunction with `Rooted`: a live pointer has its header, with the length of at
least a page, at an address that can be mapped. Without `Rooted` a pointer whose header is 0 would have an
empty block, which is disjoint from everything, and `realloc` of it could do anything. There is a lemma
for each thing a call can do to the heap (no block touched, a block added, one taken away, one moved, one
resized in place, a write by the program), each with a step per conjunct of `IInv`; below them are lemmas
of arithmetic: what `%` does near a multiple, that a sum of two sizes loses at most one multiple of
SIZE_MAX + 1 (`WrapFacts`), that the rounding gives 0 or enough (`RoundedLenFacts`), and that calloc's
division lets through only products that `size_t` holds (`CallocFacts`). `HeapImplementsAllocator` is the
refinement: under `IInv` each area of the allocator lies in its block and shares no byte with another
(`AreaFacts`), so that each call maps to an Allocate, Release, Resize, Store, to the end of the promise, or
to a stutter.

**Dirent** (`DescriptorProofs`). `DirentTypes`, which no run needs to check; and, assuming `BadCookie = {}`,
`EntriesOnceInOrder` and `ZeroComesWithResult`. The run `dirent_cookie` shows that the assumption is needed.
`DirentInv` adds to the types that calls are on open streams and `Ordered`: as long as a stream is not torn,
at most one process is inside a call on it and holds the entry behind those returned, and with none inside the
offset is behind them. The property alone is not inductive: between the two system calls the offset says
nothing about what was returned. `DirentImplementsListing` is the refinement, from the same invariant and
under the same assumption: each system call is an abstract step on one stream and leaves what `Listing` says
of the others alone (`StreamKept`, `OnlyOne`), or changes no stream at all (`NothingListed`).

**Streams** (`DescriptorProofs`). `StreamsTypes`, `NothingReadIsDropped`, `BytesInOrderOnce`,
`ItemsAreCounted`. `TypeInv` adds to the types that a call in progress has a byte left to write and that its
writer has all of them. `OrderInv` relates the pipe to the calls: the bytes of a writer that were sent come
before its `Position` (what it gave, and the items and bytes of the call in progress), those of the call in
progress up to there were all sent, and of the last call those it counted and less than an item more
(`Counted`). The products of items and sizes are the hard part for the provers and are in `ItemFacts`.

**Printf** (`PrintfProofs`). `PrintfTypes`, `PrintfPrintsFormat`, `PrintfTruncates` and
`PrintfFailureCutsText`, for any set of formats, any arguments of the types these ask for, any sizes and any
number of failures. The properties speak of calls that are over; `Inductive` says what holds in the middle of
one. The call is at a directive (`Placed`): behind the character s the format reads as the directives that are
left (`From`), and the variables of the scan are those of that place (`Scanned`) - inside a directive, `lpref`
counts its modifiers and no conversion was passed over (`Inside`), which is what a modifier left from the
directive before would break. What was handed over, with the piece that is `Pending`, is the output of the
directives read. `Sends` relates this to a destination with room for all of it, where only blanks may be
missing after a failure, and `Fills` to a buffer that may be too small, where it is cut and `n` is what is
left of the room. Both speak of `Held`, what `n` was already made smaller by for a piece that is not written
yet: without it nothing would tell that a `memcpy` stays in the buffer. Below are lemmas about the definition:
that each character has a reading and it is a sequence of directives (`ReadingDefined`, by recursion on the
characters that are left), that the output of the first directives is the beginning of that of more
(`OutputBegins`), that leaving out blanks goes piece by piece (`NotBlankOfConcat`), and how a directive is
read in the order of the scan, a modifier at a time (`InsideReads`, `ModifierGoesOn`). As a `%m` takes
`errno`, `ErrnoInv` says that it is `CallErrno` until a write fails, after which the call goes on only behind
padding; `Tracked` is when the output follows the definition: it fits, and no write failed in a format with
both a width and a `%m`. Both errors are any numbers. The hypothesis `Fits` is needed: padding is not taken
off the room, so that output which does not fit may be cut in the middle or go past the buffer.

**Break, Clocks, Files** (`ProcessProofs`). `BreakTypes` and `PositionsAreTold` (inductive together: `sbrk`
says -1 exactly when the break is not where it was to go, and an offset told is the one there is and the one
asked for), `ClocksTypes` and `TimesAreTold` (an action property, from the ranges of the times and from what
each call fills), and `PointersMeanFiles`: `FilesInv` is the property with the table and the handles as
parameters, so that lemmas tell what a handle more, a handle less or another one does to it.

**Wait** (`ProcessProofs`). `StatusIsThatOfWait4` and `ReportsSelectedChild`. `WaitInv` has that a pending change of
a child is one that `waitid` can report, with an exit value of eight bits or a signal.

**Startup** (`ProcessProofs`). `WalkFindsVectors`: the walk of `_start_c` finds `argv`, the environment and the
auxiliary vector for any lengths, from `WalkInv`, which says where they are, and a lemma on the layout of
the stack (`StackLaid`). `FunctionsRunInOrder`: `OrderInv` says for each phase how many functions have run
(`Progress`), that they are the first of their order (`Beginning`), and that the guard is set and the exit
code has eight bits (`GuardAndStatus`).

`LookupsFindWhatWasPassed`: a `getenv` or `getauxval` gives what a search of the vectors that the kernel was
given would find (`LookupInv`), under the assumption that a name contains no `=`: of the others the code
compares the `=` as well.

**Sleep** (`ProcessProofs`). `SleepTypes` and `SleepsAreAccounted`: what was slept and the rest that is told
cover what was asked for; where the kernel writes the rest back, they exceed it by less than a unit for each
signal. `SleepInv` follows this sum (`Accounted`) through the conversions of a call, in which the time is
first in the argument, then in `tv`, then in the result, each rounded up at most. It is assumed that a
`time_t` is at least as wide as an int (`Words`), which is true of each architecture.

**Getopt** (`GetoptProofs`). `GetoptTypes`, `PositionIsUnread` and `CallsReadArgv`. `PositionInv` says where the next
call starts: at the first character of a word, or in a word of options at a flag that has not been
returned. `ReadingInv` says what was returned: the results are the beginning of what the definition reads
from the first word, and the rest of them is what it reads from the current word on, of which as many
are over as flags were passed. The definition, `Reading`, is a recursive function from the last word down;
that it exists, and so that it satisfies its equation at each word, is proved with the least word at
which it would not (`LowestNatural`).

**Syscall** (`SyscallProofs`). `SyscallTypes`, `ArgumentsAlwaysArrive`, `CompilerValuesKept` and
`RefusalIsTold`, for any set of the twelve architectures, any width of words and any number of signals.
`SyscallInv` has an assertion for each place in a macro: one that is only a trap, and the macros of Thumb,
mips and the i386 with six arguments, which move values before and after it. Each says which registers and
which words of the stack hold the arguments, what was saved, and where the stack pointer is. A signal
overwrites what is below the stack pointer, and `StaysInPlace` is the lemma that everything these assertions
are about is in a register or above. The frame of the caller is as `FrameWord` says at each place, with the
sixth argument of i386 in it. `Told` ties the result to the range of errors that the kernel answers.

**Strings** (`MemoryProofs`). `MovesAsIfCopied`: `memmove`, and `memcpy` of areas apart, leave at the destination
what was at the source. `CopyInv` says which bytes are done, from which end, and that none of the source
bytes to come is among them. `StringFunctionsAsDefined`: every other function returns and writes what its
definition says (`Did`), and no other byte changes. Searches stop at the least place where their condition
holds (`Until`), so that a string is the bytes up to its terminator; comparisons are decided where the
two strings part (`PartAt`); a bounded copy leaves a part of the destination, a part of the source and a
terminator (`Parts`, `TextStored`). The sum in `strlcat` does not wrap, since a memory with two strings in it is
not larger than SIZE_MAX.

**Numbers and Scanf** (`NumbersProofs`). `NumbersAreReadBack` is the invariant of the run, and the theorems below it
can be read alone. `DecimalsWritten`, `HexadecimalsWritten` and `SignedWritten`: what the loops write is a numeral
(`IsWritten`) - its digits stand for the number and none in front is a zero. The invariant of the loop is
`Written`: what is written so far, times the power to come, and what is left in `in` are the number, and `in` is
below that power; `DigitStepKeeps` and `DigitStepCloses` are one turn and the last. `ReadsWhatTextSays`: the
reading loop adds up modulo 2^w what the definition adds up without bound, and its flag is compared with it
in `SumKept`: a sum that fits sets no flag, and one beyond the limit by less than a round sets it, since then
what is left of it modulo 2^w is less than the sum before, or itself beyond. `NumberIsReadBack` puts the two
together for each conversion and any surroundings: the sign and the base are found where they were written
(`NumberIsFound`), the digits end where what follows cannot be one, and what the pointer's type keeps is the
number.

The invariant of the specification is `TextInv`, of three parts. `NumbersInv` has the results of a conversion that
was made. `WalkInv` has the walk through any format and text within both, at their terminators at most, with
the result told by what was stored; for `%` at the end of a format it needs that a modifier is no terminator
(`PatternFacts`). `PrintedInv` is what makes the property inductive: on what `printf` wrote, the walk is between
two pieces, and at the same ones in format and text; what it has stored are the numbers of those behind it. A
step takes it behind the next piece, whichever kind that is (`NumberStep`, `PlainStep`, `PercentStep`, `SpacesStep`,
each of which has to show that no other action is possible there). In between are the beginnings of a
sequence of sequences (`JoinedFacts`), which say where a piece lies.

Only model-checked is all liveness (`EveryEntryListed`, `LoopEnds`, `SleepLoopEnds`, `CallsReturn`, `EverythingRead`,
`NoZombieStays`), as fairness and ENABLED are out of reach of the provers.

The induction theorems of the library take an operator as a parameter, which none of the provers can
instantiate. Where an induction was needed and possible (the reading of `argv` and of formats, the layout of
the stack, the strings, the digits) it is made with sets instead: the set of places at which a claim fails has a least
element. `Arithmetic` has this as `InductionByRank` and `InductionUpTo`, and with them that a recursive definition in
which each value comes from one of a lower rank has a solution (`RecursionExists`), so that its equation may
be used.

## Plan

What is left, in this order:

1. A refinement: a pipe as one sequence of bytes to which calls append.
2. **select**: the sets of descriptors, once `FD_CLR` and `FD_ISSET` compile.
3. **getrlimit**, **stat**: the structures converted on the way.

## Not modelled

`vfork`, `clone` and `fork` on sparc and s390 have system calls of their own shape; `sys_mmap` on s390
passes a block of arguments. The wrappers that are one system call add nothing to `Syscall`; `raise()` is two
of them without a condition. `FD_CLR` and `FD_ISSET` name macros that do not exist. The instructions of
`_start` align the stack and pass its pointer. Constants, types, `ctype.h`, `math.h` and the build have no
state. What a signal handler of the program does to `errno` is the program's: nolibc installs none. Code
compiled with `NOLIBC_IGNORE_ERRNO` behaves the same without `errno`. The names of directory entries, messages
on stderr, the contents of files, and the text of `strerror` are left out, as no property tells them apart. Output of
more than INT_MAX characters, on which the `written` and `width` of `__nolibc_printf` overflow, is left out too.
