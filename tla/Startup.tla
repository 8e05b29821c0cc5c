------------------------------- MODULE Startup ------------------------------
(***************************************************************************)
(* The start and the end of a process: _start_c() sets the guard of the     *)
(* stack protector, finds argc, argv, environ and _auxv in the words that   *)
(* the kernel left on the stack, and calls the constructors, main() and the *)
(* destructors.  Any of these functions may look up a variable or an entry  *)
(* of the auxiliary vector, and may end the process.                       *)
(*                                                                         *)
(* Words of the stack are numbers and pointers; a word of the guard is the  *)
(* set of its bits that are 1, so that 0 is the empty set.                 *)
(***************************************************************************)
EXTENDS Integers, Sequences

CONSTANTS
  Argc,            \* the numbers of arguments
  EnvV,            \* the environments, sequences of strings
  AuxV,            \* the auxiliary vectors, sequences of pairs of type and value
  Name,            \* the names given to getenv(), none with a = in it
  AuxType,         \* the types given to getauxval()
  Bit,             \* the bits of a word
  GuardAddress,    \* &__stack_chk_guard
  Preinits, Inits, Finis,   \* the lengths of the three arrays
  ExitCode         \* the values main() returns and exit() is given

ASSUME StartupAssumption ==
  /\ GuardAddress \in (SUBSET Bit) \ {{}}
  /\ Preinits \in Nat /\ Inits \in Nat /\ Finis \in Nat
  /\ Argc \subseteq Nat /\ ExitCode \subseteq Int
  /\ EnvV \subseteq Seq(Seq(STRING)) /\ AuxV \subseteq Seq(Nat \X Nat)
  /\ \A a \in AuxV : \A i \in DOMAIN a : a[i][1] # 0
  /\ Name \subseteq Seq(STRING)
  /\ \A name \in Name : \A i \in DOMAIN name : name[i] # "="

VARIABLES
  env, aux,       \* what the kernel was given for the new process
  stack,          \* the words from sp on
  argc, argv, environ, auxv,   \* a number, and places on the stack or NULL
  guard,          \* __stack_chk_guard
  phase,          \* the loop of _start_c(), or how the process has ended
  func,           \* ctor_func or dtor_func, as an index into its array
  running,        \* whether a function of the program runs
  ran,            \* the functions that were called
  status,         \* the exit code
  found           \* what the last lookup was for, and its result

startupVars == <<env, aux, stack, argc, argv, environ, auxv, guard, phase, func, running,
                 ran, status, found>>

NULL == 0

Num(n)    == <<"num", n>>
ArgPtr(i) == <<"arg", i>>
EnvPtr(i) == <<"env", i>>

\* The words the kernel pushes for the process.
KernelStack(n, e, a) ==
  <<Num(n)>> \o [i \in 1 .. n |-> ArgPtr(i)] \o <<Num(0)>>
    \o [i \in 1 .. Len(e) |-> EnvPtr(i)] \o <<Num(0)>>
    \o [i \in 1 .. (2 * Len(a)) |-> Num(a[(i + 1) \div 2][2 - (i % 2)])] \o <<Num(0), Num(0)>>

sp == 1

Ended == phase \in {"exited", "aborted", "spins"}

-----------------------------------------------------------------------------
(* Before the first function.                                              *)

Xor(v, w) == (v \ w) \cup (w \ v)

\* Mutant of Guard: the address is mixed in without a look at the random word.
GuardMixed(random) == Xor(random, GuardAddress)

\* The guard is 0 only if it equals the address it is mixed with.
Guard(random) ==
  IF random # GuardAddress THEN Xor(random, GuardAddress) ELSE random

\* getrandom() gives any word, or fails and leaves the 0 that is there.
__stack_chk_init ==
  /\ phase = "enter"
  /\ \E random \in SUBSET Bit : guard' = Guard(random)
  /\ phase' = "walk"
  /\ UNCHANGED <<env, aux, stack, argc, argv, environ, auxv, func, running, ran, status, found>>

\* Mutant of BehindNull: the zero itself.
AtNull(i) == CHOOSE k \in i .. Len(stack) :
               stack[k] = Num(0) /\ \A j \in i .. (k - 1) : stack[j] # Num(0)

\* The word behind the first zero from i on.
BehindNull(i) == 1 + CHOOSE k \in i .. Len(stack) :
                       stack[k] = Num(0) /\ \A j \in i .. (k - 1) : stack[j] # Num(0)

Walk ==
  /\ phase = "walk"
  /\ argc' = stack[sp][2]
  /\ argv' = sp + 1
  /\ environ' = argv' + argc' + 1
  /\ auxv' = BehindNull(environ')
  /\ phase' = "preinit" /\ func' = 1
  /\ UNCHANGED <<env, aux, stack, guard, running, ran, status, found>>

-----------------------------------------------------------------------------
(* The functions of the program.                                           *)

Calls(f) ==
  /\ running' = TRUE
  /\ ran' = Append(ran, f)
  /\ UNCHANGED <<env, aux, stack, argc, argv, environ, auxv, guard, phase, status, found>>

NextPhase(p, i) ==
  /\ phase' = p /\ func' = i
  /\ UNCHANGED <<env, aux, stack, argc, argv, environ, auxv, guard, running, ran, status, found>>

Constructor ==
  /\ ~running
  /\ \/ phase = "preinit" /\ func <= Preinits /\ Calls(<<"preinit", func>>) /\ func' = func + 1
     \/ phase = "preinit" /\ func > Preinits /\ NextPhase("init", 1)
     \/ phase = "init" /\ func <= Inits /\ Calls(<<"init", func>>) /\ func' = func + 1
     \/ phase = "init" /\ func > Inits /\ NextPhase("main", 1)

Main ==
  /\ ~running
  /\ phase = "main"
  /\ Calls(<<"main", 1>>) /\ UNCHANGED func

\* Mutant of DestructorAt: from the first one on.
DestructorFromFirst(i) == Finis + 1 - (i - 1)

\* The one before dtor_func.
DestructorAt(i) == i - 1

Destructor ==
  /\ ~running
  /\ phase = "fini" /\ func > 1
  /\ Calls(<<"fini", DestructorAt(func)>>)
  /\ func' = func - 1

\* exit(), _exit() and the end of _start_c(): the kernel is given eight bits.
Exit(code) ==
  /\ phase' = "exited"
  /\ status' = code % 256
  /\ running' = FALSE
  /\ UNCHANGED <<env, aux, stack, argc, argv, environ, auxv, guard, func, ran, found>>

\* A function returns; main() does with an exit code.
Return(code) ==
  /\ running /\ ~Ended
  /\ running' = FALSE
  /\ IF phase = "main"
       THEN phase' = "fini" /\ func' = Finis + 1 /\ status' = code
       ELSE UNCHANGED <<phase, func, status>>
  /\ UNCHANGED <<env, aux, stack, argc, argv, environ, auxv, guard, ran, found>>

LastExit == ~running /\ phase = "fini" /\ func = 1 /\ Exit(status)

ProgramExits == running /\ \E code \in ExitCode : Exit(code)

\* abort() and __stack_chk_fail(): SIGABRT ends the process, or it is ignored
\* since before the start and the endless loop behind the kill() is reached.
Abort ==
  /\ running
  /\ phase' \in {"aborted", "spins"}
  /\ running' = FALSE
  /\ UNCHANGED <<env, aux, stack, argc, argv, environ, auxv, guard, func, ran, status, found>>

-----------------------------------------------------------------------------
(* Lookups.                                                                *)

\* A lookup of key finds the string or number result, or nothing.
Found(kind, key, result) == [kind |-> kind, key |-> key, result |-> result]
Nothing == <<"NULL">>

\* Mutant of Matches: a name that goes on is a match too.
MatchesPrefix(name, string) == Len(name) <= Len(string) /\ SubSeq(string, 1, Len(name)) = name

\* The string starts with the name, and = follows.
Matches(name, string) ==
  /\ Len(name) < Len(string)
  /\ SubSeq(string, 1, Len(name)) = name
  /\ string[Len(name) + 1] = "="

getenv(name) ==
  LET String(i) == env[stack[i][2]]
      end   == BehindNull(environ) - 1
      match == {i \in environ .. (end - 1) : Matches(name, String(i))}
      first == CHOOSE i \in match : \A j \in match : i <= j
  IN  IF environ = NULL THEN Nothing
      ELSE IF match = {} THEN Nothing
      ELSE SubSeq(String(first), Len(name) + 2, Len(String(first)))

\* Mutant of IsLast: a value of 0 ends the vector.
IsLastValue(i) == stack[i + 1] = Num(0)

IsLast(i) == stack[i] = Num(0) /\ stack[i + 1] = Num(0)

getauxval(type) ==
  LET Pair(k) == auxv + 2 * k
      stop    == CHOOSE k \in 0 .. Len(stack) :
                   /\ IsLast(Pair(k)) \/ stack[Pair(k)] = Num(type)
                   /\ \A j \in 0 .. (k - 1) : ~IsLast(Pair(j)) /\ stack[Pair(j)] # Num(type)
  IN  IF auxv = NULL \/ IsLast(Pair(stop)) THEN Num(0) ELSE stack[Pair(stop) + 1]

Lookup ==
  /\ running
  /\ \/ \E name \in Name : found' = Found("env", name, getenv(name))
     \/ \E type \in AuxType : found' = Found("aux", type, getauxval(type))
  /\ UNCHANGED <<env, aux, stack, argc, argv, environ, auxv, guard, phase, func, running, ran,
                 status>>

\* environ is the program's too.
ClearEnviron ==
  /\ running
  /\ environ' = NULL
  /\ found' = Found("none", Nothing, Nothing)
  /\ UNCHANGED <<env, aux, stack, argc, argv, auxv, guard, phase, func, running, ran, status>>

-----------------------------------------------------------------------------

StartupInit ==
  /\ env \in EnvV /\ aux \in AuxV
  /\ \E n \in Argc : stack = KernelStack(n, env, aux)
  /\ argc = 0 /\ argv = NULL /\ environ = NULL /\ auxv = NULL
  /\ guard = {}
  /\ phase = "enter" /\ func = 1 /\ running = FALSE /\ ran = <<>>
  /\ status = 0 /\ found = Found("none", Nothing, Nothing)

StartupNext ==
  \/ __stack_chk_init
  \/ Walk
  \/ Constructor
  \/ Main
  \/ Destructor
  \/ \E code \in ExitCode : Return(code)
  \/ LastExit
  \/ ProgramExits
  \/ Abort
  \/ Lookup
  \/ ClearEnviron

StartupSpec == StartupInit /\ [][StartupNext]_startupVars

-----------------------------------------------------------------------------
(* Properties.                                                             *)

StartupTypeOK ==
  /\ env \in EnvV /\ aux \in AuxV
  /\ argc \in Argc \cup {0}
  /\ {argv, environ, auxv} \subseteq 0 .. Len(stack)
  /\ guard \subseteq Bit
  /\ phase \in {"enter", "walk", "preinit", "init", "main", "fini", "exited", "aborted", "spins"}
  /\ func \in Nat /\ running \in BOOLEAN /\ status \in ExitCode \cup 0 .. 255
  /\ found.kind \in {"none", "env", "aux"}

\* The functions of the process in the order they have to run.
Order == [i \in 1 .. Preinits |-> <<"preinit", i>>] \o [i \in 1 .. Inits |-> <<"init", i>>]
           \o <<<<"main", 1>>>> \o [i \in 1 .. Finis |-> <<"fini", Finis + 1 - i>>]

\* Constructors in the order of their arrays, main(), destructors in reverse, each
\* once and none after one of them has ended the process; a process in which none
\* does so ends after the last destructor, with a code that wait() can tell.  The
\* first of them finds the guard set already, and whatever getrandom() gave or did
\* not give, none runs with a guard of 0 in its frame.
FunctionsInOrder ==
  /\ ran = SubSeq(Order, 1, Len(ran))
  /\ ~Ended /\ ~running /\ phase = "fini" /\ func = 1 => ran = Order
  /\ phase = "exited" => status \in 0 .. 255
  /\ running => guard # {}

\* The part of a variable before its first =, and what is behind it.
NameOf(string)  == LET eq == {i \in DOMAIN string : string[i] = "="}
                   IN  IF eq = {} THEN string
                       ELSE SubSeq(string, 1, (CHOOSE i \in eq : \A j \in eq : i <= j) - 1)
ValueOf(string) == SubSeq(string, Len(NameOf(string)) + 2, Len(string))

\* The variable name of the environment; the strings without a = are none.
Variable(name) ==
  LET of    == {i \in DOMAIN env : NameOf(env[i]) = name /\ Len(name) < Len(env[i])}
      first == CHOOSE i \in of : \A j \in of : i <= j
  IN  IF of = {} \/ environ = NULL THEN Nothing ELSE ValueOf(env[first])

Auxiliary(type) ==
  LET of    == {i \in DOMAIN aux : aux[i][1] = type}
      first == CHOOSE i \in of : \A j \in of : i <= j
  IN  IF of = {} THEN Num(0) ELSE Num(aux[first][2])

\* The three vectors that the kernel pushed, each with its end: argv with its NULL at
\* argc, environ unless the program has cleared it, and the pairs behind it.
VectorsFound ==
  /\ stack[argv + argc] = Num(0) /\ \A i \in 1 .. argc : stack[argv + i - 1] = ArgPtr(i)
  /\ environ # NULL =>
       /\ stack[environ + Len(env)] = Num(0)
       /\ \A i \in 1 .. Len(env) : stack[environ + i - 1] = EnvPtr(i)
  /\ \A i \in 1 .. Len(aux) : /\ stack[auxv + 2 * i - 2] = Num(aux[i][1])
                              /\ stack[auxv + 2 * i - 1] = Num(aux[i][2])

\* In every function, the first constructor too, the walk over the words of the stack
\* has found the vectors, and getenv() and getauxval() find what the kernel passed,
\* also where a name is the beginning of another or a value is 0.
LookupsFind ==
  running =>
    /\ VectorsFound
    /\ found.kind = "env" => found.result = Variable(found.key)
    /\ found.kind = "aux" => found.result = Auxiliary(found.key)
=============================================================================
